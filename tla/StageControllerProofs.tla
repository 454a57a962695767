---------------------- MODULE StageControllerProofs ----------------------
(***************************************************************************)
(* Safety of StageController for any number of runs, contracts and tries,  *)
(* and for any set of faults.                                              *)
(***************************************************************************)
EXTENDS StageController, TLAPS

(* The type invariant is kept, given what each phase has in hand. *)
LEMMA TypeStep ==
  ASSUME TypeOK, HandInv, PassInv, [Next]_vars
  PROVE  TypeOK'
<1> USE DEF TypeOK, controllerVars, cloudVars, boxVars, Provisioning, Using,
            Ended, Powers, Verdicts, StatusFiles, HandInv, PassInv
<1>1. ASSUME NEW c \in Controllers, AcquireLock(c)
      PROVE  TypeOK'
  BY <1>1 DEF AcquireLock, Goto
<1>2. ASSUME NEW c \in Controllers, FindRunning(c)
      PROVE  TypeOK'
  BY <1>2 DEF FindRunning, ProvisionReturns
<1>3. ASSUME NEW c \in Controllers, FindStopped(c)
      PROVE  TypeOK'
  BY <1>3 DEF FindStopped, Goto
<1>4. ASSUME NEW c \in Controllers, FindNothing(c)
      PROVE  TypeOK'
  BY <1>4 DEF FindNothing, Goto
<1>5. ASSUME NEW c \in Controllers, NoOffers(c)
      PROVE  TypeOK'
  BY <1>5 DEF NoOffers, ProvisionRaises
<1>6. ASSUME NEW c \in Controllers, CreateInstance(c)
      PROVE  TypeOK'
  BY <1>6 DEF CreateInstance, Goto
<1>7. ASSUME NEW c \in Controllers, LabelInstance(c)
      PROVE  TypeOK'
  BY <1>7 DEF LabelInstance, Goto
<1>8. ASSUME NEW c \in Controllers, BootReady(c)
      PROVE  TypeOK'
  BY <1>8 DEF BootReady, ProvisionReturns
<1>9. ASSUME NEW c \in Controllers, BootNotReady(c)
      PROVE  TypeOK'
  BY <1>9 DEF BootNotReady, Goto
<1>10. ASSUME NEW c \in Controllers, BootGivesUp(c)
      PROVE  TypeOK'
  BY <1>10 DEF BootGivesUp, ProvisionRaises
<1>11. ASSUME NEW c \in Controllers, StartInstance(c)
      PROVE  TypeOK'
  BY <1>11 DEF StartInstance, Goto
<1>12. ASSUME NEW c \in Controllers, StartReady(c)
      PROVE  TypeOK'
  BY <1>12 DEF StartReady, ProvisionReturns
<1>13. ASSUME NEW c \in Controllers, StartNotReady(c)
      PROVE  TypeOK'
  BY <1>13 DEF StartNotReady, Goto
<1>14. ASSUME NEW c \in Controllers, StartGivesUp(c)
      PROVE  TypeOK'
  BY <1>14 DEF StartGivesUp, ProvisionRaises
<1>15. ASSUME NEW c \in Controllers, DeploySucceeds(c)
      PROVE  TypeOK'
  BY <1>15 DEF DeploySucceeds, Goto
<1>16. ASSUME NEW c \in Controllers, LaunchSucceeds(c)
      PROVE  TypeOK'
  BY <1>16 DEF LaunchSucceeds, Launches, Goto
<1>17. ASSUME NEW c \in Controllers, LaunchRefused(c)
      PROVE  TypeOK'
  BY <1>17 DEF LaunchRefused, Goto
<1>18. ASSUME NEW c \in Controllers, PollUntilDone(c)
      PROVE  TypeOK'
  BY <1>18 DEF PollUntilDone, Goto
<1>19. ASSUME NEW c \in Controllers, PullLog(c)
      PROVE  TypeOK'
  BY <1>19 DEF PullLog, Goto
<1>20. ASSUME NEW c \in Controllers, StopInstance(c)
      PROVE  TypeOK'
  BY <1>20 DEF StopInstance, Goto
<1>21. ASSUME NEW c \in Controllers, ApiFails(c)
      PROVE  TypeOK'
  BY <1>21 DEF ApiFails, ProvisionRaises
<1>22. ASSUME NEW c \in Controllers, DeployRaises(c)
      PROVE  TypeOK'
  BY <1>22 DEF DeployRaises
<1>23. ASSUME NEW c \in Controllers, LaunchAnswerLost(c)
      PROVE  TypeOK'
  BY <1>23 DEF LaunchAnswerLost, Launches
<1>24. ASSUME NEW c \in Controllers, StopRaises(c)
      PROVE  TypeOK'
  BY <1>24 DEF StopRaises, Goto
<1>25. ASSUME NEW c \in Controllers, Killed(c)
      PROVE  TypeOK'
  BY <1>25 DEF Killed, Active
<1>26. ASSUME NEW i \in Instances, JobFirstWrite(i)
      PROVE  TypeOK'
  BY <1>26 DEF JobFirstWrite, Writes
<1>27. ASSUME NEW i \in Instances, JobVerdict(i)
      PROVE  TypeOK'
  BY <1>27 DEF JobVerdict, Writes, Writing
<1>28. ASSUME NEW i \in Instances, JobFails(i)
      PROVE  TypeOK'
  BY <1>28 DEF JobFails, Writes, Writing
<1>29. ASSUME NEW i \in Instances, JobDone(i)
      PROVE  TypeOK'
  BY <1>29 DEF JobDone, Writes, Writing
<1>30. ASSUME NEW i \in Instances, JobEnds(i)
      PROVE  TypeOK'
  BY <1>30 DEF JobEnds
<1>31. ASSUME NEW i \in Instances, Boots(i)
      PROVE  TypeOK'
  BY <1>31 DEF Boots
<1>32. ASSUME NEW i \in Instances, Preempted(i)
      PROVE  TypeOK'
  BY <1>32 DEF Preempted
<1>33. ASSUME NEW i \in Instances, JobDies(i)
      PROVE  TypeOK'
  BY <1>33 DEF JobDies
<1>34. CASE UNCHANGED vars
  BY <1>34 DEF vars
<1>35. QED
  BY <1>1, <1>2, <1>3, <1>4, <1>5, <1>6, <1>7, <1>8, <1>9, <1>10, <1>11, <1>12, <1>13, <1>14, <1>15, <1>16, <1>17, <1>18, <1>19, <1>20, <1>21, <1>22, <1>23, <1>24, <1>25, <1>26, <1>27, <1>28, <1>29, <1>30, <1>31, <1>32, <1>33, <1>34
     DEF Next, Provision, UseInstance, ControllerFault, Job, Cloud

(* The lock follows its holder through every way out of provision(). *)
LEMMA LockStep ==
  ASSUME TypeOK, LockInv, [Next]_vars
  PROVE  LockInv'
<1> USE ConstantsAssumption DEF TypeOK, controllerVars, cloudVars, boxVars, Provisioning, Using,
            LockInv, Ended
<1>1. ASSUME NEW c \in Controllers, AcquireLock(c)
      PROVE  LockInv'
  BY <1>1 DEF AcquireLock, Goto
<1>2. ASSUME NEW c \in Controllers, FindRunning(c)
      PROVE  LockInv'
  BY <1>2 DEF FindRunning, ProvisionReturns
<1>3. ASSUME NEW c \in Controllers, FindStopped(c)
      PROVE  LockInv'
  BY <1>3 DEF FindStopped, Goto
<1>4. ASSUME NEW c \in Controllers, FindNothing(c)
      PROVE  LockInv'
  BY <1>4 DEF FindNothing, Goto
<1>5. ASSUME NEW c \in Controllers, NoOffers(c)
      PROVE  LockInv'
  BY <1>5 DEF NoOffers, ProvisionRaises
<1>6. ASSUME NEW c \in Controllers, CreateInstance(c)
      PROVE  LockInv'
  BY <1>6 DEF CreateInstance, Goto
<1>7. ASSUME NEW c \in Controllers, LabelInstance(c)
      PROVE  LockInv'
  BY <1>7 DEF LabelInstance, Goto
<1>8. ASSUME NEW c \in Controllers, BootReady(c)
      PROVE  LockInv'
  BY <1>8 DEF BootReady, ProvisionReturns
<1>9. ASSUME NEW c \in Controllers, BootNotReady(c)
      PROVE  LockInv'
  BY <1>9 DEF BootNotReady, Goto
<1>10. ASSUME NEW c \in Controllers, BootGivesUp(c)
      PROVE  LockInv'
  BY <1>10 DEF BootGivesUp, ProvisionRaises
<1>11. ASSUME NEW c \in Controllers, StartInstance(c)
      PROVE  LockInv'
  BY <1>11 DEF StartInstance, Goto
<1>12. ASSUME NEW c \in Controllers, StartReady(c)
      PROVE  LockInv'
  BY <1>12 DEF StartReady, ProvisionReturns
<1>13. ASSUME NEW c \in Controllers, StartNotReady(c)
      PROVE  LockInv'
  BY <1>13 DEF StartNotReady, Goto
<1>14. ASSUME NEW c \in Controllers, StartGivesUp(c)
      PROVE  LockInv'
  BY <1>14 DEF StartGivesUp, ProvisionRaises
<1>15. ASSUME NEW c \in Controllers, DeploySucceeds(c)
      PROVE  LockInv'
  BY <1>15 DEF DeploySucceeds, Goto
<1>16. ASSUME NEW c \in Controllers, LaunchSucceeds(c)
      PROVE  LockInv'
  BY <1>16 DEF LaunchSucceeds, Launches, Goto
<1>17. ASSUME NEW c \in Controllers, LaunchRefused(c)
      PROVE  LockInv'
  BY <1>17 DEF LaunchRefused, Goto
<1>18. ASSUME NEW c \in Controllers, PollUntilDone(c)
      PROVE  LockInv'
  BY <1>18 DEF PollUntilDone, Goto
<1>19. ASSUME NEW c \in Controllers, PullLog(c)
      PROVE  LockInv'
  BY <1>19 DEF PullLog, Goto
<1>20. ASSUME NEW c \in Controllers, StopInstance(c)
      PROVE  LockInv'
  BY <1>20 DEF StopInstance, Goto
<1>21. ASSUME NEW c \in Controllers, ApiFails(c)
      PROVE  LockInv'
  BY <1>21 DEF ApiFails, ProvisionRaises
<1>22. ASSUME NEW c \in Controllers, DeployRaises(c)
      PROVE  LockInv'
  BY <1>22 DEF DeployRaises
<1>23. ASSUME NEW c \in Controllers, LaunchAnswerLost(c)
      PROVE  LockInv'
  BY <1>23 DEF LaunchAnswerLost, Launches
<1>24. ASSUME NEW c \in Controllers, StopRaises(c)
      PROVE  LockInv'
  BY <1>24 DEF StopRaises, Goto
<1>25. ASSUME NEW c \in Controllers, Killed(c)
      PROVE  LockInv'
  BY <1>25 DEF Killed, Active
<1>26. ASSUME NEW i \in Instances, JobFirstWrite(i)
      PROVE  LockInv'
  BY <1>26 DEF JobFirstWrite, Writes
<1>27. ASSUME NEW i \in Instances, JobVerdict(i)
      PROVE  LockInv'
  BY <1>27 DEF JobVerdict, Writes, Writing
<1>28. ASSUME NEW i \in Instances, JobFails(i)
      PROVE  LockInv'
  BY <1>28 DEF JobFails, Writes, Writing
<1>29. ASSUME NEW i \in Instances, JobDone(i)
      PROVE  LockInv'
  BY <1>29 DEF JobDone, Writes, Writing
<1>30. ASSUME NEW i \in Instances, JobEnds(i)
      PROVE  LockInv'
  BY <1>30 DEF JobEnds
<1>31. ASSUME NEW i \in Instances, Boots(i)
      PROVE  LockInv'
  BY <1>31 DEF Boots
<1>32. ASSUME NEW i \in Instances, Preempted(i)
      PROVE  LockInv'
  BY <1>32 DEF Preempted
<1>33. ASSUME NEW i \in Instances, JobDies(i)
      PROVE  LockInv'
  BY <1>33 DEF JobDies
<1>34. CASE UNCHANGED vars
  BY <1>34 DEF vars
<1>35. QED
  BY <1>1, <1>2, <1>3, <1>4, <1>5, <1>6, <1>7, <1>8, <1>9, <1>10, <1>11, <1>12, <1>13, <1>14, <1>15, <1>16, <1>17, <1>18, <1>19, <1>20, <1>21, <1>22, <1>23, <1>24, <1>25, <1>26, <1>27, <1>28, <1>29, <1>30, <1>31, <1>32, <1>33, <1>34
     DEF Next, Provision, UseInstance, ControllerFault, Job, Cloud

(* What a run has in hand: no other run labels or takes a contract while the
   lock is held, and labels are never removed. *)
LEMMA HandStep ==
  ASSUME TypeOK, LockInv, HandInv, [Next]_vars
  PROVE  HandInv'
<1> USE ConstantsAssumption DEF TypeOK, controllerVars, cloudVars, boxVars, Provisioning, Using,
            LockInv, HandInv, Ended, Powers
<1>1. ASSUME NEW c \in Controllers, AcquireLock(c)
      PROVE  HandInv'
  BY <1>1 DEF AcquireLock, Goto
<1>2. ASSUME NEW c \in Controllers, FindRunning(c)
      PROVE  HandInv'
  BY <1>2 DEF FindRunning, ProvisionReturns
<1>3. ASSUME NEW c \in Controllers, FindStopped(c)
      PROVE  HandInv'
  BY <1>3 DEF FindStopped, Goto
<1>4. ASSUME NEW c \in Controllers, FindNothing(c)
      PROVE  HandInv'
  BY <1>4 DEF FindNothing, Goto
<1>5. ASSUME NEW c \in Controllers, NoOffers(c)
      PROVE  HandInv'
  BY <1>5 DEF NoOffers, ProvisionRaises
<1>6. ASSUME NEW c \in Controllers, CreateInstance(c)
      PROVE  HandInv'
  BY <1>6 DEF CreateInstance, Goto
<1>7. ASSUME NEW c \in Controllers, LabelInstance(c)
      PROVE  HandInv'
  BY <1>7 DEF LabelInstance, Goto
<1>8. ASSUME NEW c \in Controllers, BootReady(c)
      PROVE  HandInv'
  BY <1>8 DEF BootReady, ProvisionReturns
<1>9. ASSUME NEW c \in Controllers, BootNotReady(c)
      PROVE  HandInv'
  BY <1>9 DEF BootNotReady, Goto
<1>10. ASSUME NEW c \in Controllers, BootGivesUp(c)
      PROVE  HandInv'
  BY <1>10 DEF BootGivesUp, ProvisionRaises
<1>11. ASSUME NEW c \in Controllers, StartInstance(c)
      PROVE  HandInv'
  BY <1>11 DEF StartInstance, Goto
<1>12. ASSUME NEW c \in Controllers, StartReady(c)
      PROVE  HandInv'
  BY <1>12 DEF StartReady, ProvisionReturns
<1>13. ASSUME NEW c \in Controllers, StartNotReady(c)
      PROVE  HandInv'
  BY <1>13 DEF StartNotReady, Goto
<1>14. ASSUME NEW c \in Controllers, StartGivesUp(c)
      PROVE  HandInv'
  BY <1>14 DEF StartGivesUp, ProvisionRaises
<1>15. ASSUME NEW c \in Controllers, DeploySucceeds(c)
      PROVE  HandInv'
  BY <1>15 DEF DeploySucceeds, Goto
<1>16. ASSUME NEW c \in Controllers, LaunchSucceeds(c)
      PROVE  HandInv'
  BY <1>16 DEF LaunchSucceeds, Launches, Goto
<1>17. ASSUME NEW c \in Controllers, LaunchRefused(c)
      PROVE  HandInv'
  BY <1>17 DEF LaunchRefused, Goto
<1>18. ASSUME NEW c \in Controllers, PollUntilDone(c)
      PROVE  HandInv'
  BY <1>18 DEF PollUntilDone, Goto
<1>19. ASSUME NEW c \in Controllers, PullLog(c)
      PROVE  HandInv'
  BY <1>19 DEF PullLog, Goto
<1>20. ASSUME NEW c \in Controllers, StopInstance(c)
      PROVE  HandInv'
  BY <1>20 DEF StopInstance, Goto
<1>21. ASSUME NEW c \in Controllers, ApiFails(c)
      PROVE  HandInv'
  BY <1>21 DEF ApiFails, ProvisionRaises
<1>22. ASSUME NEW c \in Controllers, DeployRaises(c)
      PROVE  HandInv'
  BY <1>22 DEF DeployRaises
<1>23. ASSUME NEW c \in Controllers, LaunchAnswerLost(c)
      PROVE  HandInv'
  BY <1>23 DEF LaunchAnswerLost, Launches
<1>24. ASSUME NEW c \in Controllers, StopRaises(c)
      PROVE  HandInv'
  BY <1>24 DEF StopRaises, Goto
<1>25. ASSUME NEW c \in Controllers, Killed(c)
      PROVE  HandInv'
  BY <1>25 DEF Killed, Active
<1>26. ASSUME NEW i \in Instances, JobFirstWrite(i)
      PROVE  HandInv'
  BY <1>26 DEF JobFirstWrite, Writes
<1>27. ASSUME NEW i \in Instances, JobVerdict(i)
      PROVE  HandInv'
  BY <1>27 DEF JobVerdict, Writes, Writing
<1>28. ASSUME NEW i \in Instances, JobFails(i)
      PROVE  HandInv'
  BY <1>28 DEF JobFails, Writes, Writing
<1>29. ASSUME NEW i \in Instances, JobDone(i)
      PROVE  HandInv'
  BY <1>29 DEF JobDone, Writes, Writing
<1>30. ASSUME NEW i \in Instances, JobEnds(i)
      PROVE  HandInv'
  BY <1>30 DEF JobEnds
<1>31. ASSUME NEW i \in Instances, Boots(i)
      PROVE  HandInv'
  BY <1>31 DEF Boots
<1>32. ASSUME NEW i \in Instances, Preempted(i)
      PROVE  HandInv'
  BY <1>32 DEF Preempted
<1>33. ASSUME NEW i \in Instances, JobDies(i)
      PROVE  HandInv'
  BY <1>33 DEF JobDies
<1>34. CASE UNCHANGED vars
  BY <1>34 DEF vars
<1>35. QED
  BY <1>1, <1>2, <1>3, <1>4, <1>5, <1>6, <1>7, <1>8, <1>9, <1>10, <1>11, <1>12, <1>13, <1>14, <1>15, <1>16, <1>17, <1>18, <1>19, <1>20, <1>21, <1>22, <1>23, <1>24, <1>25, <1>26, <1>27, <1>28, <1>29, <1>30, <1>31, <1>32, <1>33, <1>34
     DEF Next, Provision, UseInstance, ControllerFault, Job, Cloud

(* Only a run that holds the lock and saw no label sets one.                *)
LEMMA LabelStep ==
  ASSUME TypeOK, HandInv, OneLabelled, [Next]_vars
  PROVE  OneLabelled'
<1>1. (\E c \in Controllers : LabelInstance(c)) \/ labels' = labels
  BY DEF Next, Provision, UseInstance, ControllerFault, Job, Cloud, vars,
         controllerVars, cloudVars, boxVars, AcquireLock, FindRunning, FindStopped,
         FindNothing, NoOffers, CreateInstance, BootReady, BootNotReady,
         BootGivesUp, StartInstance, StartReady, StartNotReady, StartGivesUp,
         DeploySucceeds, LaunchSucceeds, LaunchRefused, PollUntilDone, PullLog,
         StopInstance, ApiFails, DeployRaises, LaunchAnswerLost, StopRaises, Killed,
         JobFirstWrite, JobVerdict, JobFails, JobDone, JobEnds, Boots, Preempted,
         JobDies, ProvisionReturns, ProvisionRaises, Launches, Writes, Goto
<1>2. QED
  BY <1>1 DEF LabelInstance, Goto, HandInv, OneLabelled, TypeOK

(* A contract without the label stays in some failed run's hand. *)
LEMMA UnlabelledStep ==
  ASSUME TypeOK, HandInv, UnlabelledAccounted, [Next]_vars
  PROVE  UnlabelledAccounted'
<1> USE DEF TypeOK, controllerVars, cloudVars, boxVars, Provisioning, Using,
            HandInv, UnlabelledAccounted, Powers
<1>1. ASSUME NEW c \in Controllers, AcquireLock(c)
      PROVE  UnlabelledAccounted'
  BY <1>1 DEF AcquireLock, Goto
<1>2. ASSUME NEW c \in Controllers, FindRunning(c)
      PROVE  UnlabelledAccounted'
  BY <1>2 DEF FindRunning, ProvisionReturns
<1>3. ASSUME NEW c \in Controllers, FindStopped(c)
      PROVE  UnlabelledAccounted'
  BY <1>3 DEF FindStopped, Goto
<1>4. ASSUME NEW c \in Controllers, FindNothing(c)
      PROVE  UnlabelledAccounted'
  BY <1>4 DEF FindNothing, Goto
<1>5. ASSUME NEW c \in Controllers, NoOffers(c)
      PROVE  UnlabelledAccounted'
  BY <1>5 DEF NoOffers, ProvisionRaises
<1>6. ASSUME NEW c \in Controllers, CreateInstance(c)
      PROVE  UnlabelledAccounted'
  BY <1>6 DEF CreateInstance, Goto
<1>7. ASSUME NEW c \in Controllers, LabelInstance(c)
      PROVE  UnlabelledAccounted'
  BY <1>7 DEF LabelInstance, Goto
<1>8. ASSUME NEW c \in Controllers, BootReady(c)
      PROVE  UnlabelledAccounted'
  BY <1>8 DEF BootReady, ProvisionReturns
<1>9. ASSUME NEW c \in Controllers, BootNotReady(c)
      PROVE  UnlabelledAccounted'
  BY <1>9 DEF BootNotReady, Goto
<1>10. ASSUME NEW c \in Controllers, BootGivesUp(c)
      PROVE  UnlabelledAccounted'
  BY <1>10 DEF BootGivesUp, ProvisionRaises
<1>11. ASSUME NEW c \in Controllers, StartInstance(c)
      PROVE  UnlabelledAccounted'
  BY <1>11 DEF StartInstance, Goto
<1>12. ASSUME NEW c \in Controllers, StartReady(c)
      PROVE  UnlabelledAccounted'
  BY <1>12 DEF StartReady, ProvisionReturns
<1>13. ASSUME NEW c \in Controllers, StartNotReady(c)
      PROVE  UnlabelledAccounted'
  BY <1>13 DEF StartNotReady, Goto
<1>14. ASSUME NEW c \in Controllers, StartGivesUp(c)
      PROVE  UnlabelledAccounted'
  BY <1>14 DEF StartGivesUp, ProvisionRaises
<1>15. ASSUME NEW c \in Controllers, DeploySucceeds(c)
      PROVE  UnlabelledAccounted'
  BY <1>15 DEF DeploySucceeds, Goto
<1>16. ASSUME NEW c \in Controllers, LaunchSucceeds(c)
      PROVE  UnlabelledAccounted'
  BY <1>16 DEF LaunchSucceeds, Launches, Goto
<1>17. ASSUME NEW c \in Controllers, LaunchRefused(c)
      PROVE  UnlabelledAccounted'
  BY <1>17 DEF LaunchRefused, Goto
<1>18. ASSUME NEW c \in Controllers, PollUntilDone(c)
      PROVE  UnlabelledAccounted'
  BY <1>18 DEF PollUntilDone, Goto
<1>19. ASSUME NEW c \in Controllers, PullLog(c)
      PROVE  UnlabelledAccounted'
  BY <1>19 DEF PullLog, Goto
<1>20. ASSUME NEW c \in Controllers, StopInstance(c)
      PROVE  UnlabelledAccounted'
  BY <1>20 DEF StopInstance, Goto
<1>21. ASSUME NEW c \in Controllers, ApiFails(c)
      PROVE  UnlabelledAccounted'
  BY <1>21 DEF ApiFails, ProvisionRaises
<1>22. ASSUME NEW c \in Controllers, DeployRaises(c)
      PROVE  UnlabelledAccounted'
  BY <1>22 DEF DeployRaises
<1>23. ASSUME NEW c \in Controllers, LaunchAnswerLost(c)
      PROVE  UnlabelledAccounted'
  BY <1>23 DEF LaunchAnswerLost, Launches
<1>24. ASSUME NEW c \in Controllers, StopRaises(c)
      PROVE  UnlabelledAccounted'
  BY <1>24 DEF StopRaises, Goto
<1>25. ASSUME NEW c \in Controllers, Killed(c)
      PROVE  UnlabelledAccounted'
  BY <1>25 DEF Killed, Active
<1>26. ASSUME NEW i \in Instances, JobFirstWrite(i)
      PROVE  UnlabelledAccounted'
  BY <1>26 DEF JobFirstWrite, Writes
<1>27. ASSUME NEW i \in Instances, JobVerdict(i)
      PROVE  UnlabelledAccounted'
  BY <1>27 DEF JobVerdict, Writes, Writing
<1>28. ASSUME NEW i \in Instances, JobFails(i)
      PROVE  UnlabelledAccounted'
  BY <1>28 DEF JobFails, Writes, Writing
<1>29. ASSUME NEW i \in Instances, JobDone(i)
      PROVE  UnlabelledAccounted'
  BY <1>29 DEF JobDone, Writes, Writing
<1>30. ASSUME NEW i \in Instances, JobEnds(i)
      PROVE  UnlabelledAccounted'
  BY <1>30 DEF JobEnds
<1>31. ASSUME NEW i \in Instances, Boots(i)
      PROVE  UnlabelledAccounted'
  BY <1>31 DEF Boots
<1>32. ASSUME NEW i \in Instances, Preempted(i)
      PROVE  UnlabelledAccounted'
  BY <1>32 DEF Preempted
<1>33. ASSUME NEW i \in Instances, JobDies(i)
      PROVE  UnlabelledAccounted'
  BY <1>33 DEF JobDies
<1>34. CASE UNCHANGED vars
  BY <1>34 DEF vars
<1>35. QED
  BY <1>1, <1>2, <1>3, <1>4, <1>5, <1>6, <1>7, <1>8, <1>9, <1>10, <1>11, <1>12, <1>13, <1>14, <1>15, <1>16, <1>17, <1>18, <1>19, <1>20, <1>21, <1>22, <1>23, <1>24, <1>25, <1>26, <1>27, <1>28, <1>29, <1>30, <1>31, <1>32, <1>33, <1>34
     DEF Next, Provision, UseInstance, ControllerFault, Job, Cloud

(* A contract that is up stays in some run's hand. *)
LEMMA BillingStep ==
  ASSUME TypeOK, HandInv, BillingAccounted, [Next]_vars
  PROVE  BillingAccounted'
<1> USE DEF TypeOK, controllerVars, cloudVars, boxVars, Provisioning, Using,
            HandInv, BillingAccounted, Billing, WorksOn, Active, Powers
<1>1. ASSUME NEW c \in Controllers, AcquireLock(c)
      PROVE  BillingAccounted'
  BY <1>1 DEF AcquireLock, Goto
<1>2. ASSUME NEW c \in Controllers, FindRunning(c)
      PROVE  BillingAccounted'
  BY <1>2 DEF FindRunning, ProvisionReturns
<1>3. ASSUME NEW c \in Controllers, FindStopped(c)
      PROVE  BillingAccounted'
  BY <1>3 DEF FindStopped, Goto
<1>4. ASSUME NEW c \in Controllers, FindNothing(c)
      PROVE  BillingAccounted'
  BY <1>4 DEF FindNothing, Goto
<1>5. ASSUME NEW c \in Controllers, NoOffers(c)
      PROVE  BillingAccounted'
  BY <1>5 DEF NoOffers, ProvisionRaises
<1>6. ASSUME NEW c \in Controllers, CreateInstance(c)
      PROVE  BillingAccounted'
  BY <1>6 DEF CreateInstance, Goto
<1>7. ASSUME NEW c \in Controllers, LabelInstance(c)
      PROVE  BillingAccounted'
  BY <1>7 DEF LabelInstance, Goto
<1>8. ASSUME NEW c \in Controllers, BootReady(c)
      PROVE  BillingAccounted'
  BY <1>8 DEF BootReady, ProvisionReturns
<1>9. ASSUME NEW c \in Controllers, BootNotReady(c)
      PROVE  BillingAccounted'
  BY <1>9 DEF BootNotReady, Goto
<1>10. ASSUME NEW c \in Controllers, BootGivesUp(c)
      PROVE  BillingAccounted'
  BY <1>10 DEF BootGivesUp, ProvisionRaises
<1>11. ASSUME NEW c \in Controllers, StartInstance(c)
      PROVE  BillingAccounted'
  BY <1>11 DEF StartInstance, Goto
<1>12. ASSUME NEW c \in Controllers, StartReady(c)
      PROVE  BillingAccounted'
  BY <1>12 DEF StartReady, ProvisionReturns
<1>13. ASSUME NEW c \in Controllers, StartNotReady(c)
      PROVE  BillingAccounted'
  BY <1>13 DEF StartNotReady, Goto
<1>14. ASSUME NEW c \in Controllers, StartGivesUp(c)
      PROVE  BillingAccounted'
  BY <1>14 DEF StartGivesUp, ProvisionRaises
<1>15. ASSUME NEW c \in Controllers, DeploySucceeds(c)
      PROVE  BillingAccounted'
  BY <1>15 DEF DeploySucceeds, Goto
<1>16. ASSUME NEW c \in Controllers, LaunchSucceeds(c)
      PROVE  BillingAccounted'
  BY <1>16 DEF LaunchSucceeds, Launches, Goto
<1>17. ASSUME NEW c \in Controllers, LaunchRefused(c)
      PROVE  BillingAccounted'
  BY <1>17 DEF LaunchRefused, Goto
<1>18. ASSUME NEW c \in Controllers, PollUntilDone(c)
      PROVE  BillingAccounted'
  BY <1>18 DEF PollUntilDone, Goto
<1>19. ASSUME NEW c \in Controllers, PullLog(c)
      PROVE  BillingAccounted'
  BY <1>19 DEF PullLog, Goto
<1>20. ASSUME NEW c \in Controllers, StopInstance(c)
      PROVE  BillingAccounted'
  <2> SUFFICES ASSUME NEW i \in Instances, Billing(i)'
               PROVE  \E d \in Controllers :
                        (WorksOn(d, i) /\ (Active(d) \/ pc[d] \in {"gaveup", "unstopped", "killed"}))'
    BY DEF BillingAccounted
  <2>1. i # held[c] /\ Billing(i)
    BY <1>20 DEF StopInstance, Goto
  <2>2. PICK d \in Controllers :
          WorksOn(d, i) /\ (Active(d) \/ pc[d] \in {"gaveup", "unstopped", "killed"})
    BY <2>1 DEF BillingAccounted
  <2>3. d # c
    BY <1>20, <2>1, <2>2, ConstantsAssumption DEF StopInstance, Goto
  <2>4. WorksOn(d, i)' /\ pc'[d] = pc[d]
    BY <1>20, <2>2, <2>3 DEF StopInstance, Goto
  <2>5. QED
    BY <2>2, <2>4
<1>21. ASSUME NEW c \in Controllers, ApiFails(c)
      PROVE  BillingAccounted'
  BY <1>21 DEF ApiFails, ProvisionRaises
<1>22. ASSUME NEW c \in Controllers, DeployRaises(c)
      PROVE  BillingAccounted'
  BY <1>22 DEF DeployRaises
<1>23. ASSUME NEW c \in Controllers, LaunchAnswerLost(c)
      PROVE  BillingAccounted'
  BY <1>23 DEF LaunchAnswerLost, Launches
<1>24. ASSUME NEW c \in Controllers, StopRaises(c)
      PROVE  BillingAccounted'
  BY <1>24 DEF StopRaises, Goto
<1>25. ASSUME NEW c \in Controllers, Killed(c)
      PROVE  BillingAccounted'
  BY <1>25 DEF Killed, Active
<1>26. ASSUME NEW i \in Instances, JobFirstWrite(i)
      PROVE  BillingAccounted'
  BY <1>26 DEF JobFirstWrite, Writes
<1>27. ASSUME NEW i \in Instances, JobVerdict(i)
      PROVE  BillingAccounted'
  BY <1>27 DEF JobVerdict, Writes, Writing
<1>28. ASSUME NEW i \in Instances, JobFails(i)
      PROVE  BillingAccounted'
  BY <1>28 DEF JobFails, Writes, Writing
<1>29. ASSUME NEW i \in Instances, JobDone(i)
      PROVE  BillingAccounted'
  BY <1>29 DEF JobDone, Writes, Writing
<1>30. ASSUME NEW i \in Instances, JobEnds(i)
      PROVE  BillingAccounted'
  BY <1>30 DEF JobEnds
<1>31. ASSUME NEW i \in Instances, Boots(i)
      PROVE  BillingAccounted'
  BY <1>31 DEF Boots
<1>32. ASSUME NEW i \in Instances, Preempted(i)
      PROVE  BillingAccounted'
  BY <1>32 DEF Preempted
<1>33. ASSUME NEW i \in Instances, JobDies(i)
      PROVE  BillingAccounted'
  BY <1>33 DEF JobDies
<1>34. CASE UNCHANGED vars
  BY <1>34 DEF vars
<1>35. QED
  BY <1>1, <1>2, <1>3, <1>4, <1>5, <1>6, <1>7, <1>8, <1>9, <1>10, <1>11, <1>12, <1>13, <1>14, <1>15, <1>16, <1>17, <1>18, <1>19, <1>20, <1>21, <1>22, <1>23, <1>24, <1>25, <1>26, <1>27, <1>28, <1>29, <1>30, <1>31, <1>32, <1>33, <1>34
     DEF Next, Provision, UseInstance, ControllerFault, Job, Cloud

(* A run is given one box only, so what its script recorded stays its own. *)
LEMMA PassStep ==
  ASSUME TypeOK, HandInv, PassInv, [Next]_vars
  PROVE  PassInv'
<1> USE ConstantsAssumption DEF TypeOK, controllerVars, cloudVars, boxVars, Provisioning, Using,
            HandInv, PassInv, StatusFiles, Verdicts
<1>1. \/ UNCHANGED <<held, verdict, job, disk, passed>>
      \/ \E c \in Controllers :
           \/ FindRunning(c) \/ BootReady(c) \/ StartReady(c)
           \/ LaunchSucceeds(c) \/ LaunchAnswerLost(c)
           \/ PollUntilDone(c) \/ StopInstance(c)
      \/ \E i \in Instances :
           \/ JobFirstWrite(i) \/ JobVerdict(i) \/ JobFails(i) \/ JobDone(i)
           \/ JobEnds(i) \/ Preempted(i) \/ JobDies(i)
  BY DEF Next, Provision, UseInstance, ControllerFault, Job, Cloud, vars,
         controllerVars, cloudVars, boxVars, AcquireLock, FindStopped,
         FindNothing, NoOffers, CreateInstance, LabelInstance, BootNotReady,
         BootGivesUp, StartInstance, StartNotReady, StartGivesUp,
         DeploySucceeds, LaunchRefused, PullLog,
         ApiFails, DeployRaises, StopRaises, Killed,
         Boots, ProvisionReturns, ProvisionRaises, Launches, Writes, Goto
<1>2. CASE UNCHANGED <<held, verdict, job, disk, passed>>
  BY <1>2
<1>3. ASSUME NEW c \in Controllers, FindRunning(c)
      PROVE  PassInv'
  BY <1>3 DEF FindRunning, ProvisionReturns
<1>4. ASSUME NEW c \in Controllers, BootReady(c)
      PROVE  PassInv'
  BY <1>4 DEF BootReady, ProvisionReturns
<1>5. ASSUME NEW c \in Controllers, StartReady(c)
      PROVE  PassInv'
  BY <1>5 DEF StartReady, ProvisionReturns
<1>6. ASSUME NEW c \in Controllers, LaunchSucceeds(c)
      PROVE  PassInv'
  BY <1>6 DEF LaunchSucceeds, Launches, Goto
<1>7. ASSUME NEW c \in Controllers, PollUntilDone(c)
      PROVE  PassInv'
  BY <1>7 DEF PollUntilDone, Goto
<1>8. ASSUME NEW c \in Controllers, StopInstance(c)
      PROVE  PassInv'
  BY <1>8 DEF StopInstance, Goto
<1>9. ASSUME NEW c \in Controllers, LaunchAnswerLost(c)
      PROVE  PassInv'
  BY <1>9 DEF LaunchAnswerLost, Launches
<1>10. ASSUME NEW i \in Instances, JobFirstWrite(i)
      PROVE  PassInv'
  BY <1>10 DEF JobFirstWrite, Writes
<1>11. ASSUME NEW i \in Instances, JobVerdict(i)
      PROVE  PassInv'
  BY <1>11 DEF JobVerdict, Writes, Writing
<1>12. ASSUME NEW i \in Instances, JobFails(i)
      PROVE  PassInv'
  <2>1. disk[i] \in StatusFiles /\ job[i] \in Controllers /\ held[job[i]] = i
    BY <1>12 DEF JobFails, Writing
  <2>2. disk'[i].stage = "done" /\ disk'[i].verdict # None
    BY <1>12, <2>1 DEF JobFails, Writes
  <2>3. disk'[i].verdict = "pass" => passed'[i] # {}
    BY <1>12, <2>1 DEF JobFails, Writes
  <2>4. \A j \in Instances \ {i} : disk'[j] = disk[j] /\ passed'[j] = passed[j]
    BY <1>12 DEF JobFails, Writes
  <2>5. passed'[i] \subseteq passed[i] \cup {job[i]} /\ passed[i] \subseteq passed'[i]
    BY <1>12 DEF JobFails, Writes
  <2>6. UNCHANGED <<pc, held, job, verdict>>
    BY <1>12 DEF JobFails, Writes
  <2>7. \A j \in Instances :
          /\ job'[j] # None => held'[job'[j]] = j
          /\ \A r \in passed'[j] : held'[r] = j
    BY <2>1, <2>4, <2>5, <2>6
  <2>8. \A j \in Instances : disk'[j].stage = "done" =>
          disk'[j].verdict # None /\ (disk'[j].verdict = "pass" => passed'[j] # {})
    BY <2>2, <2>3, <2>4
  <2>9. \A d \in Controllers :
          verdict'[d] = "pass" => held'[d] \in Instances /\ passed'[held'[d]] # {}
    BY <2>4, <2>5, <2>6
  <2>10. QED
    BY <2>7, <2>8, <2>9
<1>13. ASSUME NEW i \in Instances, JobDone(i)
      PROVE  PassInv'
  <2>1. disk[i] \in StatusFiles /\ job[i] \in Controllers /\ held[job[i]] = i
    BY <1>13 DEF JobDone, Writing
  <2>2. disk'[i].stage = "done" /\ disk'[i].verdict # None
    BY <1>13, <2>1 DEF JobDone, Writes
  <2>3. disk'[i].verdict = "pass" => passed'[i] # {}
    BY <1>13, <2>1 DEF JobDone, Writes
  <2>4. \A j \in Instances \ {i} : disk'[j] = disk[j] /\ passed'[j] = passed[j]
    BY <1>13 DEF JobDone, Writes
  <2>5. passed'[i] \subseteq passed[i] \cup {job[i]} /\ passed[i] \subseteq passed'[i]
    BY <1>13 DEF JobDone, Writes
  <2>6. UNCHANGED <<pc, held, job, verdict>>
    BY <1>13 DEF JobDone, Writes
  <2>7. \A j \in Instances :
          /\ job'[j] # None => held'[job'[j]] = j
          /\ \A r \in passed'[j] : held'[r] = j
    BY <2>1, <2>4, <2>5, <2>6
  <2>8. \A j \in Instances : disk'[j].stage = "done" =>
          disk'[j].verdict # None /\ (disk'[j].verdict = "pass" => passed'[j] # {})
    BY <2>2, <2>3, <2>4
  <2>9. \A d \in Controllers :
          verdict'[d] = "pass" => held'[d] \in Instances /\ passed'[held'[d]] # {}
    BY <2>4, <2>5, <2>6
  <2>10. QED
    BY <2>7, <2>8, <2>9
<1>14. ASSUME NEW i \in Instances, JobEnds(i)
      PROVE  PassInv'
  BY <1>14 DEF JobEnds
<1>15. ASSUME NEW i \in Instances, Preempted(i)
      PROVE  PassInv'
  BY <1>15 DEF Preempted
<1>16. ASSUME NEW i \in Instances, JobDies(i)
      PROVE  PassInv'
  BY <1>16 DEF JobDies
<1>17. QED
  BY <1>1, <1>2, <1>3, <1>4, <1>5, <1>6, <1>7, <1>8, <1>9, <1>10, <1>11, <1>12, <1>13, <1>14, <1>15, <1>16

(* No run leaves its script behind on a box but by being killed or failing  *)
(* to stop it: the others stop the box they were given, and with it the     *)
(* script.  The steps of the scripts and of vast.ai start none.             *)
LEMMA OwnedStep ==
  ASSUME TypeOK, HandInv, PassInv, ScriptsOwned, [Next]_vars
  PROVE  ScriptsOwned'
<1> USE ConstantsAssumption DEF TypeOK, controllerVars, cloudVars, boxVars,
            Provisioning, Using, Ended, HandInv, PassInv, ScriptsOwned
<1>1. ASSUME NEW c \in Controllers, AcquireLock(c)
      PROVE  ScriptsOwned'
  BY <1>1 DEF AcquireLock, Goto
<1>2. ASSUME NEW c \in Controllers, FindRunning(c)
      PROVE  ScriptsOwned'
  BY <1>2 DEF FindRunning, ProvisionReturns
<1>3. ASSUME NEW c \in Controllers, FindStopped(c)
      PROVE  ScriptsOwned'
  BY <1>3 DEF FindStopped, Goto
<1>4. ASSUME NEW c \in Controllers, FindNothing(c)
      PROVE  ScriptsOwned'
  BY <1>4 DEF FindNothing, Goto
<1>5. ASSUME NEW c \in Controllers, NoOffers(c)
      PROVE  ScriptsOwned'
  BY <1>5 DEF NoOffers, ProvisionRaises
<1>6. ASSUME NEW c \in Controllers, CreateInstance(c)
      PROVE  ScriptsOwned'
  BY <1>6 DEF CreateInstance, Goto
<1>7. ASSUME NEW c \in Controllers, LabelInstance(c)
      PROVE  ScriptsOwned'
  BY <1>7 DEF LabelInstance, Goto
<1>8. ASSUME NEW c \in Controllers, BootReady(c)
      PROVE  ScriptsOwned'
  BY <1>8 DEF BootReady, ProvisionReturns
<1>9. ASSUME NEW c \in Controllers, BootNotReady(c)
      PROVE  ScriptsOwned'
  BY <1>9 DEF BootNotReady, Goto
<1>10. ASSUME NEW c \in Controllers, BootGivesUp(c)
      PROVE  ScriptsOwned'
  BY <1>10 DEF BootGivesUp, ProvisionRaises
<1>11. ASSUME NEW c \in Controllers, StartInstance(c)
      PROVE  ScriptsOwned'
  BY <1>11 DEF StartInstance, Goto
<1>12. ASSUME NEW c \in Controllers, StartReady(c)
      PROVE  ScriptsOwned'
  BY <1>12 DEF StartReady, ProvisionReturns
<1>13. ASSUME NEW c \in Controllers, StartNotReady(c)
      PROVE  ScriptsOwned'
  BY <1>13 DEF StartNotReady, Goto
<1>14. ASSUME NEW c \in Controllers, StartGivesUp(c)
      PROVE  ScriptsOwned'
  BY <1>14 DEF StartGivesUp, ProvisionRaises
<1>15. ASSUME NEW c \in Controllers, DeploySucceeds(c)
      PROVE  ScriptsOwned'
  BY <1>15 DEF DeploySucceeds, Goto
<1>16. ASSUME NEW c \in Controllers, LaunchSucceeds(c)
      PROVE  ScriptsOwned'
  BY <1>16 DEF LaunchSucceeds, Launches, Goto
<1>17. ASSUME NEW c \in Controllers, LaunchRefused(c)
      PROVE  ScriptsOwned'
  BY <1>17 DEF LaunchRefused, Goto
<1>18. ASSUME NEW c \in Controllers, PollUntilDone(c)
      PROVE  ScriptsOwned'
  BY <1>18 DEF PollUntilDone, Goto
<1>19. ASSUME NEW c \in Controllers, PullLog(c)
      PROVE  ScriptsOwned'
  BY <1>19 DEF PullLog, Goto
<1>20. ASSUME NEW c \in Controllers, StopInstance(c)
      PROVE  ScriptsOwned'
  BY <1>20 DEF StopInstance, Goto
<1>21. ASSUME NEW c \in Controllers, ApiFails(c)
      PROVE  ScriptsOwned'
  BY <1>21 DEF ApiFails, ProvisionRaises
<1>22. ASSUME NEW c \in Controllers, DeployRaises(c)
      PROVE  ScriptsOwned'
  BY <1>22 DEF DeployRaises
<1>23. ASSUME NEW c \in Controllers, LaunchAnswerLost(c)
      PROVE  ScriptsOwned'
  BY <1>23 DEF LaunchAnswerLost, Launches
<1>24. ASSUME NEW c \in Controllers, StopRaises(c)
      PROVE  ScriptsOwned'
  BY <1>24 DEF StopRaises, Goto
<1>25. ASSUME NEW c \in Controllers, Killed(c)
      PROVE  ScriptsOwned'
  BY <1>25 DEF Killed, Active
<1>26. ASSUME pc' = pc, \A i \in Instances : job'[i] \in {job[i], None}
       PROVE  ScriptsOwned'
  BY <1>26
<1>27. ASSUME NEW i \in Instances, Job(i) \/ Cloud(i)
       PROVE  ScriptsOwned'
  BY <1>26, <1>27 DEF Job, Cloud, JobFirstWrite, JobVerdict, JobFails, JobDone, JobEnds,
         Boots, Preempted, JobDies, Writes
<1>28. CASE UNCHANGED vars
  BY <1>28 DEF vars
<1>29. QED
  BY <1>1, <1>2, <1>3, <1>4, <1>5, <1>6, <1>7, <1>8, <1>9, <1>10, <1>11, <1>12, <1>13, <1>14, <1>15, <1>16, <1>17, <1>18, <1>19, <1>20, <1>21, <1>22, <1>23, <1>24, <1>25, <1>27, <1>28
     DEF Next, Provision, UseInstance, ControllerFault

(* The inductive invariant holds of every reachable state.                  *)
THEOREM Invariance == Spec => []IInv
<1>1. Init => IInv
  <2> SUFFICES ASSUME Init PROVE IInv
    OBVIOUS
  <2> USE ConstantsAssumption DEF Init, NoStatus, Provisioning, Using, Ended
  <2>1. TypeOK
    BY DEF TypeOK, Verdicts, Powers, StatusFiles
  <2>2. LockInv /\ HandInv /\ OneLabelled
    BY DEF LockInv, HandInv, OneLabelled
  <2>3. UnlabelledAccounted /\ BillingAccounted
    BY DEF UnlabelledAccounted, BillingAccounted, Billing
  <2>4. PassInv
    BY DEF PassInv
  <2>5. ScriptsOwned
    BY DEF ScriptsOwned
  <2>6. QED
    BY <2>1, <2>2, <2>3, <2>4, <2>5 DEF IInv
<1>2. IInv /\ [Next]_vars => IInv'
  BY TypeStep, LockStep, HandStep, LabelStep, UnlabelledStep, BillingStep, PassStep,
     OwnedStep DEF IInv
<1>3. QED
  BY <1>1, <1>2, PTL DEF Spec

(* Every variable keeps its type, whatever fails.                           *)
THEOREM TypeCorrect == Spec => []TypeOK
BY Invariance, PTL DEF IInv

(* No double rent: at most one contract carries the label.                  *)
THEOREM LabelUnique == Spec => []OneLabelled
BY Invariance, PTL DEF IInv

(* A contract out of every run's sight belongs to a run that failed between *)
(* create_instance and label_instance, or is about to label it.             *)
THEOREM UnlabelledExplained == Spec => []UnlabelledAccounted
BY Invariance, PTL DEF IInv

(* Nothing bills but what a live run works on or what a run dropped in one  *)
(* of the three ways its finally clause does not cover.                     *)
THEOREM BillingExplained == Spec => []BillingAccounted
BY Invariance, PTL DEF IInv

(* A script is alive only behind its own run's launch, or left by a run     *)
(* that was killed or could not stop the box.                               *)
THEOREM ScriptsExplained == Spec => []ScriptsOwned
BY Invariance, PTL DEF IInv

(* Exit 0 rests on a script that finished with PASS on the run's own box.   *)
THEOREM ZeroExplained == Spec => []ZeroNeedsFinishedPass
<1>1. IInv => ZeroNeedsFinishedPass
  BY DEF IInv, TypeOK, PassInv, ZeroNeedsFinishedPass, ExitZero
<1>2. QED
  BY <1>1, Invariance, PTL

(* Seen through status.json and the tmux session, every step is a step of   *)
(* the contract on one box, or no step.                                     *)
LEMMA ContractStep ==
  ASSUME TypeOK, HandInv, PassInv, [Next]_vars
  PROVE  [Contract!Next]_(Contract!vars)
<1> DEFINE Phase == [i \in Instances |-> ScriptPhase(i)]
           StageOf == [i \in Instances |-> disk[i].stage]
           Outcome == [i \in Instances |-> disk[i].verdict]
<1> USE ConstantsAssumption DEF TypeOK, HandInv, Using, ScriptPhase, cloudVars, boxVars,
            controllerVars
<1>1. \/ UNCHANGED <<job, wrote, disk>>
      \/ \E c \in Controllers :
           LaunchSucceeds(c) \/ LaunchAnswerLost(c) \/ StopInstance(c)
      \/ \E i \in Instances :
           \/ JobFirstWrite(i) \/ JobVerdict(i) \/ JobFails(i) \/ JobDone(i)
           \/ JobEnds(i) \/ Preempted(i) \/ JobDies(i)
  BY DEF Next, Provision, UseInstance, ControllerFault, Job, Cloud, vars, controllerVars,
         cloudVars, boxVars, AcquireLock, FindRunning, FindStopped, FindNothing, NoOffers,
         CreateInstance, LabelInstance, BootReady, BootNotReady, BootGivesUp,
         StartInstance, StartReady, StartNotReady, StartGivesUp, DeploySucceeds,
         LaunchRefused, PollUntilDone, PullLog, ApiFails, DeployRaises, StopRaises,
         Killed, Boots, ProvisionReturns, ProvisionRaises, Writes, Goto
<1>2. CASE UNCHANGED <<job, wrote, disk>>
  BY <1>2 DEF Contract!vars
<1>3. ASSUME NEW i \in Instances, NEW r \in Controllers, job[i] = None,
             job' = [job EXCEPT ![i] = r], wrote' = wrote \ {i}, disk' = disk
      PROVE  Contract!Next
  <2>1. Phase[i] = "gone"
    BY <1>3
  <2>2. Phase' = [Phase EXCEPT ![i] = "launched"]
    <3>1. ScriptPhase(i)' = "launched"
      BY <1>3
    <3>2. \A j \in Instances \ {i} : ScriptPhase(j)' = ScriptPhase(j)
      BY <1>3
    <3>3. QED
      BY <3>1, <3>2
  <2>3. Contract!Launch(i)
    BY <1>3, <2>1, <2>2 DEF Contract!Launch
  <2>4. QED
    BY <2>3 DEF Contract!Next
<1>4. ASSUME NEW i \in Instances, job' = [job EXCEPT ![i] = None], UNCHANGED <<wrote, disk>>
      PROVE  [Contract!Next]_(Contract!vars)
  <2>1. Phase' = [Phase EXCEPT ![i] = "gone"]
    BY <1>4
  <2>2. CASE job[i] = None
    <3>1. job' = job
      BY <1>4, <2>2
    <3>2. QED
      BY <1>4, <3>1 DEF Contract!vars
  <2>3. CASE job[i] # None
    <3>1. Phase[i] # "gone"
      BY <2>3
    <3>2. Contract!End(i)
      BY <1>4, <2>1, <3>1 DEF Contract!End
    <3>3. QED
      BY <3>2 DEF Contract!Next
  <2>4. QED
    BY <2>2, <2>3
<1>5. ASSUME NEW c \in Controllers, LaunchSucceeds(c) \/ LaunchAnswerLost(c)
      PROVE  [Contract!Next]_(Contract!vars)
  <2>1. PICK i \in Instances : i = held[c]
    BY <1>5 DEF LaunchSucceeds, LaunchAnswerLost, Goto
  <2>2. CASE job[i] = None
    <3>1. job' = [job EXCEPT ![i] = c] /\ wrote' = wrote \ {i} /\ disk' = disk
      BY <1>5, <2>1, <2>2 DEF LaunchSucceeds, LaunchAnswerLost, Launches
    <3>2. QED
      BY <1>3, <2>2, <3>1
  <2>3. CASE job[i] # None
    BY <1>2, <1>5, <2>1, <2>3 DEF LaunchSucceeds, LaunchAnswerLost
  <2>4. QED
    BY <2>2, <2>3
<1>6. ASSUME NEW c \in Controllers, StopInstance(c)
      PROVE  [Contract!Next]_(Contract!vars)
  <2>1. PICK i \in Instances : i = held[c]
    BY <1>6 DEF StopInstance, Goto
  <2>2. job' = [job EXCEPT ![i] = None] /\ UNCHANGED <<wrote, disk>>
    BY <1>6, <2>1 DEF StopInstance
  <2>3. QED
    BY <1>4, <2>2
<1>7. ASSUME NEW i \in Instances, JobEnds(i) \/ Preempted(i) \/ JobDies(i)
      PROVE  [Contract!Next]_(Contract!vars)
  <2>1. job' = [job EXCEPT ![i] = None] /\ UNCHANGED <<wrote, disk>>
    BY <1>7 DEF JobEnds, Preempted, JobDies
  <2>2. QED
    BY <1>4, <2>1
<1>8. ASSUME NEW i \in Instances, JobFirstWrite(i)
      PROVE  Contract!Next
  <2>1. /\ Phase[i] = "launched" /\ Phase' = [Phase EXCEPT ![i] = "writing"]
        /\ StageOf' = [StageOf EXCEPT ![i] = "busy"]
        /\ Outcome' = [Outcome EXCEPT ![i] = None]
    BY <1>8 DEF JobFirstWrite, Writes
  <2>2. Contract!FirstWrite(i)
    BY <2>1 DEF Contract!FirstWrite
  <2>3. QED
    BY <2>2 DEF Contract!Next
<1>9. ASSUME NEW i \in Instances, JobVerdict(i)
      PROVE  Contract!Next
  <2>1. PICK v \in {"pass", "fail"} :
          disk' = [disk EXCEPT ![i] = [stage |-> "busy", verdict |-> v]]
    BY <1>9 DEF JobVerdict, Writes
  <2>2. Phase[i] = "writing" /\ Phase' = Phase
    BY <1>9 DEF JobVerdict, Writing, Writes
  <2>3. StageOf[i] = "busy" /\ StageOf' = StageOf
    BY <1>9, <2>1 DEF JobVerdict, Writing, StatusFiles
  <2>4. Outcome[i] = None /\ Outcome' = [Outcome EXCEPT ![i] = v]
    BY <1>9, <2>1 DEF JobVerdict, Writing
  <2>5. Contract!RecordVerdict(i)
    BY <2>1, <2>2, <2>3, <2>4 DEF Contract!RecordVerdict, Contract!Writing, Verdicts
  <2>6. QED
    BY <2>5 DEF Contract!Next
<1>10. ASSUME NEW i \in Instances, JobFails(i) \/ JobDone(i)
       PROVE  Contract!Next
  <2>1. Phase[i] = "writing" /\ Phase' = Phase /\ StageOf[i] = "busy"
    BY <1>10 DEF JobFails, JobDone, Writing, Writes
  <2>2. disk[i].verdict = None
          => disk' = [disk EXCEPT ![i] = [stage |-> "done", verdict |-> "error"]]
    BY <1>10 DEF JobFails, JobDone, Writes
  <2>3. disk[i].verdict # None
          => disk' = [disk EXCEPT ![i] = [stage |-> "done", verdict |-> disk[i].verdict]]
    BY <1>10 DEF JobFails, JobDone, Writes, StatusFiles
  <2>4. PICK v : v = IF disk[i].verdict = None THEN "error" ELSE disk[i].verdict
    OBVIOUS
  <2>5. disk' = [disk EXCEPT ![i] = [stage |-> "done", verdict |-> v]]
    BY <2>2, <2>3, <2>4
  <2>6. StageOf' = [StageOf EXCEPT ![i] = "done"]
    BY <2>5
  <2>7. Outcome' = [Outcome EXCEPT ![i] = IF Outcome[i] = None THEN "error" ELSE Outcome[i]]
    BY <2>4, <2>5
  <2>8. Contract!RecordDone(i)
    BY <2>1, <2>6, <2>7 DEF Contract!RecordDone, Contract!Writing
  <2>9. QED
    BY <2>8 DEF Contract!Next
<1>11. QED
  BY <1>1, <1>2, <1>5, <1>6, <1>7, <1>8, <1>9, <1>10

(* Every run of the controllers is, box by box, a run of the contract.      *)
THEOREM ImplementsContract == Spec => BoxesKeepContract
<1>1. Init => Contract!Init
  BY ConstantsAssumption DEF Init, Contract!Init, ScriptPhase, NoStatus
<1>2. IInv /\ [Next]_vars => [Contract!Next]_(Contract!vars)
  BY ContractStep DEF IInv
<1>3. QED
  BY <1>1, <1>2, Invariance, PTL DEF Spec, BoxesKeepContract, Contract!Spec

(* What readers of status.json may conclude, of the boxes of a stage: DONE  *)
(* has a verdict, and neither changes before another script writes.         *)
THEOREM VerdictsStand == Spec => []Contract!DoneHasVerdict /\ Contract!StatusStands
<1>1. IInv => Contract!DoneHasVerdict
  BY DEF IInv, PassInv, Contract!DoneHasVerdict
<1>2. [Contract!Next]_(Contract!vars) => [Contract!Stands]_(Contract!vars)
  BY ConstantsAssumption
  DEF Contract!Stands, Contract!TakenBack, Contract!NextScriptWrites, Contract!Next,
      Contract!vars, Contract!Launch, Contract!FirstWrite, Contract!RecordVerdict,
      Contract!RecordDone, Contract!End, Contract!Writing
<1>3. QED
  BY <1>1, <1>2, Invariance, ImplementsContract, PTL
  DEF BoxesKeepContract, Contract!Spec, Contract!StatusStands

(* On a box no other run was given, exit 0 is the verdict of the run's own  *)
(* script: all it takes for the README's claim to hold is a fresh box.      *)
THEOREM FreshBoxVerdictIsOwn ==
  Spec => [](\A c \in Controllers :
               ExitZero(c) /\ (\A d \in Controllers \ {c} : held[d] # held[c])
                 => c \in passed[held[c]])
<1>1. ZeroNeedsFinishedPass
        => \A c \in Controllers :
             ExitZero(c) /\ (\A d \in Controllers \ {c} : held[d] # held[c])
               => c \in passed[held[c]]
  BY DEF ZeroNeedsFinishedPass
<1>2. QED
  BY <1>1, ZeroExplained, PTL

(* A run is killed, or fails to stop its box, only where that may happen,   *)
(* and runs that do not overlap are at work one at a time.                  *)
FaultsInv ==
  /\ \A c \in Controllers : pc[c] = "killed" => "kill" \in Faults
  /\ \A c \in Controllers : pc[c] = "unstopped" => "stop" \in Faults
  /\ ~Overlap => \A c, d \in Controllers : Active(c) /\ Active(d) => c = d

LEMMA FaultsStep ==
  ASSUME TypeOK, FaultsInv, [Next]_vars
  PROVE  FaultsInv'
<1> USE DEF TypeOK, FaultsInv, Active, Provisioning, Using
<1>1. \/ pc' = pc
      \/ \E c \in Controllers : AcquireLock(c) \/ StopRaises(c) \/ Killed(c)
      \/ \E c \in Controllers :
           /\ Active(c)
           /\ \E to \in Provisioning \cup Using \cup {"returned", "gaveup"} :
                pc' = [pc EXCEPT ![c] = to]
  BY DEF Next, Provision, UseInstance, ControllerFault, Job, Cloud, vars, controllerVars,
         FindRunning, FindStopped, FindNothing, NoOffers, CreateInstance, LabelInstance,
         BootReady, BootNotReady, BootGivesUp, StartInstance, StartReady, StartNotReady,
         StartGivesUp, DeploySucceeds, LaunchSucceeds, LaunchRefused, LaunchAnswerLost,
         PollUntilDone, PullLog, StopInstance, ApiFails, DeployRaises, Boots, Preempted,
         JobFirstWrite, JobVerdict, JobFails, JobDone, JobEnds, JobDies,
         ProvisionReturns, ProvisionRaises, Writes, Goto
<1>2. CASE pc' = pc
  BY <1>2
<1>3. ASSUME NEW c \in Controllers, AcquireLock(c)
      PROVE  FaultsInv'
  BY <1>3 DEF AcquireLock, Goto
<1>4. ASSUME NEW c \in Controllers, StopRaises(c)
      PROVE  FaultsInv'
  BY <1>4 DEF StopRaises, Goto
<1>5. ASSUME NEW c \in Controllers, Killed(c)
      PROVE  FaultsInv'
  BY <1>5 DEF Killed
<1>6. ASSUME NEW c \in Controllers, Active(c),
             NEW to \in Provisioning \cup Using \cup {"returned", "gaveup"},
             pc' = [pc EXCEPT ![c] = to]
      PROVE  FaultsInv'
  BY <1>6
<1>7. QED
  BY <1>1, <1>2, <1>3, <1>4, <1>5, <1>6

LEMMA FaultsInvariance == Spec => []FaultsInv
<1>1. Init => FaultsInv
  BY DEF Init, FaultsInv, Active, Provisioning, Using
<1>2. TypeOK /\ FaultsInv /\ [Next]_vars => FaultsInv'
  BY FaultsStep
<1>3. QED
  BY <1>1, <1>2, TypeCorrect, PTL DEF Spec

(* "Always stops the instance", as far as it goes: where no run is killed   *)
(* and no stop call raises, an instance that is up is some active run's, or *)
(* was given up by provision(), the one part of main() before its try.      *)
THEOREM OnlyProvisionLeaks ==
  ASSUME "kill" \notin Faults, "stop" \notin Faults
  PROVE  Spec => [](\A i \in Instances :
                      Billing(i) =>
                        \E c \in Controllers :
                          \/ Active(c) /\ WorksOn(c, i)
                          \/ pc[c] = "gaveup" /\ cand[c] = i)
<1>1. IInv /\ FaultsInv
        => \A i \in Instances :
             Billing(i) =>
               \E c \in Controllers :
                 \/ Active(c) /\ WorksOn(c, i)
                 \/ pc[c] = "gaveup" /\ cand[c] = i
  BY ConstantsAssumption
  DEF IInv, HandInv, BillingAccounted, FaultsInv, WorksOn
<1>2. QED
  BY <1>1, Invariance, FaultsInvariance, PTL

(* Runs of a stage that follow one another, none of them killed and every   *)
(* stop call obeyed, meet no script but their own: the one alive on any box *)
(* was launched by the run at work, so a refused launch is its own launch   *)
(* sent twice (run_ssh's retry).                                            *)
THEOREM SequentialRunsAreAlone ==
  ASSUME ~Overlap, "kill" \notin Faults, "stop" \notin Faults
  PROVE  Spec => [](\A i \in Instances :
                      job[i] # None =>
                        /\ Active(job[i]) /\ held[job[i]] = i
                        /\ \A c \in Controllers : Active(c) => c = job[i])
<1>1. IInv /\ FaultsInv
        => \A i \in Instances :
             job[i] # None =>
               /\ Active(job[i]) /\ held[job[i]] = i
               /\ \A c \in Controllers : Active(c) => c = job[i]
  BY DEF IInv, TypeOK, PassInv, ScriptsOwned, FaultsInv, Active, Using
<1>2. QED
  BY <1>1, Invariance, FaultsInvariance, PTL
============================================================================
