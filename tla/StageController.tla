-------------------------- MODULE StageController --------------------------
(***************************************************************************)
(* Runs of one stage's stageN/controller.py against vast.ai and the box it *)
(* rents: provision (find, start or rent, under the provision lock),       *)
(* deploy_and_launch, poll_until_done, pull the log, stop the instance.    *)
(*                                                                         *)
(* A member of Controllers is one run of main() for one provision label,   *)
(* so several members are concurrent or successive runs of that stage.     *)
(* Steps are cut where another actor can intervene: at each vast.ai call   *)
(* and at each SSH command that reads or changes the box.                  *)
(*                                                                         *)
(* The box is seen through the two things the controller depends on: the   *)
(* tmux session of fixed name (job: the run that launched the script now   *)
(* running there, or None) and status.json (disk).  StageScript has the    *)
(* script itself.                                                          *)
(***************************************************************************)
EXTENDS Naturals, FiniteSets

CONSTANTS
  Controllers,    \* runs of main() for one label
  Instances,      \* contracts vast.ai can create
  None,           \* Python's None
  Faults,         \* which of the faults below may happen
  Overlap,        \* may one run start before another has ended?
  BootPolls,      \* max_wait_polls of rent_new_instance
  StartTries,     \* retries of start_instance
  LaunchTries     \* retries of run_ssh, for the launch command

FaultKinds == {"api", "ssh", "stop", "kill", "die", "preempt"}

ASSUME ConstantsAssumption ==
  /\ None \notin Controllers \cup Instances \cup {"pass", "fail", "error"}
  /\ Faults \subseteq FaultKinds
  /\ Overlap \in BOOLEAN
  /\ BootPolls \in Nat \ {0}
  /\ StartTries \in Nat \ {0}
  /\ LaunchTries \in Nat \ {0}

VARIABLES
  pc,        \* where each run is
  lock,      \* holder of the provision flock
  held,      \* main()'s `instance`: what provision returned
  cand,      \* the instance provision is working on, not yet returned
  tries,     \* the loop counter of the call in progress
  verdict,   \* main()'s `verdict`
  power,     \* vast.ai's actual_status of each contract
  labels,    \* contracts carrying the provision label
  job,       \* per box: the run whose script is alive in tmux
  wrote,     \* boxes whose live script has written its first status
  disk,      \* per box: what status.json says
  passed     \* history: per box, the runs whose script ended with PASS

controllerVars == <<pc, lock, held, cand, tries, verdict>>
cloudVars == <<power, labels>>
boxVars == <<job, wrote, disk, passed>>
vars == <<pc, lock, held, cand, tries, verdict, power, labels,
          job, wrote, disk, passed>>

Verdicts == {"pass", "fail", "error"}

(* The phases of provision(), all inside `with provision_lock()`.           *)
Provisioning == {"find", "create", "label", "boot", "start", "check"}

(* The phases after provision() returned, inside try ... finally.           *)
Using == {"deploy", "launch", "poll", "pull", "stop"}

(* How a run ends: the instance was stopped; stop_instance raised; an       *)
(* exception left provision(), so `instance` is None; the process was       *)
(* killed and no finally clause ran.                                        *)
Ended == {"returned", "unstopped", "gaveup", "killed"}

Powers == {"absent", "loading", "running", "stopped"}

(* The stages before DONE are one stage here, "busy".                       *)
StatusFiles == [stage : {"none", "busy", "done"}, verdict : Verdicts \cup {None}]

NoStatus == [stage |-> "none", verdict |-> None]

Active(c) == pc[c] \in Provisioning \cup Using

Init ==
  /\ pc = [c \in Controllers |-> "idle"]
  /\ lock = None
  /\ held = [c \in Controllers |-> None]
  /\ cand = [c \in Controllers |-> None]
  /\ tries = [c \in Controllers |-> 0]
  /\ verdict = [c \in Controllers |-> "error"]
  /\ power = [i \in Instances |-> "absent"]
  /\ labels = {}
  /\ job = [i \in Instances |-> None]
  /\ wrote = {}
  /\ disk = [i \in Instances |-> NoStatus]
  /\ passed = [i \in Instances |-> {}]

Goto(c, from, to) ==
  /\ pc[c] = from
  /\ pc' = [pc EXCEPT ![c] = to]

----------------------------------------------------------------------------
(* provision(), under the lock                                             *)

(* Mutant: provision() entered without the flock.                           *)
EnterWithoutLock(c) ==
  /\ Overlap \/ \A d \in Controllers : ~Active(d)
  /\ Goto(c, "idle", "find")
  /\ lock' = c
  /\ UNCHANGED <<held, cand, tries, verdict, cloudVars, boxVars>>

AcquireLock(c) ==
  /\ Overlap \/ \A d \in Controllers : ~Active(d)
  /\ lock = None
  /\ Goto(c, "idle", "find")
  /\ lock' = c
  /\ UNCHANGED <<held, cand, tries, verdict, cloudVars, boxVars>>

(* provision() returns i: main() binds `instance` and the with block ends. *)
ProvisionReturns(c, i) ==
  /\ pc' = [pc EXCEPT ![c] = "deploy"]
  /\ held' = [held EXCEPT ![c] = i]
  /\ cand' = [cand EXCEPT ![c] = None]
  /\ lock' = None
  /\ tries' = [tries EXCEPT ![c] = 0]
  /\ UNCHANGED <<verdict, cloudVars, boxVars>>

(* An exception leaves provision(): the lock goes, `instance` stays None,   *)
(* and nothing is done about the contract provision was working on.         *)
ProvisionRaises(c) ==
  /\ pc' = [pc EXCEPT ![c] = "gaveup"]
  /\ lock' = None
  /\ UNCHANGED <<held, cand, tries, verdict, cloudVars, boxVars>>

FindRunning(c) ==
  /\ pc[c] = "find"
  /\ \E i \in labels : power[i] = "running" /\ ProvisionReturns(c, i)

FindStopped(c) ==
  /\ Goto(c, "find", "start")
  /\ \E i \in labels : power[i] # "running" /\ cand' = [cand EXCEPT ![c] = i]
  /\ UNCHANGED <<lock, held, tries, verdict, cloudVars, boxVars>>

FindNothing(c) ==
  /\ Goto(c, "find", "create")
  /\ labels = {}
  /\ UNCHANGED <<lock, held, cand, tries, verdict, cloudVars, boxVars>>

NoOffers(c) ==
  /\ pc[c] = "create"
  /\ ProvisionRaises(c)

CreateInstance(c) ==
  /\ Goto(c, "create", "label")
  /\ \E i \in Instances :
       /\ power[i] = "absent"
       /\ power' = [power EXCEPT ![i] = "loading"]
       /\ cand' = [cand EXCEPT ![c] = i]
  /\ UNCHANGED <<lock, held, tries, verdict, labels, boxVars>>

(* Mutant: the contract is used without its label.                          *)
BootUnlabelled(c) ==
  /\ Goto(c, "label", "boot")
  /\ UNCHANGED <<lock, held, cand, tries, verdict, cloudVars, boxVars>>

LabelInstance(c) ==
  /\ Goto(c, "label", "boot")
  /\ labels' = labels \cup {cand[c]}
  /\ UNCHANGED <<lock, held, cand, tries, verdict, power, boxVars>>

BootReady(c) ==
  /\ pc[c] = "boot"
  /\ power[cand[c]] = "running"
  /\ ProvisionReturns(c, cand[c])

(* Mutant: the polls are not counted.                                       *)
BootNotReadyUncounted(c) ==
  /\ Goto(c, "boot", "boot")
  /\ power[cand[c]] # "running"
  /\ UNCHANGED <<lock, held, cand, tries, verdict, cloudVars, boxVars>>

BootNotReady(c) ==
  /\ Goto(c, "boot", "boot")
  /\ power[cand[c]] # "running"
  /\ tries[c] + 1 < BootPolls
  /\ tries' = [tries EXCEPT ![c] = @ + 1]
  /\ UNCHANGED <<lock, held, cand, verdict, cloudVars, boxVars>>

BootGivesUp(c) ==
  /\ pc[c] = "boot"
  /\ power[cand[c]] # "running"
  /\ tries[c] + 1 = BootPolls
  /\ ProvisionRaises(c)

StartInstance(c) ==
  /\ Goto(c, "start", "check")
  /\ power' = [power EXCEPT ![cand[c]] = IF @ = "stopped" THEN "loading" ELSE @]
  /\ UNCHANGED <<lock, held, cand, tries, verdict, labels, boxVars>>

StartReady(c) ==
  /\ pc[c] = "check"
  /\ power[cand[c]] = "running"
  /\ ProvisionReturns(c, cand[c])

StartNotReady(c) ==
  /\ Goto(c, "check", "start")
  /\ power[cand[c]] # "running"
  /\ tries[c] + 1 < StartTries
  /\ tries' = [tries EXCEPT ![c] = @ + 1]
  /\ UNCHANGED <<lock, held, cand, verdict, cloudVars, boxVars>>

StartGivesUp(c) ==
  /\ pc[c] = "check"
  /\ power[cand[c]] # "running"
  /\ tries[c] + 1 = StartTries
  /\ ProvisionRaises(c)

(* Any vast.ai call inside provision() may raise; a create whose reply is   *)
(* lost is CreateInstance followed by this at "label".                      *)
ApiFails(c) ==
  /\ "api" \in Faults
  /\ pc[c] \in Provisioning
  /\ ProvisionRaises(c)

----------------------------------------------------------------------------
(* deploy_and_launch(), poll_until_done() and the finally clause            *)

Reachable(c) == power[held[c]] = "running"

(* wait_for_ssh, the transfers and setup.sh: idempotent, so their retries   *)
(* are not told apart.                                                      *)
DeploySucceeds(c) ==
  /\ Goto(c, "deploy", "launch")
  /\ Reachable(c)
  /\ UNCHANGED <<lock, held, cand, tries, verdict, cloudVars, boxVars>>

(* Mutant: the error leaves main() past the finally clause.                 *)
RaisePastFinally(c) ==
  /\ pc[c] \in {"deploy", "launch"}
  /\ ~Reachable(c) \/ "ssh" \in Faults
  /\ pc' = [pc EXCEPT ![c] = "returned"]
  /\ UNCHANGED <<lock, held, cand, tries, verdict, cloudVars, boxVars>>

(* SSHError out of deploy_and_launch: the finally clause is next.           *)
DeployRaises(c) ==
  /\ pc[c] \in {"deploy", "launch"}
  /\ ~Reachable(c) \/ "ssh" \in Faults
  /\ pc' = [pc EXCEPT ![c] = "stop"]
  /\ UNCHANGED <<lock, held, cand, tries, verdict, cloudVars, boxVars>>

(* tmux new-session -d -s NAME 'python3 run_stageN.py'                      *)
Launches(c) ==
  /\ job' = [job EXCEPT ![held[c]] = c]
  /\ wrote' = wrote \ {held[c]}
  /\ UNCHANGED <<disk, passed>>

LaunchSucceeds(c) ==
  /\ Goto(c, "launch", "poll")
  /\ Reachable(c)
  /\ job[held[c]] = None
  /\ Launches(c)
  /\ UNCHANGED <<lock, held, cand, tries, verdict, cloudVars>>

(* tmux answers "duplicate session": not a transient marker, so SSHError.   *)
LaunchRefused(c) ==
  /\ Goto(c, "launch", "stop")
  /\ Reachable(c)
  /\ job[held[c]] # None
  /\ UNCHANGED <<lock, held, cand, tries, verdict, cloudVars, boxVars>>

(* The command ran but its answer is lost (timeout, connection closed):     *)
(* run_ssh sends it again, or raises after the last attempt.                *)
LaunchAnswerLost(c) ==
  /\ "ssh" \in Faults
  /\ pc[c] = "launch"
  /\ Reachable(c)
  /\ IF job[held[c]] = None THEN Launches(c) ELSE UNCHANGED boxVars
  /\ tries' = [tries EXCEPT ![c] = @ + 1]
  /\ pc' = [pc EXCEPT ![c] = IF tries[c] + 1 = LaunchTries THEN "stop" ELSE "launch"]
  /\ UNCHANGED <<lock, held, cand, verdict, cloudVars>>

(* Mutant: the first status read is taken for the last.                     *)
PollAnyStatus(c) ==
  /\ Goto(c, "poll", "pull")
  /\ Reachable(c)
  /\ verdict' = [verdict EXCEPT ![c] = disk[held[c]].verdict]
  /\ UNCHANGED <<lock, held, cand, tries, cloudVars, boxVars>>

(* One successful read of a status.json whose stage is DONE.  Failed reads  *)
(* and reads of an earlier stage change nothing.  `or Verdict.ERROR` stands *)
(* in for a verdict that is missing.                                        *)
PollUntilDone(c) ==
  /\ Goto(c, "poll", "pull")
  /\ Reachable(c)
  /\ disk[held[c]].stage = "done"
  /\ verdict' = [verdict EXCEPT ![c] =
       IF disk[held[c]].verdict = None THEN "error" ELSE disk[held[c]].verdict]
  /\ UNCHANGED <<lock, held, cand, tries, cloudVars, boxVars>>

(* scp_from of the log; its errors are swallowed.                           *)
PullLog(c) ==
  /\ Goto(c, "pull", "stop")
  /\ UNCHANGED <<lock, held, cand, tries, verdict, cloudVars, boxVars>>

StopInstance(c) ==
  /\ Goto(c, "stop", "returned")
  /\ power' = [power EXCEPT ![held[c]] = "stopped"]
  /\ job' = [job EXCEPT ![held[c]] = None]
  /\ UNCHANGED <<lock, held, cand, tries, verdict, labels, wrote, disk, passed>>

StopRaises(c) ==
  /\ "stop" \in Faults
  /\ Goto(c, "stop", "unstopped")
  /\ UNCHANGED <<lock, held, cand, tries, verdict, cloudVars, boxVars>>

(* SIGKILL or power loss of the machine the controller runs on: the kernel  *)
(* releases the flock, no Python code runs.                                 *)
Killed(c) ==
  /\ "kill" \in Faults
  /\ Active(c)
  /\ pc' = [pc EXCEPT ![c] = "killed"]
  /\ lock' = IF lock = c THEN None ELSE lock
  /\ UNCHANGED <<held, cand, tries, verdict, cloudVars, boxVars>>

----------------------------------------------------------------------------
(* vast.ai and the script on the box                                        *)

Boots(i) ==
  /\ power[i] = "loading"
  /\ power' = [power EXCEPT ![i] = "running"]
  /\ UNCHANGED <<controllerVars, labels, boxVars>>

(* The host takes an interruptible instance back.                           *)
Preempted(i) ==
  /\ "preempt" \in Faults
  /\ power[i] = "running"
  /\ power' = [power EXCEPT ![i] = "stopped"]
  /\ job' = [job EXCEPT ![i] = None]
  /\ UNCHANGED <<controllerVars, labels, wrote, disk, passed>>

Writes(i, status) ==
  /\ disk' = [disk EXCEPT ![i] = status]
  /\ UNCHANGED <<controllerVars, cloudVars, job>>

Writing(i) == job[i] # None /\ i \in wrote /\ disk[i].stage = "busy"

(* Mutant: the first write keeps the verdict an earlier run left.           *)
FirstWriteKeepsVerdict(i) ==
  /\ job[i] # None
  /\ i \notin wrote
  /\ wrote' = wrote \cup {i}
  /\ Writes(i, [disk[i] EXCEPT !.stage = "busy"])
  /\ UNCHANGED passed

(* Status.new(...).write: the first write replaces what an earlier run left.*)
JobFirstWrite(i) ==
  /\ job[i] # None
  /\ i \notin wrote
  /\ wrote' = wrote \cup {i}
  /\ Writes(i, [stage |-> "busy", verdict |-> None])
  /\ UNCHANGED passed

(* The verdict is written while the stage is still EVALUATING; publishing   *)
(* comes between that write and the last one.                               *)
JobVerdict(i) ==
  /\ Writing(i)
  /\ disk[i].verdict = None
  /\ \E v \in {"pass", "fail"} : Writes(i, [stage |-> "busy", verdict |-> v])
  /\ UNCHANGED <<wrote, passed>>

(* fail(): stage DONE, verdict ERROR.                                       *)
JobFails(i) ==
  /\ Writing(i)
  /\ disk[i].verdict = None
  /\ Writes(i, [stage |-> "done", verdict |-> "error"])
  /\ UNCHANGED <<wrote, passed>>

(* The last write of main(): stage DONE, the verdict as recorded.           *)
JobDone(i) ==
  /\ Writing(i)
  /\ disk[i].verdict # None
  /\ Writes(i, [disk[i] EXCEPT !.stage = "done"])
  /\ passed' = IF disk[i].verdict = "pass"
               THEN [passed EXCEPT ![i] = @ \cup {job[i]}] ELSE passed
  /\ UNCHANGED wrote

JobEnds(i) ==
  /\ job[i] # None
  /\ i \in wrote /\ disk[i].stage = "done"
  /\ job' = [job EXCEPT ![i] = None]
  /\ UNCHANGED <<controllerVars, cloudVars, wrote, disk, passed>>

(* The script dies without a last write: OOM kill, uncaught exception.      *)
JobDies(i) ==
  /\ "die" \in Faults
  /\ job[i] # None
  /\ i \notin wrote \/ disk[i].stage = "busy"
  /\ job' = [job EXCEPT ![i] = None]
  /\ UNCHANGED <<controllerVars, cloudVars, wrote, disk, passed>>

----------------------------------------------------------------------------
Provision(c) ==
  \/ AcquireLock(c)
  \/ FindRunning(c) \/ FindStopped(c) \/ FindNothing(c)
  \/ NoOffers(c) \/ CreateInstance(c) \/ LabelInstance(c)
  \/ BootReady(c) \/ BootNotReady(c) \/ BootGivesUp(c)
  \/ StartInstance(c) \/ StartReady(c) \/ StartNotReady(c) \/ StartGivesUp(c)

UseInstance(c) ==
  \/ DeploySucceeds(c) \/ LaunchSucceeds(c) \/ LaunchRefused(c)
  \/ PollUntilDone(c) \/ PullLog(c) \/ StopInstance(c)

(* DeployRaises is a fault only while the box is reachable.                 *)
Controller(c) == Provision(c) \/ UseInstance(c) \/ (DeployRaises(c) /\ ~Reachable(c))

ControllerFault(c) ==
  \/ ApiFails(c) \/ DeployRaises(c) \/ LaunchAnswerLost(c)
  \/ StopRaises(c) \/ Killed(c)

Job(i) ==
  JobFirstWrite(i) \/ JobVerdict(i) \/ JobFails(i) \/ JobDone(i) \/ JobEnds(i)

Cloud(i) == Boots(i) \/ Preempted(i) \/ JobDies(i)

Next ==
  \/ \E c \in Controllers : Provision(c) \/ UseInstance(c) \/ ControllerFault(c)
  \/ \E i \in Instances : Job(i) \/ Cloud(i)

Spec == Init /\ [][Next]_vars

(* A run that has begun keeps going (each of its calls returns or times     *)
(* out, and a poll loop that can read the box sometimes does), and so does  *)
(* a script on a box.  Nothing obliges a fault, a boot or a new run.        *)
Fairness ==
  /\ \A c \in Controllers : WF_vars(Active(c) /\ Controller(c))
  /\ \A i \in Instances : WF_vars(Job(i))

FairSpec == Spec /\ Fairness

----------------------------------------------------------------------------
(* Properties                                                               *)

TypeOK ==
  /\ pc \in [Controllers -> {"idle"} \cup Provisioning \cup Using \cup Ended]
  /\ lock \in Controllers \cup {None}
  /\ held \in [Controllers -> Instances \cup {None}]
  /\ cand \in [Controllers -> Instances \cup {None}]
  /\ tries \in [Controllers -> Nat]
  /\ verdict \in [Controllers -> Verdicts]
  /\ power \in [Instances -> Powers]
  /\ labels \in SUBSET Instances
  /\ job \in [Instances -> Controllers \cup {None}]
  /\ wrote \in SUBSET Instances
  /\ disk \in [Instances -> StatusFiles]
  /\ passed \in [Instances -> SUBSET Controllers]

(* No double rent: whatever is killed or fails, and however runs overlap,   *)
(* at most one contract carries the label, so find_labeled_instance never   *)
(* has to choose and two runs cannot each rent one (vast_ops.py             *)
(* provision_lock).                                                         *)
OneLabelled == \A i, j \in labels : i = j

(* A contract without the label is out of every later run's sight.  The     *)
(* only ones are those of a run that is about to label it, or that failed   *)
(* between create_instance and label_instance (rent_new_instance).          *)
UnlabelledAccounted ==
  \A i \in Instances \ labels :
    power[i] # "absent" =>
      \E c \in Controllers : cand[c] = i /\ pc[c] \in {"label", "gaveup", "killed"}

Billing(i) == power[i] \in {"loading", "running"}

(* c has i in hand: provision is working on it or has returned it.          *)
WorksOn(c, i) == i \in {held[c], cand[c]}

(* Billing is always somebody's: an instance that is up belongs to a run    *)
(* that still works on it, or to one that ended in one of the ways the      *)
(* finally clause of main() does not cover: provision() raised, the stop    *)
(* call raised, the process was killed.                                     *)
BillingAccounted ==
  \A i \in Instances :
    Billing(i) =>
      \E c \in Controllers :
        WorksOn(c, i) /\ (Active(c) \/ pc[c] \in {"gaveup", "unstopped", "killed"})

(* README: the controller "always stops the instance (try/finally guards    *)
(* against billing leaks)": with no run left, nothing is up.                *)
AlwaysStopsTheInstance ==
  \A i \in Instances : Billing(i) => \E c \in Controllers : Active(c)

ExitZero(c) == pc[c] \in {"returned", "unstopped"} /\ verdict[c] = "pass"

(* Exit 0 needs a script that finished with PASS on this very box, launched *)
(* by a run that was given the box; so on a box no other run was given, the *)
(* verdict is the run's own (poll.py poll_until_done, main()'s return).     *)
ZeroNeedsFinishedPass ==
  \A c \in Controllers :
    ExitZero(c) =>
      \E r \in Controllers : held[r] = held[c] /\ r \in passed[held[c]]

(* README: "Exit 0 iff the stage verdict is PASS": the verdict is that of   *)
(* this run's own script.                                                   *)
ZeroMeansOwnPass ==
  \A c \in Controllers : ExitZero(c) => c \in passed[held[c]]

(* A script is alive only while the run that launched it is at work behind  *)
(* its launch, or was killed, or could not stop the box: no other run's end *)
(* leaves a script behind on a rented box (main()'s finally clause), and    *)
(* none but these can meet the next run's launch.                           *)
ScriptsOwned ==
  \A i \in Instances :
    job[i] # None =>
      pc[job[i]] \in {"launch", "poll", "pull", "stop", "unstopped", "killed"}

(* "SSH drop mid-run: the job keeps running inside tmux on the box; the     *)
(* controller just reconnects and resumes polling": a run that sees its own *)
(* script started does not stop the box under it.                           *)
SshDropKeepsJob ==
  [][\A c \in Controllers :
       pc[c] = "stop" /\ pc'[c] = "returned" /\ job[held[c]] = c
         => held[c] \in wrote /\ disk[held[c]].stage = "done"]_vars

(* What a controller sees of a box is a run of the contract every stage     *)
(* script keeps: however runs overlap, are killed or retry the launch, no   *)
(* script starts beside another and a verdict on the disk is never mixed    *)
(* with the stage of another script.                                        *)
ScriptPhase(i) ==
  IF job[i] = None THEN "gone" ELSE IF i \in wrote THEN "writing" ELSE "launched"

Contract == INSTANCE JobContract WITH
  Boxes <- Instances,
  ErrorVerdict <- "error",
  phase <- [i \in Instances |-> ScriptPhase(i)],
  stage <- [i \in Instances |-> disk[i].stage],
  outcome <- [i \in Instances |-> disk[i].verdict]

BoxesKeepContract == Contract!Spec

(* c polls a box on which no script is left to write DONE.                  *)
PollsInVain(c) ==
  /\ pc[c] = "poll"
  /\ job[held[c]] = None
  /\ disk[held[c]].stage # "done" \/ ~Reachable(c)

(* Whatever fails, a run that has begun comes to its end or to a poll loop  *)
(* that nothing on the box can end: no wait but that of poll_until_done is  *)
(* unbounded, and that one only without a script.                           *)
EndsOrPollsInVain ==
  \A c \in Controllers : Active(c) ~> (pc[c] \in Ended \/ PollsInVain(c))

----------------------------------------------------------------------------
(* The inductive invariant behind the safety properties                     *)

(* The lock is held exactly while provision() runs.                         *)
LockInv == \A c \in Controllers : pc[c] \in Provisioning <=> lock = c

(* What each run has in hand, by phase; a labelled contract was created.    *)
HandInv ==
  /\ \A c \in Controllers :
       /\ pc[c] \in {"idle", "gaveup"} \cup Provisioning => held[c] = None
       /\ pc[c] \in Using \cup {"returned", "unstopped"} => held[c] \in labels
       /\ pc[c] \in {"label", "boot", "start", "check"}
            => cand[c] \in Instances /\ power[cand[c]] # "absent"
       /\ pc[c] \in {"boot", "start", "check"} => cand[c] \in labels
       /\ pc[c] \in {"create", "label"} => labels = {}
       /\ pc[c] \in {"idle", "find", "create", "returned", "unstopped"} \cup Using
            => cand[c] = None
  /\ \A i \in labels : power[i] # "absent"

(* Scripts, and the passes they recorded, belong to runs given that box,    *)
(* and every PASS a run can have read was recorded by a finished script.    *)
PassInv ==
  /\ \A i \in Instances :
       /\ job[i] # None => held[job[i]] = i
       /\ \A r \in passed[i] : held[r] = i
       /\ disk[i].stage = "done" => disk[i].verdict # None
       /\ disk[i].stage = "done" /\ disk[i].verdict = "pass" => passed[i] # {}
  /\ \A c \in Controllers :
       verdict[c] = "pass" => held[c] \in Instances /\ passed[held[c]] # {}

IInv ==
  /\ TypeOK
  /\ LockInv
  /\ HandInv
  /\ OneLabelled
  /\ UnlabelledAccounted
  /\ BillingAccounted
  /\ PassInv
  /\ ScriptsOwned
============================================================================
