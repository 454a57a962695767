SPECIFICATION FairRewardSpec
CONSTANTS
  Absent = Absent
  Raised = Raised
  t1 = t1  t2 = t2  t3 = t3  t4 = t4  t5 = t5
  t6 = t6  t7 = t7  t8 = t8  t9 = t9  t10 = t10
  s1 = s1
  Tests <- MCTests
  OwnTests <- MCOwnTests
  Suites <- MCSuites
  Goods <- MCGoods
  Claims <- MCClaims
  Timeout = 2
INVARIANTS PassExplained FailExplained LateIsNoPass PassingOutranks PunishmentExplained
PROPERTIES AlwaysAnswered AnswersAsOracle
CHECK_DEADLOCK FALSE
