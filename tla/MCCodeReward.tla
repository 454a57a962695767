---------------------------- MODULE MCCodeReward ----------------------------
(* CodeReward with suites of plain asserts, of one function and of two that *)
(* hold, break off or break off early, and one of ten functions of which a  *)
(* solution may satisfy all but one; and with solutions that report a pass, *)
(* more passes than tests, or that nothing was tested.                      *)
EXTENDS CodeReward

CONSTANTS t1, t2, t3, t4, t5, t6, t7, t8, t9, t10, s1

MCTests == {t1, t2, t3, t4, t5, t6, t7, t8, t9, t10}

MCOwnTests == {s1}

Suite(funcs, reached, body) == [funcs |-> funcs, reached |-> reached, body |-> body]

MCSuites ==
  {Suite({}, {}, "returns"), Suite({}, {}, "raises"),
   Suite({t1}, {t1}, "returns"), Suite({t1}, {}, "raises"),
   Suite({t1, t2}, {t1}, "raises"), Suite(MCTests, MCTests, "returns")}

MCGoods == SUBSET {t1, s1} \cup {MCTests \ {t10}, MCTests}

MCClaims == {Outcome(1, 1, TRUE, 0), Outcome(2, 1, FALSE, -1), Outcome(0, 0, TRUE, 0)}
=============================================================================
