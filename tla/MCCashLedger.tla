---------------------------- MODULE MCCashLedger ----------------------------
(* Instances of CashLedger for TLC: s spends from account A, t moves money  *)
(* from A to B, u spends from A and borrows from B.                         *)
EXTENDS CashLedger, TLC

CONSTANTS A, B, s, t, u

MCKind == [d \in Docs |-> IF d = t THEN "internal" ELSE "spend"]
MCSource == [d \in Docs |-> A]
MCDest == [d \in Docs |-> IF d = t THEN B ELSE NoAccount]
MCLender == [d \in Docs |-> IF d = u THEN B ELSE NoAccount]
MCAmount == [d \in Docs |-> 2]
MCOpening == A :> 2 @@ B :> 2
LenderOpening == A :> 0 @@ B :> 4
Mains == {Main(d) : d \in Docs}
Symmetric == Permutations(Handlers)
=============================================================================
