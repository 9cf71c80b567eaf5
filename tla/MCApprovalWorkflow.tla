------------------------ MODULE MCApprovalWorkflow ------------------------
(* Instances of ApprovalWorkflow for TLC: three levels, one user on each of *)
(* the first two and two on the top one, a creator below them (k) or one of *)
(* the approvers.                                                           *)
EXTENDS ActionRules, TLC

CONSTANTS k, c, p, d1, d2

MCLevelOf == [u \in Users |-> CASE u = k -> 0 [] u = c -> 1 [] u = p -> 2 [] OTHER -> 3]
MCSeats == <<<<c>>, <<p>>, <<d1, d2>>>>
MCSeatsOneEach == <<<<c>>, <<p>>, <<d1>>>>
MCSeatsNoChief == <<<<>>, <<p>>, <<d1, d2>>>>
NoDeputies == [u \in Users |-> u]
MCLimit == [u \in Users |-> 2]

(* Small amounts go to the first two levels, amounts above 1 to all three.  *)
MCSettings == {[row |-> [a \in Amounts |-> {1, 2}], chairmanAbove |-> 1,
                cashNeedsChief |-> FALSE]}

(* The chief accountant alone or with the next level; the company asks the  *)
(* chief accountant for cash vouchers, or does not.                         *)
MCCashSettings ==
    {[row |-> [a \in Amounts |-> levels], chairmanAbove |-> 1, cashNeedsChief |-> asks] :
        levels \in {{1}, {1, 2}}, asks \in BOOLEAN}

(* The second level is away: the director stands in.                        *)
DirectorForDeputy == [u \in Users |-> IF u = p THEN d1 ELSE u]

Symmetric == Permutations(Handlers)
=============================================================================
