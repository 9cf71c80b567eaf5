--------------------------- MODULE MCBusinessLinks ---------------------------
(* Scenes of BusinessLinks for TLC, each a state the operations lead to: a  *)
(* debt and two spends, one of them linked or not; an active loan that two  *)
(* approved spends will repay, a unit each; a loan to be disbursed by one   *)
(* or both of two incomes. What a scene has not is absent.                  *)
EXTENDS BusinessLinks, TLC

CONSTANTS s1, s2, i1, i2, t1, l1, p1, p2

MCKind == [d \in Docs |-> IF d \in {s1, s2} THEN "spend" ELSE "income"]
MCDirection == [t \in Debts |-> "payable"]
Symmetric == Permutations(Handlers) \cup Permutations({s1, s2}) \cup Permutations({i1, i2})

Link(d, t, rel) == [from |-> d, to |-> t, rel |-> rel, amount |-> 1, principal |-> 1, id |-> 0]

Scene(there, status, target, L) ==
    /\ doc \in [Docs -> {Amount(status, a, p1) : a \in Sums} \cup {Amount("none", 0, p1)}]
    /\ {d \in Docs : doc[d].status # "none"} = there
    /\ item = [t \in Targets |-> IF t \in DOMAIN target THEN target[t] ELSE Limit("absent", 0, p1)]
    /\ links = L
    /\ past = {<<l.to, l.rel>> : l \in L}
    /\ byHand = {t \in DOMAIN target : target[t].status = "active"}

MCInit ==
    /\ \/ \E d \in {s1, s2} : Scene({s1, s2}, "draft", t1 :> Limit("open", 2, p1), {Link(d, t1, "offset")})
       \/ Scene({s1, s2}, "draft", t1 :> Limit("open", 2, p1), {})
       \/ Scene({s1, s2}, "approved", l1 :> Limit("active", 2, p1), {Link(d, l1, "repayment") : d \in {s1, s2}})
       \/ \E d \in {i1, i2} : Scene({i1, i2}, "approved", l1 :> Limit("pending", 2, p1), {Link(d, l1, "disbursement")})
       \/ Scene({i1, i2}, "approved", l1 :> Limit("pending", 2, p1), {Link(d, l1, "disbursement") : d \in {i1, i2}})
       \/ Scene({}, "draft", <<>>, {})
    /\ announced = {} /\ paidEvents = {}
    /\ todo = [h \in Procs |-> Nothing]
    /\ excused = {} /\ quiet = {}
    /\ requests = 0

MCSpec == MCInit /\ [][Next]_vars
=============================================================================
