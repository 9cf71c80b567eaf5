-------------------------- MODULE VoucherLifecycle --------------------------
(* What the approval of a voucher promises, whoever approves and however    *)
(* requests interleave: it is approved only by a decision taken while it is *)
(* with the approvers, and from then on its amount is settled until it is   *)
(* paid, at most that amount and once, or called back.                      *)
EXTENDS Naturals

CONSTANT Amounts

VARIABLES stage,    \* editing | deciding | approved | queued | paid | cancelled
          amount,   \* what is asked for, then what was agreed
          paid      \* what was paid, 0 before

vars == <<stage, amount, paid>>

Init == stage = "editing" /\ amount \in Amounts /\ paid = 0

(* The creator changes the amount, also while the approvers have it.        *)
Edit ==
    /\ stage \in {"editing", "deciding"}
    /\ amount' \in Amounts
    /\ UNCHANGED <<stage, paid>>

Submit ==
    /\ stage = "editing"
    /\ stage' = "deciding"
    /\ UNCHANGED <<amount, paid>>

(* A decision: not the last one, back to the creator, or the final approval,*)
(* which may change the amount once more and pays an income at once.        *)
Decide ==
    /\ stage = "deciding"
    /\ amount' \in Amounts
    /\ \/ stage' \in {"deciding", "editing", "approved"} /\ paid' = paid
       \/ stage' = "paid" /\ paid' = amount'

Queue ==
    /\ stage = "approved"
    /\ stage' = "queued"
    /\ UNCHANGED <<amount, paid>>

Recall ==
    /\ stage = "queued"
    /\ stage' = "editing"
    /\ UNCHANGED <<amount, paid>>

Pay ==
    /\ stage \in {"approved", "queued"}
    /\ stage' = "paid"
    /\ paid' \in {a \in Amounts : a <= amount}
    /\ UNCHANGED amount

Cancel ==
    /\ stage \in {"editing", "approved"}
    /\ stage' = "cancelled"
    /\ UNCHANGED <<amount, paid>>

Next == Edit \/ Submit \/ Decide \/ Queue \/ Recall \/ Pay \/ Cancel

Spec == Init /\ [][Next]_vars
=============================================================================
