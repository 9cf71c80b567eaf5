---------------------------- MODULE ActionRules ----------------------------
(***************************************************************************)
(* What the screen of a voucher offers a user                              *)
(* (documentPermissions, apps/api/src/domain/entitlement/index.ts), beside *)
(* what the server carries out (ApprovalWorkflow). The two are written     *)
(* apart: the screen gets its buttons from the stored voucher, a request   *)
(* is checked again when it arrives.                                       *)
(*                                                                         *)
(* A user has one assignment, whose role and limit are LevelOf and Limit;  *)
(* missing evidence and the rights of single roles to override, to tag or  *)
(* to link are left out on both sides.                                     *)
(***************************************************************************)
EXTENDS ApprovalWorkflow

(* delegatedStepOrders (routes/documents.ts, detailOf): of each user whose  *)
(* deputy u is, the first step in that user's name.                         *)
DelegatedSteps(u) ==
    {Lowest({l \in Present(doc.steps) : doc.steps[l].user = d}) :
        d \in {d \in Users \ {u} :
                  Deputy[d] = u /\ \E l \in Present(doc.steps) : doc.steps[l].user = d}}

(* iAmStep *)
StepsOf(u) ==
    {l \in PendingLevels(doc.steps) :
        doc.steps[l].user = u \/ (doc.steps[l].user = NoUser /\ l = LevelOf[u])}
      \cup (PendingLevels(doc.steps) \cap DelegatedSteps(u))

WithinLimit(u) == LevelOf[u] > 0 /\ doc.amount <= Limit[u]
CreatorMaintainable ==
    /\ doc.status \in {Draft, Pending(ChiefAccountant), ChangesRequested, Rejected}
    /\ doc.status = ChangesRequested \/ ~ApprovedThisRound(doc.history)

(* approve is for a step that is due, fast_track for one that is not yet.   *)
AnyStep(steps, state) == steps # {}

AnyIn(steps, state) == \E l \in steps : doc.steps[l].state = state

(* documentPermissions: what the screen offers user u.                      *)
OfferedTo(u) ==
    LET mine == StepsOf(u)
        approves == doc.status \in PendingStatuses /\ WithinLimit(u) /\ mine # {}
        recalls == doc.status = Processing /\ WithinLimit(u)
        marks == u \in Payers /\ doc.kind # "rollover"
        offered(action) ==
            CASE action = "approve" -> approves /\ AnyIn(mine, "current")
              [] action = "approve_with_reason" ->
                    approves /\ AnyIn(mine, "waiting") /\ LevelsIn(doc.steps, {"current"}) # {}
              [] action = "reject" -> approves
              [] action = "request_changes" -> approves \/ recalls
              [] action = "submit" -> u = Creator /\ doc.status \in EditableStatuses
              [] action = "update" -> u = Creator /\ CreatorMaintainable
              [] action = "pay" -> marks /\ doc.status \in {Approved, Processing}
              [] action = "queue_payment" -> marks /\ doc.status = Approved
              [] action = "cancel" -> u = Creator /\ doc.status \in {Draft, ChangesRequested, Approved}
    IN  {action \in Actions : offered(action)}

(* A first request of the user, for the amount that stands.                 *)
Taken(u, action) ==
    Accepted([id |-> MaxRequests + 1, user |-> u, action |-> action,
              amount |-> doc.amount, ifMatch |-> doc.version])

OnNoDesk == InApproval /\ LevelsIn(doc.steps, {"current"}) = {}

(* "UI dựng action bar từ đúng đối tượng này" (entitlement/index.ts):       *)
(* through every decision, rerun and change of staff, what the screen       *)
(* offers is what the server would carry out, no more and no less. Only a   *)
(* step that is due may be approved with a reason too, which is not         *)
(* offered. Left out are a deputy, who is offered the steps another user    *)
(* got after or before the delegation and is refused them (see the README), *)
(* and a voucher on nobody's desk (see DecidableOnScreen).                  *)
OfferedIsAccepted ==
    \A u \in active : DelegatedSteps(u) = {} =>
        LET offered == OfferedTo(u)
            taken == {action \in Actions : Taken(u, action)}
        IN  /\ offered \subseteq taken
            /\ taken \ offered \subseteq
                  (IF "approve" \in offered THEN {"approve_with_reason"} ELSE {})
                    \cup (IF OnNoDesk THEN Approvals ELSE {})

(* A level nobody holds is left out of the chain (dropVacantSteps), so that *)
(* a voucher in approval can be approved by somebody, on the screen that    *)
(* the action bar is built from.                                            *)
DecidableOnScreen ==
    InApproval => \E u \in active : OfferedTo(u) \cap Approvals # {}
=============================================================================
