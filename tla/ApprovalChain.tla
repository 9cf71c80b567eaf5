--------------------------- MODULE ApprovalChain ---------------------------
(***************************************************************************)
(* The approval chain of a voucher and the pure functions that move it     *)
(* (apps/api/src/domain/workflow/state-machine.ts, matrix.ts).             *)
(*                                                                         *)
(* Roles are numbered by their place in APPROVAL_ORDER: level 1 is the     *)
(* chief accountant, TopLevel the chairman. The code keeps the chain as an *)
(* array sorted by that order, one step per role, renumbered from 1        *)
(* whenever a step leaves it; here a chain maps each level to its step,    *)
(* absent levels to NoStep, so "lowest order" is "lowest level".           *)
(***************************************************************************)
EXTENDS Integers, FiniteSets

CONSTANTS
    TopLevel,   \* the length of APPROVAL_ORDER
    Users,
    NoUser      \* user_id: null

ASSUME ChainAssumption ==
    /\ TopLevel \in Nat \ {0}
    /\ NoUser \notin Users

Levels == 1..TopLevel
ChiefAccountant == 1
Chairman == TopLevel

StepStates == {"absent", "waiting", "current", "done", "skipped", "rejected"}
StepState == [state : StepStates, user : Users \cup {NoUser}]
Chains == [Levels -> StepState]

NoStep == [state |-> "absent", user |-> NoUser]
EmptyChain == [l \in Levels |-> NoStep]

(* Status: <<stage, level>>; the level is 0 unless the stage is pending,    *)
(* <<"pending", 1>> is 'pending.ktt' and so on (statusForStep).             *)
Draft == <<"draft", 0>>
Pending(l) == <<"pending", l>>
Approved == <<"approved", 0>>
Processing == <<"processing", 0>>
Paid == <<"paid", 0>>
Rejected == <<"rejected", 0>>
ChangesRequested == <<"changes_requested", 0>>
Cancelled == <<"cancelled", 0>>
PendingStatuses == {Pending(l) : l \in Levels}
Statuses == PendingStatuses \cup
    {Draft, Approved, Processing, Paid, Rejected, ChangesRequested, Cancelled}
EditableStatuses == {Draft, ChangesRequested, Rejected}

Approvals == {"approve", "approve_with_reason"}
Decisions == Approvals \cup {"reject", "request_changes"}

CanTransitionCancel(status, action) ==
    \/ action \in Decisions /\ status \in PendingStatuses
    \/ action = "cancel" /\ status \notin {Paid, Cancelled}
    \/ action = "pay" /\ status \in {Approved, Processing}
    \/ action = "queue_payment" /\ status = Approved
    \/ action = "request_changes" /\ status = Processing

CanTransition(status, action) ==
    \/ action \in Decisions /\ status \in PendingStatuses
    \/ action = "cancel" /\ status \in {Draft, Approved, ChangesRequested}
    \/ action = "pay" /\ status \in {Approved, Processing}
    \/ action = "queue_payment" /\ status = Approved
    \/ action = "request_changes" /\ status = Processing

-----------------------------------------------------------------------------
Lowest(S) == CHOOSE l \in S : \A k \in S : l <= k
Highest(S) == CHOOSE l \in S : \A k \in S : l >= k

LevelsIn(chain, states) == {l \in Levels : chain[l].state \in states}
PendingLevels(chain) == LevelsIn(chain, {"current", "waiting"})
Frozen(chain) == LevelsIn(chain, {"done", "skipped", "rejected"})
Present(chain) == {l \in Levels : chain[l].state # "absent"}

SetState(chain, S, state) ==
    [l \in Levels |-> IF l \in S THEN [chain[l] EXCEPT !.state = state] ELSE chain[l]]

RecalcStatus(chain) ==
    IF PendingLevels(chain) = {} THEN Approved ELSE Pending(Lowest(PendingLevels(chain)))

(* The lowest waiting step becomes current, unless one already is.          *)
PromoteAlways(chain) ==
    LET waiting == LevelsIn(chain, {"waiting"})
    IN  IF waiting = {} THEN chain ELSE SetState(chain, {Lowest(waiting)}, "current")

Promote(chain) ==
    LET waiting == LevelsIn(chain, {"waiting"})
    IN  IF LevelsIn(chain, {"current"}) # {} \/ waiting = {}
          THEN chain
          ELSE SetState(chain, {Lowest(waiting)}, "current")

(* applyDecision: the new chain, and whether it is finished.                *)
Approve(chain, level, fastTrack) ==
    LET decided == SetState(chain, {level}, "done")
        topDone == decided[Highest(Present(decided))].state = "done"
        pending == PendingLevels(decided)
    IN  IF topDone /\ fastTrack
          THEN [steps |-> SetState(decided, pending, "skipped"), finished |-> TRUE]
        ELSE IF topDone /\ pending = {}
          THEN [steps |-> decided, finished |-> TRUE]
          ELSE [steps |-> Promote(decided), finished |-> FALSE]

ApplyDecision(chain, level, action, fastTrack) ==
    CASE action \in Approvals -> Approve(chain, level, fastTrack)
      [] action = "reject" ->
            [steps |-> SetState(chain, {level}, "rejected"), finished |-> TRUE]
      [] action = "request_changes" ->
            [steps |-> SetState(chain,
                 {level} \cup {l \in LevelsIn(chain, {"done"}) : l < level}, "waiting"),
             finished |-> FALSE]

(* dropVacantSteps: the steps of the levels that have somebody; the first   *)
(* step of the matrix is current, the others wait (submitDocument).         *)
FreshChain(first, person) ==
    [l \in Levels |->
        IF person[l] = NoUser THEN NoStep
        ELSE [state |-> IF l = first THEN "current" ELSE "waiting", user |-> person[l]]]

(* The creator approves every step that is theirs on submission, but never  *)
(* the whole chain: their highest step is kept for a decision.              *)
SelfApproveAll(chain, creator) ==
    LET own == {l \in Present(chain) : chain[l].user = creator}
        rest == Present(chain) \ own
        decided == SetState(SetState(chain, own, "done"), rest, "waiting")
    IN  IF own = {} THEN chain ELSE Promote(decided)

SelfApprove(chain, creator) ==
    LET own == {l \in Present(chain) : chain[l].user = creator}
        rest == Present(chain) \ own
        decided == SetState(SetState(chain, own, "done"), rest, "waiting")
    IN  IF own = {} THEN chain
        ELSE IF rest = {} THEN SetState(decided, {Highest(own)}, "current")
        ELSE Promote(decided)

RerunChainAfresh(chain, person) ==
    LET pending == {l \in Levels : person[l] # NoUser}
    IN  FreshChain(Lowest(pending), person)

(* rerunOne: the pending part is rebuilt for the levels of person, the      *)
(* lowest of them is current, and the decided steps stay.                   *)
RerunChain(chain, person) ==
    LET pending == {l \in Levels : person[l] # NoUser}
    IN  [l \in Levels |->
            IF l \in Frozen(chain) THEN chain[l]
            ELSE IF l \notin pending THEN NoStep
            ELSE [state |-> IF l = Lowest(pending) THEN "current" ELSE "waiting",
                  user |-> person[l]]]
=============================================================================
