------------------------- MODULE ApprovalWorkflow -------------------------
(***************************************************************************)
(* One voucher, from draft to payment                                      *)
(* (apps/api/src/domain/workflow/{index,rerun}.ts, routes/documents.ts).   *)
(*                                                                         *)
(* Every HTTP request runs in a handler: it loads the voucher and computes *)
(* its update from that copy (Submit, Transition, EditAmount, Rerun), then *)
(* writes it with the compare-and-set of db/cas.ts (Commit), which holds   *)
(* only if the version and the status are still those it relies on. Other  *)
(* handlers move in between, and so does the personnel route, whose bulk   *)
(* update of the steps is not a compare-and-set. The assignments and the   *)
(* matrix are read together with the voucher: a later read of them only    *)
(* leaves out interleavings, since nothing else of the copy can change     *)
(* without the compare-and-set failing.                                    *)
(*                                                                         *)
(* A request that is refused (missing evidence or fields, opinion, retyped *)
(* amount, step-up, links, accounts, R3 lock) changes nothing: each such   *)
(* check is the possibility that the request is not made.                  *)
(***************************************************************************)
EXTENDS ApprovalChain, Sequences

CONSTANTS
    Handlers,       \* requests in progress at the same time
    Creator,        \* created_by
    LevelOf,        \* LevelOf[u]: the role of user u, 0 below chief accountant
    Seats,          \* Seats[l]: the assignments of level l, in the order read
    Deputy,         \* Deputy[u]: who stands in for u (u itself: no delegation)
    Limit,          \* amount_limit_minor
    Payers,         \* users with payment:mark
    Amounts,        \* the amounts a voucher may have
    Settings,       \* the approval settings there may be, see ResolveMatrix
    Kinds, Cash,    \* voucher kinds; whether the fund is a cash fund
    AdminActions,   \* what the administrator does in this instance
    Leavers,        \* the users who may leave
    MaxRequests, MaxAdmin,  \* bounds
    Idle            \* a handler with no update to write

ASSUME WorkflowAssumption ==
    /\ Creator \in Users
    /\ LevelOf \in [Users -> 0..TopLevel]
    /\ Deputy \in [Users -> Users]
    /\ Limit \in [Users -> Nat] /\ Amounts \subseteq Nat \ {0}
    /\ Payers \subseteq Users
    /\ \A l \in Levels : Seats[l] \in Seq(Users)
    /\ Kinds \subseteq {"spend", "income", "internal", "rollover"}
    /\ Cash \in BOOLEAN
    /\ AdminActions \subseteq {"settings", "deactivate", "activate", "transfer"}
    /\ Leavers \subseteq Users
    /\ MaxRequests \in Nat /\ MaxAdmin \in Nat

VARIABLES
    doc,        \* the stored voucher
    held,       \* held[h]: the update handler h is about to write
    sent,       \* the requests clients have made; any of them may be resent
    active,     \* users with an active account and assignments
    settings,   \* the approval settings in force
    leaving,    \* the user whose deactivation is in progress
    rerunDue,   \* an administrator's request still has to rerun pending vouchers
    adminLeft   \* bound on the administrator's changes

vars == <<doc, held, sent, active, settings, leaving, rerunDue, adminLeft>>
admin == <<active, settings, leaving, rerunDue, adminLeft>>

Actions == Decisions \cup {"submit", "cancel", "pay", "queue_payment", "update"}
Requests == [id : 1..MaxRequests, user : Users, action : Actions,
             amount : Amounts, ifMatch : Nat]
Entry == [action : Actions \cup {"rerun"}, user : Users \cup {NoUser},
          level : 0..TopLevel, amount : Amounts, request : 0..MaxRequests]
Documents == [kind : Kinds, status : Statuses, steps : Chains, amount : Amounts,
              paid : Amounts \cup {0}, settings : Settings, version : Nat,
              history : Seq(Entry), processed : SUBSET (1..MaxRequests)]
NoRequest == 0

Init ==
    /\ doc \in [kind : Kinds, status : {Draft}, steps : {EmptyChain}, amount : Amounts,
                paid : {0}, settings : Settings, version : {0},
                history : {<<>>}, processed : {{}}]
    /\ held = [h \in Handlers |-> Idle]
    /\ sent = {}
    /\ active = Users
    /\ settings = doc.settings
    /\ leaving = NoUser
    /\ rerunDue = FALSE
    /\ adminLeft = MaxAdmin

-----------------------------------------------------------------------------
(* Who has to approve.                                                      *)

(* resolveMatrix: the levels of the row for the amount, the chairman above  *)
(* the threshold, no chief accountant for cash unless the company asks.     *)
ResolveMatrix(s, amount) ==
    LET row == s.row[amount]
        full == IF amount > s.chairmanAbove THEN row \cup {Chairman} ELSE row
        rest == full \ {ChiefAccountant}
    IN  IF Cash /\ ~s.cashNeedsChief /\ rest # {} THEN rest ELSE full

(* pickUser and applyDelegations                                            *)
PickUser(l) ==
    LET seated == {i \in DOMAIN Seats[l] : Seats[l][i] \in active}
    IN  IF seated = {} THEN NoUser ELSE Deputy[Seats[l][Lowest(seated)]]

Staffed == {l \in Levels : PickUser(l) # NoUser}

(* assignUsers: a level nobody holds is dropped; only if nobody is left on  *)
(* the chain is the next higher level with somebody asked instead.          *)
AssignUsers(levels, decidedApprover) ==
    LET above == {l \in Staffed : l > Highest(levels)}
        asked == IF levels \cap Staffed # {} THEN levels \cap Staffed
                 ELSE IF decidedApprover \/ above = {} THEN {}
                 ELSE {Lowest(above)}
    IN  [l \in Levels |-> IF l \in asked THEN PickUser(l) ELSE NoUser]

-----------------------------------------------------------------------------
(* The update a handler writes: the fields it sets ($set) with their        *)
(* values, the history entry it pushes, and the version and statuses its    *)
(* compare-and-set asks for.                                                *)
LogEntry(action, user, level, amount, request) ==
    [action |-> action, user |-> user, level |-> level, amount |-> amount, request |-> request]

Update(status, writes, entry) ==
    [ifMatch |-> doc.version, statuses |-> {doc.status}, writes |-> writes,
     status |-> status, steps |-> doc.steps, settings |-> doc.settings,
     amount |-> doc.amount, paid |-> doc.paid, entry |-> entry]

Move(rq, status) ==
    Update(status, {"status"}, LogEntry(rq.action, rq.user, 0, doc.amount, rq.id))

(* submitDocument                                                           *)
CanSubmit(rq) ==
    /\ doc.status \in EditableStatuses
    /\ rq.user = Creator
    /\ rq.amount = doc.amount
    /\ ResolveMatrix(settings, doc.amount) # {}

SubmitUpdate(rq) ==
    LET matrix == ResolveMatrix(settings, doc.amount)
        person == AssignUsers(matrix, FALSE)
        steps == SelfApprove(FreshChain(Lowest(matrix), person), Creator)
    IN  [Move(rq, RecalcStatus(steps)) EXCEPT
            !.writes = {"status", "steps", "settings"},
            !.steps = steps,
            !.settings = settings]

(* transition: approve, approve_with_reason, reject, request_changes.       *)
(* A step nobody was assigned to may be decided by anyone of its role.      *)
Ours(l, u) ==
    IF doc.steps[l].user = NoUser THEN l = LevelOf[u] ELSE doc.steps[l].user = u

MyLevels(u) == {l \in PendingLevels(doc.steps) : Ours(l, u)}

FastTrack(l) ==
    /\ doc.steps[l].state # "current"
    /\ LevelsIn(doc.steps, {"current"}) # {}

CanDecideAnyTurn(rq) ==
    /\ doc.status \in PendingStatuses
    /\ LevelOf[rq.user] > 0
    /\ MyLevels(rq.user) # {}
    /\ rq.amount <= Limit[rq.user]
    /\ rq.amount # doc.amount => rq.action \in Approvals /\ doc.kind = "spend"

CanDecide(rq) ==
    /\ doc.status \in PendingStatuses
    /\ LevelOf[rq.user] > 0                                     \* approval:act
    /\ MyLevels(rq.user) # {}
    /\ rq.action = "approve" => ~FastTrack(Lowest(MyLevels(rq.user)))
    /\ rq.amount <= Limit[rq.user]
    /\ rq.amount # doc.amount => rq.action \in Approvals /\ doc.kind = "spend"

DecideUpdate(rq) ==
    LET level == Lowest(MyLevels(rq.user))
        applied == ApplyDecision(doc.steps, level, rq.action, FastTrack(level))
        next == CASE rq.action = "reject" -> Rejected
                  [] rq.action = "request_changes" -> ChangesRequested
                  [] OTHER -> IF applied.finished THEN Approved ELSE RecalcStatus(applied.steps)
        closes == next = Approved /\ doc.kind = "income"   \* carried out at once
    IN  [Move(rq, IF closes THEN Paid ELSE next) EXCEPT
            !.writes = {"status", "steps", "amount"} \cup (IF closes THEN {"paid"} ELSE {}),
            !.steps = [applied.steps EXCEPT ![level].user = rq.user],
            !.amount = rq.amount,
            !.paid = IF closes THEN rq.amount ELSE 0,
            !.entry = LogEntry(rq.action, rq.user, level, rq.amount, rq.id)]

(* transition: request_changes on a voucher in the payment queue.           *)
CanRecall(rq) ==
    /\ doc.status = Processing
    /\ LevelOf[rq.user] > 0
    /\ rq.amount = doc.amount /\ rq.amount <= Limit[rq.user]

(* transition: pay; the request carries the amount actually paid.           *)
CanPay(rq) ==
    /\ rq.user \in Payers
    /\ doc.kind # "rollover"
    /\ rq.amount <= doc.amount

PayUpdate(rq) ==
    [Move(rq, Paid) EXCEPT !.writes = {"status", "paid"}, !.paid = rq.amount]

(* transition: queue_payment, cancel                                        *)
CanQueue(rq) == rq.user \in Payers /\ doc.kind # "rollover" /\ rq.amount = doc.amount
CanCancel(rq) == rq.user = Creator /\ rq.amount = doc.amount

(* PATCH /documents/:id. The creator may still edit while the chief         *)
(* accountant has the voucher, unless somebody approved in this round.      *)
ApprovedThisRound(history) ==
    \E i \in DOMAIN history :
        /\ history[i].action \in Approvals
        /\ LevelOf[history[i].user] > 0
        /\ \A j \in i..Len(history) : history[j].action # "submit"

Editable == EditableStatuses \cup {Pending(ChiefAccountant)}

CanEditUnlocked(rq) == rq.user = Creator /\ doc.status \in Editable

CanEdit(rq) ==
    /\ rq.user = Creator
    /\ doc.status \in Editable
    /\ doc.status = ChangesRequested \/ ~ApprovedThisRound(doc.history)

EditUpdate(rq) ==
    [Move(rq, doc.status) EXCEPT
        !.statuses = Editable,
        !.writes = {"amount"},
        !.amount = rq.amount,
        !.entry.amount = rq.amount]

(* Whether request rq is carried out on the voucher as stored now, and how. *)
Accepted(rq) ==
    /\ rq.user \in active
    /\ rq.id \notin doc.processed
    /\ CASE rq.action = "submit" -> CanSubmit(rq)
         [] rq.action = "update" -> CanEdit(rq)
         [] OTHER ->
              /\ CanTransition(doc.status, rq.action)
              /\ CASE rq.action = "pay" -> CanPay(rq)
                   [] rq.action = "queue_payment" -> CanQueue(rq)
                   [] rq.action = "cancel" -> CanCancel(rq)
                   [] OTHER -> CanDecide(rq) \/ (rq.action = "request_changes" /\ CanRecall(rq))

UpdateOf(rq) ==
    CASE rq.action = "submit" -> SubmitUpdate(rq)
      [] rq.action = "update" -> EditUpdate(rq)
      [] rq.action = "pay" -> PayUpdate(rq)
      [] rq.action = "queue_payment" -> Move(rq, Processing)
      [] rq.action = "cancel" -> Move(rq, Cancelled)
      [] OTHER -> IF doc.status = Processing THEN Move(rq, ChangesRequested)
                                             ELSE DecideUpdate(rq)

(* A client looks at the voucher and makes a request; the handler loads it. *)
Request(h) ==
    /\ held[h] = Idle
    /\ Cardinality(sent) < MaxRequests
    /\ \E user \in Users, action \in Actions, amount \in Amounts :
          LET rq == [id |-> Cardinality(sent) + 1, user |-> user, action |-> action,
                     amount |-> amount, ifMatch |-> doc.version]
          IN  /\ Accepted(rq)
              /\ held' = [held EXCEPT ![h] = UpdateOf(rq)]
              /\ sent' = sent \cup {rq}
    /\ UNCHANGED <<doc, admin>>

(* The same request arrives again (double click, retry after a timeout).    *)
Resend(h) ==
    /\ held[h] = Idle
    /\ \E rq \in sent :
          /\ Accepted(rq)
          /\ held' = [held EXCEPT ![h] = [UpdateOf(rq) EXCEPT !.ifMatch = rq.ifMatch]]
    /\ UNCHANGED <<doc, sent, admin>>

(* rerunOne: rebuild the pending part of the chain for today's settings and *)
(* assignments. Nothing to ask, nobody to ask or no change: leave it.       *)
RerunUpdate ==
    LET wanted == ResolveMatrix(settings, doc.amount) \ Frozen(doc.steps)
        person == AssignUsers(wanted, LevelsIn(doc.steps, {"done"}) # {})
        steps == RerunChain(doc.steps, person)
    IN  IF \/ wanted = {}
           \/ \A l \in Levels : person[l] = NoUser
           \/ steps = doc.steps /\ settings = doc.settings /\ RecalcStatus(steps) = doc.status
          THEN Idle
          ELSE [Update(RecalcStatus(steps), {"status", "steps", "settings"},
                       LogEntry("rerun", NoUser, 0, doc.amount, NoRequest)) EXCEPT
                    !.steps = steps,
                    !.settings = settings]

Rerun(h) ==
    /\ held[h] = Idle
    /\ rerunDue
    /\ rerunDue' = FALSE
    /\ held' = [held EXCEPT ![h] = IF doc.status \in PendingStatuses THEN RerunUpdate ELSE Idle]
    /\ UNCHANGED <<doc, sent, active, settings, leaving, adminLeft>>

-----------------------------------------------------------------------------
(* cas(): the write, if version and status are still those it asks for.     *)
MatchesStatusOnly(w) == doc.status \in w.statuses

Matches(w) == doc.version = w.ifMatch /\ doc.status \in w.statuses

Field(w, name, new, old) == IF name \in w.writes THEN new ELSE old

Written(w) ==
    [doc EXCEPT
        !.status = Field(w, "status", w.status, @),
        !.steps = Field(w, "steps", w.steps, @),
        !.settings = Field(w, "settings", w.settings, @),
        !.amount = Field(w, "amount", w.amount, @),
        !.paid = Field(w, "paid", w.paid, @),
        !.version = @ + 1,
        !.history = Append(@, w.entry),
        !.processed = @ \cup ({w.entry.request} \ {NoRequest})]

Commit(h) ==
    /\ held[h] # Idle
    /\ doc' = IF Matches(held[h]) THEN Written(held[h]) ELSE doc
    /\ held' = [held EXCEPT ![h] = Idle]
    /\ UNCHANGED <<sent, admin>>

-----------------------------------------------------------------------------
(* The administrator: settings and personnel routes, one request at a time. *)
AdminMay(what) ==
    what \in AdminActions /\ adminLeft > 0 /\ leaving = NoUser /\ ~rerunDue

ChangeSettings ==
    /\ AdminMay("settings")
    /\ settings' \in Settings \ {settings}
    /\ rerunDue' = TRUE
    /\ adminLeft' = adminLeft - 1
    /\ UNCHANGED <<doc, held, sent, active, leaving>>

(* The bulk update of a user's steps, whatever the version of the voucher.  *)
HandOver(u, states, to) ==
    IF doc.status \in PendingStatuses
      THEN [doc EXCEPT !.steps = [l \in Levels |->
              IF @[l].user = u /\ @[l].state \in states
                THEN [@[l] EXCEPT !.user = to] ELSE @[l]]]
      ELSE doc

(* POST /personnel/:id/deactivate: the pending steps go to the replacement, *)
(* or to nobody in particular; then the account and the assignments end,    *)
(* then pending vouchers are rerun.                                         *)
Deactivate(u) ==
    /\ AdminMay("deactivate")
    /\ u \in active
    /\ \E to \in (active \ {u}) \cup {NoUser} :
          doc' = HandOver(u, {"current", "waiting"}, to)
    /\ leaving' = u
    /\ adminLeft' = adminLeft - 1
    /\ UNCHANGED <<held, sent, active, settings, rerunDue>>

(* POST /personnel/:id/transfer to another company, with a replacement: all *)
(* steps of the user change hands, the decided ones included.               *)
Transfer(u) ==
    /\ AdminMay("transfer")
    /\ u \in active
    /\ \E to \in active \ {u} : doc' = HandOver(u, StepStates, to)
    /\ leaving' = u
    /\ adminLeft' = adminLeft - 1
    /\ UNCHANGED <<held, sent, active, settings, rerunDue>>

EndAssignments ==
    /\ leaving # NoUser
    /\ active' = active \ {leaving}
    /\ leaving' = NoUser
    /\ rerunDue' = TRUE
    /\ UNCHANGED <<doc, held, sent, settings, adminLeft>>

(* POST /personnel/:id/activate                                             *)
Activate(u) ==
    /\ AdminMay("activate")
    /\ u \notin active
    /\ active' = active \cup {u}
    /\ rerunDue' = TRUE
    /\ adminLeft' = adminLeft - 1
    /\ UNCHANGED <<doc, held, sent, settings, leaving>>

HandlerStep(h) == Request(h) \/ Resend(h) \/ Rerun(h) \/ Commit(h)

Next ==
    \/ \E h \in Handlers : HandlerStep(h)
    \/ ChangeSettings
    \/ \E u \in Leavers : Deactivate(u) \/ Transfer(u) \/ Activate(u)
    \/ EndAssignments

Spec == Init /\ [][Next]_vars

-----------------------------------------------------------------------------
(* Properties.                                                              *)

Updates == [ifMatch : Nat, statuses : SUBSET Statuses,
            writes : SUBSET {"status", "steps", "settings", "amount", "paid"},
            status : Statuses, steps : Chains, settings : Settings,
            amount : Amounts, paid : Amounts \cup {0}, entry : Entry]

(* Types: every field of the voucher, of the updates in flight and of the   *)
(* requests stays in its range, whatever is written over it.                *)
TypeOK ==
    /\ doc \in Documents
    /\ held \in [Handlers -> Updates \cup {Idle}]
    /\ sent \subseteq Requests
    /\ active \subseteq Users
    /\ settings \in Settings
    /\ leaving \in Users \cup {NoUser}
    /\ rerunDue \in BOOLEAN
    /\ adminLeft \in 0..MaxAdmin

InApproval == doc.status \in PendingStatuses
Agreed == doc.status \in {Approved, Processing, Paid}

ThisRound == {i \in DOMAIN doc.history :
                 \A j \in DOMAIN doc.history : j > i => doc.history[j].action # "submit"}
ApprovalsThisRound == {i \in ThisRound : doc.history[i].action \in Approvals}

(* A request is carried out at most once, however often it arrives and      *)
(* whatever else runs between its load and its write.                       *)
AppliedOnce ==
    \A i, j \in DOMAIN doc.history :
        i # j /\ doc.history[i].request # NoRequest
            => doc.history[i].request # doc.history[j].request

(* No decision is lost or made up: every approval of this round still       *)
(* stands on the chain in its author's name, and every step done has its    *)
(* approval on record or was the creator's own, through concurrent          *)
(* decisions, reruns and changes of staff.                                  *)
DecisionsOnRecord ==
    InApproval \/ Agreed =>
        /\ \A i \in ApprovalsThisRound :
              doc.steps[doc.history[i].level] =
                  [state |-> "done", user |-> doc.history[i].user]
        /\ \A l \in LevelsIn(doc.steps, {"done"}) :
              \/ doc.steps[l].user = Creator
              \/ \E i \in ApprovalsThisRound :
                    doc.history[i].level = l /\ doc.history[i].user = doc.steps[l].user

(* "On whose desk": while a voucher is in approval exactly one step is      *)
(* current, it is the lowest still to be decided, and the status names it.  *)
OneDesk ==
    InApproval =>
        /\ LevelsIn(doc.steps, {"current"}) = {Lowest(PendingLevels(doc.steps))}
        /\ doc.status = Pending(Lowest(PendingLevels(doc.steps)))

(* An approved voucher has nothing left to decide, its top level did        *)
(* approve, and somebody took a decision after it was submitted: the        *)
(* creator's approval on submission never completes the chain.              *)
NeverByItself ==
    Agreed =>
        /\ PendingLevels(doc.steps) = {}
        /\ Present(doc.steps) # {}
        /\ doc.steps[Highest(Present(doc.steps))].state = "done"
        /\ ApprovalsThisRound # {}

(* The amount the last approver agreed to is the amount of the voucher      *)
(* until the round ends: neither the creator nor a late update changes it,  *)
(* and no more than that is paid.                                           *)
AgreedAmountStands ==
    InApproval \/ Agreed =>
        /\ \A i \in ApprovalsThisRound :
              (\A j \in ApprovalsThisRound : j <= i) => doc.amount = doc.history[i].amount
        /\ doc.paid <= doc.amount
        /\ doc.status = Paid => doc.paid > 0

(* An ordinary approval decides the step whose turn it is: whoever is ahead *)
(* of their turn has to say so and why (approve_with_reason).               *)
NewEntry == doc'.history[Len(doc'.history)]
InTurn ==
    [][doc'.history # doc.history /\ NewEntry.action = "approve"
        => NewEntry.level = Lowest(PendingLevels(doc.steps))]_vars

(* The voucher as VoucherLifecycle sees it.                                 *)
StageOf(status) ==
    CASE status \in EditableStatuses -> "editing"
      [] status \in PendingStatuses -> "deciding"
      [] status = Processing -> "queued"
      [] OTHER -> status[1]

Lifecycle == INSTANCE VoucherLifecycle
    WITH stage <- StageOf(doc.status), amount <- doc.amount, paid <- doc.paid

(* Every step of the workflow is a step of VoucherLifecycle or leaves it    *)
(* unchanged: approval only by a decision, the amount settled afterwards,   *)
(* paid once.                                                               *)
KeepsLifecycle == Lifecycle!Spec
=============================================================================
