---------------------------- MODULE BusinessLinks ----------------------------
(***************************************************************************)
(* Business links and what they allocate (links/index.ts, debt/debts.ts,   *)
(* debt/loans.ts, debt/rules.ts, debt/loan-on-delete.ts and their routes). *)
(*                                                                         *)
(* A voucher offsets a debt, repays a loan or brings its disbursement; a   *)
(* link carries the amount. What a debt or a loan has left is never        *)
(* stored: it is summed from the active links whose vouchers still count.  *)
(* Every operation reads, checks and then writes with an unrelated or no   *)
(* guard in the database, so each is two steps here: Check... leaves in    *)
(* todo what will be written, the second step writes it whatever happened  *)
(* meanwhile. All the reads of one operation are one step.                 *)
(*                                                                         *)
(* excused is history: the debts, loans and vouchers whose rules a write   *)
(* skipped, because its check would fail by the time it writes, because a  *)
(* rejected voucher came back, or because the document screen checks less  *)
(* than the loan screen. The properties say that nothing else breaks the   *)
(* sums and the states of what is not excused.                             *)
(***************************************************************************)
EXTENDS Integers, FiniteSets, FiniteSetsExt

CONSTANTS
    Docs, Debts, Loans,
    Kind,           \* Kind[d]: "spend" or "income"
    Direction,      \* Direction[t]: "receivable" or "payable"
    Partners,
    Sums,           \* the amounts people enter
    Doors,          \* screens links are edited from: "document", "target"
    Handlers,       \* concurrent requests
    Engine,         \* the automation worker
    MaxRequests, MaxCreated     \* bounds: requests, debts or loans made

Targets == Debts \cup Loans
Procs == Handlers \cup {Engine}

ASSUME LinksAssumption ==
    /\ Kind \in [Docs -> {"spend", "income"}]
    /\ Direction \in [Debts -> {"receivable", "payable"}]
    /\ Sums \subseteq Nat \ {0} /\ Sums # {}
    /\ Doors \subseteq {"document", "target"}
    /\ Debts \cap Loans = {} /\ Docs \cap Targets = {}
    /\ Engine \notin Handlers
    /\ MaxRequests \in Nat /\ MaxCreated \in Nat

VARIABLES
    doc,        \* status, amount, partner of each voucher; "none" before and after
    item,       \* the same of each debt and loan; its limit: value or principal
    links,      \* the active links
    past,       \* <<target, relation>> of every link there ever was
    announced,  \* loans of which loan.settled was emitted
    paidEvents, \* income vouchers whose voucher.paid the engine has not handled
    todo,       \* what each process is about to write
    excused,    \* history, see above
    byHand,     \* history: loans disbursed without a voucher
    quiet,      \* history: loans whose principal was set to what is repaid
    requests    \* bounded by MaxRequests

vars == <<doc, item, links, past, announced, paidEvents, todo, excused, byHand, quiet, requests>>
objects == <<doc, item>>
history == <<excused, byHand, quiet>>

-----------------------------------------------------------------------------
Open == {"draft", "approved", "paid"}
Released == {"cancelled", "rejected"}           \* and expired
Executed == {"paid"}

Relations == {"offset", "repayment", "disbursement"}
TargetsOf(rel) == IF rel = "offset" THEN Debts ELSE Loans

(* RELATION_SPECS and assertOffsetDirection                                 *)
RelationFits(d, t, rel) ==
    /\ t \in TargetsOf(rel)
    /\ Kind[d] = CASE rel = "offset" -> IF Direction[t] = "receivable" THEN "income" ELSE "spend"
                   [] rel = "repayment" -> "spend"
                   [] OTHER -> "income"
    /\ doc[d].partner = item[t].partner

Exists(t) == item[t].status \notin {"absent", "gone"}

Key(l) == <<l.from, l.to, l.rel>>

Allocated(L) == MapThenSumSet(LAMBDA l : l.amount, L)

(* principalPartOf: of a repayment that is split, only the principal.       *)
PrincipalOf(L) == MapThenSumSet(LAMBDA l : l.principal, L)

FromDoc(d) == {l \in links : l.from = d}
Of(t, rel) == {l \in links : l.to = t /\ l.rel = rel}

(* reservingLinks: a voucher that is cancelled, rejected or gone holds      *)
(* nothing.                                                                 *)
ReservingPaid(L) == {l \in L : doc[l.from].status \in Executed}
Reserving(L) == {l \in L : doc[l.from].status \in Open}

Repaid(t) == PrincipalOf({l \in Of(t, "repayment") : doc[l.from].status \in Executed})
PaidDisbursements(t) == {l \in Of(t, "disbursement") : doc[l.from].status \in Executed}

(* What links of one relation hold of the limit of their target.            *)
Committed(t, rel) ==
    IF rel = "repayment" THEN PrincipalOf(Reserving(Of(t, rel))) ELSE Allocated(Reserving(Of(t, rel)))

(* assertCapacity: the voucher counts all its links, the target those that  *)
(* hold something.                                                          *)
Fits(l) ==
    /\ Allocated(FromDoc(l.from)) + l.amount <= doc[l.from].amount
    /\ Committed(l.to, l.rel) + (IF l.rel = "repayment" THEN l.principal ELSE l.amount)
         <= item[l.to].limit

(* loanOutstandingOf and loanStatusOf, with the due date left out           *)
Outstanding(t) == item[t].limit - Repaid(t)
LoanStatus(t) ==
    IF item[t].status = "active" /\ Outstanding(t) <= 0 THEN "settled" ELSE item[t].status

-----------------------------------------------------------------------------
Nothing == [op |-> "none"]

Amount(status, amount, p) == [status |-> status, amount |-> amount, partner |-> p]
Limit(status, limit, p) == [status |-> status, limit |-> limit, partner |-> p]

Init ==
    /\ doc \in [Docs -> {Amount("draft", a, p) : a \in Sums, p \in Partners}
                        \cup {Amount("none", 0, p) : p \in Partners}]
    /\ item = [t \in Targets |-> Limit("absent", 0, CHOOSE p \in Partners : TRUE)]
    /\ links = {} /\ past = {} /\ announced = {} /\ paidEvents = {}
    /\ todo = [h \in Procs |-> Nothing]
    /\ excused = {} /\ byHand = {} /\ quiet = {}
    /\ requests = 0

Idle(h) == todo[h] = Nothing
Become(h, w) == todo' = [todo EXCEPT ![h] = w]
Free(h) == h \in Handlers /\ Idle(h) /\ requests < MaxRequests
Begin(h, w) == Become(h, w) /\ requests' = requests + 1
Doing(h, op) == todo[h].op = op

(* createDebt, createLoan: made active or to be disbursed                   *)
Create(t) ==
    /\ item[t].status = "absent"
    /\ Cardinality({x \in Targets : item[x].status # "absent"}) < MaxCreated
    /\ \E limit \in Sums, p \in Partners,
          status \in IF t \in Loans THEN {"pending", "active"} ELSE {"open"} :
          /\ item' = [item EXCEPT ![t] = Limit(status, limit, p)]
          /\ byHand' = IF status = "active" THEN byHand \cup {t} ELSE byHand
    /\ UNCHANGED <<doc, links, past, announced, paidEvents, todo, excused, quiet, requests>>

-----------------------------------------------------------------------------
(* assignOffset, assignDisbursement, assignRepayment, POST                  *)
(* /documents/:id/links. The last one does not look at the loan's state.    *)
LoanTakes(t, rel) ==
    CASE rel = "offset" -> TRUE
      [] rel = "repayment" -> LoanStatus(t) = "active"
      [] OTHER -> LoanStatus(t) \in {"pending", "active"}

CheckLink(h) ==
    /\ Free(h)
    /\ \E d \in Docs, t \in Targets, rel \in Relations :
        /\ doc[d].status \in Open
        /\ Exists(t)
        /\ RelationFits(d, t, rel)
        /\ \E amount, principal \in Sums, door \in Doors :
           /\ IF rel = "repayment" THEN principal <= amount ELSE principal = amount
           /\ door = "target" => LoanTakes(t, rel)
           /\ LET l == [from |-> d, to |-> t, rel |-> rel, amount |-> amount, principal |-> principal,
                       id |-> requests]
              IN  /\ Fits(l)
                  /\ Key(l) \notin {Key(x) : x \in links}
                  /\ Begin(h, [op |-> "insert", link |-> l, paid |-> doc[d].status = "paid"])
                  /\ excused' = IF LoanTakes(t, rel) THEN excused ELSE excused \cup {t}
    /\ UNCHANGED <<doc, item, links, past, announced, paidEvents, byHand, quiet>>

(* What no longer holds of the check when the link is inserted: the room,   *)
(* the partner, the loan, or that the voucher was not yet paid.             *)
OutOfDate(w) ==
    LET l == w.link
        good == /\ doc[l.from].status \in Open /\ Exists(l.to)
                /\ RelationFits(l.from, l.to, l.rel)
                /\ LoanTakes(l.to, l.rel) /\ Fits(l)
                /\ w.paid = (doc[l.from].status = "paid")
    IN  IF good THEN {} ELSE {l.from, l.to}

(* After a repayment: every loan the voucher repays.                        *)
SettleOf(d, L) ==
    [op |-> "settle", doc |-> d, loans |-> {l.to : l \in {x \in L : x.from = d /\ x.rel = "repayment"}}]

(* createLink: the unique index refuses a second link of the same pair.     *)
(* With a paid voucher the loan is disbursed, or perhaps settled, at once.  *)
InsertLink(h) ==
    /\ Doing(h, "insert")
    /\ LET l == todo[h].link
       IN  IF Key(l) \in {Key(x) : x \in links}
             THEN Become(h, Nothing) /\ UNCHANGED <<links, past, excused>>
             ELSE /\ links' = links \cup {l}
                  /\ past' = past \cup {<<l.to, l.rel>>}
                  /\ excused' = excused \cup OutOfDate(todo[h])
                  /\ Become(h, CASE ~todo[h].paid -> Nothing
                                 [] l.rel = "disbursement" -> [op |-> "disburse", loans |-> {l.to}]
                                 [] l.rel = "repayment" -> SettleOf(l.from, links \cup {l})
                                 [] OTHER -> Nothing)
    /\ UNCHANGED <<doc, item, announced, paidEvents, byHand, quiet, requests>>

(* unassignOffset, unassignLoanLink: the links of a loan stay once the      *)
(* voucher is paid; DELETE /documents/:id/links/:linkId does not ask.       *)
MayUnlink(l) == l.rel = "offset" \/ doc[l.from].status # "paid"

CheckUnlink(h) ==
    Free(h) /\
    \E l \in links, door \in Doors :
        /\ door = "target" => MayUnlink(l)
        /\ Begin(h, [op |-> "unlink", link |-> l])
        /\ UNCHANGED <<doc, item, links, past, announced, paidEvents, history>>

RemoveLink(h) ==
    /\ Doing(h, "unlink")
    /\ LET l == todo[h].link
       IN  /\ links' = links \ {l}
           /\ excused' = IF l \in links /\ ~MayUnlink(l) THEN excused \cup {l.to} ELSE excused
    /\ Become(h, Nothing)
    /\ UNCHANGED <<doc, item, past, announced, paidEvents, byHand, quiet, requests>>

-----------------------------------------------------------------------------
(* updateDebt, updateLoan: the limit covers what is held of it, the partner *)
(* changes only without links, a loan is disbursed or not by hand only      *)
(* while no voucher does it. Written by _id, with no guard.                 *)
Editable(t) == item[t].status \in {"open", "pending", "active"}

Covers(t, limit) == \A rel \in Relations : Committed(t, rel) <= limit

MayEdit(t, new) ==
    /\ Editable(t)
    /\ new.limit # item[t].limit => Covers(t, new.limit)
    /\ new.partner # item[t].partner => {l \in links : l.to = t} = {}
    /\ CASE new.status = item[t].status -> TRUE
         [] new.status = "active" -> item[t].status = "pending" /\ Of(t, "disbursement") = {}
         [] OTHER -> item[t].status = "active" /\ {l \in links : l.to = t} = {}

CheckEdit(h) ==
    Free(h) /\
    \E t \in Targets, limit \in Sums, p \in Partners :
        \E status \in IF t \in Loans THEN {"pending", "active"} ELSE {"open"} :
          LET new == Limit(status, limit, p)
          IN  /\ new # item[t] /\ MayEdit(t, new)
              /\ Begin(h, [op |-> "edit", item |-> t, old |-> item[t], new |-> new])
              /\ UNCHANGED <<doc, item, links, past, announced, paidEvents, history>>

(* $set has only the fields that were edited.                               *)
Edited(t, old, new) ==
    [f \in DOMAIN new |-> IF new[f] # old[f] THEN new[f] ELSE item[t][f]]

WriteEdit(h) ==
    /\ Doing(h, "edit")
    /\ LET t == todo[h].item
           w == Edited(t, todo[h].old, todo[h].new)
       IN  IF ~Exists(t) THEN UNCHANGED <<item, history>>
           ELSE /\ item' = [item EXCEPT ![t] = w]
                /\ excused' = IF item[t] = todo[h].old /\ MayEdit(t, w) THEN excused ELSE excused \cup {t}
                /\ byHand' = IF w.status = "active" /\ todo[h].old.status # "active" THEN byHand \cup {t}
                             ELSE IF w.status = "pending" THEN byHand \ {t} ELSE byHand
                /\ quiet' = IF w.limit <= Repaid(t) THEN quiet \cup {t} ELSE quiet
    /\ Become(h, Nothing)
    /\ UNCHANGED <<doc, links, past, announced, paidEvents, requests>>

(* assertDebtDeletable, assertLoanDeletable: never linked, also not in the  *)
(* past; a loan only if it was never disbursed.                             *)
Deletable(t) ==
    /\ item[t].status \in {"open", "pending", "cancelled"}
    /\ \A rel \in Relations : <<t, rel>> \notin past

CheckDeleteTarget(h) ==
    Free(h) /\
    \E t \in Targets :
        /\ Deletable(t)
        /\ Begin(h, [op |-> "remove", item |-> t])
        /\ UNCHANGED <<doc, item, links, past, announced, paidEvents, history>>

DeleteTarget(h) ==
    /\ Doing(h, "remove")
    /\ LET t == todo[h].item
       IN  /\ excused' = IF Deletable(t) THEN excused ELSE excused \cup {t}
           /\ item' = [item EXCEPT ![t].status = "gone"]
    /\ Become(h, Nothing)
    /\ UNCHANGED <<doc, links, past, announced, paidEvents, byHand, quiet, requests>>

(* cancelPendingLoan: no voucher that still counts is linked; the links     *)
(* that are left go one by one, then the loan is cancelled if pending.      *)
Cancellable(t) ==
    /\ item[t].status = "pending"
    /\ \A l \in links : l.to = t => doc[l.from].status \notin Open

CheckCancel(h) ==
    Free(h) /\
    \E t \in Loans :
        /\ Cancellable(t)
        /\ Begin(h, [op |-> "cancel", item |-> t, links |-> {l \in links : l.to = t}])
        /\ UNCHANGED <<doc, item, links, past, announced, paidEvents, history>>

(* removeLink fails when somebody else removed the link: the cancellation   *)
(* stops there.                                                             *)
CancelStep(h) ==
    /\ Doing(h, "cancel")
    /\ LET w == todo[h]
       IN  IF w.links = {}
             THEN /\ item' = IF item[w.item].status = "pending"
                               THEN [item EXCEPT ![w.item].status = "cancelled"] ELSE item
                  /\ excused' = IF Cancellable(w.item) THEN excused ELSE excused \cup {w.item}
                  /\ Become(h, Nothing) /\ UNCHANGED links
             ELSE \E l \in w.links :
                  /\ links' = links \ {l}
                  /\ Become(h, IF l \in links THEN [w EXCEPT !.links = @ \ {l}] ELSE Nothing)
                  /\ excused' = IF l \in links /\ ~MayUnlink(l) THEN excused \cup {w.item} ELSE excused
                  /\ UNCHANGED item
    /\ UNCHANGED <<doc, past, announced, paidEvents, byHand, quiet, requests>>

(* archiveLoan: of a settled loan                                           *)
CheckArchive(h) ==
    Free(h) /\
    \E t \in Loans :
        /\ LoanStatus(t) = "settled"
        /\ Begin(h, [op |-> "archive", item |-> t])
        /\ UNCHANGED <<doc, item, links, past, announced, paidEvents, history>>

Archive(h) ==
    /\ Doing(h, "archive")
    /\ LET t == todo[h].item
       IN  /\ item' = IF Exists(t) THEN [item EXCEPT ![t].status = "archived"] ELSE item
           /\ excused' = IF LoanStatus(t) = "settled" THEN excused ELSE excused \cup {t}
    /\ Become(h, Nothing)
    /\ UNCHANGED <<doc, links, past, announced, paidEvents, byHand, quiet, requests>>

-----------------------------------------------------------------------------
(* activateLoanOnDisbursement, one loan after the other: read, then a       *)
(* compare-and-set of "pending". With every assigned voucher paid the       *)
(* principal becomes what came.                                             *)
CheckDisburse(h) ==
    /\ Doing(h, "disburse")
    /\ IF todo[h].loans = {} THEN Become(h, Nothing)
       ELSE \E t \in todo[h].loans :
            LET rest == todo[h].loans \ {t}
                came == Allocated(PaidDisbursements(t))
            IN  Become(h, IF item[t].status = "pending" /\ PaidDisbursements(t) # {}
                            THEN [op |-> "activate", item |-> t, loans |-> rest, came |-> came,
                                  limit |-> IF came = Allocated(Reserving(Of(t, "disbursement")))
                                              THEN came ELSE item[t].limit]
                            ELSE [op |-> "disburse", loans |-> rest])
    /\ UNCHANGED <<doc, item, links, past, announced, paidEvents, history, requests>>

Activate(h) ==
    /\ Doing(h, "activate")
    /\ LET t == todo[h].item
       IN  IF item[t].status # "pending" THEN UNCHANGED <<item, excused>>
           ELSE /\ item' = [item EXCEPT ![t].status = "active", ![t].limit = todo[h].limit]
                /\ excused' = IF PaidDisbursements(t) # {} /\ Covers(t, todo[h].limit)
                                THEN excused ELSE excused \cup {t}
    /\ Become(h, [op |-> "disburse", loans |-> todo[h].loans])
    /\ UNCHANGED <<doc, links, past, announced, paidEvents, byHand, quiet, requests>>

(* R2, activate_loan, after voucher.paid of an income                       *)
HandlePaidEvent ==
    /\ Idle(Engine)
    /\ \E d \in paidEvents :
          /\ paidEvents' = paidEvents \ {d}
          /\ Become(Engine, [op |-> "disburse",
                             loans |-> {l.to : l \in {x \in FromDoc(d) : x.rel = "disbursement"}}])
    /\ UNCHANGED <<doc, item, links, past, announced, history, requests>>

(* emitLoanSettledAfterPayment: only the payment that brings the principal  *)
(* repaid from below the principal of the loan to it announces it.          *)
SettlesAbove(d, t) ==
    LET now == PrincipalOf({l \in Of(t, "repayment") : l.from = d /\ doc[d].status \in Executed})
        before == Repaid(t) - now
    IN  now > 0 /\ before < item[t].limit /\ before + now > item[t].limit

Settles(d, t) ==
    LET now == PrincipalOf({l \in Of(t, "repayment") : l.from = d /\ doc[d].status \in Executed})
        before == Repaid(t) - now
    IN  now > 0 /\ before < item[t].limit /\ before + now >= item[t].limit

CheckSettled(h) ==
    /\ Doing(h, "settle")
    /\ IF todo[h].loans = {} THEN Become(h, Nothing) /\ UNCHANGED announced
       ELSE \E t \in todo[h].loans :
            /\ announced' = IF Exists(t) /\ Settles(todo[h].doc, t) THEN announced \cup {t} ELSE announced
            /\ Become(h, [todo[h] EXCEPT !.loans = @ \ {t}])
    /\ UNCHANGED <<doc, item, links, past, paidEvents, history, requests>>

-----------------------------------------------------------------------------
(* The voucher, as far as links are concerned (ApprovalWorkflow models what *)
(* leads to these moves). A rejected voucher released what its links held;  *)
(* submitted again, they count again without a check.                       *)
Moves == {<<"draft", "approved">>, <<"draft", "rejected">>, <<"rejected", "draft">>,
          <<"draft", "cancelled">>, <<"approved", "cancelled">>}

CrowdedBy(d) ==
    {t \in Targets : \E l \in FromDoc(d) :
        l.to = t /\ Committed(t, l.rel) + (IF l.rel = "repayment" THEN l.principal ELSE l.amount)
                      > item[t].limit}

MoveDocument(d) ==
    /\ \E move \in Moves :
          /\ doc[d].status = move[1]
          /\ doc' = [doc EXCEPT ![d].status = move[2]]
          /\ excused' = IF move[1] = "rejected" THEN excused \cup CrowdedBy(d) ELSE excused
    /\ UNCHANGED <<item, links, past, announced, paidEvents, todo, byHand, quiet, requests>>

(* Paid: an income by its final approval, a spend by its payer, whose       *)
(* request then looks for loans it settled.                                 *)
PayIncome(d) ==
    /\ Kind[d] = "income" /\ doc[d].status \in {"draft", "approved"}
    /\ doc' = [doc EXCEPT ![d].status = "paid"]
    /\ paidEvents' = paidEvents \cup {d}
    /\ UNCHANGED <<item, links, past, announced, todo, history, requests>>

PaySpend(h) ==
    Free(h) /\
    \E d \in Docs :
        /\ Kind[d] = "spend" /\ doc[d].status = "approved"
        /\ doc' = [doc EXCEPT ![d].status = "paid"]
        /\ Begin(h, SettleOf(d, links))
        /\ UNCHANGED <<item, links, past, announced, paidEvents, history>>

(* PATCH /documents/:id and the approver's change of the amount:            *)
(* assertDocumentAmountCoversLinks, assertPartnerChangeKeepsLinks, then a   *)
(* compare-and-set of the voucher's version.                                *)
MayChange(d, new) ==
    /\ doc[d].status \in {"draft", "rejected"}
    /\ Allocated(FromDoc(d)) <= new.amount
    /\ \A l \in FromDoc(d) : item[l.to].partner = new.partner

CheckChange(h) ==
    Free(h) /\
    \E d \in Docs, a \in Sums, p \in Partners :
        LET new == Amount(doc[d].status, a, p)
        IN  /\ new # doc[d] /\ MayChange(d, new)
            /\ Begin(h, [op |-> "change", doc |-> d, old |-> doc[d], new |-> new])
            /\ UNCHANGED <<doc, item, links, past, announced, paidEvents, history>>

WriteChange(h) ==
    /\ Doing(h, "change")
    /\ LET d == todo[h].doc
       IN  IF doc[d] # todo[h].old THEN UNCHANGED <<doc, excused>>
           ELSE /\ doc' = [doc EXCEPT ![d] = todo[h].new]
                /\ excused' = IF MayChange(d, todo[h].new) THEN excused
                              ELSE excused \cup {d} \cup {l.to : l \in FromDoc(d)}
    /\ Become(h, Nothing)
    /\ UNCHANGED <<item, links, past, announced, paidEvents, byHand, quiet, requests>>

(* loansToRevertOnDelete: a voucher that was the only money of a loan takes *)
(* the loan back to pending; not when the loan is already being repaid.     *)
AnyMoneyOf(d, t) ==
    /\ item[t].status = "active"
    /\ \E l \in PaidDisbursements(t) : l.from = d

OnlyMoneyOf(d, t) ==
    /\ item[t].status = "active"
    /\ PaidDisbursements(t) # {}
    /\ \A l \in PaidDisbursements(t) : l.from = d

BeingRepaid(t) == ReservingPaid(Of(t, "repayment")) # {}

CheckDeleteDocument(h) ==
    Free(h) /\
    \E d \in Docs :
        /\ doc[d].status # "none"
        /\ LET back == {t \in Loans : OnlyMoneyOf(d, t)}
           IN  /\ \A t \in back : ~BeingRepaid(t)
               /\ Begin(h, [op |-> "delete", doc |-> d, loans |-> back])
        /\ UNCHANGED <<doc, item, links, past, announced, paidEvents, history>>

(* revertLoansOnDelete, by a compare-and-set of "active" each; then         *)
(* softRemoveLinksOfDocument and the voucher itself.                        *)
RevertLoan(h) ==
    /\ Doing(h, "delete")
    /\ \E t \in todo[h].loans :
          /\ item' = IF item[t].status = "active" THEN [item EXCEPT ![t].status = "pending"] ELSE item
          /\ excused' = IF OnlyMoneyOf(todo[h].doc, t) /\ ~BeingRepaid(t) THEN excused ELSE excused \cup {t}
          /\ byHand' = byHand \ {t}
          /\ Become(h, [todo[h] EXCEPT !.loans = @ \ {t}])
    /\ UNCHANGED <<doc, links, past, announced, paidEvents, quiet, requests>>

DeleteDocument(h) ==
    /\ Doing(h, "delete") /\ todo[h].loans = {}
    /\ LET d == todo[h].doc
       IN  /\ links' = links \ FromDoc(d)
           /\ doc' = [doc EXCEPT ![d].status = "none"]
           /\ excused' = excused \cup {t \in Loans : OnlyMoneyOf(d, t)}
    /\ Become(h, Nothing)
    /\ UNCHANGED <<item, past, announced, paidEvents, byHand, quiet, requests>>

-----------------------------------------------------------------------------
Next ==
    \/ \E t \in Targets : Create(t)
    \/ \E d \in Docs : MoveDocument(d) \/ PayIncome(d)
    \/ HandlePaidEvent
    \/ \E h \in Procs :
          \/ CheckLink(h) \/ InsertLink(h) \/ CheckUnlink(h) \/ RemoveLink(h)
          \/ CheckEdit(h) \/ WriteEdit(h) \/ CheckDeleteTarget(h) \/ DeleteTarget(h)
          \/ CheckCancel(h) \/ CancelStep(h) \/ CheckArchive(h) \/ Archive(h)
          \/ CheckDisburse(h) \/ Activate(h) \/ CheckSettled(h)
          \/ PaySpend(h) \/ CheckChange(h) \/ WriteChange(h)
          \/ CheckDeleteDocument(h) \/ RevertLoan(h) \/ DeleteDocument(h)

Spec == Init /\ [][Next]_vars

-----------------------------------------------------------------------------
LinkRecords ==
    [from : Docs, to : Targets, rel : Relations, amount : Sums, principal : Sums, id : 0..MaxRequests]

(* The objects and links keep their types, a loan its statuses, and no pair *)
(* is ever linked twice in one relation (the unique index of                *)
(* business_links, and the only guard two concurrent links of a pair meet). *)
TypeOK ==
    /\ doc \in [Docs -> [status : {"none", "draft", "approved", "paid", "rejected", "cancelled"},
                         amount : Sums \cup {0}, partner : Partners]]
    /\ \A t \in Targets :
          /\ item[t].limit \in Nat /\ item[t].partner \in Partners
          /\ item[t].status \in {"absent", "gone"} \cup
                IF t \in Debts THEN {"open"} ELSE {"pending", "active", "cancelled", "archived"}
    /\ links \subseteq LinkRecords
    /\ \A k, l \in links : k.from = l.from /\ k.to = l.to /\ k.rel = l.rel => k = l
    /\ \A l \in links : <<l.to, l.rel>> \in past
    /\ announced \subseteq Loans /\ paidEvents \subseteq Docs
    /\ DOMAIN todo = Procs

(* assertCapacity, updateDebt and updateLoan, the edits of a voucher, its   *)
(* rejection and cancellation, disbursement and deletion, together: the     *)
(* links of a voucher never allocate more than it has, what holds of a debt *)
(* or loan never exceeds its limit, both ends exist and agree on the        *)
(* partner. Only what is excused may differ.                                *)
RoomKept ==
    /\ \A d \in Docs \ excused : doc[d].status # "none" => Allocated(FromDoc(d)) <= doc[d].amount
    /\ \A t \in Targets \ excused : Exists(t) => Covers(t, item[t].limit)
    /\ \A l \in links : l.to \notin excused =>
          /\ Exists(l.to)
          /\ {l.from} \cap excused = {} => doc[l.from].partner = item[l.to].partner

(* Somebody is about to disburse the loan, or to delete the voucher that    *)
(* did.                                                                     *)
DisbursementUnderWay(t) ==
    \/ \E h \in Procs :
          \/ Doing(h, "disburse") /\ t \in todo[h].loans
          \/ Doing(h, "activate") /\ (t = todo[h].item \/ t \in todo[h].loans)
          \/ Doing(h, "delete") /\ \E l \in FromDoc(todo[h].doc) : l.to = t
    \/ \E l \in Of(t, "disbursement") : l.from \in paidEvents

(* A loan is disbursed exactly when its money came: by hand, or by a        *)
(* voucher that is paid and linked. None is cancelled with money in it, and *)
(* none waits for a disbursement that came and that nobody is recording.    *)
LoanFollowsMoney ==
    \A t \in Loans \ excused :
        /\ item[t].status = "cancelled" => PaidDisbursements(t) = {}
        /\ item[t].status = "pending" /\ PaidDisbursements(t) # {} => DisbursementUnderWay(t)
        /\ item[t].status \in {"active", "archived"} => t \in byHand \/ PaidDisbursements(t) # {}

(* Whoever repaid a loan in full, in however many payments at once, its     *)
(* settlement was announced (loan.settled, which closes its alerts), unless *)
(* it was settled by lowering the principal.                                *)
SettlementAnnounced ==
    \A t \in Loans \ (excused \cup quiet) :
        \/ item[t].status \notin {"active", "archived"}
        \/ Repaid(t) < item[t].limit
        \/ t \in announced
        \/ \E h \in Procs : Doing(h, "settle") /\ t \in todo[h].loans
=============================================================================
