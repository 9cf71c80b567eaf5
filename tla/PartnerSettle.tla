--------------------------- MODULE PartnerSettle ---------------------------
(***************************************************************************)
(* "Pay the debts of a partner" (partner/settle.ts): one request of a user *)
(* makes up to three draft vouchers, each linked to debts or loans. It is  *)
(* sent again after a timeout or a double click with the same request_id,  *)
(* and the claim of partner/claims.ts must make it happen once: the claim  *)
(* is taken before anything is written, holds the answer afterwards, is    *)
(* given back when the work was undone, and may be taken over 120 s after  *)
(* it was taken, from a process that died or is only slow.                 *)
(***************************************************************************)
EXTENDS Naturals, FiniteSets

CONSTANTS
    Tries,              \* arrivals of the request
    Groups,             \* vouchers it makes: receivable, payable, loans
    MaxFaults, MaxCrashes   \* bounds: database errors, processes that die

PartnerSettleAssumption ==
    /\ Groups \in Nat \ {0} /\ MaxFaults \in Nat /\ MaxCrashes \in Nat

VARIABLES
    claim,      \* RequestClaim: absent, pending or done; its age; its answer
    try,        \* a process: where it is, at which group, its tries of a claim
    doc,        \* the draft each process made for each group
    link,       \* the link of that draft to its debt
    stuck,      \* what a rollback could not undo
    alerted,    \* partner_settle_rollback_failed was raised
    faults, crashes,
    takenOver,  \* history: a claim was taken over
    unsaved     \* history: an answer could not be written to the claim

vars == <<claim, try, doc, link, stuck, alerted, faults, crashes, takenOver, unsaved>>
Drafts == Tries \X (1..Groups)
Of(t) == {d \in Drafts : d[1] = t}
Started == [at |-> "new", group |-> 1, round |-> 1]

Init ==
    /\ claim = [status |-> "none", stale |-> FALSE, answer |-> {}]
    /\ try = [t \in Tries |-> Started]
    /\ doc = [d \in Drafts |-> "none"] /\ link = [d \in Drafts |-> "none"]
    /\ stuck = {} /\ alerted = FALSE /\ faults = 0 /\ crashes = 0
    /\ takenOver = FALSE /\ unsaved = FALSE

At(t, p) == try[t].at = p
Go(t, p) == try' = [try EXCEPT ![t].at = p]
Fault == faults < MaxFaults /\ faults' = faults + 1
NoFault == UNCHANGED faults
Books == <<doc, link, stuck, alerted>>
Ghosts == <<crashes, takenOver, unsaved>>

-----------------------------------------------------------------------------
(* acquireClaim: insert; on a duplicate read the row; a pending one that is *)
(* old enough is taken by an update guarded on both; absent, once more.     *)
InsertOver(t) ==
    /\ At(t, "new")
    /\ IF claim.status # "done"
         THEN claim' = [status |-> "pending", stale |-> FALSE, answer |-> {}] /\ Go(t, "plan")
         ELSE Go(t, "look") /\ UNCHANGED claim
    /\ NoFault /\ UNCHANGED <<Books, Ghosts>>
Insert(t) ==
    /\ At(t, "new")
    /\ IF claim.status = "none"
         THEN claim' = [status |-> "pending", stale |-> FALSE, answer |-> {}] /\ Go(t, "plan")
         ELSE Go(t, "look") /\ UNCHANGED claim
    /\ NoFault /\ UNCHANGED <<Books, Ghosts>>

Look(t) ==
    /\ At(t, "look")
    /\ CASE claim.status = "none" ->
              IF try[t].round = 1 THEN try' = [try EXCEPT ![t].at = "new", ![t].round = 2]
                                  ELSE Go(t, "refused")
         [] claim.status = "done" -> Go(t, "replayed")
         [] OTHER -> Go(t, "take")
    /\ NoFault /\ UNCHANGED <<claim, Books, Ghosts>>

Take(t) ==
    /\ At(t, "take")
    /\ IF claim.status = "pending" /\ claim.stale
         THEN claim' = [claim EXCEPT !.stale = FALSE] /\ Go(t, "plan") /\ takenOver' = TRUE
         ELSE Go(t, "refused") /\ UNCHANGED <<claim, takenOver>>
    /\ NoFault /\ UNCHANGED <<Books, crashes, unsaved>>

(* CLAIM_STALE_MS passes, whatever the holder does.                         *)
GrowOld ==
    /\ claim.status = "pending" /\ ~claim.stale
    /\ claim' = [claim EXCEPT !.stale = TRUE]
    /\ NoFault /\ UNCHANGED <<try, Books, Ghosts>>

-----------------------------------------------------------------------------
(* settleOnce: the plan is refused before anything is written, or each      *)
(* group gets its draft and its links, any of which may fail.               *)
PlanIt(t) ==
    /\ At(t, "plan")
    /\ Go(t, "draft") \/ Go(t, "release")
    /\ NoFault /\ UNCHANGED <<claim, Books, Ghosts>>

MakeDraft(t) ==
    /\ At(t, "draft")
    /\ \/ /\ doc' = [doc EXCEPT ![<<t, try[t].group>>] = "draft"]
          /\ Go(t, "link") /\ NoFault
       \/ /\ Fault /\ Go(t, "undo") /\ UNCHANGED doc
    /\ UNCHANGED <<claim, link, stuck, alerted, Ghosts>>

MakeLinkIfPossible(t) ==
    /\ At(t, "link")
    /\ \/ link' = [link EXCEPT ![<<t, try[t].group>>] = "active"] /\ NoFault
       \/ Fault /\ UNCHANGED link
    /\ IF try[t].group = Groups THEN Go(t, "complete")
       ELSE try' = [try EXCEPT ![t].at = "draft", ![t].group = @ + 1]
    /\ UNCHANGED <<claim, doc, stuck, alerted, Ghosts>>
MakeLink(t) ==
    /\ At(t, "link")
    /\ \/ /\ link' = [link EXCEPT ![<<t, try[t].group>>] = "active"]
          /\ IF try[t].group = Groups THEN Go(t, "complete")
             ELSE try' = [try EXCEPT ![t].at = "draft", ![t].group = @ + 1]
          /\ NoFault
       \/ /\ Fault /\ Go(t, "undo") /\ UNCHANGED link
    /\ UNCHANGED <<claim, doc, stuck, alerted, Ghosts>>

(* completeClaim: the update names the key only.                            *)
Complete(t) ==
    /\ At(t, "complete")
    /\ \/ /\ claim' = IF claim.status = "none" THEN claim
                      ELSE [claim EXCEPT !.status = "done", !.answer = Of(t)]
          /\ Go(t, "answered") /\ NoFault /\ UNCHANGED unsaved
       \/ /\ Fault /\ Go(t, "release") /\ unsaved' = TRUE /\ UNCHANGED claim
    /\ UNCHANGED <<Books, crashes, takenOver>>

(* rollback: the links, last first; then the drafts none of whose links is  *)
(* left and that are still drafts; what stays is alerted.                   *)
Undoable(t) == {d \in Of(t) : link[d] = "active" /\ d \notin stuck}
UndoLink(t) ==
    /\ At(t, "undo") /\ Undoable(t) # {}
    /\ \E d \in Undoable(t) :
          /\ \A y \in Undoable(t) : d[2] >= y[2]
          /\ \/ link' = [link EXCEPT ![d] = "removed"] /\ NoFault /\ UNCHANGED stuck
             \/ Fault /\ stuck' = stuck \cup {d} /\ UNCHANGED link
    /\ UNCHANGED <<claim, try, doc, alerted, Ghosts>>

Left(t) == {d \in Of(t) : doc[d] \in {"draft", "submitted"} /\ d \notin stuck}
UndoDraft(t) ==
    /\ At(t, "undo") /\ Undoable(t) = {} /\ Left(t) # {}
    /\ \E d \in Left(t) :
          /\ \A y \in Left(t) : d[2] <= y[2]
          /\ \/ /\ doc[d] = "draft"
                /\ doc' = [doc EXCEPT ![d] = "deleted"] /\ NoFault /\ UNCHANGED stuck
             \/ /\ doc[d] = "submitted"
                /\ stuck' = stuck \cup {d} /\ NoFault /\ UNCHANGED doc
             \/ Fault /\ stuck' = stuck \cup {d} /\ UNCHANGED doc
    /\ UNCHANGED <<claim, try, link, alerted, Ghosts>>

EndUndo(t) ==
    /\ At(t, "undo") /\ Undoable(t) = {} /\ Left(t) = {}
    /\ alerted' = (alerted \/ stuck \cap Of(t) # {})
    /\ Go(t, "release")
    /\ NoFault /\ UNCHANGED <<claim, doc, link, stuck, Ghosts>>

(* releaseClaim: deletes a pending claim; an error is only logged.          *)
Release(t) ==
    /\ At(t, "release")
    /\ \/ claim' = (IF claim.status = "pending" THEN [claim EXCEPT !.status = "none"] ELSE claim) /\ NoFault
       \/ Fault /\ UNCHANGED claim
    /\ Go(t, "failed")
    /\ UNCHANGED <<Books, Ghosts>>

Working(t) == try[t].at \in {"plan", "draft", "link", "complete", "undo", "release"}
Crash(t) ==
    /\ Working(t) /\ crashes < MaxCrashes
    /\ crashes' = crashes + 1 /\ Go(t, "dead")
    /\ NoFault /\ UNCHANGED <<claim, Books, takenOver, unsaved>>

(* A draft is seen by its creator at once and may be sent for approval.     *)
Submit(d) ==
    /\ doc[d] = "draft"
    /\ doc' = [doc EXCEPT ![d] = "submitted"]
    /\ NoFault /\ UNCHANGED <<claim, try, link, stuck, alerted, Ghosts>>

Next ==
    \/ GrowOld
    \/ \E d \in Drafts : Submit(d)
    \/ \E t \in Tries :
          \/ Insert(t) \/ Look(t) \/ Take(t)
          \/ PlanIt(t) \/ MakeDraft(t) \/ MakeLink(t) \/ Complete(t)
          \/ UndoLink(t) \/ UndoDraft(t) \/ EndUndo(t) \/ Release(t) \/ Crash(t)

Spec == Init /\ [][Next]_vars

-----------------------------------------------------------------------------
Ended(t) == try[t].at \in {"answered", "replayed", "refused", "failed", "dead"}

(* The fields have values of the code, and a process is at one of its steps. *)
TypeOK ==
    /\ claim.status \in {"none", "pending", "done"} /\ claim.answer \subseteq Drafts
    /\ \A t \in Tries : try[t].group \in 1..Groups /\ (Ended(t) \/ Working(t) \/ try[t].at \in {"new", "look", "take"})
    /\ \A d \in Drafts : doc[d] \in {"none", "draft", "submitted", "deleted"} /\ link[d] \in {"none", "active", "removed"}
    /\ stuck \subseteq Drafts

(* However often a request arrives, and whatever fails, its vouchers are    *)
(* made to the end by one process only. Two cases are known to break it and *)
(* are left out: a claim taken over from a process that was slow, or died   *)
(* with its vouchers made, and an answer that could not be saved, after     *)
(* which releaseClaim lets the request in again although it succeeded.      *)
PaidOnce ==
    takenOver \/ unsaved \/
    \A t, u \in Tries : try[t].at \in {"complete", "answered"} /\ try[u].at \in {"complete", "answered"} => t = u

(* What a repeated request is answered with exists: its vouchers were not   *)
(* undone, by their own process or another, and each holds its links.       *)
TrueAnswer ==
    claim.status = "done" =>
        \A d \in claim.answer : doc[d] \in {"draft", "submitted"} /\ link[d] = "active"

(* When a request fails, nothing of it is left, or the chief accountant has *)
(* been alerted; also when someone sent a draft for approval before the     *)
(* rollback reached it. A link is never left to a voucher that was deleted. *)
NothingHidden ==
    /\ \A t \in Tries : try[t].at = "failed" =>
          \/ unsaved \/ alerted
          \/ \A d \in Of(t) : doc[d] \in {"none", "deleted"} /\ link[d] # "active"
    /\ \A d \in Drafts : link[d] = "active" => doc[d] \in {"draft", "submitted"}
=============================================================================
