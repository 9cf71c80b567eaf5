------------------------ MODULE PartnerSettleProofs ------------------------
(***************************************************************************)
(* Proofs about PartnerSettle. A process owns its drafts: it makes them     *)
(* group after group (Progress), and what a rollback leaves it has alerted. *)
(* The claim is done when some process has answered (AnswerIsOf), and while *)
(* no claim is taken over and every answer saved, at most one process works *)
(* or has answered (Single).                                                *)
(***************************************************************************)
EXTENDS PartnerSettle, TLAPS

Before == {"new", "look", "take", "plan"}
Places == Before \cup {"draft", "link", "complete", "undo", "release",
                       "answered", "replayed", "refused", "failed", "dead"}

ClaimTyped == claim \in [status : {"none", "pending", "done"}, stale : BOOLEAN, answer : SUBSET Drafts]
TryTyped == try \in [Tries -> [at : Places, group : 1..Groups, round : {1, 2}]]
BooksTyped ==
    /\ doc \in [Drafts -> {"none", "draft", "submitted", "deleted"}]
    /\ link \in [Drafts -> {"none", "active", "removed"}]
    /\ stuck \subseteq Drafts

Typed == ClaimTyped /\ TryTyped /\ BooksTyped

Held(d) == doc[d] \in {"draft", "submitted"}
Good(d) == Held(d) /\ link[d] = "active"
Gone(d) == doc[d] \in {"none", "deleted"} /\ link[d] # "active"

LinkHasDraft == \A d \in Drafts : link[d] = "active" => Held(d)

MadeSoFar(t) ==
    /\ try[t].at \in Before =>
          try[t].group = 1 /\ \A d \in Of(t) : doc[d] = "none" /\ link[d] = "none"
    /\ try[t].at \in {"draft", "link"} => \A d \in Of(t) : d[2] < try[t].group => Good(d)
    /\ try[t].at = "link" => Held(<<t, try[t].group>>)
    /\ try[t].at \in {"complete", "answered"} => \A d \in Of(t) : Good(d)
    /\ try[t].at \in {"release", "failed"} => unsaved \/ alerted \/ \A d \in Of(t) : Gone(d)

Progress == \A t \in Tries : MadeSoFar(t)

AnswerIsOf == claim.status = "done" => \E t \in Tries : try[t].at = "answered" /\ claim.answer = Of(t)

InHand(t) == Working(t) \/ try[t].at = "answered"
Single ==
    takenOver \/ unsaved \/
    /\ \A t \in Tries : Working(t) => claim.status = "pending"
    /\ \A t \in Tries : try[t].at = "answered" => claim.status = "done"
    /\ \A t, u \in Tries : InHand(t) /\ InHand(u) => t = u

Inv == Typed /\ LinkHasDraft /\ Progress /\ AnswerIsOf /\ Single

-----------------------------------------------------------------------------
LEMMA InvInit == ASSUME PartnerSettleAssumption, Init PROVE Inv
<1> USE DEF PartnerSettleAssumption, Init, Drafts, Started, Of
<1>1. Typed
  BY DEF Typed, ClaimTyped, TryTyped, BooksTyped, Places, Before
<1>2. LinkHasDraft /\ Progress
  BY DEF LinkHasDraft, Progress, MadeSoFar, Before
<1>3. AnswerIsOf /\ Single
  BY DEF AnswerIsOf, Single, InHand, Working
<1> QED BY <1>1, <1>2, <1>3 DEF Inv

LEMMA GoTyped == ASSUME TryTyped, NEW t \in Tries, NEW p \in Places, Go(t, p) PROVE TryTyped'
BY DEF TryTyped, Go

LEMMA DraftOf == ASSUME PartnerSettleAssumption, TryTyped, NEW t \in Tries PROVE <<t, try[t].group>> \in Drafts
BY DEF TryTyped, Drafts

(* The claim keeps its type.                                                *)
LEMMA ClaimTypedNext == ASSUME Inv, [Next]_vars PROVE ClaimTyped'
<1> USE DEF Inv, Typed, ClaimTyped, Of
<1>1. CASE UNCHANGED vars
  BY <1>1 DEF vars
<1>2. CASE GrowOld
  BY <1>2 DEF GrowOld, At, Go, Fault, NoFault, Books, Ghosts
<1>3. ASSUME NEW x \in Drafts, Submit(x) PROVE ClaimTyped'
  BY <1>3 DEF Submit, At, Go, Fault, NoFault, Books, Ghosts
<1>4. ASSUME NEW t \in Tries, Insert(t) PROVE ClaimTyped'
  <2>1. CASE claim' = [status |-> "pending", stale |-> FALSE, answer |-> {}]
    BY <2>1
  <2>2. CASE UNCHANGED claim
    BY <2>2
  <2> QED BY <1>4, <2>1, <2>2 DEF Insert
<1>5. ASSUME NEW t \in Tries, Look(t) PROVE ClaimTyped'
  BY <1>5 DEF Look, NoFault, Fault, Books, Ghosts, Go
<1>6. ASSUME NEW t \in Tries, Take(t) PROVE ClaimTyped'
  BY <1>6 DEF Take, NoFault, Fault, Books, Ghosts, Go
<1>7. ASSUME NEW t \in Tries, PlanIt(t) PROVE ClaimTyped'
  BY <1>7 DEF PlanIt, NoFault, Fault, Books, Ghosts, Go
<1>8. ASSUME NEW t \in Tries, MakeDraft(t) PROVE ClaimTyped'
  BY <1>8 DEF MakeDraft, NoFault, Fault, Books, Ghosts, Go
<1>9. ASSUME NEW t \in Tries, MakeLink(t) PROVE ClaimTyped'
  BY <1>9 DEF MakeLink, NoFault, Fault, Books, Ghosts, Go
<1>10. ASSUME NEW t \in Tries, Complete(t) PROVE ClaimTyped'
  BY <1>10, ZenonT(60) DEF Complete, NoFault, Fault, Books, Ghosts, Go
<1>11. ASSUME NEW t \in Tries, UndoLink(t) PROVE ClaimTyped'
  BY <1>11 DEF UndoLink, NoFault, Fault, Books, Ghosts, Go
<1>12. ASSUME NEW t \in Tries, UndoDraft(t) PROVE ClaimTyped'
  BY <1>12 DEF UndoDraft, NoFault, Fault, Books, Ghosts, Go
<1>13. ASSUME NEW t \in Tries, EndUndo(t) PROVE ClaimTyped'
  BY <1>13 DEF EndUndo, NoFault, Fault, Books, Ghosts, Go
<1>14. ASSUME NEW t \in Tries, Release(t) PROVE ClaimTyped'
  BY <1>14 DEF Release, NoFault, Fault, Books, Ghosts, Go
<1>15. ASSUME NEW t \in Tries, Crash(t) PROVE ClaimTyped'
  BY <1>15 DEF Crash, NoFault, Fault, Books, Ghosts, Go
<1> QED BY <1>1, <1>2, <1>3, <1>4, <1>5, <1>6, <1>7, <1>8, <1>9, <1>10, <1>11, <1>12, <1>13, <1>14, <1>15 DEF Next

(* A process moves from one of its steps to another.                        *)
LEMMA TryTypedNext == ASSUME PartnerSettleAssumption, Inv, [Next]_vars PROVE TryTyped'
<1> USE DEF Inv, Typed, Places, Before
<1>1. CASE UNCHANGED vars
  BY <1>1 DEF vars, TryTyped
<1>2. CASE GrowOld
  BY <1>2 DEF GrowOld, TryTyped
<1>3. ASSUME NEW x \in Drafts, Submit(x) PROVE TryTyped'
  BY <1>3 DEF Submit, TryTyped
<1>4. ASSUME NEW t \in Tries, Insert(t) PROVE TryTyped'
  BY <1>4, GoTyped DEF Insert
<1>5. ASSUME NEW t \in Tries, Look(t) PROVE TryTyped'
  <2>1. CASE Go(t, "refused") \/ Go(t, "replayed") \/ Go(t, "take")
    BY <2>1, GoTyped
  <2>2. CASE try' = [try EXCEPT ![t].at = "new", ![t].round = 2]
    BY <2>2, ZenonT(60) DEF TryTyped
  <2> QED BY <1>5, <2>1, <2>2 DEF Look
<1>6. ASSUME NEW t \in Tries, Take(t) PROVE TryTyped'
  BY <1>6, GoTyped DEF Take
<1>7. ASSUME NEW t \in Tries, PlanIt(t) PROVE TryTyped'
  BY <1>7, GoTyped DEF PlanIt
<1>8. ASSUME NEW t \in Tries, MakeDraft(t) PROVE TryTyped'
  BY <1>8, GoTyped DEF MakeDraft
<1>9. ASSUME NEW t \in Tries, MakeLink(t) PROVE TryTyped'
  <2>1. CASE Go(t, "complete") \/ Go(t, "undo")
    BY <2>1, GoTyped
  <2>2. CASE try[t].group # Groups /\ try' = [try EXCEPT ![t].at = "draft", ![t].group = @ + 1]
    BY <2>2 DEF TryTyped, PartnerSettleAssumption
  <2> QED BY <1>9, <2>1, <2>2 DEF MakeLink
<1>10. ASSUME NEW t \in Tries, Complete(t) PROVE TryTyped'
  BY <1>10, GoTyped DEF Complete
<1>11. ASSUME NEW t \in Tries, UndoLink(t) PROVE TryTyped'
  BY <1>11 DEF UndoLink, TryTyped
<1>12. ASSUME NEW t \in Tries, UndoDraft(t) PROVE TryTyped'
  BY <1>12 DEF UndoDraft, TryTyped
<1>13. ASSUME NEW t \in Tries, EndUndo(t) PROVE TryTyped'
  BY <1>13, GoTyped DEF EndUndo
<1>14. ASSUME NEW t \in Tries, Release(t) PROVE TryTyped'
  BY <1>14, GoTyped DEF Release
<1>15. ASSUME NEW t \in Tries, Crash(t) PROVE TryTyped'
  BY <1>15, GoTyped DEF Crash
<1> QED BY <1>1, <1>2, <1>3, <1>4, <1>5, <1>6, <1>7, <1>8, <1>9, <1>10, <1>11, <1>12, <1>13, <1>14, <1>15 DEF Next

(* Drafts and links keep their types.                                       *)
LEMMA BooksTypedNext == ASSUME PartnerSettleAssumption, Inv, [Next]_vars PROVE BooksTyped'
<1> USE DEF Inv, Typed, BooksTyped, Of, Books
<1>1. CASE UNCHANGED vars
  BY <1>1 DEF vars
<1>2. CASE GrowOld
  BY <1>2 DEF GrowOld
<1>3. ASSUME NEW x \in Drafts, Submit(x) PROVE BooksTyped'
  BY <1>3 DEF Submit
<1>4. ASSUME NEW t \in Tries, Insert(t) PROVE BooksTyped'
  BY <1>4 DEF Insert
<1>5. ASSUME NEW t \in Tries, Look(t) PROVE BooksTyped'
  BY <1>5 DEF Look
<1>6. ASSUME NEW t \in Tries, Take(t) PROVE BooksTyped'
  BY <1>6 DEF Take
<1>7. ASSUME NEW t \in Tries, PlanIt(t) PROVE BooksTyped'
  BY <1>7 DEF PlanIt
<1>8. ASSUME NEW t \in Tries, MakeDraft(t) PROVE BooksTyped'
  BY <1>8, DraftOf DEF MakeDraft
<1>9. ASSUME NEW t \in Tries, MakeLink(t) PROVE BooksTyped'
  BY <1>9, DraftOf DEF MakeLink
<1>10. ASSUME NEW t \in Tries, Complete(t) PROVE BooksTyped'
  BY <1>10 DEF Complete
<1>11. ASSUME NEW t \in Tries, UndoLink(t) PROVE BooksTyped'
  BY <1>11 DEF UndoLink, Undoable
<1>12. ASSUME NEW t \in Tries, UndoDraft(t) PROVE BooksTyped'
  BY <1>12 DEF UndoDraft, Left
<1>13. ASSUME NEW t \in Tries, EndUndo(t) PROVE BooksTyped'
  BY <1>13 DEF EndUndo
<1>14. ASSUME NEW t \in Tries, Release(t) PROVE BooksTyped'
  BY <1>14 DEF Release
<1>15. ASSUME NEW t \in Tries, Crash(t) PROVE BooksTyped'
  BY <1>15 DEF Crash
<1> QED BY <1>1, <1>2, <1>3, <1>4, <1>5, <1>6, <1>7, <1>8, <1>9, <1>10, <1>11, <1>12, <1>13, <1>14, <1>15 DEF Next

(* A draft is deleted only when its own link is removed.                    *)
LEMMA LinkHasDraftNext == ASSUME PartnerSettleAssumption, Inv, [Next]_vars PROVE LinkHasDraft'
<1> USE DEF Inv, Typed, BooksTyped, LinkHasDraft, Held, Books
<1>1. CASE UNCHANGED vars
  BY <1>1 DEF vars
<1>2. CASE GrowOld
  BY <1>2 DEF GrowOld
<1>3. ASSUME NEW x \in Drafts, Submit(x) PROVE LinkHasDraft'
  BY <1>3 DEF Submit
<1>4. ASSUME NEW t \in Tries, Insert(t) PROVE LinkHasDraft'
  BY <1>4 DEF Insert
<1>5. ASSUME NEW t \in Tries, Look(t) PROVE LinkHasDraft'
  BY <1>5 DEF Look
<1>6. ASSUME NEW t \in Tries, Take(t) PROVE LinkHasDraft'
  BY <1>6 DEF Take
<1>7. ASSUME NEW t \in Tries, PlanIt(t) PROVE LinkHasDraft'
  BY <1>7 DEF PlanIt
<1>8. ASSUME NEW t \in Tries, MakeDraft(t) PROVE LinkHasDraft'
  BY <1>8, DraftOf DEF MakeDraft
<1>9. ASSUME NEW t \in Tries, MakeLink(t) PROVE LinkHasDraft'
  BY <1>9, DraftOf DEF MakeLink, At, Progress, MadeSoFar, Held
<1>10. ASSUME NEW t \in Tries, Complete(t) PROVE LinkHasDraft'
  BY <1>10 DEF Complete
<1>11. ASSUME NEW t \in Tries, UndoLink(t) PROVE LinkHasDraft'
  BY <1>11 DEF UndoLink
<1>12. ASSUME NEW t \in Tries, UndoDraft(t) PROVE LinkHasDraft'
  BY <1>12 DEF UndoDraft, Left, Undoable, Of
<1>13. ASSUME NEW t \in Tries, EndUndo(t) PROVE LinkHasDraft'
  BY <1>13 DEF EndUndo
<1>14. ASSUME NEW t \in Tries, Release(t) PROVE LinkHasDraft'
  BY <1>14 DEF Release
<1>15. ASSUME NEW t \in Tries, Crash(t) PROVE LinkHasDraft'
  BY <1>15 DEF Crash
<1> QED BY <1>1, <1>2, <1>3, <1>4, <1>5, <1>6, <1>7, <1>8, <1>9, <1>10, <1>11, <1>12, <1>13, <1>14, <1>15 DEF Next

LEMMA GoElsewhere == ASSUME TryTyped, NEW t \in Tries, NEW p \in Places, Go(t, p), NEW u \in Tries
                     PROVE try'[u] = IF u = t THEN [try[t] EXCEPT !.at = p] ELSE try[u]
BY DEF TryTyped, Go

LEMMA TypedStep == ASSUME PartnerSettleAssumption, Inv, [Next]_vars PROVE Typed /\ Typed'
BY ClaimTypedNext, TryTypedNext, BooksTypedNext DEF Typed, Inv

(* A process does not disturb another.                                      *)
LEMMA OtherKeeps ==
    ASSUME TryTyped, BooksTyped, NEW u \in Tries, MadeSoFar(u), try'[u] = try[u],
           \A d \in Of(u) : doc'[d] = doc[d] /\ link'[d] = link[d],
           unsaved => unsaved', alerted => alerted'
    PROVE  MadeSoFar(u)'
<1>1. (try[u].at \in {"release", "failed"} => unsaved \/ alerted \/ \A d \in Of(u) : Gone(d))'
  BY DEF MadeSoFar, Gone, Of
<1>2. <<u, try[u].group>> \in Of(u) \/ try[u].at # "link"
  BY DEF TryTyped, Of, Drafts, MadeSoFar
<1> QED BY <1>1, <1>2 DEF MadeSoFar, Good, Held, Of

(* A process makes or undoes no draft but its own; a user only sends a      *)
(* draft for approval.                                                      *)
LEMMA ProgressNext == ASSUME PartnerSettleAssumption, Inv, [Next]_vars PROVE Progress'
<1> USE DEF Inv, Typed
<1>1. CASE UNCHANGED vars
  BY <1>1 DEF vars, Progress, TryTyped, BooksTyped, MadeSoFar, Before, Places, Of, Drafts, Good, Gone, Held, At, Go, Books, Ghosts
<1>2. CASE GrowOld
  BY <1>2 DEF GrowOld, Progress, TryTyped, BooksTyped, MadeSoFar, Before, Places, Of, Drafts, Good, Gone, Held, At, Go, Books, Ghosts
<1>3. ASSUME NEW x \in Drafts, Submit(x) PROVE Progress'
  BY <1>3 DEF Submit, Progress, TryTyped, BooksTyped, MadeSoFar, Before, Places, Of, Drafts, Good, Gone, Held, At, Go, Books, Ghosts
<1>4. ASSUME NEW t \in Tries, Insert(t) PROVE Progress'
  <2>1. MadeSoFar(t)'
    <3>1. MadeSoFar(t) /\ try[t].at = "new"
      BY <1>4 DEF Progress, Insert, At
    <3>2. try' = [try EXCEPT ![t].at = "plan"] \/ try' = [try EXCEPT ![t].at = "look"]
      BY <1>4 DEF Insert, Go
    <3>3. UNCHANGED Books
      BY <1>4 DEF Insert
    <3>4. try'[t].group = try[t].group /\ try'[t].at \in {"plan", "look"}
      BY <3>2 DEF TryTyped
    <3> QED BY <3>1, <3>3, <3>4 DEF MadeSoFar, Before, Books
  <2>2. ASSUME NEW u \in Tries, u # t PROVE MadeSoFar(u)'
    <3>1. try'[u] = try[u]
      BY <1>4, <2>2 DEF Insert, Go, TryTyped
    <3>2. \A d \in Of(u) : doc'[d] = doc[d] /\ link'[d] = link[d]
      BY <1>4 DEF Insert, Books
    <3>3. (unsaved => unsaved') /\ (alerted => alerted')
      BY <1>4 DEF Insert, Books, Ghosts
    <3>4. MadeSoFar(u)
      BY DEF Progress
    <3> QED BY <3>1, <3>2, <3>3, <3>4, OtherKeeps
  <2> QED BY <2>1, <2>2 DEF Progress
<1>5. ASSUME NEW t \in Tries, Look(t) PROVE Progress'
  BY <1>5 DEF Look, Progress, TryTyped, BooksTyped, MadeSoFar, Before, Places, Of, Drafts, Good, Gone, Held, At, Go, Books, Ghosts
<1>6. ASSUME NEW t \in Tries, Take(t) PROVE Progress'
  BY <1>6 DEF Take, Progress, TryTyped, BooksTyped, MadeSoFar, Before, Places, Of, Drafts, Good, Gone, Held, At, Go, Books, Ghosts
<1>7. ASSUME NEW t \in Tries, PlanIt(t) PROVE Progress'
  <2>1. MadeSoFar(t)'
    BY <1>7 DEF PlanIt, At, Go, Books, Ghosts, Progress, TryTyped, BooksTyped, MadeSoFar, Before, Places, Of, Drafts, Good, Gone, Held
  <2>2. ASSUME NEW u \in Tries, u # t PROVE MadeSoFar(u)'
    <3>1. try'[u] = try[u]
      BY <1>7, <2>2 DEF PlanIt, Go, TryTyped
    <3>2. \A d \in Of(u) : doc'[d] = doc[d] /\ link'[d] = link[d]
      BY <1>7, <2>2 DEF PlanIt, Books, Of, BooksTyped
    <3>3. (unsaved => unsaved') /\ (alerted => alerted')
      BY <1>7 DEF PlanIt, Books, Ghosts
    <3>4. MadeSoFar(u)
      BY DEF Progress
    <3> QED BY <3>1, <3>2, <3>3, <3>4, OtherKeeps
  <2> QED BY <2>1, <2>2 DEF Progress
<1>8. ASSUME NEW t \in Tries, MakeDraft(t) PROVE Progress'
  <2>1. MadeSoFar(t)'
    <3>1. try'[t] = [try[t] EXCEPT !.at = "link"] \/ try'[t] = [try[t] EXCEPT !.at = "undo"]
      BY <1>8 DEF MakeDraft, Go, TryTyped
    <3>2. \A d \in Of(t) : d[2] < try[t].group => Good(d)'
      BY <1>8, ZenonT(60) DEF MakeDraft, At, Progress, TryTyped, BooksTyped, MadeSoFar, Before, Places, Of, Drafts, Good, Gone, Held
    <3>3. try'[t].at = "link" => Held(<<t, try[t].group>>)'
      BY <1>8, DraftOf DEF MakeDraft, At, Go, BooksTyped, TryTyped, Held
    <3> QED BY <3>1, <3>2, <3>3 DEF MadeSoFar, Before, TryTyped, Of
  <2>2. ASSUME NEW u \in Tries, u # t PROVE MadeSoFar(u)'
    <3>1. try'[u] = try[u]
      BY <1>8, <2>2 DEF MakeDraft, Go, TryTyped
    <3>2. \A d \in Of(u) : doc'[d] = doc[d] /\ link'[d] = link[d]
      BY <1>8, <2>2 DEF MakeDraft, Books, Of, BooksTyped
    <3>3. (unsaved => unsaved') /\ (alerted => alerted')
      BY <1>8 DEF MakeDraft, Books, Ghosts
    <3>4. MadeSoFar(u)
      BY DEF Progress
    <3> QED BY <3>1, <3>2, <3>3, <3>4, OtherKeeps
  <2> QED BY <2>1, <2>2 DEF Progress
<1>9. ASSUME NEW t \in Tries, MakeLink(t) PROVE Progress'
  <2>1. MadeSoFar(t)'
    <3>1. CASE link' = [link EXCEPT ![<<t, try[t].group>>] = "active"] /\ UNCHANGED doc
      <4>1. \A d \in Of(t) : d[2] < try[t].group => Good(d)'
        BY <1>9, <3>1 DEF MakeLink, At, Progress, TryTyped, BooksTyped, MadeSoFar, Before, Places, Of, Drafts, Good, Gone, Held
      <4>2. \A d \in Of(t) : d[2] = try[t].group => Good(d)'
        BY <1>9, <3>1, DraftOf DEF MakeLink, At, Progress, MadeSoFar, BooksTyped, Good, Held, Of, Drafts
      <4>3. \A d \in Of(t) : d[2] <= try[t].group => Good(d)'
        BY <4>1, <4>2 DEF Of, Drafts, TryTyped
      <4>4. CASE try'[t].at \in {"draft", "complete"}
        BY <4>3, <4>4, <1>9 DEF MakeLink, Go, MadeSoFar, Before, TryTyped, Of, Drafts
      <4>5. CASE try'[t].at = "undo"
        BY <4>5 DEF MadeSoFar, Before
      <4> QED BY <1>9, <4>4, <4>5 DEF MakeLink, Go, TryTyped
    <3>2. CASE try'[t].at = "undo"
      BY <3>2 DEF MadeSoFar, Before
    <3> QED BY <1>9, <3>1, <3>2 DEF MakeLink, Go, Books, TryTyped
  <2>2. ASSUME NEW u \in Tries, u # t PROVE MadeSoFar(u)'
    <3>1. try'[u] = try[u]
      BY <1>9, <2>2 DEF MakeLink, Go, TryTyped
    <3>2. \A d \in Of(u) : doc'[d] = doc[d] /\ link'[d] = link[d]
      BY <1>9, <2>2 DEF MakeLink, Books, Of, BooksTyped
    <3>3. (unsaved => unsaved') /\ (alerted => alerted')
      BY <1>9 DEF MakeLink, Books, Ghosts
    <3>4. MadeSoFar(u)
      BY DEF Progress
    <3> QED BY <3>1, <3>2, <3>3, <3>4, OtherKeeps
  <2> QED BY <2>1, <2>2 DEF Progress
<1>10. ASSUME NEW t \in Tries, Complete(t) PROVE Progress'
  BY <1>10 DEF Complete, Progress, TryTyped, BooksTyped, MadeSoFar, Before, Places, Of, Drafts, Good, Gone, Held, At, Go, Books, Ghosts
<1>11. ASSUME NEW t \in Tries, UndoLink(t) PROVE Progress'
  <2>1. MadeSoFar(t)'
    <3>1. try'[t].at = "undo"
      BY <1>11 DEF UndoLink, At
    <3> QED BY <3>1 DEF MadeSoFar, Before
  <2>2. ASSUME NEW u \in Tries, u # t PROVE MadeSoFar(u)'
    <3>1. try'[u] = try[u]
      BY <1>11, <2>2 DEF UndoLink, Go, TryTyped
    <3>2. \A d \in Of(u) : doc'[d] = doc[d] /\ link'[d] = link[d]
      BY <1>11, <2>2 DEF UndoLink, Books, Of, BooksTyped, Undoable
    <3>3. (unsaved => unsaved') /\ (alerted => alerted')
      BY <1>11 DEF UndoLink, Books, Ghosts
    <3>4. MadeSoFar(u)
      BY DEF Progress
    <3> QED BY <3>1, <3>2, <3>3, <3>4, OtherKeeps
  <2> QED BY <2>1, <2>2 DEF Progress
<1>12. ASSUME NEW t \in Tries, UndoDraft(t) PROVE Progress'
  <2>1. MadeSoFar(t)'
    <3>1. try'[t].at = "undo"
      BY <1>12 DEF UndoDraft, At
    <3> QED BY <3>1 DEF MadeSoFar, Before
  <2>2. ASSUME NEW u \in Tries, u # t PROVE MadeSoFar(u)'
    <3>1. try'[u] = try[u]
      BY <1>12, <2>2 DEF UndoDraft, Go, TryTyped
    <3>2. \A d \in Of(u) : doc'[d] = doc[d] /\ link'[d] = link[d]
      BY <1>12, <2>2 DEF UndoDraft, Books, Of, BooksTyped, Left
    <3>3. (unsaved => unsaved') /\ (alerted => alerted')
      BY <1>12 DEF UndoDraft, Books, Ghosts
    <3>4. MadeSoFar(u)
      BY DEF Progress
    <3> QED BY <3>1, <3>2, <3>3, <3>4, OtherKeeps
  <2> QED BY <2>1, <2>2 DEF Progress
<1>13. ASSUME NEW t \in Tries, EndUndo(t) PROVE Progress'
  <2>1. MadeSoFar(t)'
    <3>1. try'[t].at = "release"
      BY <1>13 DEF EndUndo, Go, TryTyped
    <3>2. CASE stuck \cap Of(t) # {}
      BY <1>13, <3>1, <3>2 DEF EndUndo, MadeSoFar, Before
    <3>3. CASE stuck \cap Of(t) = {}
      <4>1. ASSUME NEW d \in Of(t) PROVE Gone(d)'
        BY <1>13, <3>3 DEF EndUndo, Undoable, Left, Gone, BooksTyped, Of
      <4> QED BY <3>1, <4>1 DEF MadeSoFar, Before, Of
    <3> QED BY <3>2, <3>3
  <2>2. ASSUME NEW u \in Tries, u # t PROVE MadeSoFar(u)'
    <3>1. try'[u] = try[u]
      BY <1>13, <2>2 DEF EndUndo, Go, TryTyped
    <3>2. \A d \in Of(u) : doc'[d] = doc[d] /\ link'[d] = link[d]
      BY <1>13, <2>2 DEF EndUndo, Books, Of, BooksTyped
    <3>3. (unsaved => unsaved') /\ (alerted => alerted')
      BY <1>13 DEF EndUndo, Books, Ghosts
    <3>4. MadeSoFar(u)
      BY DEF Progress
    <3> QED BY <3>1, <3>2, <3>3, <3>4, OtherKeeps
  <2> QED BY <2>1, <2>2 DEF Progress
<1>14. ASSUME NEW t \in Tries, Release(t) PROVE Progress'
  BY <1>14 DEF Release, Progress, TryTyped, BooksTyped, MadeSoFar, Before, Places, Of, Drafts, Good, Gone, Held, At, Go, Books, Ghosts
<1>15. ASSUME NEW t \in Tries, Crash(t) PROVE Progress'
  BY <1>15 DEF Crash, Progress, TryTyped, BooksTyped, MadeSoFar, Before, Places, Of, Drafts, Good, Gone, Held, At, Go, Books, Ghosts
<1> QED BY <1>1, <1>2, <1>3, <1>4, <1>5, <1>6, <1>7, <1>8, <1>9, <1>10, <1>11, <1>12, <1>13, <1>14, <1>15 DEF Next

(* The claim is done by an answer, which stays.                             *)
LEMMA AnswerNext == ASSUME PartnerSettleAssumption, Inv, [Next]_vars PROVE AnswerIsOf'
<1> USE DEF Inv, Typed, ClaimTyped, TryTyped, AnswerIsOf, Places, Before
<1>1. CASE UNCHANGED vars
  BY <1>1 DEF vars
<1>2. CASE GrowOld
  BY <1>2 DEF GrowOld
<1>3. ASSUME NEW x \in Drafts, Submit(x) PROVE AnswerIsOf'
  BY <1>3 DEF Submit
<1>4. ASSUME NEW t \in Tries, Insert(t) PROVE AnswerIsOf'
  BY <1>4 DEF Insert, At, Go
<1>5. ASSUME NEW t \in Tries, Look(t) PROVE AnswerIsOf'
  BY <1>5 DEF Look, At, Go
<1>6. ASSUME NEW t \in Tries, Take(t) PROVE AnswerIsOf'
  BY <1>6 DEF Take, At, Go
<1>7. ASSUME NEW t \in Tries, PlanIt(t) PROVE AnswerIsOf'
  BY <1>7 DEF PlanIt, At, Go
<1>8. ASSUME NEW t \in Tries, MakeDraft(t) PROVE AnswerIsOf'
  BY <1>8 DEF MakeDraft, At, Go
<1>9. ASSUME NEW t \in Tries, MakeLink(t) PROVE AnswerIsOf'
  BY <1>9 DEF MakeLink, At, Go
<1>10. ASSUME NEW t \in Tries, Complete(t) PROVE AnswerIsOf'
  BY <1>10, ZenonT(60) DEF Complete, At, Go
<1>11. ASSUME NEW t \in Tries, UndoLink(t) PROVE AnswerIsOf'
  BY <1>11 DEF UndoLink, At, Go
<1>12. ASSUME NEW t \in Tries, UndoDraft(t) PROVE AnswerIsOf'
  BY <1>12 DEF UndoDraft, At, Go
<1>13. ASSUME NEW t \in Tries, EndUndo(t) PROVE AnswerIsOf'
  BY <1>13 DEF EndUndo, At, Go
<1>14. ASSUME NEW t \in Tries, Release(t) PROVE AnswerIsOf'
  BY <1>14 DEF Release, At, Go
<1>15. ASSUME NEW t \in Tries, Crash(t) PROVE AnswerIsOf'
  BY <1>15 DEF Crash, At, Go, Working
<1> QED BY <1>1, <1>2, <1>3, <1>4, <1>5, <1>6, <1>7, <1>8, <1>9, <1>10, <1>11, <1>12, <1>13, <1>14, <1>15 DEF Next

(* A request is let in when no claim is there, so nobody works on it.       *)
LEMMA SingleNext == ASSUME PartnerSettleAssumption, Inv, [Next]_vars PROVE Single'
<1> USE DEF Inv, Typed, ClaimTyped, TryTyped, Single, InHand, Working, Places, Before
<1>1. CASE UNCHANGED vars
  BY <1>1 DEF vars
<1>2. CASE GrowOld
  BY <1>2 DEF GrowOld, Ghosts
<1>3. ASSUME NEW x \in Drafts, Submit(x) PROVE Single'
  BY <1>3 DEF Submit, Ghosts
<1>4. ASSUME NEW t \in Tries, Insert(t) PROVE Single'
  BY <1>4 DEF Insert, At, Go, Books, Ghosts
<1>5. ASSUME NEW t \in Tries, Look(t) PROVE Single'
  BY <1>5 DEF Look, At, Go, Books, Ghosts
<1>6. ASSUME NEW t \in Tries, Take(t) PROVE Single'
  BY <1>6 DEF Take, At, Go, Books, Ghosts
<1>7. ASSUME NEW t \in Tries, PlanIt(t) PROVE Single'
  BY <1>7 DEF PlanIt, At, Go, Books, Ghosts
<1>8. ASSUME NEW t \in Tries, MakeDraft(t) PROVE Single'
  BY <1>8 DEF MakeDraft, At, Go, Books, Ghosts
<1>9. ASSUME NEW t \in Tries, MakeLink(t) PROVE Single'
  BY <1>9 DEF MakeLink, At, Go, Books, Ghosts
<1>10. ASSUME NEW t \in Tries, Complete(t) PROVE Single'
  <2>1. CASE unsaved'
    BY <2>1
  <2>2. CASE unsaved' = unsaved /\ Go(t, "answered") /\ claim' = [claim EXCEPT !.status = "done", !.answer = Of(t)]
    BY <1>10, <2>2 DEF Complete, At, Go
  <2>3. CASE unsaved' = unsaved /\ claim.status = "none"
    BY <1>10, <2>3 DEF Complete, At
  <2> QED BY <1>10, <2>1, <2>2, <2>3 DEF Complete
<1>11. ASSUME NEW t \in Tries, UndoLink(t) PROVE Single'
  BY <1>11 DEF UndoLink, At, Go, Books, Ghosts
<1>12. ASSUME NEW t \in Tries, UndoDraft(t) PROVE Single'
  BY <1>12 DEF UndoDraft, At, Go, Books, Ghosts
<1>13. ASSUME NEW t \in Tries, EndUndo(t) PROVE Single'
  BY <1>13 DEF EndUndo, At, Go, Books, Ghosts
<1>14. ASSUME NEW t \in Tries, Release(t) PROVE Single'
  BY <1>14 DEF Release, At, Go, Books, Ghosts
<1>15. ASSUME NEW t \in Tries, Crash(t) PROVE Single'
  BY <1>15 DEF Crash, At, Go, Books, Ghosts
<1> QED BY <1>1, <1>2, <1>3, <1>4, <1>5, <1>6, <1>7, <1>8, <1>9, <1>10, <1>11, <1>12, <1>13, <1>14, <1>15 DEF Next

-----------------------------------------------------------------------------
LEMMA InvHolds == ASSUME PartnerSettleAssumption PROVE Spec => []Inv
<1>1. Init => Inv
  BY InvInit
<1>2. Inv /\ [Next]_vars => Inv'
  BY TypedStep, LinkHasDraftNext, ProgressNext, AnswerNext, SingleNext DEF Inv
<1> QED BY <1>1, <1>2, PTL DEF Spec

(* Claims, processes, drafts and links keep their types, for any number of  *)
(* arrivals, vouchers, faults and crashes.                                  *)
THEOREM TypeCorrect == ASSUME PartnerSettleAssumption PROVE Spec => []TypeOK
<1>1. Inv => TypeOK
  BY DEF Inv, Typed, ClaimTyped, TryTyped, BooksTyped, TypeOK, Places, Before, Ended, Working
<1> QED BY <1>1, InvHolds, PTL

(* Unless a claim was taken over or an answer could not be saved, one       *)
(* process only makes the vouchers of a request to the end.                 *)
THEOREM PaidOnceHolds == ASSUME PartnerSettleAssumption PROVE Spec => []PaidOnce
<1>1. Inv => PaidOnce
  BY DEF Inv, Single, InHand, Working, PaidOnce
<1> QED BY <1>1, InvHolds, PTL

(* A repeated request is answered with vouchers that exist and hold their   *)
(* links, whatever was taken over or failed meanwhile.                      *)
THEOREM TrueAnswerHolds == ASSUME PartnerSettleAssumption PROVE Spec => []TrueAnswer
<1>1. Inv => TrueAnswer
  BY DEF Inv, AnswerIsOf, Progress, MadeSoFar, Good, Held, TrueAnswer
<1> QED BY <1>1, InvHolds, PTL

(* A request that failed left nothing behind that the chief accountant was  *)
(* not alerted of, and no link of a deleted voucher.                        *)
THEOREM NothingHiddenHolds == ASSUME PartnerSettleAssumption PROVE Spec => []NothingHidden
<1>1. Inv => NothingHidden
  BY DEF Inv, LinkHasDraft, Progress, MadeSoFar, Gone, Held, NothingHidden
<1> QED BY <1>1, InvHolds, PTL
=============================================================================
