------------------------- MODULE PartnerMergeProofs -------------------------
(***************************************************************************)
(* Proofs about PartnerMerge. A reference to a partner that is gone, which *)
(* was neither written nor moved there afterwards, is watched: the request *)
(* that removed the partner has still to read its kind, is about to put    *)
(* the partner back, or died first.                                        *)
(***************************************************************************)
EXTENDS PartnerMerge, TLAPS

Stages == Ends \cup {"none", "source", "move", "count", "target", "delete", "recount", "restore", "answer"}
Somebody == Partners \cup {Nobody}
Request == [act : {"none", "merge", "delete"}, at : Stages, from : Somebody, to : Somebody,
            step : 1..Len(Kinds), round : 1..MaxRounds, read : SUBSET (1..Len(Kinds))]

JobTyped == job \in [Jobs -> Request]
RefTyped ==
    /\ there \subseteq Partners /\ active \subseteq Partners
    /\ touched \subseteq Jobs
    /\ ref \in [Refs -> Somebody] /\ hand \in [Refs -> Somebody]

Named == \A j \in Jobs : ~Ended(j) => job[j].from \in Partners

Watches(j, r) ==
    /\ job[j].from = ref[r]
    /\ \/ job[j].at \in {"lost", "restore"}
       \/ job[j].at = "recount" /\ \E i \in Unread(j) : KindOf[r] = Kinds[i]
Kept(r) ==
    \/ ref[r] = Nobody \/ ref[r] \in there \/ r \in late \cup blind
    \/ \E j \in Jobs : Watches(j, r)
AllKept == \A r \in Refs : Kept(r)

Inv == JobTyped /\ Named /\ RefTyped /\ AllKept

-----------------------------------------------------------------------------
LEMMA InvInit == ASSUME PartnerMergeAssumption, Init PROVE Inv
<1> USE DEF PartnerMergeAssumption, Init
<1>1. JobTyped
  <2>1. NoJob \in Request
    BY DEF NoJob, Request, Stages, Ends, Somebody
  <2> QED BY <2>1 DEF JobTyped
<1>2. RefTyped /\ AllKept
  BY DEF RefTyped, AllKept, Kept, Somebody
<1>3. Named
  BY DEF Named, Ended, NoJob
<1> QED BY <1>1, <1>2, <1>3 DEF Inv

(* Where a request may go, and what it takes along.                         *)
LEMMA GoTyped ==
    ASSUME PartnerMergeAssumption, JobTyped, NEW j \in Jobs, NEW p \in Stages, Go(j, p),
           p = "move" /\ job[j].at = "count" => job[j].round # MaxRounds
    PROVE  JobTyped'
<1> DEFINE m == job[j]
           round == IF p = "count" THEN m.round ELSE IF p = "move" /\ m.at = "count" THEN m.round + 1 ELSE 1
           to == IF p \in Ends THEN Nobody ELSE m.to
           from == IF p \in {"failed", "dead"} THEN Nobody ELSE m.from
<1>1. m \in Request
  BY DEF JobTyped
<1>2. round \in 1..MaxRounds /\ from \in Somebody /\ to \in Somebody
  BY <1>1 DEF Request, PartnerMergeAssumption, Somebody
<1>3. 1 \in 1..Len(Kinds)
  BY DEF PartnerMergeAssumption
<1>4. job' = [job EXCEPT ![j] = [m EXCEPT !.at = p, !.step = 1, !.read = {}, !.round = round, !.to = to, !.from = from]]
  BY DEF Go
<1> HIDE DEF m, round, to, from
<1>5. [m EXCEPT !.at = p, !.step = 1, !.read = {}, !.round = round, !.to = to, !.from = from] \in Request
  BY <1>1, <1>2, <1>3 DEF Request
<1> QED BY <1>4, <1>5 DEF JobTyped

LEMMA GoTo ==
    ASSUME JobTyped, NEW j \in Jobs, NEW p, Go(j, p), NEW k \in Jobs
    PROVE  /\ k # j => job'[k] = job[k]
           /\ job'[j].at = p /\ job'[j].read = {}
           /\ p \notin {"failed", "dead"} => job'[j].from = job[j].from
BY DEF JobTyped, Request, Go

LEMMA ReadOn ==
    ASSUME JobTyped, NEW j \in Jobs, NEW i \in Unread(j), job' = [job EXCEPT ![j].read = @ \cup {i}]
    PROVE  JobTyped'
BY ZenonT(60) DEF JobTyped, Request, Unread

LEMMA JobTypedNext == ASSUME PartnerMergeAssumption, Inv, [Next]_vars PROVE JobTyped'
<1> USE DEF Inv, PartnerMergeAssumption
<1>1. CASE UNCHANGED job
  BY <1>1 DEF JobTyped
<1>2. ASSUME NEW j \in Jobs, NEW i \in Unread(j), NEW used \in Stages, NEW unused \in Stages \ {"move"},
             CountKind(j, i, used, unused), used = "move" => job[j].round # MaxRounds
      PROVE  JobTyped'
  BY <1>2, GoTyped, ReadOn DEF CountKind
<1>3. ASSUME NEW j \in Jobs,
             StartMerge(j) \/ LoadSource(j) \/ MoveKind(j) \/ CountRound(j) \/ WriteTarget(j)
                \/ StartDelete(j) \/ CountBefore(j)
                \/ DeletePartner(j) \/ CountAfter(j) \/ Restore(j) \/ Answer(j) \/ Crash(j)
      PROVE  JobTyped'
  <2>1. CASE StartMerge(j) \/ StartDelete(j)
    <3>1. NoJob \in Request
      BY DEF NoJob, Request, Stages, Ends, Somebody
    <3>2. ASSUME NEW s \in Partners, NEW t \in Somebody, NEW a \in {"merge", "delete"}, NEW p \in Stages
          PROVE  [NoJob EXCEPT !.act = a, !.from = s, !.to = t, !.at = p] \in Request
      BY <3>1 DEF Request, Somebody
    <3>3. CASE StartMerge(j)
      <4>1. PICK s, t \in Partners :
               job' = [job EXCEPT ![j] = [NoJob EXCEPT !.act = "merge", !.from = s, !.to = t,
                                          !.at = IF t \in active THEN "source" ELSE "failed"]]
        BY <3>3 DEF StartMerge
      <4>2. (IF t \in active THEN "source" ELSE "failed") \in Stages
        BY DEF Stages, Ends
      <4> QED BY <4>1, <4>2, <3>2 DEF JobTyped, Somebody
    <3>4. CASE StartDelete(j)
      <4>1. PICK s \in Partners :
               job' = [job EXCEPT ![j] = [NoJob EXCEPT !.act = "delete", !.from = s, !.at = "count"]]
        BY <3>4 DEF StartDelete, RefTyped
      <4>2. [NoJob EXCEPT !.act = "delete", !.from = s, !.at = "count"] \in Request
        BY <3>1 DEF Request, Somebody, Stages
      <4> QED BY <4>1, <4>2 DEF JobTyped
    <3> QED BY <2>1, <3>3, <3>4
  <2>2. CASE LoadSource(j)
    BY <2>2, GoTyped DEF LoadSource, At, Stages, Ends
  <2>3. CASE MoveKind(j)
    <3>1. CASE job[j].step = Len(Kinds)
      BY <2>3, <3>1, GoTyped DEF MoveKind, Stages
    <3>2. CASE job[j].step # Len(Kinds)
      <4>1. job' = [job EXCEPT ![j].step = @ + 1]
        BY <2>3, <3>2 DEF MoveKind
      <4>2. job[j].step + 1 \in 1..Len(Kinds) /\ job[j] \in Request
        BY <3>2 DEF JobTyped, Request
      <4>3. [job[j] EXCEPT !.step = @ + 1] \in Request
        BY <4>2 DEF Request
      <4> QED BY <4>1, <4>3 DEF JobTyped
    <3> QED BY <3>1, <3>2
  <2>4. CASE CountRound(j)
    <3>1. PICK i \in Unread(j) : CountKind(j, i, IF job[j].round = MaxRounds THEN "failed" ELSE "move", "target")
      BY <2>4 DEF CountRound
    <3> QED BY <3>1, <1>2 DEF Stages, Ends
  <2>5. CASE WriteTarget(j) \/ DeletePartner(j) \/ Restore(j) \/ Answer(j) \/ Crash(j)
    BY <2>5, GoTyped DEF WriteTarget, DeletePartner, Restore, Answer, Crash, Stages, Ends
  <2>6. CASE CountBefore(j) \/ CountAfter(j)
    BY <2>6, <1>2 DEF CountBefore, CountAfter, Stages, Ends
  <2> QED BY <1>3, <2>1, <2>2, <2>3, <2>4, <2>5, <2>6
<1> QED BY <1>1, <1>3 DEF Next, vars, CheckPartner, WriteRef, DeleteRef, EditPartner

LEMMA RefTypedNext == ASSUME Inv, [Next]_vars PROVE RefTyped'
<1> USE DEF Inv, RefTyped, Somebody, History
<1>1. CASE UNCHANGED vars
  BY <1>1 DEF vars
<1>2. ASSUME NEW r \in Refs, NEW p \in Partners, CheckPartner(r, p) \/ WriteRef(r) \/ DeleteRef(r) PROVE RefTyped'
  BY <1>2 DEF CheckPartner, WriteRef, DeleteRef
<1>3. ASSUME NEW r \in Refs, WriteRef(r) \/ DeleteRef(r) PROVE RefTyped'
  BY <1>3 DEF WriteRef, DeleteRef
<1>4. ASSUME NEW p \in Partners, EditPartner(p) PROVE RefTyped'
  BY <1>4 DEF EditPartner, Touch
<1>5. ASSUME NEW j \in Jobs,
             StartMerge(j) \/ LoadSource(j) \/ MoveKind(j) \/ CountRound(j) \/ WriteTarget(j)
                \/ StartDelete(j) \/ CountBefore(j)
                \/ DeletePartner(j) \/ CountAfter(j) \/ Restore(j) \/ Answer(j) \/ Crash(j)
      PROVE  RefTyped'
  <2>1. CASE StartMerge(j) \/ LoadSource(j) \/ CountRound(j) \/ StartDelete(j) \/ CountBefore(j)
                \/ CountAfter(j) \/ Answer(j) \/ Crash(j)
    BY <2>1 DEF StartMerge, LoadSource, CountRound, StartDelete, CountBefore, CountAfter, Answer, Crash
  <2>2. CASE MoveKind(j)
    BY <2>2 DEF MoveKind, JobTyped, Request
  <2>3. CASE WriteTarget(j)
    BY <2>3 DEF WriteTarget, Touch
  <2>4. CASE DeletePartner(j)
    BY <2>4 DEF DeletePartner
  <2>5. CASE Restore(j)
    BY <2>5 DEF Restore, Named, Ended, Ends
  <2> QED BY <1>5, <2>1, <2>2, <2>3, <2>4, <2>5
<1> QED BY <1>1, <1>2, <1>3, <1>4, <1>5 DEF Next

LEMMA NamedNext == ASSUME Inv, [Next]_vars PROVE Named'
<1> USE DEF Inv, Named, Ended
<1>1. CASE UNCHANGED job
  BY <1>1
<1>2. ASSUME NEW j \in Jobs, NEW p, Go(j, p), job[j].from \in Partners PROVE Named'
  BY <1>2, GoTo DEF Ends
<1>3. ASSUME NEW j \in Jobs, job[j].from \in Partners, job' = [job EXCEPT ![j] = [job[j] EXCEPT !.step = @ + 1]]
      PROVE  Named'
  BY <1>3 DEF JobTyped, Request
<1>4. ASSUME NEW j \in Jobs, NEW i \in Unread(j), NEW used, NEW unused,
             CountKind(j, i, used, unused), job[j].from \in Partners
      PROVE  Named'
  BY <1>4, <1>2 DEF CountKind, JobTyped, Request
<1>5. ASSUME NEW j \in Jobs, StartMerge(j) \/ StartDelete(j) PROVE Named'
  BY <1>5, ZenonT(60) DEF StartMerge, StartDelete, NoJob, JobTyped, RefTyped
<1>6. ASSUME NEW j \in Jobs,
             LoadSource(j) \/ MoveKind(j) \/ CountRound(j) \/ WriteTarget(j) \/ CountBefore(j)
                \/ DeletePartner(j) \/ CountAfter(j) \/ Restore(j) \/ Answer(j) \/ Crash(j)
      PROVE  Named'
  <2>1. job[j].from \in Partners
    BY <1>6 DEF LoadSource, MoveKind, CountRound, WriteTarget, CountBefore, DeletePartner, CountAfter,
                Restore, Answer, Crash, At, Ends
  <2>2. CASE LoadSource(j) \/ WriteTarget(j) \/ DeletePartner(j) \/ Restore(j) \/ Answer(j) \/ Crash(j)
    BY <2>1, <2>2, <1>2 DEF LoadSource, WriteTarget, DeletePartner, Restore, Answer, Crash
  <2>3. CASE MoveKind(j)
    BY <2>1, <2>3, <1>2, <1>3 DEF MoveKind
  <2>4. CASE CountRound(j) \/ CountBefore(j) \/ CountAfter(j)
    BY <2>1, <2>4, <1>4 DEF CountRound, CountBefore, CountAfter
  <2> QED BY <1>6, <2>2, <2>3, <2>4
<1> QED BY <1>1, <1>5, <1>6 DEF Next, vars, CheckPartner, WriteRef, DeleteRef, EditPartner

-----------------------------------------------------------------------------
(* A reference that nobody writes is kept while its partner is there and    *)
(* whoever watches it goes on watching.                                     *)
LEMMA KeptOn ==
    ASSUME AllKept, NEW r \in Refs, ref'[r] = ref[r],
           ref[r] \in there => ref[r] \in there' \/ Kept(r)',
           r \in late \cup blind => r \in late' \cup blind',
           \A k \in Jobs : Watches(k, r) => Kept(r)'
    PROVE  Kept(r)'
BY DEF AllKept, Kept

LEMMA StillWatches ==
    ASSUME NEW k \in Jobs, NEW r \in Refs, Watches(k, r), job'[k] = job[k], ref'[r] = ref[r]
    PROVE  Kept(r)'
BY DEF Kept, Watches, Unread

(* The count after the deletion: what it has not read yet it still watches, *)
(* and what it finds makes it put the partner back.                         *)
LEMMA CountAfterKeeps ==
    ASSUME Inv, NEW j \in Jobs, CountAfter(j), NEW r \in Refs, Watches(j, r) PROVE Watches(j, r)'
<1> USE DEF Inv
<1>1. PICK i \in Unread(j) : CountKind(j, i, "restore", "answer")
  BY DEF CountAfter
<1>2. job[j].from = ref[r] /\ \E k \in Unread(j) : KindOf[r] = Kinds[k]
  BY DEF CountAfter, Watches
<1>3. ref' = ref
  BY DEF CountAfter
<1>4. CASE Used(job[j].from, Kinds[i])
  BY <1>1, <1>2, <1>3, <1>4, GoTo DEF CountKind, Watches
<1>5. CASE ~Used(job[j].from, Kinds[i])
  <2>1. PICK k \in Unread(j) : KindOf[r] = Kinds[k]
    BY <1>2
  <2>2. k # i /\ Unread(j) # {i}
    BY <1>2, <1>5, <2>1 DEF Used
  <2>3. job' = [job EXCEPT ![j].read = @ \cup {i}]
    BY <1>1, <1>5, <2>2 DEF CountKind
  <2>4. job'[j].from = job[j].from /\ job'[j].at = "recount" /\ job'[j].read = job[j].read \cup {i}
    BY <2>3 DEF JobTyped, Request, CountAfter
  <2> QED BY <1>2, <1>3, <2>1, <2>2, <2>4 DEF Watches, Unread
<1> QED BY <1>4, <1>5

LEMMA AllKeptNext == ASSUME PartnerMergeAssumption, Inv, [Next]_vars PROVE AllKept'
<1> USE DEF Inv
<1>1. CASE UNCHANGED vars
  BY <1>1 DEF vars, AllKept, Kept, Watches, Unread
<1>2. ASSUME NEW x \in Refs, NEW p \in Partners, CheckPartner(x, p) PROVE AllKept'
  BY <1>2 DEF CheckPartner, History, AllKept, Kept, Watches, Unread
<1>3. ASSUME NEW x \in Refs, WriteRef(x) PROVE AllKept'
  <2> SUFFICES ASSUME NEW r \in Refs PROVE Kept(r)'
    BY DEF AllKept
  <2>1. CASE r = x
    BY <1>3, <2>1 DEF WriteRef, Kept, RefTyped
  <2>2. CASE r # x
    <3>1. ref'[r] = ref[r] /\ job' = job
      BY <1>3, <2>2 DEF WriteRef, RefTyped
    <3>2. r \in late \cup blind => r \in late' \cup blind'
      BY <1>3, <2>2 DEF WriteRef
    <3>3. there' = there
      BY <1>3 DEF WriteRef
    <3> QED BY <3>1, <3>2, <3>3, KeptOn, StillWatches
  <2> QED BY <2>1, <2>2
<1>4. ASSUME NEW x \in Refs, DeleteRef(x) PROVE AllKept'
  BY <1>4 DEF DeleteRef, History, AllKept, Kept, Watches, Unread, RefTyped
<1>5. ASSUME NEW p \in Partners, EditPartner(p) PROVE AllKept'
  BY <1>5 DEF EditPartner, AllKept, Kept, Watches, Unread
<1>6. ASSUME NEW j \in Jobs, UNCHANGED <<there, ref, late, blind>>, \A k \in Jobs \ {j} : job'[k] = job[k],
             \A r \in Refs : Watches(j, r) => Kept(r)'
      PROVE  AllKept'
  <2>1. ASSUME NEW r \in Refs, NEW k \in Jobs, Watches(k, r) PROVE Kept(r)'
    BY <1>6, <2>1, StillWatches
  <2> QED BY <1>6, <2>1, KeptOn DEF AllKept
<1>7. ASSUME NEW j \in Jobs, StartMerge(j) \/ LoadSource(j) \/ CountRound(j) \/ WriteTarget(j)
                                \/ StartDelete(j) \/ CountBefore(j) \/ Answer(j)
      PROVE  AllKept'
  <2>1. \A r \in Refs : ~Watches(j, r)
    BY <1>7 DEF StartMerge, LoadSource, CountRound, WriteTarget, StartDelete, CountBefore, Answer, At, Watches
  <2>2. UNCHANGED <<there, ref, late, blind>>
    BY <1>7 DEF StartMerge, LoadSource, CountRound, WriteTarget, StartDelete, CountBefore, Answer, History
  <2>3. \A k \in Jobs \ {j} : job'[k] = job[k]
    <3>1. CASE StartMerge(j) \/ StartDelete(j)
      BY <3>1 DEF StartMerge, StartDelete, JobTyped
    <3>2. CASE LoadSource(j) \/ WriteTarget(j) \/ Answer(j)
      BY <3>2, GoTo DEF LoadSource, WriteTarget, Answer
    <3>3. CASE CountRound(j) \/ CountBefore(j)
      BY <3>3, GoTo DEF CountRound, CountBefore, CountKind, JobTyped
    <3> QED BY <1>7, <3>1, <3>2, <3>3
  <2> QED BY <2>1, <2>2, <2>3, <1>6
<1>8. ASSUME NEW j \in Jobs, MoveKind(j) PROVE AllKept'
  <2> SUFFICES ASSUME NEW r \in Refs PROVE Kept(r)'
    BY DEF AllKept
  <2> DEFINE moved == {x \in Refs : KindOf[x] = Kinds[job[j].step] /\ ref[x] = job[j].from}
  <2>1. CASE r \in moved
    BY <1>8, <2>1 DEF MoveKind, Kept
  <2>2. CASE r \notin moved
    <3>1. ref'[r] = ref[r] /\ there' = there /\ (r \in late \cup blind => r \in late' \cup blind')
      BY <1>8, <2>2 DEF MoveKind
    <3>2. \A k \in Jobs \ {j} : job'[k] = job[k]
      BY <1>8, GoTo DEF MoveKind, JobTyped
    <3>3. ~Watches(j, r)
      BY <1>8 DEF MoveKind, At, Watches
    <3> QED BY <3>1, <3>2, <3>3, KeptOn, StillWatches
  <2> QED BY <2>1, <2>2
<1>9. ASSUME NEW j \in Jobs, DeletePartner(j) PROVE AllKept'
  <2> SUFFICES ASSUME NEW r \in Refs PROVE Kept(r)'
    BY DEF AllKept
  <2>1. UNCHANGED <<ref, late, blind>> /\ there' = there \ {job[j].from} /\ Go(j, "recount") /\ job[j].at = "delete"
    BY <1>9 DEF DeletePartner, History
  <2>2. CASE ref[r] = job[j].from
    <3>1. \E i \in 1..Len(Kinds) : KindOf[r] = Kinds[i]
      BY DEF PartnerMergeAssumption
    <3>2. job'[j].from = ref'[r] /\ job'[j].at = "recount" /\ job'[j].read = {}
      BY <2>1, <2>2, GoTo
    <3>3. Watches(j, r)'
      BY <3>1, <3>2 DEF Watches, Unread
    <3> QED BY <3>3 DEF Kept
  <2>3. CASE ref[r] # job[j].from
    <3>1. ~Watches(j, r)
      BY <2>3 DEF Watches
    <3>2. \A k \in Jobs \ {j} : job'[k] = job[k]
      BY <2>1, GoTo
    <3> QED BY <2>1, <2>3, <3>1, <3>2, KeptOn, StillWatches
  <2> QED BY <2>2, <2>3
<1>10. ASSUME NEW j \in Jobs, CountAfter(j) PROVE AllKept'
  <2>1. UNCHANGED <<there, ref, late, blind>>
    BY <1>10 DEF CountAfter, History
  <2>2. \A k \in Jobs \ {j} : job'[k] = job[k]
    BY <1>10, GoTo DEF CountAfter, CountKind, JobTyped
  <2>3. \A r \in Refs : Watches(j, r) => Kept(r)'
    BY <1>10, CountAfterKeeps DEF Kept
  <2> QED BY <2>1, <2>2, <2>3, <1>6
<1>11. ASSUME NEW j \in Jobs, Restore(j) PROVE AllKept'
  <2> SUFFICES ASSUME NEW r \in Refs PROVE Kept(r)'
    BY DEF AllKept
  <2>1. UNCHANGED <<ref, late, blind>> /\ there' = there \cup {job[j].from} /\ Go(j, "failed")
    BY <1>11 DEF Restore, History
  <2>2. Watches(j, r) => Kept(r)'
    BY <2>1 DEF Watches, Kept
  <2>3. \A k \in Jobs \ {j} : job'[k] = job[k]
    BY <2>1, GoTo
  <2> QED BY <2>1, <2>2, <2>3, KeptOn, StillWatches
<1>12. ASSUME NEW j \in Jobs, Crash(j) PROVE AllKept'
  <2>1. UNCHANGED <<there, ref, late, blind>> /\ ~Ended(j)
    BY <1>12 DEF Crash
  <2>2. Go(j, IF job[j].at \in {"recount", "restore"} THEN "lost" ELSE "dead")
    BY <1>12 DEF Crash
  <2>3. \A k \in Jobs \ {j} : job'[k] = job[k]
    BY <2>2, GoTo
  <2>4. ASSUME NEW r \in Refs, Watches(j, r) PROVE Kept(r)'
    <3>1. job'[j].at = "lost" /\ job'[j].from = job[j].from
      BY <2>1, <2>2, <2>4, GoTo DEF Watches, Ended, Ends
    <3> QED BY <2>1, <2>4, <3>1 DEF Watches, Kept
  <2> QED BY <2>1, <2>3, <2>4, <1>6
<1> QED BY <1>1, <1>2, <1>3, <1>4, <1>5, <1>7, <1>8, <1>9, <1>10, <1>11, <1>12 DEF Next

-----------------------------------------------------------------------------
LEMMA InvHolds == ASSUME PartnerMergeAssumption PROVE Spec => []Inv
<1>1. Init => Inv
  BY InvInit
<1>2. Inv /\ [Next]_vars => Inv'
  BY JobTypedNext, NamedNext, RefTypedNext, AllKeptNext DEF Inv
<1> QED BY <1>1, <1>2, PTL DEF Spec

(* Partners, references and requests keep their types, for any number of    *)
(* partners, references, requests and rounds.                               *)
THEOREM TypeCorrect == ASSUME PartnerMergeAssumption PROVE Spec => []TypeOK
<1>1. Inv => TypeOK
  BY DEF Inv, JobTyped, RefTyped, Request, Somebody, TypeOK
<1> QED BY <1>1, InvHolds, PTL

(* When requests have ended no voucher, debt or loan names a partner that   *)
(* is gone, but for the three cases the property names.                     *)
THEOREM NoDanglingHolds == ASSUME PartnerMergeAssumption PROVE Spec => []NoDangling
<1>1. Inv => NoDangling
  BY DEF Inv, AllKept, Kept, Watches, Ended, Ends, NoDangling
<1> QED BY <1>1, InvHolds, PTL
=============================================================================
