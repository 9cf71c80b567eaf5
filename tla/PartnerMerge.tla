---------------------------- MODULE PartnerMerge ----------------------------
(***************************************************************************)
(* Merging a partner into another and deleting one (partner/index.ts):     *)
(* references move kind by kind, are counted, the target is written, the   *)
(* source deleted, counted once more and put back if something points to   *)
(* it. There is no transaction, and meanwhile people write vouchers, debts *)
(* and loans that were checked against the partner before.                 *)
(***************************************************************************)
EXTENDS Naturals, FiniteSets, Sequences

CONSTANTS
    Partners,       \* partners of one company and of one type
    Kinds,          \* what refers to a partner, in the order of moveReferences
    Refs,           \* references that may come to exist
    KindOf,         \* the kind of each
    Jobs,           \* requests: merge or delete
    MaxRounds,      \* MERGE_ROUNDS
    MaxUpsets       \* bound: processes that die and edits of partners

PartnerMergeAssumption ==
    /\ Len(Kinds) \in Nat \ {0}
    /\ KindOf \in [Refs -> {Kinds[i] : i \in 1..Len(Kinds)}]
    /\ MaxRounds \in Nat \ {0} /\ MaxUpsets \in Nat

VARIABLES
    there,      \* partners that exist
    active,     \* partners that are not "inactive"
    touched,    \* the merges whose target was written since they read it
    ref,        \* the partner each reference points to, or "none"
    hand,       \* a write being made: the partner it was checked against
    job,        \* a request: what it does, where it is, what it has read
    late,       \* history: references written to a partner that was gone
    blind,      \* history: references moved to a partner that was gone
    upsets

vars == <<there, active, touched, ref, hand, job, late, blind, upsets>>
Nobody == "none"
NoJob == [act |-> "none", at |-> "none", from |-> Nobody, to |-> Nobody, step |-> 1, round |-> 1, read |-> {}]

Init ==
    /\ there = Partners /\ active = Partners
    /\ touched = {}
    /\ ref \in [Refs -> Partners \cup {Nobody}]
    /\ hand = [r \in Refs |-> Nobody]
    /\ job = [j \in Jobs |-> NoJob]
    /\ late = {} /\ blind = {} /\ upsets = 0

At(j, act, p) == job[j].act = act /\ job[j].at = p
Ends == {"failed", "dead", "lost", "ok"}
Go(j, p) ==     \* what an ended request does not need any more is forgotten
    LET m == job[j]
    IN  job' = [job EXCEPT ![j] =
                  [m EXCEPT !.at = p, !.step = 1, !.read = {},
                            !.round = IF p = "count" THEN m.round
                                      ELSE IF p = "move" /\ m.at = "count" THEN m.round + 1 ELSE 1,
                            !.to = IF p \in Ends THEN Nobody ELSE m.to,
                            !.from = IF p \in {"failed", "dead"} THEN Nobody ELSE m.from]]
UsedByVouchers(p, k) == k = Kinds[1] /\ \E r \in Refs : KindOf[r] = k /\ ref[r] = p
Used(p, k) == \E r \in Refs : KindOf[r] = k /\ ref[r] = p
History == <<late, blind, upsets>>
Touch(p) == touched \cup {j \in Jobs : job[j].to = p /\ job[j].at \in {"source", "move", "count", "target"}}

-----------------------------------------------------------------------------
(* People. assertVoucherPartner, assertPartner: the partner exists and is   *)
(* active; what was checked is written later. A reference leaves a partner  *)
(* when its voucher, debt or loan is deleted or changes its partner.        *)
CheckPartner(r, p) ==
    /\ hand[r] = Nobody /\ ref[r] # p
    /\ p \in there \cap active
    /\ hand' = [hand EXCEPT ![r] = p]
    /\ UNCHANGED <<there, active, touched, ref, job, History>>

WriteRef(r) ==
    /\ hand[r] # Nobody
    /\ ref' = [ref EXCEPT ![r] = hand[r]]
    /\ hand' = [hand EXCEPT ![r] = Nobody]
    /\ late' = IF hand[r] \in there THEN late \ {r} ELSE late \cup {r}
    /\ blind' = blind \ {r}
    /\ UNCHANGED <<there, active, touched, job, upsets>>

DeleteRef(r) ==
    /\ ref[r] # Nobody /\ hand[r] = Nobody
    /\ ref' = [ref EXCEPT ![r] = Nobody]
    /\ UNCHANGED <<there, active, touched, hand, job, History>>

(* setPartnerStatus, updatePartner                                          *)
EditPartner(p) ==
    /\ p \in there /\ upsets < MaxUpsets
    /\ \/ active' = (active \ {p}) \cup ({p} \ active)
       \/ UNCHANGED active
    /\ touched' = Touch(p) /\ upsets' = upsets + 1
    /\ UNCHANGED <<there, ref, hand, job, late, blind>>

-----------------------------------------------------------------------------
(* mergePartners: the target is read, then the source; assertMergeable.     *)
StartMerge(j) ==
    /\ At(j, "none", "none")
    /\ \E s, t \in Partners :
          /\ s # t /\ t \in there
          /\ job' = [job EXCEPT ![j] = [NoJob EXCEPT !.act = "merge", !.from = s, !.to = t,
                                        !.at = IF t \in active THEN "source" ELSE "failed"]]
    /\ UNCHANGED <<there, active, touched, ref, hand, History>>

LoadSource(j) ==
    /\ At(j, "merge", "source")
    /\ Go(j, IF job[j].from \in there THEN "move" ELSE "failed")
    /\ UNCHANGED <<there, active, touched, ref, hand, History>>

MoveKind(j) ==
    /\ At(j, "merge", "move")
    /\ LET m == job[j]
           moved == {r \in Refs : KindOf[r] = Kinds[m.step] /\ ref[r] = m.from}
       IN  /\ ref' = [r \in Refs |-> IF r \in moved THEN m.to ELSE ref[r]]
           /\ blind' = IF m.to \in there THEN blind \ moved ELSE blind \cup moved
           /\ late' = late \ moved
           /\ IF m.step = Len(Kinds) THEN Go(j, "count") ELSE job' = [job EXCEPT ![j].step = @ + 1]
    /\ UNCHANGED <<there, active, touched, hand, upsets>>

(* partnerUsageCounts reads the kinds at once: they are answered in any     *)
(* order. One use settles the outcome, so the other answers are not waited  *)
(* for here.                                                                *)
Unread(j) == (1..Len(Kinds)) \ job[j].read
CountKind(j, i, used, unused) ==
    IF Used(job[j].from, Kinds[i]) THEN Go(j, used)
    ELSE IF Unread(j) = {i} THEN Go(j, unused)
    ELSE job' = [job EXCEPT ![j].read = @ \cup {i}]

CountRound(j) ==
    /\ At(j, "merge", "count")
    /\ \E i \in Unread(j) : CountKind(j, i, IF job[j].round = MaxRounds THEN "failed" ELSE "move", "target")
    /\ UNCHANGED <<there, active, touched, ref, hand, History>>

(* The target is written only if nobody wrote it since it was read.         *)
WriteTarget(j) ==
    /\ At(j, "merge", "target")
    /\ LET t == job[j].to
       IN  IF t \in there /\ j \notin touched
             THEN touched' = Touch(t) \ {j} /\ Go(j, "delete")
             ELSE touched' = touched \ {j} /\ Go(j, "failed")
    /\ UNCHANGED <<there, active, ref, hand, History>>

(* deletePartner: the same count before, the same deletion and count after. *)
StartDelete(j) ==
    /\ At(j, "none", "none")
    /\ \E p \in there : job' = [job EXCEPT ![j] = [NoJob EXCEPT !.act = "delete", !.from = p, !.at = "count"]]
    /\ UNCHANGED <<there, active, touched, ref, hand, History>>

CountBefore(j) ==
    /\ At(j, "delete", "count")
    /\ \E i \in Unread(j) : CountKind(j, i, "failed", "delete")
    /\ UNCHANGED <<there, active, touched, ref, hand, History>>

DeletePartner(j) ==
    /\ job[j].at = "delete"
    /\ there' = there \ {job[j].from}
    /\ Go(j, "recount")
    /\ UNCHANGED <<active, touched, ref, hand, History>>

CountAfter(j) ==
    /\ job[j].at = "recount"
    /\ \E i \in Unread(j) : CountKind(j, i, "restore", "answer")
    /\ UNCHANGED <<there, active, touched, ref, hand, History>>

Restore(j) ==
    /\ job[j].at = "restore"
    /\ there' = there \cup {job[j].from}
    /\ Go(j, "failed")
    /\ UNCHANGED <<active, touched, ref, hand, History>>

(* A merge reads the target for its answer, which fails if it is gone.      *)
Answer(j) ==
    /\ job[j].at = "answer"
    /\ Go(j, IF job[j].act = "merge" /\ job[j].to \notin there THEN "failed" ELSE "ok")
    /\ UNCHANGED <<there, active, touched, ref, hand, History>>

(* A process that dies between deletion and answer never counts again.      *)
Ended(j) == job[j].at \in Ends \cup {"none"}
Crash(j) ==
    /\ ~Ended(j) /\ upsets < MaxUpsets
    /\ upsets' = upsets + 1
    /\ Go(j, IF job[j].at \in {"recount", "restore"} THEN "lost" ELSE "dead")
    /\ UNCHANGED <<there, active, touched, ref, hand, late, blind>>

Next ==
    \/ \E r \in Refs : WriteRef(r) \/ DeleteRef(r) \/ \E p \in Partners : CheckPartner(r, p)
    \/ \E p \in Partners : EditPartner(p)
    \/ \E j \in Jobs :
          \/ StartMerge(j) \/ LoadSource(j) \/ MoveKind(j) \/ CountRound(j) \/ WriteTarget(j)
          \/ StartDelete(j) \/ CountBefore(j)
          \/ DeletePartner(j) \/ CountAfter(j) \/ Restore(j) \/ Answer(j) \/ Crash(j)

Spec == Init /\ [][Next]_vars

-----------------------------------------------------------------------------
(* References and checks name partners; a request is at a step it has.      *)
TypeOK ==
    /\ there \subseteq Partners /\ active \subseteq Partners
    /\ touched \subseteq Jobs
    /\ ref \in [Refs -> Partners \cup {Nobody}] /\ hand \in [Refs -> Partners \cup {Nobody}]
    /\ \A j \in Jobs : job[j].step \in 1..Len(Kinds) /\ job[j].read \subseteq 1..Len(Kinds) /\ job[j].round \in 1..MaxRounds

(* When merges and deletions have ended, every voucher, debt and loan names *)
(* a partner that exists: what was written while the partner was there is   *)
(* moved, or found by the last count, which puts the partner back. Left out *)
(* are writes to a partner that was gone already, references that a merge   *)
(* moved to a target that another request had just removed, and processes   *)
(* that died between the deletion and the last count.                       *)
NoDangling ==
    (\A j \in Jobs : Ended(j)) =>
        \A r \in Refs :
            \/ ref[r] = Nobody \/ ref[r] \in there \/ r \in late \cup blind
            \/ \E j \in Jobs : job[j].at = "lost" /\ job[j].from = ref[r]
=============================================================================
