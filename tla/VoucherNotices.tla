--------------------------- MODULE VoucherNotices ---------------------------
(***************************************************************************)
(* Who learns of a voucher that moved: the aftermath of a transition, which *)
(* writes its domain event and then the notifications of the next level    *)
(* (workflow/index.ts, events/index.ts, side-effects.ts), each of them     *)
(* best effort and lost with the process; and the two periodic tasks that  *)
(* make up for it, the scan of the outbox by the engine, which alerts a    *)
(* transition without event, and the SLA scan, which reminds the approver  *)
(* of an overdue voucher (jobs/index.ts).                                  *)
(*                                                                         *)
(* Time passes in ticks, of which DayLen make a day. In each tick each      *)
(* task comes to its end once, and requests do too.                        *)
(***************************************************************************)
EXTENDS Integers, FiniteSets

CONSTANTS
    Vouchers, Levels, Users, None,
    SlaTime,        \* ticks a level has (sla_hours)
    DayLen,         \* ticks of a day (today() in the key of a reminder)
    Grace, Window,  \* RECONCILE_GRACE_MS, RECONCILE_WINDOW_MS
    MaxNow, MaxEntries, MaxUpsets   \* bounds: ticks; entries of a history; failures

NoticesAssumption ==
    /\ Levels \in Nat \ {0} /\ DayLen \in Nat \ {0}
    /\ {SlaTime, Grace, Window, MaxNow, MaxEntries, MaxUpsets} \subseteq Nat
    /\ None \notin Users

VARIABLES
    now,
    desk,       \* of each voucher: status, current level, user and deadline of each
    entry,      \* the last entry of its history: number, time, is it a transition
    heard,      \* up to which entry an event follows, and when it was written
    todo,       \* transitions whose aftermath is under way
    alerts,     \* the keys of the alerts stored
    told,       \* the approvals <<user, voucher, level>> somebody was notified of
    warned,     \* the gaps the chief accountant was notified of
    outbox, sla,    \* the two scans: what they read and have not done
    ran,        \* the tasks that ended in this tick
    upsets

vars == <<now, desk, entry, heard, todo, alerts, told, warned, outbox, sla, ran, upsets>>
tasks == <<outbox, sla, ran>>

Level == 1..Levels
Idle == [on |-> FALSE, left |-> {}, next |-> None]

Init ==
    /\ now = 0
    /\ \E who \in [Level -> Users \cup {None}] :
          desk = [v \in Vouchers |-> [status |-> "draft", level |-> 0, who |-> who, due |-> [l \in Level |-> None]]]
    /\ entry = [v \in Vouchers |-> [n |-> 0, at |-> 0, moved |-> FALSE]]
    /\ heard = [v \in Vouchers |-> [n |-> 0, at |-> 0]]
    /\ todo = {} /\ alerts = {} /\ told = {} /\ warned = {}
    /\ outbox = Idle /\ sla = Idle /\ ran = {} /\ upsets = 0

Upset == upsets < MaxUpsets /\ upsets' = upsets + 1

-----------------------------------------------------------------------------
(* An entry of the history. An event of the voucher that was written within *)
(* the second before counts as its own (created_at >= at - 1 s).            *)
Write(v, moved) ==
    /\ entry[v].n < MaxEntries
    /\ entry' = [entry EXCEPT ![v] = [n |-> @.n + 1, at |-> now, moved |-> moved]]
    /\ \E near \in {FALSE} \cup {heard[v].at = now /\ heard[v].n > 0} :
          heard' = IF near THEN [heard EXCEPT ![v].n = entry[v].n + 1] ELSE heard

(* nextLevelRecipients: the user of the level, or all who hold its role     *)
Recipients(d) ==
    IF d.status # "pending" THEN {}
    ELSE IF d.who[d.level] # None THEN {d.who[d.level]} ELSE Users

Move(v, d) ==
    /\ desk' = [desk EXCEPT ![v] = d]
    /\ Write(v, TRUE)
    /\ todo' = todo \cup {[v |-> v, n |-> entry[v].n + 1, level |-> d.level, emitted |-> FALSE, to |-> Recipients(d)]}
    /\ UNCHANGED <<now, alerts, told, warned, tasks, upsets>>

Arrive(d, l) == [d EXCEPT !.status = "pending", !.level = l, !.due[l] = now + SlaTime]

(* submitDocument: the levels the creator holds are approved by it, without *)
(* a deadline.                                                              *)
Submit(v) ==
    /\ desk[v].status = "draft"
    /\ \E first \in Level : Move(v, Arrive(desk[v], first))

Approve(v) ==
    /\ desk[v].status = "pending"
    /\ IF desk[v].level < Levels THEN Move(v, Arrive(desk[v], desk[v].level + 1))
       ELSE Move(v, [desk[v] EXCEPT !.status = "approved"])

Return(v) ==
    /\ desk[v].status = "pending"
    /\ Move(v, [desk[v] EXCEPT !.status = "changes_requested"])

(* A file attached, evidence asked for: an entry, but no event              *)
Annotate(v) ==
    /\ entry[v].moved
    /\ Write(v, FALSE)
    /\ UNCHANGED <<now, desk, todo, alerts, told, warned, tasks, upsets>>

-----------------------------------------------------------------------------
(* The aftermath: emitDomainEvent logs its error and goes on;               *)
(* notifyNextApprover stops at the first notification that fails.           *)
Then(t, u) == todo' = (todo \ {t}) \cup (IF u.to = {} THEN {} ELSE {u})

Emit(t) ==
    /\ ~t.emitted
    /\ \/ heard' = [heard EXCEPT ![t.v] = [n |-> entry[t.v].n, at |-> now]] /\ UNCHANGED upsets
       \/ Upset /\ UNCHANGED heard
    /\ Then(t, [t EXCEPT !.emitted = TRUE])
    /\ UNCHANGED <<now, desk, entry, alerts, told, warned, tasks>>

Notify(t) ==
    /\ t.emitted
    /\ \/ \E u \in t.to :
            /\ told' = told \cup {<<u, t.v, t.level>>}
            /\ Then(t, [t EXCEPT !.to = @ \ {u}])
            /\ UNCHANGED upsets
       \/ Upset /\ todo' = todo \ {t} /\ UNCHANGED told
    /\ UNCHANGED <<now, desk, entry, heard, alerts, warned, tasks>>

-----------------------------------------------------------------------------
(* reconcileTransitionEvents, when the engine is idle: the last entry of    *)
(* each voucher, if it is a transition of the window and out of its grace.  *)
RecentGap(e) == e.moved /\ now - e.at < Grace
IsOutboxGap(e) == e.moved /\ now - e.at >= Grace /\ now - e.at <= Window

ReadRecent ==
    /\ ~outbox.on /\ "outbox" \notin ran
    /\ outbox' = [on |-> TRUE, left |-> {[v |-> v, n |-> entry[v].n] : v \in {w \in Vouchers : IsOutboxGap(entry[w])}},
                  next |-> None]
    /\ UNCHANGED <<now, desk, entry, heard, todo, alerts, told, warned, sla, ran, upsets>>

(* raiseAlert stores the alert under its key, which it does once, and then  *)
(* notifies; an error is logged.                                            *)
CheckEntry(x) ==
    /\ outbox.on /\ outbox.next = None /\ x \in outbox.left
    /\ LET key == <<"gap", x.v, x.n>>
       IN  \/ /\ heard[x.v].n >= x.n \/ key \in alerts
              /\ outbox' = [outbox EXCEPT !.left = @ \ {x}]
              /\ UNCHANGED <<alerts, upsets>>
           \/ /\ heard[x.v].n < x.n /\ key \notin alerts
              /\ \/ /\ alerts' = alerts \cup {key}
                    /\ outbox' = [outbox EXCEPT !.left = @ \ {x}, !.next = key]
                    /\ UNCHANGED upsets
                 \/ /\ Upset
                    /\ outbox' = [outbox EXCEPT !.left = @ \ {x}]
                    /\ UNCHANGED alerts
    /\ UNCHANGED <<now, desk, entry, heard, todo, told, warned, sla, ran>>

FanOut ==
    /\ outbox.next # None
    /\ warned' = warned \cup {outbox.next}
    /\ outbox' = [outbox EXCEPT !.next = None]
    /\ UNCHANGED <<now, desk, entry, heard, todo, alerts, told, sla, ran, upsets>>

EndOutbox ==
    /\ outbox.on /\ outbox.left = {} /\ outbox.next = None
    /\ outbox' = Idle /\ ran' = ran \cup {"outbox"}
    /\ UNCHANGED <<now, desk, entry, heard, todo, alerts, told, warned, sla, upsets>>

-----------------------------------------------------------------------------
(* queueFilterForSla asks of the deadlines of all the steps that none is    *)
(* null and that some is past.                                              *)
OverdueAt(d, t) ==
    /\ d.status = "pending"
    /\ \A l \in Level : d.due[l] # None
    /\ \E l \in Level : d.due[l] < t

ReadOverdue ==
    /\ ~sla.on /\ "sla" \notin ran
    /\ sla' = [on |-> TRUE, next |-> None,
               left |-> {[v |-> v, user |-> desk[v].who[desk[v].level], level |-> desk[v].level] :
                            v \in {w \in Vouchers : OverdueAt(desk[w], now) /\ desk[w].who[desk[w].level] # None}}]
    /\ UNCHANGED <<now, desk, entry, heard, todo, alerts, told, warned, outbox, ran, upsets>>

(* One reminder of a voucher a day. A failed call ends the task.            *)
ReminderKey(v) == <<"sla", v, now \div DayLen>>

Remind(x) ==
    /\ sla.on /\ sla.next = None /\ x \in sla.left
    /\ \/ /\ ReminderKey(x.v) \in alerts
          /\ sla' = [sla EXCEPT !.left = @ \ {x}]
          /\ UNCHANGED <<alerts, upsets>>
       \/ /\ ReminderKey(x.v) \notin alerts
          /\ \/ /\ alerts' = alerts \cup {ReminderKey(x.v)}
                /\ sla' = [sla EXCEPT !.left = @ \ {x}, !.next = x]
                /\ UNCHANGED upsets
             \/ Upset /\ sla' = Idle /\ UNCHANGED alerts
    /\ UNCHANGED <<now, desk, entry, heard, todo, told, warned, outbox, ran>>

NotifyOverdue ==
    /\ sla.next # None
    /\ \/ /\ told' = told \cup {<<sla.next.user, sla.next.v, sla.next.level>>}
          /\ sla' = [sla EXCEPT !.next = None]
          /\ UNCHANGED upsets
       \/ Upset /\ sla' = Idle /\ UNCHANGED told
    /\ UNCHANGED <<now, desk, entry, heard, todo, alerts, warned, outbox, ran>>

EndSla ==
    /\ sla.on /\ sla.left = {} /\ sla.next = None
    /\ sla' = Idle /\ ran' = ran \cup {"sla"}
    /\ UNCHANGED <<now, desk, entry, heard, todo, alerts, told, warned, outbox, upsets>>

-----------------------------------------------------------------------------
(* The process dies with all it was doing, and is started again.            *)
Crash ==
    /\ Upset
    /\ todo' = {} /\ outbox' = Idle /\ sla' = Idle
    /\ UNCHANGED <<now, desk, entry, heard, alerts, told, warned, ran>>

Tick ==
    /\ now < MaxNow /\ todo = {} /\ ~outbox.on /\ ~sla.on /\ ran = {"outbox", "sla"}
    /\ now' = now + 1 /\ ran' = {}
    /\ UNCHANGED <<desk, entry, heard, todo, alerts, told, warned, outbox, sla, upsets>>

Next ==
    \/ \E v \in Vouchers : Submit(v) \/ Approve(v) \/ Return(v) \/ Annotate(v)
    \/ \E t \in todo : Emit(t) \/ Notify(t)
    \/ ReadRecent \/ (\E x \in outbox.left : CheckEntry(x)) \/ FanOut \/ EndOutbox
    \/ ReadOverdue \/ (\E x \in sla.left : Remind(x)) \/ NotifyOverdue \/ EndSla
    \/ Crash \/ Tick

Spec == Init /\ [][Next]_vars

-----------------------------------------------------------------------------
TypeOK ==
    /\ now \in 0..MaxNow /\ upsets \in 0..MaxUpsets
    /\ \A v \in Vouchers :
          /\ desk[v].level \in 0..Levels /\ desk[v].due \in [Level -> Nat \cup {None}]
          /\ heard[v].n \in 0..entry[v].n
    /\ \A t \in todo : t.v \in Vouchers /\ t.n <= entry[t.v].n /\ t.to \subseteq Users
    /\ told \subseteq Users \X Vouchers \X Level
    /\ warned \subseteq alerts
    /\ ran \subseteq {"outbox", "sla"}

(* A transition that is the last entry of its voucher and has no event is   *)
(* alerted once its grace is over, one tick later for each call that failed *)
(* or process that died. (A later entry of the voucher hides it: the scan   *)
(* looks at the last one only.)                                             *)
LostEventAlerted ==
    \A v \in Vouchers :
        LET e == entry[v]
            age == now - e.at
        IN  e.moved /\ heard[v].n < e.n /\ age > Grace + upsets /\ age <= Window
                => <<"gap", v, e.n>> \in alerts

Overdue(v) == desk[v].status = "pending" /\ now \div DayLen > (desk[v].due[desk[v].level] \div DayLen) + 1 + upsets

(* The user of the last level of a voucher whose notification was lost is   *)
(* told in the end, by the reminder of the first whole day on which the     *)
(* task was not cut short: the reminder that was stored and not delivered   *)
(* does not stand in the way of the next day's.                             *)
LostNoticeReminded ==
    \A v \in Vouchers :
        LET user == desk[v].who[Levels]
        IN  Overdue(v) /\ desk[v].level = Levels /\ user # None /\ (\A l \in Level : desk[v].due[l] # None)
                => <<user, v, Levels>> \in told

(* Whatever the process loses on the way, somebody learns of it in time.    *)
LossNoticed == LostEventAlerted /\ LostNoticeReminded

(* An overdue voucher is reminded of, at whatever level it is.              *)
OverdueReminded ==
    \A v \in Vouchers : Overdue(v) /\ desk[v].who[desk[v].level] # None =>
        \E key \in alerts : key[1] = "sla" /\ key[2] = v
=============================================================================
