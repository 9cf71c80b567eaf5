----------------------------- MODULE DevicePush -----------------------------
(***************************************************************************)
(* How the approval notifications of one user reach the devices            *)
(* (push/index.ts, queries/push-pending.ts, routes/dashboard.ts and        *)
(* push-notifications.ts of the web client). A device is registered with    *)
(* the push service, and the server sends to it; or the open page asks      *)
(* every 30 s for what came since it was last answered. Both take a        *)
(* notification by setting push_seen_at, if nobody else has, and send it    *)
(* afterwards. The loop of the server and the task "push" of the scheduler  *)
(* may send at the same time.                                              *)
(***************************************************************************)
EXTENDS Integers, FiniteSets

CONSTANTS
    Notes, Devices, Senders, None,
    Batch,          \* BATCH: notifications of one round
    PollLimit,      \* PUSH_PENDING_LIMIT
    MaxFails,       \* MAX_FAILS
    MaxFaults, MaxChanges   \* bounds: failures and deaths; registrations

PushAssumption ==
    /\ Batch \in Nat \ {0} /\ PollLimit \in Nat \ {0} /\ MaxFails \in Nat \ {0}
    /\ MaxFaults \in Nat /\ MaxChanges \in Nat /\ None \notin Notes \cup Devices

VARIABLES
    clock,      \* the time: one more with each notification created
    note,       \* of each notification: created_at, is it stored, push_seen_at
    sub,        \* of each device: is it registered, how often it failed, its row
    mode,       \* what the page of the device does: "push" or "local"
    ack,        \* of each device, the cursor of its last answer
    round,      \* what each sender is doing
    poll,       \* the question each device waits for
    shown,      \* how often each notification was shown on each device
    faults, changes

vars == <<clock, note, sub, mode, ack, round, poll, shown, faults, changes>>

Rest == [at |-> "idle", left |-> {}, note |-> None, subs |-> {}, to |-> None, outcome |-> None]
Silent == [on |-> FALSE, left |-> {}, got |-> {}, cutoff |-> 0]

Init ==
    /\ clock = 0
    /\ note = [n \in Notes |-> [at |-> 0, stored |-> FALSE, seen |-> FALSE]]
    /\ sub = [d \in Devices |-> [there |-> FALSE, fails |-> 0, id |-> 0]]
    /\ mode = [d \in Devices |-> "local"]
    /\ ack = [d \in Devices |-> 0]
    /\ round = [s \in Senders |-> Rest]
    /\ poll = [d \in Devices |-> Silent]
    /\ shown = [n \in Notes |-> [d \in Devices |-> 0]]
    /\ faults = 0 /\ changes = 0

Fault == faults < MaxFaults /\ faults' = faults + 1
Show(d, S) == shown' = [n \in Notes |-> IF n \in S THEN [shown[n] EXCEPT ![d] = @ + 1] ELSE shown[n]]

-----------------------------------------------------------------------------
(* A notification has the time at which the request made it, and is stored  *)
(* a moment later.                                                          *)
Create(n) ==
    /\ note[n].at = 0
    /\ clock' = clock + 1
    /\ note' = [note EXCEPT ![n].at = clock + 1]
    /\ UNCHANGED <<sub, mode, ack, round, poll, shown, faults, changes>>

Store(n) ==
    /\ note[n].at > 0 /\ ~note[n].stored
    /\ note' = [note EXCEPT ![n].stored = TRUE]
    /\ UNCHANGED <<clock, sub, mode, ack, round, poll, shown, faults, changes>>

(* The oldest that are stored, taken by nobody, and created after since.    *)
Oldest(S, k) == {n \in S : Cardinality({m \in S : note[m].at < note[n].at}) < k}
Pending(since) == {n \in Notes : note[n].stored /\ ~note[n].seen /\ note[n].at > since}

Stored(n) == note[n].stored
Unseen(n) == ~note[n].seen
TakeIt(n) == note' = [note EXCEPT ![n].seen = TRUE]

-----------------------------------------------------------------------------
(* deliverPendingPushes                                                     *)
Do(s, r) == round' = [round EXCEPT ![s] = r]

StartRound(s) ==
    /\ round[s].at = "idle" /\ Pending(0) # {}
    /\ Do(s, [Rest EXCEPT !.at = "claim", !.left = Oldest(Pending(0), Batch)])
    /\ UNCHANGED <<clock, note, sub, mode, ack, poll, shown, faults, changes>>

Claim(s) ==
    /\ round[s].at = "claim"
    /\ IF round[s].left = {} THEN Do(s, Rest) /\ UNCHANGED note
       ELSE \E n \in Oldest(round[s].left, 1) :
              LET rest == [round[s] EXCEPT !.left = @ \ {n}]
              IN  IF Unseen(n) THEN TakeIt(n) /\ Do(s, [rest EXCEPT !.at = "devices", !.note = n])
                  ELSE Do(s, rest) /\ UNCHANGED note
    /\ UNCHANGED <<clock, sub, mode, ack, poll, shown, faults, changes>>

ReadDevices(s) ==
    /\ round[s].at = "devices"
    /\ Do(s, [round[s] EXCEPT !.at = "send",
                              !.subs = {[d |-> d, fails |-> sub[d].fails, id |-> sub[d].id] : d \in {x \in Devices : sub[x].there}}])
    /\ UNCHANGED <<clock, note, sub, mode, ack, poll, shown, faults, changes>>

(* sendToSubscription: shown, or the device is gone, or an error            *)
Send(s) ==
    /\ round[s].at = "send"
    /\ IF round[s].subs = {} THEN Do(s, [round[s] EXCEPT !.at = "claim", !.note = None]) /\ UNCHANGED <<shown, faults>>
       ELSE \E x \in round[s].subs, outcome \in {"ok", "gone", "error"} :
              /\ Do(s, [round[s] EXCEPT !.at = "record", !.subs = @ \ {x}, !.to = x, !.outcome = outcome])
              /\ IF outcome = "ok" THEN Show(x.d, {round[s].note}) /\ UNCHANGED faults
                 ELSE Fault /\ UNCHANGED shown
    /\ UNCHANGED <<clock, note, sub, mode, ack, poll, changes>>

(* recordOutcome, from the count that was read with the devices; a device   *)
(* that has registered anew meanwhile is another row.                       *)
RecordOutcome(s) ==
    /\ round[s].at = "record"
    /\ LET d == round[s].to.d
           fails == CASE round[s].outcome = "ok" -> 0
                      [] round[s].outcome = "gone" -> MaxFails
                      [] OTHER -> round[s].to.fails + 1
       IN  sub' = IF ~sub[d].there \/ sub[d].id # round[s].to.id THEN sub
                  ELSE IF fails >= MaxFails THEN [sub EXCEPT ![d].there = FALSE, ![d].fails = 0]
                  ELSE [sub EXCEPT ![d].fails = fails]
    /\ Do(s, [round[s] EXCEPT !.at = "send", !.to = None, !.outcome = None])
    /\ UNCHANGED <<clock, note, mode, ack, poll, shown, faults, changes>>

SenderDies(s) ==
    /\ round[s].at # "idle" /\ Fault /\ Do(s, Rest)
    /\ UNCHANGED <<clock, note, sub, mode, ack, poll, shown, changes>>

-----------------------------------------------------------------------------
(* The page: registers its device (subscribeCurrentDevice) and then leaves  *)
(* the rest to the server, or asks for itself. An answer that comes after   *)
(* it was registered is dropped.                                            *)
Register(d) ==
    /\ mode[d] = "local"
    /\ changes < MaxChanges /\ changes' = changes + 1
    /\ sub' = [sub EXCEPT ![d] = [there |-> TRUE, fails |-> 0, id |-> @.id + 1]]
    /\ mode' = [mode EXCEPT ![d] = "push"]
    /\ UNCHANGED <<clock, note, ack, round, poll, shown, faults>>

Unregister(d) ==
    /\ mode[d] = "push"
    /\ changes < MaxChanges /\ changes' = changes + 1
    /\ sub' = [sub EXCEPT ![d].there = FALSE, ![d].fails = 0]
    /\ mode' = [mode EXCEPT ![d] = "local"]
    /\ UNCHANGED <<clock, note, ack, round, poll, shown, faults>>

Ask(d) ==
    /\ mode[d] = "local" /\ ~poll[d].on
    /\ poll' = [poll EXCEPT ![d] = [on |-> TRUE, left |-> Oldest(Pending(ack[d]), PollLimit), got |-> {}, cutoff |-> clock]]
    /\ UNCHANGED <<clock, note, sub, mode, ack, round, shown, faults, changes>>

(* collectPushPending takes one after the other                             *)
Collect(d) ==
    /\ poll[d].on
    /\ \E n \in Oldest(poll[d].left, 1) :
          /\ poll' = [poll EXCEPT ![d].left = @ \ {n}, ![d].got = IF Unseen(n) THEN @ \cup {n} ELSE @]
          /\ IF Unseen(n) THEN TakeIt(n) ELSE UNCHANGED note
    /\ UNCHANGED <<clock, sub, mode, ack, round, shown, faults, changes>>

(* The answer: its cursor becomes the mark of the device. If it is lost the *)
(* page asks again from its old mark.                                       *)
Answer(d) ==
    /\ poll[d].on /\ poll[d].left = {}
    /\ poll' = [poll EXCEPT ![d] = Silent]
    /\ \/ /\ mode[d] = "local"
          /\ ack' = [ack EXCEPT ![d] = poll[d].cutoff] /\ Show(d, poll[d].got) /\ UNCHANGED faults
       \/ mode[d] = "push" /\ UNCHANGED <<ack, shown, faults>>
       \/ mode[d] = "local" /\ Fault /\ UNCHANGED <<ack, shown>>
    /\ UNCHANGED <<clock, note, sub, mode, round, changes>>

Next ==
    \/ \E n \in Notes : Create(n) \/ Store(n)
    \/ \E s \in Senders :
          StartRound(s) \/ Claim(s) \/ ReadDevices(s) \/ Send(s) \/ RecordOutcome(s) \/ SenderDies(s)
    \/ \E d \in Devices : Register(d) \/ Unregister(d) \/ Ask(d) \/ Collect(d) \/ Answer(d)

Spec == Init /\ [][Next]_vars

-----------------------------------------------------------------------------
TypeOK ==
    /\ clock \in 0..Cardinality(Notes)
    /\ \A n \in Notes : note[n].at \in 0..clock
    /\ \A d \in Devices : sub[d].fails \in 0..(MaxFails - 1) /\ ack[d] \in 0..clock
    /\ \A s \in Senders : round[s].left \subseteq Notes
    /\ \A d \in Devices : poll[d].left \cup poll[d].got \subseteq Notes

(* No device shows a notification twice, although two senders and the pages *)
(* of other devices look for the same ones, and although a device goes from *)
(* one way to the other while they do.                                      *)
ShownOnce == \A n \in Notes, d \in Devices : shown[n][d] <= 1

=============================================================================
