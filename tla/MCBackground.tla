---------------------------- MODULE MCBackground ----------------------------
(* What goes on behind the requests, for TLC: LoanAutomation, the rules on  *)
(* the loan of a voucher; VoucherNotices, the periodic tasks that make up   *)
(* for lost events and notifications; DevicePush, the way to the devices.   *)
(* They share no state, so a behaviour is a scene of one of them.           *)
EXTENDS LoanAutomation, TLC

CONSTANTS None, x1, x2, Scenes,
    MaxNow, MaxEntries, MaxUpsets, MaxFaults, MaxChanges

VARIABLES
    scene,
    now, tray, entry, heard, todo, alerts, told, warned, outbox, sla, ran, upsets,
    clock, note, sub, mode, ack, round, poll, shown, faults, changes

notices == <<now, tray, entry, heard, todo, alerts, told, warned, outbox, sla, ran, upsets>>
push == <<clock, note, sub, mode, ack, round, poll, shown, faults, changes>>

-----------------------------------------------------------------------------
(* Two levels; a tick is a day, the grace ends with it, the window has      *)
(* three.                                                                   *)
N == INSTANCE VoucherNotices WITH
        Vouchers <- {"v"}, Levels <- 2, Users <- {x1, x2}, desk <- tray,
        SlaTime <- 1, DayLen <- 1, Grace <- 1, Window <- 3

(* Two notifications for a user with one device that goes from one way to   *)
(* the other; one answer holds one of them.                                 *)
D == INSTANCE DevicePush WITH
        Notes <- {"n1", "n2"}, Devices <- {x1}, Senders <- {"server", "scheduler"},
        Batch <- 2, PollLimit <- 1, MaxFails <- 2

ASSUME BackgroundAssumption == N!NoticesAssumption /\ D!PushAssumption

-----------------------------------------------------------------------------
(* The voucher of the rules starts with the smaller amount, and the loan    *)
(* that may be chosen waits for a disbursement of the larger. Each level of *)
(* the voucher of the notices has its user, or only a role. What is not in  *)
(* the scene stands still at one of its initial states.                     *)
BackgroundInit ==
    /\ scene \in Scenes
    /\ Init /\ N!Init /\ D!Init
    /\ loan[Kept] = [status |-> "pending", amount |-> 2]
    /\ scene # "rules" => source.kind = "spend" /\ source.amount = 1
    /\ LET who == tray["v"].who
       IN  who[1] \in {None, x1} /\ who[2] \in {None, x2} /\ (scene # "notices" => who = [l \in 1..2 |-> None])

BackgroundNext ==
    \/ scene = "rules" /\ Next /\ UNCHANGED <<scene, notices, push>>
    \/ scene = "notices" /\ N!Next /\ UNCHANGED <<scene, vars, push>>
    \/ scene = "push" /\ D!Next /\ UNCHANGED <<scene, vars, notices>>

BackgroundSpec == BackgroundInit /\ [][BackgroundNext]_<<scene, vars, notices, push>>

Symmetry == Permutations(Loans)

-----------------------------------------------------------------------------
(* VoucherNotices: a lost event is alerted, a lost notification reminded of.*)
LossNoticed == N!LossNoticed
(* VoucherNotices: whatever is overdue is reminded of.                      *)
OverdueReminded == N!OverdueReminded
(* DevicePush: a device shows a notification once.                          *)
ShownOnce == D!ShownOnce
=============================================================================
