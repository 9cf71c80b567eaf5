----------------------------- MODULE CashLedger -----------------------------
(***************************************************************************)
(* Payment and the cash ledger (workflow/index.ts from the pay action on,  *)
(* ledger/index.ts, side-effects.ts, vouchers/{account-borrow-run,         *)
(* reversal}.ts, rebuild/balances.ts, the reconcile and maintenance jobs). *)
(*                                                                         *)
(* There is no transaction: a payment is a compare-and-set on the voucher, *)
(* then one insert per ledger entry, then the daily balances of each       *)
(* account, read once and written row by row. Requests and jobs run at the *)
(* same time and move one database call at a time; any of them may fail or *)
(* die. A voucher is here from its approval on: its version only changes   *)
(* together with its status, so the status stands for both.                *)
(*                                                                         *)
(* A spend voucher may borrow from a second account: two vouchers made on  *)
(* the spot, "lend" out of the second account and "receipt" into the       *)
(* first, are paid before the voucher itself ("main").                     *)
(***************************************************************************)
EXTENDS Integers, FiniteSets, FiniteSetsExt

CONSTANTS
    Accounts, NoAccount,
    Docs,           \* the vouchers people made
    Kind, Source, Dest, Amount,         \* of each of them
    Lender,         \* Lender[d]: the account d borrows all of it from, or NoAccount
    Opening,        \* Opening[a]: what a holds of earlier days
    Days, Today, PayDays,               \* paid_at is any day of PayDays
    Actuals,        \* the amounts a payer may enter
    NoRow,          \* a day without a row in balances_daily
    Deletable, Cancellable,             \* vouchers somebody deletes, cancels
    Handlers, Jobs, \* requests; {"reconcile", "maintenance"} or fewer
    MaxCopies, MaxRequests, MaxErrors, MaxCrashes       \* bounds

Vouchers == (Docs \X {"main"} \X {1}) \cup (Docs \X {"lend", "receipt"} \X (1..MaxCopies))
Main(d) == <<d, "main", 1>>
NoVoucher == <<>>

ASSUME LedgerAssumption ==
    /\ NoAccount \notin Accounts
    /\ Kind \in [Docs -> {"spend", "income", "internal"}]
    /\ Source \in [Docs -> Accounts]
    /\ Dest \in [Docs -> Accounts \cup {NoAccount}]
    /\ \A d \in Docs : Kind[d] = "internal" => Dest[d] # NoAccount
    /\ Lender \in [Docs -> Accounts \cup {NoAccount}]
    /\ \A d \in Docs : Lender[d] # NoAccount => Kind[d] = "spend" /\ Lender[d] # Source[d]
    /\ Amount \in [Docs -> Nat \ {0}] /\ Opening \in [Accounts -> Nat]
    /\ Days \subseteq Nat /\ Today \in Days /\ PayDays \subseteq Days
    /\ NoRow \notin Int
    /\ Actuals \subseteq Nat \ {0}
    /\ Deletable \subseteq Vouchers /\ Cancellable \subseteq Vouchers
    /\ Jobs \subseteq {"reconcile", "maintenance"}
    /\ Handlers \cap Jobs = {}
    /\ MaxCopies \in Nat /\ MaxRequests \in Nat /\ MaxErrors \in Nat /\ MaxCrashes \in Nat

Procs == Handlers \cup Jobs

VARIABLES
    doc,        \* vouchers: status, amount, and what was paid on which day
    ledger,     \* cash_entries
    view,       \* balances_daily: view[a][day], NoRow where there is none
    queued,     \* vouchers with a reconcile job waiting
    lost,       \* history: vouchers whose posting died without a job
    purged,     \* history: vouchers whose entries a purge took out
    pc, work,   \* what each request or job is doing, and its variables
    requests, errors, crashes   \* bounded by the constants

vars == <<doc, ledger, view, queued, lost, purged, pc, work, requests, errors, crashes>>
bounds == <<requests, errors, crashes>>

-----------------------------------------------------------------------------
KindOf(v) == CASE v[2] = "main" -> Kind[v[1]] [] v[2] = "lend" -> "spend" [] OTHER -> "income"
SourceOf(v) == IF v[2] = "lend" THEN Lender[v[1]] ELSE Source[v[1]]

(* entriesForPayment, entriesForExecutedDocument: money in or out of the    *)
(* account of the voucher, and its mirror image at the other end of an      *)
(* internal transfer. Amounts are signed here, direction is their sign.     *)
EntriesOf(v, amount, day) ==
    LET Entry(side, account, signed) ==
            [voucher |-> v, side |-> side, reverses |-> FALSE, account |-> account,
             amount |-> signed, day |-> day, copy |-> 1]
    IN  {Entry("actual", SourceOf(v), IF KindOf(v) = "income" THEN amount ELSE -amount)}
          \cup IF KindOf(v) = "internal" THEN {Entry("mirror", Dest[v[1]], amount)} ELSE {}

(* The dedupe_key of an entry.                                              *)
Key(e) == <<e.voucher, e.side, e.reverses>>
Keys(L) == {Key(e) : e \in L}

(* reversalEntriesFor                                                       *)
ReversalsOf(L, v) ==
    {[e EXCEPT !.reverses = TRUE, !.amount = -@, !.day = Today] :
        e \in {x \in L : x.voucher = v /\ ~x.reverses}}

AccountsOf(L) == {e.account : e \in L}

Total(L) == MapThenSumSet(LAMBDA e : e.amount, L)

(* bookedBalance up to today                                                *)
Booked(a) == Opening[a] + Total({e \in ledger : e.account = a /\ e.day <= Today})

(* recomputeAccountBalances: a row for each day with entries.               *)
EntryDays(a) == {e.day : e \in {x \in ledger : x.account = a}}
ClosingOn(a, day) == Opening[a] + Total({e \in ledger : e.account = a /\ e.day <= day})
RowsOfMovements(a) == [day \in EntryDays(a) |-> ClosingOn(a, day) - Opening[a]]
RowsOf(a) == [day \in EntryDays(a) |-> ClosingOn(a, day)]

(* postCashEntries: an upsert by dedupe_key.                                *)
InsertBlind(e) ==
    ledger' = ledger \cup
        {[e EXCEPT !.copy = 1 + Cardinality({x \in ledger : Key(x) = Key(e)})]}

Insert(e) == ledger' = IF Key(e) \in Keys(ledger) THEN ledger ELSE ledger \cup {e}

-----------------------------------------------------------------------------
NoWork == [task |-> "none", root |-> NoVoucher, stage |-> "main", lend |-> NoVoucher,
           receipt |-> NoVoucher, actual |-> 0, day |-> 0, todo |-> {}, accounts |-> {},
           account |-> NoAccount, rows |-> <<>>, asked |-> {}]

Init ==
    /\ doc = [v \in Vouchers |->
                [status |-> IF v[2] = "main" THEN "approved" ELSE "none",
                 amount |-> IF v[2] = "main" THEN Amount[v[1]] ELSE 0, paid |-> 0, day |-> 0]]
    /\ ledger = {}
    /\ view = [a \in Accounts |-> [day \in Days |-> NoRow]]
    /\ queued = {} /\ lost = {} /\ purged = {}
    /\ pc = [h \in Procs |-> "idle"]
    /\ work = [h \in Procs |-> NoWork]
    /\ requests = 0 /\ errors = 0 /\ crashes = 0

Cur(h) == IF work[h].stage = "main" THEN Main(work[h].root) ELSE work[h][work[h].stage]
ToPay(h) == IF work[h].stage = "main" THEN work[h].actual ELSE doc[Cur(h)].amount
Paying(h) == work[h].task = "pay"

Goto(h, label) == pc' = [pc EXCEPT ![h] = label]
End(h) == Goto(h, "idle") /\ work' = [work EXCEPT ![h] = NoWork]

(* Only spend vouchers are checked against the balance.                     *)
PayLabel(v) == IF KindOf(v) = "spend" THEN "check" ELSE "commit"

(* findBorrowVoucher: those neither cancelled nor gone.                     *)
Live(d, part) == {v \in Vouchers : v[1] = d /\ v[2] = part /\ doc[v].status \in {"approved", "paid"}}

(* POST /documents/:id/transition, action pay: the handler loads the        *)
(* voucher.                                                                 *)
StartPay(h) ==
    /\ pc[h] = "idle"
    /\ requests < MaxRequests
    /\ \E d \in Docs, actual \in Actuals, day \in PayDays :
          /\ doc[Main(d)].status = "approved"
          /\ actual <= doc[Main(d)].amount
          /\ LET borrows == Lender[d] # NoAccount
             IN  /\ work' = [work EXCEPT ![h] = [NoWork EXCEPT
                        !.task = "pay", !.root = d, !.actual = actual, !.day = day,
                        !.stage = IF borrows THEN "lend" ELSE "main"]]
                 /\ Goto(h, IF borrows THEN "precheck" ELSE PayLabel(Main(d)))
    /\ requests' = requests + 1
    /\ UNCHANGED <<doc, ledger, view, queued, lost, purged, errors, crashes>>

(* Before anything moves: the lender has the money, and with it the account *)
(* that pays; what was moved by an earlier attempt is not counted again.    *)
Precheck(h) ==
    /\ pc[h] = "precheck"
    /\ LET d == work[h].root
           Pending(v) == IF v # NoVoucher /\ doc[v].status = "paid" THEN 0 ELSE work[h].actual
           Find(part) == IF Live(d, part) = {} THEN {NoVoucher} ELSE Live(d, part)
       IN  \E lent \in Find("lend"), received \in Find("receipt") :
             IF /\ Pending(lent) <= Booked(Lender[d])
                /\ work[h].actual <= Booked(Source[d]) + Pending(received)
               THEN Goto(h, "find") /\ UNCHANGED work
               ELSE End(h)
    /\ UNCHANGED <<doc, ledger, view, queued, lost, purged, bounds>>

(* runAccountBorrowBeforePay: find or create the two vouchers, in order.    *)
Have(h, v) ==
    IF work[h].stage = "lend"
      THEN work' = [work EXCEPT ![h].lend = v, ![h].stage = "receipt"] /\ Goto(h, "find")
      ELSE work' = [work EXCEPT ![h].receipt = v, ![h].stage = "lend"] /\ Goto(h, "execute")

FindBorrowVoucher(h) ==
    /\ pc[h] = "find"
    /\ LET found == Live(work[h].root, work[h].stage)
       IN  IF found = {} THEN Goto(h, "create") /\ UNCHANGED work
                         ELSE \E v \in found : Have(h, v)
    /\ UNCHANGED <<doc, ledger, view, queued, lost, purged, bounds>>

CreateAutoVoucher(h) ==
    /\ pc[h] = "create"
    /\ \E i \in 1..MaxCopies :
          LET v == <<work[h].root, work[h].stage, i>>
          IN  /\ doc[v].status = "none"
              /\ \A j \in 1..(i - 1) : doc[<<v[1], v[2], j>>].status # "none"
              /\ doc' = [doc EXCEPT ![v] = [@ EXCEPT !.status = "approved", !.amount = work[h].actual]]
              /\ Have(h, v)
    /\ UNCHANGED <<ledger, view, queued, lost, purged, bounds>>

(* What follows a voucher that is paid: lend, receipt, then the voucher     *)
(* itself.                                                                  *)
NextStageSkips(h) ==
    CASE work[h].stage = "lend" ->
            work' = [work EXCEPT ![h].stage = "main"] /\ Goto(h, "check")
      [] work[h].stage = "receipt" ->
            work' = [work EXCEPT ![h].stage = "main"] /\ Goto(h, "check")
      [] OTHER -> End(h)

NextStage(h) ==
    CASE work[h].stage = "lend" ->
            work' = [work EXCEPT ![h].stage = "receipt"] /\ Goto(h, "execute")
      [] work[h].stage = "receipt" ->
            work' = [work EXCEPT ![h].stage = "main"] /\ Goto(h, "check")
      [] OTHER -> End(h)

ExecuteAutoVoucher(h) ==
    /\ pc[h] = "execute"
    /\ CASE doc[Cur(h)].status = "paid" -> NextStage(h)
         [] doc[Cur(h)].status = "approved" -> Goto(h, PayLabel(Cur(h))) /\ UNCHANGED work
         [] OTHER -> End(h)
    /\ UNCHANGED <<doc, ledger, view, queued, lost, purged, bounds>>

CheckBalance(h) ==
    /\ pc[h] = "check"
    /\ IF ToPay(h) <= Booked(SourceOf(Cur(h))) THEN Goto(h, "commit") /\ UNCHANGED work ELSE End(h)
    /\ UNCHANGED <<doc, ledger, view, queued, lost, purged, bounds>>

(* The compare-and-set; then the entries to post are known.                 *)
Commit(h) ==
    /\ pc[h] = "commit"
    /\ IF doc[Cur(h)].status = "approved"
         THEN LET entries == EntriesOf(Cur(h), ToPay(h), work[h].day)
              IN  /\ doc' = [doc EXCEPT ![Cur(h)] = [@ EXCEPT
                        !.status = "paid", !.paid = ToPay(h), !.day = work[h].day]]
                  /\ work' = [work EXCEPT ![h].todo = entries, ![h].accounts = AccountsOf(entries)]
                  /\ Goto(h, "post")
         ELSE End(h) /\ UNCHANGED doc
    /\ UNCHANGED <<ledger, view, queued, lost, purged, bounds>>

-----------------------------------------------------------------------------
(* Posting and the daily balances, shared by payments, reversals and jobs.  *)

(* The entries of a voucher are posted in their order: the mirror last.     *)
ForemostAny(todo) == todo

Foremost(todo) ==
    {e \in todo : e.side = "mirror" =>
        ~\E x \in todo : x.voucher = e.voucher /\ x.side = "actual"}

Post(h) ==
    /\ pc[h] = "post"
    /\ IF work[h].todo = {}
         THEN Goto(h, IF work[h].task = "job" THEN "clear" ELSE "view") /\ UNCHANGED <<ledger, work>>
         ELSE \E e \in Foremost(work[h].todo) :
                 /\ Insert(e)
                 /\ work' = [work EXCEPT ![h].todo = @ \ {e}]
                 /\ UNCHANGED pc
    /\ UNCHANGED <<doc, view, queued, lost, purged, bounds>>

(* recomputeAccountBalances: per account, one read and one write per day.   *)
ReadBalances(h) ==
    /\ pc[h] = "view"
    /\ \E a \in work[h].accounts :
          /\ work' = [work EXCEPT ![h].accounts = @ \ {a}, ![h].account = a, ![h].rows = RowsOf(a)]
          /\ Goto(h, "write")
    /\ UNCHANGED <<doc, ledger, view, queued, lost, purged, bounds>>

WriteBalance(h) ==
    /\ pc[h] = "write"
    /\ LET rows == work[h].rows
           a == work[h].account
       IN  IF DOMAIN rows = {}
             THEN Goto(h, "view") /\ UNCHANGED <<view, work>>
             ELSE LET day == Min(DOMAIN rows)
                  IN  /\ view' = [view EXCEPT ![a][day] = rows[day]]
                      /\ work' = [work EXCEPT ![h].rows =
                                    [x \in DOMAIN rows \ {day} |-> rows[x]]]
                      /\ UNCHANGED pc
    /\ UNCHANGED <<doc, ledger, queued, lost, purged, bounds>>

BalancesDone(h) ==
    /\ pc[h] = "view"
    /\ work[h].accounts = {}
    /\ CASE Paying(h) -> NextStage(h)
         [] work[h].task = "delete" -> Goto(h, "remove") /\ UNCHANGED work
         [] work[h].task = "job" -> Goto(h, "finish") /\ UNCHANGED work
         [] OTHER -> End(h)
    /\ UNCHANGED <<doc, ledger, view, queued, lost, purged, bounds>>

(* syncBalancesForDocument catches an error and leaves a reconcile job.     *)
QueueReconcile(h) ==
    /\ pc[h] = "report"
    /\ queued' = queued \cup {Cur(h)}
    /\ NextStage(h)
    /\ UNCHANGED <<doc, ledger, view, lost, purged, bounds>>

-----------------------------------------------------------------------------
(* POST /documents/:id/delete: reverse the entries, then delete.            *)
StartDelete(h) ==
    /\ pc[h] = "idle"
    /\ requests < MaxRequests
    /\ \E v \in Deletable :
          /\ doc[v].status \notin {"none", "deleted"}
          /\ work' = [work EXCEPT ![h] = [NoWork EXCEPT !.task = "delete", !.root = v]]
    /\ Goto(h, "reverse")
    /\ requests' = requests + 1
    /\ UNCHANGED <<doc, ledger, view, queued, lost, purged, errors, crashes>>

ReadOriginals(h) ==
    /\ pc[h] = "reverse"
    /\ LET reversals == ReversalsOf(ledger, work[h].root)
       IN  /\ work' = [work EXCEPT ![h].todo = reversals, ![h].accounts = AccountsOf(reversals)]
           /\ Goto(h, IF reversals = {} THEN "remove" ELSE "post")
    /\ UNCHANGED <<doc, ledger, view, queued, lost, purged, bounds>>

RemoveDocument(h) ==
    /\ pc[h] = "remove"
    /\ doc' = [doc EXCEPT ![work[h].root].status = "deleted"]
    /\ End(h)
    /\ UNCHANGED <<ledger, view, queued, lost, purged, bounds>>

(* The creator cancels an approved voucher (a compare-and-set of its own).  *)
Cancel(v) ==
    /\ doc[v].status = "approved"
    /\ doc' = [doc EXCEPT ![v].status = "cancelled"]
    /\ UNCHANGED <<ledger, view, queued, lost, pc, work, purged, bounds>>

-----------------------------------------------------------------------------
(* The reconcile job rebuilds when a payment left a job for it, the weekly  *)
(* maintenance always: entries of all paid vouchers, then all balances from *)
(* an empty table.                                                          *)
StartJob(j) ==
    /\ pc[j] = "idle"
    /\ j = "reconcile" => queued # {}
    /\ work' = [work EXCEPT ![j] = [NoWork EXCEPT !.task = "job", !.asked = queued]]
    /\ Goto(j, "rebuild")
    /\ UNCHANGED <<doc, ledger, view, queued, lost, purged, bounds>>

RebuildLedgerQueued(j) ==
    /\ pc[j] = "rebuild"
    /\ work' = [work EXCEPT ![j].todo =
            UNION {EntriesOf(v, doc[v].paid, doc[v].day) : v \in work[j].asked}]
    /\ Goto(j, "post")
    /\ UNCHANGED <<doc, ledger, view, queued, lost, purged, bounds>>

RebuildLedgerMains(j) ==
    /\ pc[j] = "rebuild"
    /\ work' = [work EXCEPT ![j].todo =
            UNION {EntriesOf(v, doc[v].paid, doc[v].day) :
                     v \in {u \in Vouchers : doc[u].status = "paid" /\ u[2] = "main"}}]
    /\ Goto(j, "post")
    /\ UNCHANGED <<doc, ledger, view, queued, lost, purged, bounds>>

RebuildLedger(j) ==
    /\ pc[j] = "rebuild"
    /\ work' = [work EXCEPT ![j].todo =
            UNION {EntriesOf(v, doc[v].paid, doc[v].day) :
                     v \in {u \in Vouchers : doc[u].status = "paid"}}]
    /\ Goto(j, "post")
    /\ UNCHANGED <<doc, ledger, view, queued, lost, purged, bounds>>

ClearBalances(j) ==
    /\ pc[j] = "clear"
    /\ view' = [a \in Accounts |-> [day \in Days |-> NoRow]]
    /\ work' = [work EXCEPT ![j].accounts = Accounts]
    /\ Goto(j, "view")
    /\ UNCHANGED <<doc, ledger, queued, lost, purged, bounds>>

FinishReconcile(j) ==
    /\ pc[j] = "finish" /\ j = "reconcile"
    /\ queued' = queued \ work[j].asked
    /\ End(j)
    /\ UNCHANGED <<doc, ledger, view, lost, purged, bounds>>

(* purgeOrphanLedgerEntries, at the end of the maintenance: entries of      *)
(* deleted vouchers go, unless one of their entries was reversed.           *)
ReadOrphans(j) ==
    /\ pc[j] = "finish" /\ j = "maintenance"
    /\ work' = [work EXCEPT ![j].task = "purge", ![j].asked =
            {e.voucher : e \in ledger} \ {e.voucher : e \in {x \in ledger : x.reverses}}]
    /\ Goto(j, "purge")
    /\ UNCHANGED <<doc, ledger, view, queued, lost, purged, bounds>>

PurgeOrphans(j) ==
    /\ pc[j] = "purge"
    /\ LET orphans == {e \in ledger : e.voucher \in work[j].asked /\ doc[e.voucher].status = "deleted"}
           accounts == AccountsOf(orphans)
           left(a) == {e.day : e \in {x \in ledger \ orphans : x.account = a}}
       IN  /\ ledger' = ledger \ orphans
           /\ view' = [a \in Accounts |-> [day \in Days |->
                 IF a \in accounts /\ day \notin left(a) THEN NoRow ELSE view[a][day]]]
           /\ work' = [work EXCEPT ![j].accounts = accounts]
           /\ purged' = purged \cup {e.voucher : e \in orphans}
    /\ Goto(j, "view")
    /\ UNCHANGED <<doc, queued, lost, bounds>>

-----------------------------------------------------------------------------
(* A database call fails: a payment that is already committed is caught and *)
(* reported, everything else ends. A process dies: its work is gone.        *)
Committed(h) == Paying(h) /\ pc[h] \in {"post", "view", "write"}
Unposted(h) ==
    IF Paying(h) /\ pc[h] \in {"post", "report"} THEN {Cur(h)} ELSE {}

DbError(h) ==
    /\ errors < MaxErrors
    /\ pc[h] # "idle"
    /\ errors' = errors + 1
    /\ IF Committed(h)
         THEN /\ work' = [work EXCEPT ![h].todo = {}, ![h].accounts = {}, ![h].rows = <<>>]
              /\ Goto(h, "report")
              /\ UNCHANGED lost
         ELSE End(h) /\ lost' = lost \cup Unposted(h)
    /\ UNCHANGED <<doc, ledger, view, queued, purged, requests, crashes>>

Crash(h) ==
    /\ crashes < MaxCrashes
    /\ pc[h] # "idle"
    /\ crashes' = crashes + 1
    /\ lost' = lost \cup Unposted(h)
    /\ End(h)
    /\ UNCHANGED <<doc, ledger, view, queued, purged, requests, errors>>

PayStep(h) ==
    \/ Precheck(h) \/ FindBorrowVoucher(h) \/ CreateAutoVoucher(h) \/ ExecuteAutoVoucher(h)
    \/ CheckBalance(h) \/ Commit(h) \/ QueueReconcile(h)

BooksStep(h) == Post(h) \/ ReadBalances(h) \/ WriteBalance(h) \/ BalancesDone(h)

DeleteStep(h) == ReadOriginals(h) \/ RemoveDocument(h)

JobStep(j) ==
    \/ StartJob(j) \/ RebuildLedger(j) \/ ClearBalances(j) \/ FinishReconcile(j)
    \/ ReadOrphans(j) \/ PurgeOrphans(j)

Next ==
    \/ \E h \in Handlers : StartPay(h) \/ StartDelete(h) \/ PayStep(h) \/ DeleteStep(h)
    \/ \E j \in Jobs : JobStep(j)
    \/ \E h \in Procs : BooksStep(h) \/ DbError(h) \/ Crash(h)
    \/ \E v \in Cancellable : Cancel(v)

Spec == Init /\ [][Next]_vars

(* A request that was started goes on, and the jobs run again and again.    *)
Fairness ==
    /\ \A h \in Handlers : WF_vars(PayStep(h) \/ DeleteStep(h) \/ BooksStep(h))
    /\ \A j \in Jobs : WF_vars(JobStep(j) \/ BooksStep(j))

FairSpec == Spec /\ Fairness

-----------------------------------------------------------------------------
(* Properties.                                                              *)

Statuses == {"none", "approved", "paid", "cancelled", "deleted"}
Labels == {"idle", "precheck", "find", "create", "execute", "check", "commit", "post", "view",
           "write", "report", "reverse", "remove", "rebuild", "clear", "finish", "purge"}
Entries == [voucher : Vouchers, side : {"actual", "mirror"}, reverses : BOOLEAN,
            account : Accounts, amount : Int, day : Days, copy : Nat]

(* Types: vouchers, entries and balances stay in their ranges and requests  *)
(* and jobs at their labels.                                                *)
TypeOK ==
    /\ doc \in [Vouchers -> [status : Statuses, amount : Nat, paid : Nat, day : Days \cup {0}]]
    /\ ledger \subseteq Entries
    /\ view \in [Accounts -> [Days -> Int \cup {NoRow}]]
    /\ queued \subseteq Vouchers /\ lost \subseteq Vouchers
    /\ pc \in [Procs -> Labels]
    /\ requests \in 0..MaxRequests /\ errors \in 0..MaxErrors /\ crashes \in 0..MaxCrashes

(* An entry is in the ledger once, whoever posts it (the payment, a rebuild *)
(* that overtakes it, a deletion made twice), and it is what its voucher    *)
(* paid; only an entry that is there is reversed, by its opposite. Left out *)
(* are entries that a purge takes out after it looked and before a second   *)
(* deletion of the voucher posts their reversals.                           *)
PostedOnce ==
    /\ \A e, f \in ledger : Key(e) = Key(f) => e = f
    /\ \A e \in ledger :
          /\ doc[e.voucher].status \in {"paid", "deleted"}
          /\ IF e.reverses
               THEN e.voucher \in purged \/ \E x \in ledger : [e EXCEPT !.reverses = FALSE, !.amount = -@, !.day = x.day] = x
               ELSE e \in EntriesOf(e.voucher, doc[e.voucher].paid, doc[e.voucher].day)

IsBooked(v) == EntriesOf(v, doc[v].paid, doc[v].day) \subseteq ledger

(* Money that was paid is never forgotten: the entries of a paid voucher    *)
(* are in the ledger, or its payment is still to post them, or a reconcile  *)
(* job waits for it, unless its process died in between.                    *)
NothingForgotten ==
    \A v \in Vouchers : doc[v].status = "paid" =>
        \/ IsBooked(v) \/ v \in queued \/ v \in lost
        \/ \E h \in Handlers : Paying(h) /\ pc[h] \in {"post", "report"} /\ Cur(h) = v

(* Money never arrives before it left: as long as an internal transfer is   *)
(* not deleted, its receiving side is in the ledger only together with the  *)
(* paying side, whether the payment posts it or a rebuild.                  *)
MirrorHasSource ==
    \A e \in ledger : e.side = "mirror" /\ doc[e.voucher].status = "paid" =>
        \E x \in ledger : x.voucher = e.voucher /\ x.side = "actual" /\ x.reverses = e.reverses

Moved(d, part) == {v \in Vouchers : v[1] = d /\ v[2] = part /\ doc[v].paid > 0}

(* A voucher that borrows is paid only after the money came from the        *)
(* lender: first out of its account, then into the paying one, then out     *)
(* (docs/v2-implementation.md 29.1).                                        *)
BorrowBeforePay ==
    \A d \in Docs : Lender[d] # NoAccount =>
        /\ Moved(d, "main") # {} => Moved(d, "receipt") # {}
        /\ Moved(d, "receipt") # {} => Moved(d, "lend") # {}

(* Whatever failed on the way, a paid voucher is in the ledger in the end.  *)
LedgerCatchesUp ==
    \A v \in Vouchers :
        doc[v].status = "paid" ~> doc[v].status = "deleted" \/ IsBooked(v)

(* The daily balances agree with the ledger again and again, whatever       *)
(* recomputations overtook one another.                                     *)
Fresh(a) ==
    \A day \in Days : view[a][day] = IF day \in EntryDays(a) THEN ClosingOn(a, day) ELSE NoRow
ViewCatchesUp == []<>(\A a \in Accounts : Fresh(a))

(* The paying account receives no more than the lender gave (v2-            *)
(* implementation.md 29.3: the two vouchers are not made twice).            *)
LentCoversReceived ==
    \A d \in Docs :
        MapThenSumSet(LAMBDA v : doc[v].paid, Moved(d, "receipt"))
            <= MapThenSumSet(LAMBDA v : doc[v].paid, Moved(d, "lend"))
=============================================================================
