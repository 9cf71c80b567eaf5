-------------------------- MODULE CashLedgerProofs --------------------------
(***************************************************************************)
(* Proofs about CashLedger, for any processes, vouchers and accounts.      *)
(*                                                                         *)
(* The inductive invariant Inv is the conjunction of                       *)
(*   Flow        where a process is says what it does, for which vouchers; *)
(*   DocTrue     each voucher is at a place of its course;                 *)
(*   LedgerTrue  every entry, there or still to be posted, is what its     *)
(*               voucher paid or the opposite of an entry that is there    *)
(*               (PostedOnce);                                             *)
(*   Paired      a receiving side comes with its paying side               *)
(*               (MirrorHasSource);                                        *)
(*   Borrowed    a payment that has come to its next voucher has paid the  *)
(*               one before (BorrowBeforePay);                             *)
(*   Remembered  whoever has to post a voucher has all its missing         *)
(*               entries, and a job drops a voucher only when it is booked *)
(*               (NothingForgotten).                                       *)
(***************************************************************************)
EXTENDS CashLedger, TLAPS

FieldNames == {"task", "root", "stage", "lend", "receipt", "actual", "day", "todo", "accounts",
               "account", "rows", "asked"}

Shape ==
    /\ pc \in [Procs -> Labels]
    /\ DOMAIN work = Procs
    /\ \A h \in Procs : DOMAIN work[h] = FieldNames

Searching == {"precheck", "find", "create"}
PayOnly == Searching \cup {"execute", "check", "commit", "report"}
PartOf(v, d, part) == v \in Vouchers /\ v[1] = d /\ v[2] = part

Suits(label, task) ==
    /\ label \in PayOnly => task = "pay"
    /\ label \in {"reverse", "remove"} => task = "delete"
    /\ label \in {"rebuild", "clear", "finish"} => task = "job"
    /\ label = "purge" => task = "purge"

(* Where a process is says what it does, and for which vouchers.            *)
Control(h) ==
    /\ pc[h] = "idle" => work[h] = NoWork
    /\ Suits(pc[h], work[h].task)
    /\ work[h].stage \in {"main", "lend", "receipt"}
    /\ work[h].task = "delete" => work[h].root \in Vouchers
    /\ work[h].task \in {"job", "purge"} => h \in Jobs

Payment(h) ==
    work[h].task = "pay" =>
        /\ h \in Handlers /\ work[h].root \in Docs
        /\ work[h].actual \in Nat \ {0} /\ work[h].day \in Days
        /\ work[h].stage # "main" => Lender[work[h].root] # NoAccount
        /\ work[h].stage # "main" /\ pc[h] \notin Searching =>
              PartOf(work[h].lend, work[h].root, "lend") /\ PartOf(work[h].receipt, work[h].root, "receipt")
        /\ work[h].stage = "receipt" => PartOf(work[h].lend, work[h].root, "lend")
        /\ pc[h] \in Searching => work[h].stage # "main"
        /\ pc[h] = "precheck" => work[h].stage = "lend"

Flow == Shape /\ (\A h \in Procs : Control(h)) /\ \A h \in Procs : Payment(h)

DocTyped == doc \in [Vouchers -> [status : Statuses, amount : Nat, paid : Nat, day : Days \cup {0}]]

-----------------------------------------------------------------------------
(* A process leaves the others alone.                                       *)
LEMMA GotoOther ==
    ASSUME Shape, NEW h \in Procs, NEW l \in Labels, Goto(h, l)
    PROVE  pc' \in [Procs -> Labels] /\ pc'[h] = l /\ \A g \in Procs \ {h} : pc'[g] = pc[g]
BY DEF Shape, Goto

Others(h) == \A g \in Procs \ {h} : pc'[g] = pc[g] /\ work'[g] = work[g]

LEMMA NoWorkFields == DOMAIN NoWork = FieldNames
BY DEF NoWork, FieldNames

LEMMA EndEffect ==
    ASSUME Shape, NEW h \in Procs, End(h)
    PROVE  Shape' /\ Others(h) /\ pc'[h] = "idle" /\ work'[h] = NoWork
BY NoWorkFields DEF Shape, End, Goto, Labels, Others

LEMMA HaveEffect ==
    ASSUME Shape, NEW h \in Procs, NEW v, Have(h, v)
    PROVE  /\ Shape' /\ Others(h) /\ pc'[h] \in {"find", "execute"}
           /\ work'[h].task = work[h].task /\ work'[h].root = work[h].root
           /\ work'[h].actual = work[h].actual /\ work'[h].day = work[h].day
           /\ work'[h].todo = work[h].todo /\ work'[h].asked = work[h].asked
           /\ work'[h].accounts = work[h].accounts
           /\ IF work[h].stage = "lend"
                THEN /\ work'[h].lend = v /\ work'[h].receipt = work[h].receipt
                     /\ work'[h].stage = "receipt" /\ pc'[h] = "find"
                ELSE /\ work'[h].receipt = v /\ work'[h].lend = work[h].lend
                     /\ work'[h].stage = "lend" /\ pc'[h] = "execute"
<1> USE DEF Have, Goto, Others, Labels, Shape, FieldNames
<1>1. CASE work[h].stage = "lend"
  BY <1>1
<1>2. CASE work[h].stage # "lend"
  BY <1>2
<1> QED BY <1>1, <1>2

LEMMA NextStageEffect ==
    ASSUME Shape, NEW h \in Procs, NextStage(h)
    PROVE  /\ Shape' /\ Others(h)
           /\ \/ End(h) /\ work[h].stage \notin {"lend", "receipt"}
              \/ /\ work'[h].task = work[h].task /\ work'[h].root = work[h].root
                 /\ work'[h].actual = work[h].actual /\ work'[h].day = work[h].day
                 /\ work'[h].todo = work[h].todo /\ work'[h].asked = work[h].asked
                 /\ work'[h].lend = work[h].lend /\ work'[h].receipt = work[h].receipt
                 /\ \/ work[h].stage = "lend" /\ work'[h].stage = "receipt" /\ pc'[h] = "execute"
                    \/ work[h].stage = "receipt" /\ work'[h].stage = "main" /\ pc'[h] = "check"
<1>1. CASE work[h].stage = "lend"
  BY <1>1 DEF NextStage, Goto, Others, Labels, Shape, FieldNames
<1>2. CASE work[h].stage = "receipt"
  BY <1>2 DEF NextStage, Goto, Others, Labels, Shape, FieldNames
<1>3. CASE work[h].stage \notin {"lend", "receipt"}
  <2>1. End(h)
    BY <1>3 DEF NextStage
  <2> QED BY <1>3, <2>1, EndEffect
<1> QED BY <1>1, <1>2, <1>3

StepOf(h) ==
    \/ h \in Handlers /\ (StartPay(h) \/ StartDelete(h) \/ PayStep(h) \/ DeleteStep(h))
    \/ h \in Jobs /\ JobStep(h)
    \/ BooksStep(h) \/ DbError(h) \/ Crash(h)

(* Whatever a process does, it leaves the others alone.                     *)
LEMMA StepEffect ==
    ASSUME Shape, NEW h \in Procs, StepOf(h)
    PROVE  Shape' /\ Others(h)
<1>1. CASE StartPay(h)
  <2>1. PICK d \in Docs, actual \in Actuals, day \in PayDays :
           /\ work' = [work EXCEPT ![h] = [NoWork EXCEPT !.task = "pay", !.root = d, !.actual = actual, !.day = day,
                                  !.stage = IF Lender[d] # NoAccount THEN "lend" ELSE "main"]]
           /\ Goto(h, IF Lender[d] # NoAccount THEN "precheck" ELSE PayLabel(Main(d)))
    BY <1>1 DEF StartPay
  <2>2. (IF Lender[d] # NoAccount THEN "precheck" ELSE PayLabel(Main(d))) \in Labels
    BY DEF PayLabel, Labels
  <2> QED BY <2>1, <2>2, NoWorkFields DEF Goto, Shape, Others
<1>2. CASE Precheck(h)
  <2>1. CASE Goto(h, "find") /\ UNCHANGED work
    BY <2>1 DEF Goto, Shape, Others, Labels
  <2>2. CASE End(h)
    BY <2>2, EndEffect
  <2> QED BY <1>2, <2>1, <2>2 DEF Precheck
<1>3. CASE FindBorrowVoucher(h)
  <2>1. CASE Goto(h, "create") /\ UNCHANGED work
    BY <2>1 DEF Goto, Shape, Others, Labels
  <2>2. ASSUME NEW v, Have(h, v) PROVE Shape' /\ Others(h)
    BY <2>2, HaveEffect
  <2> QED BY <1>3, <2>1, <2>2 DEF FindBorrowVoucher
<1>4. CASE CreateAutoVoucher(h)
  BY <1>4, HaveEffect DEF CreateAutoVoucher
<1>5. CASE ExecuteAutoVoucher(h)
  <2>1. CASE Goto(h, PayLabel(Cur(h))) /\ UNCHANGED work
    BY <2>1 DEF Goto, Shape, Others, Labels, PayLabel
  <2> QED BY <1>5, <2>1, EndEffect, NextStageEffect DEF ExecuteAutoVoucher
<1>6. CASE CheckBalance(h)
  <2>1. CASE Goto(h, "commit") /\ UNCHANGED work
    BY <2>1 DEF Goto, Shape, Others, Labels
  <2> QED BY <1>6, <2>1, EndEffect DEF CheckBalance
<1>7. CASE Commit(h)
  <2>1. CASE End(h)
    BY <2>1, EndEffect
  <2>2. CASE ~End(h)
    BY <1>7, <2>2 DEF Commit, Goto, Shape, Others, FieldNames, Labels
  <2> QED BY <2>1, <2>2
<1>8. CASE QueueReconcile(h)
  BY <1>8, NextStageEffect DEF QueueReconcile
<1>9. CASE StartDelete(h)
  BY <1>9 DEF StartDelete, Goto, Shape, Others, FieldNames, NoWork, Paying, Committed, PayLabel, Labels
<1>10. CASE ReadOriginals(h)
  BY <1>10 DEF ReadOriginals, Goto, Shape, Others, FieldNames, NoWork, Paying, Committed, PayLabel, Labels
<1>11. CASE RemoveDocument(h)
  BY <1>11, EndEffect DEF RemoveDocument
<1>12. CASE StartJob(h)
  BY <1>12 DEF StartJob, Goto, Shape, Others, FieldNames, NoWork, Paying, Committed, PayLabel, Labels
<1>13. CASE RebuildLedger(h)
  BY <1>13 DEF RebuildLedger, Goto, Shape, Others, FieldNames, NoWork, Paying, Committed, PayLabel, Labels
<1>14. CASE ClearBalances(h)
  BY <1>14 DEF ClearBalances, Goto, Shape, Others, FieldNames, NoWork, Paying, Committed, PayLabel, Labels
<1>15. CASE FinishReconcile(h)
  BY <1>15, EndEffect DEF FinishReconcile
<1>16. CASE ReadOrphans(h)
  BY <1>16 DEF ReadOrphans, Goto, Shape, Others, FieldNames, NoWork, Paying, Committed, PayLabel, Labels
<1>17. CASE PurgeOrphans(h)
  BY <1>17 DEF PurgeOrphans, Goto, Shape, Others, FieldNames, NoWork, Paying, Committed, PayLabel, Labels
<1>18. CASE Post(h)
  BY <1>18 DEF Post, Goto, Shape, Others, FieldNames, NoWork, Paying, Committed, PayLabel, Labels
<1>19. CASE ReadBalances(h)
  BY <1>19 DEF ReadBalances, Goto, Shape, Others, FieldNames, NoWork, Paying, Committed, PayLabel, Labels
<1>20. CASE WriteBalance(h)
  BY <1>20 DEF WriteBalance, Goto, Shape, Others, FieldNames, NoWork, Paying, Committed, PayLabel, Labels
<1>21. CASE BalancesDone(h)
  <2>1. CASE (Goto(h, "remove") \/ Goto(h, "finish")) /\ UNCHANGED work
    BY <2>1 DEF Goto, Shape, Others, Labels
  <2> QED BY <1>21, <2>1, EndEffect, NextStageEffect DEF BalancesDone
<1>22. CASE DbError(h)
  <2>1. CASE Committed(h)
    BY <1>22, <2>1 DEF DbError, Goto, Shape, Others, FieldNames, Labels
  <2> QED BY <1>22, <2>1, EndEffect DEF DbError
<1>23. CASE Crash(h)
  BY <1>23, EndEffect DEF Crash
<1> QED
  BY <1>1, <1>2, <1>3, <1>4, <1>5, <1>6, <1>7, <1>8, <1>9, <1>10, <1>11, <1>12, <1>13, <1>14, <1>15, <1>16,
     <1>17, <1>18, <1>19, <1>20, <1>21, <1>22, <1>23
     DEF StepOf, PayStep, BooksStep, DeleteStep, JobStep

LEMMA NextCases ==
    ASSUME [Next]_vars
    PROVE  \/ UNCHANGED vars
           \/ \E v \in Cancellable : Cancel(v)
           \/ \E h \in Procs : StepOf(h)
BY DEF Next, StepOf, Procs

FlowOf(h) == Control(h) /\ Payment(h)

LEMMA OtherFlow ==
    ASSUME NEW g \in Procs, FlowOf(g), pc'[g] = pc[g], work'[g] = work[g] PROVE FlowOf(g)'
BY DEF FlowOf, Control, Payment

LEMMA EndFlow == ASSUME Shape, NEW h \in Procs, End(h) PROVE FlowOf(h)'
<1>1. pc'[h] = "idle" /\ work'[h] = NoWork
  BY EndEffect
<1>2. NoWork.task = "none" /\ NoWork.stage = "main" /\ Suits("idle", "none")
  BY DEF NoWork, Suits, PayOnly, Searching
<1>3. Control(h)'
  BY <1>1, <1>2 DEF Control
<1>4. Payment(h)'
  BY <1>1, <1>2 DEF Payment
<1> QED BY <1>3, <1>4 DEF FlowOf

LEMMA FlowKeeps ==
    ASSUME NEW h \in Procs, FlowOf(h), pc[h] \notin Searching, pc'[h] \notin Searching \cup {"idle"},
           Suits(pc'[h], work[h].task),
           work'[h].task = work[h].task, work'[h].root = work[h].root, work'[h].stage = work[h].stage,
           work'[h].lend = work[h].lend, work'[h].receipt = work[h].receipt,
           work'[h].actual = work[h].actual, work'[h].day = work[h].day
    PROVE  FlowOf(h)'
<1>1. Suits(pc'[h], work'[h].task)
  OBVIOUS
<1>2. Control(h)'
  BY <1>1 DEF FlowOf, Control, Suits
<1>3. Payment(h)'
  BY DEF FlowOf, Payment, PartOf, Searching
<1> QED BY <1>2, <1>3 DEF FlowOf

LEMMA NextStageFlow ==
    ASSUME Shape, NEW h \in Procs, FlowOf(h), Paying(h), pc[h] \notin Searching, NextStage(h) PROVE FlowOf(h)'
<1>1. CASE End(h)
  BY <1>1, EndFlow
<1>2. CASE ~End(h)
  BY <1>2, NextStageEffect DEF FlowOf, Control, Payment, Suits, PayOnly, Searching, Paying
<1> QED BY <1>1, <1>2

LEMMA MainVoucher == ASSUME NEW d \in Docs PROVE Main(d) \in Vouchers
BY DEF Main, Vouchers

(* A process that pays past the search works on a voucher.                  *)
LEMMA CurVoucher ==
    ASSUME NEW h \in Procs, FlowOf(h), Paying(h), pc[h] \notin Searching
    PROVE  Cur(h) \in Vouchers /\ Cur(h)[1] = work[h].root /\ Cur(h)[2] = work[h].stage
<1> USE DEF FlowOf, Control, Payment, Paying, Cur, PartOf
<1>1. CASE work[h].stage = "main"
  BY <1>1, MainVoucher DEF Main
<1>2. CASE work[h].stage = "lend"
  BY <1>2
<1>3. CASE work[h].stage = "receipt"
  BY <1>3
<1> QED BY <1>1, <1>2, <1>3

LEMMA HaveFlow ==
    ASSUME Shape, NEW h \in Procs, FlowOf(h), pc[h] \in {"find", "create"}, NEW v,
           PartOf(v, work[h].root, work[h].stage), Have(h, v)
    PROVE  FlowOf(h)'
<1>1. Paying(h) /\ work[h].stage \in {"lend", "receipt"}
  BY DEF FlowOf, Control, Payment, Suits, PayOnly, Searching, Paying
<1>2. CASE work[h].stage = "lend"
  BY <1>1, <1>2, HaveEffect DEF FlowOf, Control, Payment, Suits, PayOnly, Searching, Paying
<1>3. CASE work[h].stage = "receipt"
  BY <1>1, <1>3, HaveEffect DEF FlowOf, Control, Payment, Suits, PayOnly, Searching, Paying
<1> QED BY <1>1, <1>2, <1>3

(* Each step leads to a place of the same task.                             *)
LEMMA FlowStep ==
    ASSUME LedgerAssumption, Shape, NEW h \in Procs, FlowOf(h), StepOf(h)
    PROVE  FlowOf(h)'
<1>1. CASE h \in Handlers /\ StartPay(h)
  <2>1. PICK d \in Docs, actual \in Actuals, day \in PayDays :
           /\ work' = [work EXCEPT ![h] = [NoWork EXCEPT !.task = "pay", !.root = d, !.actual = actual, !.day = day,
                                  !.stage = IF Lender[d] # NoAccount THEN "lend" ELSE "main"]]
           /\ Goto(h, IF Lender[d] # NoAccount THEN "precheck" ELSE PayLabel(Main(d)))
    BY <1>1, ZenonT(60) DEF StartPay
  <2>2. actual \in Nat \ {0} /\ day \in Days
    BY DEF LedgerAssumption
  <2>3. CASE Lender[d] # NoAccount
    BY <2>1, <2>2, <2>3, <1>1 DEF Goto, Shape, NoWork, FlowOf, Control, Payment, Suits, PayOnly, Searching
  <2>4. CASE Lender[d] = NoAccount
    BY <2>1, <2>2, <2>4, <1>1 DEF Goto, Shape, NoWork, PayLabel, FlowOf, Control, Payment, Suits, PayOnly,
       Searching
  <2> QED BY <2>3, <2>4
<1>2. CASE h \in Handlers /\ Precheck(h)
  <2>1. CASE Goto(h, "find") /\ UNCHANGED work
    BY <1>2, <2>1 DEF Precheck, Goto, Shape, FlowOf, Control, Payment, Suits, PayOnly, Searching
  <2> QED BY <1>2, <2>1, EndFlow DEF Precheck
<1>3. CASE h \in Handlers /\ FindBorrowVoucher(h)
  <2>1. CASE Goto(h, "create") /\ UNCHANGED work
    BY <1>3, <2>1 DEF FindBorrowVoucher, Goto, Shape, FlowOf, Control, Payment, Suits, PayOnly, Searching
  <2>2. ASSUME NEW v \in Live(work[h].root, work[h].stage), Have(h, v) PROVE FlowOf(h)'
    BY <1>3, <2>2, HaveFlow DEF FindBorrowVoucher, Live, PartOf, Searching
  <2> QED BY <1>3, <2>1, <2>2 DEF FindBorrowVoucher
<1>4. CASE h \in Handlers /\ CreateAutoVoucher(h)
  <2>1. PICK i \in 1..MaxCopies : Have(h, <<work[h].root, work[h].stage, i>>)
    BY <1>4 DEF CreateAutoVoucher
  <2>2. work[h].root \in Docs /\ work[h].stage \in {"lend", "receipt"}
    BY <1>4 DEF CreateAutoVoucher, FlowOf, Control, Payment, Suits, PayOnly, Searching
  <2>3. PartOf(<<work[h].root, work[h].stage, i>>, work[h].root, work[h].stage)
    BY <2>2 DEF PartOf, Vouchers
  <2> QED BY <1>4, <2>1, <2>3, HaveFlow DEF CreateAutoVoucher, Searching
<1>5. CASE h \in Handlers /\ ExecuteAutoVoucher(h)
  <2>1. CASE Goto(h, PayLabel(Cur(h))) /\ UNCHANGED work
    BY <1>5, <2>1 DEF ExecuteAutoVoucher, Goto, PayLabel, Shape, FlowOf, Control, Payment, Suits, PayOnly,
       Searching
  <2>2. Paying(h) /\ pc[h] \notin Searching
    BY <1>5 DEF ExecuteAutoVoucher, Paying, FlowOf, Control, Suits, PayOnly, Searching
  <2> QED BY <1>5, <2>1, <2>2, EndFlow, NextStageFlow DEF ExecuteAutoVoucher
<1>6. CASE h \in Handlers /\ CheckBalance(h)
  <2>1. CASE Goto(h, "commit") /\ UNCHANGED work
    BY <1>6, <2>1 DEF CheckBalance, Goto, Shape, FlowOf, Control, Payment, Suits, PayOnly, Searching
  <2> QED BY <1>6, <2>1, EndFlow DEF CheckBalance
<1>7. CASE h \in Handlers /\ Commit(h)
  <2>1. CASE End(h)
    BY <2>1, EndFlow
  <2>2. CASE ~End(h)
    BY <1>7, <2>2 DEF Commit, Goto, Shape, FieldNames, FlowOf, Control, Payment, Suits, PayOnly, Searching
  <2> QED BY <2>1, <2>2
<1>8. CASE h \in Handlers /\ QueueReconcile(h)
  <2>1. Paying(h) /\ pc[h] \notin Searching
    BY <1>8 DEF QueueReconcile, Paying, FlowOf, Control, Suits, PayOnly, Searching
  <2> QED BY <1>8, <2>1, NextStageFlow DEF QueueReconcile
<1>9. CASE h \in Handlers /\ StartDelete(h)
  BY <1>9 DEF StartDelete, Goto, Shape, FieldNames, NoWork, FlowOf, Control, Payment, Suits, PayOnly,
     Searching
<1>10. CASE h \in Handlers /\ ReadOriginals(h)
  BY <1>10 DEF ReadOriginals, Goto, Shape, FieldNames, NoWork, FlowOf, Control, Payment, Suits, PayOnly,
     Searching
<1>11. CASE h \in Handlers /\ RemoveDocument(h)
  BY <1>11, EndFlow DEF RemoveDocument
<1>12. CASE h \in Jobs /\ StartJob(h)
  BY <1>12 DEF StartJob, Goto, Shape, FieldNames, NoWork, FlowOf, Control, Payment, Suits, PayOnly, Searching
<1>13. CASE h \in Jobs /\ RebuildLedger(h)
  BY <1>13 DEF RebuildLedger, Goto, Shape, FieldNames, NoWork, FlowOf, Control, Payment, Suits, PayOnly,
     Searching
<1>14. CASE h \in Jobs /\ ClearBalances(h)
  BY <1>14 DEF ClearBalances, Goto, Shape, FieldNames, NoWork, FlowOf, Control, Payment, Suits, PayOnly,
     Searching
<1>15. CASE h \in Jobs /\ FinishReconcile(h)
  BY <1>15, EndFlow DEF FinishReconcile
<1>16. CASE h \in Jobs /\ ReadOrphans(h)
  BY <1>16 DEF ReadOrphans, Goto, Shape, FieldNames, NoWork, FlowOf, Control, Payment, Suits, PayOnly,
     Searching
<1>17. CASE h \in Jobs /\ PurgeOrphans(h)
  BY <1>17 DEF PurgeOrphans, Goto, Shape, FieldNames, NoWork, FlowOf, Control, Payment, Suits, PayOnly,
     Searching
<1>18. CASE Post(h)
  <2>1. pc[h] \notin Searching \cup {"idle"} /\ Suits(pc[h], work[h].task)
    BY <1>18 DEF Post, Committed, Searching, FlowOf, Control
  <2>2. pc'[h] \notin Searching \cup {"idle"} /\ Suits(pc'[h], work[h].task)
    BY <1>18, <2>1 DEF Post, Goto, Shape, Suits, PayOnly, Searching
  <2>3. /\ work'[h].task = work[h].task /\ work'[h].root = work[h].root /\ work'[h].stage = work[h].stage
        /\ work'[h].lend = work[h].lend /\ work'[h].receipt = work[h].receipt
        /\ work'[h].actual = work[h].actual /\ work'[h].day = work[h].day
    BY <1>18 DEF Post, Shape, FieldNames
  <2> QED BY <2>1, <2>2, <2>3, FlowKeeps
<1>19. CASE ReadBalances(h)
  BY <1>19 DEF ReadBalances, Goto, Shape, FieldNames, NoWork, FlowOf, Control, Payment, Suits, PayOnly,
     Searching
<1>20. CASE WriteBalance(h)
  <2>1. pc[h] \notin Searching \cup {"idle"} /\ Suits(pc[h], work[h].task)
    BY <1>20 DEF WriteBalance, Committed, Searching, FlowOf, Control
  <2>2. pc'[h] \notin Searching \cup {"idle"} /\ Suits(pc'[h], work[h].task)
    BY <1>20, <2>1 DEF WriteBalance, Goto, Shape, Suits, PayOnly, Searching
  <2>3. /\ work'[h].task = work[h].task /\ work'[h].root = work[h].root /\ work'[h].stage = work[h].stage
        /\ work'[h].lend = work[h].lend /\ work'[h].receipt = work[h].receipt
        /\ work'[h].actual = work[h].actual /\ work'[h].day = work[h].day
    BY <1>20 DEF WriteBalance, Shape, FieldNames
  <2> QED BY <2>1, <2>2, <2>3, FlowKeeps
<1>21. CASE BalancesDone(h)
  <2>1. CASE Paying(h)
    <3>1. pc[h] \notin Searching /\ NextStage(h)
      BY <1>21, <2>1 DEF BalancesDone, Paying, Searching
    <3> QED BY <2>1, <3>1, NextStageFlow
  <2>2. CASE ~Paying(h) /\ work[h].task = "delete"
    BY <1>21, <2>2 DEF BalancesDone, Goto, Shape, FlowOf, Control, Payment, Suits, PayOnly, Searching
  <2>3. CASE ~Paying(h) /\ work[h].task = "job"
    BY <1>21, <2>3 DEF BalancesDone, Goto, Shape, FlowOf, Control, Payment, Suits, PayOnly, Searching
  <2>4. CASE ~Paying(h) /\ work[h].task \notin {"delete", "job"}
    BY <1>21, <2>4, EndFlow DEF BalancesDone
  <2> QED BY <2>1, <2>2, <2>3, <2>4
<1>22. CASE DbError(h)
  <2>1. CASE Committed(h)
    <3>1. pc[h] \notin Searching /\ pc'[h] = "report" /\ work[h].task = "pay"
      BY <1>22, <2>1 DEF DbError, Committed, Paying, Goto, Shape, Searching
    <3>2. /\ work'[h].task = work[h].task /\ work'[h].root = work[h].root /\ work'[h].stage = work[h].stage
          /\ work'[h].lend = work[h].lend /\ work'[h].receipt = work[h].receipt
          /\ work'[h].actual = work[h].actual /\ work'[h].day = work[h].day
      BY <1>22, <2>1 DEF DbError, Shape, FieldNames
    <3> QED BY <3>1, <3>2, FlowKeeps DEF Suits, PayOnly, Searching
  <2> QED BY <1>22, <2>1, EndFlow DEF DbError
<1>23. CASE Crash(h)
  BY <1>23, EndFlow DEF Crash
<1> QED
  BY <1>1, <1>2, <1>3, <1>4, <1>5, <1>6, <1>7, <1>8, <1>9, <1>10, <1>11, <1>12, <1>13, <1>14, <1>15, <1>16,
     <1>17, <1>18, <1>19, <1>20, <1>21, <1>22, <1>23
     DEF StepOf, PayStep, BooksStep, DeleteStep, JobStep


LEMMA FlowNext ==
    ASSUME LedgerAssumption, Flow, [Next]_vars
    PROVE  Flow'
<1>1. CASE UNCHANGED vars
  BY <1>1 DEF vars, Flow, Shape, Control, Payment
<1>2. CASE \E v \in Cancellable : Cancel(v)
  BY <1>2 DEF Cancel, Flow, Shape, Control, Payment
<1>3. ASSUME NEW h \in Procs, StepOf(h) PROVE Flow'
  <2>1. Shape /\ \A g \in Procs : FlowOf(g)
    BY DEF Flow, FlowOf
  <2>2. Shape' /\ Others(h)
    BY <1>3, <2>1, StepEffect
  <2>3. FlowOf(h)'
    BY <1>3, <2>1, FlowStep
  <2>4. \A g \in Procs : FlowOf(g)'
    BY <2>1, <2>2, <2>3, OtherFlow DEF Others
  <2> QED BY <2>2, <2>4 DEF Flow, FlowOf
<1> QED BY <1>1, <1>2, <1>3, NextCases

-----------------------------------------------------------------------------
(* The vouchers: what is paid is more than nothing, and once it is paid a   *)
(* voucher is at most deleted.                                              *)
DocTrue ==
    /\ DocTyped
    /\ \A v \in Vouchers :
          /\ doc[v].status \in {"approved", "paid"} => doc[v].amount # 0
          /\ doc[v].status = "paid" => doc[v].paid # 0
          /\ doc[v].paid # 0 => doc[v].status \in {"paid", "deleted"}

Settled(v) == doc[v].status \in {"paid", "deleted"}

Stays(v) ==
    /\ Settled(v) => doc'[v].paid = doc[v].paid /\ doc'[v].day = doc[v].day
                     /\ doc'[v].status \in {doc[v].status, "deleted"}
    /\ doc[v].paid # 0 => doc'[v].paid # 0

Unless(h) == ~(CreateAutoVoucher(h) \/ Commit(h) \/ RemoveDocument(h))

LEMMA DocUnchanged ==
    ASSUME NEW h \in Procs, StepOf(h), Unless(h)
    PROVE  doc' = doc
BY DEF StepOf, Unless, StartPay, StartDelete, PayStep, DeleteStep, JobStep, BooksStep, DbError, Crash, Precheck,
       FindBorrowVoucher, ExecuteAutoVoucher, CheckBalance, QueueReconcile, ReadOriginals, StartJob,
       RebuildLedger, ClearBalances, FinishReconcile, ReadOrphans, PurgeOrphans, Post, ReadBalances,
       WriteBalance, BalancesDone

LEMMA SameDocs ==
    ASSUME DocTrue, doc' = doc
    PROVE  DocTrue' /\ \A v \in Vouchers : Stays(v)
BY DEF DocTrue, DocTyped, Stays, Settled

VoucherType == [status : Statuses, amount : Nat, paid : Nat, day : Days \cup {0}]

LEMMA OneDoc ==
    ASSUME DocTrue, NEW u \in Vouchers, NEW r \in VoucherType, doc' = [doc EXCEPT ![u] = r],
           r.status \in {"approved", "paid"} => r.amount # 0,
           r.status = "paid" => r.paid # 0,
           r.paid # 0 => r.status \in {"paid", "deleted"},
           ~Settled(u), doc[u].paid # 0 => r.paid # 0
    PROVE  DocTrue' /\ \A v \in Vouchers : Stays(v)
<1>1. doc'[u] = r /\ \A v \in Vouchers \ {u} : doc'[v] = doc[v]
  BY DEF DocTrue, DocTyped
<1>2. doc' \in [Vouchers -> VoucherType]
  BY DEF DocTrue, DocTyped, VoucherType
<1>3. DocTrue'
  BY <1>1, <1>2 DEF DocTrue, DocTyped, VoucherType
<1>4. \A v \in Vouchers : Stays(v)
  BY <1>1 DEF Stays, Settled
<1> QED BY <1>3, <1>4

LEMMA ToPayTyped ==
    ASSUME DocTrue, NEW h \in Procs, FlowOf(h), Paying(h), pc[h] \notin Searching
    PROVE  ToPay(h) \in Nat /\ (doc[Cur(h)].status = "approved" => ToPay(h) # 0)
<1>1. Cur(h) \in Vouchers
  BY CurVoucher
<1> QED BY <1>1 DEF ToPay, DocTrue, DocTyped, FlowOf, Payment, Paying

(* Vouchers change one at a time, along their course.                       *)
LEMMA DocStep ==
    ASSUME LedgerAssumption, Flow, DocTrue, [Next]_vars
    PROVE  DocTrue' /\ \A v \in Vouchers : Stays(v)
<1>1. CASE UNCHANGED vars
  BY <1>1, SameDocs DEF vars
<1>2. CASE \E v \in Cancellable : Cancel(v)
  <2>1. PICK v \in Cancellable : Cancel(v)
    BY <1>2
  <2>2. v \in Vouchers
    BY DEF LedgerAssumption
  <2> QED BY <2>1, <2>2 DEF Cancel, DocTrue, DocTyped, Stays, Settled, Statuses
<1>3. ASSUME NEW h \in Procs, StepOf(h) PROVE DocTrue' /\ \A v \in Vouchers : Stays(v)
  <2>1. FlowOf(h)
    BY DEF Flow, FlowOf
  <2>2. CASE Unless(h)
    BY <1>3, <2>2, DocUnchanged, SameDocs
  <2>3. CASE CreateAutoVoucher(h)
    <3>1. work[h].root \in Docs /\ work[h].stage \in {"lend", "receipt"} /\ work[h].actual \in Nat \ {0}
      BY <2>1, <2>3 DEF CreateAutoVoucher, FlowOf, Control, Payment, Suits, PayOnly, Searching
    <3>2. PICK i \in 1..MaxCopies :
             /\ doc[<<work[h].root, work[h].stage, i>>].status = "none"
             /\ doc' = [doc EXCEPT ![<<work[h].root, work[h].stage, i>>] =
                                     [@ EXCEPT !.status = "approved", !.amount = work[h].actual]]
      BY <2>3 DEF CreateAutoVoucher
    <3>3. <<work[h].root, work[h].stage, i>> \in Vouchers
      BY <3>1 DEF Vouchers
    <3> DEFINE u == <<work[h].root, work[h].stage, i>>
               r == [doc[u] EXCEPT !.status = "approved", !.amount = work[h].actual]
    <3>4. u \in Vouchers /\ doc[u].status = "none" /\ doc' = [doc EXCEPT ![u] = r]
      BY <3>2, <3>3
    <3> HIDE DEF u
    <3>7. doc[u] \in VoucherType /\ doc[u].paid = 0
      BY <3>4 DEF DocTrue, DocTyped, VoucherType
    <3>5. r \in VoucherType /\ r.amount # 0 /\ r.status = "approved" /\ r.paid = doc[u].paid /\ doc[u].paid = 0
      BY <3>1, <3>7 DEF VoucherType, Statuses
    <3>6. ~Settled(u)
      BY <3>4 DEF Settled
    <3> HIDE DEF r
    <3> QED BY <3>4, <3>5, <3>6, OneDoc
  <2>4. CASE Commit(h)
    <3>1. Paying(h) /\ pc[h] \notin Searching
      BY <2>1, <2>4 DEF Commit, FlowOf, Control, Suits, PayOnly, Searching, Paying
    <3>2. Cur(h) \in Vouchers /\ work[h].day \in Days
      BY <2>1, <3>1, CurVoucher DEF FlowOf, Payment, Paying
    <3>3. CASE doc[Cur(h)].status = "approved"
      <4>1. ToPay(h) \in Nat \ {0}
        BY <2>1, <3>1, <3>3, ToPayTyped
      <4>2. doc' = [doc EXCEPT ![Cur(h)] = [@ EXCEPT !.status = "paid", !.paid = ToPay(h), !.day = work[h].day]]
        BY <2>4, <3>3 DEF Commit
      <4> DEFINE x == doc[Cur(h)]
                 sum == ToPay(h)
                 day == work[h].day
                 r == [x EXCEPT !.status = "paid", !.paid = sum, !.day = day]
      <4>3. doc' = [doc EXCEPT ![Cur(h)] = r]
        BY <4>2
      <4>5. x \in VoucherType /\ x.amount # 0
        BY <3>2, <3>3 DEF DocTrue, DocTyped, VoucherType
      <4>6. sum \in Nat \ {0} /\ day \in Days
        BY <3>2, <4>1
      <4> HIDE DEF x, sum, day
      <4>4. r \in VoucherType /\ r.amount # 0 /\ r.status = "paid" /\ r.paid # 0
        BY <4>5, <4>6, ZenonT(60) DEF VoucherType, Statuses
      <4> HIDE DEF r
      <4> QED BY <3>2, <3>3, <4>3, <4>4, OneDoc DEF Settled
    <3>4. CASE doc[Cur(h)].status # "approved"
      BY <2>4, <3>4, SameDocs DEF Commit
    <3> QED BY <3>3, <3>4
  <2>5. CASE RemoveDocument(h)
    <3>1. work[h].root \in Vouchers
      BY <2>1, <2>5 DEF RemoveDocument, FlowOf, Control, Suits
    <3> QED BY <2>5, <3>1 DEF RemoveDocument, DocTrue, DocTyped, Stays, Settled, Statuses
  <2> QED BY <2>2, <2>3, <2>4, <2>5 DEF Unless
<1> QED BY <1>1, <1>2, <1>3, NextCases

-----------------------------------------------------------------------------
(* The ledger: an entry, there or about to be posted, is what its voucher   *)
(* paid, or the opposite of an entry that is there.                         *)
EntryShape == [voucher : Vouchers, side : {"actual", "mirror"}, reverses : BOOLEAN,
               account : Accounts \cup {NoAccount}, amount : Int, day : Days \cup {0}, copy : {1}]

Undoes(e, x) == [e EXCEPT !.reverses = FALSE, !.amount = -@, !.day = x.day] = x

TrueEntry(e) ==
    /\ e \in EntryShape
    /\ Settled(e.voucher)
    /\ IF e.reverses THEN e.voucher \in purged \/ \E x \in ledger : Undoes(e, x)
       ELSE e \in EntriesOf(e.voucher, doc[e.voucher].paid, doc[e.voucher].day)

OneOfAKey == \A e, f \in ledger : Key(e) = Key(f) => e = f

LedgerTrue ==
    /\ \A e \in ledger : TrueEntry(e)
    /\ \A h \in Procs : \A e \in work[h].todo : TrueEntry(e)
    /\ OneOfAKey

Signed(v, amount) == IF KindOf(v) = "income" THEN amount ELSE -amount
EntryOf(v, side, account, signed, day) ==
    [voucher |-> v, side |-> side, reverses |-> FALSE, account |-> account,
     amount |-> signed, day |-> day, copy |-> 1]

LEMMA EntriesAre ==
    ASSUME NEW v, NEW amount, NEW day, NEW e
    PROVE  e \in EntriesOf(v, amount, day) <=>
              \/ e = EntryOf(v, "actual", SourceOf(v), Signed(v, amount), day)
              \/ KindOf(v) = "internal" /\ e = EntryOf(v, "mirror", Dest[v[1]], amount, day)
BY DEF EntriesOf, EntryOf, Signed

LEMMA EntryFields ==
    ASSUME NEW v, NEW side, NEW account, NEW signed, NEW day
    PROVE  LET e == EntryOf(v, side, account, signed, day)
           IN  e.voucher = v /\ e.side = side /\ ~e.reverses
BY DEF EntryOf

LEMMA EntryOfReverses ==
    ASSUME NEW v, NEW side, NEW account, NEW signed, NEW day
    PROVE  EntryOf(v, side, account, signed, day).reverses = FALSE
BY DEF EntryOf

LEMMA EntryTyped ==
    ASSUME NEW v \in Vouchers, NEW side \in {"actual", "mirror"}, NEW account \in Accounts \cup {NoAccount},
           NEW signed \in Int, NEW day \in Days \cup {0}
    PROVE  EntryOf(v, side, account, signed, day) \in EntryShape
BY DEF EntryOf, EntryShape

LEMMA EntriesTyped ==
    ASSUME LedgerAssumption, NEW v \in Vouchers, NEW amount \in Nat, NEW day \in Days \cup {0},
           NEW e \in EntriesOf(v, amount, day)
    PROVE  e \in EntryShape
<1>1. v[1] \in Docs /\ v[2] \in {"main", "lend", "receipt"}
  BY DEF Vouchers
<1>2. SourceOf(v) \in Accounts \cup {NoAccount} /\ Dest[v[1]] \in Accounts \cup {NoAccount}
  BY <1>1 DEF SourceOf, LedgerAssumption
<1>3. Signed(v, amount) \in Int /\ amount \in Int
  BY DEF Signed
<1> QED BY <1>2, <1>3, EntriesAre, EntryTyped

(* A mirror comes with the entry it mirrors, and a side has one entry.      *)
LEMMA EntriesSides ==
    ASSUME NEW v, NEW amount, NEW day, NEW e \in EntriesOf(v, amount, day)
    PROVE  /\ \E x \in EntriesOf(v, amount, day) : x.voucher = v /\ x.side = "actual" /\ ~x.reverses
           /\ \A x \in EntriesOf(v, amount, day) : x.side = e.side => x = e
           /\ e.voucher = v /\ ~e.reverses
<1> DEFINE a == EntryOf(v, "actual", SourceOf(v), Signed(v, amount), day)
           m == EntryOf(v, "mirror", Dest[v[1]], amount, day)
<1>1. /\ a.voucher = v /\ a.side = "actual" /\ ~a.reverses
      /\ m.voucher = v /\ m.side = "mirror" /\ ~m.reverses
  BY EntryFields
<1>2. ASSUME NEW x PROVE x \in EntriesOf(v, amount, day) <=> x = a \/ (KindOf(v) = "internal" /\ x = m)
  BY EntriesAre
<1> HIDE DEF a, m
<1> QED BY <1>1, <1>2

LEMMA UndoesVoucher ==
    ASSUME NEW e \in EntryShape, NEW x, Undoes(e, x)
    PROVE  x.voucher = e.voucher
BY DEF Undoes, EntryShape

(* An entry stays true as long as what leaves the ledger is purged.         *)
LEMMA EntryStays ==
    ASSUME NEW e, TrueEntry(e), \A v \in Vouchers : Stays(v), purged \subseteq purged',
           \A x \in ledger : x \in ledger' \/ x.voucher \in purged'
    PROVE  TrueEntry(e)'
<1>1. e.voucher \in Vouchers /\ e \in EntryShape
  BY DEF TrueEntry, EntryShape
<1>2. Settled(e.voucher)' /\ doc'[e.voucher].paid = doc[e.voucher].paid /\ doc'[e.voucher].day = doc[e.voucher].day
  BY <1>1 DEF TrueEntry, Stays, Settled
<1>3. CASE e.reverses
  <2>1. CASE e.voucher \in purged
    BY <1>1, <1>2, <1>3, <2>1 DEF TrueEntry
  <2>2. CASE \E x \in ledger : Undoes(e, x)
    <3>1. PICK x \in ledger : Undoes(e, x)
      BY <2>2
    <3>2. x.voucher = e.voucher
      BY <1>1, <3>1, UndoesVoucher
    <3>3. e.voucher \in purged' \/ x \in ledger'
      BY <3>2
    <3> QED BY <1>1, <1>2, <1>3, <3>1, <3>3 DEF TrueEntry, Undoes
  <2> QED BY <1>3, <2>1, <2>2 DEF TrueEntry
<1>4. CASE ~e.reverses
  BY <1>1, <1>2, <1>4 DEF TrueEntry, EntriesOf, KindOf, SourceOf
<1> QED BY <1>3, <1>4

Quiet(h) == ledger' = ledger /\ purged' = purged /\ work'[h].todo \in {{}, work[h].todo}

PostEntry(h) ==
    \E e \in Foremost(work[h].todo) :
        /\ Insert(e) /\ work'[h].todo = work[h].todo \ {e}
        /\ UNCHANGED <<purged, doc>> /\ pc[h] = "post" /\ pc'[h] = "post"

LEMMA NoWorkTodo == NoWork.todo = {}
BY DEF NoWork

(* What a step does to the ledger and to what is still to be posted.        *)
LEMMA LedgerCases ==
    ASSUME Shape, NEW h \in Procs, StepOf(h)
    PROVE  \/ Quiet(h) \/ PostEntry(h) \/ PurgeOrphans(h)
           \/ Commit(h) /\ doc[Cur(h)].status = "approved"
           \/ ReadOriginals(h) \/ RebuildLedger(h)
<1>0. ASSUME End(h), ledger' = ledger, purged' = purged PROVE Quiet(h)
  BY <1>0, EndEffect, NoWorkTodo DEF Quiet
<1>00. ASSUME UNCHANGED work, ledger' = ledger, purged' = purged PROVE Quiet(h)
  BY <1>00 DEF Quiet
<1>01. ASSUME NextStage(h), ledger' = ledger, purged' = purged PROVE Quiet(h)
  BY <1>0, <1>01, NextStageEffect DEF Quiet
<1>1. CASE StartPay(h)
  BY <1>1 DEF StartPay, Quiet, Shape, NoWork
<1>2. CASE Precheck(h)
  BY <1>2, <1>0, <1>00 DEF Precheck
<1>3. CASE FindBorrowVoucher(h)
  BY <1>3, <1>00, HaveEffect DEF FindBorrowVoucher, Quiet
<1>4. CASE CreateAutoVoucher(h)
  BY <1>4, HaveEffect DEF CreateAutoVoucher, Quiet
<1>5. CASE ExecuteAutoVoucher(h)
  BY <1>5, <1>0, <1>00, <1>01 DEF ExecuteAutoVoucher
<1>6. CASE CheckBalance(h)
  BY <1>6, <1>0, <1>00 DEF CheckBalance
<1>7. CASE Commit(h)
  BY <1>7, <1>0 DEF Commit
<1>8. CASE QueueReconcile(h)
  BY <1>8, <1>01 DEF QueueReconcile
<1>9. CASE StartDelete(h)
  BY <1>9 DEF StartDelete, Quiet, Shape, NoWork
<1>10. CASE RemoveDocument(h)
  BY <1>10, <1>0 DEF RemoveDocument
<1>11. CASE StartJob(h)
  BY <1>11 DEF StartJob, Quiet, Shape, NoWork
<1>12. CASE ClearBalances(h)
  BY <1>12 DEF ClearBalances, Quiet, Shape, FieldNames
<1>13. CASE FinishReconcile(h)
  BY <1>13, <1>0 DEF FinishReconcile
<1>14. CASE ReadOrphans(h)
  BY <1>14 DEF ReadOrphans, Quiet, Shape, FieldNames
<1>15. CASE Post(h)
  <2>1. CASE work[h].todo = {}
    BY <1>15, <1>00, <2>1 DEF Post
  <2>2. CASE work[h].todo # {}
    BY <1>15, <2>2 DEF Post, PostEntry, Shape, FieldNames
  <2> QED BY <2>1, <2>2
<1>16. CASE ReadBalances(h)
  BY <1>16 DEF ReadBalances, Quiet, Shape, FieldNames
<1>17. CASE WriteBalance(h)
  BY <1>17 DEF WriteBalance, Quiet, Shape, FieldNames
<1>18. CASE BalancesDone(h)
  BY <1>18, <1>0, <1>00, <1>01 DEF BalancesDone
<1>19. CASE DbError(h)
  BY <1>19, <1>0 DEF DbError, Quiet, Shape, FieldNames
<1>20. CASE Crash(h)
  BY <1>20, <1>0 DEF Crash
<1> QED
  BY <1>1, <1>2, <1>3, <1>4, <1>5, <1>6, <1>7, <1>8, <1>9, <1>10, <1>11, <1>12, <1>13, <1>14, <1>15, <1>16, <1>17,
     <1>18, <1>19, <1>20 DEF StepOf, PayStep, BooksStep, DeleteStep, JobStep

Undo(e) == [e EXCEPT !.reverses = TRUE, !.amount = -@, !.day = Today]

LEMMA UndoUndone ==
    ASSUME LedgerAssumption, NEW e \in EntryShape, ~e.reverses
    PROVE  /\ Undo(e) \in EntryShape /\ Undo(e).voucher = e.voucher /\ Undo(e).side = e.side
           /\ Undo(e).reverses /\ Undoes(Undo(e), e)
<1>1. Today \in Days
  BY DEF LedgerAssumption
<1> DEFINE amount == -e.amount
<1>5. amount \in Int
  BY DEF EntryShape
<1>6. Undo(e) = [e EXCEPT !.reverses = TRUE, !.amount = amount, !.day = Today]
  BY DEF Undo, EntryShape
<1>2. Undo(e) \in EntryShape /\ Undo(e).voucher = e.voucher /\ Undo(e).side = e.side /\ Undo(e).reverses
  <2> HIDE DEF amount
  <2> QED BY <1>1, <1>5, <1>6, ZenonT(60) DEF EntryShape
<1>3. -(-e.amount) = e.amount
  BY DEF EntryShape
<1>4. Undoes(Undo(e), e)
  BY <1>3 DEF Undo, Undoes, EntryShape
<1> QED BY <1>2, <1>4

LEMMA ReversalsAre ==
    ASSUME NEW v, NEW e
    PROVE  e \in ReversalsOf(ledger, v) <=> \E x \in ledger : x.voucher = v /\ ~x.reverses /\ e = Undo(x)
BY DEF ReversalsOf, Undo

(* Where the entries a step leaves to be posted come from.                  *)
LEMMA NewTodo ==
    ASSUME LedgerAssumption, Flow, DocTrue, LedgerTrue, NEW h \in Procs, StepOf(h), DocTrue',
           \A v \in Vouchers : Stays(v), purged \subseteq purged',
           \A x \in ledger : x \in ledger' \/ x.voucher \in purged'
    PROVE  \A e \in work'[h].todo : TrueEntry(e)'
<1>0. Shape /\ FlowOf(h)
  BY DEF Flow, FlowOf
<1>1. CASE work'[h].todo \subseteq work[h].todo
  BY <1>1, EntryStays DEF LedgerTrue
<1>2. CASE Quiet(h) \/ PostEntry(h)
  <2>1. work'[h].todo \subseteq work[h].todo
    BY <1>2 DEF Quiet, PostEntry
  <2> QED BY <1>1, <2>1
<1>3. CASE PurgeOrphans(h)
  <2>1. work'[h].todo = work[h].todo
    BY <1>0, <1>3 DEF PurgeOrphans, Shape, FieldNames
  <2> QED BY <1>1, <2>1
<1>4. CASE Commit(h) /\ doc[Cur(h)].status = "approved"
  <2>1. Cur(h) \in Vouchers
    BY <1>0, <1>4, CurVoucher DEF Commit, FlowOf, Control, Suits, PayOnly, Searching, Paying
  <2>2. work'[h].todo = EntriesOf(Cur(h), ToPay(h), work[h].day)
    BY <1>0, <1>4 DEF Commit, Shape, FieldNames
  <2>3. doc'[Cur(h)].status = "paid" /\ doc'[Cur(h)].paid = ToPay(h) /\ doc'[Cur(h)].day = work[h].day
    <3>1. doc' = [doc EXCEPT ![Cur(h)] = [@ EXCEPT !.status = "paid", !.paid = ToPay(h), !.day = work[h].day]]
      BY <1>4 DEF Commit
    <3>2. doc \in [Vouchers -> VoucherType]
      BY DEF DocTrue, DocTyped, VoucherType
    <3> QED BY <2>1, <3>1, <3>2 DEF VoucherType
  <2>4. SUFFICES ASSUME NEW v, v = Cur(h), NEW e \in EntriesOf(v, doc'[v].paid, doc'[v].day) PROVE TrueEntry(e)'
    BY <2>2, <2>3
  <2>5. doc'[v].paid \in Nat /\ doc'[v].day \in Days \cup {0} /\ v \in Vouchers
    BY <2>1, <2>4 DEF DocTrue, DocTyped
  <2>6. e \in EntryShape /\ e.voucher = v /\ ~e.reverses
    <3>1. e \in EntryShape
      BY <2>5, EntriesTyped
    <3>2. e.voucher = v /\ ~e.reverses
      BY EntriesSides
    <3> QED BY <3>1, <3>2
  <2> QED BY <2>3, <2>4, <2>6 DEF TrueEntry, Settled, EntriesOf, KindOf, SourceOf
<1>5. CASE ReadOriginals(h)
  <2>1. work'[h].todo = ReversalsOf(ledger, work[h].root) /\ UNCHANGED <<doc, ledger, purged>>
    BY <1>0, <1>5 DEF ReadOriginals, Shape, FieldNames
  <2>2. SUFFICES ASSUME NEW x \in ledger, ~x.reverses PROVE TrueEntry(Undo(x))
    BY <2>1, ReversalsAre DEF TrueEntry, Settled, EntriesOf, KindOf, SourceOf
  <2>3. x \in EntryShape /\ Settled(x.voucher)
    BY DEF LedgerTrue, TrueEntry
  <2> QED BY <2>2, <2>3, UndoUndone DEF TrueEntry
<1>6. CASE RebuildLedger(h)
  <2>1. /\ work'[h].todo = UNION {EntriesOf(v, doc[v].paid, doc[v].day) :
                                     v \in {u \in Vouchers : doc[u].status = "paid"}}
        /\ UNCHANGED <<doc, ledger, purged>>
    BY <1>0, <1>6 DEF RebuildLedger, Shape, FieldNames
  <2>2. SUFFICES ASSUME NEW v \in Vouchers, doc[v].status = "paid", NEW e \in EntriesOf(v, doc[v].paid, doc[v].day)
                 PROVE  TrueEntry(e)
    BY <2>1 DEF TrueEntry, Settled, EntriesOf, KindOf, SourceOf
  <2>3. e \in EntryShape /\ e.voucher = v /\ ~e.reverses
    <3>0. doc[v].paid \in Nat /\ doc[v].day \in Days \cup {0}
      BY DEF DocTrue, DocTyped
    <3>1. e \in EntryShape
      BY <3>0, EntriesTyped
    <3>2. e.voucher = v /\ ~e.reverses
      BY EntriesSides
    <3> QED BY <3>1, <3>2
  <2> QED BY <2>2, <2>3 DEF TrueEntry, Settled
<1> QED BY <1>0, <1>2, <1>3, <1>4, <1>5, <1>6, LedgerCases

(* What leaves the ledger is purged.                                        *)
LEMMA LedgerKept ==
    ASSUME LedgerAssumption, Flow, NEW h \in Procs, StepOf(h)
    PROVE  purged \subseteq purged' /\ \A x \in ledger : x \in ledger' \/ x.voucher \in purged'
<1>1. CASE Quiet(h) \/ PostEntry(h)
  BY <1>1 DEF Quiet, PostEntry, Insert
<1>2. CASE PurgeOrphans(h)
  BY <1>2 DEF PurgeOrphans
<1>3. CASE Commit(h) \/ ReadOriginals(h) \/ RebuildLedger(h)
  BY <1>3 DEF Commit, ReadOriginals, RebuildLedger
<1> QED BY <1>1, <1>2, <1>3, LedgerCases DEF Flow

LEMMA LedgerStep ==
    ASSUME LedgerAssumption, Flow, DocTrue, LedgerTrue, [Next]_vars
    PROVE  LedgerTrue'
<1>0. DocTrue' /\ \A v \in Vouchers : Stays(v)
  BY DocStep
<1>1. CASE UNCHANGED <<ledger, purged, work>>
  <2>1. \A e : TrueEntry(e) => TrueEntry(e)'
    BY <1>0, <1>1, EntryStays
  <2> QED BY <1>1, <2>1 DEF LedgerTrue, OneOfAKey, Key
<1>2. ASSUME NEW h \in Procs, StepOf(h) PROVE LedgerTrue'
  <2>1. \A e : TrueEntry(e) => TrueEntry(e)'
    BY <1>0, <1>2, EntryStays, LedgerKept
  <2>2. \A e \in work'[h].todo : TrueEntry(e)'
    BY <1>0, <1>2, NewTodo, LedgerKept
  <2>3. \A g \in Procs : \A e \in work'[g].todo : TrueEntry(e)'
    BY <1>2, <2>1, <2>2, StepEffect DEF Flow, Others, LedgerTrue
  <2>4. (\A e \in ledger' : TrueEntry(e)') /\ OneOfAKey'
    <3>1. CASE ledger' \subseteq ledger
      BY <2>1, <3>1 DEF LedgerTrue, OneOfAKey, Key
    <3>2. CASE PostEntry(h)
      <4>1. PICK e \in work[h].todo : Insert(e)
        BY <3>2 DEF PostEntry, Foremost
      <4>2. TrueEntry(e)'
        BY <2>1, <4>1 DEF LedgerTrue
      <4>3. CASE Key(e) \in Keys(ledger)
        BY <3>1, <4>1, <4>3 DEF Insert
      <4>4. CASE Key(e) \notin Keys(ledger)
        <5>1. ledger' = ledger \cup {e}
          BY <4>1, <4>4 DEF Insert
        <5>2. \A x \in ledger' : TrueEntry(x)'
          BY <2>1, <4>2, <5>1 DEF LedgerTrue
        <5>3. \A x \in ledger : Key(x) # Key(e)
          BY <4>4 DEF Keys
        <5>4. \A x, y \in ledger' : Key(x) = Key(y) => x = y
          BY <5>1, <5>3 DEF LedgerTrue, OneOfAKey
        <5>5. OneOfAKey'
          BY <5>4 DEF OneOfAKey, Key
        <5> QED BY <5>2, <5>5
      <4> QED BY <4>3, <4>4
    <3>3. CASE Quiet(h) \/ PurgeOrphans(h) \/ Commit(h) \/ ReadOriginals(h) \/ RebuildLedger(h)
      <4>1. ledger' \subseteq ledger
        BY <3>3 DEF Quiet, PurgeOrphans, Commit, ReadOriginals, RebuildLedger
      <4> QED BY <3>1, <4>1
    <3> QED BY <1>2, <3>2, <3>3, LedgerCases DEF Flow
  <2> QED BY <2>3, <2>4 DEF LedgerTrue
<1>3. CASE UNCHANGED vars \/ \E v \in Cancellable : Cancel(v)
  BY <1>1, <1>3 DEF vars, Cancel
<1> QED BY <1>2, <1>3, NextCases

LEMMA PostedOnceFollows == ASSUME LedgerTrue PROVE PostedOnce
BY DEF LedgerTrue, PostedOnce, TrueEntry, Settled, OneOfAKey, Undoes

-----------------------------------------------------------------------------
(* The two sides of a transfer: a mirror that is there, or still to be      *)
(* posted, has its source there or still to be posted with it.              *)
HasSource(e, S) == \E x \in S : x.voucher = e.voucher /\ x.side = "actual" /\ x.reverses = e.reverses

Needs(e) == e.side = "mirror" /\ doc[e.voucher].status = "paid"

Paired ==
    /\ \A e \in ledger : Needs(e) => HasSource(e, ledger)
    /\ \A h \in Procs : \A e \in work[h].todo : Needs(e) => HasSource(e, ledger \cup work[h].todo)

(* What stays of the ledger: at least the entries of paid vouchers.         *)
PaidKept == \A x \in ledger : doc'[x.voucher].status = "paid" => x \in ledger'

LEMMA PaidStays ==
    ASSUME LedgerAssumption, Flow, LedgerTrue, NEW h \in Procs, StepOf(h)
    PROVE  PaidKept
<1>1. CASE Quiet(h) \/ PostEntry(h)
  BY <1>1 DEF Quiet, PostEntry, Insert, PaidKept
<1>2. CASE PurgeOrphans(h)
  BY <1>2 DEF PurgeOrphans, PaidKept
<1>3. CASE Commit(h) \/ ReadOriginals(h) \/ RebuildLedger(h)
  BY <1>3 DEF Commit, ReadOriginals, RebuildLedger, PaidKept
<1> QED BY <1>1, <1>2, <1>3, LedgerCases DEF Flow

LEMMA NeedsBefore ==
    ASSUME NEW e, TrueEntry(e), \A v \in Vouchers : Stays(v), Needs(e)'
    PROVE  Needs(e)
BY DEF Needs, TrueEntry, Stays, Settled, EntryShape

LEMMA SourceStays ==
    ASSUME NEW e, NEW S, NEW T, HasSource(e, S), \A x \in S : x.voucher = e.voucher => x \in T
    PROVE  HasSource(e, T)
BY DEF HasSource

LEMMA EntriesUnreversed ==
    ASSUME NEW v, NEW amount, NEW day, NEW e \in EntriesOf(v, amount, day)
    PROVE  e.reverses = FALSE
<1>1. CASE e = EntryOf(v, "actual", SourceOf(v), Signed(v, amount), day)
  BY <1>1, EntryOfReverses
<1>2. CASE e = EntryOf(v, "mirror", Dest[v[1]], amount, day)
  BY <1>2, EntryOfReverses
<1> QED BY <1>1, <1>2, EntriesAre

LEMMA EntriesSourced ==
    ASSUME NEW v, NEW amount, NEW day, NEW e \in EntriesOf(v, amount, day)
    PROVE  HasSource(e, EntriesOf(v, amount, day))
<1>1. e.voucher = v /\ ~e.reverses
  BY EntriesSides
<1>2. PICK x \in EntriesOf(v, amount, day) : x.voucher = v /\ x.side = "actual" /\ ~x.reverses
  BY EntriesSides
<1>3. e.reverses = FALSE /\ x.reverses = FALSE
  BY EntriesUnreversed
<1> QED BY <1>1, <1>2, <1>3 DEF HasSource

LEMMA PairedStep ==
    ASSUME LedgerAssumption, Flow, DocTrue, LedgerTrue, Paired, [Next]_vars
    PROVE  Paired'
<1>0. DocTrue' /\ \A v \in Vouchers : Stays(v)
  BY DocStep
<1>1. CASE UNCHANGED <<ledger, work>>
  <2>1. \A e : TrueEntry(e) /\ Needs(e)' => Needs(e)
    BY <1>0, NeedsBefore
  <2> QED BY <1>1, <2>1 DEF Paired, LedgerTrue, HasSource
<1>2. ASSUME NEW h \in Procs, StepOf(h) PROVE Paired'
  <2>0. Shape /\ FlowOf(h) /\ Others(h) /\ PaidKept
    BY <1>2, StepEffect, PaidStays DEF Flow, FlowOf
  <2>1. \A e : TrueEntry(e) /\ Needs(e)' => Needs(e)
    BY <1>0, NeedsBefore
  <2>2. \A e, S : Needs(e)' /\ HasSource(e, ledger \cup S) => HasSource(e, ledger' \cup S)
    BY <2>0 DEF HasSource, PaidKept, Needs
  <2>3. \A g \in Procs \ {h} : \A e \in work'[g].todo : Needs(e)' => HasSource(e, ledger' \cup work'[g].todo)
    BY <2>0, <2>1, <2>2 DEF Others, Paired, LedgerTrue
  <2>4. \A e \in ledger : Needs(e)' => HasSource(e, ledger')
    BY <2>0, <2>1 DEF Paired, LedgerTrue, HasSource, PaidKept, Needs
  <2>5. ASSUME ledger' \subseteq ledger, \A e \in work'[h].todo : Needs(e)' => HasSource(e, ledger' \cup work'[h].todo)
        PROVE  Paired'
    BY <2>3, <2>4, <2>5 DEF Paired, Needs
  <2>6. CASE Quiet(h)
    BY <2>1, <2>2, <2>5, <2>6 DEF Quiet, Paired, LedgerTrue
  <2>7. CASE PurgeOrphans(h)
    <3>1. work'[h].todo = work[h].todo /\ ledger' \subseteq ledger
      BY <2>0, <2>7 DEF PurgeOrphans, Shape, FieldNames
    <3> QED BY <2>1, <2>2, <2>5, <3>1 DEF Paired, LedgerTrue
  <2>8. CASE PostEntry(h)
    <3>1. PICK e \in Foremost(work[h].todo) : Insert(e) /\ work'[h].todo = work[h].todo \ {e} /\ doc' = doc
      BY <2>8 DEF PostEntry
    <3>2. e \in work[h].todo /\ ledger \subseteq ledger' /\ Key(e) \in Keys(ledger') /\ ledger' \subseteq ledger \cup {e}
      BY <3>1 DEF Foremost, Insert, Keys
    <3>3. ASSUME NEW x, HasSource(x, ledger \cup work[h].todo) PROVE HasSource(x, ledger' \cup work'[h].todo)
      <4>1. PICK y \in ledger \cup work[h].todo : y.voucher = x.voucher /\ y.side = "actual" /\ y.reverses = x.reverses
        BY <3>3 DEF HasSource
      <4>2. CASE y \in ledger' \cup work'[h].todo
        BY <4>1, <4>2 DEF HasSource
      <4>3. CASE y = e
        BY <3>2, <4>1, <4>3 DEF HasSource, Key, Keys
      <4> QED BY <3>1, <3>2, <4>1, <4>2, <4>3
    <3>4. \A x \in work'[h].todo : Needs(x)' => HasSource(x, ledger' \cup work'[h].todo)
      BY <2>1, <3>1, <3>3 DEF Paired, LedgerTrue
    <3>5. ASSUME Needs(e)' PROVE HasSource(e, ledger')
      <4>1. HasSource(e, ledger \cup work[h].todo)
        BY <2>1, <3>2, <3>5 DEF Paired, LedgerTrue
      <4>2. \A y \in work[h].todo : ~(y.voucher = e.voucher /\ y.side = "actual")
        BY <3>1, <3>5 DEF Foremost, Needs
      <4> QED BY <3>2, <4>1, <4>2 DEF HasSource
    <3> QED BY <2>3, <2>4, <3>2, <3>4, <3>5 DEF Paired, Needs
  <2>9. CASE Commit(h) /\ doc[Cur(h)].status = "approved"
    <3>1. work'[h].todo = EntriesOf(Cur(h), ToPay(h), work[h].day) /\ ledger' = ledger
      BY <2>0, <2>9 DEF Commit, Shape, FieldNames
    <3>2. \A e \in work'[h].todo : HasSource(e, work'[h].todo)
      BY <3>1, EntriesSourced
    <3> QED BY <2>5, <3>1, <3>2 DEF HasSource
  <2>10. CASE RebuildLedger(h)
    <3>1. /\ work'[h].todo = UNION {EntriesOf(v, doc[v].paid, doc[v].day) :
                                     v \in {u \in Vouchers : doc[u].status = "paid"}}
          /\ ledger' = ledger
      BY <2>0, <2>10 DEF RebuildLedger, Shape, FieldNames
    <3>2. ASSUME NEW e \in work'[h].todo PROVE HasSource(e, work'[h].todo)
      <4>1. PICK v \in Vouchers : doc[v].status = "paid" /\ e \in EntriesOf(v, doc[v].paid, doc[v].day)
        BY <3>1
      <4>2. HasSource(e, EntriesOf(v, doc[v].paid, doc[v].day))
        BY <4>1, EntriesSourced
      <4> QED BY <3>1, <4>1, <4>2 DEF HasSource
    <3> QED BY <2>5, <3>1, <3>2 DEF HasSource
  <2>11. CASE ReadOriginals(h)
    <3>1. work'[h].todo = ReversalsOf(ledger, work[h].root) /\ ledger' = ledger /\ doc' = doc
      BY <2>0, <2>11 DEF ReadOriginals, Shape, FieldNames
    <3>2. SUFFICES ASSUME NEW e \in work'[h].todo, Needs(e) PROVE HasSource(e, work'[h].todo)
      BY <2>5, <3>1 DEF HasSource, Needs
    <3>3. PICK x \in ledger : x.voucher = work[h].root /\ ~x.reverses /\ e = Undo(x)
      BY <3>1, <3>2, ReversalsAre
    <3>4. x \in EntryShape /\ e.voucher = x.voucher /\ e.side = x.side /\ e.reverses
      BY <3>3, UndoUndone DEF LedgerTrue, TrueEntry
    <3>5. PICK y \in ledger : y.voucher = x.voucher /\ y.side = "actual" /\ y.reverses = x.reverses
      BY <3>2, <3>4 DEF Paired, Needs, HasSource
    <3>6. Undo(y) \in work'[h].todo
      BY <3>1, <3>3, <3>5, ReversalsAre
    <3>7. Undo(y).voucher = y.voucher /\ Undo(y).side = y.side /\ Undo(y).reverses /\ e.reverses = Undo(y).reverses
      BY <3>3, <3>4, <3>5, UndoUndone DEF LedgerTrue, TrueEntry, Undo, EntryShape
    <3> QED BY <3>4, <3>5, <3>6, <3>7 DEF HasSource
  <2> QED BY <1>2, <2>0, <2>6, <2>7, <2>8, <2>9, <2>10, <2>11, LedgerCases
<1>3. CASE UNCHANGED vars \/ \E v \in Cancellable : Cancel(v)
  BY <1>1, <1>3 DEF vars, Cancel
<1> QED BY <1>2, <1>3, NextCases

LEMMA MirrorHasSourceFollows == ASSUME Paired PROVE MirrorHasSource
BY DEF Paired, MirrorHasSource, Needs, HasSource

-----------------------------------------------------------------------------
(* Borrowing: a payment that has come to its next voucher has paid the one  *)
(* before it.                                                               *)
Posting == {"post", "view", "write", "report"}

BorrowFlow(h) ==
    work[h].task = "pay" =>
        /\ pc[h] \in Posting => doc[Cur(h)].paid # 0
        /\ Lender[work[h].root] # NoAccount /\ work[h].stage = "main" => Moved(work[h].root, "receipt") # {}
        /\ Lender[work[h].root] # NoAccount /\ work[h].stage = "receipt" /\ pc[h] \notin Searching =>
              Moved(work[h].root, "lend") # {}

Borrowed == BorrowBeforePay /\ \A h \in Procs : BorrowFlow(h)

LEMMA MovedIs ==
    ASSUME DocTrue, NEW d, NEW part
    PROVE  Moved(d, part) # {} <=> \E v \in Vouchers : PartOf(v, d, part) /\ doc[v].paid # 0
<1>1. \A v \in Vouchers : doc[v].paid > 0 <=> doc[v].paid # 0
  BY DEF DocTrue, DocTyped
<1> QED BY <1>1 DEF Moved, PartOf

LEMMA MovedStays ==
    ASSUME DocTrue, DocTrue', \A v \in Vouchers : Stays(v), NEW d, NEW part, Moved(d, part) # {}
    PROVE  Moved(d, part)' # {}
<1>1. PICK v \in Vouchers : v[1] = d /\ v[2] = part /\ doc[v].paid # 0
  BY DEF Moved, DocTrue, DocTyped
<1>2. doc'[v].paid # 0 /\ doc'[v].paid \in Nat
  BY <1>1 DEF Stays, DocTrue, DocTyped
<1> QED BY <1>1, <1>2 DEF Moved

(* Only a compare-and-set pays.                                             *)
LEMMA OnlyCommitPays ==
    ASSUME LedgerAssumption, Flow, DocTrue, NEW h \in Procs, StepOf(h),
           ~(Commit(h) /\ doc[Cur(h)].status = "approved")
    PROVE  \A v \in Vouchers : doc'[v].paid = doc[v].paid /\ (doc'[v].status = "paid" => doc[v].status = "paid")
<1>1. CASE doc' = doc
  BY <1>1
<1>2. CASE Unless(h)
  BY <1>1, <1>2, DocUnchanged
<1>3. CASE Commit(h)
  BY <1>1, <1>3 DEF Commit
<1>4. CASE CreateAutoVoucher(h)
  <2>1. PICK u : doc' = [doc EXCEPT ![u] = [@ EXCEPT !.status = "approved", !.amount = work[h].actual]]
    BY <1>4 DEF CreateAutoVoucher
  <2> QED BY <2>1 DEF DocTrue, DocTyped
<1>5. CASE RemoveDocument(h)
  BY <1>5 DEF RemoveDocument, DocTrue, DocTyped
<1> QED BY <1>2, <1>3, <1>4, <1>5 DEF Unless

LEMMA BorrowEnd ==
    ASSUME Shape, NEW h \in Procs, End(h)
    PROVE  BorrowFlow(h)'
BY EndEffect DEF BorrowFlow, NoWork

SameVoucher(h) ==
    /\ work'[h].task = work[h].task /\ work'[h].root = work[h].root /\ work'[h].stage = work[h].stage
    /\ work'[h].lend = work[h].lend /\ work'[h].receipt = work[h].receipt

LEMMA SameCur ==
    ASSUME NEW h \in Procs, FlowOf(h), SameVoucher(h)
    PROVE  Cur(h)' = Cur(h)
BY DEF Cur, SameVoucher, FlowOf, Control, Main

LEMMA BorrowSame ==
    ASSUME DocTrue, DocTrue', \A v \in Vouchers : Stays(v), NEW h \in Procs, FlowOf(h), BorrowFlow(h), SameVoucher(h),
           pc[h] \in Searching => pc'[h] \in Searching,
           work[h].task = "pay" /\ pc'[h] \in Posting => pc[h] \in Posting \/ doc'[Cur(h)].paid # 0
    PROVE  BorrowFlow(h)'
<1>1. ASSUME work[h].task = "pay", pc'[h] \in Posting PROVE doc'[Cur(h)'].paid # 0
  <2>1. pc[h] \notin Searching
    BY <1>1 DEF Posting, Searching
  <2>2. Cur(h) \in Vouchers
    BY <1>1, <2>1, CurVoucher DEF Paying
  <2> QED BY <1>1, <2>2, SameCur DEF BorrowFlow, Stays
<1>2. \A part : Moved(work[h].root, part) # {} => Moved(work[h].root, part)' # {}
  <2> DEFINE d == work[h].root
  <2>1. d' = d
    BY DEF SameVoucher
  <2>2. \A part : Moved(d, part) # {} => {v \in Vouchers : v[1] = d /\ v[2] = part /\ doc'[v].paid > 0} # {}
    <3> HIDE DEF d
    <3> QED BY MovedStays DEF Moved
  <2> QED BY <2>1, <2>2 DEF Moved
<1> QED BY <1>1, <1>2 DEF BorrowFlow, SameVoucher

LEMMA BorrowNextStage ==
    ASSUME DocTrue, DocTrue', \A v \in Vouchers : Stays(v), Shape, NEW h \in Procs, FlowOf(h), Paying(h),
           pc[h] \notin Searching, doc[Cur(h)].paid # 0, NextStage(h)
    PROVE  BorrowFlow(h)'
<1>1. CASE End(h)
  BY <1>1, BorrowEnd
<1>2. CASE ~End(h)
  <2>1. Cur(h) \in Vouchers /\ Cur(h)[1] = work[h].root /\ Cur(h)[2] = work[h].stage
    BY CurVoucher
  <2>2. Moved(work[h].root, work[h].stage) # {}
    BY <2>1, MovedIs DEF PartOf
  <2>3. /\ work'[h].root = work[h].root
        /\ \/ work[h].stage = "lend" /\ work'[h].stage = "receipt" /\ pc'[h] = "execute"
           \/ work[h].stage = "receipt" /\ work'[h].stage = "main" /\ pc'[h] = "check"
    BY <1>2, NextStageEffect
  <2>4. \A d, part : Moved(d, part) # {} => {v \in Vouchers : v[1] = d /\ v[2] = part /\ doc'[v].paid > 0} # {}
    BY MovedStays DEF Moved
  <2>5. {v \in Vouchers : v[1] = work'[h].root /\ v[2] = work[h].stage /\ doc'[v].paid > 0} # {}
    BY <2>2, <2>3, <2>4
  <2> QED BY <2>3, <2>5 DEF BorrowFlow, Posting, Searching, Moved
<1> QED BY <1>1, <1>2

LEMMA BorrowHave ==
    ASSUME Shape, NEW h \in Procs, NEW v, Have(h, v), work[h].stage \in {"lend", "receipt"}
    PROVE  BorrowFlow(h)'
BY HaveEffect DEF BorrowFlow, Posting, Searching

LEMMA CommitPays ==
    ASSUME LedgerAssumption, Flow, DocTrue, NEW h \in Procs, Commit(h), doc[Cur(h)].status = "approved"
    PROVE  /\ Cur(h) \in Vouchers /\ Cur(h)[1] = work[h].root /\ Cur(h)[2] = work[h].stage
           /\ Paying(h) /\ doc'[Cur(h)].paid # 0 /\ doc'[Cur(h)].status = "paid" /\ SameVoucher(h) /\ pc'[h] = "post"
           /\ \A v \in Vouchers \ {Cur(h)} : doc'[v] = doc[v]
<1>1. Paying(h) /\ FlowOf(h) /\ pc[h] \notin Searching
  BY DEF Commit, Flow, FlowOf, Control, Suits, PayOnly, Searching, Paying
<1>2. Cur(h) \in Vouchers /\ Cur(h)[1] = work[h].root /\ Cur(h)[2] = work[h].stage
  BY <1>1, CurVoucher
<1>3. doc' = [doc EXCEPT ![Cur(h)] = [@ EXCEPT !.status = "paid", !.paid = ToPay(h), !.day = work[h].day]]
  BY DEF Commit
<1>4. doc \in [Vouchers -> VoucherType]
  BY DEF DocTrue, DocTyped, VoucherType
<1>5. doc'[Cur(h)].paid = ToPay(h) /\ doc'[Cur(h)].status = "paid"
  BY <1>2, <1>3, <1>4 DEF VoucherType
<1>6. ToPay(h) # 0
  BY <1>1, ToPayTyped
<1>7. SameVoucher(h) /\ pc'[h] = "post"
  BY DEF Commit, Goto, Flow, Shape, FieldNames, SameVoucher
<1>8. \A v \in Vouchers \ {Cur(h)} : doc'[v] = doc[v]
  BY <1>3, <1>4
<1> QED BY <1>1, <1>2, <1>5, <1>6, <1>7, <1>8

LEMMA BorrowFlowStep ==
    ASSUME LedgerAssumption, Flow, DocTrue, NEW h \in Procs, BorrowFlow(h), StepOf(h),
           DocTrue', \A v \in Vouchers : Stays(v)
    PROVE  BorrowFlow(h)'
<1>0. Shape /\ FlowOf(h)
  BY DEF Flow, FlowOf
<1>1. ASSUME SameVoucher(h), pc[h] \in Searching => pc'[h] \in Searching,
             work[h].task = "pay" /\ pc'[h] \in Posting => pc[h] \in Posting
      PROVE  BorrowFlow(h)'
  BY <1>0, <1>1, BorrowSame
<1>2. ASSUME End(h) PROVE BorrowFlow(h)'
  BY <1>0, <1>2, BorrowEnd
<1>3. ASSUME work[h].task # "pay", SameVoucher(h) PROVE BorrowFlow(h)'
  BY <1>3 DEF SameVoucher, BorrowFlow
<1>4. ASSUME Paying(h), pc[h] \notin Searching, doc[Cur(h)].paid # 0, NextStage(h) PROVE BorrowFlow(h)'
  BY <1>0, <1>4, BorrowNextStage
<1>5. CASE StartPay(h)
  <2>1. PICK d \in Docs, actual \in Actuals, day \in PayDays :
           /\ work' = [work EXCEPT ![h] = [NoWork EXCEPT !.task = "pay", !.root = d, !.actual = actual, !.day = day,
                                  !.stage = IF Lender[d] # NoAccount THEN "lend" ELSE "main"]]
           /\ Goto(h, IF Lender[d] # NoAccount THEN "precheck" ELSE PayLabel(Main(d)))
    BY <1>5, ZenonT(60) DEF StartPay
  <2>2. pc'[h] \notin Posting
    BY <1>0, <2>1 DEF Goto, Shape, PayLabel, Posting
  <2>3. work'[h].root = d /\ work'[h].stage = IF Lender[d] # NoAccount THEN "lend" ELSE "main"
    BY <1>0, <2>1 DEF Shape, NoWork
  <2> QED BY <2>2, <2>3 DEF BorrowFlow
<1>6. CASE Precheck(h)
  <2>1. CASE Goto(h, "find") /\ UNCHANGED work
    BY <1>0, <1>1, <2>1 DEF Goto, Shape, SameVoucher, Searching, Posting
  <2> QED BY <1>6, <1>2, <2>1 DEF Precheck
<1>7. CASE FindBorrowVoucher(h)
  <2>1. CASE Goto(h, "create") /\ UNCHANGED work
    BY <1>0, <1>1, <2>1 DEF Goto, Shape, SameVoucher, Searching, Posting
  <2>2. work[h].stage \in {"lend", "receipt"}
    BY <1>0, <1>7 DEF FindBorrowVoucher, FlowOf, Control, Payment, Suits, PayOnly, Searching
  <2> QED BY <1>0, <1>7, <2>1, <2>2, BorrowHave DEF FindBorrowVoucher
<1>8. CASE CreateAutoVoucher(h)
  <2>1. work[h].stage \in {"lend", "receipt"}
    BY <1>0, <1>8 DEF CreateAutoVoucher, FlowOf, Control, Payment, Suits, PayOnly, Searching
  <2> QED BY <1>0, <1>8, <2>1, BorrowHave DEF CreateAutoVoucher
<1>9. CASE ExecuteAutoVoucher(h)
  <2>1. Paying(h) /\ pc[h] \notin Searching
    BY <1>0, <1>9 DEF ExecuteAutoVoucher, FlowOf, Control, Suits, PayOnly, Searching, Paying
  <2>2. doc[Cur(h)].status = "paid" => doc[Cur(h)].paid # 0
    BY <1>0, <2>1, CurVoucher DEF DocTrue
  <2>3. CASE Goto(h, PayLabel(Cur(h))) /\ UNCHANGED work
    BY <1>0, <1>1, <1>9, <2>3 DEF ExecuteAutoVoucher, Goto, Shape, PayLabel, SameVoucher, Searching, Posting
  <2> QED BY <1>9, <1>2, <1>4, <2>1, <2>2, <2>3 DEF ExecuteAutoVoucher
<1>10. CASE CheckBalance(h)
  <2>1. CASE Goto(h, "commit") /\ UNCHANGED work
    BY <1>0, <1>1, <1>10, <2>1 DEF CheckBalance, Goto, Shape, SameVoucher, Searching, Posting
  <2> QED BY <1>10, <1>2, <2>1 DEF CheckBalance
<1>11. CASE Commit(h)
  <2>1. CASE doc[Cur(h)].status = "approved"
    <3>1. SameVoucher(h) /\ doc'[Cur(h)].paid # 0 /\ pc'[h] = "post" /\ pc[h] = "commit"
      BY <1>11, <2>1, CommitPays DEF Commit
    <3> QED BY <1>0, <3>1, BorrowSame DEF Searching
  <2> QED BY <1>11, <1>2, <2>1 DEF Commit
<1>12. CASE QueueReconcile(h)
  <2>1. Paying(h) /\ pc[h] \notin Searching /\ pc[h] \in Posting
    BY <1>0, <1>12 DEF QueueReconcile, FlowOf, Control, Suits, PayOnly, Searching, Paying, Posting
  <2>2. doc[Cur(h)].paid # 0
    BY <2>1 DEF BorrowFlow, Paying
  <2> QED BY <1>12, <1>4, <2>1, <2>2 DEF QueueReconcile
<1>13. CASE StartDelete(h) \/ StartJob(h)
  <2>1. CASE StartDelete(h)
    <3>1. PICK v : work' = [work EXCEPT ![h] = [NoWork EXCEPT !.task = "delete", !.root = v]]
      BY <2>1 DEF StartDelete
    <3> QED BY <1>0, <3>1 DEF Shape, NoWork, BorrowFlow
  <2>2. CASE StartJob(h)
    <3>1. work' = [work EXCEPT ![h] = [NoWork EXCEPT !.task = "job", !.asked = queued]]
      BY <2>2 DEF StartJob
    <3> QED BY <1>0, <3>1 DEF Shape, NoWork, BorrowFlow
  <2> QED BY <1>13, <2>1, <2>2
<1>14. CASE ReadOriginals(h) \/ RebuildLedger(h) \/ ClearBalances(h)
  <2>1. work[h].task # "pay"
    BY <1>0, <1>14 DEF ReadOriginals, RebuildLedger, ClearBalances, FlowOf, Control, Suits
  <2>2. SameVoucher(h)
    BY <1>0, <1>14 DEF ReadOriginals, RebuildLedger, ClearBalances, Shape, FieldNames, SameVoucher
  <2> QED BY <1>3, <2>1, <2>2
<1>15. CASE PurgeOrphans(h)
  BY <1>0, <1>3, <1>15 DEF PurgeOrphans, FlowOf, Control, Suits, Shape, FieldNames, SameVoucher
<1>16. CASE ReadOrphans(h)
  BY <1>0, <1>16 DEF ReadOrphans, Shape, FieldNames, BorrowFlow
<1>17. CASE RemoveDocument(h) \/ FinishReconcile(h) \/ Crash(h)
  BY <1>2, <1>17 DEF RemoveDocument, FinishReconcile, Crash
<1>18. CASE Post(h)
  <2>1. SameVoucher(h) /\ pc[h] = "post"
    BY <1>0, <1>18 DEF Post, Shape, FieldNames, SameVoucher
  <2> QED BY <1>1, <2>1 DEF Searching, Posting
<1>19. CASE ReadBalances(h) \/ WriteBalance(h)
  <2>1. SameVoucher(h) /\ pc[h] \in {"view", "write"}
    <3>1. CASE ReadBalances(h)
      BY <1>0, <3>1 DEF ReadBalances, Shape, FieldNames, SameVoucher
    <3>2. CASE WriteBalance(h)
      BY <1>0, <3>2 DEF WriteBalance, Shape, FieldNames, SameVoucher
    <3> QED BY <1>19, <3>1, <3>2
  <2> QED BY <1>1, <2>1 DEF Searching, Posting
<1>20. CASE BalancesDone(h)
  <2>1. CASE Paying(h)
    <3>1. NextStage(h) /\ pc[h] = "view"
      BY <1>20, <2>1 DEF BalancesDone, Paying
    <3>2. doc[Cur(h)].paid # 0
      BY <2>1, <3>1 DEF BorrowFlow, Paying, Posting
    <3> QED BY <1>4, <2>1, <3>1, <3>2 DEF Searching
  <2>2. CASE ~Paying(h)
    <3>1. UNCHANGED work \/ End(h)
      BY <1>20, <2>2 DEF BalancesDone
    <3>2. CASE UNCHANGED work
      BY <1>3, <2>2, <3>2 DEF SameVoucher, Paying
    <3> QED BY <1>2, <3>1, <3>2
  <2> QED BY <2>1, <2>2
<1>21. CASE DbError(h)
  <2>1. CASE Committed(h)
    <3>1. SameVoucher(h) /\ pc[h] \in Posting
      BY <1>0, <1>21, <2>1 DEF DbError, Committed, Shape, FieldNames, SameVoucher, Posting
    <3> QED BY <1>1, <3>1 DEF Searching, Posting
  <2> QED BY <1>2, <1>21, <2>1 DEF DbError
<1> QED
  BY <1>5, <1>6, <1>7, <1>8, <1>9, <1>10, <1>11, <1>12, <1>13, <1>14, <1>15, <1>16, <1>17, <1>18, <1>19, <1>20, <1>21
     DEF StepOf, PayStep, BooksStep, DeleteStep, JobStep

LEMMA BorrowOther ==
    ASSUME DocTrue, DocTrue', \A v \in Vouchers : Stays(v), NEW h \in Procs, FlowOf(h), BorrowFlow(h),
           pc'[h] = pc[h], work'[h] = work[h]
    PROVE  BorrowFlow(h)'
BY BorrowSame DEF SameVoucher

(* Paying one voucher more keeps the order.                                 *)
LEMMA OrderKept ==
    ASSUME LedgerAssumption, Flow, DocTrue, Borrowed, DocTrue', \A v \in Vouchers : Stays(v),
           NEW h \in Procs, StepOf(h)
    PROVE  BorrowBeforePay'
<1>1. \A d, part : Moved(d, part) # {} <=> \E v \in Vouchers : PartOf(v, d, part) /\ doc[v].paid # 0
  BY MovedIs
<1>2. \A d, part : Moved(d, part)' # {} <=> \E v \in Vouchers : PartOf(v, d, part) /\ doc'[v].paid # 0
  <2>1. \A v \in Vouchers : doc'[v].paid > 0 <=> doc'[v].paid # 0
    BY DEF DocTrue, DocTyped
  <2> QED BY <2>1 DEF Moved, PartOf
<1>3. \A d, part : Moved(d, part) # {} => Moved(d, part)' # {}
  BY <1>1, <1>2 DEF Stays
<1>4. CASE Commit(h) /\ doc[Cur(h)].status = "approved"
  <2>1. /\ Cur(h)[1] = work[h].root /\ Cur(h)[2] = work[h].stage /\ work[h].task = "pay" /\ pc[h] = "commit"
        /\ \A v \in Vouchers \ {Cur(h)} : doc'[v] = doc[v]
    BY <1>4, CommitPays DEF Paying, Commit
  <2>2. \A d, part : Moved(d, part)' # {} => Moved(d, part) # {} \/ (d = work[h].root /\ part = work[h].stage)
    BY <1>1, <1>2, <2>1 DEF PartOf
  <2>3. Lender[work[h].root] # NoAccount =>
           /\ work[h].stage = "main" => Moved(work[h].root, "receipt") # {}
           /\ work[h].stage = "receipt" => Moved(work[h].root, "lend") # {}
    BY <2>1 DEF Borrowed, BorrowFlow, Searching
  <2>4. \A d \in Docs : Lender[d] # NoAccount =>
           /\ Moved(d, "main")' # {} => Moved(d, "receipt")' # {}
           /\ Moved(d, "receipt")' # {} => Moved(d, "lend")' # {}
    BY <1>3, <2>2, <2>3 DEF Borrowed, BorrowBeforePay
  <2> QED BY <2>4 DEF BorrowBeforePay
<1>5. CASE ~(Commit(h) /\ doc[Cur(h)].status = "approved")
  <2>1. \A d, part : Moved(d, part)' # {} <=> Moved(d, part) # {}
    BY <1>1, <1>2, <1>5, OnlyCommitPays
  <2> QED BY <2>1 DEF Borrowed, BorrowBeforePay
<1> QED BY <1>4, <1>5

LEMMA BorrowStep ==
    ASSUME LedgerAssumption, Flow, DocTrue, Borrowed, [Next]_vars
    PROVE  Borrowed'
<1>0. DocTrue' /\ \A v \in Vouchers : Stays(v)
  BY DocStep
<1>1. ASSUME UNCHANGED <<pc, work>>, \A v \in Vouchers : doc'[v].paid = doc[v].paid PROVE Borrowed'
  <2>1. BorrowBeforePay'
    BY <1>1 DEF Borrowed, BorrowBeforePay, Moved
  <2> QED BY <1>0, <1>1, <2>1, BorrowOther DEF Borrowed, Flow, FlowOf
<1>2. CASE UNCHANGED vars
  BY <1>1, <1>2 DEF vars
<1>3. CASE \E v \in Cancellable : Cancel(v)
  BY <1>1, <1>3 DEF Cancel, DocTrue, DocTyped
<1>4. ASSUME NEW h \in Procs, StepOf(h) PROVE Borrowed'
  <2>1. Others(h)
    BY <1>4, StepEffect DEF Flow
  <2>2. BorrowFlow(h)'
    BY <1>0, <1>4, BorrowFlowStep DEF Borrowed
  <2>3. \A g \in Procs \ {h} : BorrowFlow(g)'
    BY <1>0, <2>1, BorrowOther DEF Borrowed, Flow, FlowOf, Others
  <2>4. BorrowBeforePay'
    BY <1>0, <1>4, OrderKept
  <2> QED BY <2>2, <2>3, <2>4 DEF Borrowed
<1> QED BY <1>2, <1>3, <1>4, NextCases

-----------------------------------------------------------------------------
(* What was paid is not forgotten: who has to post the entries of a paid    *)
(* voucher has all that are not in the ledger, and a job drops a voucher    *)
(* from the queue only with its entries in the ledger.                      *)
Covered(v, todo) ==
    doc[v].status = "paid" => EntriesOf(v, doc[v].paid, doc[v].day) \subseteq ledger \cup todo

CoveredNext(v, todo) ==
    doc'[v].status = "paid" => EntriesOf(v, doc'[v].paid, doc'[v].day) \subseteq ledger' \cup todo

AllPosted == {"clear", "view", "write", "finish"}

JobFlow(h) ==
    work[h].task = "job" =>
        /\ \A v \in work[h].asked : v \in Vouchers /\ Settled(v)
        /\ pc[h] = "post" => \A v \in work[h].asked : Covered(v, work[h].todo)
        /\ pc[h] \in AllPosted => \A v \in work[h].asked : Covered(v, {})

PayFlow(h) == Paying(h) /\ pc[h] = "post" => Covered(Cur(h), work[h].todo)

QueuedPaid == \A v \in queued : v \in Vouchers /\ Settled(v)

Remembered == QueuedPaid /\ (\A h \in Procs : JobFlow(h)) /\ (\A h \in Procs : PayFlow(h)) /\ NothingForgotten

LEMMA CoveredStays ==
    ASSUME NEW v \in Vouchers, Settled(v), Stays(v), PaidKept, NEW todo, Covered(v, todo)
    PROVE  CoveredNext(v, todo)
<1> SUFFICES ASSUME doc'[v].status = "paid", NEW e \in EntriesOf(v, doc'[v].paid, doc'[v].day)
             PROVE  e \in ledger' \cup todo
  BY DEF CoveredNext
<1>1. doc[v].status = "paid" /\ doc'[v].paid = doc[v].paid /\ doc'[v].day = doc[v].day
  BY DEF Stays, Settled
<1>2. e \in ledger \cup todo /\ e.voucher = v
  BY <1>1, EntriesSides DEF Covered
<1> QED BY <1>2 DEF PaidKept

(* Posting an entry covers what was covered, also where its key is there.   *)
LEMMA PostCovers ==
    ASSUME LedgerTrue, NEW todo, NEW e \in todo, Insert(e), NEW v, Covered(v, todo), doc' = doc
    PROVE  CoveredNext(v, todo \ {e})
<1> SUFFICES ASSUME doc[v].status = "paid", NEW x \in EntriesOf(v, doc[v].paid, doc[v].day)
             PROVE  x \in ledger' \cup (todo \ {e})
  BY DEF CoveredNext
<1>1. x \in ledger \cup todo
  BY DEF Covered
<1>2. ledger \subseteq ledger'
  BY DEF Insert
<1>3. CASE x # e \/ Key(e) \notin Keys(ledger)
  BY <1>1, <1>2, <1>3 DEF Insert
<1>4. CASE x = e /\ Key(e) \in Keys(ledger)
  <2>1. PICK f \in ledger : f.voucher = e.voucher /\ f.side = e.side /\ f.reverses = e.reverses
    BY <1>4 DEF Keys, Key
  <2>2. x.voucher = v /\ x.reverses = FALSE
    BY EntriesSides, EntriesUnreversed
  <2>3. f \in EntriesOf(v, doc[v].paid, doc[v].day)
    BY <1>4, <2>1, <2>2 DEF LedgerTrue, TrueEntry
  <2>4. f = x
    BY <1>4, <2>1, <2>3, EntriesSides
  <2> QED BY <1>2, <2>4
<1> QED BY <1>3, <1>4

LEMMA JobOther ==
    ASSUME \A v \in Vouchers : Stays(v), PaidKept, NEW h \in Procs, JobFlow(h), work'[h].task = work[h].task,
           work'[h].asked = work[h].asked, work'[h].todo = work[h].todo,
           pc'[h] = "post" => pc[h] = "post", pc'[h] \in AllPosted => pc[h] \in AllPosted
    PROVE  JobFlow(h)'
<1> SUFFICES ASSUME work[h].task = "job" PROVE JobFlow(h)'
  BY DEF JobFlow
<1>1. \A v \in work[h].asked : v \in Vouchers /\ Settled(v) /\ Settled(v)'
  BY DEF JobFlow, Stays, Settled
<1>2. ASSUME NEW v \in work[h].asked, NEW todo, Covered(v, todo) PROVE CoveredNext(v, todo)
  BY <1>1, <1>2, CoveredStays
<1>3. pc'[h] = "post" => \A v \in work[h].asked : CoveredNext(v, work[h].todo)
  BY <1>2 DEF JobFlow
<1>4. pc'[h] \in AllPosted => \A v \in work[h].asked : CoveredNext(v, {})
  BY <1>2 DEF JobFlow
<1> QED BY <1>1, <1>3, <1>4 DEF JobFlow, Covered, CoveredNext, Settled

LEMMA PayOther ==
    ASSUME DocTrue, \A v \in Vouchers : Stays(v), PaidKept, NEW h \in Procs, FlowOf(h), BorrowFlow(h), PayFlow(h),
           pc'[h] = pc[h], work'[h] = work[h]
    PROVE  PayFlow(h)'
<1> SUFFICES ASSUME Paying(h), pc[h] = "post" PROVE CoveredNext(Cur(h), work[h].todo)
  <2>1. Cur(h)' = Cur(h)
    BY SameCur DEF SameVoucher
  <2> QED BY <2>1 DEF PayFlow, Covered, CoveredNext, Paying
<1>1. Cur(h) \in Vouchers
  BY CurVoucher DEF Searching
<1>2. Settled(Cur(h))
  BY <1>1 DEF BorrowFlow, Posting, Paying, DocTrue, Settled
<1>3. Covered(Cur(h), work[h].todo)
  BY DEF PayFlow
<1> QED BY <1>1, <1>2, <1>3, CoveredStays

LEMMA QueueCases ==
    ASSUME NEW h \in Procs, StepOf(h)
    PROVE  /\ lost \subseteq lost'
           /\ queued \subseteq queued' \/ FinishReconcile(h)
           /\ queued' \subseteq queued \/ QueueReconcile(h)
BY DEF StepOf, StartPay, StartDelete, PayStep, DeleteStep, JobStep, BooksStep, DbError, Crash, Precheck,
       FindBorrowVoucher, CreateAutoVoucher, ExecuteAutoVoucher, CheckBalance, Commit, QueueReconcile,
       ReadOriginals, RemoveDocument, StartJob, RebuildLedger, ClearBalances, FinishReconcile, ReadOrphans,
       PurgeOrphans, Post, ReadBalances, WriteBalance, BalancesDone

LEMMA NotJob == ASSUME NEW h \in Procs, work'[h].task # "job" PROVE JobFlow(h)'
BY DEF JobFlow

(* A step of a payment or a deletion is none of a job's.                    *)
LEMMA JobFlowStep ==
    ASSUME LedgerAssumption, Flow, DocTrue, LedgerTrue, QueuedPaid, NEW h \in Procs, JobFlow(h), StepOf(h),
           \A v \in Vouchers : Stays(v), PaidKept
    PROVE  JobFlow(h)'
<1>0. Shape /\ FlowOf(h)
  BY DEF Flow, FlowOf
<1>1. ASSUME End(h) PROVE JobFlow(h)'
  BY <1>0, <1>1, EndEffect, NotJob DEF NoWork
<1>2. ASSUME SameVoucher(h), work[h].task # "job" PROVE JobFlow(h)'
  BY <1>2, NotJob DEF SameVoucher
<1>3. CASE StartPay(h) \/ StartDelete(h)
  <2>1. work'[h].task # "job"
    <3>1. CASE StartPay(h)
      <4>1. PICK d \in Docs, actual \in Actuals, day \in PayDays :
               /\ work' = [work EXCEPT ![h] = [NoWork EXCEPT !.task = "pay", !.root = d, !.actual = actual, !.day = day,
                                      !.stage = IF Lender[d] # NoAccount THEN "lend" ELSE "main"]]
               /\ Goto(h, IF Lender[d] # NoAccount THEN "precheck" ELSE PayLabel(Main(d)))
        BY <3>1, ZenonT(60) DEF StartPay
      <4> QED BY <1>0, <4>1 DEF Shape, NoWork
    <3>2. CASE StartDelete(h)
      <4>1. PICK v : work' = [work EXCEPT ![h] = [NoWork EXCEPT !.task = "delete", !.root = v]]
        BY <3>2 DEF StartDelete
      <4> QED BY <1>0, <4>1 DEF Shape, NoWork
    <3> QED BY <1>3, <3>1, <3>2
  <2> QED BY <2>1, NotJob
<1>4. CASE PayStep(h)
  <2>1. Paying(h)
    BY <1>0, <1>4 DEF PayStep, Precheck, FindBorrowVoucher, CreateAutoVoucher, ExecuteAutoVoucher, CheckBalance,
       Commit, QueueReconcile, FlowOf, Control, Suits, PayOnly, Searching, Paying
  <2>2. work'[h].task # "job"
    <3>1. CASE Precheck(h)
      BY <1>0, <2>1, <3>1, EndEffect DEF Precheck, NoWork, Paying
    <3>2. CASE FindBorrowVoucher(h)
      BY <1>0, <2>1, <3>2, HaveEffect DEF FindBorrowVoucher, Paying
    <3>3. CASE CreateAutoVoucher(h)
      BY <1>0, <2>1, <3>3, HaveEffect DEF CreateAutoVoucher, Paying
    <3>4. CASE ExecuteAutoVoucher(h)
      BY <1>0, <2>1, <3>4, EndEffect, NextStageEffect DEF ExecuteAutoVoucher, NoWork, Paying
    <3>5. CASE CheckBalance(h)
      BY <1>0, <2>1, <3>5, EndEffect DEF CheckBalance, NoWork, Paying
    <3>6. CASE Commit(h)
      <4>1. CASE doc[Cur(h)].status = "approved"
        BY <2>1, <3>6, <4>1, CommitPays DEF SameVoucher, Paying
      <4>2. CASE doc[Cur(h)].status # "approved"
        BY <1>0, <3>6, <4>2, EndEffect DEF Commit, NoWork
      <4> QED BY <4>1, <4>2
    <3>7. CASE QueueReconcile(h)
      BY <1>0, <2>1, <3>7, EndEffect, NextStageEffect DEF QueueReconcile, NoWork, Paying
    <3> QED BY <1>4, <3>1, <3>2, <3>3, <3>4, <3>5, <3>6, <3>7 DEF PayStep
  <2> QED BY <2>2, NotJob
<1>5. CASE ReadOriginals(h)
  BY <1>0, <1>2, <1>5 DEF ReadOriginals, FlowOf, Control, Suits, Shape, FieldNames, SameVoucher
<1>6. CASE RemoveDocument(h) \/ FinishReconcile(h) \/ Crash(h)
  BY <1>1, <1>6 DEF RemoveDocument, FinishReconcile, Crash
<1>7. CASE StartJob(h)
  <2>1. work' = [work EXCEPT ![h] = [NoWork EXCEPT !.task = "job", !.asked = queued]] /\ Goto(h, "rebuild") /\ doc' = doc
    BY <1>7 DEF StartJob
  <2>2. work'[h].asked = queued /\ pc'[h] = "rebuild"
    BY <1>0, <2>1 DEF Goto, Shape, NoWork
  <2> QED BY <2>1, <2>2 DEF JobFlow, QueuedPaid, Settled, AllPosted
<1>8. CASE RebuildLedger(h)
  <2>1. /\ work'[h].todo = UNION {EntriesOf(v, doc[v].paid, doc[v].day) :
                                     v \in {u \in Vouchers : doc[u].status = "paid"}}
        /\ work'[h].asked = work[h].asked /\ pc'[h] = "post" /\ doc' = doc /\ work[h].task = "job"
    BY <1>0, <1>8 DEF RebuildLedger, Goto, Shape, FieldNames, FlowOf, Control, Suits
  <2>2. \A v \in work[h].asked : v \in Vouchers /\ Settled(v) /\ CoveredNext(v, work'[h].todo)
    BY <2>1 DEF JobFlow, CoveredNext
  <2> QED BY <2>1, <2>2 DEF JobFlow, Covered, CoveredNext, Settled, AllPosted
<1>9. CASE Post(h)
  <2>1. CASE work[h].task # "job"
    <3>1. SameVoucher(h)
      BY <1>0, <1>9 DEF Post, Shape, FieldNames, SameVoucher
    <3> QED BY <1>2, <2>1, <3>1
  <2>2. CASE work[h].task = "job" /\ work[h].todo = {}
    <3>1. pc'[h] = "clear" /\ work' = work /\ ledger' = ledger /\ doc' = doc /\ pc[h] = "post"
      BY <1>0, <1>9, <2>2 DEF Post, Goto, Shape
    <3>2. \A v \in work[h].asked : v \in Vouchers /\ Settled(v) /\ Covered(v, {})
      BY <2>2, <3>1 DEF JobFlow
    <3> QED BY <3>1, <3>2 DEF JobFlow, Covered, Settled, AllPosted
  <2>3. CASE work[h].task = "job" /\ work[h].todo # {}
    <3>1. PICK e \in Foremost(work[h].todo) : Insert(e) /\ work' = [work EXCEPT ![h].todo = @ \ {e}]
      BY <1>9, <2>3 DEF Post
    <3>2. e \in work[h].todo
      BY <3>1 DEF Foremost
    <3>3. /\ work'[h].todo = work[h].todo \ {e} /\ work'[h].asked = work[h].asked
          /\ pc'[h] = "post" /\ pc[h] = "post" /\ doc' = doc
      BY <1>0, <1>9, <2>3, <3>1, ZenonT(60) DEF Post, Shape, FieldNames
    <3>4. \A v \in work[h].asked : v \in Vouchers /\ Settled(v) /\ Covered(v, work[h].todo)
      BY <2>3, <3>3 DEF JobFlow
    <3>5. \A v \in work[h].asked : CoveredNext(v, work'[h].todo)
      BY <3>1, <3>2, <3>3, <3>4, PostCovers
    <3> QED BY <3>3, <3>4, <3>5 DEF JobFlow, Covered, CoveredNext, Settled, AllPosted
  <2> QED BY <2>1, <2>2, <2>3
<1>10. CASE ClearBalances(h)
  <2>1. /\ work'[h].task = work[h].task /\ work'[h].asked = work[h].asked /\ work'[h].todo = work[h].todo
        /\ pc[h] = "clear" /\ pc'[h] = "view"
    BY <1>0, <1>10 DEF ClearBalances, Goto, Shape, FieldNames
  <2> QED BY <2>1, JobOther DEF AllPosted
<1>11. CASE ReadBalances(h)
  <2>1. /\ work'[h].task = work[h].task /\ work'[h].asked = work[h].asked /\ work'[h].todo = work[h].todo
        /\ pc[h] = "view" /\ pc'[h] = "write"
    BY <1>0, <1>11 DEF ReadBalances, Goto, Shape, FieldNames
  <2> QED BY <2>1, JobOther DEF AllPosted
<1>12. CASE WriteBalance(h)
  <2>1. /\ work'[h].task = work[h].task /\ work'[h].asked = work[h].asked /\ work'[h].todo = work[h].todo
        /\ pc[h] = "write" /\ pc'[h] \in {"view", "write"}
    BY <1>0, <1>12 DEF WriteBalance, Goto, Shape, FieldNames
  <2> QED BY <2>1, JobOther DEF AllPosted
<1>13. CASE BalancesDone(h)
  <2>1. CASE Paying(h)
    <3>1. NextStage(h)
      BY <1>13, <2>1 DEF BalancesDone, Paying
    <3>2. work'[h].task # "job"
      BY <1>0, <2>1, <3>1, EndEffect, NextStageEffect DEF NoWork, Paying
    <3> QED BY <3>2, NotJob
  <2>2. CASE work[h].task = "job"
    <3>1. pc'[h] = "finish" /\ work' = work /\ pc[h] = "view"
      BY <1>0, <1>13, <2>2 DEF BalancesDone, Paying, Goto, Shape
    <3> QED BY <3>1, JobOther DEF AllPosted
  <2>3. CASE ~Paying(h) /\ work[h].task # "job"
    <3>1. work' = work \/ End(h)
      BY <1>13, <2>3 DEF BalancesDone
    <3>2. CASE work' = work
      BY <1>2, <2>3, <3>2 DEF SameVoucher
    <3> QED BY <1>1, <3>1, <3>2
  <2> QED BY <2>1, <2>2, <2>3
<1>14. CASE ReadOrphans(h)
  <2>1. work'[h].task = "purge"
    BY <1>0, <1>14 DEF ReadOrphans, Shape, FieldNames
  <2> QED BY <2>1, NotJob
<1>15. CASE PurgeOrphans(h)
  BY <1>0, <1>2, <1>15 DEF PurgeOrphans, FlowOf, Control, Suits, Shape, FieldNames, SameVoucher
<1>16. CASE DbError(h)
  <2>1. CASE Committed(h)
    <3>1. work'[h].task = work[h].task /\ work[h].task = "pay"
      BY <1>0, <1>16, <2>1 DEF DbError, Committed, Paying, Shape, FieldNames
    <3> QED BY <3>1, NotJob
  <2> QED BY <1>1, <1>16, <2>1 DEF DbError
<1> QED
  BY <1>3, <1>4, <1>5, <1>6, <1>7, <1>8, <1>9, <1>10, <1>11, <1>12, <1>13, <1>14, <1>15, <1>16
     DEF StepOf, BooksStep, DeleteStep, JobStep

LEMMA NotPosting == ASSUME NEW h \in Procs, pc'[h] # "post" \/ work'[h].task # "pay" PROVE PayFlow(h)'
BY DEF PayFlow, Paying

LEMMA PayFlowStep ==
    ASSUME LedgerAssumption, Flow, DocTrue, LedgerTrue, NEW h \in Procs, PayFlow(h), StepOf(h)
    PROVE  PayFlow(h)'
<1>0. Shape /\ FlowOf(h)
  BY DEF Flow, FlowOf
<1>1. ASSUME End(h) PROVE PayFlow(h)'
  BY <1>0, <1>1, EndEffect, NotPosting
<1>2. CASE Commit(h)
  <2>1. CASE doc[Cur(h)].status = "approved"
    <3>1. work'[h].todo = EntriesOf(Cur(h), ToPay(h), work[h].day)
      BY <1>0, <1>2, <2>1 DEF Commit, Shape, FieldNames
    <3>2. Cur(h)' = Cur(h) /\ Cur(h) \in Vouchers
      BY <1>0, <1>2, <2>1, CommitPays, SameCur
    <3>3. doc'[Cur(h)].paid = ToPay(h) /\ doc'[Cur(h)].day = work[h].day
      <4>1. doc' = [doc EXCEPT ![Cur(h)] = [@ EXCEPT !.status = "paid", !.paid = ToPay(h), !.day = work[h].day]]
        BY <1>2, <2>1 DEF Commit
      <4>2. doc \in [Vouchers -> VoucherType]
        BY DEF DocTrue, DocTyped, VoucherType
      <4> QED BY <3>2, <4>1, <4>2 DEF VoucherType
    <3>4. CoveredNext(Cur(h), work'[h].todo)
      BY <3>1, <3>3 DEF CoveredNext
    <3> QED BY <3>2, <3>4 DEF PayFlow, Covered, CoveredNext
  <2> QED BY <1>1, <1>2, <2>1 DEF Commit
<1>3. CASE Post(h)
  <2>1. CASE work[h].todo = {}
    <3>1. pc'[h] # "post"
      BY <1>0, <1>3, <2>1 DEF Post, Goto, Shape
    <3> QED BY <3>1, NotPosting
  <2>2. CASE work[h].todo # {}
    <3>1. PICK e \in Foremost(work[h].todo) : Insert(e) /\ work' = [work EXCEPT ![h].todo = @ \ {e}]
      BY <1>3, <2>2 DEF Post
    <3>2. e \in work[h].todo
      BY <3>1 DEF Foremost
    <3>3. work'[h].todo = work[h].todo \ {e} /\ pc[h] = "post" /\ doc' = doc /\ SameVoucher(h)
      BY <1>0, <1>3, <2>2, <3>1 DEF Post, Shape, FieldNames, SameVoucher
    <3>4. ASSUME Paying(h) PROVE CoveredNext(Cur(h), work'[h].todo)
      BY <3>1, <3>2, <3>3, <3>4, PostCovers DEF PayFlow
    <3>5. Cur(h)' = Cur(h) /\ (Paying(h)' => Paying(h))
      BY <1>0, <3>3, SameCur DEF SameVoucher, Paying
    <3> QED BY <3>4, <3>5 DEF PayFlow, Covered, CoveredNext
  <2> QED BY <2>1, <2>2
<1>4. CASE RebuildLedger(h) \/ ReadOriginals(h)
  <2>1. work'[h].task # "pay"
    BY <1>0, <1>4 DEF RebuildLedger, ReadOriginals, FlowOf, Control, Suits, Shape, FieldNames
  <2> QED BY <2>1, NotPosting
<1>5. CASE ~(Commit(h) \/ Post(h) \/ RebuildLedger(h) \/ ReadOriginals(h))
  <2>1. CASE StartPay(h) \/ StartDelete(h) \/ StartJob(h)
    <3>1. pc'[h] # "post"
      BY <1>0, <2>1 DEF StartPay, StartDelete, StartJob, Goto, PayLabel, Shape
    <3> QED BY <3>1, NotPosting
  <2>2. CASE Precheck(h) \/ FindBorrowVoucher(h) \/ CreateAutoVoucher(h)
    <3>1. pc'[h] # "post"
      BY <1>0, <2>2, HaveEffect, EndEffect, ZenonT(60) DEF Precheck, FindBorrowVoucher, CreateAutoVoucher, Goto, Shape
    <3> QED BY <3>1, NotPosting
  <2>3. CASE ExecuteAutoVoucher(h) \/ QueueReconcile(h) \/ BalancesDone(h)
    <3>1. ASSUME NextStage(h) PROVE PayFlow(h)'
      BY <1>0, <1>1, <3>1, NextStageEffect, NotPosting
    <3>2. ASSUME NEW l, Goto(h, l), l # "post" PROVE PayFlow(h)'
      BY <1>0, <3>2, NotPosting DEF Goto, Shape
    <3> QED BY <2>3, <1>1, <3>1, <3>2 DEF ExecuteAutoVoucher, QueueReconcile, BalancesDone, PayLabel
  <2>4. CASE CheckBalance(h) \/ RemoveDocument(h) \/ FinishReconcile(h) \/ Crash(h) \/ DbError(h)
    <3>1. ASSUME NEW l, Goto(h, l), l # "post" PROVE PayFlow(h)'
      BY <1>0, <3>1, NotPosting DEF Goto, Shape
    <3> QED BY <2>4, <1>1, <3>1 DEF CheckBalance, RemoveDocument, FinishReconcile, Crash, DbError
  <2>5. CASE ClearBalances(h) \/ ReadOrphans(h) \/ PurgeOrphans(h) \/ ReadBalances(h)
    BY <1>0, <2>5, NotPosting DEF ClearBalances, ReadOrphans, PurgeOrphans, ReadBalances, Goto, Shape
  <2>6. CASE WriteBalance(h)
    BY <1>0, <2>6, NotPosting DEF WriteBalance, Goto, Shape
  <2> QED BY <1>5, <2>1, <2>2, <2>3, <2>4, <2>5, <2>6 DEF StepOf, PayStep, BooksStep, DeleteStep, JobStep
<1> QED BY <1>2, <1>3, <1>4, <1>5

(* What happens to a voucher that is paid and not yet booked.               *)
LEMMA ForgottenStep ==
    ASSUME LedgerAssumption, Flow, DocTrue, LedgerTrue, Remembered, NEW h \in Procs, StepOf(h),
           DocTrue', \A v \in Vouchers : Stays(v), PaidKept
    PROVE  NothingForgotten'
<1>0. Shape /\ FlowOf(h) /\ Others(h)
  BY StepEffect DEF Flow, FlowOf
<1> DEFINE Waits(g, v) == Paying(g) /\ pc[g] \in {"post", "report"} /\ Cur(g) = v
<1>1. SUFFICES ASSUME NEW v \in Vouchers, doc'[v].status = "paid"
               PROVE  \/ CoveredNext(v, {}) \/ v \in queued' \/ v \in lost' \/ \E g \in Handlers : Waits(g, v)'
  BY DEF NothingForgotten, IsBooked, CoveredNext
<1>2. CASE doc[v].status # "paid"
  <2>1. Commit(h) /\ doc[Cur(h)].status = "approved"
    BY <1>1, <1>2, OnlyCommitPays
  <2>2. Cur(h) = v /\ Paying(h) /\ SameVoucher(h) /\ pc'[h] = "post"
    BY <1>1, <1>2, <2>1, CommitPays
  <2>3. Cur(h)' = v /\ Paying(h)'
    BY <1>0, <2>2, SameCur DEF SameVoucher, Paying
  <2>4. h \in Handlers
    BY <1>0, <2>2 DEF FlowOf, Payment, Paying
  <2> QED BY <2>2, <2>3, <2>4
<1>3. CASE doc[v].status = "paid" /\ IsBooked(v)
  <2>1. Covered(v, {}) /\ Settled(v)
    BY <1>3 DEF IsBooked, Covered, Settled
  <2> QED BY <2>1, CoveredStays
<1>4. CASE doc[v].status = "paid" /\ v \in queued
  <2>1. CASE FinishReconcile(h)
    <3>1. queued' = queued \ work[h].asked /\ work[h].task = "job" /\ pc[h] = "finish"
      BY <1>0, <2>1 DEF FinishReconcile, FlowOf, Control, Suits
    <3>2. CASE v \in work[h].asked
      <4>1. Covered(v, {}) /\ Settled(v)
        BY <3>1, <3>2 DEF Remembered, JobFlow, AllPosted
      <4> QED BY <4>1, CoveredStays
    <3> QED BY <1>4, <3>1, <3>2
  <2> QED BY <1>4, <2>1, QueueCases
<1>5. CASE v \in lost
  BY <1>5, QueueCases
<1>6. CASE \E g \in Handlers : Waits(g, v)
  <2>1. PICK g \in Handlers : Waits(g, v)
    BY <1>6
  <2>2. CASE g # h
    <3>1. pc'[g] = pc[g] /\ work'[g] = work[g] /\ FlowOf(g)
      BY <1>0, <2>2 DEF Others, Procs, Flow, FlowOf
    <3>2. Cur(g)' = Cur(g)
      BY <3>1, SameCur DEF Procs, SameVoucher
    <3> QED BY <2>1, <3>1, <3>2 DEF Paying
  <2>3. CASE g = h
    <3>1. Post(h) \/ QueueReconcile(h) \/ DbError(h) \/ Crash(h)
      BY <2>1, <2>3 DEF StepOf, StartPay, StartDelete, PayStep, DeleteStep, JobStep, BooksStep, Precheck,
         FindBorrowVoucher, CreateAutoVoucher, ExecuteAutoVoucher, CheckBalance, Commit, ReadOriginals,
         RemoveDocument, StartJob, RebuildLedger, ClearBalances, FinishReconcile, ReadOrphans, PurgeOrphans,
         ReadBalances, WriteBalance, BalancesDone
    <3>2. CASE QueueReconcile(h)
      BY <2>1, <2>3, <3>2 DEF QueueReconcile
    <3>3. CASE Crash(h)
      BY <2>1, <2>3, <3>3 DEF Crash, Unposted
    <3>4. CASE DbError(h)
      <4>1. CASE Committed(h)
        <5>1. SameVoucher(h) /\ pc'[h] = "report"
          BY <1>0, <3>4, <4>1 DEF DbError, Committed, Goto, Shape, FieldNames, SameVoucher
        <5>2. Cur(h)' = Cur(h)
          BY <1>0, <5>1, SameCur
        <5> QED BY <2>1, <2>3, <5>1, <5>2 DEF SameVoucher, Paying
      <4> QED BY <2>1, <2>3, <3>4, <4>1 DEF DbError, Unposted
    <3>5. CASE Post(h) /\ work[h].todo = {}
      <4>1. Covered(v, {}) /\ pc[h] = "post"
        BY <2>1, <2>3, <3>5 DEF Post, Remembered, PayFlow
      <4>2. CASE doc[v].status = "paid"
        BY <4>1, <4>2, CoveredStays DEF Settled
      <4> QED BY <1>2, <4>2
    <3>6. CASE Post(h) /\ work[h].todo # {}
      <4>1. SameVoucher(h) /\ pc'[h] = "post"
        BY <1>0, <3>6 DEF Post, Shape, FieldNames, SameVoucher
      <4>2. Cur(h)' = Cur(h)
        BY <1>0, <4>1, SameCur
      <4> QED BY <2>1, <2>3, <4>1, <4>2 DEF SameVoucher, Paying
    <3> QED BY <3>1, <3>2, <3>3, <3>4, <3>5, <3>6
  <2> QED BY <2>2, <2>3
<1> QED BY <1>2, <1>3, <1>4, <1>5, <1>6 DEF Remembered, NothingForgotten

LEMMA RememberedStep ==
    ASSUME LedgerAssumption, Flow, DocTrue, LedgerTrue, Borrowed, Remembered, [Next]_vars
    PROVE  Remembered'
<1>0. DocTrue' /\ \A v \in Vouchers : Stays(v)
  BY DocStep
<1>1. \A v \in queued : v \in Vouchers /\ Settled(v)'
  BY <1>0 DEF Remembered, QueuedPaid, Stays, Settled
<1>2. ASSUME UNCHANGED <<pc, work, queued, lost, ledger>>,
             \A v \in Vouchers : doc'[v].status = "paid" => doc'[v] = doc[v] PROVE Remembered'
  <2>1. PaidKept
    BY <1>2 DEF PaidKept
  <2>2. \A h \in Procs : JobFlow(h)' /\ PayFlow(h)'
    BY <1>0, <1>2, <2>1, JobOther, PayOther DEF Remembered, Borrowed, Flow, FlowOf
  <2>3. NothingForgotten'
    <3>1. \A h \in Procs : Cur(h)' = Cur(h)
      BY <1>2, SameCur DEF SameVoucher, Flow, FlowOf
    <3> QED BY <1>2, <3>1 DEF Remembered, NothingForgotten, IsBooked, Paying, Procs
  <2> QED BY <1>1, <1>2, <2>2, <2>3 DEF Remembered, QueuedPaid
<1>3. CASE UNCHANGED vars
  BY <1>2, <1>3 DEF vars
<1>4. CASE \E v \in Cancellable : Cancel(v)
  <2>1. PICK u \in Cancellable : Cancel(u)
    BY <1>4
  <2>2. \A v \in Vouchers : doc'[v].status = "paid" => doc'[v] = doc[v]
    BY <2>1 DEF Cancel, DocTrue, DocTyped
  <2> QED BY <1>2, <2>1, <2>2 DEF Cancel
<1>5. ASSUME NEW h \in Procs, StepOf(h) PROVE Remembered'
  <2>0. Shape /\ FlowOf(h) /\ Others(h) /\ PaidKept
    BY <1>5, StepEffect, PaidStays DEF Flow, FlowOf
  <2>1. QueuedPaid'
    <3>1. CASE QueueReconcile(h)
      <4>1. Paying(h) /\ pc[h] \in Posting /\ pc[h] \notin Searching /\ queued' = queued \cup {Cur(h)} /\ doc' = doc
        BY <2>0, <3>1 DEF QueueReconcile, FlowOf, Control, Suits, PayOnly, Searching, Paying, Posting
      <4>2. Cur(h) \in Vouchers /\ Settled(Cur(h))
        BY <2>0, <4>1, CurVoucher DEF Borrowed, BorrowFlow, Paying, DocTrue, Settled
      <4> QED BY <1>1, <4>1, <4>2 DEF QueuedPaid, Settled
    <3> QED BY <1>1, <1>5, <3>1, QueueCases DEF QueuedPaid
  <2>2. JobFlow(h)'
    BY <1>0, <1>5, <2>0, JobFlowStep DEF Remembered
  <2>3. PayFlow(h)'
    BY <1>5, PayFlowStep DEF Remembered
  <2>4. \A g \in Procs \ {h} : JobFlow(g)'
    BY <1>0, <2>0, JobOther DEF Remembered, Others
  <2>5. \A g \in Procs \ {h} : PayFlow(g)'
    BY <1>0, <2>0, PayOther DEF Remembered, Others, Borrowed, Flow, FlowOf
  <2>6. NothingForgotten'
    BY <1>0, <1>5, <2>0, ForgottenStep
  <2> QED BY <2>1, <2>2, <2>3, <2>4, <2>5, <2>6 DEF Remembered
<1> QED BY <1>3, <1>4, <1>5, NextCases

-----------------------------------------------------------------------------
(* The inductive invariant.                                                 *)
Inv == Flow /\ DocTrue /\ LedgerTrue /\ Paired /\ Borrowed /\ Remembered

LEMMA InvInit ==
    ASSUME LedgerAssumption, Init
    PROVE  Inv
<1>1. Flow
  BY NoWorkFields DEF Init, Flow, Shape, Labels, Control, Payment, Suits, PayOnly, Searching, NoWork
<1>2. DocTrue
  <2>1. \A v \in Vouchers : v[2] = "main" => v[1] \in Docs
    BY DEF Vouchers
  <2>2. \A v \in Vouchers : v[2] = "main" => Amount[v[1]] \in Nat \ {0}
    BY <2>1 DEF LedgerAssumption
  <2> QED BY <2>2 DEF Init, DocTrue, DocTyped, Statuses
<1>3. LedgerTrue /\ Paired
  BY DEF Init, LedgerTrue, Paired, OneOfAKey, NoWork
<1>4. \A v \in Vouchers : doc[v].paid = 0 /\ doc[v].status # "paid"
  BY DEF Init
<1>5. BorrowBeforePay /\ NothingForgotten
  BY <1>4 DEF BorrowBeforePay, Moved, NothingForgotten
<1>6. \A h \in Procs : BorrowFlow(h) /\ JobFlow(h) /\ PayFlow(h)
  BY DEF Init, BorrowFlow, JobFlow, PayFlow, Paying, NoWork
<1> QED BY <1>1, <1>2, <1>3, <1>5, <1>6 DEF Inv, Borrowed, Remembered, QueuedPaid, Init

LEMMA InvNext ==
    ASSUME LedgerAssumption, Inv, [Next]_vars
    PROVE  Inv'
BY FlowNext, DocStep, LedgerStep, PairedStep, BorrowStep, RememberedStep DEF Inv

LEMMA InvHolds == Spec => []Inv
<1>1. Init => Inv
  BY InvInit, LedgerAssumption
<1>2. Inv /\ [Next]_vars => Inv'
  BY InvNext, LedgerAssumption
<1> QED BY <1>1, <1>2, PTL DEF Spec

(* Whoever posts it - the payment, a rebuild that overtakes it, a deletion  *)
(* made twice - an entry is in the ledger once and is what its voucher paid,*)
(* or the opposite of an entry that is there.                               *)
THEOREM PostedOnceHolds == Spec => []PostedOnce
<1>1. Inv => PostedOnce
  BY PostedOnceFollows DEF Inv
<1> QED BY <1>1, InvHolds, PTL

(* The receiving side of an internal transfer is never in the ledger        *)
(* without its paying side.                                                 *)
THEOREM MirrorHasSourceHolds == Spec => []MirrorHasSource
<1>1. Inv => MirrorHasSource
  BY MirrorHasSourceFollows DEF Inv
<1> QED BY <1>1, InvHolds, PTL

(* A voucher that borrows is paid only after the money was lent and         *)
(* received.                                                                *)
THEOREM BorrowBeforePayHolds == Spec => []BorrowBeforePay
<1>1. Inv => BorrowBeforePay
  BY DEF Inv, Borrowed
<1> QED BY <1>1, InvHolds, PTL

(* A paid voucher is booked, or somebody is still to book it.               *)
THEOREM NothingForgottenHolds == Spec => []NothingForgotten
<1>1. Inv => NothingForgotten
  BY DEF Inv, Remembered
<1> QED BY <1>1, InvHolds, PTL

=============================================================================
