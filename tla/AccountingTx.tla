----------------------------- MODULE AccountingTx -----------------------------
(***************************************************************************)
(* The transactions that change the accounts, statement by statement: the  *)
(* one at the end of a job (doWork), the refund of a job (pkrefund) and    *)
(* the save of the objects an administration tool modified (pkusers,       *)
(* edpykota).  They run in as many processes, on one PostgreSQL database:  *)
(* an UPDATE waits until no other open transaction has updated the row,    *)
(* works on its last committed version, and keeps the row until the end.   *)
(* When transactions wait for each other in a circle the database cancels  *)
(* the statement of one of them, and the tool rolls back.                  *)
(***************************************************************************)
EXTENDS Integers, Sequences, SequencesExt

CONSTANTS
  Charges,        (* jobs that are accounted                               *)
  Refunds,        (* refunds of one job, by one pkrefund command each      *)
  Saves,          (* pkusers and edpykota commands                         *)
  Users, Printers, Codes,
  None,
  Job,            (* what the accounting of a charge is about              *)
  Refunded,       (* the job of a refund                                   *)
  Changes,        (* what a save does: a sequence of [row, by]             *)
  InitialAmount,  (* of each row                                           *)
  Abortable       (* transactions whose process may be stopped             *)

Transactions == Charges \cup Refunds \cup Saves

(* The rows: balances of users, pages of quota entries and billing codes   *)
(* (whose balance moves in the same statement), and the history, whose     *)
(* rows hold no amount.                                                    *)
Balance(u)   == <<"users", u>>
Quota(u, p)  == <<"userpquota", u, p>>
Bill(c)      == <<"billingcodes", c>>
History(j)   == <<"jobhistory", j>>

Rows == {Balance(u) : u \in Users} \cup {Quota(u, p) : u \in Users, p \in Printers}
          \cup {Bill(c) : c \in Codes} \cup {History(j) : j \in Charges}

ASSUME TxAssumption ==
  /\ Job \in [Charges -> [user : Users, printer : Printers, parents : SUBSET Printers,
                          size : Nat, price : Int, counted : BOOLEAN,
                          code : Codes \cup {None}]]
  /\ \A j \in Charges : Job[j].printer \notin Job[j].parents
  /\ Refunded \in [Refunds -> Charges]
  /\ Changes \in [Saves -> Seq([row : Rows, by : Int])]
  /\ InitialAmount \in [Rows -> Int]
  /\ Abortable \subseteq Transactions
  /\ None \notin Transactions \cup Codes
  /\ IsFiniteSet(Printers)
  /\ Charges \cap Refunds = {} /\ Saves \cap (Charges \cup Refunds) = {}

VARIABLES
  amount,   (* the committed version of each row                           *)
  written,  (* its version in the transaction that holds it                *)
  holder,   (* that transaction                                            *)
  status,   (* of a transaction                                            *)
  seen,     (* the rows as its process read them, some time before         *)
  program,  (* its statements                                              *)
  pos       (* the next one                                                *)

vars == <<amount, written, holder, status, seen, program, pos>>

-----------------------------------------------------------------------------
(* The statements.                                                         *)

Update(row, by) == [row |-> row, by |-> by]
When(condition, statements) == IF condition THEN statements ELSE <<>>

(* The row of the job's own entry, and of its user's balance. *)
Own(j)   == Quota(Job[j].user, Job[j].printer)
Purse(j) == Balance(Job[j].user)

(* increaseUserPQuotaPagesCounters on the entries, the job's own first,    *)
(* the parents in the order of a dictionary.                               *)
CountPages(j, parents) ==
  [i \in 1 .. Len(parents) + 1 |->
     Update(IF i = 1 THEN Own(j) ELSE Quota(Job[j].user, parents[i - 1]), Job[j].size)]

Consume(j) == When(Job[j].price # 0, <<Update(Purse(j), -Job[j].price)>>)

(* increasePagesUsage takes the price before it counts the pages; a mutant *)
(* does it the other way round.                                            *)
PagesFirst(j, parents)         == CountPages(j, parents) \o Consume(j)
IncreasePagesUsage(j, parents) == Consume(j) \o CountPages(j, parents)

(* doWork: resetDenyBannerCounter on the job's own entry, the pages and    *)
(* the balance, the row of the history, the billing code.                  *)
ChargeStatements(j, parents) ==
  <<Update(Own(j), 0)>>
  \o When(Job[j].counted /\ Job[j].size # 0, IncreasePagesUsage(j, parents))
  \o <<Update(History(j), 0)>>
  \o When(Job[j].code # None /\ Job[j].size # 0, <<Update(Bill(Job[j].code), Job[j].size)>>)

(* StorageJob.refund: the billing code, the balance, the job's own entry   *)
(* (not those of the printer's groups), the row of the history.            *)
RefundStatements(j) ==
  When(Job[j].code # None, <<Update(Bill(Job[j].code), -Job[j].size)>>)
  \o <<Update(Purse(j), Job[j].price), Update(Own(j), -Job[j].size), Update(History(j), 0)>>

Programs(t) ==
  CASE t \in Charges -> {ChargeStatements(t, ps) : ps \in SetToSeqs(Job[t].parents)}
    [] t \in Refunds -> {RefundStatements(Refunded[t])}
    [] t \in Saves   -> {Changes[t]}

-----------------------------------------------------------------------------
Statement(t) == program[t][pos[t]]

(* Between BEGIN and COMMIT, with a statement left. *)
AtWork(t)  == status[t] = "open" /\ pos[t] <= Len(program[t])
Waiting(t) == AtWork(t) /\ holder[Statement(t).row] \notin {None, t}

(* A circle of transactions that wait for each other, and no smaller one. *)
Blocked(S) == S # {} /\ \A t \in S : holder[Statement(t).row] \in S
Circles    == LET blocked == {S \in SUBSET {t \in Transactions : Waiting(t)} : Blocked(S)}
              IN  {S \in blocked : \A T \in blocked : T \subseteq S => T = S}

Init ==
  /\ amount = InitialAmount
  /\ written = InitialAmount
  /\ holder = [r \in Rows |-> None]
  /\ status = [t \in Transactions |-> "idle"]
  /\ seen = [t \in Transactions |-> <<>>]
  /\ program = [t \in Transactions |-> <<>>]
  /\ pos = [t \in Transactions |-> 1]

(* The process reads the rows it will change, and keeps them in its        *)
(* objects; pkrefund passes over a job that is not in the history, has no  *)
(* size or was refunded.                                                   *)
Refundable(j) == /\ status[j] = "committed"
                 /\ Job[j].size # 0
                 /\ \A r \in Refunds : Refunded[r] = j => status[r] # "committed"

RowsOf(t) == {s.row : s \in UNION {ToSet(prog) : prog \in Programs(t)}}

Read(t) ==
  /\ status[t] = "idle"
  /\ IF t \in Refunds => Refundable(Refunded[t])
     THEN /\ status' = [status EXCEPT ![t] = "read"]
          /\ seen' = [seen EXCEPT ![t] = [r \in RowsOf(t) |-> amount[r]]]
     ELSE /\ status' = [status EXCEPT ![t] = "skipped"]
          /\ UNCHANGED seen
  /\ UNCHANGED <<amount, written, holder, program, pos>>

Begin(t) ==
  /\ status[t] = "read"
  /\ status' = [status EXCEPT ![t] = "open"]
  /\ \E prog \in Programs(t) : program' = [program EXCEPT ![t] = prog]
  /\ UNCHANGED <<amount, written, holder, seen, pos>>

(* What an UPDATE writes: column = column + by for jobs and refunds, the   *)
(* value in memory for a save, whatever the row has become.                *)
Increased(t, s)  == written[s.row] + s.by
FromMemory(t, s) == seen[t][s.row] + s.by
NewValue(t, s)   == IF t \in Saves THEN FromMemory(t, s) ELSE Increased(t, s)

Execute(t) ==
  /\ AtWork(t)
  /\ ~Waiting(t)
  /\ LET s == Statement(t)
     IN  /\ holder' = [holder EXCEPT ![s.row] = t]
         /\ written' = [written EXCEPT ![s.row] = NewValue(t, s)]
  /\ pos' = [pos EXCEPT ![t] = @ + 1]
  /\ UNCHANGED <<amount, status, seen, program>>

(* The rows a transaction lets go when it ends; a mutant forgets to roll   *)
(* back.                                                                   *)
HolderFreed(t) == [r \in Rows |-> IF holder[r] = t THEN None ELSE holder[r]]
HolderKept(t)  == holder
AfterRollback(t) == HolderFreed(t)

(* The transaction is over, its program and what was read forgotten. *)
End(t, how) ==
  /\ status[t] = "open"
  /\ status' = [status EXCEPT ![t] = how]
  /\ seen' = [seen EXCEPT ![t] = <<>>]
  /\ program' = [program EXCEPT ![t] = <<>>]
  /\ pos' = [pos EXCEPT ![t] = 1]

Commit(t) ==
  /\ pos[t] > Len(program[t])
  /\ End(t, "committed")
  /\ amount' = [r \in Rows |-> IF holder[r] = t THEN written[r] ELSE amount[r]]
  /\ holder' = HolderFreed(t)
  /\ UNCHANGED written

Rollback(t) ==
  /\ End(t, "rolledback")
  /\ written' = [r \in Rows |-> IF holder[r] = t THEN amount[r] ELSE written[r]]
  /\ holder' = AfterRollback(t)
  /\ UNCHANGED amount

(* External: the database ends the wait of one of the circle, whose        *)
(* statement fails.                                                        *)
Victim(t) == /\ t \in UNION Circles
             /\ Rollback(t)

(* A process that is stopped, or whose statement fails otherwise. *)
Break(t) == t \in Abortable /\ Rollback(t)

Goes(t) == Read(t) \/ Begin(t) \/ Execute(t) \/ Commit(t)

Next == \E t \in Transactions : Goes(t) \/ Victim(t) \/ Break(t)

Spec == Init /\ [][Next]_vars

(* A process goes on with the transaction it opened, the database with     *)
(* statements that can be executed, and it finds deadlocks.                *)
Fairness == /\ \A t \in Transactions : WF_vars(Execute(t) \/ Commit(t))
            /\ WF_vars(\E t \in Transactions : Victim(t))

FairSpec == Spec /\ Fairness

-----------------------------------------------------------------------------
(* The properties.                                                         *)

(* The accounts a job is about: its user's balance goes down by its price, *)
(* the pages of its entry and of those on the printer's groups, and of its *)
(* billing code, go up by its size.  A refund gives the price and the      *)
(* pages of the job's own entry and billing code back.                     *)
ChargeEffect(j, r) ==
  CASE r = Purse(j) /\ Job[j].counted /\ Job[j].size # 0 -> -Job[j].price
    [] r \in {Quota(Job[j].user, p) : p \in {Job[j].printer} \cup Job[j].parents}
         /\ Job[j].counted -> Job[j].size
    [] r = Bill(Job[j].code) -> Job[j].size
    [] OTHER -> 0

RefundEffect(j, r) ==
  CASE r = Purse(j) -> Job[j].price
    [] r = Own(j) \/ r = Bill(Job[j].code) -> -Job[j].size
    [] OTHER -> 0

L == INSTANCE Ledger
     WITH Adders  <- Charges \cup Refunds,
          Setters <- Saves,
          Effect  <- LAMBDA t, r : IF t \in Charges THEN ChargeEffect(t, r)
                                   ELSE RefundEffect(Refunded[t], r),
          Target  <- RowsOf,
          done    <- {t \in Transactions : status[t] = "committed"}

(* However the statements of the transactions mix, and whichever are       *)
(* rolled back, each job and each refund adds exactly its effect to what   *)
(* the accounts hold when it commits, and a save changes its own rows.     *)
ImplementsLedger == L!Spec

(* The balance is updated before the pages of the groups, so the jobs of   *)
(* an user queue up on it: a circle needs something else than jobs with a  *)
(* price, or a job sent to the queue of a printer group itself.            *)
DeadlockNeedsInversion ==
  \A S \in Circles :
    \E t \in S : \/ t \notin Charges
                 \/ Job[t].price = 0
                 \/ \E c \in S \cap Charges : Job[t].printer \in Job[c].parents

(* No transaction is left open: neither waiting for another one, nor       *)
(* because of one that failed.                                             *)
EveryTxEnds == \A t \in Transactions : status[t] = "open" ~> status[t] # "open"

(* pkusers: a balance with a sign in front is increased or decreased by    *)
(* that amount.                                                            *)
SaveAddsItsChange ==
  [][\A t \in Saves : status[t] = "open" /\ status'[t] = "committed" =>
       \A i \in 1 .. Len(Changes[t]) :
         LET c == Changes[t][i] IN amount'[c.row] = amount[c.row] + c.by]_vars

=============================================================================
