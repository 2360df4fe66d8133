# PyKota: specification, model checking and proofs

PyKota is a print quota and accounting system for CUPS.  This directory holds TLA+
modules that model it, the TLC configurations that check them, and proofs that TLAPS
checks.  Source references are to `src/`.

## 1. The system

| Part | State it keeps | Operations | Interacts with |
|---|---|---|---|
| **cupspykota** (`bin/cupspykota`), one process per job | action, what it read from the database, accounter readings, sizes; the lock file of the device | `main`: lock, save data, precompute size, overwrite ticket, policy, decide, banners, real backend, accounting, unlock | starts the real CUPS backend; accounter; storage; commands of the administrator |
| **Decisions** (`pykota/tool.py` 311-495, `storage.py` 312-342) | none (starts grace periods) | `checkUserPQuota`, `checkGroupPQuota`, `computeJobPrice` | called by cupspykota and warnpykota |
| **Accounters** (`pykota/accounters`) | last page counter, job size | `beginJob`, `endJob`, `getJobSize`; PJL and SNMP poll the printer until it is idle | printer, `waitprinter.sh` commands |
| **Storage objects** (`pykota/storage.py`) | in-memory copies of rows, caches, dirty flags, payment backlog | setters, `save`, `refund`, `increasePagesUsage`, `addPrinterToGroup`, caches | SQL or LDAP backend |
| **SQL storage** (`pykota/storages/sql.py`, pg, mysql, sqlite) | the database | one statement per operation; explicit transactions | database server |
| **LDAP storage** (`ldapstorage.py`) | directory entries | the same operations, without transactions | LDAP server |
| **Administration** (`edpykota`, `pkusers`, `pkprinters`, `pkbcodes`, `pkrefund`) | the objects of one run | read, change in memory, save all in one transaction | storage |
| **Self registration and warnings** (`autopykota`, `warnpykota`, `pykotme`) | none | create an account, mail users over quota, quote a price | storage, decisions |
| **Backend discovery** (`cupspykota` 126-202) | a lock file | ask every other backend for its devices, avoiding recursion | CUPS |
| **Reports and exports** (`repykota`, `dumpykota`, `cgi-bin`) | none | one query per type of data, outside any transaction | storage |
| **Configuration** (`pykota/config.py`) | the parsed file | one getter per option | everything |
| **Presentation** (`pknotify`, `pykosd`, `pkbanner`, `pkinvoice`) | none | dialogs, banners, invoices | users |

What makes the system hard:

* **Concurrency.**  CUPS runs the filter of every queue at the same time.  Jobs for the
  same device exclude each other by a lock file; jobs for different devices do not, and
  share the rows of an user and of the printer groups.  The administrator's tools run
  beside them and read rows long before they write them.
* **The decision is not a transaction.**  A job is accepted on counters read before it is
  printed; a comment (1145-1150) explains why no transaction is held meanwhile.
* **Failure.**  Real backends fail and are retried, processes are killed while their real
  backend goes on, database transactions are rolled back, banner or policy commands fail.
* **A storage without transactions.**  The LDAP storage makes the same changes request by
  request, over a connection that may break between a request and its answer.
* **A printer with a mind of its own.**  What a job printed is the difference of two page
  counters, of a printer that starts late, pauses, jams, is switched off, does not answer or
  does not tell the truth.
* **Sequences.**  The deny banner counter, grace periods and duplicates relate successive
  jobs; sizes, prices and banners depend on a dozen options.

The hazards are listed one by one, at their lines, in `PROJECT.json`.

What makes each part correct:

* *cupspykota*: one process per device between the lock and `clean`; a job that is refused
  prints nothing and costs nothing; a job that prints is recorded, and charged for what it
  printed; banners appear when and as often as configured; no job waits for ever.
* *Decisions*: monotone in the limits; STRICT never lets a job pass a limit; an account is
  only overdrawn through the race the code accepts.
* *Accounters*: the size is what the printer printed; no sheet is charged twice; polling ends.
* *SQL storage*: transactions happen at once or not at all; nobody's charge is lost; deadlocks
  are resolved and rolled back; a deletion takes with it all that refers to what it deletes;
  counters and history agree; the cache never shows what is no longer true where it matters.
* *LDAP storage*: a request that is repeated is done once; what is lost is lost by a race, and
  only by a race; no entry is half there or there twice.
* *Exports*: a dump restores, so it has what its own rows refer to.
* *Printer groups*: no group is in itself, so that costs are defined.
* *Administration, refunds*: a command changes what it names by what it says.
* *Backend discovery*: cupspykota never lists itself.

## 2. The modules

| Module | Models | Extends, uses |
|---|---|---|
| `QuotaCheck` | the decisions as operators: limits, grace periods, balances, prices | |
| `PrintJobs` | cupspykota from the lock to the history, its database rows, its device | `QuotaCheck` |
| `MCPrintJobs` | instances of `PrintJobs`: jobs, topologies, configurations | `PrintJobs` |
| `Sums_proofs` | what sums over finite sets are, whatever is added first; finite sets and sequences of steps | |
| `PrintJobs_proofs` | type correctness, mutual exclusion, exact metering, deny banners, two banners per job; refused jobs are free, charged jobs were sent, overdrafts and hard limits, the ledger | `PrintJobs`, `Sums_proofs` |
| `Ledger` | abstract: rows of numbers, transactions that happen at once or not at all | |
| `AccountingTx` | the transactions of jobs, refunds and saves, statement by statement | implements `Ledger` |
| `MCAccountingTx` | one user, two printers, two groups they share | `AccountingTx` |
| `AccountingTx_proofs` | who holds which row and what is in it, the refinement of `Ledger`, no deadlock of jobs | `AccountingTx`, `Ledger` |
| `PageCounter` | the hardware accounter: SNMP, PJL and external command, and a printer | |
| `MCPageCounter` | fourteen printers and configurations, four sorts of jobs | `PageCounter` |
| `PageCounter_proofs` | types, no sheet charged twice, exact sizes, bounded errors | `PageCounter` |
| `Tables` | the SQL storage: rows of ten tables, keys, locks, jobs and commands | |
| `MCTables` | two or three processes on two users and two printers | `Tables` |
| `Tables_proofs` | types, who has written which row, jobs charge their user and are recorded | `Tables`, `Sums_proofs` |
| `TablesRaces_proofs` | what a row refers to stays there, who fails ran beside another, who waits in a circle, what is in a dump | `Tables_proofs` |
| `Directory` | the LDAP storage: entries, requests that are lost, jobs and commands | |
| `MCDirectory` | two or three processes on two users, a printer and a group | `Directory` |
| `Directory_proofs` | types, duplicates need two that add, lost changes need an overwrite, half users an addition beside a deletion | `Directory`, `Sums_proofs` |
| `PrinterGroups` | `pkprinters --groups`, with and without the cache | |
| `MCPrinterGroups` | three commands, three printers | `PrinterGroups` |
| `PrinterGroups_proofs` | careful commands keep the groups in order | `PrinterGroups` |

`PrintJobs` takes the transaction that closes a job as one step.  `AccountingTx` takes that
step apart and shows that it may be taken as one: whatever the interleaving, it adds the
effect of the job to what the rows hold when it commits, which is what `Close` of
`PrintJobs` does.  `Tables` and `Directory` take the same step apart where rows also come and
go, each for its storage.  `PrintJobs` reads the page counter exactly; `PageCounter` says for
which printers this is so.

### PrintJobs

One process per job; `pc` says how far it is:

| `pc` | Code (`bin/cupspykota`) | Next action |
|---|---|---|
| start | `main`, before `waitForLock` | `WaitForLock` |
| locked | ticket overwritten (332-442), `mainWork` 970-1017, policies 777-835 | `Retrieve` |
| retrieved | `doWork` up to the user's confirmation (1019-1093) | `Decide` |
| decided | starting banner, `beginJob` (1104-1122) | `Begin` |
| begun | `printJobDatas` or `removeJob` (1124-1128) | `SendOrRemove` |
| backend | the real backend runs (1267-1325) | `BackendPrints`, `BackendSucceeds`, `BackendFails` |
| asleep | the delay before another try (1256-1265) | `Retry` |
| after | accounted ending banner, `endJob` (1130-1143) | `Finish` |
| ended | the transaction (1151-1211) | `Close` |
| accounted | ending banner that is not accounted (1219-1220) | `EndBanner` |
| clean | `clean` (481-509) | `Clean` |

The database is `balance`, `upq`, `codes`, `rows`, `last`.  What a process keeps in memory is
`mem`: the balance, page and deny counters it read (`Snapshot`), the quota entries it will
update, whether it found its billing code, the printer's last job.  The decision uses `mem`
where the code uses objects it read earlier and the database where it reads now: the
entries on the printer's groups are read when the limits are checked, the job's own entry
when the user is looked up.  `conf` is the configuration, chosen once for each printer.

The environment may kill a process anywhere (`Abort`: the exceptions and interrupts that end
in `crashed` or `KeyboardInterrupt`, and `kill -9`), which frees the lock because the system
closes the file, and leaves a real backend printing (`OrphanPrints`, `OrphanEnds`).  Grace
periods end at any time (`GraceEnds`).  A banner that is asked for may or may not give a
sheet, the banner command being external.

`counter`, `data`, `sheets`, `banners`, `shown` and `disturbed` are what an observer at the
printer notes; no guard of a process reads them but the counter, by the hardware accounter.

### AccountingTx and Ledger

A row of the database is a name for one number: a balance, the pages of a quota entry, the
pages of a billing code (its balance moves in the same statement).  A row of the history
holds no amount but is locked like the others.  A transaction is a sequence of UPDATEs in
the order of the code: `ChargeStatements` (`doWork` 1151-1211 with
`increasePagesUsage`), `RefundStatements` (`StorageJob.refund`), `Changes` for a save.  The
order of the entries on the printer's groups is that of a dictionary: any order.

The database is PostgreSQL in its default isolation, external: an UPDATE waits for the
transaction that holds the row, works on the last committed version and keeps the row until
the end; of a circle of waiting transactions one is cancelled (`Victim`).  Jobs and refunds
write `column = column + value`; a save writes what it has in memory (`seen`), read before
the transaction.  INSERTs, and the locks of foreign keys (which since version 9.3 do not
conflict with UPDATEs of other columns), are left out, and so are refused jobs, whose transaction inserts one row.

`Ledger` says what this must amount to: `Add` applies the effect of a job or a refund at
once, `Set` lets a save write what it likes to its own rows.  The mapping takes the
committed rows for the ledger's, and the committed transactions for those done.

### PageCounter

The jobs of one printer, one after the other, since each holds its lock.  `pc` is where the
accounter is, `before` and `after` are `LastPageCounter` at the end of each phase, `handler`
is the object that `retrieveInternalPageCounter` makes:

| Action | Code |
|---|---|
| `BeginJob`, `Send` | `beginJob`, `endJob` with the job's data in between (hardware.py 46-59) |
| `WaitPrinting`, `DelayElapses`, `IsPrinting` | `waitPrinting` of snmp.py and pjl.py, `noprintingmaxdelay` |
| `WaitIdle`, `Settled` | `waitIdle`, `statusstabilizationloops`, `skipinitialwait` |
| `Query`, `Heard`, `Unheard` | `retrieveSNMPValues`, `retrievePJLValues` and what a failed query leaves |
| `AnswerLost` | the PJL answer that is waited for without a timeout |
| `CommandAnswers`, `CommandFails` | `askPrinterPageCounter` with an external command (hardware.py 107-163) |
| `Account`, `JobSize`, `Difference` | `getJobSize` with missing readings and counters that went back (61-105) |

The printer is external: it starts and stops printing, jams and is repaired, and loses its
last counts and its data when it is switched off (the comment at hardware.py 90).  `Answers`
is what it may say: within a job it says `idle` at most `Gap` times in a row, a jammed one
says `idle` by SNMP with an error bit, and one that `lies` never says `printing`.  `printed`
notes what came out for each job.

### Tables

The committed rows are `db`, a row being what the keys and the properties need of it.  A
process reads what it needs when it starts (`Script`: the identifiers of the users, printers
and quota entries it names, the rows a command adds that are not there), then executes its
statements one by one; `own`, `gone` and `shared` are what its transaction wrote, deleted and
refers to.  `pkrefund` uses a transaction for each job; a refund knows the user's and printer's
names and the pages from its list of jobs, and looks up the billing code in the transaction
(`ExpandRefund`), then the user by name (`PayUser`), then the quota entry (`FindPages`).  Where
the billing code is gone, its pages are taken off `None` and the refund raises (`Raises`).  A
job is what `cupspykota` 1151-1211 executes: its own quota entry, whose count of denials is reset
(`LeftAsItWas`: the model has no such count, but the row is locked from here on), the balance, the pages of
the entry and of its user's entries on the groups of the printer (`IncreasePagesUsage`, `ParentPrinters`),
the history, the billing code (`ForCode`).  A denied job (also one whose billing code is unknown) only leaves a row without
pages; a job of a user or printer that is not counted (`limitby` nochange, passthrough) leaves a row with its pages and
changes no counter.  A statement waits for others (`Blockers`), is refused by a key (`Refused`)
or is executed.  Two databases are modelled: PostgreSQL, which locks rows, and locks the rows
a new one refers to against deletion only (since version 9.3), and SQLite, which has one
writer at a time, gives the highest identifier plus one to a new row, and checks foreign
keys only when told to (`enforced`).

No column has `aside`, with which the counters are compared with the history: in a quota entry it is
what was counted there for the printers of a group, in a row of the history what of the job was
not counted.  A refund takes a job's pages off the job's own entry whether they were counted there or
not, and leaves those above; `CountersMatchHistory` says that the counters and the history differ by just this.

`DumpNamesWhatItHas` and `DumpIsWhole` are about `dumpykota --data all`, of which each query
is a step of its own.

### Directory

`dir` maps a distinguished name to what the model keeps of an entry: a number, a set, a
reference.  A process is a list of steps (`Script`, one operator per method): searches, which
may put more steps in front (`CollectEntries`, `GatherQuotas`, `WriteJobNew`), and requests.
`doModify` is two: `ReadOld`, which looks at the entry and computes the new value, and the
request.  `RequestLost` and `AnswerLost` are the exceptions that make `doAdd`, `doDelete` and
`doModify` open another connection and ask again, three times in all; what was computed by
the first try is not computed again (`ComputedOnce`), and an entry keeps its identifier
(`NewId`).  `ledger` is what the changes amount to when each counts once; with
`disablehistory` a job replaces all of the last one there too, whoever's that was (`Replaces`).
`contended` has the
attributes written while another process was about to write an older value back, `met` the
pairs of processes that overlapped: with these two the properties tell a loss that a race
explains from one that nothing explains.

### PrinterGroups

A printer is a number, which stands for its name: the command goes through the printers in
the order of names, and through the groups for each.  `members` are the committed rows,
`View` adds the command's own.  The test `printer not in self.Storage.getParentPrinters(self)`
compares objects, so it is only true to its purpose when the cache returns the same object
for the same printer (`SameObject`), and the `Parents` attribute of a printer once looked at
keeps its value (`asked`, `known`).  `Above` is what the recursion of `getParentPrinters`
collects, as a least closed set; `Ends` says that it ends.

## 3. What the runs check

| Run | Instance | Properties |
|---|---|---|
| `PrintJobs_devices` | 2 jobs of one user, 2 devices, a printer group, 3 configurations; 105,528 states | `LedgerBalanced`, `OverdraftNeedsRace` |
| `PrintJobs_queue` | 3 jobs of one user on one queue, limits 1 and 3, duplicates, billing codes; 613,845 states | `DenyBannersBounded`, `StrictHardLimitKept`, `RefusedPrintsNothing`, `ChargedWasSent`, `TwoBannersPerJob` |
| `PrintJobs_policies` | 3 jobs of 2 users, with and without quota entries, 2 queues of one device, both accounters, retries, one process killed anywhere; 224,832 states | `TypeOK`, `DeviceMutex`, `MeteredIsPrinted`, and under fairness `EveryJobEnds`, `PrintedIsRecorded` |
| `AccountingTx_mixed` | 3 jobs, a refund, an edpykota that may be stopped; about 90,000 states | `DeadlockNeedsInversion`, `ImplementsLedger`, and under fairness `EveryTxEnds` |
| `PrinterGroups_cached` | 3 commands, 3 printers, cache on; about 45,000 states up to symmetry | `CarefulCommandsKeepOrder` |
| `PageCounter_printers` | 2 jobs, 4 sorts of jobs, 14 printers and configurations, 2 faults; about 2 million states | `TypeOK`, `ExactSize`, `NoSheetChargedTwice`, `ErrorBounded`, and under fairness `EveryJobEnds` |
| `Tables_mixed` | 2 or 3 jobs and commands of 20 sorts beside one another, with billing codes, printer groups, jobs denied or not counted, 5 databases; 196,067 states | `TypeOK`, `CountersMatchHistory`, `ChargesReachTheirUser`, `ChargedIsRecorded`, `FailureNeedsOverlap`, `OrphansNeedRace`, `DeadlockNeedsOppositeOrders`, `DumpNamesWhatItHas`, `DumpIsWhole`, and under fairness `EveryProcessEnds` |
| `Directory_pairs` | 2 or 3 jobs and commands of 20 sorts beside one another, 4 configurations, a lost request or answer; 212,101 states | `TypeOK`, `LossNeedsRace`, `DuplicatesNeedOverlap`, `HalfAccountNeedsFailure`, `FailureNeedsCause`, `DumpNamesWhatItHas`, `CleanDeletion`, `LastJobIsNewest`, and under fairness `EveryCommandEnds` |

What they show, in words:

* No charge is lost when jobs of one user end on several devices at once, because the
  updates are relative; an account limited by balance is only overdrawn under STRICT, by a
  job of predictable price, when another job of the user was charged between its reading
  and its transaction.  That window is the one the comment at 1145-1150 accepts.
* The lock excludes two processes on a device, also from two queues; a hardware accounter
  charges a job exactly the sheets that came out for it, accounted banners included.  The
  exception is a real backend that outlived a killed process (`disturbed`): its sheets fall
  into the next job's reading, which nothing in the code prevents.
* Refused jobs cost nothing and print nothing, and charged jobs were sent.  The page counter
  of an ordinary queue stays below the hard limit under STRICT, with software accounting and
  no accounted banners; the entry on a printer group may pass it, since jobs on several of
  its members are decided at the same time.  The user gets two banners per accepted job in
  every setting of `accountbanner` (with `avoidduplicatebanners` off), and no more deny
  banners than `maxdenybanners`, though one denied job asks for two of them.
* Transactions of jobs and refunds are atomic in their effect.  Deadlocks are possible: a
  refund takes the billing code, balance and quota entry in that order and a job the other
  way round; so may a job with a null price, an edpykota, and a job sent to the queue of a
  group that another job counts pages on.  Jobs with a price on ordinary queues cannot, and
  `DeadlockNeedsInversion` says so.  The victim of a deadlock that is a job was printed and is
  not accounted.
* A pkprinters command needs the cache off, several groups at once, or another command that
  commits in between to put a group into itself.
* By SNMP, PJL or a command, the size of a job is exactly what it printed when the printer
  says what it does, begins within `noprintingmaxdelay`, pauses for less than
  `statusstabilizationloops` answers, keeps its counter and answers, and the job was accepted
  without a warning; jams then do no harm.  Each of these is needed.  Whatever happens short
  of a counter that goes back, no sheet is charged to two jobs by readings of the counter; a
  printer switched off once costs or saves a job ten pages at most.  Every wait ends if
  `noprintingmaxdelay` is not 0, except that for a PJL answer that was lost.
* In SQL, deletions name tables in an order that foreign keys allow, and a quota entry counts
  the jobs of the history that were counted, those counted for the printers of a group, and less those
  that were refunded (counted or not); unless the entry was deleted and made again while a job
  printed or a pkrefund went through its list, or two pkrefund ran at once.
* On PostgreSQL a circle of waiting may be a deletion and anything; two commands that each add
  or pay several; two jobs of one user where one counts pages on a printer group, whose entry
  the other has taken first as its own or in another order; and a job with a refund, because the job takes its
  billing code last and the refund takes it first (`DeadlockNeedsOppositeOrders` says where they must meet
  besides).  Refunds with each other, and jobs whose printers are in no group, never wait in a circle.
* A process alone in the database fails for one reason only: `pkrefund` stops where the billing code of a job
  of its list was deleted (storage.py 485), the jobs before it refunded.  So it does in LDAP.
* On SQLite, a job that ends after its user was deleted and another was added can
  charge that other.
* In LDAP, nothing is lost by repeating requests, and every difference between an attribute
  and what was done to it is a race of two processes that read and wrote it back; duplicates
  of entries and halves of accounts need two commands at once or a failure; deletions that
  run alone leave nothing behind.
* Whatever is deleted during a dump, its rows refer to rows it has, because what is referred
  to is extracted first; what is added meanwhile is the exception.

### Disagreements with the documentation

| Run | Violated | What happens |
|---|---|---|
| `AccountingTx_saves` | `SaveAddsItsChange` | `pkusers --balance +n` writes an absolute balance, so a job charged meanwhile is given back |
| `PrinterGroups_default` | `CostIsDefined` | with `storagecaching` off, as in the sample file, a group can be put into a group it contains |
| `PageCounter_warned` | `PrecedingJobIsOver` | the last counter of a job accepted with a warning may be read before its sheets come out: the next job pays for them |
| `Directory_quota` | `LastJobExists` | `edpykota --delete` deletes the jobs before it looks for the printer's last one, whose entry stays and names nothing |

Observations made while modelling, that no run states:

* Under policy ALLOW the job of an unknown user is printed although `overwrite_jobticket`
  denied it (cupspykota 1009; `conf/pykota.conf.sample` 470 onwards).
* An answer of the `denyduplicates` command that is none of the known words makes a job that
  is charged and never sent; `ChargedJobsWereSent` has the hypothesis that excludes it.
* With `onbackenderror` at RETRY alone a failed job is not accounted, while the log says it
  will be.
* `trustjobsize` compares a size with banners to one without and may drop the banners.
* `printcancelledbanners` is never consulted, because every caller of `handleBanner` tests
  that the action is not CANCEL (1108), while `conf/pykota.conf.sample` 1120 speaks of
  banners for cancelled jobs.
* `pkrefund` lists its jobs once and commits each refund by itself (`pkrefund` 253, `storage.py`
  479): when the quota entry is deleted and made again meanwhile, it takes the pages of the
  deleted jobs off the new entry, and pays for rows of the history that are gone.
* With the cache on, one LDAP pkrefund that refunds two jobs of an user writes the second
  payment over the first; `LossNeedsRace` leaves out the cache for sets.
* `addGroupPQuota` of the LDAP storage (1091) gives a new entry no limits; `extractPmembers`
  dumps all the groups above a printer as if it were a direct member.
* SQLite has no `now()`, with which a job updates the last row when `disablehistory` is on:
  the transaction fails there.  `Tables` models the statement, not this failure.
* `deleteUser` of the LDAP storage leaves the user in his groups, which `DumpNamesWhatItHas`
  and `CleanDeletion` name.
* The group quota of a group none of whose members has a quota entry is not in a dump
  (`DumpIsWhole` names it).

### Bounds, and why they are enough

* Two or three jobs: every property relates at most two processes and the row one of them
  left; a third job is there where a counter or a previous job matters (deny banners,
  duplicates, limits).
* `MaxSheets` is 2 where sheets are metered (a job may fail after some of them), 1 elsewhere.
  It is a bound of the model: the device, not the code, stops there.
* Job sizes and limits of at most 3 reach every case of the grace period: below the soft
  limit, on it, between, on the hard limit, above.
* `conf` ranges over a few configurations per run, chosen so that each field a property
  reads takes the values that matter; the whole product of options would be millions.
* Two printer groups above two printers give every order of two dictionary updates; three
  printers give chains and circles of length three.
* Two jobs on a printer: a reading that is wrong is so for one job and, by its last counter,
  for the next.  `Loops` 2 and `Gap` 1 make a pause of one answer that must not count as the
  end.  `MaxFaults` 2 lets a failure meet another of another kind, and counters start at 28
  so that loss of power takes off the last digit, with and without passing a ten.
* `Directory` and `Tables` have two processes, and a third where it takes one to add again
  what a second deleted.  Each pair that touches the same entries is a scenario; three
  commands at once on LDAP add races of pairs.  One lost request or answer
  (`MaxFaults` = 1) meets every request of every scenario; a second one in the same command
  would be a second try of a loop of three that keeps no state but its count.
* Three transactions can form every circle of waiting that two or three can; the mixed run
  has five.

### Fairness

* A cupspykota goes on whenever it can (`WF_vars(Process(j))`): it is an ordinary process.
  Weak fairness is enough for the lock because every job takes it once and then leaves it:
  the lock stays free until somebody takes it, and there are finitely many jobs.
* A real backend ends, with success or not (`WF_vars(BackendSucceeds(j) \/ BackendFails(j))`).
  cupspykota waits for it without a timeout, so without this no job need ever end.
* `EveryJobEnds` is checked where retries are limited.  With `onbackenderror: RETRY:0:n` the
  code retries for ever by design.
* A transaction goes on with statements it can execute (`WF_vars(Execute(t) \/ Commit(t))`),
  and the database resolves deadlocks.  Weak fairness is enough for a row too: finitely many
  transactions take it, and each keeps it until it ends.
* `PageCounter`: the printer prints what it has, is repaired, and its delay elapses; the
  backend goes on asking.  Each is one process's next step that stays possible until it is
  taken (`WF_vars`); nobody need ever jam, lie or fail.
* `Tables`: each process goes on (`WF_vars(Work(p))`), and the database ends circles of
  waiting, as PostgreSQL does after `deadlock_timeout`.  SQLite's refusal to wait is not
  assumed to come.
* `Directory`: no process waits for another, so it is enough that one of those that can go on
  does (`WF_vars(\E p \in Procs : Work(p))`); requests are finite lists.
* Nothing is assumed of kills, orphans, sheets, the end of grace periods, or of processes
  between transactions.

## 4. What is proved

For all values of the constants that satisfy the assumptions, with TLAPS:

| Theorem | States | Argument |
|---|---|---|
| `TypeCorrect` | `Spec => []TypeOK` | one lemma per action; `TypeOK` is inductive.  Prices are sums over sets of printers, integers by `SumType` |
| `MutualExclusion` | `Spec => []DeviceMutex` | `LockHeld`: who works holds the lock of his device.  `DeviceMutex` alone is not inductive, it does not say why the lock is not free |
| `ExactMetering` | `Spec => []MeteredIsPrinted` | `MeterInvs`: while the accounter is at work the sheets of the job are what the counter moved by since the first reading.  A step of another process leaves the device alone by `DeviceMutex`, an orphan's puts the job into `disturbed`; the size then follows from the reading, because no page of a banner is added by software |
| `DenyBannersLimited` | `Spec => []DenyBannersBounded` | `DenyInv`: a process that knows its user has the current deny counter in memory (nobody else on this queue works), the counter bounds what was shown and is bounded by `maxdenybanners` |
| `BannersAreTwo` | `Spec => []TwoBannersPerJob` | `BannersInv` counts the banners at each `pc`; the tests at the four places complement each other for each of the four values of `accountbanner` |
| `RefusedIsFree` | `Spec => []RefusedPrintsNothing` | `SentInv`: data comes out only for a process that had decided to send it and does not turn it into a refusal; a real backend that outlives its process left no row |
| `ChargedJobsWereSent` | `Spec => []ChargedWasSent`, if the denyduplicates command answers one of ALLOW, DENY and CANCEL | `SentInv`, and `NoOther`: nothing else makes an action that is neither sent nor refused.  Without the hypothesis it is false: an unknown answer makes a job that is charged and not sent |
| `OverdraftsAreRaces` | `Spec => OverdraftNeedsRace` | `PassedInv`: who goes on has passed the check on the balance in its memory, for the entries and the size it will be charged |
| `HardLimitHolds` | `Spec => []StrictHardLimitKept`, if no soft limit is above its hard limit | `PassedInv`, and `PagesKnown`: on a printer that is no group, the process that holds the device knows the pages of its entry.  `edpykota` exchanges limits in the wrong order (156-159), which is the hypothesis |
| `LedgerIsBalanced` | `Spec => []LedgerBalanced` | inductive beside `MeterInvs`, from which a job has no row before its transaction.  `ClosedStays`: afterwards nothing changes what the history and the process say the job was charged for.  `LedgerClose`: the transaction changes one element of the sum of prices (`SumChanges`), and adds one to the sum of pages or none (`SumTakesAny`) |
| `CarefulCommands` | `Spec => CarefulCommandsKeepOrder` | `GroupsInv`: the cached parents of the group a careful command adds to hold everything that is above it in the database, and what it inserted is neither the group nor above it.  `OrderKept`: members that are not above a group may join it without a circle; removing keeps the order |
| `TypeCorrect` (`PageCounter_proofs`) | `Spec => []TypeOK` | one lemma per action of the printer and of the accounter |
| `ChargedOnce` | `Spec => []NoSheetChargedTwice` | `ReadingsInOrder`: without loss of power the counter, the readings and what was charged stay in order: what is charged is at most the last reading, and this at most the counter.  A reading is never above the counter since a handler keeps the larger of what it heard |
| `SizesAreExact` | `Spec => []ExactSize` | `Reliable => Tracking`, for a printer that begins in time and no job accepted with a warning: a job's sheets are sent before the second reading; while the accounter waits for `idle` it has heard at most `Gap` idle answers while sheets were to come, so `Gap < Loops` of them prove that none are; a reading is behind what came out by at most `Slack`, which is 0 as long as the power stays on |
| `SizesAreNear` | `Spec => []ErrorBounded` | the same `Tracking`: one loss of power makes `Slack` nine, so the first reading, the second or both are behind by up to nine sheets, and a first reading that is corrected by one page adds the tenth |
| `TransactionsHoldTheirRows` | `Spec => []TxInv` | `HolderInv` and `FreeInv`: a transaction holds the rows of the statements its program has executed, all of them until it commits, and nobody else does.  `AddedInv`: what it added to a row it holds is what these statements add.  `ProgramInv`: the program of a job, refund or save is never changed but shortened from the front, so that what is left and what is done make up the whole |
| `TransactionsImplementLedger` | `Spec => ImplementsLedger` | by `TxInv` a statement changes only rows its transaction holds, which the refinement mapping still shows as they were committed: a stutter.  A commit makes them visible; what was added to each is then the effect of the whole program, the step `Add` of `Ledger`.  A rollback, or a victim of a deadlock, leaves what was visible |
| `JobsDoNotDeadlock` | `Spec => []DeadlockNeedsInversion` | a job with a price updates the balance of its user first: who waits for pages holds the balance, who holds pages of the user holds it too, so that the two are the same transaction.  The pages of an entry nobody else counts on are waited for by its own user's jobs only |
| `TablesKeepTheirTypes` | `Spec => []TypeOK` | `TypeInv`: what is left of each process' plan is what such a command may do (`MayDo`): only `delusers` deletes users, only `adduser` adds them, who deletes does not write.  `ScriptIsPlanned` shows it for each of the twenty commands; a new identifier is above every one seen or written (`NewIdIsNew`), on SQLite because nobody else has written when a row is added |
| `JobsChargeTheirUser` | `Spec => []ChargesReachTheirUser` | `LockInv`: no row is written by two, on SQLite by one only, and who runs at the same time is beside the other.  `NameInv`: a changed row of an user has the name that is committed, and one that is not committed is being added.  `JobInv`: the row a job will charge is its user's (`Paying`), or was deleted beside it, in which case PostgreSQL never uses its identifier again (`Vanished`), or SQLite gave it to an user added beside it (`Swapped`) |
| `JobsAreRecorded` | `Spec => ChargedIsRecorded` | `JobInv` too: the record is the last step of every job that charges, so that a transaction with nothing left to do has it (`Recorded`); the row `disablehistory` replaces is there or a deletion beside the job took it (`Lost`) |
| `FailuresNeedAnother` | `Spec => FailureNeedsOverlap` | `AloneInv`: for a process that nobody ran beside, the rows its plan adds are new and have different keys (`NewKeys`), and what it has written is all that changed since it looked.  `PlanInv`: a plan that adds is `Founded` (what each step refers to was there when it was made, or an earlier step adds it), one that deletes is `Ordered` (a row goes after all that refers to it).  So every statement is lawful (`AloneIsLawful`), and who waits waits for somebody beside him (`BlockersAreBeside`); what is left is the refund that raises, of a billing code that, with nobody beside, is not in the committed rows either (`AloneSucceeds`) |
| `OrphansNeedADeletion` | `Spec => []OrphansNeedRace` | `WholeInv`: what each process sees is whole if foreign keys are enforced, or if no deletion ran beside a command that does not delete.  A commit puts the rows of one process into the database of another's making: `NamesInv` says that rows of different keys have different names and versions of one row the same, `HeldInv` and `SharedInv` that with enforced keys what the new rows refer to is held against deletion, `PlanInv` that without a race it is not going to be deleted |
| `CirclesNeedOppositeOrders` | `Spec => []DeadlockNeedsOppositeOrders` | On PostgreSQL.  `WaitInv`: each kind of process takes the tables in an order of its own (`Level`, `Rising`): a job its quota entry, the balance, the entries it counts on, the history and the billing code, a refund the billing code, the balance, the payment, the quota entry and the history; so it does not wait for a row of a table it went past, but a job for an entry of a printer group (`Below`).  Who only adds holds new rows, for which only another command of its kind waits.  `MineInv`: the users and quota entries that a job or a refund is going to change are those of the users it names, or are gone for good, so that two who wait for one have an user in common.  In a circle without deletions each member waits for a row of the next (`BlockedByARow`, `CircleOfOwners`), and unless two of them write in opposite orders as the property says, the levels of what they wait for rise until they come to a payment, which waits for nobody (`CirclesAreOpposed`) |
| `DumpsCanBeRestored` | `Spec => []DumpNamesWhatItHas` | `DumpInv`: the tables are read in the order of `DataTypes`, and what a row of one refers to is in an earlier one.  `Named`: a row of the database that refers to a row nobody has added since names what the dump has already, as long as its tables are among those read (`Done`) |
| `DumpsAreWhole` | `Spec => DumpIsWhole` | `DumpInv`, for a dump nobody ran beside: `Complete` and `Shown` say that every row of the tables read so far is there, unless its join fails or its group counts no pages |
| `DirectoryKeepsItsTypes` | `Spec => []TypeOK` | `TypeInv`: what a step uses was found before it.  `Planned` says of every step that is left what it may add, save or rewrite and that its object is in memory; `Shaped` that the steps whose place matters come right behind the search that guards them, and that a command which does not find what it needs is over |
| `DuplicatesAreRaces` | `Spec => []DuplicatesNeedOverlap` | `MeetInv`: any two processes at work have met (`Met`); when a process is about to add a quota entry or a billing code, what is there under that name was added by its own lost try, or by another it has met (`Waits`).  A second try adds the name of the first, so it adds nothing to what is there |
| `LossesAreRaces` | `Spec => []LossNeedsRace` | `LossInv`: in the commands that write what they have in memory (`Savers`), the steps left are in an order (`Ordered`) in which nobody writes one attribute of an entry twice from memory but a refund, which looks the entry up before each payment; as long as nobody noted a contention, what such a process relies on (`Relies`) is what the directory has (`Knows`).  The value of a request is computed once, from what is in the books: `ledger` with the change, or `ledger` itself when a try whose answer was lost has made it (`Computed`).  Who writes an attribute another relies on notes it in `contended`, which takes it out of both sides |
| `HalvesAreRaces` | `Spec /\ AllWhole => []HalfAccountNeedsFailure` | `HalfInv`, while nothing was lost: `Alters` says how far an `adduser` (`Addition`) or a `deluser` (`Removal`) has come; before it deletes the account, a deletion only looks at entries and deletes jobs and quota entries (`Clearing`).  `Sound(u)`: account and balance of `u` are both there or neither, unless a process is between its two requests (`Adding`, `Removing`), and then which of the two is there.  `Pairing(u)` excuses the users that were added and deleted by two processes that met, which by `MeetInv` are all the pairs at work |

`TypeOK` alone is too weak for `AccountingTx`: the refinement needs that the rows a
transaction changed are exactly those nobody else may change before it ends, which is
`HolderInv` and `FreeInv`, and that the changes add up, which is `AddedInv`; each of them
needs the others, and together (`TxInv`) they are inductive.

The theorems of the library that state induction take a predicate as a parameter, which the
provers cannot instantiate.  `Sums_proofs` has induction over the subsets of a finite set
with a set of subsets in the place of the predicate (`SmallestMember`), shows that the
recursive function `SumFunctionOnSet` is defined by has a solution and only one
(`SumsExist`, `SumsAreUnique`), and from there the laws of sums: any element may be taken
first, equal functions have equal sums, one change of a value changes the sum by as much.
`FlattenKeeps` does the same for `FlattenSeq`: what holds of a first sequence and goes on holding
when the next is added holds of all of them.

`ChargesReachTheirUser` is not inductive either: it says nothing of the charges a job has
not made yet, nor why the row it read is still its user's.  `JobInv` says what the identifier a
job read when it began may have become, and each of the three cases needs the locks, the names
and, on PostgreSQL, that identifiers only grow.

None of the properties of `TablesRaces_proofs` is inductive.  That a process failed says nothing
of the plan it had; so `PlanInv` speaks of the steps left of every plan, from the moment it is made
(`Script`) to its end, and the order in which twenty commands list their statements becomes part of
the invariant.  That no row is an orphan says nothing of the rows of open transactions, nor of what
they are about to delete: `WholeInv` is about every version a process can see, and a commit keeps it only
because of the locks.  That there is a circle says who waits now, and nothing of why he has come to wait
for this row after he took those: `WaitInv` compares what is left of a plan with what the transaction has
written, and `MineInv` keeps, from the moment a plan is made, whose rows it names.

`DuplicatesNeedOverlap` compares entries that are there; that a command asked before it adds is
forgotten once the step of the search is over.  `Waits` keeps it for the process that comes from the
search, and `Shaped` is what makes that search the only way there: without it a search that found
nothing for another reason might skip into the addition.

`LossNeedsRace` compares the directory with the books, and neither says what a process is about
to write.  `Computed` does, for the value that waits to be sent, across up to three tries of which
some may have been served.  A value that is still to be computed comes from an object in memory, read
long before: `Knows` says that it is up to date, and `Once` and `AskedLast` that no step of the
command itself makes it stale, which is why the order of steps is in the invariant.  A payment
of a refund is the exception: `AfterSearch` and `Lands` say that no search that fails, and no
skipped step, leads to the payment without the search that refreshes the balance.

`HalfAccountNeedsFailure` looks at the directory when nobody works on it, which no step starts from.
While commands run, half an user is the normal state in the middle of `addUser` and `deleteUser`, and of
each command between its two requests `Sound` has to say which half it left and what it does next.
Two additions at once do no harm: the entry of the account is refused to the second, which ends without
touching the balance, so that at most one process is `Adding`.  `AllWhole`, that no user is half
there when a scenario begins, is a hypothesis of the theorem; it is true of every scenario of the run.

The assumptions are `TopologyAssumption`, `SettingsAssumption`, `ThresholdAssumption`,
`GroupsAssumption`, `TxAssumption`, `TablesAssumption` and `DirectoryAssumption`: types of the constants, finite sets
of jobs, of printers and of rows, and that nobody is at once a job, a refund and a save.  `PageCounterAssumption` says
beside types that `Gap < Loops`, the printer pausing for fewer answers than the configuration
waits for, and that sheets come from data; `DirectoryAssumption` that no entry is there twice
when a scenario begins and that the entry of a last job names a job of its printer (`IsDirectory`), and that
who deletes an user or a quota entry names an user, not the wildcard, as `pkusers` and `edpykota` do after they
have expanded their patterns; `TablesAssumption` that
a database has finitely many rows and satisfies its unique and foreign keys when a scenario begins
(`IsDatabase`), as any database does on which the commands ran one at a time.  TLC evaluates them on every run.

Only model-checked:

* `EveryJobEnds` (both), `PrintedIsRecorded`, `EveryTxEnds`, `EveryProcessEnds`,
  `EveryCommandEnds`: liveness under fairness is beyond TLAPS.
* `CountersMatchHistory`: its invariant has to say at each place in a plan what the transaction still
  owes to the entry of a job, and to those above; section 6.
* `FailureNeedsCause`, `CleanDeletion`, `LastJobIsNewest` and the
  dump of `Directory`: each follows a command over all its requests, so that its invariant has
  to tell the steps of twenty commands apart, as `LossInv` does for eleven and `HalfInv` for two; section 6.

## 5. Abstractions

* A balance is an integer; `AccountBalance` is never NULL.  Group quotas are any verdict
  (`GroupVerdicts`), because a group's counters are sums over members the instance does not
  contain.  Ink usage and its prices are left out.
* `Ticket` is what CUPS knows after the ticket was overwritten: the overwrite command may
  replace the user name and the billing code before they are looked up.
* The banner commands are configured and their output is readable; what they print counts
  for one sheet or none.
* The date limit of an entry is read when the limits are checked; its copy in memory is at
  most a few steps older and the same process holds the device.
* The hardware accounter's reading is exact in `PrintJobs`, unless an orphan disturbs it;
  `PageCounter` shows when it is.  `disablehistory` is off there; `Tables` and `Directory` have
  it.
* `tries` stands still when the number of tries is unlimited, where nothing reads it.
* `Registered` users have an entry on a printer from the beginning, or get one from an
  external policy command.
* In `PrinterGroups` the creation and deletion of printers is left out; `Tables` and
  `Directory` have them, with printer groups one level deep.
* `PageCounter`: a status is idle, printing or other, an error is a jam; the wire formats of
  SNMP and PJL, and the strings an external command prints, are left out.
* `PrintJobs`: the lock file is in the directory of the option `directory` (cupspykota 230-237, 303-308,
  config.py 550-555), or in the temporary directory where that one is not accessible.  The option may be set for
  each printer; the module, and with it `DeviceMutex`, `MeteredIsPrinted` and the theorems about them, has
  the same directory for all queues of a device.  Two queues of one device with different directories do not
  exclude each other.
* `Tables`: storage caching is off (`storagecaching`).  The groups above a printer are read when the job starts, as its
  quota is checked (tool.py 482), the entries above in any order (a dictionary).  A billing code that the policy CREATE
  makes is not part of the job's transaction and is `addcode` before the job.  The balance of a billing
  code moves with its pages and is left out; so are the count of denials and its increments, which are
  statements of their own.
* `Tables`: a deletion's chunks and the rows of one INSERT of many are single statements; the
  searches of a command come before its transaction, at once, when it starts; SQLite's read
  locks are left out.  MySQL is not modelled: its tables are InnoDB, whose transactions
  read a snapshot and lock ranges of an index, so that other statements wait for one another.
* `Directory`: searches are answered at once and never fail (`doSearch` has no effect when it
  is repeated); `newuser` and `newgroup` are `below`, entries are not attached to those of
  other programs; `--skipexisting` is left out, and so is the cache of whole entries (`ldapcache`,
  ldapstorage.py 247-257), which is off by default.  A command finds every object before it
  changes the first.
* Descriptions, prices, e-mail addresses, dates, and the filters, sort orders and formats of
  reports and dumps are data nothing here depends on.
* Not modelled at all: ink accounting (one formula over a table of prices), backend discovery,
  self registration and mails, presentation, set up, reports; section 6 says which of them are
  next.

## 6. Plan

In this order:

1. `MCQuotaCheck`: `PagesVerdict`, `BalanceVerdict` and `UserVerdict` against a definition by
   the documentation's wording, over bounded inputs; monotonicity as theorems.
2. `BackendDiscovery`: the lock file of `discoverOtherBackends`, tested and made in two steps.
3. `SelfRegistration`: autopykota as the external policy of `PrintJobs`, warnpykota, whose
   check starts grace periods.

Theorems next: `CountersMatchHistory` of `Tables`, and `FailureNeedsCause` of `Directory`, by
the searches of a command that runs alone.
Where a new component needs a run, configurations of the existing runs are merged, so that
each run keeps one distinct question.
