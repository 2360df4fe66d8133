------------------------------ MODULE PrintJobs ------------------------------
(***************************************************************************)
(* The cupspykota backend: one process per print job, from the lock on the *)
(* device to the row in the history.  CUPS starts the processes; jobs of   *)
(* the same queue or of two queues that share a device wait for each other *)
(* on the lock file, jobs on different devices run at the same time and    *)
(* meet in the database.                                                   *)
(*                                                                         *)
(* The transaction that closes a job is one step here (AccountingTx takes  *)
(* it apart).  The printer is external: it prints the sheets the real      *)
(* backend sends it and counts them.                                       *)
(***************************************************************************)
EXTENDS QuotaCheck

CONSTANTS
  Jobs, Users, Printers, Devices, Codes,
  None,          (* no lock holder, no last job, no billing code, no row   *)
  Ticket,        (* what CUPS knows of a job                               *)
  DeviceOf,      (* the device, hence the lock file, of a print queue      *)
  Ancestors,     (* the printer groups a printer is in, transitively       *)
  PagePrice,     (* price per page of a printer                            *)
  JobFee,        (* price per job of a printer                             *)
  Profile,       (* limiting factor and overcharge factor of a user        *)
  Limits,        (* page limits and maximal job size of a quota entry      *)
  MaxJobSize,    (* maximal job size of a printer                          *)
  Confs,         (* the configurations a printer may have                  *)
  Registered,    (* the users that have a quota entry, per printer         *)
  InitialBalance,
  KnownCodes,    (* billing codes of the database at the beginning         *)
  TicketAnswers, (* what the overwrite_jobticket command may decide        *)
  DupeAnswers,   (* what the denyduplicates command may print              *)
  GroupVerdicts, (* what the limits of the user's groups may say           *)
  Confirmations, (* whether the user may confirm or cancel                 *)
  Abortable,     (* jobs whose process may be killed or fail               *)
  MaxSheets      (* bound on the data sheets of one job                    *)

(* self.Action.  OTHER stands for whatever else a denyduplicates command    *)
(* prints, PROBLEM for a real backend that failed.                         *)
Actions == {"ALLOW", "WARN", "DENY", "CANCEL", "OTHER", "PROBLEM"}

ConfType ==
  [accounter        : {"hardware", "software"},
   policy           : {"ALLOW", "DENY", "EXTERNAL"},
   enforcement      : {"LAXIST", "STRICT"},
   onbackenderror   : SUBSET {"CHARGE", "NOCHARGE"},
   retry            : Nat,                       (* 0: for ever *)
   accountbanner    : {"STARTING", "ENDING", "BOTH", "NONE"},
   maxdenybanners   : Nat,
   avoidduplicates  : {"NO", "YES", "DELAY"},
   cancelledbanners : BOOLEAN,
   denyduplicates   : {"NO", "YES", "COMMAND"},
   unknowncode      : {"CREATE", "DENY"},
   passthrough      : BOOLEAN,
   trustlimit       : Nat \cup {NoLimit},        (* trustjobsize: >limit:... *)
   trustvalue       : Nat \cup {NoLimit}]        (* NoLimit: precomputed     *)

ASSUME TopologyAssumption ==
  /\ Ticket \in [Jobs -> [user : Users, printer : Printers, size : Nat, sum : Nat,
                          code : Codes \cup {None}, empty : BOOLEAN]]
  /\ DeviceOf \in [Printers -> Devices]
  /\ Ancestors \in [Printers -> SUBSET Printers]
  /\ Registered \in [Printers -> SUBSET Users]
  /\ KnownCodes \subseteq Codes
  /\ None \notin Jobs \cup Codes
  /\ IsFiniteSet(Jobs) /\ IsFiniteSet(Printers)

ASSUME SettingsAssumption ==
  /\ Confs \subseteq ConfType
  /\ Profile \in [Users -> [limitby : {"quota", "balance", "noquota", "noprint", "nochange"},
                            overcharge : Int]]
  /\ Limits \in [Users -> [Printers -> [soft : Nat \cup {NoLimit}, hard : Nat \cup {NoLimit},
                                        max : Nat \cup {NoLimit}]]]
  /\ MaxJobSize \in [Printers -> Nat]
  /\ InitialBalance \in [Users -> Int]
  /\ PagePrice \in [Printers -> Int] /\ JobFee \in [Printers -> Int]
  /\ TicketAnswers \subseteq {"ALLOW", "DENY", "CANCEL"}
  /\ DupeAnswers \subseteq {"ALLOW", "DENY", "CANCEL", "OTHER"}
  /\ GroupVerdicts \subseteq Verdicts
  /\ Confirmations \subseteq BOOLEAN
  /\ Abortable \subseteq Jobs
  /\ MaxSheets \in Nat

VARIABLES
  conf,      (* the configuration of each printer, fixed                     *)
  \* the database
  balance,   (* users.balance                                                *)
  upq,       (* userpquota: pages, deny banner counter, date limit           *)
  codes,     (* billingcodes                                                 *)
  rows,      (* jobhistory: at most one row per job                          *)
  last,      (* the latest row of each printer                               *)
  \* the processes
  pc, lock,
  action,    (* self.Action                                                  *)
  mem,       (* what the process read from the database                      *)
  tries,     (* loopcnt of printJobDatas                                     *)
  retcode,   (* the real backend failed                                      *)
  bannersize,(* self.BannerSize                                              *)
  before,    (* the accounter's reading of the counter when the job begins   *)
  meter,     (* the accounter's idea of the job's size when it ends          *)
  orphans,   (* real backends that outlive their cupspykota                  *)
  \* the printers, and what an observer notes
  counter,   (* the internal page counter of each device                     *)
  data,      (* sheets of the job's own data that came out                   *)
  sheets,    (* sheets of the job's data and of its accounted banners        *)
  banners,   (* banners sent to the device for a job                         *)
  shown,     (* deny banners shown since the last accepted job               *)
  disturbed  (* jobs that had an orphan print during their accounting        *)

dbVars   == <<balance, upq, codes, rows, last>>
procVars == <<pc, lock, action, mem, tries, retcode, bannersize, before, meter, orphans>>
devVars  == <<counter, data, sheets, banners, shown, disturbed>>
vars     == <<conf, dbVars, procVars, devVars>>

User(j)    == Ticket[j].user
Printer(j) == Ticket[j].printer
Device(j)  == DeviceOf[Printer(j)]
Conf(j)    == conf[Printer(j)]

(* The processes between waitForLock and clean. *)
Working == {"locked", "retrieved", "decided", "begun", "backend", "asleep", "after",
            "ended", "accounted", "clean"}
Points  == Working \cup {"start", "done"}

(* The accounter is at work: beginJob was called, endJob was not. *)
Metering(j) == /\ pc[j] \in {"begun", "backend", "asleep", "after"}
               /\ mem[j].accounted
               /\ action[j] \notin {"DENY", "CANCEL"}

NoMem == [balance |-> 0, pages |-> 0, warn |-> 0, entries |-> {}, code |-> FALSE,
          last |-> None, accounted |-> FALSE]
NoRow == [action |-> "NONE", size |-> 0, price |-> 0]

GoTo(j, from, to) == /\ pc[j] = from
                     /\ pc' = [pc EXCEPT ![j] = to]

Init ==
  /\ conf \in [Printers -> Confs]
  /\ balance = InitialBalance
  /\ upq = [u \in Users |-> [p \in Printers |->
              [exists |-> u \in Registered[p], pages |-> 0, warn |-> 0, date |-> "unset"]]]
  /\ codes = [c \in Codes |-> [exists |-> c \in KnownCodes, pages |-> 0, balance |-> 0]]
  /\ rows = [j \in Jobs |-> NoRow]
  /\ last = [p \in Printers |-> None]
  /\ pc = [j \in Jobs |-> "start"]
  /\ lock = [d \in Devices |-> None]
  /\ action = [j \in Jobs |-> "ALLOW"]
  /\ mem = [j \in Jobs |-> NoMem]
  /\ tries = [j \in Jobs |-> 0]
  /\ retcode = [j \in Jobs |-> FALSE]
  /\ bannersize = [j \in Jobs |-> 0]
  /\ before = [j \in Jobs |-> 0]
  /\ meter = [j \in Jobs |-> 0]
  /\ orphans = {}
  /\ counter = [d \in Devices |-> 0]
  /\ data = [j \in Jobs |-> 0]
  /\ sheets = [j \in Jobs |-> 0]
  /\ banners = [j \in Jobs |-> 0]
  /\ shown = [u \in Users |-> [p \in Printers |-> 0]]
  /\ disturbed = {}

-----------------------------------------------------------------------------
(* Waiting for the printer, and what is known of the user.                 *)

(* The lock file is named after the device, in the directory of the option *)
(* "directory", which is the same for all queues here; a mutant names it   *)
(* after the queue.                                                        *)
QueueIsFree(j) == \A k \in Jobs : Printer(k) = Printer(j) => pc[k] \notin Working
LockIsFree(j)  == lock[Device(j)] = None

(* waitForLock: an exclusive lock on that file. *)
WaitForLock(j) ==
  /\ GoTo(j, "start", "locked")
  /\ LockIsFree(j)
  /\ lock' = [lock EXCEPT ![Device(j)] = j]
  /\ UNCHANGED <<conf, dbVars, devVars,
                 action, mem, tries, retcode, bannersize, before, meter, orphans>>

(* What a process keeps of the database once it knows its user: later      *)
(* decisions use these values, not the database's.                         *)
Snapshot(j) ==
  [NoMem EXCEPT !.balance   = balance[User(j)],
                !.pages     = upq[User(j)][Printer(j)].pages,
                !.warn      = upq[User(j)][Printer(j)].warn,
                !.accounted = TRUE]

(* The user has a quota entry on the printer: the job will be accounted. *)
KnownUser(j) ==
  /\ upq[User(j)][Printer(j)].exists
  /\ GoTo(j, "locked", "retrieved")
  /\ mem' = [mem EXCEPT ![j] = Snapshot(j)]
  /\ UNCHANGED <<upq, tries>>

(* The external policy command creates the entry, and the second look      *)
(* finds it.                                                               *)
CreatedByPolicy(j) ==
  /\ ~upq[User(j)][Printer(j)].exists
  /\ Conf(j).policy = "EXTERNAL"
  /\ GoTo(j, "locked", "retrieved")
  /\ upq' = [upq EXCEPT ![User(j)][Printer(j)].exists = TRUE]
  /\ mem' = [mem EXCEPT ![j] = Snapshot(j)]
  /\ UNCHANGED tries

(* Nothing to print, or no entry and a policy that denies, or an external  *)
(* command that fails or creates nothing: the job is removed.              *)
Rejected(j) ==
  /\ \/ Ticket[j].empty
     \/ /\ ~upq[User(j)][Printer(j)].exists
        /\ Conf(j).policy \in {"DENY", "EXTERNAL"}
  /\ GoTo(j, "locked", "clean")
  /\ UNCHANGED <<upq, mem, tries>>

(* No entry and policy ALLOW: printed at once, without any accounting. *)
AllowedByPolicy(j) ==
  /\ ~upq[User(j)][Printer(j)].exists
  /\ Conf(j).policy = "ALLOW"
  /\ GoTo(j, "locked", "backend")
  /\ tries' = [tries EXCEPT ![j] = 1]
  /\ UNCHANGED <<upq, mem>>

(* overwriteJobTicket, then mainWork up to doWork. *)
Retrieve(j) ==
  /\ \E a \in TicketAnswers : action' = [action EXCEPT ![j] = a]
  /\ \/ Rejected(j)
     \/ ~Ticket[j].empty /\ (KnownUser(j) \/ CreatedByPolicy(j) \/ AllowedByPolicy(j))
  /\ UNCHANGED <<conf, balance, codes, rows, last, devVars,
                 lock, retcode, bannersize, before, meter, orphans>>

-----------------------------------------------------------------------------
(* The decision.                                                           *)

Refused(a) == a \in {"DENY", "CANCEL"}

(* Refused whatever the counters say. *)
Forbidden(j) ==
  LET max == Limits[User(j)][Printer(j)].max
  IN  \/ MaxJobSize[Printer(j)] # 0 /\ Ticket[j].size > MaxJobSize[Printer(j)]
      \/ max # NoLimit /\ Ticket[j].size > max
      \/ Profile[User(j)].limitby = "noprint"

UnknownCode(j) == Ticket[j].code # None /\ ~codes[Ticket[j].code].exists

(* The same user sent the same data as the printer's last job. *)
IsDupe(j) ==
  LET l == last[Printer(j)]
  IN  l # None /\ User(l) = User(j) /\ Ticket[l].sum = Ticket[j].sum

(* checkIfDupe: an older job does not count; a command's answer is taken   *)
(* as it is.                                                               *)
AfterDupeCheck(j) ==
  {"ALLOW"} \cup
  IF ~IsDupe(j) THEN {}
  ELSE CASE Conf(j).denyduplicates = "NO"      -> {}
         [] Conf(j).denyduplicates = "YES"     -> {"DENY"}
         [] Conf(j).denyduplicates = "COMMAND" -> DupeAnswers

(* The quota entries of the user on the printer and on its ancestors. *)
Entries(j) ==
  {Printer(j)} \cup {p \in Ancestors[Printer(j)] : upq[User(j)][p].exists}

(* The pages a check counts on one of these printers: the process read its *)
(* own printer's entry earlier, the ancestors' just now.                   *)
SeenPages(j, p) ==
  (IF p = Printer(j) THEN mem[j].pages ELSE upq[User(j)][p].pages)
  + Anticipated(conf[p].enforcement, Ticket[j].size)

PagesVerdicts(j) ==
  {PagesVerdict(SeenPages(j, p), Limits[User(j)][p], upq[User(j)][p].date) : p \in Entries(j)}

Price(j, size, printers) ==
  JobPrice(size, Profile[User(j)].overcharge,
           TotalPrice(JobFee, printers), TotalPrice(PagePrice, printers))

QuotaChecked(j) == /\ Profile[User(j)].limitby \notin {"noquota", "nochange"}
                   /\ ~Conf(j).passthrough

(* checkUserPQuota, for a verdict g of the user's groups. *)
QuotaVerdict(j, g) ==
  UserVerdict(g, Profile[User(j)].limitby, Profile[User(j)].overcharge,
              BalanceVerdict(Conf(j).enforcement, mem[j].balance,
                             Price(j, Ticket[j].size, Entries(j))),
              PagesVerdicts(j))

(* The check of the pages starts grace periods on the entries it looks at: *)
(* all of them, or those it meets before the one that denies (its own      *)
(* first, the ancestors in no particular order).                           *)
GraceStarts(j, g) ==
  LET inGrace == {p \in Entries(j) : StartsGrace(SeenPages(j, p), Limits[User(j)][p],
                                                 upq[User(j)][p].date)}
      own     == PagesVerdict(SeenPages(j, Printer(j)), Limits[User(j)][Printer(j)],
                              upq[User(j)][Printer(j)].date)
  IN  IF g = "DENY" \/ Profile[User(j)].limitby = "balance" \/ own = "DENY" THEN {{}}
      ELSE IF "DENY" \notin PagesVerdicts(j) THEN {inGrace}
      ELSE {s \in SUBSET inGrace : inGrace \cap {Printer(j)} \subseteq s}

(* didUserConfirm: a job that would be printed may still be cancelled. *)
Settle(j, a) ==
  \E yes \in Confirmations :
    action' = [action EXCEPT ![j] = IF Refused(a) \/ yes THEN a ELSE "CANCEL"]

(* A decision without a look at the quota leaves the date limits alone. *)
Decision(j, a) == Settle(j, a) /\ UNCHANGED upq

InGraceNow(j, p) == [upq[User(j)][p] EXCEPT !.date = "running"]

DecideByQuota(j) ==
  \E g \in GroupVerdicts :
    /\ Settle(j, QuotaVerdict(j, g))
    /\ \E s \in GraceStarts(j, g) :
         upq' = [upq EXCEPT ![User(j)] =
                   [p \in Printers |-> IF p \in s THEN InGraceNow(j, p) ELSE upq[User(j)][p]]]

(* doWork up to the decision.  The billing code is looked up, created or   *)
(* held against the job before duplicates and quotas are checked; a job    *)
(* that is still welcome at the end may be cancelled by the user.          *)
Decide(j) ==
  /\ GoTo(j, "retrieved", "decided")
  /\ LET denied == Refused(action[j]) \/ Forbidden(j)
         create == ~denied /\ UnknownCode(j) /\ Conf(j).unknowncode = "CREATE"
         badcode == ~denied /\ UnknownCode(j) /\ Conf(j).unknowncode = "DENY"
     IN
     /\ codes' = IF create THEN [codes EXCEPT ![Ticket[j].code].exists = TRUE] ELSE codes
     /\ mem' = [mem EXCEPT ![j].entries = Entries(j),
                           ![j].code = ~denied /\ Ticket[j].code # None /\ ~badcode,
                           ![j].last = last[Printer(j)]]
     /\ \/ /\ denied \/ badcode
           /\ Decision(j, IF Refused(action[j]) THEN action[j] ELSE "DENY")
        \/ /\ ~denied /\ ~badcode
           /\ \E a \in AfterDupeCheck(j) :
                \/ (Refused(a) \/ ~QuotaChecked(j)) /\ Decision(j, a)
                \/ ~Refused(a) /\ QuotaChecked(j) /\ DecideByQuota(j)
  /\ UNCHANGED <<conf, balance, rows, last, devVars,
                 lock, tries, retcode, bannersize, before, meter, orphans>>

-----------------------------------------------------------------------------
(* Banners.                                                                *)

Denied(j) == action[j] = "DENY"

(* The maximum number of deny banners, and an off-by-one. *)
PastDenyBanners(j)    == mem[j].warn > Conf(j).maxdenybanners
EnoughDenyBanners(j)  == mem[j].warn >= Conf(j).maxdenybanners

SameUserAsLast(j) == mem[j].last # None /\ User(mem[j].last) = User(j)

(* Whether the banner is shown, once handleBanner got past the limit on    *)
(* deny banners: printcancelledbanners is not looked at, because no caller *)
(* asks for a banner when the job is cancelled.                            *)
ShowsBanner(j) ==
  IF Conf(j).avoidduplicates = "NO" \/ ~SameUserAsLast(j) THEN {TRUE}
  ELSE IF Conf(j).avoidduplicates = "YES" THEN {FALSE}
  ELSE BOOLEAN

(* handleBanner.  A deny banner is counted in the database at once, shown  *)
(* or not, up to maxdenybanners; the page may come out or not.  With       *)
(* accounting, a software accounter adds a page to the job.                *)
HandleBanner(j, withaccounting) ==
  IF Denied(j) /\ EnoughDenyBanners(j)
  THEN UNCHANGED <<upq, mem, bannersize, counter, sheets, banners, shown>>
  ELSE \E show \in ShowsBanner(j) : \E out \in IF show THEN {0, 1} ELSE {0} :
         /\ upq' = IF Denied(j) THEN [upq EXCEPT ![User(j)][Printer(j)].warn = @ + 1] ELSE upq
         /\ mem' = IF Denied(j) THEN [mem EXCEPT ![j].warn = @ + 1] ELSE mem
         /\ banners' = IF show THEN [banners EXCEPT ![j] = @ + 1] ELSE banners
         /\ shown' = IF Denied(j) /\ show
                     THEN [shown EXCEPT ![User(j)][Printer(j)] = @ + 1] ELSE shown
         /\ bannersize' = IF withaccounting /\ show /\ Conf(j).accounter = "software"
                          THEN [bannersize EXCEPT ![j] = @ + 1] ELSE bannersize
         /\ counter' = [counter EXCEPT ![Device(j)] = @ + out]
         /\ sheets' = IF withaccounting /\ ~Denied(j)
                      THEN [sheets EXCEPT ![j] = @ + out] ELSE sheets

NoBanner == UNCHANGED <<upq, mem, bannersize, counter, sheets, banners, shown>>

(* A banner of doWork: none for a cancelled job, none when this place is   *)
(* not configured.                                                         *)
BannerIf(j, configured, withaccounting) ==
  IF action[j] # "CANCEL" /\ configured THEN HandleBanner(j, withaccounting) ELSE NoBanner

-----------------------------------------------------------------------------
(* Printing.                                                               *)

(* The banners that are part of the job, and the ending one that is not;   *)
(* a mutant has the test of the free starting banner there.                *)
StartIsAccounted(j) == Conf(j).accountbanner \in {"STARTING", "BOTH"}
EndIsAccounted(j)   == Conf(j).accountbanner \in {"ENDING", "BOTH"}
StartIsFree(j)      == Conf(j).accountbanner \in {"ENDING", "NONE"}
EndIsFree(j)        == Conf(j).accountbanner \in {"STARTING", "NONE"}

(* The starting banner and beginJob: an accounted banner comes after the   *)
(* accounter's first reading, a free one before.                           *)
Begin(j) ==
  /\ GoTo(j, "decided", "begun")
  /\ BannerIf(j, TRUE, StartIsAccounted(j))
  /\ before' = IF Refused(action[j]) THEN before
               ELSE [before EXCEPT ![j] = IF StartIsAccounted(j) THEN counter[Device(j)]
                                          ELSE counter'[Device(j)]]
  /\ UNCHANGED <<conf, balance, codes, rows, last, data, disturbed,
                 lock, action, tries, retcode, meter, orphans>>

(* The jobs whose data goes to the printer; a mutant forgets the warning. *)
IsAllowed(a) == a = "ALLOW"
IsSent(a)    == a \in {"ALLOW", "WARN"}

(* printJobDatas starts the real backend, removeJob starts nothing. *)
SendOrRemove(j) ==
  /\ \/ /\ IsSent(action[j])
        /\ GoTo(j, "begun", "backend")
        /\ tries' = [tries EXCEPT ![j] = 1]
     \/ /\ ~IsSent(action[j])
        /\ GoTo(j, "begun", "after")
        /\ UNCHANGED tries
  /\ UNCHANGED <<conf, dbVars, devVars,
                 lock, action, mem, retcode, bannersize, before, meter, orphans>>

(* External: the device prints one more sheet of the job. *)
BackendPrints(j) ==
  /\ pc[j] = "backend"
  /\ data[j] < MaxSheets
  /\ data' = [data EXCEPT ![j] = @ + 1]
  /\ sheets' = [sheets EXCEPT ![j] = @ + 1]
  /\ counter' = [counter EXCEPT ![Device(j)] = @ + 1]
  /\ UNCHANGED <<conf, dbVars, procVars, banners, shown, disturbed>>

(* Where the process goes when the real backend is over; a mutant accounts *)
(* for success only.                                                       *)
AfterSuccess(j, failed) == IF mem[j].accounted /\ ~failed THEN "after" ELSE "clean"
AfterBackend(j, failed) == IF mem[j].accounted THEN "after" ELSE "clean"

BackendSucceeds(j) ==
  /\ GoTo(j, "backend", AfterBackend(j, FALSE))
  /\ retcode' = [retcode EXCEPT ![j] = FALSE]
  /\ UNCHANGED <<conf, dbVars, devVars,
                 lock, action, mem, tries, bannersize, before, meter, orphans>>

(* A failure is retried the configured number of times, or for ever. *)
TriesLeft(j) == Conf(j).retry = 0 \/ tries[j] < Conf(j).retry

BackendFails(j) ==
  /\ GoTo(j, "backend", IF TriesLeft(j) THEN "asleep" ELSE AfterBackend(j, TRUE))
  /\ retcode' = [retcode EXCEPT ![j] = TRUE]
  /\ UNCHANGED <<conf, dbVars, devVars,
                 lock, action, mem, tries, bannersize, before, meter, orphans>>

(* loopcnt for the next attempt; with unlimited tries nothing reads it, so *)
(* it stays.  A mutant resets it in the loop, another counts down.         *)
CountedAfresh(j) == 1
CountsDown(j)    == tries[j] - 1
LoopCount(j)     == IF Conf(j).retry = 0 THEN tries[j] ELSE tries[j] + 1

(* After the delay the real backend is started again. *)
Retry(j) ==
  /\ GoTo(j, "asleep", "backend")
  /\ tries' = [tries EXCEPT ![j] = LoopCount(j)]
  /\ UNCHANGED <<conf, dbVars, devVars,
                 lock, action, mem, retcode, bannersize, before, meter, orphans>>

(* The accounted ending banner and endJob.  The hardware accounter asks    *)
(* the printer for its counter, the software one keeps the precomputed     *)
(* size.                                                                   *)
Finish(j) ==
  /\ GoTo(j, "after", "ended")
  /\ BannerIf(j, EndIsAccounted(j), TRUE)
  /\ meter' = IF Refused(action[j]) THEN meter
              ELSE [meter EXCEPT ![j] = IF Conf(j).accounter = "hardware"
                                        THEN counter'[Device(j)] - before[j]
                                        ELSE Ticket[j].size]
  /\ UNCHANGED <<conf, balance, codes, rows, last, data, disturbed,
                 lock, action, tries, retcode, before, orphans>>

-----------------------------------------------------------------------------
(* The transaction.                                                        *)

(* sanitizeJobSize: a size that differs from the precomputed one may be    *)
(* replaced when it is above the trustjobsize limit.                       *)
Sanitized(j, size) ==
  LET c == Conf(j)
  IN  IF /\ Ticket[j].size # 0 /\ size # Ticket[j].size
         /\ c.trustlimit # NoLimit /\ size > c.trustlimit
      THEN IF c.trustvalue = NoLimit THEN Ticket[j].size ELSE c.trustvalue
      ELSE size

FinalAction(j) == IF retcode[j] THEN "PROBLEM" ELSE action[j]

Forgiven(j) == FinalAction(j) = "PROBLEM" /\ "NOCHARGE" \in Conf(j).onbackenderror

(* The size that goes to the history; the mutant has no case for a refused *)
(* job.                                                                    *)
BannersAndData(j) == Sanitized(j, meter[j]) + bannersize[j]
JobSize(j) ==
  IF Refused(FinalAction(j)) \/ (FinalAction(j) = "PROBLEM" /\ "CHARGE" \notin Conf(j).onbackenderror)
  THEN 0
  ELSE BannersAndData(j)

(* The quota of the user is modified by this job. *)
Counted(j) ==
  /\ ~Refused(FinalAction(j))
  /\ ~Forgiven(j)
  /\ Profile[User(j)].limitby # "nochange"
  /\ ~Conf(j).passthrough

RowPrice(j) == IF Counted(j) THEN Price(j, JobSize(j), mem[j].entries) ELSE 0

(* The balance is decreased in SQL, by what the job costs; the mutant      *)
(* writes what the process knows of it, as saveUser does.                  *)
WrittenBalance(j) == mem[j].balance - RowPrice(j)
ChargedBalance(j) == balance[User(j)] - RowPrice(j)

BillsCode(j) ==
  /\ mem[j].code
  /\ \/ FinalAction(j) \in {"ALLOW", "WARN"}
     \/ FinalAction(j) = "PROBLEM" /\ "CHARGE" \in Conf(j).onbackenderror

(* increasePagesUsage on the entries, resetDenyBannerCounter on the job's. *)
EntryAfter(j, p) ==
  LET e == upq[User(j)][p]
  IN  [e EXCEPT !.pages = IF Counted(j) /\ p \in mem[j].entries
                          THEN e.pages + JobSize(j) ELSE e.pages,
                !.warn  = IF p = Printer(j) /\ ~Refused(FinalAction(j))
                          THEN 0 ELSE e.warn]

(* BillingCode.consume. *)
CodeAfter(j) == [codes[Ticket[j].code] EXCEPT !.pages = @ + JobSize(j), !.balance = @ + RowPrice(j)]

(* The end of doWork's accounting: one transaction, committed. *)
Close(j) ==
  /\ GoTo(j, "ended", "accounted")
  /\ rows' = [rows EXCEPT ![j] = [action |-> FinalAction(j), size |-> JobSize(j),
                                  price |-> RowPrice(j)]]
  /\ last' = [last EXCEPT ![Printer(j)] = j]
  /\ balance' = [balance EXCEPT ![User(j)] = ChargedBalance(j)]
  /\ upq' = [upq EXCEPT ![User(j)] = [p \in Printers |-> EntryAfter(j, p)]]
  /\ codes' = IF BillsCode(j) THEN [codes EXCEPT ![Ticket[j].code] = CodeAfter(j)] ELSE codes
  /\ mem' = IF Refused(FinalAction(j)) THEN mem ELSE [mem EXCEPT ![j].warn = 0]
  /\ shown' = IF Refused(FinalAction(j)) THEN shown
              ELSE [shown EXCEPT ![User(j)][Printer(j)] = 0]
  /\ action' = [action EXCEPT ![j] = FinalAction(j)]
  /\ UNCHANGED <<conf, lock, tries, retcode, bannersize, before, meter, orphans,
                 counter, data, sheets, banners, disturbed>>

(* The ending banner that is not accounted. *)
EndBanner(j) ==
  /\ GoTo(j, "accounted", "clean")
  /\ BannerIf(j, EndIsFree(j), FALSE)
  /\ UNCHANGED <<conf, balance, codes, rows, last, data, disturbed,
                 lock, action, tries, retcode, before, meter, orphans>>

(* clean: the lock is released. *)
Clean(j) ==
  /\ GoTo(j, "clean", "done")
  /\ lock' = [lock EXCEPT ![Device(j)] = None]
  /\ UNCHANGED <<conf, dbVars, devVars,
                 action, mem, tries, retcode, bannersize, before, meter, orphans>>

-----------------------------------------------------------------------------
(* What may go wrong.                                                      *)

(* An exception (the transaction that fails is rolled back, the accounter  *)
(* that gives up), an interruption by the administrator or a kill: the     *)
(* process ends wherever it is and its lock is released.  A real backend   *)
(* that was at work is not told.                                           *)
Abort(j) ==
  /\ j \in Abortable
  /\ pc[j] # "done"
  /\ pc' = [pc EXCEPT ![j] = "done"]
  /\ lock' = [lock EXCEPT ![Device(j)] = IF @ = j THEN None ELSE @]
  /\ orphans' = IF pc[j] = "backend" THEN orphans \cup {j} ELSE orphans
  /\ UNCHANGED <<conf, dbVars, devVars,
                 action, mem, tries, retcode, bannersize, before, meter>>

(* External: such a backend goes on printing, whoever holds the lock. *)
OrphanPrints(j) ==
  /\ j \in orphans
  /\ data[j] < MaxSheets
  /\ data' = [data EXCEPT ![j] = @ + 1]
  /\ counter' = [counter EXCEPT ![Device(j)] = @ + 1]
  /\ disturbed' = disturbed \cup {k \in Jobs : Device(k) = Device(j) /\ Metering(k)}
  /\ UNCHANGED <<conf, dbVars, procVars, sheets, banners, shown>>

OrphanEnds(j) ==
  /\ j \in orphans
  /\ orphans' = orphans \ {j}
  /\ UNCHANGED <<conf, dbVars, devVars,
                 pc, lock, action, mem, tries, retcode, bannersize, before, meter>>

(* Time: the grace period of an entry ends. *)
GraceEnds(u, p) ==
  /\ upq[u][p].date = "running"
  /\ upq' = [upq EXCEPT ![u][p].date = "over"]
  /\ UNCHANGED <<conf, balance, codes, rows, last, procVars, devVars>>

-----------------------------------------------------------------------------

Process(j) ==
  \/ WaitForLock(j) \/ Retrieve(j) \/ Decide(j) \/ Begin(j) \/ SendOrRemove(j)
  \/ Retry(j) \/ Finish(j) \/ Close(j) \/ EndBanner(j) \/ Clean(j)

RealBackend(j) == BackendPrints(j) \/ BackendSucceeds(j) \/ BackendFails(j)

Environment == \/ \E j \in Jobs : Abort(j) \/ OrphanPrints(j) \/ OrphanEnds(j)
               \/ \E u \in Users, p \in Printers : GraceEnds(u, p)

(* Every process is over: the model stops, CUPS would go on. *)
AllDone == /\ \A j \in Jobs : pc[j] = "done"
           /\ UNCHANGED vars

Next == \/ \E j \in Jobs : Process(j) \/ RealBackend(j)
        \/ Environment
        \/ AllDone

Spec == Init /\ [][Next]_vars

(* Every process goes on when it can, as the scheduler of the system makes *)
(* it, and a real backend ends, one way or the other.  Sheets, orphans,    *)
(* kills and the end of grace periods are left to the environment.         *)
Fairness ==
  \A j \in Jobs : WF_vars(Process(j)) /\ WF_vars(BackendSucceeds(j) \/ BackendFails(j))

FairSpec == Spec /\ Fairness

-----------------------------------------------------------------------------
(* The properties.                                                         *)

EntryType  == [exists : BOOLEAN, pages : Int, warn : Nat, date : DateLimits]
CodeType   == [exists : BOOLEAN, pages : Int, balance : Int]
RowType    == [action : Actions \cup {"NONE"}, size : Int, price : Int]
MemoryType == [balance : Int, pages : Int, warn : Nat, entries : SUBSET Printers,
               code : BOOLEAN, last : Jobs \cup {None}, accounted : BOOLEAN]

(* The values the variables take. *)
TypeOK ==
  /\ conf \in [Printers -> Confs]
  /\ balance \in [Users -> Int]
  /\ upq \in [Users -> [Printers -> EntryType]]
  /\ codes \in [Codes -> CodeType]
  /\ rows \in [Jobs -> RowType]
  /\ last \in [Printers -> Jobs \cup {None}]
  /\ pc \in [Jobs -> Points]
  /\ lock \in [Devices -> Jobs \cup {None}]
  /\ action \in [Jobs -> Actions]
  /\ mem \in [Jobs -> MemoryType]
  /\ tries \in [Jobs -> Nat]
  /\ retcode \in [Jobs -> BOOLEAN]
  /\ bannersize \in [Jobs -> Nat]
  /\ before \in [Jobs -> Nat]
  /\ meter \in [Jobs -> Int]
  /\ orphans \subseteq Jobs
  /\ counter \in [Devices -> Nat]
  /\ data \in [Jobs -> Nat]
  /\ sheets \in [Jobs -> Nat]
  /\ banners \in [Jobs -> Nat]
  /\ shown \in [Users -> [Printers -> Nat]]
  /\ disturbed \subseteq Jobs

(* Two processes between waitForLock and clean never work on the same      *)
(* device, whatever their queues: the lock file is named after the device. *)
DeviceMutex ==
  \A j, k \in Jobs : pc[j] \in Working /\ pc[k] \in Working /\ Device(j) = Device(k) => j = k

(* The size of the row was measured, not forced to zero. *)
Measured(j) ==
  \/ rows[j].action \in {"ALLOW", "WARN"}
  \/ rows[j].action = "PROBLEM" /\ "CHARGE" \in Conf(j).onbackenderror

(* A hardware accounter charges a job for exactly the sheets the device    *)
(* printed for it, its accounted banners included: no sheet of another job *)
(* falls between its two readings of the counter, unless a real backend    *)
(* outlived its process there.                                             *)
MeteredIsPrinted ==
  \A j \in Jobs :
    Measured(j) /\ Conf(j).accounter = "hardware" /\ Conf(j).trustlimit = NoLimit
                /\ j \notin disturbed
      => rows[j].size = sheets[j]

(* Between two accepted jobs, an user is shown at most maxdenybanners      *)
(* banners of denied jobs on a printer, counting those of all the denied   *)
(* jobs' starting and ending banners.                                      *)
DenyBannersBounded ==
  \A u \in Users, p \in Printers : shown[u][p] <= conf[p].maxdenybanners

(* A job that ends up denied or cancelled in the history has cost nothing  *)
(* and none of its data came out of the printer.                           *)
RefusedPrintsNothing ==
  \A j \in Jobs : rows[j].action \in {"DENY", "CANCEL"}
                    => rows[j].size = 0 /\ rows[j].price = 0 /\ data[j] = 0

(* Only a job whose data was sent to the real backend is charged for. *)
ChargedWasSent == \A j \in Jobs : rows[j].price # 0 => tries[j] > 0

(* The balance of an user is what it was minus the prices in his history,  *)
(* and the pages of a quota entry are those of the jobs that count on it:  *)
(* concurrent jobs on several devices lose none of each other's charges.   *)
LedgerBalanced ==
  /\ \A u \in Users :
       balance[u] = InitialBalance[u]
                    - SumFunctionOnSet([j \in Jobs |-> rows[j].price], {j \in Jobs : User(j) = u})
  /\ \A u \in Users, p \in Printers :
       upq[u][p].pages =
         SumFunctionOnSet([j \in Jobs |-> rows[j].size],
                          {j \in Jobs : User(j) = u /\ p \in mem[j].entries
                                        /\ rows[j] # NoRow /\ Counted(j)})

(* On a queue that is not a printer group, STRICT enforcement with         *)
(* software accounting keeps the page counter below the hard limit, even   *)
(* when several jobs of the user come at the same time.                    *)
StrictHardLimitKept ==
  \A u \in Users, p \in Printers :
    LET c == conf[p]
        hard == Limits[u][p].hard
    IN  /\ c.enforcement = "STRICT" /\ c.accounter = "software" /\ c.accountbanner = "NONE"
        /\ Profile[u].limitby = "quota" /\ hard # NoLimit
        /\ \A j \in Jobs : p \notin Ancestors[Printer(j)]
        => upq[u][p].pages = 0 \/ upq[u][p].pages < hard

(* The price a job will be charged is the one the decision was based on. *)
Predictable(j) ==
  /\ Conf(j).enforcement = "STRICT" /\ Conf(j).accounter = "software"
  /\ Conf(j).accountbanner = "NONE" /\ Profile[User(j)].limitby = "balance"
  /\ Profile[User(j)].overcharge # 0

(* Under STRICT a predictable job only takes an account below balancezero  *)
(* when another job was charged to it after this one had read the balance: *)
(* the window that doWork leaves open by not keeping a transaction open    *)
(* while it waits for the printer.                                         *)
OverdraftNeedsRace ==
  [][\A j \in Jobs :
       /\ rows[j] = NoRow /\ rows'[j] # NoRow
       /\ Predictable(j) /\ QuotaChecked(j)
       /\ balance'[User(j)] < BalanceZero /\ rows'[j].price > 0
       => balance[User(j)] # mem[j].balance]_vars

(* A job that goes through gets its starting and its ending banner, each   *)
(* once, in every setting of accountbanner.                                *)
TwoBannersPerJob ==
  \A j \in Jobs :
    /\ pc[j] = "clean" /\ mem[j].accounted /\ ~Refused(action[j])
    /\ Conf(j).avoidduplicates = "NO"
    => banners[j] = 2

(* Every job ends, whatever the real backend does, when it is not retried  *)
(* for ever: no process is left waiting for the lock of its device.        *)
EveryJobEnds == \A j \in Jobs : <>(pc[j] = "done")

(* What an accounted job prints is recorded in the history, even when the  *)
(* real backend fails half way, unless the process itself is stopped.      *)
PrintedIsRecorded ==
  \A j \in Jobs \ Abortable : (data[j] > 0 /\ mem[j].accounted) ~> (rows[j] # NoRow)

=============================================================================
