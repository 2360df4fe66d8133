------------------------------ MODULE Directory ------------------------------
(***************************************************************************)
(* The LDAP storage.  Jobs and the administrator's commands work on the    *)
(* entries of one directory at the same time, request by request: there    *)
(* are no transactions.  A request, or the answer to it, may be lost; the  *)
(* storage then opens another connection and sends the request again.      *)
(***************************************************************************)
EXTENDS Integers, Sequences, FiniteSets, Functions, SequencesExt

CONSTANTS
  Procs,         (* the processes: jobs and commands                       *)
  Scenarios,     (* [conf, cmd, dir]: how they may start                   *)
  MaxFaults,     (* bound on the requests and answers that are lost        *)
  None, Anyone,
  Present        (* the identifier of the entries that are there at first  *)

(* userbase and balancebase; storagecaching; disablehistory; whether the last *)
(* job is looked at before printing (duplicate jobs or banners).           *)
ConfType ==
  [accounts : {"split", "joined"}, caching : BOOLEAN,
   disablehistory : BOOLEAN, early : BOOLEAN]

(* An entry has a name, <<kind, owner, printer, id>>; what a filter selects *)
(* is a key, the name without the id.  num is the balance or the counter,  *)
(* set the payments or members, ref the owner of a job or the last job.    *)
Named == {"account", "balance", "group", "printer"}
KeyOf(dn) == SubSeq(dn, 1, 3)
Entry(num, set, ref) == [num |-> num, set |-> set, ref |-> ref]

(* Entries of known names, none twice; that of a printer's last job names  *)
(* a job of that printer.                                                  *)
IsDirectory(d) ==
  /\ IsFiniteSet(DOMAIN d)
  /\ \A dn \in DOMAIN d :
       /\ dn = <<dn[1], dn[2], dn[3], dn[4]>> /\ (dn[1] \in Named => dn[3] = None /\ dn[4] = None)
       /\ d[dn] = Entry(d[dn].num, d[dn].set, d[dn].ref) /\ d[dn].num \in Int /\ IsFiniteSet(d[dn].set)
       /\ dn[1] = "last" => KeyOf(d[dn].ref) = <<"job", None, dn[3]>>
  /\ \A a, b \in DOMAIN d : KeyOf(a) = KeyOf(b) /\ a[1] \in {"quota", "gquota", "code"} => a = b

ASSUME DirectoryAssumption ==
  /\ IsFiniteSet(Procs) /\ MaxFaults \in Nat
  /\ \A s \in Scenarios :
       /\ s.conf \in ConfType /\ DOMAIN s.cmd = Procs
       /\ \A p \in Procs : /\ s.cmd[p].n \in Int
                           /\ s.cmd[p].do \in {"deluser", "delquota"} => s.cmd[p].user \notin {None, Anyone}
       /\ IsDirectory(s.dir)
  /\ None # Anyone /\ {None, Anyone, Present} \cap Procs = {}

VARIABLES
  conf, cmd,     (* configuration, and what each process does              *)
  dir,           (* the entries, by distinguished name                     *)
  proc,          (* each process: requests to send, objects in memory ...  *)
  faults,
  met,           (* pairs of processes that ran at the same time           *)
  contended,     (* attributes written while another process was about to  *)
                 (* write back an older value                              *)
  ledger         (* what every change that was made amounts to             *)

vars == <<conf, cmd, dir, proc, faults, met, contended, ledger>>

-----------------------------------------------------------------------------
(* Keys, names, and what is found by them.                                 *)

Account(u)    == <<"account", u, None>>
Balance(u)    == <<IF conf.accounts = "split" THEN "balance" ELSE "account", u, None>>
Group(g)      == <<"group", g, None>>
Printer(p)    == <<"printer", p, None>>
Quota(u, p)   == <<"quota", u, p>>
GQuota(g, p)  == <<"gquota", g, p>>
Code(c)       == <<"code", c, None>>
History(p)    == <<"job", None, p>>
LastEntry(p)  == <<"last", None, p>>

Dn(key, id) == Append(key, IF key[1] \in Named THEN None ELSE id)

(* f, and what g says of all else. *)
With(f, g) == [x \in DOMAIN f \cup DOMAIN g |-> IF x \in DOMAIN f THEN f[x] ELSE g[x]]

Owner(dn) == IF dn[1] = "job" THEN dir[dn].ref ELSE dn[2]

Matching(key) == {dn \in DOMAIN dir : KeyOf(dn) = key}
Search(kind, owner, printer) ==
  {dn \in DOMAIN dir : dn[1] = kind /\ owner \in {Anyone, Owner(dn)} /\ printer \in {Anyone, dn[3]}}

(* getPrinterLastJobFromBackend: the entry, the job it names, its owner;   *)
(* a mistake would be never to find it.                                    *)
LastJobs(p) ==
  {[dn |-> l, job |-> dir[l].ref, exists |-> dir[l].ref \in DOMAIN dir,
    owner |-> IF dir[l].ref \in DOMAIN dir THEN dir[dir[l].ref].ref ELSE None] : l \in Matching(LastEntry(p))}
NoLastJob == [dn |-> None, job |-> None, exists |-> FALSE, owner |-> None]
Unknown(p) == {NoLastJob}
LastJob(p) == IF LastJobs(p) = {} THEN {NoLastJob} ELSE LastJobs(p)

(* getParentPrintersFromBackend *)
ParentPrinters(p) ==
  {g \in {dn[2] : dn \in Search("printer", Anyone, Anyone)} : p \in dir[Dn(Printer(g), None)].set}

-----------------------------------------------------------------------------
(* Steps of a command.  miss and hit say how many of the following steps   *)
(* are skipped when an object is not found, and when it is; Stop is all.   *)
(* Raise: an object that does not exist is used, which fails.              *)

Stop  == 20
Raise == 30

Find(key, miss, hit) == [op |-> "find", key |-> key, miss |-> miss, hit |-> hit]
Ask(what, owner, printer) == [op |-> what, owner |-> owner, printer |-> printer]
Collect(kind, owner, printer) == [op |-> "collect", kind |-> kind, owner |-> owner, printer |-> printer]
Refresh(key, item, stop) == [op |-> "refresh", key |-> key, item |-> item, stop |-> stop]
Add(key, num, ref) == [op |-> "add", key |-> key, num |-> num, ref |-> ref]
Delete(dn) == [op |-> "delete", dn |-> dn]
Increase(key, n) == [op |-> "modify", key |-> key, field |-> "num", how |-> "add", by |-> n]
Save(key, n) == [op |-> "modify", key |-> key, field |-> "num", how |-> "save", by |-> n]
Rewrite(key, put, drop) == [op |-> "modify", key |-> key, field |-> "set", put |-> put, drop |-> drop]
Link(key, ref) == [op |-> "modify", key |-> key, field |-> "ref", ref |-> ref]

(* getUser, getPrinter and getUserPQuota of jobs; commands look for all    *)
(* the entries that match a pattern, here a name.                          *)
Needs(keys) == [i \in DOMAIN keys |-> Find(keys[i], Stop, 0)]
Matches(keys) == Needs(keys)

(* doAdd of the account and of its balance, or a single entry. *)
NewAccount(u, n) ==
  IF conf.accounts = "split" THEN <<Add(Account(u), 0, None), Add(Balance(u), n, None)>>
  ELSE <<Add(Account(u), n, None)>>

(* The end of deleteUser; a mistake would be to forget the other base. *)
AccountAlone(u) == <<Delete(Account(u))>>
DeleteAccount(u) == <<Delete(Account(u)), Collect("balance", u, Anyone)>>

(* The administrator's commands, each with what it looks up first.         *)
WriteNewPayment(u, p) == Rewrite(Balance(u), {p}, {})
AddUser(u, n, p)  == <<Find(Account(u), 0, Stop)>> \o NewAccount(u, n) \o <<WriteNewPayment(u, p)>>
SaveUser(u, n, p) ==
  Matches(<<Account(u)>>) \o <<WriteNewPayment(u, p), Link(Account(u), None), Save(Balance(u), n)>>
DeleteUser(u) ==
  Matches(<<Account(u)>>)
  \o <<Ask("jobs", u, Anyone), Ask("quotas", u, Anyone), Ask("purge", u, Anyone)>> \o DeleteAccount(u)

QuotaEntry(u, pr) == Needs(<<Printer(pr), Account(u), Quota(u, pr)>>)
AddUserPQuota(u, pr) ==
  Matches(<<Printer(pr), Account(u)>>) \o <<Find(Quota(u, pr), 0, Stop), Add(Quota(u, pr), 0, None)>>
SaveUserPQuota(u, pr, n) == QuotaEntry(u, pr) \o <<Save(Quota(u, pr), n)>>
DeleteUserPQuota(u, pr) ==
  QuotaEntry(u, pr) \o <<Collect("job", u, pr), Ask("own", u, pr), Delete(Quota(u, pr))>>

AddPrinter(pr) == <<Find(Printer(pr), 0, Stop), Add(Printer(pr), 0, None)>>
WritePrinterToGroup(pr, g)    == Matches(<<Printer(pr), Printer(g)>>) \o <<Rewrite(Printer(g), {pr}, {})>>
RemovePrinterFromGroup(pr, g) == Matches(<<Printer(pr), Printer(g)>>) \o <<Rewrite(Printer(g), {}, {pr})>>
DeletePrinter(pr) ==
  Matches(<<Printer(pr)>>)
  \o [i \in 1 .. 4 |-> Collect(<<"last", "job", "gquota", "quota">>[i], Anyone, pr)]
  \o <<Ask("leave", None, pr), Delete(Printer(pr))>>

AddGroup(g) == <<Find(Group(g), 0, Stop), Add(Group(g), 0, None)>>
AddUserToGroup(u, g) ==
  Matches(<<Account(u), Group(g)>>) \o <<Refresh(Group(g), u, TRUE), Rewrite(Group(g), {u}, {})>>
DelUserFromGroup(u, g) ==
  Matches(<<Account(u), Group(g)>>) \o <<Refresh(Group(g), u, FALSE), Rewrite(Group(g), {}, {u})>>
DeleteGroup(g) == Matches(<<Group(g)>>) \o <<Collect("gquota", g, Anyone), Delete(Group(g))>>
AddGroupPQuota(g, pr) ==
  Matches(<<Printer(pr), Group(g)>>) \o <<Find(GQuota(g, pr), 0, Stop), Add(GQuota(g, pr), 0, None)>>
SaveGroupPQuota(g, pr, n) == Matches(<<Printer(pr), Group(g), GQuota(g, pr)>>) \o <<Save(GQuota(g, pr), n)>>

AddBillingCode(k)     == <<Find(Code(k), 0, Stop), Add(Code(k), 0, None)>>
SaveBillingCode(dn, n) == Save(dn, n)
DeleteBillingCode(dn)  == Delete(dn)

(* A job: its billing code may be added on the fly. *)
PrintJob(c) ==
  QuotaEntry(c.user, c.printer)
  \o (IF c.code = None THEN <<>>
      ELSE <<Find(Code(c.code), 0, 1), Add(Code(c.code), 0, None), Find(Code(c.code), 0, 0)>>)
  \o (IF conf.early THEN <<Ask("last", c.user, c.printer)>> ELSE <<>>)
  \o <<Ask("parents", c.user, c.printer)>>

(* dumpykota: what is referred to goes before what refers to it; a mistake *)
(* would be to go by name.                                                 *)
ByName == <<"billingcodes", "gpquotas", "groups", "history", "payments", "pmembers", "printers",
            "umembers", "upquotas", "users">>
DataTypes == <<"printers", "pmembers", "users", "groups", "billingcodes", "umembers", "upquotas",
               "gpquotas", "payments", "history">>
Dump == [i \in DOMAIN DataTypes |-> [op |-> "extract", what |-> DataTypes[i]]]

(* The steps of a process, up to what depends on a search. *)
Script(p) ==
  LET c == cmd[p]
  IN CASE c.do = "print"      -> PrintJob(c)
       [] c.do = "refund"     -> <<Ask("refunds", c.user, c.printer)>>
       [] c.do = "adduser"    -> AddUser(c.user, c.n, p)
       [] c.do = "pay"        -> SaveUser(c.user, c.n, p)
       [] c.do = "deluser"    -> DeleteUser(c.user)
       [] c.do = "addquota"   -> AddUserPQuota(c.user, c.printer)
       [] c.do = "setusage"   -> SaveUserPQuota(c.user, c.printer, c.n)
       [] c.do = "delquota"   -> DeleteUserPQuota(c.user, c.printer)
       [] c.do = "addprinter" -> AddPrinter(c.printer)
       [] c.do = "join"       -> WritePrinterToGroup(c.printer, c.group)
       [] c.do = "leave"      -> RemovePrinterFromGroup(c.printer, c.group)
       [] c.do = "delprinter" -> DeletePrinter(c.printer)
       [] c.do = "addgroup"   -> AddGroup(c.group)
       [] c.do = "enter"      -> AddUserToGroup(c.user, c.group)
       [] c.do = "quit"       -> DelUserFromGroup(c.user, c.group)
       [] c.do = "delgroup"   -> DeleteGroup(c.group)
       [] c.do = "addgquota"  -> AddGroupPQuota(c.group, c.printer)
       [] c.do = "setlimits"  -> SaveGroupPQuota(c.group, c.printer, c.n)
       [] c.do = "addcode"    -> AddBillingCode(c.code)
       [] c.do \in {"savecode", "delcode"} -> <<Ask("codes", c.user, c.printer)>>
       [] c.do = "dump"       -> Dump
       [] OTHER               -> <<>>

(* out are the rows of a dump: <<kind, the keys it names>>. *)
Idle == [state |-> "ready", todo |-> <<>>, obj |-> <<>>, bin |-> <<>>, out |-> {}, last |-> None,
         new |-> <<>>, old |-> <<>>, made |-> FALSE, tries |-> 0]

Init ==
  /\ \E s \in Scenarios : conf = s.conf /\ cmd = s.cmd /\ dir = s.dir
  /\ proc = [p \in Procs |-> IF cmd[p].do = "nothing" THEN [Idle EXCEPT !.state = "done"] ELSE Idle]
  /\ faults = 0 /\ met = {} /\ contended = {}
  /\ ledger = [dn \in DOMAIN dir |-> [num |-> dir[dn].num, set |-> dir[dn].set]]

-----------------------------------------------------------------------------
(* Running a step.                                                         *)

(* genUUID: entries without a name of their own get an identifier, once:   *)
(* all tries are for one name.  A mistake would be another for each try.   *)
EachTry(p) == <<p, proc[p].tries>>
NewId(p) == p

Over == {"done", "failed"}
Running(p) == proc[p].state = "running"
Step(p)    == Head(proc[p].todo)
At(p, op)  == Running(p) /\ proc[p].todo # <<>> /\ Step(p).op = op

(* The steps that are left when n of those after the present one are       *)
(* skipped.                                                                *)
Skipping(p, n) == IF n = Stop THEN <<>> ELSE SubSeq(proc[p].todo, n + 2, Len(proc[p].todo))

(* The present step is over; all is as at the start of the next one.       *)
Rest(r, todo) == [r EXCEPT !.todo = todo, !.new = <<>>, !.old = <<>>, !.made = FALSE, !.tries = 0]
Becomes(p, r) == proc' = [proc EXCEPT ![p] = r]
Fail(p)  == Becomes(p, [proc[p] EXCEPT !.state = "failed", !.old = <<>>])

Unchanged == UNCHANGED <<conf, cmd, dir, faults, met, contended, ledger>>

Beside(p) == {{p, q} : q \in {r \in Procs : Running(r)}}

(* The jobs of a printer wait for one another, see PrintJobs. *)
MayPrint(p) ==
  cmd[p].do = "print" =>
    ~\E q \in Procs : Running(q) /\ cmd[q].do = "print" /\ cmd[q].printer = cmd[p].printer

Start(p) ==
  /\ proc[p].state = "ready" /\ MayPrint(p)
  /\ Becomes(p, [Idle EXCEPT !.state = "running", !.todo = Script(p)])
  /\ met' = met \cup Beside(p)
  /\ UNCHANGED <<conf, cmd, dir, faults, contended, ledger>>

Finish(p) ==
  /\ Running(p) /\ proc[p].todo = <<>>
  /\ Becomes(p, [proc[p] EXCEPT !.state = "done"])
  /\ Unchanged

-----------------------------------------------------------------------------
(* Searches.                                                               *)

Loaded(dn) == [dn |-> dn, num |-> dir[dn].num, set |-> dir[dn].set]
WithObject(r, key, o) == [r EXCEPT !.obj = With([k \in {key} |-> o], @)]

Cached(p, key) == conf.caching /\ key \in DOMAIN proc[p].obj

(* getUser looks for the balance too, and raises without it; a group is    *)
(* found with its members.                                                 *)
Half(u) == (Matching(Account(u)) = {}) # (Matching(Balance(u)) = {})
Broken(key) ==
  \E u \in (IF key[1] = "account" THEN {key[2]}
            ELSE IF key[1] = "group" THEN UNION {dir[dn].set : dn \in Matching(key)} ELSE {}) :
     Half(u) /\ Matching(Account(u)) # {}

(* get...FromBackend: the first of the entries that match. *)
FindObject(p) ==
  /\ At(p, "find")
  /\ LET s == Step(p)
         r == proc[p]
     IN \/ Cached(p, s.key) /\ Becomes(p, Rest(r, Skipping(p, s.hit)))
        \/ /\ ~Cached(p, s.key) /\ Matching(s.key) = {} /\ s.miss # Raise
           /\ Becomes(p, Rest(r, Skipping(p, s.miss)))
        \/ /\ ~Cached(p, s.key)
           /\ IF Matching(s.key) = {} THEN s.miss = Raise ELSE Broken(s.key)
           /\ Fail(p)
        \/ /\ ~Cached(p, s.key) /\ ~Broken(s.key)
           /\ \E dn \in Matching(s.key) :
                LET found == WithObject(r, s.key, Loaded(dn))
                IN Becomes(p, Rest(IF s.key[1] # "account" THEN found
                                   ELSE WithObject(found, Balance(s.key[2]), Loaded(Dn(Balance(s.key[2]), None))),
                                   Skipping(p, s.hit)))
  /\ Unchanged

(* addUserToGroup, delUserFromGroup: nothing to do, or the members again.  *)
RefreshMembers(p) ==
  /\ At(p, "refresh")
  /\ LET s == Step(p)
         dn == proc[p].obj[s.key].dn
         known == IF conf.caching \/ dn \notin DOMAIN dir THEN proc[p].obj[s.key].set ELSE dir[dn].set
     IN IF (s.item \in known) = s.stop THEN Becomes(p, Rest(proc[p], <<>>))
        ELSE IF dn \in DOMAIN dir
        THEN Becomes(p, Rest(WithObject(proc[p], s.key, Loaded(dn)), Skipping(p, 0)))
        ELSE Fail(p)
  /\ Unchanged

AllButLast(set) == [i \in 1 .. Cardinality(set) - 1 |-> Delete(SetToSeq(set)[i])]
Deletions(set) == [i \in 1 .. Cardinality(set) |-> Delete(SetToSeq(set)[i])]

(* delete...: a search, and the entries it found one by one. *)
CollectEntries(p) ==
  /\ At(p, "collect")
  /\ LET s == Step(p)
     IN Becomes(p, Rest(proc[p], Deletions(Search(s.kind, s.owner, s.printer)) \o Skipping(p, 0)))
  /\ Unchanged

(* deleteUser: the jobs are remembered, then the quota entries, ... *)
GatherJobs(p) ==
  /\ At(p, "jobs")
  /\ Becomes(p, Rest([proc[p] EXCEPT !.bin = @ \o SetToSeq(Search("job", Step(p).owner, Anyone))], Skipping(p, 0)))
  /\ Unchanged

GatherQuotas(p) ==
  /\ At(p, "quotas")
  /\ LET found == SetToSeq(Search("quota", Step(p).owner, Anyone))
         check == [i \in DOMAIN found |-> [op |-> "check", dn |-> found[i], owner |-> Step(p).owner]]
     IN Becomes(p, Rest(proc[p], check \o Skipping(p, 0)))
  /\ Unchanged

(* A mistake: the job in place of the entry that names it. *)
JobOfLast(l, u) == IF l.owner = u THEN <<l.job>> ELSE <<>>

(* ... and the last job of a printer, when the user printed it. *)
OwnLast(l, u) == IF l.owner = u THEN <<l.dn>> ELSE <<>>

CheckLast(p) ==
  /\ At(p, "check")
  /\ \E l \in LastJob(Step(p).dn[3]) :
       Becomes(p, Rest([proc[p] EXCEPT !.bin = @ \o <<Step(p).dn>> \o OwnLast(l, Step(p).owner)],
                       Skipping(p, 0)))
  /\ Unchanged

Purge(p) ==
  /\ At(p, "purge")
  /\ Becomes(p, Rest([proc[p] EXCEPT !.bin = <<>>],
                     [i \in DOMAIN proc[p].bin |-> Delete(proc[p].bin[i])] \o Skipping(p, 0)))
  /\ Unchanged

(* deleteUserPQuota *)
DeleteOwnLast(p) ==
  /\ At(p, "own")
  /\ \E l \in LastJob(Step(p).printer) :
       LET own == OwnLast(l, Step(p).owner)
       IN Becomes(p, Rest(proc[p], [i \in DOMAIN own |-> Delete(own[i])] \o Skipping(p, 0)))
  /\ Unchanged

(* deletePrinter: the printer leaves the groups it is in. *)
LeaveGroups(p) ==
  /\ At(p, "leave")
  /\ LET pr == Step(p).printer
         groups == SetToSeq(ParentPrinters(pr))
         known == [k \in {Printer(g) : g \in ParentPrinters(pr)} |-> Loaded(Dn(k, None))]
     IN Becomes(p, Rest([proc[p] EXCEPT !.obj = With(known, @)],
                        [i \in DOMAIN groups |-> Rewrite(Printer(groups[i]), {}, {pr})] \o Skipping(p, 0)))
  /\ Unchanged

(* printer.LastJob is looked up once. *)
LookAtLast(p) ==
  /\ At(p, "last")
  /\ \E l \in LastJob(Step(p).printer) :
       Becomes(p, Rest([proc[p] EXCEPT !.last = l], Skipping(p, 0)))
  /\ Unchanged

(* increasePagesUsage, addJobToHistory, consume: balance, quota entry and  *)
(* those on the printer's groups, history, billing code.                   *)
Charge(c, groups) ==
  (IF c.n = 0 THEN <<>>
   ELSE <<Increase(Balance(c.user), 0 - c.n), Increase(Quota(c.user, c.printer), c.n)>>
        \o [i \in DOMAIN groups |-> Increase(Quota(c.user, groups[i]), c.n)])
  \o <<Ask("history", c.user, c.printer)>>
  \o (IF c.code = None \/ c.n = 0 THEN <<>> ELSE <<Increase(Code(c.code), c.n)>>)

(* getParentPrintersUserPQuota *)
LookAtParents(p) ==
  /\ At(p, "parents")
  /\ LET c == cmd[p]
         groups == {g \in ParentPrinters(c.printer) : Matching(Quota(c.user, g)) # {}}
     IN \E chosen \in [groups -> DOMAIN dir] :
          /\ \A g \in groups : chosen[g] \in Matching(Quota(c.user, g))
          /\ LET known == [k \in {Quota(c.user, g) : g \in groups} |-> Loaded(chosen[k[3]])]
             IN Becomes(p, Rest([proc[p] EXCEPT !.obj = With(known, @)], Charge(c, SetToSeq(groups))))
  /\ Unchanged

(* writeJobNew: a new entry for the job, or with disablehistory the last   *)
(* one again; and the last job becomes this one.                           *)
HistorySteps(p, l) ==
  LET u == Step(p).owner
      pr == Step(p).printer
      again == conf.disablehistory /\ l.exists
      job == IF again THEN l.job ELSE Dn(History(pr), NewId(p))
  IN <<IF again THEN Link(History(pr), u) ELSE Add(History(pr), 0, u),
       IF l.exists THEN Link(LastEntry(pr), job) ELSE Add(LastEntry(pr), 0, job)>>

WriteJobNew(p) ==
  /\ At(p, "history")
  /\ \E l \in IF proc[p].last # None THEN {proc[p].last} ELSE LastJob(Step(p).printer) :
       LET pr == Step(p).printer
           known == IF l.exists
                    THEN [k \in {History(pr), LastEntry(pr)} |->
                            [dn |-> IF k = History(pr) THEN l.job ELSE l.dn, num |-> 0, set |-> {}]]
                    ELSE <<>>
       IN Becomes(p, Rest([proc[p] EXCEPT !.obj = With(known, @)], HistorySteps(p, l) \o Skipping(p, 0)))
  /\ Unchanged

(* StorageJob.refund for each job found, the user and the quota entry      *)
(* coming from the cache when there is one.  A billing code that is gone   *)
(* has no pages to take any off: refund raises.                            *)
RefundSteps(c, p, job, k) ==
  (IF c.code = None THEN <<>> ELSE <<Find(Code(c.code), Raise, 0), Increase(Code(c.code), 0 - c.n)>>)
  \o
  <<Find(Account(c.user), 4, 0), Increase(Balance(c.user), c.n), Rewrite(Balance(c.user), {<<p, k>>}, {}),
    Find(Quota(c.user, c.printer), 1, 0), Increase(Quota(c.user, c.printer), 0 - c.n),
    Rewrite(job, {"refunded"}, {})>>

ListRefunds(p) ==
  /\ At(p, "refunds")
  /\ LET c == cmd[p]
         jobs == SetToSeq({dn \in Search("job", c.user, c.printer) : "refunded" \notin dir[dn].set})
     IN Becomes(p, Rest([proc[p] EXCEPT !.obj = With([dn \in Range(jobs) |-> Loaded(dn)], @)],
                        FlattenSeq([k \in DOMAIN jobs |-> RefundSteps(c, p, jobs[k], k)])))
  /\ Unchanged

(* getMatchingBillingCodes: all the codes of that name. *)
MatchingCodes(p) ==
  /\ At(p, "codes")
  /\ LET c == cmd[p]
         codes == SetToSeq(Matching(Code(c.code)))
         steps == [i \in DOMAIN codes |-> IF c.do = "savecode" THEN SaveBillingCode(codes[i], c.n)
                                          ELSE DeleteBillingCode(codes[i])]
     IN Becomes(p, Rest([proc[p] EXCEPT !.obj = With([dn \in Range(codes) |-> Loaded(dn)], @)], steps))
  /\ Unchanged

-----------------------------------------------------------------------------
(* A dump: the names of a kind, the objects of these names one by one, and *)
(* what belongs to them.                                                   *)

GetAllNames(what) ==
  Search(CASE what \in {"printers", "pmembers", "upquotas", "gpquotas"} -> "printer"
           [] what \in {"users", "payments"}  -> "account"
           [] what \in {"groups", "umembers"} -> "group"
           [] what = "billingcodes"           -> "code", Anyone, Anyone)

ExtractNames(p) ==
  /\ At(p, "extract") /\ Step(p).what # "history"
  /\ LET what == Step(p).what
         found == SetToSeq(GetAllNames(what))
         each == [i \in DOMAIN found |-> <<Find(KeyOf(found[i]), 1, 0), [op |-> "show", what |-> what, key |-> KeyOf(found[i])]>>]
     IN Becomes(p, Rest(proc[p], FlattenSeq(each) \o Skipping(p, 0)))
  /\ Unchanged

(* Payments and members are read with the user and the group. *)
ExtractUmembers(group, o) == {{group, Account(u)} : u \in o.set}
ExtractPayments(account, o) == {{account} : x \in o.set}
ExtractPmembers(printer) == {{printer, Printer(g)} : g \in ParentPrinters(printer[2])}
PrinterUsersAndQuotas(printer) == {Account(dn[2]) : dn \in Search("quota", Anyone, printer[2])}
PrinterGroupsAndQuotas(printer) == {Group(dn[2]) : dn \in Search("gquota", Anyone, printer[2])}

(* Quota entries come with their users and groups, there or not.           *)
ShowObject(p) ==
  /\ At(p, "show")
  /\ LET s == Step(p)
         owners == CASE s.what = "upquotas" -> PrinterUsersAndQuotas(s.key)
                     [] s.what = "gpquotas" -> PrinterGroupsAndQuotas(s.key)
                     [] OTHER               -> {}
         names == CASE s.what \in {"upquotas", "gpquotas"} -> {{s.key, o} : o \in owners}
                    [] s.what = "pmembers" -> ExtractPmembers(s.key)
                    [] s.what = "umembers" -> ExtractUmembers(s.key, proc[p].obj[s.key])
                    [] s.what = "payments" -> ExtractPayments(s.key, proc[p].obj[Balance(s.key[2])])
                    [] OTHER               -> {{s.key}}
         get == [i \in 1 .. Cardinality(owners) |-> Find(SetToSeq(owners)[i], 0, 0)]
     IN Becomes(p, Rest([proc[p] EXCEPT !.out = @ \cup {<<s.what, n>> : n \in names}], get \o Skipping(p, 0)))
  /\ Unchanged

ExtractHistory(p) ==
  /\ At(p, "extract") /\ Step(p).what = "history"
  /\ LET rows == {<<"history", {Account(dir[dn].ref), Printer(dn[3])}>> : dn \in Search("job", Anyone, Anyone)}
     IN Becomes(p, Rest([proc[p] EXCEPT !.out = @ \cup rows], Skipping(p, 0)))
  /\ Unchanged

SearchNext(p) ==
  \/ FindObject(p) \/ RefreshMembers(p) \/ CollectEntries(p) \/ GatherJobs(p) \/ GatherQuotas(p)
  \/ CheckLast(p) \/ Purge(p) \/ DeleteOwnLast(p) \/ LeaveGroups(p) \/ LookAtLast(p)
  \/ LookAtParents(p) \/ WriteJobNew(p) \/ ListRefunds(p) \/ MatchingCodes(p)
  \/ ExtractNames(p) \/ ShowObject(p) \/ ExtractHistory(p)

-----------------------------------------------------------------------------
(* Requests that change the directory.                                     *)

(* The name a step is about: that of the object in memory, if it is one.   *)
Target(p) ==
  LET s == Step(p)
      k == IF s.op = "delete" THEN s.dn ELSE s.key
  IN IF s.op = "add" THEN Dn(k, NewId(p)) ELSE IF k \in DOMAIN proc[p].obj THEN proc[p].obj[k].dn ELSE k

(* doModify: what the attribute is to become, from what is in memory or,   *)
(* for the counters, from what was just read.                              *)
NewValue(p, old) ==
  LET s == Step(p)
      o == proc[p].obj[s.key]
  IN CASE s.field = "num" -> (IF s.how = "add" THEN old ELSE o.num) + s.by
       [] s.field = "set" -> (o.set \cup s.put) \ s.drop
       [] s.field = "ref" -> s.ref

(* A mistake: each try computes the new value again.                       *)
ComputedAgain(p, old) == NewValue(p, old)

(* The first try replaces the operation by its result.                     *)
ComputedOnce(p, old) == IF proc[p].new # <<>> THEN proc[p].new[1] ELSE NewValue(p, old)

(* writePrinterToGroup, removePrinterFromGroup: nothing to write. *)
Needless(p) ==
  /\ Step(p).field = "set" /\ proc[p].new = <<>>
  /\ NewValue(p, None) = proc[p].obj[Step(p).key].set

(* The first look at the entry raises when it is not there. *)
ReadOld(p) ==
  /\ At(p, "modify") /\ proc[p].old = <<>>
  /\ IF Needless(p) THEN Becomes(p, Rest(proc[p], Skipping(p, 0)))
     ELSE IF Target(p) \notin DOMAIN dir THEN Fail(p)
     ELSE LET old == dir[Target(p)][Step(p).field]
          IN Becomes(p, [proc[p] EXCEPT !.old = <<old>>, !.new = <<ComputedOnce(p, old)>>])
  /\ Unchanged

Ready(p) == At(p, "add") \/ At(p, "delete") \/ (At(p, "modify") /\ proc[p].old # <<>>)

(* writeJobNew: all of a job of the history is replaced, by another job.   *)
Replaces(p) == Step(p).op = "modify" /\ Step(p).field = "ref" /\ Target(p)[1] = "job"

NoChange(p) == proc[p].new = proc[p].old /\ ~Replaces(p)

(* ALREADY_EXISTS, NO_SUCH_OBJECT *)
Accepted(p) ==
  CASE Step(p).op = "add"    -> Target(p) \notin DOMAIN dir
    [] Step(p).op = "delete" -> Target(p) \in DOMAIN dir
    [] Step(p).op = "modify" -> Target(p) \in DOMAIN dir \/ NoChange(p)

(* modifyModlist: values are added to an attribute that was empty, others  *)
(* are replaced.                                                           *)
Modified(p, present) ==
  LET old == proc[p].old[1]
      new == proc[p].new[1]
  IN IF Step(p).field = "set" /\ old = {} THEN present \cup new ELSE new

(* What another process has read and is going to write back. *)
Holds(q) ==
  LET r == proc[q]
  IN IF ~Running(q) \/ r.todo = <<>> THEN {}
     ELSE (IF r.new # <<>> THEN {<<Target(q), Step(q).field>>} ELSE {})
          \cup {<<r.obj[s.key].dn, s.field>> :
                 s \in {t \in Range(r.todo) : /\ t.op = "modify" /\ t.field \in {"num", "set"}
                                              /\ t.field = "num" => t.how = "save"
                                              /\ t.key \in DOMAIN r.obj
                                              /\ ~\E n \in Range(r.todo) : n.op = "refresh" /\ n.key = t.key}}

Attributes(p) ==
  {<<Target(p), f>> :
     f \in IF Step(p).op = "modify" /\ ~Replaces(p) THEN {Step(p).field} ELSE {"num", "set"}}

(* What the change at hand does to the books, once. *)
Booked(p) ==
  LET s == Step(p)
  IN IF Target(p) \notin DOMAIN ledger THEN ledger
     ELSE IF Replaces(p) THEN [ledger EXCEPT ![Target(p)] = [num |-> 0, set |-> {}]]
     ELSE IF proc[p].made \/ s.field = "ref" THEN ledger
     ELSE IF s.field = "num" THEN [ledger EXCEPT ![Target(p)].num = @ + s.by]
     ELSE [ledger EXCEPT ![Target(p)].set = (@ \cup s.put) \ s.drop]

(* The server does what it was asked. *)
Served(p) ==
  /\ Accepted(p)
  /\ contended' = contended \cup {a \in Attributes(p) : \E q \in Procs \ {p} : a \in Holds(q)}
  /\ LET s == Step(p)
         dn == Target(p)
         added == Entry(s.num, {}, s.ref)
     IN CASE s.op = "add" ->
               /\ dir' = With([x \in {dn} |-> added], dir)
               /\ ledger' = With([x \in {dn} |-> [num |-> s.num, set |-> {}]], ledger)
          [] s.op = "delete" ->
               /\ dir' = Restrict(dir, DOMAIN dir \ {dn})
               /\ ledger' = Restrict(ledger, DOMAIN ledger \ {dn})
          [] s.op = "modify" ->
               /\ dir' = IF NoChange(p) THEN dir
                         ELSE IF Replaces(p) THEN [dir EXCEPT ![dn] = Entry(0, {}, s.ref)]
                         ELSE [dir EXCEPT ![dn][s.field] = Modified(p, @)]
               /\ ledger' = Booked(p)

(* An object that was added is in memory from then on. *)
Kept(p) ==
  LET s == Step(p)
  IN IF s.op = "add" THEN WithObject(proc[p], s.key, [dn |-> Target(p), num |-> s.num, set |-> {}])
     ELSE proc[p]

Request(p) ==
  /\ Ready(p) /\ Served(p)
  /\ Becomes(p, Rest(Kept(p), Skipping(p, 0)))
  /\ UNCHANGED <<conf, cmd, faults, met>>

(* for tryit in range(3), or a mistake: a loop without an end (tries stops *)
(* at three for that mistake only).                                        *)
TryForEver(p) == TRUE
MayTryAgain(p) == proc[p].tries < 2

Again(p, made) ==
  IF MayTryAgain(p)
  THEN Becomes(p, [proc[p] EXCEPT !.tries = IF @ < 3 THEN @ + 1 ELSE @, !.old = <<>>, !.made = @ \/ made])
  ELSE Fail(p)

(* doAdd raises at once; doDelete asks three times before it raises, and   *)
(* doModify looks at the entry again.                                      *)
Refused(p) ==
  /\ Ready(p) /\ ~Accepted(p)
  /\ IF Step(p).op = "add" THEN Fail(p) ELSE Again(p, FALSE)
  /\ Unchanged

(* The connection is opened again and the request repeated, or it cannot   *)
(* be opened.                                                              *)
TryAgain(p, made) == Again(p, made) \/ Fail(p)

RequestLost(p) ==
  /\ Ready(p) /\ faults < MaxFaults
  /\ faults' = faults + 1
  /\ TryAgain(p, FALSE)
  /\ UNCHANGED <<conf, cmd, dir, met, contended, ledger>>

AnswerLost(p) ==
  /\ Ready(p) /\ faults < MaxFaults
  /\ Served(p)
  /\ faults' = faults + 1
  /\ TryAgain(p, TRUE)
  /\ UNCHANGED <<conf, cmd, met>>

Work(p) == Start(p) \/ Finish(p) \/ SearchNext(p) \/ ReadOld(p) \/ Request(p) \/ Refused(p)

Quiet == \A p \in Procs : proc[p].state \in Over
AllOver == Quiet /\ UNCHANGED vars

Next == (\E p \in Procs : Work(p) \/ RequestLost(p) \/ AnswerLost(p)) \/ AllOver

Spec == Init /\ [][Next]_vars

(* As long as a process can go on, one does. *)
FairSpec == Spec /\ WF_vars(\E p \in Procs : Work(p))

-----------------------------------------------------------------------------
(* Properties.                                                             *)

Orderly == met = {} /\ faults = 0
Adds(p, key) ==
  CASE key[1] = "quota"  -> cmd[p].do = "addquota" /\ key = Quota(cmd[p].user, cmd[p].printer)
    [] key[1] = "gquota" -> cmd[p].do = "addgquota" /\ key = GQuota(cmd[p].group, cmd[p].printer)
    [] key[1] = "code"   -> cmd[p].do \in {"addcode", "print", "savecode"} /\ key = Code(cmd[p].code)
    [] OTHER             -> FALSE

(* Entries have numbers, and a process has objects for the entries it      *)
(* changes from memory.                                                    *)
TypeOK ==
  /\ conf \in ConfType /\ faults \in 0 .. MaxFaults
  /\ \A dn \in DOMAIN dir : Len(dn) = 4 /\ dir[dn].num \in Int /\ IsFiniteSet(dir[dn].set)
  /\ DOMAIN ledger = DOMAIN dir
  /\ \A p \in Procs :
       /\ proc[p].state \in {"ready", "running"} \cup Over
       /\ proc[p].tries \in 0 .. 2 /\ proc[p].made \in BOOLEAN
       /\ proc[p].old # <<>> => proc[p].new # <<>>
       /\ At(p, "modify") => proc[p].old = <<>> \/ Step(p).key \in DOMAIN proc[p].obj
       /\ \A k \in DOMAIN proc[p].obj : KeyOf(proc[p].obj[k].dn) = SubSeq(k, 1, 3)

(* A balance, a counter or a list is what all changes to it amount to,     *)
(* unless it was written while another process was about to write back an  *)
(* older value: requests that are repeated after a lost answer are not     *)
(* made twice.  With the cache on, one command that refunds two jobs of an *)
(* user overwrites the first payment.                                      *)
LossNeedsRace ==
  \A dn \in DOMAIN dir :
    /\ <<dn, "num">> \notin contended => dir[dn].num = ledger[dn].num
    /\ <<dn, "set">> \notin contended /\ ~conf.caching => dir[dn].set = ledger[dn].set

(* Two quota entries, or codes, of one name were added by two processes    *)
(* that ran at the same time: lost requests and answers make none.         *)
DuplicatesNeedOverlap ==
  \A a, b \in DOMAIN dir :
    a # b /\ KeyOf(a) = KeyOf(b) /\ a[1] \in {"quota", "gquota", "code"} =>
      \E p, q \in Procs : p # q /\ {p, q} \in met /\ Adds(p, KeyOf(a)) /\ Adds(q, KeyOf(a))

(* An account without a balance, or a balance without an account, which    *)
(* every later command on the user refuses, is left by requests that were  *)
(* lost or by the user being added and deleted at the same time.           *)
HalfAccountNeedsFailure ==
  \A u \in {dn[2] : dn \in DOMAIN dir} :
    Quiet /\ Half(u) /\ faults = 0 =>
      \E p, q \in Procs : /\ {p, q} \in met /\ cmd[p].user = u /\ cmd[q].user = u
                          /\ cmd[p].do = "adduser" /\ cmd[q].do = "deluser"

(* deleteUser: a deletion that other processes and lost requests leave     *)
(* alone leaves no job, quota entry, balance or account of the user.       *)
CleanDeletion ==
  [][\A p \in Procs :
       proc[p].state = "running" /\ proc'[p].state = "done" /\ cmd[p].do = "deluser" /\ Orderly =>
         \A dn \in DOMAIN dir : Owner(dn) # cmd[p].user \/ dn[1] \in {"group", "printer"}]_vars

(* After a job the printer has one last job, which is that job, unless     *)
(* processes overlapped, requests were lost, or a quota entry was deleted  *)
(* before.                                                                 *)
LastJobIsNewest ==
  [][\A p \in Procs :
       LET last == LastJobs(cmd[p].printer)
       IN /\ proc[p].state = "running" /\ proc'[p].state = "done" /\ cmd[p].do = "print" /\ Orderly
          /\ \A q \in Procs : cmd[q].do = "delquota" => proc[q].state = "ready"
          /\ Quota(cmd[p].user, cmd[p].printer) \in DOMAIN proc[p].obj
          => /\ Cardinality(last) = 1
             /\ \A l \in last : l.exists /\ l.owner = cmd[p].user /\ (conf.disablehistory \/ l.job[4] = p)]_vars

(* A command only fails when it ran beside another, or a request was lost  *)
(* (the order of its requests never stands in its way), or when it refunds *)
(* a job whose billing code is not there any more.                         *)
NamesNoCode(p) == cmd[p].do = "refund" /\ At(p, "find") /\ Step(p).key = Code(cmd[p].code) /\ Matching(Step(p).key) = {}
FailureNeedsCause ==
  [][\A p \in Procs :
       proc[p].state # "failed" /\ proc'[p].state = "failed" => ~Orderly' \/ NamesNoCode(p)]_vars

(* Every user, printer and group that a row of a dump names has its own    *)
(* row in the dump, whatever is deleted meanwhile, unless it was added     *)
(* while the dump was made, or deleted while another process added what    *)
(* names it; and users that were deleted remain members of their groups.   *)
Takes(q, key) ==
  \/ cmd[q].do = "deluser" /\ key = Account(cmd[q].user)
  \/ cmd[q].do = "delprinter" /\ key = Printer(cmd[q].printer)
  \/ cmd[q].do = "delgroup" /\ key = Group(cmd[q].group)
DumpNamesWhatItHas ==
  \A p \in Procs : cmd[p].do = "dump" /\ proc[p].state = "done" =>
    \A row \in proc[p].out : \A key \in row[2] :
      \/ \E kind \in {"printers", "users", "groups", "billingcodes"} : <<kind, {key}>> \in proc[p].out
      \/ \E q \in Procs : {p, q} \in met /\ cmd[q].do \in {"adduser", "addprinter", "addgroup", "addcode"}
      \/ \E q, r \in Procs \ {p} : q # r /\ {q, r} \in met /\ Takes(q, key)
      \/ \E q \in Procs : row[1] = "umembers" /\ Takes(q, key)

(* deleteUser, ldapstorage.py:1417: if last job of current printer was     *)
(* printed by the user to delete, the printer's last job entry is deleted  *)
(* too; so no last job entry names a job that is gone.                     *)
LastJobExists ==
  Quiet /\ Orderly => \A dn \in DOMAIN dir : dn[1] = "last" => dir[dn].ref \in DOMAIN dir

(* Every command ends, whatever is lost and whatever others delete.        *)
EveryCommandEnds == <>[]Quiet

=============================================================================
