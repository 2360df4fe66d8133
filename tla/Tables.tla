------------------------------- MODULE Tables --------------------------------
(***************************************************************************)
(* The SQL storage, table by table: jobs, refunds and the administrator's  *)
(* commands create, change and delete rows, statement by statement, each   *)
(* in its transaction, by identifiers they read before.  The database      *)
(* checks its unique and foreign keys; PostgreSQL locks rows and breaks    *)
(* circles of waiting, SQLite has one writer at a time.                    *)
(***************************************************************************)
EXTENDS Integers, Sequences, FiniteSets, Functions, SequencesExt, FiniteSetsExt

CONSTANTS
  Procs,         (* jobs and commands                                      *)
  Scenarios,     (* [conf, cmd, db]: how they may start                    *)
  None, Unread

(* early: the last job is looked at before printing.  PostgreSQL always    *)
(* checks foreign keys.                                                    *)
ConfType ==
  {c \in [engine : {"postgresql", "sqlite"}, enforced : BOOLEAN, disablehistory : BOOLEAN, early : BOOLEAN] :
     c.engine = "postgresql" => c.enforced}

TableNames == {"users", "groups", "printers", "billingcodes", "userpquota", "grouppquota",
               "groupsmembers", "printergroupsmembers", "payments", "jobhistory"}

(* A command names finite sets of users, printers ..., and a number.  A    *)
(* job has this number of pages, a price and perhaps a billing code; it    *)
(* may be denied, and a job of a user or printer without limits is not     *)
(* counted.                                                                *)
IsCommand(c) == /\ IsFiniteSet(c.users) /\ IsFiniteSet(c.printers) /\ IsFiniteSet(c.groups)
                /\ c.n \in Int /\ c.price \in Int
IsRow(r) == /\ DOMAIN r = {"name", "user", "printer", "group", "num", "price", "aside", "job", "refunded"}
            /\ r.num \in Int /\ r.price \in Int /\ r.aside \in Int

VARIABLES
  conf, cmd,     (* configuration, and what each process does              *)
  db,            (* the committed rows: <<table, id>> -> row               *)
  seq,           (* the highest identifier each table ever had             *)
  proc,          (* each process and its transaction                       *)
  beside         (* the processes that ran at the same time as each        *)

vars == <<conf, cmd, db, seq, proc, beside>>

-----------------------------------------------------------------------------
(* Rows and keys.                                                          *)

(* num is the balance, page counter or job size; job is who printed, and   *)
(* the name of a job is its billing code.  No column has aside: what a     *)
(* quota entry counts for the printers of a group, and what of a job was   *)
(* not counted.                                                            *)
Row(name, user, printer, group, num, job) ==
  [name |-> name, user |-> user, printer |-> printer, group |-> group, num |-> num,
   price |-> 0, aside |-> 0, job |-> job, refunded |-> FALSE]
NamedRow(name, num)     == Row(name, None, None, None, num, None)
PQuotaRow(u, p)         == Row(None, u, p, None, 0, None)
JobRow(code, u, p, n, price, aside, job) ==
  [Row(code, u, p, None, n, job) EXCEPT !.price = price, !.aside = aside]

(* UNIQUE: what no two rows of a table share; payments and jobs may be     *)
(* alike.                                                                  *)
Unique == TableNames \ {"payments", "jobhistory"}
UniqueKey(t, r) ==
  CASE t \in {"users", "groups", "printers", "billingcodes"} -> r.name
    [] t = "userpquota" -> <<r.user, r.printer>>
    [] OTHER -> <<r.user, r.group, r.printer>>

(* REFERENCES: what a row can be referred to by, and what it refers to.    *)
(* The history refers to quota entries by user and printer.                *)
Names(k, r) == {k} \cup (IF k[1] = "userpquota" THEN {<<"entry of", r.user, r.printer>>} ELSE {})
References(t, r) ==
  CASE t = "userpquota"           -> {<<"users", r.user>>, <<"printers", r.printer>>}
    [] t = "grouppquota"          -> {<<"groups", r.group>>, <<"printers", r.printer>>}
    [] t = "groupsmembers"        -> {<<"groups", r.group>>, <<"users", r.user>>}
    [] t = "printergroupsmembers" -> {<<"printers", r.group>>, <<"printers", r.printer>>}
    [] t = "payments"             -> {<<"users", r.user>>}
    [] t = "jobhistory"           -> {<<"entry of", r.user, r.printer>>}
    [] OTHER                      -> {}

Rows(d, t) == {k \in DOMAIN d : k[1] = t}
Ids(d, t, names) == {k[2] : k \in {x \in Rows(d, t) : d[x].name \in names}}
Referred(d, k) == {x \in DOMAIN d : References(k[1], d[k]) \cap Names(x, d[x]) # {}}
Referring(d, k) == {x \in DOMAIN d \ {k} : References(x[1], d[x]) \cap Names(k, d[k]) # {}}
Orphan(d, k) == ~(References(k[1], d[k]) \subseteq UNION {Names(x, d[x]) : x \in DOMAIN d})

(* A database has finitely many rows, and satisfies its keys.              *)
IsDatabase(d) ==
  /\ IsFiniteSet(DOMAIN d)
  /\ \A k \in DOMAIN d : k \in TableNames \X (Nat \ {0}) /\ IsRow(d[k]) /\ ~Orphan(d, k)
  /\ \A k, x \in DOMAIN d :
       k[1] = x[1] /\ k[1] \in Unique /\ UniqueKey(k[1], d[k]) = UniqueKey(x[1], d[x]) => k = x

ASSUME TablesAssumption ==
  /\ IsFiniteSet(Procs) /\ None # Unread
  /\ \A s \in Scenarios :
       /\ s.conf \in ConfType
       /\ DOMAIN s.cmd = Procs /\ \A p \in Procs : IsCommand(s.cmd[p])
       /\ IsDatabase(s.db)

-----------------------------------------------------------------------------
(* Statements.                                                             *)

Insert(t, row)     == [op |-> "insert", table |-> t, row |-> row]
Increase(k, n)     == [op |-> "update", key |-> k, how |-> "add", num |-> n]
CountAbove(k, n)   == [op |-> "update", key |-> k, how |-> "above", num |-> n]
Save(k, n)         == [op |-> "update", key |-> k, how |-> "save", num |-> n]
LeftAsItWas(k)     == [op |-> "update", key |-> k, how |-> "add", num |-> 0]
Refunded(k)        == [op |-> "update", key |-> k, how |-> "refunded", num |-> 0]
Delete(t, wheres)  == [op |-> "delete", table |-> t, wheres |-> wheres]
Record(row, last)  == [op |-> "record", row |-> row, last |-> last]
RefundPages(u, p, n) == [op |-> "pages", user |-> u, printer |-> p, num |-> n]
(* A job of the history, with the names of its user and printer. *)
RefundJob(d, k) ==
  [op |-> "refund", key |-> k, user |-> d[<<"users", d[k].user>>].name,
   printer |-> d[<<"printers", d[k].printer>>].name, code |-> d[k].name, num |-> d[k].num, price |-> d[k].price]
(* Its billing code has been seen to. *)
PayBack(s)         == [s EXCEPT !.op = "payback"]
Commit             == [op |-> "commit"]
Extract(t)         == [op |-> "extract", table |-> t]

(* WHERE field IN (ids) *)
In(field, ids) == {[f \in {field} |-> id] : id \in ids}
Selects(wheres, k, r) == \E w \in wheres : \A f \in DOMAIN w : (IF f = "id" THEN k[2] ELSE r[f]) = w[f]

(* deleteManyUsers: what refers to a row goes before it; a mistake would   *)
(* be to forget the history.                                               *)
UsersLeavingJobs(ids) ==
  <<Delete("payments", In("user", ids)), Delete("groupsmembers", In("user", ids)),
    Delete("userpquota", In("user", ids)), Delete("users", In("id", ids))>>
DeleteUsers(ids) ==
  <<Delete("payments", In("user", ids)), Delete("groupsmembers", In("user", ids)),
    Delete("jobhistory", In("user", ids)), Delete("userpquota", In("user", ids)),
    Delete("users", In("id", ids))>>
DeletePrinters(ids) ==
  <<Delete("printergroupsmembers", In("group", ids) \cup In("printer", ids)),
    Delete("jobhistory", In("printer", ids)), Delete("grouppquota", In("printer", ids)),
    Delete("userpquota", In("printer", ids)), Delete("printers", In("id", ids))>>
DeleteGroups(ids) ==
  <<Delete("groupsmembers", In("group", ids)), Delete("grouppquota", In("group", ids)),
    Delete("groups", In("id", ids))>>
DeleteUserPQuotas(us, ps) ==
  LET both == {[user |-> u, printer |-> p] : u \in us, p \in ps}
  IN <<Delete("jobhistory", both), Delete("userpquota", both)>>
DeleteBillingCodes(ids) == <<Delete("billingcodes", In("id", ids))>>
DeleteGroupPQuotas(gs, ps) ==
  <<Delete("grouppquota", {[group |-> g, printer |-> p] : g \in gs, p \in ps})>>

(* getPrinterLastJobFromBackend: the highest identifier, if it joins; a    *)
(* mistake would be to look again as long as there is none.                *)
UntilThereIsOne(d, p) ==
  LET jobs == {k[2] : k \in {x \in Rows(d, "jobhistory") : d[x].printer = p}}
  IN IF jobs = {} THEN Unread ELSE <<"jobhistory", Max(jobs)>>
LastJob(d, p) ==
  LET jobs == {k[2] : k \in {x \in Rows(d, "jobhistory") : d[x].printer = p}}
  IN IF jobs = {} \/ <<"users", d[<<"jobhistory", Max(jobs)>>].user>> \notin DOMAIN d THEN None
     ELSE <<"jobhistory", Max(jobs)>>

(* add...: the rows that are not there yet. *)
Missing(d, t, rows) ==
  SetToSeq({Insert(t, r) : r \in {x \in rows : \A k \in Rows(d, t) : UniqueKey(t, d[k]) # UniqueKey(t, x)}})

AddUsers(d, names, n)        == Missing(d, "users", {NamedRow(x, n) : x \in names})
AddPrinters(d, names)        == Missing(d, "printers", {NamedRow(x, 0) : x \in names})
AddGroups(d, names)          == Missing(d, "groups", {NamedRow(x, 0) : x \in names})
AddBillingCodes(d, names)    == Missing(d, "billingcodes", {NamedRow(x, 0) : x \in names})
AddUserPQuotas(d, us, ps)    == Missing(d, "userpquota", {PQuotaRow(u, p) : u \in us, p \in ps})
AddGroupPQuotas(d, gs, ps)   == Missing(d, "grouppquota", {Row(None, None, p, g, 0, None) : p \in ps, g \in gs})
AddUsersToGroups(d, us, gs)  == Missing(d, "groupsmembers", {Row(None, u, None, g, 0, None) : u \in us, g \in gs})
WritePrintersToGroups(d, ps, gs) ==
  Missing(d, "printergroupsmembers", {Row(None, None, p, g, 0, None) : p \in ps, g \in gs})
DelUsersFromGroups(us, gs) ==
  <<Delete("groupsmembers", {[user |-> u, group |-> g] : u \in us, g \in gs})>>
RemovePrintersFromGroups(ps, gs) ==
  <<Delete("printergroupsmembers", {[printer |-> p, group |-> g] : p \in ps, g \in gs})>>

(* A payment: the history of payments, and the balance that was computed   *)
(* in memory.                                                              *)
Pay(d, u, n) == <<Insert("payments", Row(None, u, None, None, n, None)), Save(<<"users", u>>, d[<<"users", u>>].num + n)>>

(* Of the rows of a table, those of an user on a printer; a mistake would  *)
(* be to ask for the printer only.                                         *)
OfAnyone(d, t, us, ps) == {k \in Rows(d, t) : Selects(In("printer", ps), k, d[k])}
Having(d, t, us, ps) == {k \in Rows(d, t) : Selects(In("user", us), k, d[k]) /\ Selects(In("printer", ps), k, d[k])}

(* getParentPrinters: the groups a printer is in, directly or not.         *)
ParentPrinters(d, p) ==
  LET members == {d[k] : k \in Rows(d, "printergroupsmembers")}
      groups == {m.group : m \in members}
      Closed(S) == \A m \in members : m.printer \in S \cup {p} => m.group \in S
  IN {g \in groups \ {p} : \A S \in SUBSET groups : Closed(S) => g \in S}

(* increasePagesUsage: the balance, the user's quota entry, and those he   *)
(* has on the groups of the printer.                                       *)
IncreasePagesUsage(d, q, n, price) ==
  LET r == d[q]
      parents == SetToSeq(Having(d, "userpquota", {r.user}, ParentPrinters(d, r.printer)))
  IN (IF price = 0 THEN <<>> ELSE <<Increase(<<"users", r.user>>, 0 - price)>>)
     \o <<Increase(q, n)>> \o [i \in DOMAIN parents |-> CountAbove(parents[i], n)]

(* The billing code of a job or a refund, if there is one, and its pages.  *)
CodesOf(d, s)    == IF s.code = None THEN {} ELSE Ids(d, "billingcodes", {s.code})
NoSuchCode(d, s) == s.code # None /\ CodesOf(d, s) = {}
ForCode(d, s, n) == SetToSeq({Increase(<<"billingcodes", id>>, n) : id \in CodesOf(d, s)})

(* A job, and the commit; a user without a quota entry does not print.  A  *)
(* job that is not denied takes back the count of denials, and is charged  *)
(* to its billing code when it is in the history.                          *)
PrintJob(d, p, us, ps) ==
  LET c == cmd[p]
      entries == SetToSeq(Having(d, "userpquota", us, ps))
      q == entries[1]
      r == d[q]
      denied == c.denied \/ NoSuchCode(d, c)
      n == IF denied THEN 0 ELSE c.n
      price == IF denied \/ ~c.counted THEN 0 ELSE c.price
      job == JobRow(c.code, r.user, r.printer, n, price, IF c.counted THEN 0 ELSE n, p)
  IN IF entries = <<>> THEN <<>>
     ELSE (IF denied THEN <<>> ELSE <<LeftAsItWas(q)>>)
          \o (IF c.counted /\ n # 0 THEN IncreasePagesUsage(d, q, n, price) ELSE <<>>)
          \o <<Record(job, IF conf.early THEN LastJob(d, r.printer) ELSE Unread)>>
          \o (IF n = 0 THEN <<>> ELSE ForCode(d, c, n))

(* pkrefund: the jobs it lists, of which each has a transaction. *)
Refunds(d, us, ps) ==
  LET jobs == SetToSeq({k \in Having(d, "jobhistory", us, ps) : ~d[k].refunded /\ d[k].num # 0})
  IN [i \in DOMAIN jobs |-> RefundJob(d, jobs[i])]

(* dumpykota: what is referred to goes before what refers to it; a mistake *)
(* would be to go by name.                                                 *)
ByName == <<"billingcodes", "grouppquota", "groups", "jobhistory", "payments", "printergroupsmembers",
            "printers", "groupsmembers", "userpquota", "users">>
DataTypes == <<"printers", "printergroupsmembers", "users", "groups", "billingcodes", "groupsmembers",
               "userpquota", "grouppquota", "payments", "jobhistory">>
Dump == [i \in DOMAIN DataTypes |-> Extract(DataTypes[i])]

(* The rows that a dump shows: those whose names it can join, and of the   *)
(* quota entries of groups those that have a member's pages to sum up.     *)
Joined(k, r) ==
  IF k[1] = "jobhistory" THEN {<<"users", r.user>>, <<"printers", r.printer>>} ELSE References(k[1], r)
HasPages(d, r) ==
  \E m \in Rows(d, "groupsmembers"), e \in Rows(d, "userpquota") :
    d[m].group = r.group /\ d[m].user = d[e].user /\ d[e].printer = r.printer

(* A group has the sum of its members' balances, or nothing; a mistake     *)
(* would be to leave it out then.                                          *)
HasMembers(d, k) == \E m \in Rows(d, "groupsmembers") : d[m].group = k[2]
GroupShown(d, k) == TRUE

Extracted(d, t) ==
  {k \in Rows(d, t) : /\ Joined(k, d[k]) \subseteq DOMAIN d
                      /\ t = "grouppquota" => HasPages(d, d[k])
                      /\ t = "groups" => GroupShown(d, k)}

(* What a process is going to do, by what it reads when it starts: the     *)
(* identifiers of the users, printers ... it names.  Without them it does  *)
(* nothing.                                                                *)
Script(p, d) ==
  LET c == cmd[p]
      us == Ids(d, "users", c.users)
      ps == Ids(d, "printers", c.printers)
      gs == Ids(d, "groups", c.groups)
      pgs == Ids(d, "printers", c.groups)
  IN CASE c.do = "job"         -> PrintJob(d, p, us, ps)
       [] c.do = "refund"      -> Refunds(d, us, ps)
       [] c.do = "pay"         -> FlattenSeq([i \in 1 .. Cardinality(us) |-> Pay(d, SetToSeq(us)[i], c.n)])
       [] c.do = "adduser"     -> AddUsers(d, c.users, c.n)
       [] c.do = "addprinter"  -> AddPrinters(d, c.printers)
       [] c.do = "addgroup"    -> AddGroups(d, c.groups)
       [] c.do = "addcode"     -> AddBillingCodes(d, c.groups)
       [] c.do = "addquota"    -> AddUserPQuotas(d, us, ps)
       [] c.do = "addgquota"   -> AddGroupPQuotas(d, gs, ps)
       [] c.do = "enter"       -> AddUsersToGroups(d, us, gs)
       [] c.do = "quit"        -> DelUsersFromGroups(us, gs)
       [] c.do = "join"        -> WritePrintersToGroups(d, ps, pgs)
       [] c.do = "leave"       -> RemovePrintersFromGroups(ps, pgs)
       [] c.do = "delusers"    -> DeleteUsers(us)
       [] c.do = "delprinters" -> DeletePrinters(ps)
       [] c.do = "delgroups"   -> DeleteGroups(gs)
       [] c.do = "delquotas"   -> DeleteUserPQuotas(us, ps)
       [] c.do = "delgquotas"  -> DeleteGroupPQuotas(gs, ps)
       [] c.do = "delcodes"    -> DeleteBillingCodes(Ids(d, "billingcodes", c.groups))
       [] c.do = "dump"        -> Dump
       [] OTHER                -> <<>>

Deletes(p) == cmd[p].do \in {"delusers", "delprinters", "delgroups", "delquotas", "delgquotas", "delcodes"}

-----------------------------------------------------------------------------
(* Transactions.  own are the rows a process wrote, gone those it deleted, *)
(* shared those it refers to.                                              *)

Idle == [state |-> "ready", todo |-> <<>>, out |-> <<>>, own |-> <<>>, gone |-> {}, shared |-> {}]
Closed(r) == [r EXCEPT !.own = <<>>, !.gone = {}, !.shared = {}]

(* The rows of one version, and where it has none those of another. *)
Over(f, g) == [k \in DOMAIN f \cup DOMAIN g |-> IF k \in DOMAIN f THEN f[k] ELSE g[k]]

Init ==
  /\ \E s \in Scenarios : conf = s.conf /\ cmd = s.cmd /\ db = s.db
  /\ seq = [t \in TableNames |-> Max({0} \cup {k[2] : k \in Rows(db, t)})]
  /\ proc = [p \in Procs |-> IF cmd[p].do = "nothing" THEN [Idle EXCEPT !.state = "done"] ELSE Idle]
  /\ beside = [p \in Procs |-> {}]

Running(p)  == proc[p].state = "running"
Step(p)     == Head(proc[p].todo)
At(p, op)   == Running(p) /\ proc[p].todo # <<>> /\ Step(p).op = op
Written(p)  == DOMAIN proc[p].own \cup proc[p].gone
View(p)     == Over(proc[p].own, Restrict(db, DOMAIN db \ proc[p].gone))

(* SERIAL goes on, INTEGER PRIMARY KEY takes the highest identifier there  *)
(* is and one.                                                             *)
HighestPlusOne(p, t) == Max({0} \cup {k[2] : k \in Rows(View(p), t)}) + 1
NextId(p, t) == IF conf.engine = "sqlite" THEN HighestPlusOne(p, t) ELSE seq[t] + 1

(* writeJobNew: a row of the history, or with disablehistory the printer's *)
(* last one again.                                                         *)
NewIfKept(p) == ~conf.disablehistory
Anew(p) == ~conf.disablehistory \/ Step(p).last = None

(* The rows of a committed or own version that a statement touches.        *)
Touched(p) ==
  LET s == Step(p)
      d == View(p)
  IN CASE s.op = "update" -> {s.key} \cap DOMAIN d
       [] s.op = "delete" -> {k \in Rows(d, s.table) : Selects(s.wheres, k, d[k])}
       [] s.op = "record" -> IF Anew(p) THEN {} ELSE {s.last} \cap Rows(d, "jobhistory")
       [] OTHER           -> {}

(* The row that a statement adds, or that it puts in the place of another. *)
NewRow(p)   == Step(p).row
NewTable(p) == IF Step(p).op = "insert" THEN Step(p).table ELSE "jobhistory"
RefersTo(p) ==
  IF Step(p).op \in {"insert", "record"} /\ conf.enforced
  THEN {k \in DOMAIN View(p) : References(NewTable(p), NewRow(p)) \cap Names(k, View(p)[k]) # {}} ELSE {}
Clashes(p, d) ==
  Step(p).op = "insert" /\ Step(p).table \in Unique
  /\ \E k \in Rows(d, Step(p).table) : UniqueKey(k[1], d[k]) = UniqueKey(k[1], Step(p).row)

Writes == {"insert", "update", "delete", "record"}

(* PostgreSQL: a row another transaction wrote is waited for, one it       *)
(* refers to may be written but not deleted.  SQLite: any transaction that *)
(* wrote is waited for.                                                    *)
Blockers(p) ==
  IF ~Running(p) \/ proc[p].todo = <<>> \/ Step(p).op \notin Writes THEN {}
  ELSE {q \in Procs \ {p} :
          IF conf.engine = "sqlite" THEN Written(q) # {}
          ELSE \/ Touched(p) \cap Written(q) # {}
               \/ Step(p).op = "delete" /\ Touched(p) \cap proc[q].shared # {}
               \/ RefersTo(p) \cap proc[q].gone # {}
               \/ Clashes(p, Over(proc[q].own, Restrict(db, proc[q].gone \cap DOMAIN db)))}

Becomes(p, r) == proc' = [proc EXCEPT ![p] = r]
LeftOpen(p) == Becomes(p, [proc[p] EXCEPT !.state = "failed"])
RollBack(p) == Becomes(p, Closed([proc[p] EXCEPT !.state = "failed"]))

Start(p) ==
  /\ proc[p].state = "ready"
  /\ Becomes(p, [Idle EXCEPT !.state = "running", !.todo = Script(p, db)])
  /\ LET others == {q \in Procs : Running(q)}
     IN beside' = [q \in Procs |-> IF q = p THEN others ELSE IF q \in others THEN beside[q] \cup {p} ELSE beside[q]]
  /\ UNCHANGED <<conf, cmd, db, seq>>

(* StorageJob.refund, of what was read when the list of jobs was made.     *)
(* First its billing code.                                                 *)
ExpandRefund(p) ==
  /\ At(p, "refund") /\ ~NoSuchCode(View(p), Step(p))
  /\ Becomes(p, [proc[p] EXCEPT !.todo = ForCode(View(p), Step(p), 0 - Step(p).num) \o <<PayBack(Step(p))>> \o Tail(@)])
  /\ UNCHANGED <<conf, cmd, db, seq, beside>>

(* Then the user is looked up by name, and paid if there is one; then his  *)
(* quota entry, for the pages.                                             *)
RefundSteps(s, us) ==
  IF us = {} THEN <<Refunded(s.key), Commit>>
  ELSE LET u == CHOOSE x \in us : TRUE
       IN <<Increase(<<"users", u>>, s.price), Insert("payments", Row(None, u, None, None, 0 - s.price, None)),
            RefundPages(u, s.printer, s.num), Refunded(s.key), Commit>>

PayUser(p) ==
  /\ At(p, "payback")
  /\ Becomes(p, [proc[p] EXCEPT !.todo = RefundSteps(Step(p), Ids(View(p), "users", {Step(p).user})) \o Tail(@)])
  /\ UNCHANGED <<conf, cmd, db, seq, beside>>

FindPages(p) ==
  /\ At(p, "pages")
  /\ LET quotas == Having(View(p), "userpquota", {Step(p).user}, Ids(View(p), "printers", {Step(p).printer}))
         pages == IF quotas = {} THEN <<>> ELSE <<Increase(CHOOSE x \in quotas : TRUE, 0 - Step(p).num)>>
     IN Becomes(p, [proc[p] EXCEPT !.todo = pages \o Tail(@)])
  /\ UNCHANGED <<conf, cmd, db, seq, beside>>

(* LastJob is looked up where it is first needed, perhaps only now. *)
LookAtLast(p) ==
  /\ At(p, "record") /\ Step(p).last = Unread
  /\ Becomes(p, [proc[p] EXCEPT !.todo = <<[Step(p) EXCEPT !.last = LastJob(View(p), Step(p).row.printer)]>> \o Tail(@)])
  /\ UNCHANGED <<conf, cmd, db, seq, beside>>

(* extract...: a query by itself, not part of a transaction. *)
ExtractTable(p) ==
  /\ At(p, "extract")
  /\ LET rows == [k \in Extracted(db, Step(p).table) |-> db[k]]
     IN Becomes(p, [proc[p] EXCEPT !.out = Over(rows, @), !.todo = Tail(@)])
  /\ UNCHANGED <<conf, cmd, db, seq, beside>>

Wrote(p, rows) ==
  Becomes(p, [proc[p] EXCEPT !.own = Over(rows, @), !.shared = @ \cup RefersTo(p), !.todo = Tail(@)])

(* A statement that names rows that are gone changes nothing. *)
Update(p) ==
  /\ At(p, "update")
  /\ Wrote(p, [k \in Touched(p) |->
                LET r == View(p)[k]
                IN CASE Step(p).how = "add"      -> [r EXCEPT !.num = @ + Step(p).num]
                     [] Step(p).how = "above"    -> [r EXCEPT !.num = @ + Step(p).num, !.aside = @ + Step(p).num]
                     [] Step(p).how = "save"     -> [r EXCEPT !.num = Step(p).num]
                     [] Step(p).how = "refunded" -> [r EXCEPT !.refunded = TRUE]])
  /\ UNCHANGED seq

AddRow(p) ==
  LET k == <<NewTable(p), NextId(p, NewTable(p))>>
  IN /\ Wrote(p, [x \in {k} |-> NewRow(p)])
     /\ seq' = [seq EXCEPT ![k[1]] = k[2]]

InsertRow(p) == At(p, "insert") /\ AddRow(p)

WriteJobNew(p) ==
  /\ At(p, "record") /\ Step(p).last # Unread
  /\ IF Anew(p) THEN AddRow(p)
     ELSE Wrote(p, [k \in Touched(p) |-> NewRow(p)]) /\ UNCHANGED seq

DeleteRows(p) ==
  /\ At(p, "delete")
  /\ Becomes(p, [proc[p] EXCEPT !.own = Restrict(@, DOMAIN @ \ Touched(p)), !.gone = @ \cup Touched(p), !.todo = Tail(@)])
  /\ UNCHANGED seq

Statement(p) == Update(p) \/ InsertRow(p) \/ WriteJobNew(p) \/ DeleteRows(p)

(* The keys allow it. *)
Lawful(p) ==
  LET refers == References(NewTable(p), NewRow(p)) \subseteq UNION {Names(k, View(p)[k]) : k \in RefersTo(p)}
  IN CASE Step(p).op = "insert" -> ~Clashes(p, View(p)) /\ (conf.enforced => refers)
       [] Step(p).op = "record" -> conf.enforced /\ (Anew(p) \/ Touched(p) # {}) => refers
       [] Step(p).op = "delete" -> conf.enforced => \A k \in Touched(p) : Referring(View(p), k) \subseteq Touched(p)
       [] OTHER                 -> TRUE

Execute(p) ==
  /\ Statement(p) /\ Blockers(p) = {} /\ Lawful(p)
  /\ UNCHANGED <<conf, cmd, db, beside>>

(* The database refuses a statement; or the billing code of a refund is    *)
(* gone, and its pages are taken off None: rollbackTransaction; raise.     *)
Raises(p) ==
  \/ /\ \E op \in Writes : At(p, op)
     /\ Step(p).op = "record" => Step(p).last # Unread
     /\ Blockers(p) = {} /\ ~Lawful(p)
  \/ At(p, "refund") /\ NoSuchCode(View(p), Step(p))

Refused(p) ==
  /\ Raises(p) /\ RollBack(p)
  /\ UNCHANGED <<conf, cmd, db, seq, beside>>

CommitWork(p) ==
  /\ At(p, "commit") \/ (Running(p) /\ proc[p].todo = <<>>)
  /\ db' = View(p)
  /\ Becomes(p, Closed(IF proc[p].todo = <<>> THEN [proc[p] EXCEPT !.state = "done"]
                        ELSE [proc[p] EXCEPT !.todo = Tail(@)]))
  /\ UNCHANGED <<conf, cmd, seq, beside>>

(* deadlock detected, or database is locked: PyKotaStorageError. *)
Deadlocked(p) ==
  \E S \in SUBSET Procs :
    /\ p \in S /\ \A q \in S : Blockers(q) \cap S # {}
    /\ \E q \in S : p \in Blockers(q)

GiveUp(p) ==
  /\ Deadlocked(p) \/ (conf.engine = "sqlite" /\ Blockers(p) # {})
  /\ RollBack(p)
  /\ UNCHANGED <<conf, cmd, db, seq, beside>>

Work(p) == Start(p) \/ ExpandRefund(p) \/ PayUser(p) \/ FindPages(p) \/ LookAtLast(p) \/ ExtractTable(p) \/ Execute(p) \/ Refused(p) \/ CommitWork(p)

Quiet == \A p \in Procs : proc[p].state \in {"done", "failed"}
AllOver == Quiet /\ UNCHANGED vars

Next == (\E p \in Procs : Work(p) \/ GiveUp(p)) \/ AllOver

Spec == Init /\ [][Next]_vars

(* Processes go on, and the database ends circles of waiting.              *)
FairSpec == Spec /\ \A p \in Procs : WF_vars(Work(p)) /\ WF_vars(Deadlocked(p) /\ GiveUp(p))

-----------------------------------------------------------------------------
(* Properties.                                                             *)

Ran(p, q, do) == q \in beside[p] /\ cmd[q].do = do
CountedPages(r) == (IF r.refunded THEN 0 ELSE r.num) - r.aside
Pages(u, p) ==
  SumFunctionOnSet([k \in DOMAIN db |-> CountedPages(db[k])],
                   {k \in Rows(db, "jobhistory") : db[k].user = u /\ db[k].printer = p})

(* Rows have the fields of rows, and a process that is not at work has no  *)
(* transaction open and no changes of its own.                             *)
TypeOK ==
  /\ conf \in ConfType
  /\ \A k \in DOMAIN db : k[1] \in TableNames /\ k[2] \in 1 .. seq[k[1]] /\ db[k].num \in Int
  /\ \A p \in Procs :
       /\ proc[p].state \in {"ready", "running", "done", "failed"}
       /\ proc[p].state # "running" => Written(p) = {} /\ proc[p].shared = {}
       /\ DOMAIN proc[p].own \cap proc[p].gone = {}

(* The page counter of a quota entry is the number of pages of its jobs    *)
(* that the history shows and that were counted, and of those counted for  *)
(* printers of the group, less the pages of the jobs that were refunded,   *)
(* counted or not; whatever is added, deleted and refunded                 *)
(* meanwhile; unless the entry was deleted and added again while a job     *)
(* printed, which then finds the new entry for the history and not for the *)
(* pages (where foreign keys are not checked the row of the history may    *)
(* wait for the new entry), or while a refund went through its list of     *)
(* jobs, which takes their pages off the new entry (and where identifiers  *)
(* are given again, may refund the job that has the identifier now); or    *)
(* two refunds ran at the same time.                                       *)
TakesQuotas(q) == cmd[q].do \in {"delquotas", "delusers", "delprinters"}
CountersMatchHistory ==
  ~conf.disablehistory =>
    \A k \in Rows(db, "userpquota") :
      \/ CountedPages(db[k]) = Pages(db[k].user, db[k].printer)
      \/ \E p, q, r \in Procs :
           /\ q \in beside[p] /\ TakesQuotas(q)
           /\ \/ cmd[p].do = "job" /\ cmd[r].do = "addquota" /\ (conf.enforced => r \in beside[p])
              \/ cmd[p].do = "refund" /\ r \in beside[p]
                   /\ (cmd[r].do = "addquota" \/ (conf.engine = "sqlite" /\ cmd[r].do = "job"))
      \/ \E p, q \in Procs : cmd[p].do = "refund" /\ Ran(p, q, "refund")

(* A job is charged to its user.  Only SQLite, which gives the identifier  *)
(* of a deleted row to the next one, can make it pay another who was added *)
(* while it printed.                                                       *)
ChargesReachTheirUser ==
  \A p \in Procs : cmd[p].do = "job" =>
    \A k \in DOMAIN proc[p].own :
      k[1] = "users" /\ proc[p].own[k].name \notin cmd[p].users =>
        /\ conf.engine = "sqlite"
        /\ \E q, r \in Procs : Ran(p, q, "delusers") /\ Ran(p, r, "adduser")

(* A transaction that is committed with charges of a job has the row of    *)
(* the history too.  With disablehistory that row may be another user's,   *)
(* and deleted meanwhile.                                                  *)
ChargedIsRecorded ==
  [][\A p \in Procs :
       cmd[p].do = "job" /\ proc[p].state = "running" /\ proc'[p].state = "done" /\ proc[p].own # <<>> =>
         \/ \E k \in DOMAIN db' : k[1] = "jobhistory" /\ db'[k].job = p
         \/ conf.disablehistory /\ \E q \in beside[p] : Deletes(q)]_vars

(* A process fails only when another ran beside it (no command deletes a   *)
(* row before what refers to it, or adds a row twice), or when it refunds  *)
(* a job whose billing code is not there any more.                         *)
NamesNoCode(p) == At(p, "refund") /\ Step(p).code # None /\ \A k \in Rows(db, "billingcodes") : db[k].name # Step(p).code
FailureNeedsOverlap ==
  [][\A p \in Procs : proc[p].state # "failed" /\ proc'[p].state = "failed" => beside[p] # {} \/ NamesNoCode(p)]_vars

(* Where the database does not check foreign keys, a row that refers to    *)
(* nothing is left by a deletion beside a process that inserts.            *)
OrphansNeedRace ==
  \A k \in DOMAIN db : Orphan(db, k) =>
    ~conf.enforced /\ \E p, q \in Procs : q \in beside[p] /\ Deletes(q) /\ ~Deletes(p)

(* A circle of waiting needs a deletion; or two commands that each add or  *)
(* pay several users, printers ... in different orders; or two jobs of an  *)
(* user, one of which has come to the groups of its printer; or a job and  *)
(* a refund, of which one takes the billing code last and the other first, *)
(* and that meet at an user besides, at the row of the printer's last job  *)
(* or at an user who pays.  Refunds, and jobs on printers in no group,     *)
(* never wait for each other in a circle.                                  *)
BothWrote(p, q, do) == cmd[p].do = do /\ cmd[q].do = do /\ p # q /\ Written(p) # {} /\ Written(q) # {}
CountsAbove(p) == At(p, "update") /\ Step(p).how = "above"
DeadlockNeedsOppositeOrders ==
  \A p \in Procs : Deadlocked(p) =>
    \/ \E q \in Procs : Deletes(q) /\ Written(q) # {}
    \/ \E q, r \in Procs : BothWrote(q, r, cmd[q].do) /\ cmd[q].do \notin {"job", "refund"}
    \/ \E q, r \in Procs : BothWrote(q, r, "job") /\ CountsAbove(q) /\ cmd[q].users \cap cmd[r].users # {}
    \/ \E q, r \in Procs :
         /\ cmd[q].do = "job" /\ cmd[r].do = "refund" /\ Written(q) # {} /\ Written(r) # {}
         /\ \/ cmd[q].users \cap cmd[r].users # {} \/ conf.disablehistory
            \/ \E x \in Procs : cmd[x].do = "pay" /\ Written(x) # {}

(* What a row of a dump refers to is in the dump, whatever is deleted      *)
(* meanwhile, unless it was added while the dump was made; but without     *)
(* foreign keys a row of the history may have lost its quota entry.        *)
DumpNamesWhatItHas ==
  \A p \in Procs : cmd[p].do = "dump" /\ proc[p].state = "done" =>
    LET out == proc[p].out
    IN \A k \in DOMAIN out :
         \/ References(k[1], out[k]) \subseteq UNION {Names(x, out[x]) : x \in DOMAIN out}
         \/ k[1] = "jobhistory" /\ ~conf.enforced
         \/ \E q \in beside[p] : cmd[q].do \in {"adduser", "addprinter", "addgroup", "addquota"}

(* A dump that is made alone has all the rows, except those that refer to  *)
(* nothing or to a row that does, and quota entries of groups none of      *)
(* whose members has one.                                                  *)
DumpIsWhole ==
  [][\A p \in Procs :
       cmd[p].do = "dump" /\ proc[p].state = "running" /\ proc'[p].state = "done" /\ beside[p] = {} =>
         \A k \in DOMAIN db \ DOMAIN proc[p].out :
           \/ \E x \in {k} \cup Referred(db, k) : Orphan(db, x)
           \/ k[1] = "grouppquota" /\ ~HasPages(db, db[k])]_vars

(* Every process ends, whoever waits for whom.                             *)
EveryProcessEnds == <>[]Quiet

=============================================================================
