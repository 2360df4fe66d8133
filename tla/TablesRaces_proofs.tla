-------------------------- MODULE TablesRaces_proofs --------------------------
(***************************************************************************)
(* Jobs and commands beside one another on the SQL storage: what a row     *)
(* refers to stays there, who fails did not run alone, who waits for whom  *)
(* in a circle, and what is in a dump, for any processes, names and        *)
(* databases.                                                              *)
(***************************************************************************)
EXTENDS Tables_proofs

-----------------------------------------------------------------------------
(* Versions: the rows that are committed, and those that each process has  *)
(* written.  Different rows have different names and unique keys, and the  *)
(* versions of one row the same; what a row refers to only changes in the  *)
(* history.                                                                *)

Sources == {db} \cup {proc[p].own : p \in Procs}
Same(k, r, s) ==
  /\ Names(k, r) = Names(k, s)
  /\ k[1] # "jobhistory" => References(k[1], r) = References(k[1], s)
  /\ k[1] \in Unique => UniqueKey(k[1], r) = UniqueKey(k[1], s)
Rival(k, r, x, s) == k[1] = x[1] /\ k[1] \in Unique /\ UniqueKey(k[1], r) = UniqueKey(x[1], s)
Meets(k, r, x, s) == Names(k, r) \cap Names(x, s) # {} \/ Rival(k, r, x, s)
Fits(k, r, x, s) == IF k = x THEN Same(k, r, s) ELSE ~Meets(k, r, x, s)
Agree(d, e) == \A k \in DOMAIN d, x \in DOMAIN e : Fits(k, d[k], x, e[x])
NamesInv == \A d, e \in Sources : Agree(d, e)

(* What is deleted is there for the others; in PostgreSQL it is nothing    *)
(* that another process refers to.  Who ran beside whom.                   *)
SharedInv ==
  /\ \A p \in Procs : proc[p].gone \subseteq DOMAIN db
  /\ \A p, q \in Procs : p # q /\ conf.engine # "sqlite" => proc[p].gone \cap proc[q].shared = {}
  /\ \A p, q \in Procs : q \in beside[p] => p \in beside[q] /\ proc[q].state # "ready"

NamesIn(d) == UNION {Names(x, d[x]) : x \in DOMAIN d}
Whole(d) == \A k \in DOMAIN d : References(k[1], d[k]) \subseteq NamesIn(d)

(* A process whose rows refer to a row holds it, unless the row that is    *)
(* committed refers to it too.                                             *)
Held(p, k, n) ==
  \/ k \in DOMAIN db /\ n \in References(k[1], db[k])
  \/ \E y \in proc[p].shared \cap DOMAIN View(p) : n \in Names(y, View(p)[y])
HeldInv ==
  conf.enforced =>
    \A p \in Procs : \A k \in DOMAIN proc[p].own : \A n \in References(k[1], proc[p].own[k]) : Held(p, k, n)

Peaceful(p) == \A q \in Procs : q \in beside[p] => (Deletes(q) <=> Deletes(p))
Calm == \A p \in Procs : Peaceful(p)
SeenInv == conf.enforced \/ Calm => Whole(db) /\ \A p \in Procs : Whole(View(p))

(* Plans: what is left to do.                                              *)
Takes(s, k, r) == s.op = "delete" /\ k[1] = s.table /\ Selects(s.wheres, k, r)
Ordered(t, d) ==
  \A j \in 1 .. Len(t) : \A g \in DOMAIN d : Takes(t[j], g, d[g]) =>
    \A x \in Referring(d, g) : \E i \in 1 .. j : Takes(t[i], x, d[x])
Based(s, d) ==
  /\ s.op = "insert" => References(s.table, s.row) \subseteq NamesIn(d)
  /\ s.op = "record" => <<"entry of", s.row.user, s.row.printer>> \in NamesIn(d)
Founded(t, d) == \A s \in Range(t) : Based(s, d)
PlanInv ==
  \A p \in Procs : Running(p) /\ Peaceful(p) =>
    IF Deletes(p) THEN Ordered(proc[p].todo, View(p)) ELSE Founded(proc[p].todo, View(p))

Taken(s, d) ==
  /\ s.op = "insert" /\ s.table \in Unique
  /\ \E k \in Rows(d, s.table) : UniqueKey(k[1], d[k]) = UniqueKey(k[1], s.row)
Rivals(s, u) ==
  /\ s.op = "insert" /\ s.table \in Unique /\ u.op = "insert" /\ u.table = s.table
  /\ UniqueKey(u.table, u.row) = UniqueKey(s.table, s.row)
NewKeys(t, d) ==
  /\ \A i \in 1 .. Len(t) : ~Taken(t[i], d)
  /\ \A i, j \in 1 .. Len(t) : i # j => ~Rivals(t[i], t[j])
AloneInv ==
  \A p \in Procs : beside[p] = {} /\ Running(p) => NewKeys(proc[p].todo, View(p))

(* A name that two rows have is that of a quota entry.                     *)
LEMMA NamesMeet ==
  ASSUME NEW k \in TableNames \X Nat, NEW x \in TableNames \X Nat, k # x, NEW r, NEW s,
         Names(k, r) \cap Names(x, s) # {}
  PROVE  k[1] = "userpquota" /\ x[1] = "userpquota" /\ r.user = s.user /\ r.printer = s.printer
<1>1. PICK n : n \in Names(k, r) /\ n \in Names(x, s)
  OBVIOUS
<1>2. \A a, u, v : k # <<a, u, v>> /\ x # <<a, u, v>>
  <2>1. Len(k) = 2 /\ Len(x) = 2
    OBVIOUS
  <2>2. \A a, u, v : Len(<<a, u, v>>) = 3
    OBVIOUS
  <2>3. QED
    BY <2>1, <2>2
<1>3. /\ n = k \/ (k[1] = "userpquota" /\ n = <<"entry of", r.user, r.printer>>)
      /\ n = x \/ (x[1] = "userpquota" /\ n = <<"entry of", s.user, s.printer>>)
  BY <1>1 DEF Names
<1>4. /\ n # k /\ n # x
  BY <1>2, <1>3
<1>5. <<"entry of", r.user, r.printer>> = <<"entry of", s.user, s.printer>>
  BY <1>3, <1>4
<1>6. \A a, b, u, v : <<"entry of", a, b>> = <<"entry of", u, v>> => a = u /\ b = v
  OBVIOUS
<1>7. QED
  BY <1>3, <1>4, <1>5, <1>6

LEMMA DatabaseAgrees ==
  ASSUME NEW d, IsDatabase(d)
  PROVE  Agree(d, d)
<1>1. /\ \A k \in DOMAIN d : k \in TableNames \X Nat
      /\ \A k, x \in DOMAIN d :
           k[1] = x[1] /\ k[1] \in Unique /\ UniqueKey(k[1], d[k]) = UniqueKey(x[1], d[x]) => k = x
  BY DEF IsDatabase
<1>2. ASSUME NEW k \in DOMAIN d, NEW x \in DOMAIN d, k # x PROVE Names(k, d[k]) \cap Names(x, d[x]) = {}
  <2> SUFFICES ASSUME Names(k, d[k]) \cap Names(x, d[x]) # {} PROVE FALSE
    OBVIOUS
  <2>1. k[1] = "userpquota" /\ x[1] = "userpquota" /\ d[k].user = d[x].user /\ d[k].printer = d[x].printer
    BY <1>1, <1>2, NamesMeet
  <2>2. UniqueKey("userpquota", d[k]) = UniqueKey("userpquota", d[x]) /\ "userpquota" \in Unique
    BY <2>1 DEF UniqueKey, Unique, TableNames
  <2>3. QED
    BY <1>1, <1>2, <2>1, <2>2
<1>3. ASSUME NEW k \in DOMAIN d, NEW x \in DOMAIN d PROVE Fits(k, d[k], x, d[x])
  BY <1>1, <1>2 DEF Fits, Same, Meets, Rival
<1>4. QED
  BY <1>3 DEF Agree

(* At the start nobody has written anything.                               *)
LEMMA NothingWritten ==
  ASSUME Init, NEW p \in Procs
  PROVE  /\ proc[p].own = <<>> /\ proc[p].gone = {} /\ proc[p].shared = {} /\ proc[p].state \in {"ready", "done"}
         /\ beside[p] = {} /\ DOMAIN proc[p].own = {} /\ ~Running(p)
<1>1. proc[p] = Idle \/ proc[p] = [Idle EXCEPT !.state = "done"]
  BY DEF Init
<1>2. /\ proc[p].own = <<>> /\ proc[p].gone = {} /\ proc[p].shared = {} /\ proc[p].state \in {"ready", "done"}
      /\ beside[p] = {}
  BY <1>1 DEF Idle, Init
<1>3. DOMAIN proc[p].own = {}
  BY <1>2
<1>4. QED
  BY <1>2, <1>3 DEF Running

LEMMA NamesInit == ASSUME Init PROVE NamesInv
<1>1. Agree(db, db)
  BY TablesAssumption, DatabaseAgrees DEF Init
<1>2. \A p \in Procs : DOMAIN proc[p].own = {}
  BY NothingWritten
<1>3. \A d \in Sources : d = db \/ DOMAIN d = {}
  BY <1>2 DEF Sources
<1>4. QED
  BY <1>1, <1>3 DEF NamesInv, Agree

(* A statement changes rows but not what they name, or puts a row of the   *)
(* history in the place of another, or adds a row, or deletes some.        *)
Changes(p, rows) ==
  Wrote(p, rows) /\ DOMAIN rows \subseteq DOMAIN View(p) /\ \A k \in DOMAIN rows : Kept(rows[k], View(p)[k])
Replaces(p, rows) ==
  /\ Wrote(p, rows) /\ DOMAIN rows \subseteq DOMAIN View(p)
  /\ \A k \in DOMAIN rows : k[1] = "jobhistory" /\ rows[k] = NewRow(p)
Adds(p, k) ==
  /\ Wrote(p, [x \in {k} |-> NewRow(p)]) /\ k \notin DOMAIN View(p) /\ \A q \in Procs : q # p => k \notin Written(q)
  /\ k \in TableNames \X Nat /\ k[1] = NewTable(p)

LEMMA StatementIs ==
  ASSUME TypeInv, NEW p \in Procs, Execute(p)
  PROVE  /\ Running(p) /\ proc[p].todo # <<>> /\ Blockers(p) = {} /\ Lawful(p) /\ UNCHANGED <<conf, cmd, db, beside>>
         /\ proc'[p].todo = Tail(proc[p].todo) /\ proc'[p].state = "running"
         /\ \A q \in Procs : q # p => proc'[q] = proc[q]
         /\ \/ Step(p).op = "update" /\ \E rows : Changes(p, rows)
            \/ Step(p).op = "record" /\ ~Anew(p) /\ \E rows : Replaces(p, rows) /\ DOMAIN rows = Touched(p)
            \/ (Step(p).op = "insert" \/ (Step(p).op = "record" /\ Anew(p))) /\ \E k : Adds(p, k)
            \/ Step(p).op = "delete" /\ DeleteRows(p)
         /\ Step(p).op \in Writes
         /\ IF Step(p).op = "delete" THEN cmd[p].do \in Deleting /\ DOMAIN proc[p].own = {}
            ELSE cmd[p].do \notin Deleting /\ proc[p].gone = {}
<1>1. /\ Blockers(p) = {} /\ Lawful(p) /\ UNCHANGED <<conf, cmd, db, beside>>
      /\ (Update(p) \/ InsertRow(p) \/ WriteJobNew(p) \/ DeleteRows(p))
  BY DEF Execute, Statement
<1>2. Running(p) /\ proc[p].todo # <<>> /\ Step(p).op \in {"update", "insert", "record", "delete"}
  BY <1>1 DEF Update, InsertRow, WriteJobNew, DeleteRows, At
<1>3. MayDo(cmd[p].do, Step(p)) /\ ProcOK(p)
  BY <1>2, StepMayBeDone DEF TypeInv
<1>4. IF Step(p).op = "delete" THEN cmd[p].do \in Deleting ELSE cmd[p].do \notin Deleting
  BY <1>2, <1>3 DEF MayDo, Deleting, Deleters
<1>5. IF Step(p).op = "delete" THEN DOMAIN proc[p].own = {} ELSE proc[p].gone = {}
  BY <1>3, <1>4 DEF ProcOK
<1>6. ASSUME NEW rows, Wrote(p, rows)
      PROVE  /\ proc'[p].todo = Tail(proc[p].todo) /\ proc'[p].state = "running"
             /\ \A q \in Procs : q # p => proc'[q] = proc[q]
  BY <1>2, <1>6, WroteIs DEF Running
<1> DEFINE Rest == /\ proc'[p].todo = Tail(proc[p].todo) /\ proc'[p].state = "running"
                   /\ \A q \in Procs : q # p => proc'[q] = proc[q]
<1>7. CASE Update(p)
  <2>1. PICK rows : Wrote(p, rows) /\ DOMAIN rows \subseteq DOMAIN View(p) /\ \A k \in DOMAIN rows : Kept(rows[k], View(p)[k])
    BY <1>7, UpdateIs
  <2>2. Changes(p, rows) /\ Rest
    BY <1>6, <2>1 DEF Changes
  <2>3. Step(p).op = "update"
    BY <1>7 DEF Update, At
  <2>4. QED
    BY <1>1, <1>2, <1>4, <1>5, <2>2, <2>3 DEF Writes
<1>8. ASSUME AddRow(p), Step(p).op \in {"insert", "record"} PROVE \E k : Adds(p, k) /\ Rest
  <2>1. PICK n, k : /\ n \in Nat /\ k = <<NewTable(p), n>> /\ k \notin DOMAIN View(p)
                    /\ \A q \in Procs : q # p => k \notin Written(q)
                    /\ Wrote(p, [x \in {k} |-> NewRow(p)])
                    /\ k[1] \in TableNames
    BY <1>1, <1>2, <1>8, AddRowIs
  <2>2. k \in TableNames \X Nat /\ k[1] = NewTable(p)
    BY <2>1
  <2>3. QED
    BY <1>6, <2>1, <2>2 DEF Adds
<1>9. CASE InsertRow(p)
  <2>1. Step(p).op = "insert" /\ AddRow(p)
    BY <1>9 DEF InsertRow, At
  <2>2. QED
    BY <1>1, <1>2, <1>4, <1>5, <1>8, <2>1 DEF Writes
<1>10. CASE WriteJobNew(p)
  <2>1. Step(p).op = "record"
    BY <1>10 DEF WriteJobNew, At
  <2>2. CASE Anew(p)
    <3>1. AddRow(p)
      BY <1>10, <2>2 DEF WriteJobNew
    <3>2. QED
      BY <1>1, <1>2, <1>4, <1>5, <1>8, <2>1, <2>2, <3>1 DEF Writes
  <2>3. CASE ~Anew(p)
    <3> DEFINE rows == [k \in Touched(p) |-> NewRow(p)]
    <3>1. Wrote(p, rows) /\ Touched(p) = {Step(p).last} \cap DOMAIN View(p) /\ Step(p).last[1] = "jobhistory"
      BY <1>10, <2>3, ReplacedIs
    <3>2. DOMAIN rows = Touched(p) /\ \A k \in DOMAIN rows : rows[k] = NewRow(p)
      OBVIOUS
    <3> HIDE DEF rows
    <3>3. Replaces(p, rows) /\ DOMAIN rows = Touched(p) /\ Rest
      BY <1>6, <3>1, <3>2 DEF Replaces
    <3>4. QED
      BY <1>1, <1>2, <1>4, <1>5, <2>1, <2>3, <3>3 DEF Writes
  <2>4. QED
    BY <2>2, <2>3
<1>11. CASE DeleteRows(p)
  <2>1. Step(p).op = "delete" /\ Rest
    BY <1>11, DeleteIs
  <2>2. QED
    BY <1>1, <1>2, <1>4, <1>5, <1>11, <2>1 DEF Writes
<1>12. QED
  BY <1>1, <1>7, <1>9, <1>10, <1>11

-----------------------------------------------------------------------------
(* Names.                                                                  *)

LEMMA FitsBothWays ==
  ASSUME NEW k, NEW r, NEW x, NEW s, Fits(k, r, x, s)
  PROVE  Fits(x, s, k, r)
BY DEF Fits, Same, Meets, Rival

(* Rows with the names and references of those that others fit, fit too.   *)
LEMMA FitsAlike ==
  ASSUME NEW k, NEW r, NEW v, Names(k, r) = Names(k, v), k[1] = "jobhistory" \/ References(k[1], r) = References(k[1], v),
         k[1] \in Unique => UniqueKey(k[1], r) = UniqueKey(k[1], v),
         NEW x, NEW s, Fits(k, v, x, s)
  PROVE  Fits(k, r, x, s)
BY DEF Fits, Same, Meets, Rival

LEMMA KeptNames ==
  ASSUME NEW k, NEW r, NEW v, Kept(r, v)
  PROVE  /\ Names(k, r) = Names(k, v) /\ References(k[1], r) = References(k[1], v)
         /\ UniqueKey(k[1], r) = UniqueKey(k[1], v)
BY DEF Kept, Names, References, UniqueKey

LEMMA SourcesAre ==
  /\ db \in Sources /\ \A p \in Procs : proc[p].own \in Sources
  /\ \A d \in Sources : d = db \/ \E p \in Procs : d = proc[p].own
BY DEF Sources

(* What a process sees fits all versions.                                  *)
LEMMA ViewFits ==
  ASSUME NamesInv, NEW p \in Procs, NEW k \in DOMAIN View(p), NEW e \in Sources, NEW x \in DOMAIN e
  PROVE  Fits(k, View(p)[k], x, e[x])
<1>1. CASE k \in DOMAIN proc[p].own
  <2>1. View(p)[k] = proc[p].own[k] /\ proc[p].own \in Sources
    BY <1>1, ViewIs, SourcesAre
  <2>2. QED
    BY <1>1, <2>1 DEF NamesInv, Agree
<1>2. CASE k \notin DOMAIN proc[p].own
  <2>1. View(p)[k] = db[k] /\ k \in DOMAIN db /\ db \in Sources
    BY <1>2, ViewIs, SourcesAre
  <2>2. QED
    BY <2>1 DEF NamesInv, Agree
<1>3. QED
  BY <1>1, <1>2

LEMMA ViewsFit ==
  ASSUME NamesInv, NEW p \in Procs, NEW q \in Procs, NEW k \in DOMAIN View(p), NEW x \in DOMAIN View(q)
  PROVE  Fits(k, View(p)[k], x, View(q)[x])
<1>1. CASE x \in DOMAIN proc[q].own
  <2>1. View(q)[x] = proc[q].own[x] /\ proc[q].own \in Sources
    BY <1>1, ViewIs, SourcesAre
  <2>2. QED
    BY <1>1, <2>1, ViewFits
<1>2. CASE x \notin DOMAIN proc[q].own
  <2>1. View(q)[x] = db[x] /\ x \in DOMAIN db /\ db \in Sources
    BY <1>2, ViewIs, SourcesAre
  <2>2. QED
    BY <2>1, ViewFits
<1>3. QED
  BY <1>1, <1>2

(* Rows that a process writes, and that fit.                               *)
LEMMA NamesGrow ==
  ASSUME TypeInv, NamesInv, NEW p \in Procs, NEW rows, Wrote(p, rows), db' = db,
         \A k \in DOMAIN rows : \A e \in Sources : \A x \in DOMAIN e : Fits(k, rows[k], x, e[x]),
         \A k, x \in DOMAIN rows : Fits(k, rows[k], x, rows[x])
  PROVE  NamesInv'
<1> DEFINE new == proc'[p].own
<1>1. /\ \A k \in DOMAIN new : \/ k \in DOMAIN rows /\ new[k] = rows[k]
                               \/ k \in DOMAIN proc[p].own /\ new[k] = proc[p].own[k]
      /\ \A q \in Procs : q # p => proc'[q] = proc[q]
  BY WroteIs
<1>2. \A d \in Sources' : d = new \/ d \in Sources
  BY <1>1 DEF Sources
<1> HIDE DEF new
<1>3. ASSUME NEW k \in DOMAIN new, NEW e \in Sources, NEW x \in DOMAIN e PROVE Fits(k, new[k], x, e[x])
  <2>1. CASE k \in DOMAIN rows /\ new[k] = rows[k]
    BY <1>3, <2>1
  <2>2. CASE k \in DOMAIN proc[p].own /\ new[k] = proc[p].own[k]
    BY <1>3, <2>2, SourcesAre DEF NamesInv, Agree
  <2>3. QED
    BY <1>1, <2>1, <2>2
<1>4. ASSUME NEW k \in DOMAIN new, NEW x \in DOMAIN new PROVE Fits(k, new[k], x, new[x])
  <2>1. CASE x \in DOMAIN proc[p].own /\ new[x] = proc[p].own[x]
    BY <1>3, <2>1, SourcesAre
  <2>2. CASE x \in DOMAIN rows /\ new[x] = rows[x] /\ k \in DOMAIN rows /\ new[k] = rows[k]
    BY <2>2
  <2>3. CASE x \in DOMAIN rows /\ new[x] = rows[x] /\ k \in DOMAIN proc[p].own /\ new[k] = proc[p].own[k]
    <3>1. Fits(x, new[x], k, new[k])
      BY <2>3, SourcesAre
    <3>2. QED
      BY <3>1, FitsBothWays
  <2>4. QED
    BY <1>1, <2>1, <2>2, <2>3
<1>5. ASSUME NEW d \in Sources', NEW e \in Sources' PROVE Agree(d, e)
  <2>1. CASE d \in Sources /\ e \in Sources
    BY <2>1 DEF NamesInv
  <2>2. CASE d = new /\ e \in Sources
    BY <1>3, <2>2 DEF Agree
  <2>3. CASE e = new /\ d \in Sources
    BY <1>3, <2>3, FitsBothWays DEF Agree
  <2>4. CASE d = new /\ e = new
    BY <1>4, <2>4 DEF Agree
  <2>5. QED
    BY <1>2, <2>1, <2>2, <2>3, <2>4
<1>6. QED
  BY <1>5 DEF NamesInv

LEMMA NamesChanged ==
  ASSUME TypeInv, NamesInv, NEW p \in Procs, db' = db, NEW rows, Changes(p, rows) \/ Replaces(p, rows)
  PROVE  NamesInv'
<1>1. Wrote(p, rows) /\ DOMAIN rows \subseteq DOMAIN View(p)
  BY DEF Changes, Replaces
<1>2. ASSUME NEW k \in DOMAIN rows
      PROVE  /\ Names(k, rows[k]) = Names(k, View(p)[k])
             /\ k[1] = "jobhistory" \/ References(k[1], rows[k]) = References(k[1], View(p)[k])
             /\ k[1] \in Unique => UniqueKey(k[1], rows[k]) = UniqueKey(k[1], View(p)[k])
  <2>1. CASE Changes(p, rows)
    BY <1>2, <2>1, KeptNames DEF Changes
  <2>2. CASE Replaces(p, rows)
    BY <1>2, <2>2 DEF Replaces, Names, Unique
  <2>3. QED
    BY <2>1, <2>2
<1>3. ASSUME NEW k \in DOMAIN rows, NEW e \in Sources, NEW x \in DOMAIN e PROVE Fits(k, rows[k], x, e[x])
  BY <1>1, <1>2, ViewFits, FitsAlike
<1>4. ASSUME NEW k \in DOMAIN rows, NEW x \in DOMAIN rows PROVE Fits(k, rows[k], x, rows[x])
  <2>1. Fits(k, View(p)[k], x, View(p)[x])
    BY <1>1, ViewsFit
  <2>2. Fits(x, View(p)[x], k, rows[k])
    BY <1>2, <2>1, FitsAlike, FitsBothWays
  <2>3. Fits(x, rows[x], k, rows[k])
    BY <1>2, <2>2, FitsAlike
  <2>4. QED
    BY <2>3, FitsBothWays
<1>5. QED
  BY <1>1, <1>3, <1>4, NamesGrow

(* A new row has a name that no version of another row has: the database   *)
(* sees it in the rows that are committed, own, or of an open transaction. *)
LEMMA NamesAdded ==
  ASSUME TypeInv, NamesInv, NEW p \in Procs, db' = db, Running(p), proc[p].todo # <<>>,
         Step(p).op \in {"insert", "record"}, Blockers(p) = {}, Lawful(p), proc[p].gone = {}, NEW k, Adds(p, k)
  PROVE  NamesInv' /\ \A e \in Sources : k \notin DOMAIN e
<1>0. PICK r : r = NewRow(p)
  OBVIOUS
<1>1. /\ Wrote(p, [x \in {k} |-> r]) /\ k \notin DOMAIN View(p) /\ \A q \in Procs : q # p => k \notin Written(q)
      /\ k \in TableNames \X Nat /\ k[1] = NewTable(p)
  BY <1>0 DEF Adds
<1>2. ASSUME NEW e \in Sources PROVE k \notin DOMAIN e /\ \A x \in DOMAIN e : x \in TableNames \X Nat
  <2>1. CASE e = db
    BY <1>1, <2>1, ViewIs DEF TypeInv, IsKey
  <2>2. ASSUME NEW q \in Procs, e = proc[q].own PROVE k \notin DOMAIN e /\ \A x \in DOMAIN e : x \in TableNames \X Nat
    <3>1. \A x \in DOMAIN e : x \in TableNames \X Nat
      BY <2>2 DEF TypeInv, ProcOK, IsKey
    <3>2. k \notin DOMAIN e
      BY <1>1, <2>2, ViewIs DEF Written
    <3>3. QED
      BY <3>1, <3>2
  <2>3. QED
    BY <2>1, <2>2, SourcesAre
<1>3. ASSUME NEW x, NEW s, x # k, x \in TableNames \X Nat, Meets(k, r, x, s)
      PROVE  /\ Step(p).op = "insert" /\ x[1] = Step(p).table /\ Step(p).table \in Unique
             /\ UniqueKey(x[1], s) = UniqueKey(x[1], Step(p).row)
  <2>1. CASE Names(k, r) \cap Names(x, s) # {}
    <3>1. k[1] = "userpquota" /\ x[1] = "userpquota" /\ r.user = s.user /\ r.printer = s.printer
      BY <1>1, <1>3, <2>1, NamesMeet
    <3>2. Step(p).op = "insert" /\ Step(p).table = "userpquota" /\ r = Step(p).row
      BY <1>0, <1>1, <3>1 DEF NewTable, NewRow
    <3>3. "userpquota" \in Unique
      BY DEF Unique, TableNames
    <3>4. UniqueKey("userpquota", s) = UniqueKey("userpquota", r)
      BY <3>1 DEF UniqueKey
    <3>5. QED
      BY <3>1, <3>2, <3>3, <3>4
  <2>2. CASE Rival(k, r, x, s)
    <3>1. k[1] = x[1] /\ k[1] \in Unique /\ UniqueKey(k[1], r) = UniqueKey(x[1], s)
      BY <2>2 DEF Rival
    <3>2. Step(p).op = "insert" /\ k[1] = Step(p).table /\ r = Step(p).row
      BY <1>0, <1>1, <3>1 DEF NewTable, NewRow, Unique
    <3>3. QED
      BY <3>1, <3>2
  <2>3. QED
    BY <1>3, <2>1, <2>2 DEF Meets
<1>4. ASSUME NEW x \in DOMAIN View(p) PROVE ~Meets(k, r, x, View(p)[x])
  <2> SUFFICES ASSUME Meets(k, r, x, View(p)[x]) PROVE FALSE
    OBVIOUS
  <2>1. x \in TableNames \X Nat /\ x # k
    BY <1>1, ViewIsTidy DEF IsKey
  <2>2. /\ Step(p).op = "insert" /\ Step(p).table \in Unique /\ x[1] = Step(p).table
        /\ UniqueKey(x[1], View(p)[x]) = UniqueKey(x[1], Step(p).row)
    BY <1>3, <2>1
  <2>3. Clashes(p, View(p))
    BY <2>2 DEF Clashes, Rows
  <2>4. QED
    BY <2>2, <2>3 DEF Lawful
<1>5. ASSUME NEW q \in Procs, q # p, NEW x \in DOMAIN proc[q].own PROVE ~Meets(k, r, x, proc[q].own[x])
  <2> SUFFICES ASSUME Meets(k, r, x, proc[q].own[x]) PROVE FALSE
    OBVIOUS
  <2>1. x \in TableNames \X Nat /\ x # k
    BY <1>2, SourcesAre
  <2>2. /\ Step(p).op = "insert" /\ Step(p).table \in Unique /\ x[1] = Step(p).table
        /\ UniqueKey(x[1], proc[q].own[x]) = UniqueKey(x[1], Step(p).row)
    BY <1>3, <2>1
  <2>3. Step(p).op \in Writes
    BY <2>2 DEF Writes
  <2>4. CASE conf.engine = "sqlite"
    <3>1. Written(q) = {}
      BY <1>5, <2>3, <2>4 DEF Blockers
    <3>2. QED
      BY <3>1 DEF Written
  <2>5. CASE conf.engine # "sqlite"
    <3> DEFINE theirs == Over(proc[q].own, Restrict(db, proc[q].gone \cap DOMAIN db))
    <3>1. ~Clashes(p, theirs)
      BY <1>5, <2>3, <2>5 DEF Blockers
    <3>2. x \in DOMAIN theirs /\ theirs[x] = proc[q].own[x]
      BY DEF Over
    <3> HIDE DEF theirs
    <3>3. Clashes(p, theirs)
      BY <2>2, <3>2 DEF Clashes, Rows
    <3>4. QED
      BY <3>1, <3>3
  <2>6. QED
    BY <2>4, <2>5
<1>6. ASSUME NEW x \in DOMAIN db PROVE ~Meets(k, r, x, db[x])
  <2>1. x \in DOMAIN View(p)
    BY ViewIs
  <2>2. Fits(x, View(p)[x], x, db[x])
    BY <2>1, ViewFits, SourcesAre
  <2>3. /\ Names(x, View(p)[x]) = Names(x, db[x])
        /\ x[1] \in Unique => UniqueKey(x[1], View(p)[x]) = UniqueKey(x[1], db[x])
    BY <2>2 DEF Fits, Same
  <2>4. ~Meets(k, r, x, View(p)[x])
    BY <1>4, <2>1
  <2>5. QED
    BY <2>3, <2>4 DEF Meets, Rival
<1>7. ASSUME NEW e \in Sources, NEW x \in DOMAIN e PROVE Fits(k, r, x, e[x])
  <2>1. ~Meets(k, r, x, e[x])
    <3>1. CASE e = db
      BY <1>6, <3>1
    <3>2. CASE e = proc[p].own
      <4>1. x \in DOMAIN View(p) /\ View(p)[x] = e[x]
        BY <3>2, ViewIs
      <4>2. QED
        BY <1>4, <4>1
    <3>3. CASE \E q \in Procs : q # p /\ e = proc[q].own
      BY <1>5, <3>3
    <3>4. QED
      BY <3>1, <3>2, <3>3, SourcesAre
  <2>2. QED
    BY <1>2, <2>1 DEF Fits
<1> DEFINE rows == [x \in {k} |-> r]
<1>8. DOMAIN rows = {k} /\ rows[k] = r
  OBVIOUS
<1>9. Wrote(p, rows)
  BY <1>1
<1> HIDE DEF rows
<1>10. Fits(k, r, k, r)
  BY DEF Fits, Same
<1>11. NamesInv'
  BY <1>7, <1>8, <1>9, <1>10, NamesGrow
<1>12. QED
  BY <1>2, <1>11

(* Versions that are not new.                                              *)
LEMMA NamesShrink ==
  ASSUME NamesInv,
         \A d \in Sources' : \A k \in DOMAIN d : \E e \in Sources : k \in DOMAIN e /\ d[k] = e[k]
  PROVE  NamesInv'
<1>1. ASSUME NEW d \in Sources', NEW e \in Sources', NEW k \in DOMAIN d, NEW x \in DOMAIN e
      PROVE  Fits(k, d[k], x, e[x])
  <2>1. PICK f \in Sources : k \in DOMAIN f /\ d[k] = f[k]
    OBVIOUS
  <2>2. PICK g \in Sources : x \in DOMAIN g /\ e[x] = g[x]
    OBVIOUS
  <2>3. QED
    BY <2>1, <2>2 DEF NamesInv, Agree
<1>2. QED
  BY <1>1 DEF NamesInv, Agree

LEMMA NamesNext ==
  ASSUME TypeInv, NamesInv, [Next]_vars
  PROVE  NamesInv'
<1>1. CASE UNCHANGED vars
  BY <1>1 DEF vars, NamesInv, Sources
<1>2. ASSUME NEW p \in Procs, \A q \in Procs : q # p => proc'[q] = proc[q],
             \A k \in DOMAIN db' : \E e \in Sources : k \in DOMAIN e /\ db'[k] = e[k],
             DOMAIN proc'[p].own = {} \/ proc'[p].own = proc[p].own
      PROVE  NamesInv'
  <2>1. ASSUME NEW d \in Sources', NEW k \in DOMAIN d PROVE \E e \in Sources : k \in DOMAIN e /\ d[k] = e[k]
    <3>1. d = db' \/ d = proc'[p].own \/ \E q \in Procs : q # p /\ d = proc[q].own
      BY <1>2 DEF Sources
    <3>2. QED
      BY <1>2, <3>1, SourcesAre
  <2>2. QED
    BY <2>1, NamesShrink
<1>3. \A k \in DOMAIN db : \E e \in Sources : k \in DOMAIN e /\ db[k] = e[k]
  BY SourcesAre
<1>4. ASSUME NEW p \in Procs, Work(p) \/ GiveUp(p) PROVE NamesInv'
  <2>1. CASE Start(p)
    <3>1. db' = db /\ proc'[p].own = <<>> /\ \A q \in Procs : q # p => proc'[q] = proc[q]
      BY <2>1, StartIs
    <3>2. DOMAIN proc'[p].own = {}
      BY <3>1
    <3>3. QED
      BY <1>2, <1>3, <3>1, <3>2
  <2>2. CASE ExpandRefund(p) \/ PayUser(p) \/ FindPages(p) \/ LookAtLast(p) \/ ExtractTable(p)
    BY <1>2, <1>3, <2>2, ReadingIs
  <2>3. CASE Execute(p)
    <3>1. /\ Running(p) /\ proc[p].todo # <<>> /\ Blockers(p) = {} /\ Lawful(p) /\ db' = db
          /\ \/ \E rows : Changes(p, rows) \/ Replaces(p, rows)
             \/ /\ Step(p).op \in {"insert", "record"} /\ \E k : Adds(p, k)
                /\ proc[p].gone = {}
             \/ DeleteRows(p)
      BY <2>3, StatementIs
    <3>2. CASE DeleteRows(p)
      BY <1>2, <1>3, <3>1, <3>2, DeleteIs
    <3>3. QED
      BY <3>1, <3>2, NamesChanged, NamesAdded
  <2>4. CASE Refused(p) \/ GiveUp(p)
    <3>1. RollBack(p) /\ db' = db
      BY <2>4 DEF Refused, GiveUp
    <3>2. QED
      BY <1>2, <1>3, <3>1, RollBackIs
  <2>5. CASE CommitWork(p)
    <3>1. /\ db' = View(p) /\ DOMAIN proc'[p].own = {}
          /\ \A q \in Procs : q # p => proc'[q] = proc[q]
      BY <2>5, CommitIs
    <3>2. \A k \in DOMAIN View(p) : \E e \in Sources : k \in DOMAIN e /\ View(p)[k] = e[k]
      BY ViewIs, SourcesAre
    <3>3. QED
      BY <1>2, <3>1, <3>2
  <2>6. QED
    BY <1>4, <2>1, <2>2, <2>3, <2>4, <2>5 DEF Work
<1>5. QED
  BY <1>1, <1>4 DEF Next, AllOver

-----------------------------------------------------------------------------
(* What is deleted, and what is referred to.                               *)

GoneHere(p) == proc[p].gone \subseteq DOMAIN db
Unshared(p, q) == conf.engine # "sqlite" => proc[p].gone \cap proc[q].shared = {}
BothBeside == \A p, q \in Procs : q \in beside[p] => p \in beside[q] /\ proc[q].state # "ready"

LEMMA SharedIs ==
  SharedInv <=> /\ \A p \in Procs : GoneHere(p)
                /\ \A p, q \in Procs : p # q => Unshared(p, q)
                /\ BothBeside
BY DEF SharedInv, GoneHere, Unshared, BothBeside

LEMMA SharedInit == ASSUME Init PROVE SharedInv
BY NothingWritten DEF SharedInv

(* A step of p: what has to be shown.                                      *)
LEMMA SharedKept ==
  ASSUME SharedInv, NEW p \in Procs, conf' = conf, \A q \in Procs : q # p => proc'[q] = proc[q],
         GoneHere(p)', \A q \in Procs : q # p => proc[q].gone \subseteq DOMAIN db',
         \A q \in Procs : q # p => Unshared(p, q)' /\ Unshared(q, p)',
         BothBeside'
  PROVE  SharedInv'
<1>1. \A q \in Procs : GoneHere(q)'
  BY DEF GoneHere
<1>2. \A x, y \in Procs : x # y /\ x # p /\ y # p => Unshared(x, y)'
  BY SharedIs DEF Unshared
<1>3. \A x, y \in Procs : x # y => Unshared(x, y)'
  BY <1>2
<1>4. QED
  BY <1>1, <1>3 DEF SharedInv, GoneHere, Unshared, BothBeside

LEMMA SharedNext ==
  ASSUME TypeInv, LockInv, SharedInv, [Next]_vars
  PROVE  SharedInv'
<1>1. CASE UNCHANGED vars
  BY <1>1 DEF vars, SharedInv
<1>2. ASSUME NEW p \in Procs, conf' = conf, db' = db, \A q \in Procs : q # p => proc'[q] = proc[q],
             proc'[p].gone \subseteq proc[p].gone, proc'[p].shared \subseteq proc[p].shared, BothBeside'
      PROVE  SharedInv'
  <2>1. GoneHere(p) /\ \A q \in Procs : GoneHere(q) /\ (q # p => Unshared(p, q) /\ Unshared(q, p))
    BY SharedIs
  <2>2. GoneHere(p)' /\ \A q \in Procs : q # p => proc[q].gone \subseteq DOMAIN db'
    BY <1>2, <2>1 DEF GoneHere
  <2>3. \A q \in Procs : q # p => Unshared(p, q)' /\ Unshared(q, p)'
    BY <1>2, <2>1 DEF Unshared
  <2>4. QED
    BY <1>2, <2>2, <2>3, SharedKept
<1>3. ASSUME beside' = beside, NEW p \in Procs, \A q \in Procs : q # p => proc'[q] = proc[q], proc'[p].state # "ready"
      PROVE  BothBeside'
  BY <1>3 DEF BothBeside, SharedInv
<1>4. ASSUME NEW p \in Procs, Work(p) \/ GiveUp(p) PROVE SharedInv'
  <2>1. CASE Start(p)
    <3>1. /\ conf' = conf /\ db' = db /\ proc'[p].gone = {} /\ proc'[p].shared = {}
          /\ \A q \in Procs : q # p => proc'[q] = proc[q]
          /\ beside' = [q \in Procs |-> IF q = p THEN {x \in Procs : Running(x)}
                                        ELSE IF Running(q) THEN beside[q] \cup {p} ELSE beside[q]]
          /\ ~Running(p) /\ proc[p].state = "ready" /\ proc'[p].state = "running"
      BY <2>1, StartIs DEF Running
    <3>2. ASSUME NEW x \in Procs, NEW y \in Procs, y \in beside'[x] PROVE x \in beside'[y] /\ proc'[y].state # "ready"
      <4>1. p \notin beside[x] /\ (y \in beside[x] => x \in beside[y] /\ proc[y].state # "ready")
        BY <3>1 DEF SharedInv
      <4>2. CASE x = p
        <5>1. Running(y) /\ y # p
          BY <3>1, <3>2, <4>2
        <5>2. QED
          BY <3>1, <4>2, <5>1 DEF Running
      <4>3. CASE x # p /\ y = p
        <5>1. Running(x)
          BY <3>1, <3>2, <4>1, <4>3
        <5>2. QED
          BY <3>1, <4>3, <5>1
      <4>4. CASE x # p /\ y # p
        BY <3>1, <3>2, <4>1, <4>4
      <4>5. QED
        BY <4>2, <4>3, <4>4
    <3>3. BothBeside'
      BY <3>2 DEF BothBeside
    <3>4. QED
      BY <1>2, <3>1, <3>3
  <2>2. CASE ExpandRefund(p) \/ PayUser(p) \/ FindPages(p) \/ LookAtLast(p) \/ ExtractTable(p)
    BY <1>2, <1>3, <2>2, ReadingIs
  <2>3. CASE Execute(p)
    <3>1. /\ conf' = conf /\ db' = db /\ beside' = beside /\ Running(p) /\ proc[p].todo # <<>>
          /\ Blockers(p) = {} /\ Step(p).op \in Writes
          /\ \A q \in Procs : q # p => proc'[q] = proc[q]
          /\ proc'[p].state = "running"
          /\ (\E rows : Wrote(p, rows)) \/ (DeleteRows(p) /\ Step(p).op = "delete" /\ DOMAIN proc[p].own = {})
      BY <2>3, StatementIs DEF Changes, Replaces, Adds
    <3>2. \A q \in Procs : GoneHere(q) /\ (q # p => Unshared(p, q) /\ Unshared(q, p))
      BY SharedIs
    <3>3. CASE \E rows : Wrote(p, rows)
      <4>1. proc'[p].gone = proc[p].gone /\ proc'[p].shared = proc[p].shared \cup RefersTo(p)
        BY <3>3, WroteIs
      <4>2. \A q \in Procs : q # p /\ conf.engine # "sqlite" => RefersTo(p) \cap proc[q].gone = {}
        BY <3>1 DEF Blockers
      <4>3. \A q \in Procs : q # p => Unshared(p, q)' /\ Unshared(q, p)'
        BY <3>1, <3>2, <4>1, <4>2 DEF Unshared
      <4>4. GoneHere(p)' /\ \A q \in Procs : q # p => proc[q].gone \subseteq DOMAIN db'
        BY <3>1, <3>2, <4>1 DEF GoneHere
      <4>5. QED
        BY <1>3, <3>1, <4>3, <4>4, SharedKept
    <3>4. CASE DeleteRows(p) /\ Step(p).op = "delete" /\ DOMAIN proc[p].own = {}
      <4>1. proc'[p].gone = proc[p].gone \cup Touched(p) /\ proc'[p].shared = proc[p].shared
        BY <3>4, DeleteIs
      <4>2. \A q \in Procs : q # p /\ conf.engine # "sqlite" => Touched(p) \cap proc[q].shared = {}
        BY <3>1, <3>4 DEF Blockers
      <4>3. \A q \in Procs : q # p => Unshared(p, q)' /\ Unshared(q, p)'
        BY <3>1, <3>2, <4>1, <4>2 DEF Unshared
      <4>4. Touched(p) \subseteq DOMAIN db
        BY <3>4, ViewIs DEF Touched, Rows
      <4>5. GoneHere(p)' /\ \A q \in Procs : q # p => proc[q].gone \subseteq DOMAIN db'
        BY <3>1, <3>2, <4>1, <4>4 DEF GoneHere
      <4>6. QED
        BY <1>3, <3>1, <4>3, <4>5, SharedKept
    <3>5. QED
      BY <3>1, <3>3, <3>4
  <2>4. CASE Refused(p) \/ GiveUp(p)
    <3>1. RollBack(p) /\ conf' = conf /\ db' = db /\ beside' = beside
      BY <2>4 DEF Refused, GiveUp
    <3>2. QED
      BY <1>2, <1>3, <3>1, RollBackIs
  <2>5. CASE CommitWork(p)
    <3>1. /\ conf' = conf /\ beside' = beside /\ proc'[p].gone = {} /\ proc'[p].shared = {} /\ proc'[p].state # "ready"
          /\ \A q \in Procs : q # p => proc'[q] = proc[q]
      BY <2>5, CommitIs
    <3>2. \A q \in Procs : q # p => proc[q].gone \subseteq DOMAIN db'
      BY <2>5, CommitKeeps, SharedIs DEF GoneHere, Written
    <3>3. GoneHere(p)' /\ \A q \in Procs : q # p => Unshared(p, q)' /\ Unshared(q, p)'
      BY <3>1 DEF GoneHere, Unshared
    <3>4. QED
      BY <1>3, <3>1, <3>2, <3>3, SharedKept
  <2>6. QED
    BY <1>4, <2>1, <2>2, <2>3, <2>4, <2>5 DEF Work
<1>5. QED
  BY <1>1, <1>4 DEF Next, AllOver

-----------------------------------------------------------------------------
(* Who refers to a row, and what a condition selects.                      *)

RefersAsUser(g, x, r)    == g[1] = "users" /\ r.user = g[2] /\ x[1] \in {"userpquota", "groupsmembers", "payments"}
RefersAsPrinter(g, x, r) ==
  g[1] = "printers" /\ \/ r.printer = g[2] /\ x[1] \in {"userpquota", "grouppquota", "printergroupsmembers"}
                       \/ r.group = g[2] /\ x[1] = "printergroupsmembers"
RefersAsGroup(g, x, r)   == g[1] = "groups" /\ r.group = g[2] /\ x[1] \in {"grouppquota", "groupsmembers"}
RefersAsEntry(g, s, x, r) ==
  g[1] = "userpquota" /\ x[1] = "jobhistory" /\ r.user = s.user /\ r.printer = s.printer

LEMMA WhoRefers ==
  ASSUME NEW g \in TableNames \X Nat, NEW s, NEW x, NEW r, NEW n, n \in References(x[1], r), n \in Names(g, s)
  PROVE  RefersAsUser(g, x, r) \/ RefersAsPrinter(g, x, r) \/ RefersAsGroup(g, x, r) \/ RefersAsEntry(g, s, x, r)
<1>1. \A a, b, u, v : <<a, b>> # <<"entry of", u, v>>
  <2>1. \A a, b : Len(<<a, b>>) = 2
    OBVIOUS
  <2>2. \A u, v : Len(<<"entry of", u, v>>) = 3
    OBVIOUS
  <2>3. QED
    BY <2>1, <2>2
<1>2. g = <<g[1], g[2]>>
  OBVIOUS
<1>3. n = g \/ (g[1] = "userpquota" /\ n = <<"entry of", s.user, s.printer>>)
  BY DEF Names
<1>4. \A a, b, c, d : <<a, b>> = <<c, d>> => a = c /\ b = d
  OBVIOUS
<1>5. \A b, c, u, v : <<"entry of", b, c>> = <<"entry of", u, v>> => b = u /\ c = v
  OBVIOUS
<1>6. CASE x[1] = "userpquota"
  <2>1. n = <<"users", r.user>> \/ n = <<"printers", r.printer>>
    BY <1>6 DEF References
  <2>2. n = g
    BY <1>1, <1>3, <2>1
  <2>3. QED
    BY <1>2, <1>4, <1>6, <2>1, <2>2 DEF RefersAsUser, RefersAsPrinter
<1>7. CASE x[1] = "grouppquota"
  <2>1. n = <<"groups", r.group>> \/ n = <<"printers", r.printer>>
    BY <1>7 DEF References
  <2>2. n = g
    BY <1>1, <1>3, <2>1
  <2>3. QED
    BY <1>2, <1>4, <1>7, <2>1, <2>2 DEF RefersAsGroup, RefersAsPrinter
<1>8. CASE x[1] = "groupsmembers"
  <2>1. n = <<"groups", r.group>> \/ n = <<"users", r.user>>
    BY <1>8 DEF References
  <2>2. n = g
    BY <1>1, <1>3, <2>1
  <2>3. QED
    BY <1>2, <1>4, <1>8, <2>1, <2>2 DEF RefersAsGroup, RefersAsUser
<1>9. CASE x[1] = "printergroupsmembers"
  <2>1. n = <<"printers", r.group>> \/ n = <<"printers", r.printer>>
    BY <1>9 DEF References
  <2>2. n = g
    BY <1>1, <1>3, <2>1
  <2>3. QED
    BY <1>2, <1>4, <1>9, <2>1, <2>2 DEF RefersAsPrinter
<1>10. CASE x[1] = "payments"
  <2>1. n = <<"users", r.user>>
    BY <1>10 DEF References
  <2>2. n = g
    BY <1>1, <1>3, <2>1
  <2>3. QED
    BY <1>2, <1>4, <1>10, <2>1, <2>2 DEF RefersAsUser
<1>11. CASE x[1] = "jobhistory"
  <2>1. n = <<"entry of", r.user, r.printer>>
    BY <1>11 DEF References
  <2>2. g[1] = "userpquota" /\ n = <<"entry of", s.user, s.printer>>
    BY <1>1, <1>2, <1>3, <2>1
  <2>3. <<"entry of", r.user, r.printer>> = <<"entry of", s.user, s.printer>>
    BY <2>1, <2>2
  <2>4. r.user = s.user /\ r.printer = s.printer
    BY <1>5, <2>3
  <2>5. QED
    BY <1>11, <2>2, <2>4 DEF RefersAsEntry
<1>12. CASE x[1] \notin {"userpquota", "grouppquota", "groupsmembers", "printergroupsmembers", "payments", "jobhistory"}
  BY <1>12 DEF References
<1>13. QED
  BY <1>6, <1>7, <1>8, <1>9, <1>10, <1>11, <1>12

(* Nobody refers to the members of a group.                                *)
LEMMA MembersAreFree ==
  ASSUME NEW d, NEW g \in TableNames \X Nat, g[1] \in Members
  PROVE  Referring(d, g) = {}
<1>1. ASSUME NEW x \in Referring(d, g) PROVE FALSE
  <2>1. PICK n : n \in References(x[1], d[x]) /\ n \in Names(g, d[g])
    BY DEF Referring
  <2>2. RefersAsUser(g, x, d[x]) \/ RefersAsPrinter(g, x, d[x]) \/ RefersAsGroup(g, x, d[x]) \/ RefersAsEntry(g, d[g], x, d[x])
    BY <2>1, WhoRefers
  <2>3. QED
    BY <2>2 DEF RefersAsUser, RefersAsPrinter, RefersAsGroup, RefersAsEntry, Members
<1>2. QED
  BY <1>1

LEMMA InSelects ==
  ASSUME NEW field, NEW ids, NEW k, NEW r
  PROVE  Selects(In(field, ids), k, r) <=> (IF field = "id" THEN k[2] ELSE r[field]) \in ids
<1> DEFINE w(i) == [f \in {field} |-> i]
           v == IF field = "id" THEN k[2] ELSE r[field]
<1>1. \A i : DOMAIN w(i) = {field} /\ w(i)[field] = i
  OBVIOUS
<1>2. In(field, ids) = {w(i) : i \in ids}
  BY DEF In
<1> HIDE DEF w
<1>3. \A i : (\A f \in DOMAIN w(i) : (IF f = "id" THEN k[2] ELSE r[f]) = w(i)[f]) <=> v = i
  BY <1>1
<1> HIDE DEF v
<1>4. (\E i \in ids : \A f \in DOMAIN w(i) : (IF f = "id" THEN k[2] ELSE r[f]) = w(i)[f]) <=> v \in ids
  BY <1>3
<1>5. QED
  BY <1>2, <1>4 DEF Selects, v

LEMMA EitherSelects ==
  ASSUME NEW A, NEW B, NEW k, NEW r
  PROVE  Selects(A \cup B, k, r) <=> Selects(A, k, r) \/ Selects(B, k, r)
BY DEF Selects

LEMMA PairSelects ==
  ASSUME NEW us, NEW ps, NEW k, NEW r
  PROVE  Selects({[user |-> u, printer |-> p] : u \in us, p \in ps}, k, r) <=> r.user \in us /\ r.printer \in ps
<1> DEFINE w(u, p) == [user |-> u, printer |-> p]
<1>1. \A u, p : DOMAIN w(u, p) = {"user", "printer"} /\ w(u, p)["user"] = u /\ w(u, p)["printer"] = p
  OBVIOUS
<1> HIDE DEF w
<1>2. \A u, p : (\A f \in DOMAIN w(u, p) : (IF f = "id" THEN k[2] ELSE r[f]) = w(u, p)[f])
                <=> r["user"] = u /\ r["printer"] = p
  BY <1>1
<1>3. (\E u \in us, p \in ps : \A f \in DOMAIN w(u, p) : (IF f = "id" THEN k[2] ELSE r[f]) = w(u, p)[f])
      <=> r["user"] \in us /\ r["printer"] \in ps
  BY <1>2
<1>4. Selects({w(u, p) : u \in us, p \in ps}, k, r)
      <=> \E u \in us, p \in ps : \A f \in DOMAIN w(u, p) : (IF f = "id" THEN k[2] ELSE r[f]) = w(u, p)[f]
  BY DEF Selects
<1>5. QED
  BY <1>3, <1>4 DEF w

-----------------------------------------------------------------------------
(* What a process starts with: a command that deletes goes by what refers  *)
(* to what, and one that inserts adds rows that refer to what it found and *)
(* that are not there yet.                                                 *)

LEMMA NothingRefersTo ==
  ASSUME NEW d, NEW g \in TableNames \X Nat, NEW x \in Referring(d, g)
  PROVE  /\ RefersAsUser(g, x, d[x]) \/ RefersAsPrinter(g, x, d[x]) \/ RefersAsGroup(g, x, d[x]) \/ RefersAsEntry(g, d[g], x, d[x])
         /\ g[1] \in {"users", "printers", "groups", "userpquota"}
<1>1. PICK n : n \in References(x[1], d[x]) /\ n \in Names(g, d[g])
  BY DEF Referring
<1>2. RefersAsUser(g, x, d[x]) \/ RefersAsPrinter(g, x, d[x]) \/ RefersAsGroup(g, x, d[x]) \/ RefersAsEntry(g, d[g], x, d[x])
  BY <1>1, WhoRefers
<1>3. QED
  BY <1>2 DEF RefersAsUser, RefersAsPrinter, RefersAsGroup, RefersAsEntry

LEMMA UsersAreOrdered ==
  ASSUME NEW d, Tidy(d), NEW ids
  PROVE  Ordered(DeleteUsers(ids), d)
<1> DEFINE t == DeleteUsers(ids)
<1>1. /\ Len(t) = 5
      /\ t[1] = Delete("payments", In("user", ids)) /\ t[2] = Delete("groupsmembers", In("user", ids))
      /\ t[3] = Delete("jobhistory", In("user", ids)) /\ t[4] = Delete("userpquota", In("user", ids))
      /\ t[5] = Delete("users", In("id", ids))
  BY DEF DeleteUsers
<1> HIDE DEF t
<1>2. \A k, r : /\ Takes(t[1], k, r) <=> k[1] = "payments" /\ r["user"] \in ids
                /\ Takes(t[2], k, r) <=> k[1] = "groupsmembers" /\ r["user"] \in ids
                /\ Takes(t[3], k, r) <=> k[1] = "jobhistory" /\ r["user"] \in ids
                /\ Takes(t[4], k, r) <=> k[1] = "userpquota" /\ r["user"] \in ids
                /\ Takes(t[5], k, r) <=> k[1] = "users" /\ k[2] \in ids
  BY <1>1, InSelects DEF Takes, Delete
<1>3. ASSUME NEW j \in 1 .. 5, NEW g \in DOMAIN d, Takes(t[j], g, d[g]), NEW x \in Referring(d, g)
      PROVE  \E i \in 1 .. j : Takes(t[i], x, d[x])
  <2>1. g \in TableNames \X Nat
    BY DEF Tidy
  <2>2. /\ RefersAsUser(g, x, d[x]) \/ RefersAsPrinter(g, x, d[x]) \/ RefersAsGroup(g, x, d[x]) \/ RefersAsEntry(g, d[g], x, d[x])
        /\ g[1] \in {"users", "printers", "groups", "userpquota"}
    BY <2>1, NothingRefersTo
  <2>3. j = 4 \/ j = 5
    BY <1>2, <1>3, <2>2
  <2>4. CASE j = 4
    <3>1. x[1] = "jobhistory" /\ d[x].user = d[g].user /\ d[g].user \in ids
      BY <1>2, <1>3, <2>2, <2>4 DEF RefersAsUser, RefersAsPrinter, RefersAsGroup, RefersAsEntry
    <3>2. Takes(t[3], x, d[x])
      BY <1>2, <3>1
    <3>3. QED
      BY <2>4, <3>2
  <2>5. CASE j = 5
    <3>1. x[1] \in {"userpquota", "groupsmembers", "payments"} /\ d[x].user \in ids
      BY <1>2, <1>3, <2>2, <2>5 DEF RefersAsUser, RefersAsPrinter, RefersAsGroup, RefersAsEntry
    <3>2. Takes(t[1], x, d[x]) \/ Takes(t[2], x, d[x]) \/ Takes(t[4], x, d[x])
      BY <1>2, <3>1
    <3>3. QED
      BY <2>5, <3>2
  <2>6. QED
    BY <2>3, <2>4, <2>5
<1>4. QED
  BY <1>1, <1>3 DEF Ordered, t

LEMMA PrintersAreOrdered ==
  ASSUME NEW d, Tidy(d), NEW ids
  PROVE  Ordered(DeletePrinters(ids), d)
<1> DEFINE t == DeletePrinters(ids)
<1>1. /\ Len(t) = 5
      /\ t[1] = Delete("printergroupsmembers", In("group", ids) \cup In("printer", ids))
      /\ t[2] = Delete("jobhistory", In("printer", ids)) /\ t[3] = Delete("grouppquota", In("printer", ids))
      /\ t[4] = Delete("userpquota", In("printer", ids)) /\ t[5] = Delete("printers", In("id", ids))
  BY DEF DeletePrinters
<1> HIDE DEF t
<1>2. \A k, r : /\ Takes(t[1], k, r) <=> k[1] = "printergroupsmembers" /\ (r["group"] \in ids \/ r["printer"] \in ids)
                /\ Takes(t[2], k, r) <=> k[1] = "jobhistory" /\ r["printer"] \in ids
                /\ Takes(t[3], k, r) <=> k[1] = "grouppquota" /\ r["printer"] \in ids
                /\ Takes(t[4], k, r) <=> k[1] = "userpquota" /\ r["printer"] \in ids
                /\ Takes(t[5], k, r) <=> k[1] = "printers" /\ k[2] \in ids
  <2>1. \A k, r : /\ Selects(In("group", ids) \cup In("printer", ids), k, r) <=> r["group"] \in ids \/ r["printer"] \in ids
                  /\ Selects(In("printer", ids), k, r) <=> r["printer"] \in ids
                  /\ Selects(In("id", ids), k, r) <=> k[2] \in ids
    BY InSelects, EitherSelects
  <2>2. /\ t[1].op = "delete" /\ t[1].table = "printergroupsmembers" /\ t[1].wheres = In("group", ids) \cup In("printer", ids)
        /\ t[2].op = "delete" /\ t[2].table = "jobhistory" /\ t[2].wheres = In("printer", ids)
        /\ t[3].op = "delete" /\ t[3].table = "grouppquota" /\ t[3].wheres = In("printer", ids)
        /\ t[4].op = "delete" /\ t[4].table = "userpquota" /\ t[4].wheres = In("printer", ids)
        /\ t[5].op = "delete" /\ t[5].table = "printers" /\ t[5].wheres = In("id", ids)
    BY <1>1 DEF Delete
  <2>3. QED
    BY <2>1, <2>2 DEF Takes
<1>3. ASSUME NEW j \in 1 .. 5, NEW g \in DOMAIN d, Takes(t[j], g, d[g]), NEW x \in Referring(d, g)
      PROVE  \E i \in 1 .. j : Takes(t[i], x, d[x])
  <2>1. g \in TableNames \X Nat
    BY DEF Tidy
  <2>2. /\ RefersAsUser(g, x, d[x]) \/ RefersAsPrinter(g, x, d[x]) \/ RefersAsGroup(g, x, d[x]) \/ RefersAsEntry(g, d[g], x, d[x])
        /\ g[1] \in {"users", "printers", "groups", "userpquota"}
    BY <2>1, NothingRefersTo
  <2>3. j = 4 \/ j = 5
    BY <1>2, <1>3, <2>2
  <2>4. CASE j = 4
    <3>1. x[1] = "jobhistory" /\ d[x].printer = d[g].printer /\ d[g].printer \in ids
      BY <1>2, <1>3, <2>2, <2>4 DEF RefersAsUser, RefersAsPrinter, RefersAsGroup, RefersAsEntry
    <3>2. Takes(t[2], x, d[x])
      BY <1>2, <3>1
    <3>3. QED
      BY <2>4, <3>2
  <2>5. CASE j = 5
    <3>1. \/ x[1] \in {"userpquota", "grouppquota", "printergroupsmembers"} /\ d[x].printer \in ids
          \/ x[1] = "printergroupsmembers" /\ d[x].group \in ids
      BY <1>2, <1>3, <2>2, <2>5 DEF RefersAsUser, RefersAsPrinter, RefersAsGroup, RefersAsEntry
    <3>2. Takes(t[1], x, d[x]) \/ Takes(t[3], x, d[x]) \/ Takes(t[4], x, d[x])
      BY <1>2, <3>1
    <3>3. QED
      BY <2>5, <3>2
  <2>6. QED
    BY <2>3, <2>4, <2>5
<1>4. QED
  BY <1>1, <1>3 DEF Ordered, t

LEMMA GroupsAreOrdered ==
  ASSUME NEW d, Tidy(d), NEW ids
  PROVE  Ordered(DeleteGroups(ids), d)
<1> DEFINE t == DeleteGroups(ids)
<1>1. /\ Len(t) = 3
      /\ t[1] = Delete("groupsmembers", In("group", ids)) /\ t[2] = Delete("grouppquota", In("group", ids))
      /\ t[3] = Delete("groups", In("id", ids))
  BY DEF DeleteGroups
<1> HIDE DEF t
<1>2. \A k, r : /\ Takes(t[1], k, r) <=> k[1] = "groupsmembers" /\ r["group"] \in ids
                /\ Takes(t[2], k, r) <=> k[1] = "grouppquota" /\ r["group"] \in ids
                /\ Takes(t[3], k, r) <=> k[1] = "groups" /\ k[2] \in ids
  BY <1>1, InSelects DEF Takes, Delete
<1>3. ASSUME NEW j \in 1 .. 3, NEW g \in DOMAIN d, Takes(t[j], g, d[g]), NEW x \in Referring(d, g)
      PROVE  \E i \in 1 .. j : Takes(t[i], x, d[x])
  <2>1. g \in TableNames \X Nat
    BY DEF Tidy
  <2>2. /\ RefersAsUser(g, x, d[x]) \/ RefersAsPrinter(g, x, d[x]) \/ RefersAsGroup(g, x, d[x]) \/ RefersAsEntry(g, d[g], x, d[x])
        /\ g[1] \in {"users", "printers", "groups", "userpquota"}
    BY <2>1, NothingRefersTo
  <2>3. j = 3
    BY <1>2, <1>3, <2>2
  <2>4. x[1] \in {"grouppquota", "groupsmembers"} /\ d[x].group \in ids
    BY <1>2, <1>3, <2>2, <2>3 DEF RefersAsUser, RefersAsPrinter, RefersAsGroup, RefersAsEntry
  <2>5. Takes(t[1], x, d[x]) \/ Takes(t[2], x, d[x])
    BY <1>2, <2>4
  <2>6. QED
    BY <2>3, <2>5
<1>4. QED
  BY <1>1, <1>3 DEF Ordered, t

LEMMA QuotasAreOrdered ==
  ASSUME NEW d, Tidy(d), NEW us, NEW ps
  PROVE  Ordered(DeleteUserPQuotas(us, ps), d)
<1> DEFINE t == DeleteUserPQuotas(us, ps)
           both == {[user |-> u, printer |-> p] : u \in us, p \in ps}
<1>1. Len(t) = 2 /\ t[1] = Delete("jobhistory", both) /\ t[2] = Delete("userpquota", both)
  BY DEF DeleteUserPQuotas
<1>2. \A k, r : Selects(both, k, r) <=> r.user \in us /\ r.printer \in ps
  BY PairSelects
<1> HIDE DEF t, both
<1>3. \A k, r : /\ Takes(t[1], k, r) <=> k[1] = "jobhistory" /\ r.user \in us /\ r.printer \in ps
                /\ Takes(t[2], k, r) <=> k[1] = "userpquota" /\ r.user \in us /\ r.printer \in ps
  BY <1>1, <1>2 DEF Takes, Delete
<1>4. ASSUME NEW j \in 1 .. 2, NEW g \in DOMAIN d, Takes(t[j], g, d[g]), NEW x \in Referring(d, g)
      PROVE  \E i \in 1 .. j : Takes(t[i], x, d[x])
  <2>1. g \in TableNames \X Nat
    BY DEF Tidy
  <2>2. /\ RefersAsUser(g, x, d[x]) \/ RefersAsPrinter(g, x, d[x]) \/ RefersAsGroup(g, x, d[x]) \/ RefersAsEntry(g, d[g], x, d[x])
        /\ g[1] \in {"users", "printers", "groups", "userpquota"}
    BY <2>1, NothingRefersTo
  <2>3. j = 2
    BY <1>3, <1>4, <2>2
  <2>4. x[1] = "jobhistory" /\ d[x].user \in us /\ d[x].printer \in ps
    BY <1>3, <1>4, <2>2, <2>3 DEF RefersAsUser, RefersAsPrinter, RefersAsGroup, RefersAsEntry
  <2>5. Takes(t[1], x, d[x])
    BY <1>3, <2>4
  <2>6. QED
    BY <2>3, <2>5
<1>5. QED
  BY <1>1, <1>4 DEF Ordered, t

(* Nobody refers to what these delete.                                     *)
LEMMA FreeIsOrdered ==
  ASSUME NEW d, Tidy(d), NEW t, Len(t) = 1, t[1].table \notin {"users", "printers", "groups", "userpquota"}
  PROVE  Ordered(t, d)
<1>1. ASSUME NEW j \in 1 .. Len(t), NEW g \in DOMAIN d, Takes(t[j], g, d[g]), NEW x \in Referring(d, g) PROVE FALSE
  <2>1. g \in TableNames \X Nat /\ j = 1 /\ g[1] = t[1].table
    BY <1>1 DEF Tidy, Takes
  <2>2. QED
    BY <2>1, NothingRefersTo
<1>2. QED
  BY <1>1 DEF Ordered

LEMMA DeletionIsOrdered ==
  ASSUME NEW p \in Procs, Deletes(p), NEW d, Tidy(d)
  PROVE  Ordered(Script(p, d), d)
<1>1. \/ \E ids : Script(p, d) = DeleteUsers(ids) \/ Script(p, d) = DeletePrinters(ids) \/ Script(p, d) = DeleteGroups(ids)
      \/ \E us, ps : Script(p, d) = DeleteUserPQuotas(us, ps)
      \/ \E gs, ps : Script(p, d) = DeleteGroupPQuotas(gs, ps)
      \/ \E ids : Script(p, d) = DeleteBillingCodes(ids)
  BY DEF Script, Deletes
<1>2. \A gs, ps : Ordered(DeleteGroupPQuotas(gs, ps), d)
  <2> TAKE gs, ps
  <2>1. PICK w : DeleteGroupPQuotas(gs, ps) = <<Delete("grouppquota", w)>>
    BY DEF DeleteGroupPQuotas
  <2>2. QED
    BY <2>1, FreeIsOrdered DEF Delete
<1>3. \A ids : Ordered(DeleteBillingCodes(ids), d)
  <2> TAKE ids
  <2>1. PICK w : DeleteBillingCodes(ids) = <<Delete("billingcodes", w)>>
    BY DEF DeleteBillingCodes
  <2>2. QED
    BY <2>1, FreeIsOrdered DEF Delete
<1>4. QED
  BY <1>1, <1>2, <1>3, UsersAreOrdered, PrintersAreOrdered, GroupsAreOrdered, QuotasAreOrdered

(* What a process that inserts starts with.                                *)
Sound(t, d) == Founded(t, d) /\ NewKeys(t, d)

LEMMA OnlyPaymentsAreSound ==
  ASSUME NEW d, NEW us, \A u \in us : <<"users", u>> \in DOMAIN d, NEW t, t \in Seq(Range(t)),
         \A s \in Range(t) : Pays(s, us)
  PROVE  Sound(t, d)
<1>1. ASSUME NEW s \in Range(t) PROVE Based(s, d)
  <2>1. ASSUME s.op = "insert" PROVE References(s.table, s.row) \subseteq NamesIn(d)
    <3>1. s.table = "payments" /\ s.row.user \in us
      BY <1>1, <2>1 DEF Pays
    <3>2. References("payments", s.row) = {<<"users", s.row.user>>}
      BY DEF References
    <3>3. \A k \in DOMAIN d : k \in NamesIn(d)
      BY DEF NamesIn, Names
    <3>4. QED
      BY <3>1, <3>2, <3>3
  <2>2. QED
    BY <1>1, <2>1 DEF Based, Pays
<1>2. ASSUME NEW i \in 1 .. Len(t) PROVE ~(t[i].op = "insert" /\ t[i].table \in Unique)
  <2>1. t[i] \in Range(t)
    BY ElementOfSeq
  <2>2. QED
    BY <2>1 DEF Pays, Unique
<1>3. QED
  BY <1>1, <1>2 DEF Sound, Founded, NewKeys, Taken, Rivals

LEMMA NothingIsSound == ASSUME NEW d PROVE Sound(<<>>, d)
BY DEF Sound, Founded, NewKeys, Range

LEMMA JobIsSound ==
  ASSUME NEW p, NEW d, NEW us, NEW t, JobSteps(p, d, us, t)
  PROVE  Sound(t, d)
<1>0. PICK u, q, row, l, reset, charge, code : JobParts(p, d, us, t, u, q, row, l, reset, charge, code)
  BY DEF JobSteps
<1>1. /\ q \in Rows(d, "userpquota") /\ d[q].user = row.user /\ d[q].printer = row.printer
      /\ ResetSteps(q, reset) /\ ChargeSteps(d, u, q, row, charge) /\ code \in Seq(CodeSteps(d, row.num))
      /\ t = reset \o (charge \o (<<Record(row, l)>> \o code))
  BY <1>0 DEF JobParts
<1>2. <<"entry of", row.user, row.printer>> \in NamesIn(d)
  <2>1. q \in DOMAIN d /\ q[1] = "userpquota"
    BY <1>1 DEF Rows
  <2>2. <<"entry of", d[q].user, d[q].printer>> \in Names(q, d[q])
    BY <2>1 DEF Names
  <2>3. <<"entry of", d[q].user, d[q].printer>> \in NamesIn(d)
    BY <2>1, <2>2 DEF NamesIn
  <2>4. QED
    BY <1>1, <2>3
<1>3. PICK S : /\ S = JobStepSet(d, u, q, row, l)
               /\ reset \in Seq(S) /\ charge \in Seq(S) /\ <<Record(row, l)>> \in Seq(S) /\ code \in Seq(S)
  BY <1>1, JobPartsAreSeqs
<1>4. ASSUME NEW s \in S PROVE Based(s, d) /\ s.op # "insert"
  <2>1. CASE s = Record(row, l)
    <3>1. s.op = "record" /\ s.row = row
      BY <2>1 DEF Record
    <3>2. QED
      BY <1>2, <3>1 DEF Based
  <2>2. CASE s # Record(row, l)
    <3>1. s.op = "update"
      BY <1>3, <2>2 DEF JobStepSet, LeftAsItWas, Increase, CountAbove, AboveSteps, CodeSteps
    <3>2. QED
      BY <3>1 DEF Based
  <2>3. QED
    BY <2>1, <2>2
<1>5. t \in Seq(S)
  BY <1>1, <1>3, ConcatProperties
<1>6. t \in Seq(Range(t)) /\ \A s \in Range(t) : s \in S
  BY <1>5, OnlyWhatItHas
<1>7. Founded(t, d)
  BY <1>4, <1>6 DEF Founded
<1>8. \A i \in 1 .. Len(t) : t[i].op # "insert"
  BY <1>4, <1>5
<1>9. QED
  BY <1>7, <1>8 DEF Sound, NewKeys, Taken, Rivals

(* Rows that are missing, of which each has a key of its own.              *)
LEMMA EachIsOnce ==
  ASSUME NEW S, IsFiniteSet(S)
  PROVE  /\ SetToSeq(S) \in Seq(S) /\ Len(SetToSeq(S)) \in Nat
         /\ \A i \in 1 .. Len(SetToSeq(S)) : SetToSeq(S)[i] \in S
         /\ \A i, j \in 1 .. Len(SetToSeq(S)) : SetToSeq(S)[i] = SetToSeq(S)[j] => i = j
<1> DEFINE f == SetToSeq(S)
<1>1. f \in Seq(S)
  BY SetToSeqIsSeq
<1>2. DOMAIN f = 1 .. Len(f) /\ Len(f) \in Nat /\ \A i \in 1 .. Len(f) : f[i] \in S
  BY <1>1, ElementOfSeq, LenProperties
<1>3. IsInjective(f)
  <2> DEFINE n == Cardinality(S)
  <2>1. ExistsBijection(1 .. n, S)
    BY FS_CardinalityType
  <2>2. PICK g \in [1 .. n -> S] : IsInjective(g)
    BY <2>1 DEF ExistsBijection, Bijection, Injection
  <2> HIDE DEF n
  <2>3. f = CHOOSE h \in [1 .. n -> S] : IsInjective(h)
    BY DEF SetToSeq, n
  <2> HIDE DEF f
  <2>4. QED
    BY <2>2, <2>3
<1> HIDE DEF f
<1>4. \A i, j \in 1 .. Len(f) : f[i] = f[j] => i = j
  BY <1>2, <1>3 DEF IsInjective
<1>5. QED
  BY <1>1, <1>2, <1>4 DEF f

LEMMA MissingIsSound ==
  ASSUME NEW d, NEW t, NEW rows, IsFiniteSet(rows),
         \A r \in rows : References(t, r) \subseteq NamesIn(d),
         \A r, s \in rows : UniqueKey(t, r) = UniqueKey(t, s) => r = s
  PROVE  Sound(Missing(d, t, rows), d)
<1> DEFINE new == {x \in rows : \A k \in Rows(d, t) : UniqueKey(t, d[k]) # UniqueKey(t, x)}
           f == [r \in new |-> Insert(t, r)]
           S == {Insert(t, r) : r \in new}
           q == SetToSeq(S)
<1>1. IsFiniteSet(S)
  <2>1. IsFiniteSet(new) /\ DOMAIN f = new
    BY FS_Subset
  <2>2. S = {f[r] : r \in new}
    OBVIOUS
  <2> HIDE DEF f, new, S
  <2>3. QED
    BY <2>1, <2>2, ImageIsFinite
<1>2. ASSUME NEW s \in S
      PROVE  /\ s.op = "insert" /\ s.table = t /\ s.row \in rows /\ s = Insert(t, s.row)
             /\ \A k \in Rows(d, t) : UniqueKey(t, d[k]) # UniqueKey(t, s.row)
  <2>1. PICK r \in new : s = Insert(t, r)
    OBVIOUS
  <2>2. s.op = "insert" /\ s.table = t /\ s.row = r
    BY <2>1 DEF Insert
  <2>3. QED
    BY <2>1, <2>2
<1>3. Missing(d, t, rows) = q
  BY DEF Missing
<1> HIDE DEF S, new, f
<1>4. /\ q \in Seq(S) /\ \A i \in 1 .. Len(q) : q[i] \in S
      /\ \A i, j \in 1 .. Len(q) : q[i] = q[j] => i = j
  BY <1>1, EachIsOnce
<1> HIDE DEF q
<1>5. Founded(q, d)
  <2>1. Range(q) \subseteq S
    BY <1>4, OnlyWhatItHas
  <2>2. \A s \in S : Based(s, d)
    BY <1>2 DEF Based
  <2>3. QED
    BY <2>1, <2>2 DEF Founded
<1>6. ASSUME NEW s \in S PROVE ~Taken(s, d)
  <2>1. \A k \in Rows(d, t) : k[1] = t
    BY DEF Rows
  <2>2. QED
    BY <1>2, <2>1 DEF Taken
<1>7. ASSUME NEW i \in 1 .. Len(q), NEW j \in 1 .. Len(q), Rivals(q[i], q[j]) PROVE i = j
  <2>1. UniqueKey(t, q[i].row) = UniqueKey(t, q[j].row)
    BY <1>2, <1>4, <1>7 DEF Rivals
  <2>2. q[i].row = q[j].row
    BY <1>2, <1>4, <2>1
  <2>3. q[i] = q[j]
    BY <1>2, <1>4, <2>2
  <2>4. QED
    BY <1>4, <2>3
<1>8. NewKeys(q, d)
  BY <1>4, <1>6, <1>7 DEF NewKeys
<1>9. QED
  BY <1>3, <1>5, <1>8 DEF Sound

(* Rows that are added are told apart by their keys.                       *)
LEMMA NamedRowsAreSound ==
  ASSUME NEW d, NEW t \in {"users", "printers", "groups", "billingcodes"}, NEW names, IsFiniteSet(names), NEW n \in Int
  PROVE  Sound(Missing(d, t, {NamedRow(x, n) : x \in names}), d)
<1> DEFINE R == {NamedRow(x, n) : x \in names}
<1>1. IsFiniteSet(R)
  BY NamedRowsAreRows
<1>2. \A r : References(t, r) = {} /\ UniqueKey(t, r) = r.name
  BY DEF References, UniqueKey
<1>3. \A x : NamedRow(x, n).name = x
  BY DEF NamedRow, Row
<1>4. \A r \in R : \E x \in names : r = NamedRow(x, n)
  OBVIOUS
<1> HIDE DEF R
<1>5. \A r, s \in R : UniqueKey(t, r) = UniqueKey(t, s) => r = s
  BY <1>2, <1>3, <1>4
<1>6. Sound(Missing(d, t, R), d)
  BY <1>1, <1>2, <1>5, MissingIsSound
<1>7. QED
  BY <1>6 DEF R

LEMMA PairRowsAreSound ==
  ASSUME NEW d, NEW S, NEW T, IsFiniteSet(S), IsFiniteSet(T)
  PROVE  /\ (\A x \in S : <<"users", x>> \in DOMAIN d) /\ (\A y \in T : <<"printers", y>> \in DOMAIN d)
            => Sound(Missing(d, "userpquota", QuotaRows(S, T)), d)
         /\ (\A x \in S : <<"printers", x>> \in DOMAIN d) /\ (\A y \in T : <<"groups", y>> \in DOMAIN d)
            => Sound(Missing(d, "grouppquota", GroupRows(S, T)), d)
         /\ (\A x \in S : <<"printers", x>> \in DOMAIN d) /\ (\A y \in T : <<"printers", y>> \in DOMAIN d)
            => Sound(Missing(d, "printergroupsmembers", GroupRows(S, T)), d)
         /\ (\A x \in S : <<"users", x>> \in DOMAIN d) /\ (\A y \in T : <<"groups", y>> \in DOMAIN d)
            => Sound(Missing(d, "groupsmembers", MemberRows(S, T)), d)
<1>1. \A k \in DOMAIN d : k \in NamesIn(d)
  BY DEF NamesIn, Names
<1>2. \A u, p, g : /\ Row(None, u, p, g, 0, None).user = u /\ Row(None, u, p, g, 0, None).printer = p
                   /\ Row(None, u, p, g, 0, None).group = g /\ PQuotaRow(u, p) = Row(None, u, p, None, 0, None)
  BY DEF Row, PQuotaRow
<1>3. \A a, b, u, v : <<a, b>> = <<u, v>> => a = u /\ b = v
  OBVIOUS
<1>4. \A a, b, c, u, v, w : <<a, b, c>> = <<u, v, w>> => a = u /\ b = v /\ c = w
  OBVIOUS
<1>5. ASSUME \A x \in S : <<"users", x>> \in DOMAIN d, \A y \in T : <<"printers", y>> \in DOMAIN d
      PROVE  Sound(Missing(d, "userpquota", QuotaRows(S, T)), d)
  <2>1. \A r \in QuotaRows(S, T) : \E x \in S, y \in T : r = Row(None, x, y, None, 0, None)
    BY <1>2 DEF QuotaRows
  <2>2. \A r : /\ References("userpquota", r) = {<<"users", r.user>>, <<"printers", r.printer>>}
               /\ UniqueKey("userpquota", r) = <<r.user, r.printer>>
    BY DEF References, UniqueKey
  <2>3. ASSUME NEW r \in QuotaRows(S, T) PROVE References("userpquota", r) \subseteq NamesIn(d)
    BY <1>1, <1>2, <1>5, <2>1, <2>2
  <2>4. ASSUME NEW r \in QuotaRows(S, T), NEW s \in QuotaRows(S, T), UniqueKey("userpquota", r) = UniqueKey("userpquota", s)
        PROVE  r = s
    <3>1. <<r.user, r.printer>> = <<s.user, s.printer>>
      BY <2>2, <2>4
    <3>2. r.user = s.user /\ r.printer = s.printer
      BY <1>3, <3>1
    <3>3. QED
      BY <1>2, <2>1, <3>2
  <2>5. QED
    BY <2>3, <2>4, PairRowsAreRows, MissingIsSound
<1>6. ASSUME NEW t \in {"grouppquota", "printergroupsmembers", "groupsmembers"}, NEW R, IsFiniteSet(R),
             \A r \in R : r = Row(None, r.user, r.printer, r.group, 0, None), \A r \in R : References(t, r) \subseteq NamesIn(d)
      PROVE  Sound(Missing(d, t, R), d)
  <2>1. \A r : UniqueKey(t, r) = <<r.user, r.group, r.printer>>
    BY DEF UniqueKey
  <2>2. ASSUME NEW r \in R, NEW s \in R, UniqueKey(t, r) = UniqueKey(t, s) PROVE r = s
    <3>1. <<r.user, r.group, r.printer>> = <<s.user, s.group, s.printer>>
      BY <2>1, <2>2
    <3>2. r.user = s.user /\ r.printer = s.printer /\ r.group = s.group
      BY <1>4, <3>1
    <3>3. QED
      BY <1>6, <3>2
  <2>3. QED
    BY <1>6, <2>2, MissingIsSound
<1>7. /\ \A r \in GroupRows(S, T) : /\ r = Row(None, r.user, r.printer, r.group, 0, None)
                                    /\ r.printer \in S /\ r.group \in T
      /\ \A r \in MemberRows(S, T) : /\ r = Row(None, r.user, r.printer, r.group, 0, None)
                                     /\ r.user \in S /\ r.group \in T
  BY <1>2 DEF GroupRows, MemberRows
<1>8. /\ \A r : References("grouppquota", r) = {<<"groups", r.group>>, <<"printers", r.printer>>}
      /\ \A r : References("printergroupsmembers", r) = {<<"printers", r.group>>, <<"printers", r.printer>>}
      /\ \A r : References("groupsmembers", r) = {<<"groups", r.group>>, <<"users", r.user>>}
  BY DEF References
<1>9. ASSUME \A x \in S : <<"printers", x>> \in DOMAIN d, \A y \in T : <<"groups", y>> \in DOMAIN d
      PROVE  Sound(Missing(d, "grouppquota", GroupRows(S, T)), d)
  <2>1. \A r \in GroupRows(S, T) : References("grouppquota", r) \subseteq NamesIn(d)
    BY <1>1, <1>7, <1>8, <1>9
  <2>2. QED
    BY <1>6, <1>7, <2>1, PairRowsAreRows
<1>10. ASSUME \A x \in S : <<"printers", x>> \in DOMAIN d, \A y \in T : <<"printers", y>> \in DOMAIN d
       PROVE  Sound(Missing(d, "printergroupsmembers", GroupRows(S, T)), d)
  <2>1. \A r \in GroupRows(S, T) : References("printergroupsmembers", r) \subseteq NamesIn(d)
    BY <1>1, <1>7, <1>8, <1>10
  <2>2. QED
    BY <1>6, <1>7, <2>1, PairRowsAreRows
<1>11. ASSUME \A x \in S : <<"users", x>> \in DOMAIN d, \A y \in T : <<"groups", y>> \in DOMAIN d
       PROVE  Sound(Missing(d, "groupsmembers", MemberRows(S, T)), d)
  <2>1. \A r \in MemberRows(S, T) : References("groupsmembers", r) \subseteq NamesIn(d)
    BY <1>1, <1>7, <1>8, <1>11
  <2>2. QED
    BY <1>6, <1>7, <2>1, PairRowsAreRows
<1>12. QED
  BY <1>5, <1>9, <1>10, <1>11

(* Every process that does not delete.  Members are deleted alone.         *)
LEMMA ScriptIsSound ==
  ASSUME NEW p \in Procs, IsCommand(cmd[p]), ~Deletes(p), NEW d, Tidy(d)
  PROVE  Sound(Script(p, d), d)
<1> DEFINE c == cmd[p]
           us == Ids(d, "users", c.users)
           ps == Ids(d, "printers", c.printers)
           gs == Ids(d, "groups", c.groups)
           pgs == Ids(d, "printers", c.groups)
<1>1. /\ IsFiniteSet(c.users) /\ IsFiniteSet(c.printers) /\ IsFiniteSet(c.groups) /\ c.n \in Int
      /\ IsFiniteSet(us) /\ IsFiniteSet(ps) /\ IsFiniteSet(gs) /\ IsFiniteSet(pgs)
      /\ \A u \in us : <<"users", u>> \in DOMAIN d
      /\ \A x \in ps : <<"printers", x>> \in DOMAIN d
      /\ \A g \in gs : <<"groups", g>> \in DOMAIN d
      /\ \A g \in pgs : <<"printers", g>> \in DOMAIN d
  BY IdsAreThere DEF IsCommand
<1>2. Planned(c.do, Script(p, d))
  BY ScriptIsPlanned
<1>3. c.do \notin Commands => Sound(Script(p, d), d)
  BY NothingIsSound DEF Script, Commands
<1>4. ASSUME c.do = "job" PROVE Sound(Script(p, d), d)
  <2>1. Script(p, d) = PrintJob(d, p, us, ps)
    BY <1>4 DEF Script
  <2> HIDE DEF us, ps
  <2>2. Script(p, d) = <<>> \/ JobSteps(p, d, us, Script(p, d))
    BY <2>1, JobHasSteps
  <2>3. QED
    BY <2>2, JobIsSound, NothingIsSound
<1>5. ASSUME c.do = "refund" PROVE Sound(Script(p, d), d)
  <2>1. Script(p, d) = Refunds(d, us, ps)
    BY <1>5 DEF Script
  <2> HIDE DEF us, ps
  <2>2. \A s \in Range(Script(p, d)) : Pays(s, {})
    BY <2>1, RefundsArePlanned
  <2>3. Script(p, d) \in Seq(Range(Script(p, d)))
    BY <1>2 DEF Planned
  <2>4. QED
    BY <2>2, <2>3, OnlyPaymentsAreSound
<1>6. ASSUME c.do = "pay" PROVE Sound(Script(p, d), d)
  <2>1. Script(p, d) = FlattenSeq([i \in 1 .. Cardinality(us) |-> Pay(d, SetToSeq(us)[i], c.n)])
    BY <1>6 DEF Script
  <2>2. us = Ids(d, "users", c.users)
    OBVIOUS
  <2> HIDE DEF us
  <2>3. \A s \in Range(Script(p, d)) : Pays(s, us)
    BY <1>1, <2>1, <2>2, PayIsPlanned
  <2>4. Script(p, d) \in Seq(Range(Script(p, d)))
    BY <1>2 DEF Planned
  <2>5. QED
    BY <1>1, <2>3, <2>4, OnlyPaymentsAreSound
<1>7. ASSUME c.do \in {"adduser", "addprinter", "addgroup", "addcode"} PROVE Sound(Script(p, d), d)
  <2>1. 0 \in Int
    OBVIOUS
  <2>2. PICK names : names = CASE c.do = "adduser" -> c.users [] c.do = "addprinter" -> c.printers [] OTHER -> c.groups
    OBVIOUS
  <2>3. PICK n : n = IF c.do = "adduser" THEN c.n ELSE 0
    OBVIOUS
  <2>4. PICK t : t = CASE c.do = "adduser" -> "users" [] c.do = "addprinter" -> "printers" [] c.do = "addgroup" -> "groups"
                      [] OTHER -> "billingcodes"
    OBVIOUS
  <2>5. IsFiniteSet(names) /\ n \in Int /\ t \in {"users", "printers", "groups", "billingcodes"}
    BY <1>1, <1>7, <2>1, <2>2, <2>3, <2>4
  <2>6. Sound(Missing(d, t, {NamedRow(x, n) : x \in names}), d)
    BY <2>5, NamedRowsAreSound
  <2>7. CASE c.do = "adduser"
    BY <2>2, <2>3, <2>4, <2>6, <2>7 DEF Script, AddUsers
  <2>8. CASE c.do = "addprinter"
    BY <2>2, <2>3, <2>4, <2>6, <2>8 DEF Script, AddPrinters
  <2>9. CASE c.do = "addgroup"
    BY <2>2, <2>3, <2>4, <2>6, <2>9 DEF Script, AddGroups
  <2>10. CASE c.do = "addcode"
    BY <2>2, <2>3, <2>4, <2>6, <2>10 DEF Script, AddBillingCodes
  <2>11. QED
    BY <1>7, <2>7, <2>8, <2>9, <2>10
<1>8. ASSUME c.do \in {"addquota", "addgquota", "enter", "join"} PROVE Sound(Script(p, d), d)
  <2> HIDE DEF us, ps, gs, pgs
  <2>1. \/ c.do = "addquota" /\ Script(p, d) = Missing(d, "userpquota", QuotaRows(us, ps))
        \/ c.do = "addgquota" /\ Script(p, d) = Missing(d, "grouppquota", GroupRows(ps, gs))
        \/ c.do = "enter" /\ Script(p, d) = Missing(d, "groupsmembers", MemberRows(us, gs))
        \/ c.do = "join" /\ Script(p, d) = Missing(d, "printergroupsmembers", GroupRows(ps, pgs))
    BY <1>8 DEF Script, AddUserPQuotas, AddGroupPQuotas, AddUsersToGroups, WritePrintersToGroups, QuotaRows, GroupRows,
                MemberRows, us, ps, gs, pgs
  <2>2. QED
    BY <1>1, <2>1, PairRowsAreSound
<1>9. ASSUME c.do \in {"quit", "leave", "dump"} PROVE Sound(Script(p, d), d)
  <2>1. \A s \in Range(Script(p, d)) : Pays(s, {})
    <3>1. \A s \in Range(Script(p, d)) : MayDo(c.do, s)
      BY <1>2 DEF Planned
    <3>2. \A s : MayDo(c.do, s) => s.op \notin {"record"} /\ (s.op = "insert" => c.do = "dump")
      BY <1>9 DEF MayDo, Deleting
    <3>3. c.do = "dump" => \A s \in Range(Script(p, d)) : s.op = "extract"
      <4> SUFFICES ASSUME c.do = "dump", NEW s \in Range(Script(p, d)) PROVE s.op = "extract"
        OBVIOUS
      <4>1. Script(p, d) = Dump
        BY DEF Script
      <4>2. PICK i \in DOMAIN Dump : s = Dump[i]
        BY <4>1 DEF Range
      <4>3. QED
        BY <4>2 DEF Dump, Extract
    <3>4. QED
      BY <3>1, <3>2, <3>3 DEF Pays
  <2>2. Script(p, d) \in Seq(Range(Script(p, d)))
    BY <1>2 DEF Planned
  <2>3. QED
    BY <2>1, <2>2, OnlyPaymentsAreSound
<1>10. QED
  BY <1>3, <1>4, <1>5, <1>6, <1>7, <1>8, <1>9 DEF Deletes, Commands

-----------------------------------------------------------------------------
(* Plans.                                                                  *)

PlanOK(p) ==
  Running(p) /\ Peaceful(p) =>
    IF Deletes(p) THEN Ordered(proc[p].todo, View(p)) ELSE Founded(proc[p].todo, View(p))

(* What a process sees after another commits.                              *)
LEMMA CommitView ==
  ASSUME TypeInv, NEW r \in Procs, CommitWork(r), NEW q \in Procs, q # r
  PROVE  /\ DOMAIN View(q)' = DOMAIN proc[q].own \cup (DOMAIN View(r) \ proc[q].gone)
         /\ \A k \in DOMAIN View(q)' :
              View(q)'[k] = IF k \in DOMAIN proc[q].own THEN proc[q].own[k] ELSE View(r)[k]
<1>1. proc'[q] = proc[q] /\ db' = View(r)
  BY CommitIs
<1>2. View(q)' = Over(proc[q].own, Restrict(View(r), DOMAIN View(r) \ proc[q].gone))
  BY <1>1 DEF View
<1> DEFINE v == View(r)
<1>3. View(q)' = Over(proc[q].own, Restrict(v, DOMAIN v \ proc[q].gone))
  BY <1>2
<1> HIDE DEF v
<1>4. /\ DOMAIN View(q)' = DOMAIN proc[q].own \cup (DOMAIN v \ proc[q].gone)
      /\ \A k \in DOMAIN View(q)' : View(q)'[k] = IF k \in DOMAIN proc[q].own THEN proc[q].own[k] ELSE v[k]
  BY <1>3 DEF Over, Restrict
<1>5. QED
  BY <1>4 DEF v

LEMMA NamesStay ==
  ASSUME TypeInv, NamesInv, NEW r \in Procs, CommitWork(r), NEW q \in Procs, q # r,
         NEW y \in DOMAIN View(q), y \notin proc[r].gone
  PROVE  y \in DOMAIN View(q)' /\ Names(y, View(q)'[y]) = Names(y, View(q)[y])
<1>1. CASE y \in DOMAIN proc[q].own
  BY <1>1, CommitView, ViewIs
<1>2. CASE y \notin DOMAIN proc[q].own
  <2>1. y \in DOMAIN db /\ y \notin proc[q].gone
    BY <1>2, ViewIs
  <2>2. y \in DOMAIN View(r)
    BY <2>1, ViewIs
  <2>6. /\ DOMAIN View(q)' = DOMAIN proc[q].own \cup (DOMAIN View(r) \ proc[q].gone)
        /\ \A k \in DOMAIN View(q)' :
             View(q)'[k] = IF k \in DOMAIN proc[q].own THEN proc[q].own[k] ELSE View(r)[k]
    BY CommitView
  <2>3. y \in DOMAIN View(q)' /\ View(q)'[y] = View(r)[y]
    BY <1>2, <2>1, <2>2, <2>6
  <2>4. Fits(y, View(q)[y], y, View(r)[y])
    BY <2>2, ViewsFit
  <2>5. QED
    BY <2>3, <2>4 DEF Fits, Same
<1>3. QED
  BY <1>1, <1>2

LEMMA OtherViews ==
  ASSUME TypeInv, LockInv, NEW r \in Procs, Work(r) \/ GiveUp(r), NEW q \in Procs, q # r
  PROVE  CommitWork(r) \/ View(q)' = View(q)
BY OthersSee DEF View

(* A name that a row refers to is not that of a member.                    *)
LEMMA NoMemberIsNamed ==
  ASSUME NEW y \in TableNames \X Nat, NEW s, NEW t, NEW r, NEW n, n \in References(t, r), n \in Names(y, s)
  PROVE  y[1] \in {"users", "printers", "groups", "userpquota"}
<1> DEFINE x == <<t, 0>>
<1>1. x[1] = t
  OBVIOUS
<1> HIDE DEF x
<1>2. RefersAsUser(y, x, r) \/ RefersAsPrinter(y, x, r) \/ RefersAsGroup(y, x, r) \/ RefersAsEntry(y, s, x, r)
  BY <1>1, WhoRefers
<1>3. QED
  BY <1>2 DEF RefersAsUser, RefersAsPrinter, RefersAsGroup, RefersAsEntry

(* Steps that insert rest on names; a version may lose those of members.   *)
LEMMA StillBased ==
  ASSUME NEW d, Tidy(d), NEW e, NEW s, Based(s, d),
         \A y \in DOMAIN d : y[1] \notin Members => y \in DOMAIN e /\ Names(y, e[y]) = Names(y, d[y])
  PROVE  Based(s, e)
<1>1. ASSUME NEW t, NEW r, NEW n, n \in References(t, r), n \in NamesIn(d) PROVE n \in NamesIn(e)
  <2>1. PICK y \in DOMAIN d : n \in Names(y, d[y])
    BY <1>1 DEF NamesIn
  <2>2. y \in TableNames \X Nat
    BY DEF Tidy
  <2>3. y[1] \notin Members
    BY <1>1, <2>1, <2>2, NoMemberIsNamed DEF Members
  <2>4. QED
    BY <2>1, <2>3 DEF NamesIn
<1>2. ASSUME s.op = "insert" PROVE References(s.table, s.row) \subseteq NamesIn(e)
  BY <1>1, <1>2 DEF Based
<1>3. ASSUME s.op = "record" PROVE <<"entry of", s.row.user, s.row.printer>> \in NamesIn(e)
  <2> DEFINE r == PQuotaRow(s.row.user, s.row.printer)
  <2>1. r.user = s.row.user /\ r.printer = s.row.printer
    BY DEF PQuotaRow, Row
  <2> HIDE DEF r
  <2>2. References("jobhistory", r) = {<<"entry of", s.row.user, s.row.printer>>}
    BY <2>1 DEF References
  <2>3. QED
    BY <1>1, <1>3, <2>2 DEF Based
<1>4. QED
  BY <1>2, <1>3 DEF Based

LEMMA StillOrdered ==
  ASSUME NEW d, NEW e, NEW t, Ordered(t, d), DOMAIN e \subseteq DOMAIN d, \A k \in DOMAIN e : e[k] = d[k]
  PROVE  Ordered(t, e)
<1>1. ASSUME NEW j \in 1 .. Len(t), NEW g \in DOMAIN e, Takes(t[j], g, e[g]), NEW x \in Referring(e, g)
      PROVE  \E i \in 1 .. j : Takes(t[i], x, e[x])
  <2>1. x \in DOMAIN e /\ x \in Referring(d, g) /\ Takes(t[j], g, d[g]) /\ g \in DOMAIN d /\ e[x] = d[x]
    BY <1>1 DEF Referring
  <2>2. QED
    BY <2>1 DEF Ordered
<1>2. QED
  BY <1>1 DEF Ordered

(* A command that deletes has written nothing else.                        *)
LEMMA DeletersOnlyDelete ==
  ASSUME TypeInv, NEW p \in Procs
  PROVE  /\ Deletes(p) => DOMAIN proc[p].own = {}
         /\ ~Deletes(p) => \A k \in proc[p].gone : k[1] \in Members
         /\ proc[p].gone # {} => DOMAIN proc[p].own = {}
<1>1. ProcOK(p) /\ (Deletes(p) <=> cmd[p].do \in Deleters)
  BY DEF TypeInv, Deletes, Deleters
<1>2. QED
  BY <1>1 DEF ProcOK, Deleting

LEMMA PlanOthers ==
  ASSUME TypeInv, LockInv, NamesInv, NEW r \in Procs, Work(r) \/ GiveUp(r), NEW p \in Procs, p # r, PlanOK(p)
  PROVE  PlanOK(p)'
<1> SUFFICES ASSUME Running(p)', Peaceful(p)'
             PROVE  (IF Deletes(p) THEN Ordered(proc[p].todo, View(p)) ELSE Founded(proc[p].todo, View(p)))'
  BY DEF PlanOK
<1>1. /\ proc'[p] = proc[p] /\ cmd' = cmd /\ Running(p)
      /\ \A q \in Procs : Deletes(q)' = Deletes(q)
  BY OthersSee DEF Running, Deletes
<1>2. Peaceful(p)
  <2>1. beside[p] \subseteq beside'[p]
    BY <1>1, BesideGrows
  <2>3. \A q \in Procs : q \in beside[p] => (Deletes(q) <=> Deletes(p))
    BY <1>1, <2>1 DEF Peaceful, Deletes
  <2>4. QED
    BY <2>3 DEF Peaceful
<1>3. IF Deletes(p) THEN Ordered(proc[p].todo, View(p)) ELSE Founded(proc[p].todo, View(p))
  BY <1>1, <1>2 DEF PlanOK
<1>4. CASE View(p)' = View(p)
  <2>1. Deletes(p) => Ordered(proc[p].todo, View(p))'
    BY <1>1, <1>3, <1>4 DEF Ordered, Referring
  <2>2. ~Deletes(p) => Founded(proc[p].todo, View(p))'
    BY <1>1, <1>3, <1>4 DEF Founded, Based, NamesIn
  <2>3. QED
    BY <1>1, <2>1, <2>2
<1>5. CASE CommitWork(r)
  <2>1. Running(r) /\ r \in beside[p] /\ (Deletes(r) <=> Deletes(p))
    <3>1. Running(r)
      BY <1>5, CommitIs
    <3>2. QED
      BY <1>1, <1>2, <3>1 DEF LockInv, Peaceful
  <2>2. PICK d, e : d = View(p) /\ e = View(p)'
    OBVIOUS
  <2>3. PICK t : t = proc[p].todo
    OBVIOUS
  <2>4. CASE Deletes(p)
    <3>1. DOMAIN proc[p].own = {} /\ DOMAIN proc[r].own = {}
      BY <2>1, <2>4, DeletersOnlyDelete
    <3>2. DOMAIN e \subseteq DOMAIN d /\ \A k \in DOMAIN e : e[k] = d[k]
      <4>1. /\ DOMAIN e = DOMAIN View(r) \ proc[p].gone /\ \A k \in DOMAIN e : e[k] = View(r)[k]
        <5>1. /\ DOMAIN View(p)' = DOMAIN proc[p].own \cup (DOMAIN View(r) \ proc[p].gone)
              /\ \A k \in DOMAIN View(p)' :
                   View(p)'[k] = IF k \in DOMAIN proc[p].own THEN proc[p].own[k] ELSE View(r)[k]
          BY <1>5, CommitView
        <5>2. QED
          BY <2>2, <3>1, <5>1
      <4>2. /\ DOMAIN View(r) \subseteq DOMAIN db /\ \A k \in DOMAIN View(r) : View(r)[k] = db[k]
            /\ DOMAIN d = DOMAIN db \ proc[p].gone /\ \A k \in DOMAIN d : d[k] = db[k]
        BY <2>2, <3>1, ViewIs
      <4>3. QED
        BY <4>1, <4>2
    <3>3. Ordered(t, e)
      BY <1>3, <2>2, <2>3, <2>4, <3>2, StillOrdered
    <3>4. Ordered(proc[p].todo, View(p))'
      BY <1>1, <2>2, <2>3, <3>3
    <3>5. QED
      BY <1>1, <2>4, <3>4
  <2>5. CASE ~Deletes(p)
    <3>1. \A y \in DOMAIN d : y[1] \notin Members => y \in DOMAIN e /\ Names(y, e[y]) = Names(y, d[y])
      BY <1>5, <2>1, <2>2, <2>5, DeletersOnlyDelete, NamesStay
    <3>2. Tidy(d)
      BY <2>2, ViewIsTidy
    <3>3. \A s \in Range(t) : Based(s, d)
      BY <1>3, <2>2, <2>3, <2>5 DEF Founded
    <3>4. Founded(t, e)
      BY <3>1, <3>2, <3>3, StillBased DEF Founded
    <3>5. Founded(proc[p].todo, View(p))'
      BY <1>1, <2>2, <2>3, <3>4
    <3>6. QED
      BY <1>1, <2>5, <3>5
  <2>6. QED
    BY <2>4, <2>5
<1>6. QED
  BY <1>4, <1>5, OtherViews

(* What a process sees after its own steps.                                *)
LEMMA ViewNext ==
  ASSUME NEW p
  PROVE  /\ DOMAIN View(p)' = DOMAIN proc'[p].own \cup (DOMAIN db' \ proc'[p].gone)
         /\ \A k \in DOMAIN View(p)' :
              View(p)'[k] = IF k \in DOMAIN proc'[p].own THEN proc'[p].own[k] ELSE db'[k]
BY DEF View, Over, Restrict

LEMMA WroteView ==
  ASSUME TypeInv, NEW p \in Procs, NEW rows, Wrote(p, rows), db' = db
  PROVE  /\ DOMAIN View(p)' = DOMAIN rows \cup DOMAIN View(p)
         /\ \A k \in DOMAIN View(p)' : View(p)'[k] = IF k \in DOMAIN rows THEN rows[k] ELSE View(p)[k]
<1>1. /\ DOMAIN proc'[p].own = DOMAIN rows \cup DOMAIN proc[p].own
      /\ \A k \in DOMAIN proc'[p].own : proc'[p].own[k] = IF k \in DOMAIN rows THEN rows[k] ELSE proc[p].own[k]
      /\ proc'[p].gone = proc[p].gone
  BY WroteIs
<1>2. /\ DOMAIN View(p)' = DOMAIN proc'[p].own \cup (DOMAIN db' \ proc'[p].gone)
      /\ \A k \in DOMAIN View(p)' :
           View(p)'[k] = IF k \in DOMAIN proc'[p].own THEN proc'[p].own[k] ELSE db'[k]
  BY ViewNext
<1>3. /\ DOMAIN View(p) = DOMAIN proc[p].own \cup (DOMAIN db \ proc[p].gone)
      /\ \A k \in DOMAIN View(p) : View(p)[k] = IF k \in DOMAIN proc[p].own THEN proc[p].own[k] ELSE db[k]
  BY ViewIs
<1>4. DOMAIN View(p)' = DOMAIN rows \cup DOMAIN View(p)
  BY <1>1, <1>2, <1>3
<1>5. ASSUME NEW k \in DOMAIN View(p)' PROVE View(p)'[k] = IF k \in DOMAIN rows THEN rows[k] ELSE View(p)[k]
  BY <1>1, <1>2, <1>3, <1>4
<1>6. QED
  BY <1>4, <1>5

LEMMA DeleteView ==
  ASSUME TypeInv, NEW p \in Procs, DeleteRows(p), db' = db, DOMAIN proc[p].own = {}
  PROVE  /\ DOMAIN View(p)' = DOMAIN View(p) \ Touched(p)
         /\ \A k \in DOMAIN View(p)' : View(p)'[k] = View(p)[k]
<1>1. DOMAIN proc'[p].own = {} /\ proc'[p].gone = proc[p].gone \cup Touched(p)
  BY DeleteIs
<1>2. /\ DOMAIN View(p)' = DOMAIN proc'[p].own \cup (DOMAIN db' \ proc'[p].gone)
      /\ \A k \in DOMAIN View(p)' :
           View(p)'[k] = IF k \in DOMAIN proc'[p].own THEN proc'[p].own[k] ELSE db'[k]
  BY ViewNext
<1>3. /\ DOMAIN View(p) = DOMAIN proc[p].own \cup (DOMAIN db \ proc[p].gone)
      /\ \A k \in DOMAIN View(p) : View(p)[k] = IF k \in DOMAIN proc[p].own THEN proc[p].own[k] ELSE db[k]
  BY ViewIs
<1>4. QED
  BY <1>1, <1>2, <1>3

LEMMA ClosedView ==
  ASSUME NEW p \in Procs, DOMAIN proc'[p].own = {}, proc'[p].gone = {}
  PROVE  DOMAIN View(p)' = DOMAIN db' /\ \A k \in DOMAIN View(p)' : View(p)'[k] = db'[k]
BY ViewNext

LEMMA RangeOfBoth ==
  ASSUME NEW t, NEW u, t \in Seq(Range(t)), u \in Seq(Range(u))
  PROVE  Range(t \o u) \subseteq Range(t) \cup Range(u)
<1> DEFINE R == Range(t) \cup Range(u)
<1>1. Range(t) \subseteq R /\ Range(u) \subseteq R
  OBVIOUS
<1> HIDE DEF R
<1>2. t \in Seq(R) /\ u \in Seq(R)
  BY <1>1, SeqMonotonic
<1>3. t \o u \in Seq(R)
  BY <1>2, ConcatProperties
<1>4. Range(t \o u) \subseteq R
  BY <1>3, OnlyWhatItHas
<1>5. QED
  BY <1>4 DEF R

LEMMA FoundedParts ==
  ASSUME NEW t, NEW u, t \in Seq(Range(t)), u \in Seq(Range(u)), NEW d, Founded(t, d), Founded(u, d)
  PROVE  Founded(t \o u, d) /\ t \o u \in Seq(Range(t \o u))
<1>1. Founded(t \o u, d)
  BY RangeOfBoth DEF Founded
<1> DEFINE R == Range(t) \cup Range(u)
<1>2. Range(t) \subseteq R /\ Range(u) \subseteq R
  OBVIOUS
<1> HIDE DEF R
<1>3. t \in Seq(R) /\ u \in Seq(R)
  BY <1>2, SeqMonotonic
<1>4. t \o u \in Seq(R)
  BY <1>3, ConcatProperties
<1>5. QED
  BY <1>1, <1>4, OnlyWhatItHas

LEMMA FoundedTail ==
  ASSUME NEW do, NEW t, t # <<>>, Planned(do, t), NEW d, Founded(t, d)
  PROVE  Founded(Tail(t), d) /\ Based(Head(t), d)
BY TailIsPlanned, HeadIsPlanned DEF Founded

LEMMA OneIsFounded ==
  ASSUME NEW s, NEW d, Based(s, d)
  PROVE  Founded(<<s>>, d) /\ <<s>> \in Seq(Range(<<s>>))
<1>1. Range(<<s>>) = {s}
  BY DEF Range
<1>2. <<s>> \in Seq({s})
  OBVIOUS
<1>3. QED
  BY <1>1, <1>2 DEF Founded

(* A refund pays an user that is there.                                    *)
LEMMA RefundIsFounded ==
  ASSUME NEW s, NEW d, NEW us, \A u \in us : <<"users", u>> \in DOMAIN d
  PROVE  Founded(RefundSteps(s, us), d)
<1> DEFINE u == CHOOSE x \in us : TRUE
           a == Increase(<<"users", u>>, s.price)
           b == Insert("payments", Row(None, u, None, None, 0 - s.price, None))
           c == RefundPages(u, s.printer, s.num)
           f == Refunded(s.key)
           e == Commit
<1>1. Based(a, d) /\ Based(c, d) /\ Based(f, d) /\ Based(e, d)
  BY DEF Based, Increase, RefundPages, Refunded, Commit
<1>2. ASSUME us # {} PROVE Based(b, d)
  <2>1. b.op = "insert" /\ b.table = "payments" /\ b.row.user = u
    BY DEF Insert, Row
  <2>2. \A x : References("payments", x) = {<<"users", x.user>>}
    BY DEF References
  <2>3. <<"users", u>> \in NamesIn(d)
    <3>1. u \in us
      BY <1>2
    <3> HIDE DEF u
    <3>2. QED
      BY <3>1 DEF NamesIn, Names
  <2> HIDE DEF b
  <2>4. QED
    BY <2>1, <2>2, <2>3 DEF Based
<1>3. RefundSteps(s, us) = IF us = {} THEN <<f, e>> ELSE <<a, b, c, f, e>>
  BY DEF RefundSteps
<1> HIDE DEF a, b, c, f, e
<1>4. Range(<<f, e>>) = {f, e} /\ Range(<<a, b, c, f, e>>) = {a, b, c, f, e}
  BY DEF Range
<1>5. QED
  BY <1>1, <1>2, <1>3, <1>4 DEF Founded

(* What is left to do when a step is done.                                 *)
LEMMA OrderedTail ==
  ASSUME NEW d, NEW e, NEW do, NEW t, t # <<>>, Planned(do, t), Ordered(t, d), Head(t).op = "delete",
         DOMAIN e \subseteq {k \in DOMAIN d : ~Takes(Head(t), k, d[k])}, \A k \in DOMAIN e : e[k] = d[k]
  PROVE  Ordered(Tail(t), e)
<1>1. /\ Len(t) \in Nat /\ Len(Tail(t)) = Len(t) - 1 /\ Head(t) = t[1]
      /\ \A j \in 1 .. Len(Tail(t)) : Tail(t)[j] = t[j + 1] /\ j + 1 \in 1 .. Len(t)
  BY HeadTailProperties, LenProperties DEF Planned
<1>2. ASSUME NEW j \in 1 .. Len(Tail(t)), NEW g \in DOMAIN e, Takes(Tail(t)[j], g, e[g]), NEW x \in Referring(e, g)
      PROVE  \E i \in 1 .. j : Takes(Tail(t)[i], x, e[x])
  <2>1. x \in DOMAIN e /\ x \in Referring(d, g) /\ Takes(t[j + 1], g, d[g]) /\ g \in DOMAIN d /\ e[x] = d[x]
    BY <1>1, <1>2 DEF Referring
  <2>2. PICK i \in 1 .. j + 1 : Takes(t[i], x, d[x])
    BY <1>1, <2>1 DEF Ordered
  <2>3. i # 1
    BY <1>1, <2>1, <2>2
  <2>4. i - 1 \in 1 .. j /\ i - 1 \in 1 .. Len(Tail(t)) /\ (i - 1) + 1 = i
    BY <1>1, <2>2, <2>3
  <2>5. Tail(t)[i - 1] = t[i]
    BY <1>1, <2>4
  <2>6. QED
    BY <2>1, <2>2, <2>4, <2>5
<1>3. QED
  BY <1>2 DEF Ordered

(* A version that has more names.                                          *)
LEMMA FoundedGrows ==
  ASSUME NEW d, NEW e, NamesIn(d) \subseteq NamesIn(e), NEW t, Founded(t, d)
  PROVE  Founded(t, e)
BY DEF Founded, Based

LEMMA NamesInGrow ==
  ASSUME NEW d, NEW e, DOMAIN d \subseteq DOMAIN e, \A k \in DOMAIN d : Names(k, e[k]) = Names(k, d[k])
  PROVE  NamesIn(d) \subseteq NamesIn(e)
BY DEF NamesIn

(* What a statement leaves of the names, and adds.                         *)
LEMMA StatementNames ==
  ASSUME TypeInv, NEW p \in Procs, db' = db, NEW rows,
         Changes(p, rows) \/ Replaces(p, rows)
  PROVE  /\ DOMAIN View(p)' = DOMAIN View(p)
         /\ \A k \in DOMAIN View(p) : Names(k, View(p)'[k]) = Names(k, View(p)[k])
         /\ \A k \in DOMAIN View(p) : View(p)'[k] = IF k \in DOMAIN rows THEN rows[k] ELSE View(p)[k]
<1>1. /\ Wrote(p, rows) /\ DOMAIN rows \subseteq DOMAIN View(p)
  BY DEF Changes, Replaces
<1>2. /\ DOMAIN View(p)' = DOMAIN rows \cup DOMAIN View(p)
      /\ \A k \in DOMAIN View(p)' : View(p)'[k] = IF k \in DOMAIN rows THEN rows[k] ELSE View(p)[k]
  BY <1>1, WroteView
<1>3. \A k \in DOMAIN rows : Names(k, rows[k]) = Names(k, View(p)[k])
  BY KeptNames DEF Changes, Replaces, Names
<1>4. DOMAIN View(p)' = DOMAIN View(p)
  BY <1>1, <1>2
<1>5. \A k \in DOMAIN View(p) : View(p)'[k] = IF k \in DOMAIN rows THEN rows[k] ELSE View(p)[k]
  BY <1>2, <1>4
<1>6. QED
  BY <1>3, <1>4, <1>5

LEMMA AddedNames ==
  ASSUME TypeInv, NEW p \in Procs, db' = db, NEW k, Adds(p, k)
  PROVE  /\ DOMAIN View(p)' = DOMAIN View(p) \cup {k} /\ View(p)'[k] = NewRow(p)
         /\ \A x \in DOMAIN View(p) : View(p)'[x] = View(p)[x]
<1>1. PICK rows : rows = [x \in {k} |-> NewRow(p)]
  OBVIOUS
<1>2. Wrote(p, rows) /\ DOMAIN rows = {k} /\ rows[k] = NewRow(p) /\ k \notin DOMAIN View(p)
  BY <1>1 DEF Adds
<1>3. /\ DOMAIN View(p)' = DOMAIN rows \cup DOMAIN View(p)
      /\ \A x \in DOMAIN View(p)' : View(p)'[x] = IF x \in DOMAIN rows THEN rows[x] ELSE View(p)[x]
  BY <1>2, WroteView
<1>4. QED
  BY <1>2, <1>3

(* Names only go when rows are deleted.                                    *)
LEMMA NamesInStay ==
  ASSUME TypeInv, NEW p \in Procs, Execute(p)
  PROVE  Step(p).op = "delete" \/ NamesIn(View(p)) \subseteq NamesIn(View(p)')
<1>1. /\ db' = db
      /\ \/ \E rows : Changes(p, rows) \/ Replaces(p, rows)
         \/ \E k : Adds(p, k)
         \/ Step(p).op = "delete"
  BY StatementIs
<1>2. ASSUME NEW rows, Changes(p, rows) \/ Replaces(p, rows) PROVE NamesIn(View(p)) \subseteq NamesIn(View(p)')
  <2>1. /\ DOMAIN View(p)' = DOMAIN View(p)
        /\ \A k \in DOMAIN View(p) : Names(k, View(p)'[k]) = Names(k, View(p)[k])
    BY <1>1, <1>2, StatementNames
  <2>2. QED
    BY <2>1, NamesInGrow
<1>3. ASSUME NEW k, Adds(p, k) PROVE NamesIn(View(p)) \subseteq NamesIn(View(p)')
  <2>1. /\ DOMAIN View(p)' = DOMAIN View(p) \cup {k}
        /\ \A x \in DOMAIN View(p) : View(p)'[x] = View(p)[x]
    BY <1>1, <1>3, AddedNames
  <2>2. QED
    BY <2>1, NamesInGrow
<1>4. QED
  BY <1>1, <1>2, <1>3

(* Members are not named by what commands insert or record.                *)
LEMMA DeletersAreFounded ==
  ASSUME NEW do \in Deleting, NEW t, Planned(do, t), NEW d
  PROVE  Founded(t, d)
<1>1. \A s \in Range(t) : s.op # "insert" /\ s.op # "record"
  BY DEF Planned, MayDo, Deleting, Deleters
<1>2. QED
  BY <1>1 DEF Founded, Based

LEMMA PlanOwn ==
  ASSUME TypeInv, LockInv, NEW p \in Procs, Work(p) \/ GiveUp(p), PlanOK(p)
  PROVE  PlanOK(p)'
<1> SUFFICES ASSUME Running(p)', Peaceful(p)'
             PROVE  (IF Deletes(p) THEN Ordered(proc[p].todo, View(p)) ELSE Founded(proc[p].todo, View(p)))'
  BY DEF PlanOK
<1>0. ProcOK(p) /\ Planned(cmd[p].do, proc[p].todo)
  BY DEF TypeInv, ProcOK
<1>1. ASSUME cmd' = cmd, NEW t, NEW e, t = proc'[p].todo, e = View(p)', IF Deletes(p) THEN Ordered(t, e) ELSE Founded(t, e)
      PROVE  (IF Deletes(p) THEN Ordered(proc[p].todo, View(p)) ELSE Founded(proc[p].todo, View(p)))'
  <2>1. Deletes(p)' = Deletes(p)
    BY <1>1 DEF Deletes
  <2>2. Ordered(proc[p].todo, View(p))' <=> Ordered(t, e)
    BY <1>1 DEF Ordered, Referring
  <2>3. Founded(proc[p].todo, View(p))' <=> Founded(t, e)
    BY <1>1 DEF Founded, Based, NamesIn
  <2>4. QED
    BY <1>1, <2>1, <2>2, <2>3
<1>2. PICK t, e : t = proc'[p].todo /\ e = View(p)'
  OBVIOUS
<1>3. CASE Start(p)
  <2>1. cmd' = cmd /\ db' = db /\ t = Script(p, db) /\ proc'[p].own = <<>> /\ proc'[p].gone = {}
    BY <1>2, <1>3, StartIs
  <2>2. DOMAIN proc'[p].own = {}
    BY <2>1
  <2>3. DOMAIN e = DOMAIN db /\ \A k \in DOMAIN e : e[k] = db[k]
    BY <1>2, <2>1, <2>2, ClosedView
  <2>4. Tidy(db) /\ IsCommand(cmd[p])
    BY DbIsTidy DEF TypeInv
  <2>5. Deletes(p) => Ordered(t, e)
    BY <2>1, <2>3, <2>4, DeletionIsOrdered, StillOrdered
  <2>6. ~Deletes(p) => Founded(t, e)
    <3>1. NamesIn(db) \subseteq NamesIn(e)
      BY <2>3, NamesInGrow
    <3>2. QED
      BY <2>1, <2>4, <3>1, ScriptIsSound, FoundedGrows DEF Sound
  <2>7. QED
    BY <1>1, <1>2, <2>1, <2>5, <2>6
<1>4. ASSUME ~Start(p) PROVE Running(p) /\ Peaceful(p) /\ cmd' = cmd
  <2>1. cmd' = cmd /\ beside' = beside /\ Running(p)
    BY <1>4, OthersSee
  <2>2. QED
    BY <2>1 DEF Peaceful, Deletes
<1>5. ASSUME ~Start(p) PROVE IF Deletes(p) THEN Ordered(proc[p].todo, View(p)) ELSE Founded(proc[p].todo, View(p))
  BY <1>4, <1>5 DEF PlanOK
<1>6. CASE ExpandRefund(p) \/ PayUser(p) \/ FindPages(p) \/ LookAtLast(p) \/ ExtractTable(p)
  <2>1. /\ ~Start(p) /\ Running(p) /\ proc[p].todo # <<>> /\ db' = db
        /\ proc'[p].own = proc[p].own /\ proc'[p].gone = proc[p].gone
    BY <1>6, ReadingIs DEF Start, Running
  <2>2. e = View(p)
    BY <1>2, <2>1 DEF View
  <2>3. MayDo(cmd[p].do, Step(p)) /\ Planned(cmd[p].do, Tail(proc[p].todo)) /\ Step(p) = Head(proc[p].todo)
    BY <2>1, StepMayBeDone DEF Step
  <2>4. ~Deletes(p)
    <3>1. Step(p).op \in {"refund", "payback", "pages", "record", "extract"}
      BY <1>6 DEF ExpandRefund, PayUser, FindPages, LookAtLast, ExtractTable, At
    <3>2. QED
      BY <2>3, <3>1 DEF MayDo, Deletes
  <2>5. Founded(Tail(proc[p].todo), e) /\ Based(Step(p), e)
    BY <1>0, <1>5, <2>1, <2>2, <2>3, <2>4, FoundedTail
  <2>6. CASE ExpandRefund(p)
    <3>1. PICK w : w = ForCode(View(p), Step(p), 0 - Step(p).num)
      OBVIOUS
    <3>2. PICK u : u = (w \o <<PayBack(Step(p))>>) \o Tail(proc[p].todo)
      OBVIOUS
    <3>3. Becomes(p, [proc[p] EXCEPT !.todo = u]) /\ Step(p).op = "refund"
      BY <2>6, <3>1, <3>2 DEF ExpandRefund, At
    <3>4. DOMAIN proc = Procs /\ DOMAIN proc[p] = Fields
      BY <1>0 DEF TypeInv, ProcOK
    <3>5. t = u
      BY <1>2, <3>3, <3>4 DEF Becomes, Fields
    <3>6. w \in Seq(CodeSteps(View(p), 0 - Step(p).num))
      BY <1>0, <3>1, ViewIsTidy, CodesHaveSteps
    <3>7. w \in Seq(Range(w)) /\ Founded(w, e)
      <4>1. \A s \in CodeSteps(View(p), 0 - Step(p).num) : s.op = "update"
        BY DEF CodeSteps, Increase
      <4>2. w \in Seq(Range(w)) /\ \A s \in Range(w) : s.op = "update"
        BY <3>6, <4>1, OnlyWhatItHas
      <4>3. QED
        BY <4>2 DEF Founded, Based
    <3>8. Founded(<<PayBack(Step(p))>>, e) /\ <<PayBack(Step(p))>> \in Seq(Range(<<PayBack(Step(p))>>))
      <4>1. DOMAIN Step(p) = {"op", "key", "user", "printer", "code", "num", "price"}
        BY <2>3, <3>3 DEF MayDo
      <4>2. PICK s : s = PayBack(Step(p))
        OBVIOUS
      <4>3. s.op = "payback"
        BY <4>1, <4>2 DEF PayBack
      <4>4. Based(s, e)
        BY <4>3 DEF Based
      <4>5. QED
        BY <4>2, <4>4, OneIsFounded
    <3>9. Founded(w \o <<PayBack(Step(p))>>, e) /\ w \o <<PayBack(Step(p))>> \in Seq(Range(w \o <<PayBack(Step(p))>>))
      <4>1. PICK v : v = <<PayBack(Step(p))>>
        OBVIOUS
      <4>2. QED
        BY <3>7, <3>8, <4>1, FoundedParts
    <3>10. Founded(t, e)
      <4>1. PICK v : v = w \o <<PayBack(Step(p))>>
        OBVIOUS
      <4>2. QED
        BY <2>3, <2>5, <3>2, <3>5, <3>9, <4>1, FoundedParts DEF Planned
    <3>11. QED
      BY <1>1, <1>2, <1>4, <2>1, <2>4, <3>10
  <2>11. CASE PayUser(p)
    <3>1. PICK us : us = Ids(View(p), "users", {Step(p).user})
      OBVIOUS
    <3>2. PICK u : u = RefundSteps(Step(p), us) \o Tail(proc[p].todo)
      OBVIOUS
    <3>3. Becomes(p, [proc[p] EXCEPT !.todo = u]) /\ Step(p).op = "payback"
      BY <2>11, <3>1, <3>2 DEF PayUser, At
    <3>4. DOMAIN proc = Procs /\ DOMAIN proc[p] = Fields
      BY <1>0 DEF TypeInv, ProcOK
    <3>5. t = u
      BY <1>2, <3>3, <3>4 DEF Becomes, Fields
    <3>6. /\ cmd[p].do = "refund" /\ Step(p).num \in Int /\ Step(p).price \in Int
          /\ Step(p).key[1] = "jobhistory"
      BY <2>3, <3>3 DEF MayDo
    <3>7. \A x \in us : <<"users", x>> \in DOMAIN e
      BY <1>0, <2>2, <3>1, ViewIsTidy, IdsAreThere
    <3>8. Founded(RefundSteps(Step(p), us), e) /\ Planned("refund", RefundSteps(Step(p), us))
      BY <3>6, <3>7, RefundIsFounded, RefundIsPlanned
    <3>9. Founded(t, e)
      BY <2>3, <2>5, <3>2, <3>5, <3>8, FoundedParts DEF Planned
    <3>10. QED
      BY <1>1, <1>2, <1>4, <2>1, <2>4, <3>9
  <2>10. CASE FindPages(p)
    <3>1. PICK w : w = PagesSteps(p)
      OBVIOUS
    <3>2. PICK u : u = w \o Tail(proc[p].todo)
      OBVIOUS
    <3>3. Becomes(p, [proc[p] EXCEPT !.todo = u])
      BY <2>10, <3>1, <3>2 DEF FindPages, PagesSteps
    <3>4. DOMAIN proc = Procs /\ DOMAIN proc[p] = Fields
      BY <1>0 DEF TypeInv, ProcOK
    <3>5. t = u
      BY <1>2, <3>3, <3>4 DEF Becomes, Fields
    <3>6. w \in Seq(Range(w)) /\ \A s \in Range(w) : Based(s, e)
      <4>1. PICK n : n = 0 - Step(p).num
        OBVIOUS
      <4>2. w = <<>> \/ \E k : w = <<Increase(k, n)>>
        BY <3>1, <4>1, PagesAreIncreases
      <4>3. \A x : Based(Increase(x, n), e)
        BY DEF Based, Increase
      <4>4. ASSUME w = <<>> PROVE w \in Seq(Range(w)) /\ \A s \in Range(w) : Based(s, e)
        BY <4>4 DEF Range
      <4>5. ASSUME NEW k, w = <<Increase(k, n)>> PROVE w \in Seq(Range(w)) /\ \A s \in Range(w) : Based(s, e)
        <5>1. PICK a : a = Increase(k, n)
          OBVIOUS
        <5>2. Range(<<a>>) = {a} /\ <<a>> \in Seq({a})
          BY DEF Range
        <5>3. QED
          BY <4>3, <4>5, <5>1, <5>2
      <4>6. QED
        BY <4>2, <4>4, <4>5
    <3>9. Founded(w, e)
      BY <3>6 DEF Founded
    <3>10. Founded(Tail(proc[p].todo), e) /\ Tail(proc[p].todo) \in Seq(Range(Tail(proc[p].todo)))
      BY <2>3, <2>5 DEF Planned
    <3>11. w \in Seq(Range(w))
      BY <3>6
    <3>7. Founded(t, e)
      BY <3>2, <3>5, <3>9, <3>10, <3>11, FoundedParts
    <3>8. QED
      BY <1>1, <1>2, <1>4, <2>1, <2>4, <3>7
  <2>7. CASE LookAtLast(p)
    <3>1. PICK s : s = [Step(p) EXCEPT !.last = LastJob(View(p), Step(p).row.printer)]
      OBVIOUS
    <3>2. Step(p).op = "record" /\ Becomes(p, [proc[p] EXCEPT !.todo = <<s>> \o Tail(proc[p].todo)])
      BY <2>7, <3>1 DEF LookAtLast, At
    <3>3. t = <<s>> \o Tail(proc[p].todo)
      <4>1. DOMAIN proc = Procs /\ DOMAIN proc[p] = Fields
        BY <1>0 DEF TypeInv, ProcOK
      <4>2. PICK u : u = <<s>> \o Tail(proc[p].todo)
        OBVIOUS
      <4>3. QED
        BY <1>2, <3>2, <4>1, <4>2 DEF Becomes, Fields
    <3>4. cmd[p].do = "job" /\ DOMAIN Step(p) = {"op", "row", "last"}
      BY <2>3, <3>2 DEF MayDo
    <3>5. s.op = "record" /\ s.row = Step(p).row
      BY <3>1, <3>2, <3>4
    <3>6. Based(s, e)
      BY <2>5, <3>2, <3>5 DEF Based
    <3>7. Founded(<<s>>, e) /\ <<s>> \in Seq(Range(<<s>>))
      BY <3>6, OneIsFounded
    <3>8. Founded(t, e)
      BY <2>3, <2>5, <3>3, <3>7, FoundedParts DEF Planned
    <3>9. QED
      BY <1>1, <1>2, <1>4, <2>1, <2>4, <3>8
  <2>8. CASE ExtractTable(p)
    <3>1. t = Tail(proc[p].todo)
      <4>1. PICK o : Becomes(p, [proc[p] EXCEPT !.out = o, !.todo = Tail(proc[p].todo)])
        BY <2>8 DEF ExtractTable
      <4>2. DOMAIN proc = Procs /\ DOMAIN proc[p] = Fields
        BY <1>0 DEF TypeInv, ProcOK
      <4>3. QED
        BY <1>2, <4>1, <4>2 DEF Becomes, Fields
    <3>2. QED
      BY <1>1, <1>2, <1>4, <2>1, <2>4, <2>5, <3>1
  <2>9. QED
    BY <1>6, <2>6, <2>7, <2>8, <2>10, <2>11
<1>7. CASE Execute(p)
  <2>1. /\ Running(p) /\ proc[p].todo # <<>> /\ cmd' = cmd /\ db' = db /\ t = Tail(proc[p].todo)
        /\ Step(p).op = "delete" => DeleteRows(p) /\ cmd[p].do \in Deleting /\ DOMAIN proc[p].own = {}
        /\ Step(p).op # "delete" => cmd[p].do \notin Deleting
    BY <1>2, <1>7, StatementIs
  <2>2. ~Start(p)
    BY <2>1 DEF Start, Running
  <2>3. CASE Step(p).op = "delete"
    <3>1. /\ DOMAIN e = DOMAIN View(p) \ Touched(p) /\ \A k \in DOMAIN e : e[k] = View(p)[k]
      BY <1>2, <2>1, <2>3, DeleteView
    <3>2. \A k \in DOMAIN View(p) : Takes(Step(p), k, View(p)[k]) <=> k \in Touched(p)
      BY <2>3 DEF Takes, Touched, Rows
    <3>3. Deletes(p) => Ordered(t, e)
      <4> SUFFICES ASSUME Deletes(p) PROVE Ordered(t, e)
        OBVIOUS
      <4>1. Ordered(proc[p].todo, View(p))
        BY <1>5, <2>2
      <4>2. PICK d : d = View(p)
        OBVIOUS
      <4>3. DOMAIN e \subseteq {k \in DOMAIN d : ~Takes(Head(proc[p].todo), k, d[k])} /\ \A k \in DOMAIN e : e[k] = d[k]
        BY <3>1, <3>2, <4>2 DEF Step
      <4>4. Head(proc[p].todo).op = "delete"
        BY <2>3 DEF Step
      <4>5. QED
        BY <1>0, <2>1, <4>1, <4>2, <4>3, <4>4, OrderedTail
    <3>4. ~Deletes(p) => Founded(t, e)
      BY <1>0, <2>1, <2>3, TailIsPlanned, DeletersAreFounded
    <3>5. QED
      BY <1>1, <1>2, <2>1, <3>3, <3>4
  <2>4. CASE Step(p).op # "delete"
    <3>1. ~Deletes(p)
      BY <2>1, <2>4 DEF Deletes, Deleting, Deleters
    <3>2. Founded(t, View(p))
      BY <1>0, <1>5, <2>1, <2>2, <3>1, FoundedTail
    <3>3. NamesIn(View(p)) \subseteq NamesIn(e)
      BY <1>2, <1>7, <2>4, NamesInStay
    <3>4. Founded(t, e)
      BY <3>2, <3>3, FoundedGrows
    <3>5. QED
      BY <1>1, <1>2, <2>1, <3>1, <3>4
  <2>5. QED
    BY <2>3, <2>4
<1>8. CASE CommitWork(p)
  <2>1. /\ Running(p) /\ db' = View(p) /\ cmd' = cmd /\ DOMAIN proc'[p].own = {} /\ proc'[p].gone = {}
        /\ proc[p].todo # <<>> => t = Tail(proc[p].todo)
        /\ IF proc[p].todo = <<>> THEN proc'[p].state = "done" ELSE Step(p).op = "commit"
    BY <1>2, <1>8, CommitIs
  <2>2. proc[p].todo # <<>> /\ ~Start(p)
    BY <2>1 DEF Running, Start
  <2>3. DOMAIN e = DOMAIN View(p) /\ \A k \in DOMAIN e : e[k] = View(p)[k]
    BY <1>2, <2>1, ClosedView
  <2>4. ~Deletes(p)
    <3>1. MayDo(cmd[p].do, Step(p)) /\ Step(p).op = "commit"
      BY <2>1, <2>2, StepMayBeDone
    <3>2. QED
      BY <3>1 DEF MayDo, Deletes
  <2>5. Founded(t, View(p))
    BY <1>0, <1>5, <2>1, <2>2, <2>4, FoundedTail
  <2>6. NamesIn(View(p)) \subseteq NamesIn(e)
    BY <2>3, NamesInGrow
  <2>7. Founded(t, e)
    BY <2>5, <2>6, FoundedGrows
  <2>8. QED
    BY <1>1, <1>2, <2>1, <2>4, <2>7
<1>9. CASE Refused(p) \/ GiveUp(p)
  <2>1. RollBack(p)
    BY <1>9 DEF Refused, GiveUp
  <2>2. proc'[p].state = "failed"
    BY <2>1, RollBackIs
  <2>3. QED
    BY <2>2 DEF Running
<1>10. QED
  BY <1>3, <1>6, <1>7, <1>8, <1>9 DEF Work

LEMMA PlanNext ==
  ASSUME TypeInv, LockInv, NamesInv, PlanInv, [Next]_vars
  PROVE  PlanInv'
<1>1. PlanInv <=> \A p \in Procs : PlanOK(p)
  BY DEF PlanInv, PlanOK
<1>2. PlanInv' <=> \A p \in Procs : PlanOK(p)'
  BY DEF PlanInv, PlanOK
<1>3. CASE UNCHANGED vars
  <2>1. conf' = conf /\ cmd' = cmd /\ db' = db /\ proc' = proc /\ beside' = beside
    BY <1>3 DEF vars
  <2>2. ASSUME NEW p \in Procs PROVE PlanOK(p)'
    <3>1. PICK t, e : t = proc[p].todo /\ e = View(p)
      OBVIOUS
    <3>2. proc'[p].todo = t /\ View(p)' = e /\ (Deletes(p)' <=> Deletes(p)) /\ (Running(p)' <=> Running(p))
      BY <2>1, <3>1 DEF View, Deletes, Running
    <3>3. Peaceful(p)' <=> Peaceful(p)
      BY <2>1 DEF Peaceful, Deletes
    <3>4. Ordered(proc[p].todo, View(p))' <=> Ordered(t, e)
      BY <3>2 DEF Ordered, Referring
    <3>5. Founded(proc[p].todo, View(p))' <=> Founded(t, e)
      BY <3>2 DEF Founded, Based, NamesIn
    <3>6. PlanOK(p)
      BY <1>1
    <3>7. QED
      BY <3>1, <3>2, <3>3, <3>4, <3>5, <3>6 DEF PlanOK
  <2>3. QED
    BY <1>2, <2>2
<1>4. ASSUME NEW r \in Procs, Work(r) \/ GiveUp(r) PROVE \A p \in Procs : PlanOK(p)'
  BY <1>1, <1>4, PlanOwn, PlanOthers
<1>5. QED
  BY <1>2, <1>3, <1>4 DEF Next, AllOver

LEMMA PlanInit == ASSUME Init PROVE PlanInv
BY NothingWritten DEF PlanInv

-----------------------------------------------------------------------------
(* What is seen is whole.                                                  *)

WholeView(p) == Whole(View(p))
AllHeld(p) == \A k \in DOMAIN proc[p].own : \A n \in References(k[1], proc[p].own[k]) : Held(p, k, n)

(* A name is that of one row.                                              *)
LEMMA NamedOnce ==
  ASSUME NamesInv, NEW p \in Procs, NEW q \in Procs, NEW y \in DOMAIN View(p), NEW z \in DOMAIN View(q),
         NEW n, n \in Names(y, View(p)[y]), n \in Names(z, View(q)[z])
  PROVE  y = z
<1>1. Fits(y, View(p)[y], z, View(q)[z])
  BY ViewsFit
<1>2. QED
  BY <1>1 DEF Fits, Meets

(* A row that is committed and that nobody changes is seen by all.         *)
LEMMA SeenByAll ==
  ASSUME NEW p \in Procs, NEW k \in DOMAIN db, k \notin Written(p)
  PROVE  k \in DOMAIN View(p) /\ View(p)[k] = db[k]
BY ViewIs DEF Written

(* What a process deletes, another sees; but nothing that another's rows   *)
(* refer to, be it that they hold it, or that they refer to it in the rows *)
(* that are committed, or that nobody deletes what can be referred to.     *)
LEMMA NotPulledAway ==
  ASSUME TypeInv, LockInv, NamesInv, SharedInv, conf.enforced \/ Calm,
         NEW p \in Procs, conf.enforced => AllHeld(p), NEW q \in Procs, p # q, Running(p), Running(q), WholeView(q),
         NEW x \in DOMAIN proc[p].own, NEW n, n \in References(x[1], proc[p].own[x]),
         NEW y \in proc[q].gone, n \in Names(y, db[y])
  PROVE  FALSE
<1>1. y \in DOMAIN db /\ y \notin DOMAIN View(q) /\ DOMAIN proc[q].own = {}
  BY DeletersOnlyDelete, ViewIs DEF SharedInv
<1>2. proc[p].gone = {} /\ ~Deletes(p)
  BY DeletersOnlyDelete
<1>3. y \in DOMAIN View(p) /\ Names(y, View(p)[y]) = Names(y, db[y])
  <2>1. y \in DOMAIN View(p)
    BY <1>1, <1>2, ViewIs
  <2>2. Fits(y, View(p)[y], y, db[y])
    BY <1>1, <2>1, ViewFits, SourcesAre
  <2>3. QED
    BY <2>1, <2>2 DEF Fits, Same
<1>4. Written(p) # {} /\ Written(q) # {}
  BY DEF Written
<1>5. conf.engine # "sqlite" /\ Written(p) \cap Written(q) = {}
  BY <1>4 DEF LockInv, Apart
<1>6. CASE conf.enforced
  <2>1. Held(p, x, n)
    BY <1>6 DEF AllHeld
  <2>2. CASE x \in DOMAIN db /\ n \in References(x[1], db[x])
    <3>1. x \in DOMAIN View(q) /\ View(q)[x] = db[x]
      BY <1>5, <2>2, SeenByAll DEF Written
    <3>2. n \in NamesIn(View(q))
      BY <2>2, <3>1 DEF WholeView, Whole
    <3>3. PICK z \in DOMAIN View(q) : n \in Names(z, View(q)[z])
      BY <3>2 DEF NamesIn
    <3>4. y = z
      BY <1>3, <3>3, NamedOnce
    <3>5. QED
      BY <1>1, <3>3, <3>4
  <2>3. CASE \E z \in proc[p].shared \cap DOMAIN View(p) : n \in Names(z, View(p)[z])
    <3>1. PICK z \in proc[p].shared \cap DOMAIN View(p) : n \in Names(z, View(p)[z])
      BY <2>3
    <3>2. y = z
      BY <1>3, <3>1, NamedOnce
    <3>3. QED
      BY <1>5, <3>1, <3>2 DEF SharedInv
  <2>4. QED
    BY <2>1, <2>2, <2>3 DEF Held
<1>7. CASE Calm
  <2>1. q \in beside[p]
    BY DEF LockInv
  <2>2. ~Deletes(q)
    BY <1>2, <1>7, <2>1 DEF Calm, Peaceful
  <2>3. y[1] \in Members
    BY <2>2, DeletersOnlyDelete
  <2>4. y \in TableNames \X Nat
    BY <1>1 DEF TypeInv, IsKey
  <2>5. QED
    BY <2>3, <2>4, NoMemberIsNamed DEF Members
<1>8. QED
  BY <1>6, <1>7

(* A commit leaves what the others see whole.                              *)
LEMMA CommitLeavesWhole ==
  ASSUME TypeInv, LockInv, NamesInv, SharedInv, conf.enforced \/ Calm, HeldInv,
         NEW p \in Procs, CommitWork(p), NEW q \in Procs, q # p, WholeView(p), WholeView(q)
  PROVE  WholeView(q)'
<1>1. PICK v : v = View(q)'
  OBVIOUS
<1>2. /\ DOMAIN v = DOMAIN proc[q].own \cup (DOMAIN View(p) \ proc[q].gone)
      /\ \A k \in DOMAIN v : v[k] = IF k \in DOMAIN proc[q].own THEN proc[q].own[k] ELSE View(p)[k]
  BY <1>1, CommitView
<1>3. Running(p)
  BY CommitIs
<1>4. conf.enforced => AllHeld(p) /\ AllHeld(q)
  BY DEF HeldInv, AllHeld
<1>5. Written(q) # {} => Running(q)
  BY DEF TypeInv, ProcOK, Written, Running
<1>6. \A y \in DOMAIN View(q) : y \notin proc[p].gone => y \in DOMAIN v /\ Names(y, v[y]) = Names(y, View(q)[y])
  BY <1>1, NamesStay
<1>7. \A y \in DOMAIN View(p) : y \notin proc[q].gone => y \in DOMAIN v /\ Names(y, v[y]) = Names(y, View(p)[y])
  <2> SUFFICES ASSUME NEW y \in DOMAIN View(p), y \notin proc[q].gone
               PROVE  y \in DOMAIN v /\ Names(y, v[y]) = Names(y, View(p)[y])
    OBVIOUS
  <2>1. y \in DOMAIN v
    BY <1>2
  <2>2. CASE y \in DOMAIN proc[q].own
    <3>1. Fits(y, View(p)[y], y, proc[q].own[y])
      BY <2>2, ViewFits, SourcesAre
    <3>2. QED
      BY <1>2, <2>1, <2>2, <3>1 DEF Fits, Same
  <2>3. CASE y \notin DOMAIN proc[q].own
    BY <1>2, <2>1, <2>3
  <2>4. QED
    BY <2>2, <2>3
<1>8. ASSUME NEW x \in DOMAIN v, NEW n \in References(x[1], v[x]) PROVE n \in NamesIn(v)
  <2>1. CASE x \in DOMAIN proc[q].own
    <3>1. v[x] = proc[q].own[x] /\ x \in DOMAIN View(q) /\ View(q)[x] = proc[q].own[x]
      BY <1>2, <2>1, ViewIs
    <3>2. PICK y \in DOMAIN View(q) : n \in Names(y, View(q)[y])
      BY <1>8, <3>1 DEF WholeView, Whole, NamesIn
    <3>3. y \notin proc[p].gone
      <4> SUFFICES ASSUME y \in proc[p].gone PROVE FALSE
        OBVIOUS
      <4>1. y \in DOMAIN db
        BY DEF SharedInv
      <4>2. Fits(y, View(q)[y], y, db[y])
        BY <4>1, <3>2, ViewFits, SourcesAre
      <4>3. n \in Names(y, db[y])
        BY <3>2, <4>2 DEF Fits, Same
      <4>4. Running(q)
        BY <1>5, <2>1 DEF Written
      <4>5. n \in References(x[1], proc[q].own[x])
        BY <1>8, <3>1
      <4>6. QED
        BY <1>3, <1>4, <2>1, <4>3, <4>4, <4>5, NotPulledAway
    <3>4. QED
      BY <1>6, <3>2, <3>3 DEF NamesIn
  <2>2. CASE x \notin DOMAIN proc[q].own
    <3>1. x \in DOMAIN View(p) /\ x \notin proc[q].gone /\ v[x] = View(p)[x]
      BY <1>2, <2>2
    <3>2. PICK y \in DOMAIN View(p) : n \in Names(y, View(p)[y])
      BY <1>8, <3>1 DEF WholeView, Whole, NamesIn
    <3>3. y \notin proc[q].gone
      <4> SUFFICES ASSUME y \in proc[q].gone PROVE FALSE
        OBVIOUS
      <4>1. y \in DOMAIN db /\ y \notin DOMAIN View(q)
        BY DeletersOnlyDelete, ViewIs DEF SharedInv
      <4>2. CASE x \in DOMAIN proc[p].own
        <5>1. View(p)[x] = proc[p].own[x]
          BY <3>1, <4>2, ViewIs
        <5>2. Fits(y, View(p)[y], y, db[y])
          BY <4>1, <3>2, ViewFits, SourcesAre
        <5>3. n \in Names(y, db[y])
          BY <3>2, <5>2 DEF Fits, Same
        <5>4. Running(q)
          BY <1>5 DEF Written
        <5>5. n \in References(x[1], proc[p].own[x])
          BY <1>8, <3>1, <5>1
        <5>6. QED
          BY <1>3, <1>4, <4>2, <5>3, <5>4, <5>5, NotPulledAway
      <4>3. CASE x \notin DOMAIN proc[p].own
        <5>1. x \in DOMAIN db /\ View(p)[x] = db[x]
          BY <3>1, <4>3, ViewIs
        <5>2. x \in DOMAIN View(q) /\ View(q)[x] = db[x]
          BY <2>2, <3>1, <5>1, SeenByAll DEF Written
        <5>3. PICK z \in DOMAIN View(q) : n \in Names(z, View(q)[z])
          BY <1>8, <3>1, <5>1, <5>2 DEF WholeView, Whole, NamesIn
        <5>4. y = z
          BY <3>2, <5>3, NamedOnce
        <5>5. QED
          BY <4>1, <5>3, <5>4
      <4>4. QED
        BY <4>2, <4>3
    <3>4. QED
      BY <1>7, <3>2, <3>3 DEF NamesIn
  <2>3. QED
    BY <2>1, <2>2
<1>9. QED
  BY <1>1, <1>8 DEF WholeView, Whole

(* What a new row refers to.                                               *)
LEMMA BasedRefers ==
  ASSUME NEW p \in Procs, Step(p).op \in {"insert", "record"}, NEW d
  PROVE  Based(Step(p), d) <=> References(NewTable(p), NewRow(p)) \subseteq NamesIn(d)
<1>1. CASE Step(p).op = "insert"
  BY <1>1 DEF Based, NewTable, NewRow
<1>2. CASE Step(p).op = "record"
  <2>1. PICK r : r = NewRow(p)
    OBVIOUS
  <2>2. r = Step(p).row
    BY <2>1 DEF NewRow
  <2>3. References("jobhistory", r) = {<<"entry of", r.user, r.printer>>}
    BY DEF References
  <2>4. NewTable(p) = "jobhistory"
    BY <1>2 DEF NewTable
  <2>5. QED
    BY <1>2, <2>1, <2>2, <2>3, <2>4 DEF Based
<1>3. QED
  BY <1>1, <1>2

LEMMA NewRowRefers ==
  ASSUME TypeInv, PlanInv, conf.enforced \/ Calm, NEW p \in Procs, Running(p), proc[p].todo # <<>>,
         Step(p).op = "insert" \/ (Step(p).op = "record" /\ (Anew(p) \/ Touched(p) # {})), Lawful(p)
  PROVE  /\ References(NewTable(p), NewRow(p)) \subseteq NamesIn(View(p))
         /\ conf.enforced => \A n \in References(NewTable(p), NewRow(p)) :
                               \E k \in RefersTo(p) \cap DOMAIN View(p) : n \in Names(k, View(p)[k])
<1>1. CASE conf.enforced
  <2>1. References(NewTable(p), NewRow(p)) \subseteq UNION {Names(k, View(p)[k]) : k \in RefersTo(p)}
    BY <1>1 DEF Lawful
  <2>2. RefersTo(p) \subseteq DOMAIN View(p)
    BY DEF RefersTo
  <2>3. ASSUME NEW n \in References(NewTable(p), NewRow(p))
        PROVE  \E k \in RefersTo(p) \cap DOMAIN View(p) : n \in Names(k, View(p)[k])
    BY <2>1, <2>2
  <2>4. QED
    BY <2>3 DEF NamesIn
<1>2. CASE ~conf.enforced
  <2>1. MayDo(cmd[p].do, Step(p)) /\ Planned(cmd[p].do, proc[p].todo)
    BY StepMayBeDone DEF TypeInv, ProcOK
  <2>2. ~Deletes(p)
    BY <2>1 DEF MayDo, Deletes, Deleting, Deleters
  <2>3. Founded(proc[p].todo, View(p))
    BY <1>2, <2>2 DEF PlanInv, Calm
  <2>4. Based(Step(p), View(p))
    BY <2>1, <2>3, FoundedTail DEF Step
  <2>5. QED
    BY <1>2, <2>4, BasedRefers
<1>3. QED
  BY <1>1, <1>2

LEMMA WholeAlike ==
  ASSUME NEW d, NEW e, Whole(d), DOMAIN e = DOMAIN d, \A k \in DOMAIN e : e[k] = d[k]
  PROVE  Whole(e)
<1>1. NamesIn(d) \subseteq NamesIn(e)
  BY NamesInGrow
<1>2. QED
  BY <1>1 DEF Whole

(* A deletion takes what refers to a row before the row, or with it.       *)
LEMMA DeletionTakesAll ==
  ASSUME TypeInv, PlanInv, NEW p \in Procs, Running(p), proc[p].todo # <<>>, Step(p).op = "delete", Peaceful(p)
  PROVE  \A k \in Touched(p) : Referring(View(p), k) \subseteq Touched(p)
<1>1. MayDo(cmd[p].do, Step(p)) /\ Planned(cmd[p].do, proc[p].todo)
  BY StepMayBeDone DEF TypeInv, ProcOK
<1>2. \A k \in DOMAIN View(p) : k \in Touched(p) <=> Takes(Step(p), k, View(p)[k])
  BY DEF Takes, Touched, Rows
<1>3. Touched(p) \subseteq DOMAIN View(p)
  BY DEF Touched, Rows
<1>4. CASE Deletes(p)
  <2>1. Ordered(proc[p].todo, View(p))
    BY <1>4 DEF PlanInv
  <2>2. Len(proc[p].todo) \in Nat \ {0} /\ Step(p) = proc[p].todo[1]
    BY <1>1, HeadTailProperties, LenProperties, EmptySeq DEF Planned, Step
  <2>3. ASSUME NEW k \in Touched(p), NEW x \in Referring(View(p), k) PROVE x \in Touched(p)
    <3>1. k \in DOMAIN View(p) /\ Takes(Step(p), k, View(p)[k]) /\ 1 \in 1 .. Len(proc[p].todo)
      BY <1>2, <1>3, <2>2
    <3>2. \E i \in 1 .. 1 : Takes(proc[p].todo[i], x, View(p)[x])
      BY <2>1, <2>2, <2>3, <3>1 DEF Ordered
    <3>3. Takes(Step(p), x, View(p)[x])
      BY <2>2, <3>2
    <3>4. x \in DOMAIN View(p)
      BY <2>3 DEF Referring
    <3>5. QED
      BY <1>2, <3>3, <3>4
  <2>4. QED
    BY <2>3
<1>5. CASE ~Deletes(p)
  <2>1. Step(p).table \in Members
    BY <1>1, <1>5 DEF MayDo, Deletes, Deleters
  <2>2. ASSUME NEW k \in Touched(p) PROVE k \in TableNames \X Nat /\ k[1] \in Members
    BY <1>2, <1>3, <2>1, ViewIsTidy DEF Tidy, Takes
  <2>3. QED
    BY <2>2, MembersAreFree
<1>6. QED
  BY <1>4, <1>5

LEMMA DeletedWithWhatRefers ==
  ASSUME TypeInv, PlanInv, conf.enforced \/ Calm, NEW p \in Procs, Running(p), proc[p].todo # <<>>,
         Step(p).op = "delete", Lawful(p)
  PROVE  \A k \in Touched(p) : Referring(View(p), k) \subseteq Touched(p)
<1>1. CASE conf.enforced
  BY <1>1 DEF Lawful
<1>2. CASE ~conf.enforced
  BY <1>2, DeletionTakesAll DEF Calm
<1>3. QED
  BY <1>1, <1>2

LEMMA StatementLeavesWhole ==
  ASSUME TypeInv, PlanInv, conf.enforced \/ Calm, NEW p \in Procs, Execute(p), WholeView(p)
  PROVE  WholeView(p)'
<1>1. /\ Running(p) /\ proc[p].todo # <<>> /\ Lawful(p) /\ db' = db
      /\ \/ Step(p).op = "update" /\ \E rows : Changes(p, rows)
         \/ Step(p).op = "record" /\ ~Anew(p) /\ \E rows : Replaces(p, rows) /\ DOMAIN rows = Touched(p)
         \/ (Step(p).op = "insert" \/ (Step(p).op = "record" /\ Anew(p))) /\ \E k : Adds(p, k)
         \/ Step(p).op = "delete" /\ DeleteRows(p)
      /\ Step(p).op = "delete" => DOMAIN proc[p].own = {}
  BY StatementIs
<1>2. PICK d, e : d = View(p) /\ e = View(p)'
  OBVIOUS
<1>3. Whole(d)
  BY <1>2 DEF WholeView
<1>4. ASSUME NEW rows, Changes(p, rows) PROVE Whole(e)
  <2>1. /\ DOMAIN e = DOMAIN d
        /\ \A k \in DOMAIN d : Names(k, e[k]) = Names(k, d[k])
        /\ \A k \in DOMAIN d : e[k] = IF k \in DOMAIN rows THEN rows[k] ELSE d[k]
    BY <1>1, <1>2, <1>4, StatementNames
  <2>2. NamesIn(d) \subseteq NamesIn(e)
    BY <2>1, NamesInGrow
  <2>3. \A k \in DOMAIN d : References(k[1], e[k]) = References(k[1], d[k])
    <3>1. \A k \in DOMAIN rows : Kept(rows[k], d[k])
      BY <1>2, <1>4 DEF Changes
    <3>2. \A k \in DOMAIN rows : References(k[1], rows[k]) = References(k[1], d[k])
      BY <3>1, KeptNames
    <3>3. QED
      BY <2>1, <3>2
  <2>4. QED
    BY <1>3, <2>1, <2>2, <2>3 DEF Whole
<1>5. ASSUME NEW rows, Step(p).op = "record", Replaces(p, rows), DOMAIN rows = Touched(p) PROVE Whole(e)
  <2>1. /\ DOMAIN e = DOMAIN d
        /\ \A k \in DOMAIN d : Names(k, e[k]) = Names(k, d[k])
        /\ \A k \in DOMAIN d : e[k] = IF k \in DOMAIN rows THEN rows[k] ELSE d[k]
    BY <1>1, <1>2, <1>5, StatementNames
  <2>2. NamesIn(d) \subseteq NamesIn(e)
    BY <2>1, NamesInGrow
  <2>3. \A k \in DOMAIN rows : k[1] = "jobhistory" /\ rows[k] = NewRow(p)
    BY <1>5 DEF Replaces
  <2>4. ASSUME NEW k \in DOMAIN rows PROVE References(k[1], rows[k]) \subseteq NamesIn(d)
    <3>1. References(NewTable(p), NewRow(p)) \subseteq NamesIn(d)
      BY <1>1, <1>2, <1>5, <2>4, NewRowRefers
    <3>2. NewTable(p) = "jobhistory"
      BY <1>5 DEF NewTable
    <3>3. QED
      BY <2>3, <2>4, <3>1, <3>2
  <2>5. ASSUME NEW k \in DOMAIN e PROVE References(k[1], e[k]) \subseteq NamesIn(d)
    BY <1>3, <2>1, <2>4 DEF Whole
  <2>6. QED
    BY <2>2, <2>5 DEF Whole
<1>6. ASSUME NEW k, Step(p).op = "insert" \/ (Step(p).op = "record" /\ Anew(p)), Adds(p, k) PROVE Whole(e)
  <2>1. /\ DOMAIN e = DOMAIN d \cup {k} /\ e[k] = NewRow(p)
        /\ \A x \in DOMAIN d : e[x] = d[x]
    BY <1>1, <1>2, <1>6, AddedNames
  <2>2. NamesIn(d) \subseteq NamesIn(e)
    BY <2>1, NamesInGrow
  <2>3. References(NewTable(p), NewRow(p)) \subseteq NamesIn(d) /\ k[1] = NewTable(p)
    BY <1>1, <1>2, <1>6, NewRowRefers DEF Adds
  <2>4. ASSUME NEW x \in DOMAIN e PROVE References(x[1], e[x]) \subseteq NamesIn(d)
    BY <1>3, <2>1, <2>3 DEF Whole
  <2>5. QED
    BY <2>2, <2>4 DEF Whole
<1>7. ASSUME Step(p).op = "delete", DeleteRows(p) PROVE Whole(e)
  <2>1. DOMAIN e = DOMAIN d \ Touched(p) /\ \A k \in DOMAIN e : e[k] = d[k]
    BY <1>1, <1>2, <1>7, DeleteView
  <2>2. \A k \in Touched(p) : Referring(d, k) \subseteq Touched(p)
    BY <1>1, <1>2, <1>7, DeletedWithWhatRefers
  <2>3. ASSUME NEW x \in DOMAIN e, NEW n \in References(x[1], e[x]) PROVE n \in NamesIn(e)
    <3>1. PICK y \in DOMAIN d : n \in Names(y, d[y])
      BY <1>3, <2>1, <2>3 DEF Whole, NamesIn
    <3>2. y \notin Touched(p)
      BY <2>1, <2>2, <2>3, <3>1 DEF Referring
    <3>3. QED
      BY <2>1, <3>1, <3>2 DEF NamesIn
  <2>4. QED
    BY <2>3 DEF Whole
<1>8. Whole(e)
  BY <1>1, <1>4, <1>5, <1>6, <1>7
<1>9. QED
  BY <1>2, <1>8 DEF WholeView, Whole, NamesIn

(* What a process refers to, it holds, or the committed rows refer to it.  *)
LEMMA StatementHolds ==
  ASSUME TypeInv, PlanInv, NEW p \in Procs, Execute(p), conf.enforced, AllHeld(p)
  PROVE  AllHeld(p)'
<1>1. /\ Running(p) /\ proc[p].todo # <<>> /\ Lawful(p) /\ db' = db
      /\ \/ Step(p).op = "update" /\ \E rows : Changes(p, rows)
         \/ Step(p).op = "record" /\ ~Anew(p) /\ \E rows : Replaces(p, rows) /\ DOMAIN rows = Touched(p)
         \/ (Step(p).op = "insert" \/ (Step(p).op = "record" /\ Anew(p))) /\ \E k : Adds(p, k)
         \/ Step(p).op = "delete" /\ DeleteRows(p)
      /\ Step(p).op = "delete" => DOMAIN proc[p].own = {}
  BY StatementIs
<1>2. PICK e, o, h : e = View(p)' /\ o = proc'[p].own /\ h = proc'[p].shared
  OBVIOUS
<1> DEFINE Holds(k, n) == \/ k \in DOMAIN db /\ n \in References(k[1], db[k])
                          \/ \E y \in h \cap DOMAIN e : n \in Names(y, e[y])
<1>3. AllHeld(p)' <=> \A k \in DOMAIN o : \A n \in References(k[1], o[k]) : Holds(k, n)
  BY <1>1, <1>2 DEF AllHeld, Held
<1>4. ASSUME DOMAIN View(p) \subseteq DOMAIN e, \A x \in DOMAIN View(p) : Names(x, e[x]) = Names(x, View(p)[x]),
             proc[p].shared \subseteq h, NEW k, NEW n, Held(p, k, n)
      PROVE  Holds(k, n)
  BY <1>4 DEF Held
<1>5. ASSUME NEW rows, Wrote(p, rows)
      PROVE  /\ h = proc[p].shared \cup RefersTo(p)
             /\ DOMAIN o = DOMAIN rows \cup DOMAIN proc[p].own
             /\ \A k \in DOMAIN o : o[k] = IF k \in DOMAIN rows THEN rows[k] ELSE proc[p].own[k]
  BY <1>2, <1>5, WroteIs
<1>6. ASSUME NEW k \in DOMAIN View(p), NEW n \in References(k[1], View(p)[k])
      PROVE  Held(p, k, n)
  <2>1. CASE k \in DOMAIN proc[p].own
    BY <1>6, <2>1, ViewIs DEF AllHeld
  <2>2. CASE k \notin DOMAIN proc[p].own
    BY <1>6, <2>2, ViewIs DEF Held
  <2>3. QED
    BY <2>1, <2>2
<1>7. ASSUME NEW rows, Changes(p, rows), NEW k \in DOMAIN o, NEW n \in References(k[1], o[k]) PROVE Holds(k, n)
  <2>1. Wrote(p, rows) /\ DOMAIN rows \subseteq DOMAIN View(p) /\ \A x \in DOMAIN rows : Kept(rows[x], View(p)[x])
    BY <1>7 DEF Changes
  <2>2. /\ DOMAIN e = DOMAIN View(p) /\ \A x \in DOMAIN View(p) : Names(x, e[x]) = Names(x, View(p)[x])
    BY <1>1, <1>2, <1>7, StatementNames
  <2>3. Held(p, k, n)
    <3>1. CASE k \in DOMAIN rows
      <4>1. o[k] = rows[k] /\ k \in DOMAIN View(p) /\ References(k[1], rows[k]) = References(k[1], View(p)[k])
        BY <1>5, <2>1, <3>1, KeptNames
      <4>2. QED
        BY <1>6, <1>7, <4>1
    <3>2. CASE k \notin DOMAIN rows
      <4>1. k \in DOMAIN proc[p].own /\ o[k] = proc[p].own[k]
        BY <1>5, <1>7, <2>1, <3>2
      <4>2. QED
        BY <1>7, <4>1 DEF AllHeld
    <3>3. QED
      BY <3>1, <3>2
  <2>4. proc[p].shared \subseteq h
    BY <1>5, <2>1
  <2>5. QED
    BY <1>4, <2>2, <2>3, <2>4
<1>8. ASSUME NEW rows, Wrote(p, rows), DOMAIN View(p) \subseteq DOMAIN e,
             \A x \in DOMAIN View(p) : Names(x, e[x]) = Names(x, View(p)[x]),
             \A x \in DOMAIN rows : x[1] = NewTable(p) /\ rows[x] = NewRow(p),
             DOMAIN rows # {} => Step(p).op = "insert" \/ (Step(p).op = "record" /\ (Anew(p) \/ Touched(p) # {})),
             NEW k \in DOMAIN o, NEW n \in References(k[1], o[k])
      PROVE  Holds(k, n)
  <2>1. h = proc[p].shared \cup RefersTo(p)
    BY <1>5, <1>8
  <2>2. CASE k \in DOMAIN rows
    <3>1. k[1] = NewTable(p) /\ o[k] = NewRow(p)
      BY <1>5, <1>8, <2>2
    <3>2. PICK y \in RefersTo(p) \cap DOMAIN View(p) : n \in Names(y, View(p)[y])
      <4>1. n \in References(NewTable(p), NewRow(p))
        BY <1>8, <3>1
      <4>2. QED
        BY <1>1, <1>8, <2>2, <4>1, NewRowRefers
    <3>3. y \in h \cap DOMAIN e /\ n \in Names(y, e[y])
      BY <1>8, <2>1, <3>2
    <3>4. QED
      BY <3>3
  <2>3. CASE k \notin DOMAIN rows
    <3>1. k \in DOMAIN proc[p].own /\ o[k] = proc[p].own[k]
      BY <1>5, <1>8, <2>3
    <3>2. Held(p, k, n)
      BY <1>8, <3>1 DEF AllHeld
    <3>3. QED
      BY <1>4, <1>8, <2>1, <3>2
  <2>4. QED
    BY <2>2, <2>3
<1>9. ASSUME NEW rows, Step(p).op = "record", ~Anew(p), Replaces(p, rows), DOMAIN rows = Touched(p),
             NEW k \in DOMAIN o, NEW n \in References(k[1], o[k])
      PROVE  Holds(k, n)
  <2>1. /\ DOMAIN e = DOMAIN View(p) /\ \A x \in DOMAIN View(p) : Names(x, e[x]) = Names(x, View(p)[x])
    BY <1>1, <1>2, <1>9, StatementNames
  <2>2. Wrote(p, rows) /\ \A x \in DOMAIN rows : x[1] = NewTable(p) /\ rows[x] = NewRow(p)
    BY <1>9 DEF Replaces, NewTable
  <2> HIDE DEF Holds
  <2>3. QED
    BY <1>8, <1>9, <2>1, <2>2
<1>10. ASSUME NEW x, Adds(p, x), Step(p).op = "insert" \/ (Step(p).op = "record" /\ Anew(p)),
              NEW k \in DOMAIN o, NEW n \in References(k[1], o[k])
       PROVE  Holds(k, n)
  <2>1. /\ DOMAIN e = DOMAIN View(p) \cup {x}
        /\ \A y \in DOMAIN View(p) : e[y] = View(p)[y]
    BY <1>1, <1>2, <1>10, AddedNames
  <2>2. PICK rows : rows = [y \in {x} |-> NewRow(p)]
    OBVIOUS
  <2>3. Wrote(p, rows) /\ \A y \in DOMAIN rows : y[1] = NewTable(p) /\ rows[y] = NewRow(p)
    BY <1>10, <2>2 DEF Adds
  <2>4. /\ DOMAIN View(p) \subseteq DOMAIN e /\ \A y \in DOMAIN View(p) : Names(y, e[y]) = Names(y, View(p)[y])
    BY <2>1
  <2> HIDE DEF Holds
  <2>5. QED
    BY <1>8, <1>10, <2>3, <2>4
<1>11. CASE DeleteRows(p)
  <2>1. DOMAIN o = {}
    BY <1>2, <1>11, DeleteIs
  <2>2. QED
    BY <1>3, <2>1
<1> HIDE DEF Holds
<1>12. QED
  BY <1>1, <1>3, <1>7, <1>9, <1>10, <1>11

LEMMA HeldAfterCommit ==
  ASSUME TypeInv, LockInv, NamesInv, SharedInv, NEW r \in Procs, CommitWork(r), NEW p \in Procs, p # r, AllHeld(p)
  PROVE  AllHeld(p)'
<1>1. proc'[p] = proc[p] /\ db' = View(r)
  BY CommitIs
<1>2. PICK e : e = View(p)'
  OBVIOUS
<1>3. ASSUME NEW k \in DOMAIN proc[p].own, NEW n \in References(k[1], proc[p].own[k])
      PROVE  \/ k \in DOMAIN View(r) /\ n \in References(k[1], View(r)[k])
             \/ \E y \in proc[p].shared \cap DOMAIN e : n \in Names(y, e[y])
  <2>1. Written(p) # {} /\ k \in Written(p)
    BY DEF Written
  <2>2. CASE k \in DOMAIN db /\ n \in References(k[1], db[k])
    <3>1. k \notin Written(r)
      BY <2>1 DEF LockInv, Apart
    <3>2. QED
      BY <2>2, <3>1, SeenByAll
  <2>3. ASSUME NEW y \in proc[p].shared \cap DOMAIN View(p), n \in Names(y, View(p)[y])
        PROVE  y \in DOMAIN e /\ n \in Names(y, e[y])
    <3>1. y \notin proc[r].gone
      <4>1. CASE conf.engine = "sqlite"
        BY <2>1, <4>1 DEF LockInv, Apart, Written
      <4>2. CASE conf.engine # "sqlite"
        BY <2>3, <4>2 DEF SharedInv
      <4>3. QED
        BY <4>1, <4>2
    <3>2. QED
      BY <1>2, <2>3, <3>1, NamesStay
  <2>4. Held(p, k, n)
    BY DEF AllHeld
  <2>5. QED
    BY <2>2, <2>3, <2>4 DEF Held
<1>4. QED
  BY <1>1, <1>2, <1>3 DEF AllHeld, Held

AllSeen == Whole(db) /\ \A p \in Procs : WholeView(p)
WholeInv == HeldInv /\ (conf.enforced \/ Calm => AllSeen)

LEMMA WholeIs == WholeInv <=> HeldInv /\ SeenInv
BY DEF WholeInv, SeenInv, AllSeen, WholeView

LEMMA WholeInit == ASSUME Init PROVE WholeInv
<1>1. Whole(db)
  BY TablesAssumption DEF Init, IsDatabase, Whole, NamesIn, Orphan
<1>2. ASSUME NEW p \in Procs PROVE WholeView(p)
  <2>1. DOMAIN View(p) = DOMAIN db /\ \A k \in DOMAIN View(p) : View(p)[k] = db[k]
    BY NothingWritten, ViewIs
  <2>2. QED
    BY <1>1, <2>1, WholeAlike DEF WholeView
<1>3. HeldInv
  BY NothingWritten DEF HeldInv
<1>4. QED
  BY <1>1, <1>2, <1>3 DEF WholeInv, AllSeen

(* Who was calm only stays so.                                             *)
LEMMA CalmBefore ==
  ASSUME TypeInv, LockInv, SharedInv, NEW r \in Procs, Work(r) \/ GiveUp(r), Calm'
  PROVE  Calm
<1>1. /\ cmd' = cmd /\ \A q \in Procs : Deletes(q)' = Deletes(q)
  BY OthersSee DEF Deletes
<1>2. \A p, q \in Procs : q \in beside[p] => q \in beside'[p]
  <2>1. CASE Start(r)
    <3>1. /\ proc[r].state = "ready"
          /\ beside' = [q \in Procs |-> IF q = r THEN {x \in Procs : Running(x)}
                                        ELSE IF Running(q) THEN beside[q] \cup {r} ELSE beside[q]]
      BY <2>1, StartIs
    <3>2. \A q \in Procs : q \notin beside[r]
      BY <3>1 DEF SharedInv
    <3>3. QED
      BY <3>1, <3>2
  <2>2. CASE ~Start(r)
    BY <2>2, OthersSee
  <2>3. QED
    BY <2>1, <2>2
<1>3. ASSUME NEW p \in Procs, NEW q \in Procs, q \in beside[p] PROVE Deletes(q) <=> Deletes(p)
  <2>1. Deletes(q)' <=> Deletes(p)'
    BY <1>2, <1>3 DEF Calm, Peaceful
  <2>2. QED
    BY <1>1, <2>1
<1>4. QED
  BY <1>3 DEF Calm, Peaceful

(* The steps of a process, by what becomes of its transaction.             *)
LEMMA StepKinds ==
  ASSUME TypeInv, LockInv, NEW r \in Procs, Work(r) \/ GiveUp(r)
  PROVE  /\ conf' = conf
         /\ \/ CommitWork(r)
            \/ db' = db /\ Execute(r)
            \/ db' = db /\ proc'[r].own = proc[r].own /\ proc'[r].gone = proc[r].gone /\ proc'[r].shared = proc[r].shared
            \/ db' = db /\ DOMAIN proc'[r].own = {} /\ proc'[r].gone = {}
<1>1. CASE Start(r)
  <2>1. proc'[r].own = <<>> /\ proc'[r].gone = {} /\ db' = db /\ conf' = conf
    BY <1>1, StartIs
  <2>2. DOMAIN proc'[r].own = {}
    BY <2>1
  <2>3. QED
    BY <2>1, <2>2
<1>2. CASE ExpandRefund(r) \/ PayUser(r) \/ FindPages(r) \/ LookAtLast(r) \/ ExtractTable(r)
  BY <1>2, ReadingIs
<1>3. CASE Execute(r)
  BY <1>3 DEF Execute
<1>4. CASE Refused(r) \/ GiveUp(r)
  <2>1. RollBack(r) /\ db' = db /\ conf' = conf
    BY <1>4 DEF Refused, GiveUp
  <2>2. QED
    BY <2>1, RollBackIs
<1>5. CASE CommitWork(r)
  BY <1>5, CommitIs
<1>6. QED
  BY <1>1, <1>2, <1>3, <1>4, <1>5 DEF Work

LEMMA HeldAlike ==
  ASSUME NEW p \in Procs, AllHeld(p), proc'[p].own = proc[p].own, proc'[p].gone = proc[p].gone,
         proc'[p].shared = proc[p].shared, db' = db
  PROVE  AllHeld(p)'
<1>1. PICK e : e = View(p)
  OBVIOUS
<1>2. View(p)' = e
  BY <1>1 DEF View
<1>3. QED
  BY <1>1, <1>2 DEF AllHeld, Held

LEMMA HeldNext ==
  ASSUME TypeInv, LockInv, NamesInv, SharedInv, PlanInv, HeldInv, NEW r \in Procs, Work(r) \/ GiveUp(r),
         NEW p \in Procs, conf.enforced
  PROVE  AllHeld(p)'
<1>0. AllHeld(p)
  BY DEF HeldInv, AllHeld
<1>1. CASE p # r
  <2>1. proc'[p] = proc[p] /\ (db' = db \/ CommitWork(r))
    BY <1>1, OthersSee
  <2>2. CASE db' = db
    BY <1>0, <2>1, <2>2, HeldAlike
  <2>3. CASE CommitWork(r)
    BY <1>0, <1>1, <2>3, HeldAfterCommit
  <2>4. QED
    BY <2>1, <2>2, <2>3
<1>2. CASE p = r
  <2>1. CASE Execute(r)
    BY <1>0, <1>2, <2>1, StatementHolds
  <2>2. CASE db' = db /\ proc'[r].own = proc[r].own /\ proc'[r].gone = proc[r].gone /\ proc'[r].shared = proc[r].shared
    BY <1>0, <1>2, <2>2, HeldAlike
  <2>3. CASE DOMAIN proc'[r].own = {}
    BY <1>2, <2>3 DEF AllHeld
  <2>4. CASE CommitWork(r)
    BY <2>3, <2>4, CommitIs
  <2>5. QED
    BY <2>1, <2>2, <2>3, <2>4, StepKinds
<1>3. QED
  BY <1>1, <1>2

LEMMA SeenNext ==
  ASSUME TypeInv, LockInv, NamesInv, SharedInv, PlanInv, HeldInv, conf.enforced \/ Calm, AllSeen,
         NEW r \in Procs, Work(r) \/ GiveUp(r)
  PROVE  AllSeen'
<1>1. ASSUME NEW p \in Procs, NEW d, Whole(d), DOMAIN View(p)' = DOMAIN d, \A k \in DOMAIN d : View(p)'[k] = d[k]
      PROVE  WholeView(p)'
  <2>1. PICK e : e = View(p)'
    OBVIOUS
  <2>2. Whole(e)
    BY <1>1, <2>1, WholeAlike
  <2>3. QED
    BY <2>1, <2>2 DEF WholeView, Whole, NamesIn
<1>2. Whole(db)'
  <2>1. PICK d : d = db'
    OBVIOUS
  <2>2. d = db \/ d = View(r)
    BY <2>1, OthersSee DEF CommitWork
  <2>3. Whole(d)
    BY <2>2 DEF AllSeen, WholeView
  <2>4. QED
    BY <2>1, <2>3 DEF Whole, NamesIn
<1>3. Whole(db')
  BY <1>2 DEF Whole, NamesIn
<1>4. WholeView(r) /\ Whole(db)
  BY DEF AllSeen
<1>5. WholeView(r)'
  <2>1. CASE DOMAIN proc'[r].own = {} /\ proc'[r].gone = {}
    <3>1. DOMAIN View(r)' = DOMAIN db' /\ \A k \in DOMAIN View(r)' : View(r)'[k] = db'[k]
      BY <2>1, ClosedView
    <3>2. QED
      BY <1>1, <1>3, <3>1
  <2>2. CASE CommitWork(r)
    BY <2>1, <2>2, CommitIs
  <2>3. CASE Execute(r)
    BY <1>4, <2>3, StatementLeavesWhole
  <2>4. CASE db' = db /\ proc'[r].own = proc[r].own /\ proc'[r].gone = proc[r].gone
    <3>1. PICK e : e = View(r)
      OBVIOUS
    <3>2. View(r)' = e
      BY <2>4, <3>1 DEF View
    <3>3. QED
      BY <1>1, <1>4, <3>1, <3>2 DEF WholeView
  <2>5. QED
    BY <2>1, <2>2, <2>3, <2>4, StepKinds
<1>6. ASSUME NEW q \in Procs, q # r PROVE WholeView(q)'
  <2>1. WholeView(q)
    BY DEF AllSeen
  <2>2. CASE CommitWork(r)
    BY <1>4, <1>6, <2>1, <2>2, CommitLeavesWhole
  <2>3. CASE View(q)' = View(q)
    BY <1>1, <2>1, <2>3 DEF WholeView
  <2>4. QED
    BY <1>6, <2>2, <2>3, OtherViews
<1>7. QED
  BY <1>2, <1>5, <1>6 DEF AllSeen

LEMMA WholeNext ==
  ASSUME TypeInv, LockInv, NamesInv, SharedInv, PlanInv, WholeInv, [Next]_vars
  PROVE  WholeInv'
<1>1. CASE UNCHANGED vars
  <2>1. conf' = conf /\ cmd' = cmd /\ db' = db /\ proc' = proc /\ beside' = beside
    BY <1>1 DEF vars
  <2>2. Calm' <=> Calm
    BY <2>1 DEF Calm, Peaceful, Deletes
  <2>3. AllSeen' <=> AllSeen
    BY <2>1 DEF AllSeen, WholeView, Whole, NamesIn, View
  <2>4. HeldInv' <=> HeldInv
    BY <2>1 DEF HeldInv, Held, View
  <2>5. QED
    BY <2>1, <2>2, <2>3, <2>4 DEF WholeInv
<1>2. ASSUME NEW r \in Procs, Work(r) \/ GiveUp(r) PROVE WholeInv'
  <2>1. conf' = conf /\ HeldInv
    BY <1>2, StepKinds DEF WholeInv
  <2>2. conf.enforced => \A p \in Procs : AllHeld(p)'
    BY <1>2, <2>1, HeldNext
  <2>3. HeldInv'
    BY <2>1, <2>2 DEF HeldInv, AllHeld
  <2>4. conf.enforced \/ Calm' => AllSeen'
    BY <1>2, <2>1, CalmBefore, SeenNext DEF WholeInv
  <2>5. QED
    BY <2>1, <2>3, <2>4 DEF WholeInv
<1>3. QED
  BY <1>1, <1>2 DEF Next, AllOver

LEMMA OrphansAreLeft ==
  ASSUME TypeInv, SharedInv, WholeInv
  PROVE  OrphansNeedRace
<1> SUFFICES ASSUME NEW k \in DOMAIN db, Orphan(db, k)
             PROVE  ~conf.enforced /\ \E p, q \in Procs : q \in beside[p] /\ Deletes(q) /\ ~Deletes(p)
  BY DEF OrphansNeedRace
<1>1. ~Whole(db)
  BY DEF Whole, NamesIn, Orphan
<1>2. ~conf.enforced /\ ~Calm
  BY <1>1 DEF WholeInv, AllSeen
<1>3. PICK p \in Procs, q \in Procs : q \in beside[p] /\ ~(Deletes(q) <=> Deletes(p))
  BY <1>2 DEF Calm, Peaceful
<1>4. p \in beside[q]
  BY <1>3 DEF SharedInv
<1>5. QED
  BY <1>2, <1>3, <1>4

-----------------------------------------------------------------------------
(* A process that runs alone.                                              *)

LEMMA NoInsertsNewKeys ==
  ASSUME NEW t, t \in Seq(Range(t)), \A s \in Range(t) : s.op = "insert" => s.table \notin Unique, NEW d
  PROVE  NewKeys(t, d)
<1>1. \A i \in 1 .. Len(t) : t[i] \in Range(t)
  BY LenProperties DEF Range
<1>2. QED
  BY <1>1 DEF NewKeys, Taken, Rivals

(* A step is done; what it leaves has the keys that were there, and that   *)
(* of the row it inserted.                                                 *)
LEMMA NewKeysTail ==
  ASSUME NEW do, NEW t, t # <<>>, Planned(do, t), NEW d, NewKeys(t, d), NEW e,
         \A k \in DOMAIN e : k[1] \in Unique =>
           \/ k \in DOMAIN d /\ UniqueKey(k[1], e[k]) = UniqueKey(k[1], d[k])
           \/ Head(t).op = "insert" /\ k[1] = Head(t).table /\ UniqueKey(k[1], e[k]) = UniqueKey(k[1], Head(t).row)
  PROVE  NewKeys(Tail(t), e)
<1>1. t \in Seq(Range(t))
  BY DEF Planned
<1>2. /\ Len(t) \in Nat \ {0} /\ Len(Tail(t)) = Len(t) - 1 /\ Head(t) = t[1]
      /\ \A i \in 1 .. Len(Tail(t)) : Tail(t)[i] = t[i + 1]
  BY <1>1, HeadTailProperties, LenProperties, EmptySeq
<1>3. \A i \in 1 .. Len(Tail(t)) : i + 1 \in 1 .. Len(t) /\ i + 1 # 1
  BY <1>2
<1>4. 1 \in 1 .. Len(t)
  BY <1>2
<1>5. ASSUME NEW i \in 1 .. Len(Tail(t)), Taken(Tail(t)[i], e) PROVE FALSE
  <2>1. PICK s : s = t[i + 1]
    OBVIOUS
  <2>2. s.op = "insert" /\ s.table \in Unique /\ ~Taken(s, d) /\ ~Rivals(s, Head(t)) /\ Taken(s, e)
    BY <1>2, <1>3, <1>4, <1>5, <2>1 DEF NewKeys, Taken
  <2>3. PICK k \in DOMAIN e : k[1] = s.table /\ UniqueKey(k[1], e[k]) = UniqueKey(k[1], s.row)
    BY <2>2 DEF Taken, Rows
  <2>4. CASE k \in DOMAIN d /\ UniqueKey(k[1], e[k]) = UniqueKey(k[1], d[k])
    BY <2>2, <2>3, <2>4 DEF Taken, Rows
  <2>5. CASE Head(t).op = "insert" /\ k[1] = Head(t).table /\ UniqueKey(k[1], e[k]) = UniqueKey(k[1], Head(t).row)
    BY <2>2, <2>3, <2>5 DEF Rivals
  <2>6. QED
    BY <2>2, <2>3, <2>4, <2>5
<1>6. ASSUME NEW i \in 1 .. Len(Tail(t)), NEW j \in 1 .. Len(Tail(t)), i # j
      PROVE  ~Rivals(Tail(t)[i], Tail(t)[j])
  <2>1. i + 1 # j + 1 /\ i + 1 \in 1 .. Len(t) /\ j + 1 \in 1 .. Len(t)
    BY <1>2, <1>3, <1>6
  <2>2. ~Rivals(t[i + 1], t[j + 1])
    BY <2>1 DEF NewKeys
  <2>3. QED
    BY <1>2, <2>2
<1>7. QED
  BY <1>5, <1>6 DEF NewKeys

(* The look at the last job.                                               *)
LEMMA NewKeysAgain ==
  ASSUME NEW do, NEW t, t # <<>>, Planned(do, t), NEW d, NewKeys(t, d), NEW s, s.op # "insert"
  PROVE  NewKeys(<<s>> \o Tail(t), d)
<1>1. t \in Seq(Range(t)) /\ Tail(t) \in Seq(Range(t))
  BY TailIsPlanned, HeadTailProperties DEF Planned
<1>2. /\ Len(t) \in Nat \ {0} /\ Len(Tail(t)) = Len(t) - 1
      /\ \A i \in 1 .. Len(Tail(t)) : Tail(t)[i] = t[i + 1]
  BY <1>1, HeadTailProperties, LenProperties, EmptySeq
<1>3. PICK u : u = <<s>> \o Tail(t)
  OBVIOUS
<1>4. /\ Len(u) = Len(t) /\ u[1] = s
      /\ \A i \in 1 .. Len(t) : i # 1 => u[i] = t[i]
  <2>1. <<s>> \in Seq(Range(t) \cup {s}) /\ Tail(t) \in Seq(Range(t) \cup {s}) /\ Len(<<s>>) = 1 /\ <<s>>[1] = s
    BY <1>1
  <2>2. /\ Len(u) = 1 + Len(Tail(t))
        /\ \A i \in 1 .. Len(u) : u[i] = IF i <= 1 THEN <<s>>[i] ELSE Tail(t)[i - 1]
    BY <1>3, <2>1, ConcatProperties
  <2>3. QED
    BY <1>2, <2>1, <2>2
<1>5. QED
  BY <1>3, <1>4 DEF NewKeys, Taken, Rivals

(* The keys allow a process that runs alone what it does.                  *)
LEMMA AloneIsLawful ==
  ASSUME TypeInv, PlanInv, NEW p \in Procs, Running(p), proc[p].todo # <<>>, Peaceful(p), NewKeys(proc[p].todo, View(p))
  PROVE  Lawful(p)
<1>1. MayDo(cmd[p].do, Step(p)) /\ Planned(cmd[p].do, proc[p].todo)
  BY StepMayBeDone DEF TypeInv, ProcOK
<1>2. Len(proc[p].todo) \in Nat \ {0} /\ Step(p) = proc[p].todo[1]
  BY <1>1, HeadTailProperties, LenProperties, EmptySeq DEF Planned, Step
<1>3. ASSUME Step(p).op \in {"insert", "record"}, conf.enforced
      PROVE  References(NewTable(p), NewRow(p)) \subseteq UNION {Names(k, View(p)[k]) : k \in RefersTo(p)}
  <2>1. ~Deletes(p)
    BY <1>1, <1>3 DEF MayDo, Deletes, Deleting, Deleters
  <2>2. Based(Step(p), View(p))
    BY <1>1, <2>1, FoundedTail DEF PlanInv, Step
  <2>3. PICK R : R = References(NewTable(p), NewRow(p))
    OBVIOUS
  <2>4. R \subseteq NamesIn(View(p))
    BY <1>3, <2>2, <2>3, BasedRefers
  <2>5. RefersTo(p) = {k \in DOMAIN View(p) : R \cap Names(k, View(p)[k]) # {}}
    BY <1>3, <2>3 DEF RefersTo
  <2>6. R \subseteq UNION {Names(k, View(p)[k]) : k \in RefersTo(p)}
    BY <2>4, <2>5 DEF NamesIn
  <2>7. QED
    BY <2>3, <2>6
<1>4. CASE Step(p).op = "insert"
  <2>1. ~Taken(Step(p), View(p))
    BY <1>2 DEF NewKeys
  <2>2. ~Clashes(p, View(p))
    BY <2>1 DEF Taken, Clashes
  <2>3. QED
    BY <1>3, <1>4, <2>2 DEF Lawful
<1>5. CASE Step(p).op = "record"
  BY <1>3, <1>5 DEF Lawful
<1>6. CASE Step(p).op = "delete"
  BY <1>6, DeletionTakesAll DEF Lawful
<1>7. CASE Step(p).op \notin {"insert", "record", "delete"}
  BY <1>7 DEF Lawful
<1>8. QED
  BY <1>4, <1>5, <1>6, <1>7

(* Who is waited for is at work.                                           *)
LEMMA BlockersAreBeside ==
  ASSUME TypeInv, LockInv, NEW p \in Procs, NEW q \in Blockers(p)
  PROVE  q \in beside[p]
<1>1. q \in Procs /\ q # p /\ Running(p)
  BY DEF Blockers
<1>2. Written(q) # {} \/ proc[q].shared # {}
  <2>1. CASE Clashes(p, Over(proc[q].own, Restrict(db, proc[q].gone \cap DOMAIN db)))
    <3>1. PICK d : d = Over(proc[q].own, Restrict(db, proc[q].gone \cap DOMAIN db))
      OBVIOUS
    <3>2. DOMAIN d # {}
      BY <2>1, <3>1 DEF Clashes, Rows
    <3>3. DOMAIN d \subseteq Written(q)
      BY <3>1 DEF Over, Restrict, Written
    <3>4. QED
      BY <3>2, <3>3
  <2>2. CASE Written(q) # {} \/ Touched(p) \cap Written(q) # {} \/ Touched(p) \cap proc[q].shared # {} \/ RefersTo(p) \cap proc[q].gone # {}
    BY <2>2 DEF Written
  <2>3. QED
    BY <2>1, <2>2 DEF Blockers
<1>3. Running(q)
  BY <1>1, <1>2 DEF TypeInv, ProcOK, Running, Written
<1>4. QED
  BY <1>1, <1>3 DEF LockInv

AloneOK(p) == beside[p] = {} /\ Running(p) => NewKeys(proc[p].todo, View(p))

LEMMA AloneOthers ==
  ASSUME TypeInv, LockInv, NEW r \in Procs, Work(r) \/ GiveUp(r), NEW p \in Procs, p # r, AloneOK(p)
  PROVE  AloneOK(p)'
<1> SUFFICES ASSUME beside'[p] = {} PROVE ~Running(p)'
  BY DEF AloneOK
<1>1. proc'[p] = proc[p]
  BY OthersSee
<1>2. ~Running(p)
  <2>1. CASE Start(r)
    <3>1. beside' = [q \in Procs |-> IF q = r THEN {x \in Procs : Running(x)}
                                     ELSE IF Running(q) THEN beside[q] \cup {r} ELSE beside[q]]
      BY <2>1, StartIs
    <3>2. Running(p) => r \in beside'[p]
      BY <3>1
    <3>3. QED
      BY <3>2
  <2>2. CASE ~Start(r)
    <3>1. beside' = beside /\ Running(r)
      BY <2>2, OthersSee
    <3>2. QED
      BY <3>1 DEF LockInv
  <2>3. QED
    BY <2>1, <2>2
<1>3. QED
  BY <1>1, <1>2 DEF Running

(* A statement leaves of the keys those that were there, and adds that of  *)
(* the row it inserts.                                                     *)
LEMMA StatementKeys ==
  ASSUME TypeInv, NEW p \in Procs, Execute(p), NEW k \in DOMAIN View(p)', k[1] \in Unique, NEW v, v = View(p)'[k]
  PROVE  \/ k \in DOMAIN View(p) /\ UniqueKey(k[1], v) = UniqueKey(k[1], View(p)[k])
         \/ Step(p).op = "insert" /\ k[1] = Step(p).table /\ UniqueKey(k[1], v) = UniqueKey(k[1], Step(p).row)
<1>1. /\ db' = db
      /\ \/ Step(p).op = "update" /\ \E rows : Changes(p, rows)
         \/ Step(p).op = "record" /\ ~Anew(p) /\ \E rows : Replaces(p, rows) /\ DOMAIN rows = Touched(p)
         \/ (Step(p).op = "insert" \/ (Step(p).op = "record" /\ Anew(p))) /\ \E x : Adds(p, x)
         \/ Step(p).op = "delete" /\ DeleteRows(p)
      /\ Step(p).op = "delete" => DOMAIN proc[p].own = {}
  BY StatementIs
<1>2. ASSUME NEW rows, Changes(p, rows) PROVE k \in DOMAIN View(p) /\ UniqueKey(k[1], v) = UniqueKey(k[1], View(p)[k])
  <2>1. /\ DOMAIN View(p)' = DOMAIN View(p)
        /\ \A x \in DOMAIN View(p) : View(p)'[x] = IF x \in DOMAIN rows THEN rows[x] ELSE View(p)[x]
    BY <1>1, <1>2, StatementNames
  <2>2. k \in DOMAIN rows => Kept(rows[k], View(p)[k])
    BY <1>2 DEF Changes
  <2>3. QED
    BY <2>1, <2>2, KeptNames
<1>3. ASSUME NEW rows, Replaces(p, rows) PROVE k \in DOMAIN View(p) /\ v = View(p)[k]
  <2>1. /\ DOMAIN View(p)' = DOMAIN View(p)
        /\ \A x \in DOMAIN View(p) : View(p)'[x] = IF x \in DOMAIN rows THEN rows[x] ELSE View(p)[x]
    BY <1>1, <1>3, StatementNames
  <2>2. k \notin DOMAIN rows
    BY <1>3 DEF Replaces, Unique
  <2>3. QED
    BY <2>1, <2>2
<1>4. ASSUME NEW x, Adds(p, x), Step(p).op = "insert" \/ (Step(p).op = "record" /\ Anew(p))
      PROVE  (k \in DOMAIN View(p) /\ v = View(p)[k]) \/ (k[1] = Step(p).table /\ v = Step(p).row /\ Step(p).op = "insert")
  <2>1. /\ DOMAIN View(p)' = DOMAIN View(p) \cup {x} /\ View(p)'[x] = NewRow(p)
        /\ \A y \in DOMAIN View(p) : View(p)'[y] = View(p)[y]
    BY <1>1, <1>4, AddedNames
  <2>2. x[1] = NewTable(p)
    BY <1>4 DEF Adds
  <2>3. CASE k = x
    <3>1. Step(p).op = "insert"
      BY <2>2, <2>3 DEF NewTable, Unique
    <3>2. QED
      BY <2>1, <2>2, <2>3, <3>1 DEF NewTable, NewRow
  <2>4. CASE k # x
    BY <2>1, <2>4
  <2>5. QED
    BY <2>3, <2>4
<1>5. ASSUME DeleteRows(p), DOMAIN proc[p].own = {} PROVE k \in DOMAIN View(p) /\ v = View(p)[k]
  <2>1. DOMAIN View(p)' = DOMAIN View(p) \ Touched(p) /\ \A x \in DOMAIN View(p)' : View(p)'[x] = View(p)[x]
    BY <1>1, <1>5, DeleteView
  <2>2. QED
    BY <2>1
<1>6. QED
  BY <1>1, <1>2, <1>3, <1>4, <1>5

LEMMA AloneStarts ==
  ASSUME TypeInv, NEW p \in Procs, Start(p)
  PROVE  NewKeys(proc[p].todo, View(p))'
<1>1. PICK t, e : t = proc'[p].todo /\ e = View(p)'
  OBVIOUS
<1>2. db' = db /\ t = Script(p, db) /\ proc'[p].own = <<>> /\ proc'[p].gone = {}
  BY <1>1, StartIs
<1>3. DOMAIN proc'[p].own = {}
  BY <1>2
<1>4. DOMAIN e = DOMAIN db /\ \A k \in DOMAIN e : e[k] = db[k]
  BY <1>1, <1>2, <1>3, ClosedView
<1>5. Tidy(db) /\ IsCommand(cmd[p])
  BY DbIsTidy DEF TypeInv
<1>6. NewKeys(t, e)
  <2>1. CASE Deletes(p)
    <3>1. Planned(cmd[p].do, t) /\ cmd[p].do \in Deleting
      BY <1>2, <1>5, <2>1, ScriptIsPlanned DEF Deletes, Deleting, Deleters
    <3>2. \A s \in Range(t) : s.op # "insert"
      BY <3>1 DEF Planned, MayDo
    <3>3. QED
      BY <3>1, <3>2, NoInsertsNewKeys DEF Planned
  <2>2. CASE ~Deletes(p)
    <3>1. NewKeys(t, db)
      BY <1>2, <1>5, <2>2, ScriptIsSound DEF Sound
    <3>2. \A s : Taken(s, e) => Taken(s, db)
      BY <1>4 DEF Taken, Rows
    <3>3. QED
      BY <3>1, <3>2 DEF NewKeys
  <2>3. QED
    BY <2>1, <2>2
<1>7. QED
  BY <1>1, <1>6 DEF NewKeys, Taken, Rows

LEMMA AloneOwn ==
  ASSUME TypeInv, LockInv, PlanInv, NEW p \in Procs, Work(p) \/ GiveUp(p), AloneOK(p)
  PROVE  AloneOK(p)'
<1> SUFFICES ASSUME beside'[p] = {}, Running(p)' PROVE NewKeys(proc[p].todo, View(p))'
  BY DEF AloneOK
<1>1. CASE Start(p)
  BY <1>1, StartIs, AloneStarts
<1>2. CASE ~Start(p)
  <2>0. PICK t, d, u, e : t = proc[p].todo /\ d = View(p) /\ u = proc'[p].todo /\ e = View(p)'
    OBVIOUS
  <2>1. beside[p] = {} /\ Running(p)
    BY <1>2, OthersSee
  <2>2. NewKeys(t, d) /\ Peaceful(p)
    BY <2>0, <2>1 DEF AloneOK, Peaceful
  <2>3. Planned(cmd[p].do, t) /\ DOMAIN proc = Procs /\ DOMAIN proc[p] = Fields
    BY <2>0 DEF TypeInv, ProcOK
  <2>4. ASSUME NewKeys(u, e) PROVE NewKeys(proc[p].todo, View(p))'
    BY <2>0, <2>4 DEF NewKeys, Taken, Rows
  <2>5. CASE ExpandRefund(p) \/ PayUser(p) \/ FindPages(p) \/ LookAtLast(p) \/ ExtractTable(p)
    <3>1. proc[p].todo # <<>> /\ db' = db /\ proc'[p].own = proc[p].own /\ proc'[p].gone = proc[p].gone /\ proc'[p].state = "running"
      BY <2>5, ReadingIs
    <3>2. e = d
      BY <2>0, <3>1 DEF View
    <3>3. CASE ExpandRefund(p) \/ PayUser(p) \/ FindPages(p)
      <4>1. MayDo(cmd[p].do, Step(p)) /\ Step(p).op \in {"refund", "payback", "pages"} /\ cmd' = cmd
        BY <3>1, <3>3, StepMayBeDone DEF ExpandRefund, PayUser, FindPages, At
      <4>2. cmd[p].do = "refund"
        BY <4>1 DEF MayDo
      <4>3. Planned("refund", u)
        <5>1. ProcOK(p)'
          BY <3>3, TypeExpandRefund, TypePayUser, TypeFindPages DEF TypeInv
        <5>2. QED
          BY <2>0, <4>1, <4>2, <5>1 DEF ProcOK
      <4>4. \A s \in Range(u) : s.op = "insert" => s.table \notin Unique
        BY <4>3 DEF Planned, MayDo, AddedBy, Unique
      <4>5. NewKeys(u, e)
        BY <4>3, <4>4, NoInsertsNewKeys DEF Planned
      <4>6. QED
        BY <2>4, <3>1, <4>5
    <3>4. CASE LookAtLast(p)
      <4>1. PICK s : s = [Step(p) EXCEPT !.last = LastJob(View(p), Step(p).row.printer)]
        OBVIOUS
      <4>2. Step(p).op = "record" /\ Becomes(p, [proc[p] EXCEPT !.todo = <<s>> \o Tail(t)])
        BY <2>0, <3>4, <4>1 DEF LookAtLast, At
      <4>3. PICK w : w = <<s>> \o Tail(t)
        OBVIOUS
      <4>4. u = w
        BY <2>0, <2>3, <4>2, <4>3 DEF Becomes, Fields
      <4>5. s.op = "record"
        <5>1. MayDo(cmd[p].do, Step(p))
          BY <3>1, StepMayBeDone
        <5>2. DOMAIN Step(p) = {"op", "row", "last"}
          BY <4>2, <5>1 DEF MayDo
        <5>3. QED
          BY <4>1, <4>2, <5>2
      <4>6. NewKeys(w, e)
        BY <2>0, <2>2, <2>3, <3>1, <3>2, <4>3, <4>5, NewKeysAgain
      <4>7. QED
        BY <2>4, <3>1, <4>4, <4>6
    <3>5. CASE ExtractTable(p)
      <4>1. PICK o : Becomes(p, [proc[p] EXCEPT !.out = o, !.todo = Tail(t)])
        BY <2>0, <3>5 DEF ExtractTable
      <4>2. u = Tail(t)
        BY <2>0, <2>3, <4>1 DEF Becomes, Fields
      <4>3. NewKeys(Tail(t), e)
        BY <2>0, <2>2, <2>3, <3>1, <3>2, NewKeysTail
      <4>4. QED
        BY <2>4, <3>1, <4>2, <4>3
    <3>6. QED
      BY <2>5, <3>3, <3>4, <3>5
  <2>6. CASE Execute(p)
    <3>1. proc[p].todo # <<>> /\ u = Tail(t) /\ proc'[p].state = "running" /\ Step(p) = Head(t)
      BY <2>0, <2>6, StatementIs DEF Step
    <3>2. \A k \in DOMAIN e : k[1] \in Unique =>
            \/ k \in DOMAIN d /\ UniqueKey(k[1], e[k]) = UniqueKey(k[1], d[k])
            \/ Head(t).op = "insert" /\ k[1] = Head(t).table /\ UniqueKey(k[1], e[k]) = UniqueKey(k[1], Head(t).row)
      BY <2>0, <2>6, <3>1, StatementKeys
    <3>3. NewKeys(Tail(t), e)
      BY <2>0, <2>2, <2>3, <3>1, <3>2, NewKeysTail
    <3>4. QED
      BY <2>4, <3>1, <3>3
  <2>7. CASE Refused(p) \/ GiveUp(p)
    BY <2>7, RollBackIs DEF Refused, GiveUp, Running
  <2>9. CASE CommitWork(p)
    <3>1. /\ db' = d /\ DOMAIN proc'[p].own = {} /\ proc'[p].gone = {} /\ proc'[p].state \in {"done", "running"}
          /\ t # <<>> => u = Tail(t) /\ Step(p).op = "commit"
          /\ t = <<>> => proc'[p].state = "done"
      BY <2>0, <2>9, CommitIs
    <3>2. DOMAIN e = DOMAIN d /\ \A k \in DOMAIN e : e[k] = d[k]
      BY <2>0, <3>1, ClosedView
    <3>3. CASE t # <<>>
      <4>1. NewKeys(Tail(t), e)
        BY <2>2, <2>3, <3>2, <3>3, NewKeysTail
      <4>2. QED
        BY <2>4, <3>1, <3>3, <4>1
    <3>4. CASE t = <<>>
      BY <3>1, <3>4 DEF Running
    <3>5. QED
      BY <3>1, <3>3, <3>4
  <2>10. QED
    BY <1>2, <2>5, <2>6, <2>7, <2>9 DEF Work
<1>3. QED
  BY <1>1, <1>2

LEMMA AloneNext ==
  ASSUME TypeInv, LockInv, PlanInv, AloneInv, [Next]_vars
  PROVE  AloneInv'
<1>1. CASE UNCHANGED vars
  <2>1. conf' = conf /\ cmd' = cmd /\ db' = db /\ proc' = proc /\ beside' = beside
    BY <1>1 DEF vars
  <2>2. ASSUME NEW p \in Procs PROVE AloneOK(p)'
    <3>1. PICK t, e : t = proc[p].todo /\ e = View(p)
      OBVIOUS
    <3>2. proc'[p].todo = t /\ View(p)' = e /\ (Running(p)' <=> Running(p))
      BY <2>1, <3>1 DEF View, Running
    <3>3. NewKeys(proc[p].todo, View(p))' <=> NewKeys(t, e)
      BY <3>2 DEF NewKeys, Taken, Rows
    <3>4. QED
      BY <2>1, <3>1, <3>2, <3>3 DEF AloneOK, AloneInv
  <2>3. QED
    BY <2>2 DEF AloneInv, AloneOK
<1>2. ASSUME NEW r \in Procs, Work(r) \/ GiveUp(r) PROVE \A p \in Procs : AloneOK(p)'
  <2>1. \A p \in Procs : AloneOK(p)
    BY DEF AloneInv, AloneOK
  <2>2. QED
    BY <1>2, <2>1, AloneOwn, AloneOthers
<1>3. CASE \A p \in Procs : AloneOK(p)'
  BY <1>3 DEF AloneInv, AloneOK
<1>4. QED
  BY <1>1, <1>2, <1>3 DEF Next, AllOver

LEMMA AloneInit == ASSUME Init PROVE AloneInv
BY NothingWritten DEF AloneInv

(* A process that runs alone fails because of a billing code only.         *)
LEMMA AloneSucceeds ==
  ASSUME TypeInv, LockInv, NamesInv, PlanInv, AloneInv, NEW r \in Procs, Work(r) \/ GiveUp(r),
         NEW p \in Procs, proc[p].state # "failed", proc'[p].state = "failed", beside[p] = {}
  PROVE  NamesNoCode(p)
<1>1. p = r
  BY OthersSee
<1>2. CASE Start(p)
  BY <1>2, StartIs
<1>3. CASE ExpandRefund(p) \/ PayUser(p) \/ FindPages(p) \/ LookAtLast(p) \/ ExtractTable(p)
  BY <1>3, ReadingIs
<1>4. CASE Execute(p)
  BY <1>4, StatementIs
<1>5. CASE CommitWork(p)
  BY <1>5, CommitIs
<1>6. CASE GiveUp(p)
  <2>1. Blockers(p) # {}
    BY <1>6 DEF GiveUp, Deadlocked
  <2>2. QED
    BY <2>1, BlockersAreBeside
<1>7. CASE Refused(p)
  <2>1. Running(p) /\ proc[p].todo # <<>> /\ (~Lawful(p) \/ (At(p, "refund") /\ NoSuchCode(View(p), Step(p))))
    BY <1>7 DEF Refused, Raises, At
  <2>2. Peaceful(p) /\ NewKeys(proc[p].todo, View(p))
    BY <2>1 DEF Peaceful, AloneInv
  <2>3. Lawful(p)
    BY <2>1, <2>2, AloneIsLawful
  <2>4. At(p, "refund") /\ NoSuchCode(View(p), Step(p))
    BY <2>1, <2>3
  <2>5. proc[p].gone = {}
    <3>1. MayDo(cmd[p].do, Step(p)) /\ Step(p).op = "refund" /\ ProcOK(p)
      BY <2>1, <2>4, StepMayBeDone DEF At, TypeInv
    <3>2. cmd[p].do \notin Deleting
      BY <3>1 DEF MayDo, Deleting, Deleters
    <3>3. QED
      BY <3>1, <3>2 DEF ProcOK
  <2>6. ASSUME NEW k \in Rows(db, "billingcodes") PROVE db[k].name # Step(p).code
    <3>1. k \in DOMAIN db /\ k[1] = "billingcodes" /\ k \in DOMAIN View(p)
      BY <2>5, ViewIs DEF Rows
    <3>2. View(p)[k].name = db[k].name
      <4>1. CASE k \in DOMAIN proc[p].own
        <5>1. Fits(k, db[k], k, proc[p].own[k])
          BY <3>1, <4>1 DEF NamesInv, Agree, Sources
        <5>2. UniqueKey(k[1], db[k]) = UniqueKey(k[1], proc[p].own[k])
          BY <3>1, <5>1 DEF Fits, Same, Unique, TableNames
        <5>3. db[k].name = proc[p].own[k].name
          BY <3>1, <5>2 DEF UniqueKey
        <5>4. QED
          BY <3>1, <4>1, <5>3, ViewIs
      <4>2. CASE k \notin DOMAIN proc[p].own
        BY <3>1, <4>2, ViewIs
      <4>3. QED
        BY <4>1, <4>2
    <3>3. k \in Rows(View(p), "billingcodes")
      BY <3>1 DEF Rows
    <3>4. CodesOf(View(p), Step(p)) = {} /\ Step(p).code # None
      BY <2>4 DEF NoSuchCode
    <3>5. View(p)[k].name # Step(p).code
      BY <3>3, <3>4 DEF CodesOf, Ids
    <3>6. QED
      BY <3>2, <3>5
  <2>7. QED
    BY <2>4, <2>6 DEF NamesNoCode, NoSuchCode
<1>8. QED
  BY <1>1, <1>2, <1>3, <1>4, <1>5, <1>6, <1>7 DEF Work

-----------------------------------------------------------------------------
(* Dumps: the rows that a process has added are those its command adds;    *)
(* what a dump has of the tables it went through, and what is left.        *)

AddedInv ==
  \A p \in Procs : \A k \in DOMAIN proc[p].own : k \notin DOMAIN db => AddedBy(cmd[p].do, k[1])
AddedOK(p) == \A k \in DOMAIN proc[p].own : k \notin DOMAIN db => AddedBy(cmd[p].do, k[1])

LEMMA AddedInit == ASSUME Init PROVE AddedInv
BY NothingWritten DEF AddedInv

LEMMA AddedExecute ==
  ASSUME TypeInv, NEW p \in Procs, Execute(p), AddedOK(p)
  PROVE  AddedOK(p)'
<1>1. /\ Running(p) /\ proc[p].todo # <<>> /\ db' = db /\ cmd' = cmd
      /\ \/ Step(p).op = "update" /\ \E rows : Changes(p, rows)
         \/ Step(p).op = "record" /\ ~Anew(p) /\ \E rows : Replaces(p, rows) /\ DOMAIN rows = Touched(p)
         \/ (Step(p).op = "insert" \/ (Step(p).op = "record" /\ Anew(p))) /\ \E k : Adds(p, k)
         \/ Step(p).op = "delete" /\ DeleteRows(p)
  BY StatementIs
<1>2. MayDo(cmd[p].do, Step(p))
  BY <1>1, StepMayBeDone
<1>3. ASSUME NEW rows, Wrote(p, rows), DOMAIN rows \subseteq DOMAIN View(p) PROVE AddedOK(p)'
  <2>1. DOMAIN proc'[p].own = DOMAIN rows \cup DOMAIN proc[p].own
    BY <1>3, WroteIs
  <2>2. QED
    BY <1>1, <1>3, <2>1, ViewIs DEF AddedOK
<1>4. ASSUME NEW k, Adds(p, k), Step(p).op \in {"insert", "record"} PROVE AddedOK(p)'
  <2>1. PICK rows : rows = [x \in {k} |-> NewRow(p)]
    OBVIOUS
  <2>2. DOMAIN proc'[p].own = DOMAIN rows \cup DOMAIN proc[p].own
    BY <1>4, <2>1, WroteIs DEF Adds
  <2>3. AddedBy(cmd[p].do, NewTable(p))
    BY <1>2, <1>4 DEF MayDo, NewTable, AddedBy
  <2>4. k[1] = NewTable(p)
    BY <1>4 DEF Adds
  <2>5. DOMAIN rows = {k}
    BY <2>1
  <2>6. QED
    BY <1>1, <2>2, <2>3, <2>4, <2>5 DEF AddedOK
<1>5. CASE DeleteRows(p)
  BY <1>5, DeleteIs DEF AddedOK
<1>6. QED
  BY <1>1, <1>3, <1>4, <1>5 DEF Changes, Replaces

LEMMA AddedNext ==
  ASSUME TypeInv, LockInv, AddedInv, [Next]_vars
  PROVE  AddedInv'
<1>1. CASE UNCHANGED vars
  BY <1>1 DEF vars, AddedInv
<1>2. ASSUME NEW r \in Procs, Work(r) \/ GiveUp(r), NEW p \in Procs PROVE AddedOK(p)'
  <2>1. AddedOK(p) /\ cmd' = cmd
    BY <1>2, OthersSee DEF AddedInv, AddedOK
  <2>2. CASE p # r
    <3>1. proc'[p] = proc[p] /\ (db' = db \/ CommitWork(r))
      BY <1>2, <2>2, OthersSee
    <3>2. \A k \in DOMAIN proc[p].own : k \in DOMAIN db' <=> k \in DOMAIN db
      BY <2>2, <3>1, CommitKeeps DEF Written
    <3>3. QED
      BY <2>1, <3>1, <3>2 DEF AddedOK
  <2>3. CASE p = r
    <3>1. CASE Execute(r)
      BY <2>1, <2>3, <3>1, AddedExecute
    <3>2. CASE CommitWork(r) \/ DOMAIN proc'[r].own = {}
      BY <2>3, <3>2, CommitIs DEF AddedOK
    <3>3. CASE db' = db /\ proc'[r].own = proc[r].own
      BY <2>1, <2>3, <3>3 DEF AddedOK
    <3>4. QED
      BY <1>2, <3>1, <3>2, <3>3, StepKinds
  <2>4. QED
    BY <2>2, <2>3
<1>3. CASE \A p \in Procs : AddedOK(p)'
  BY <1>3 DEF AddedInv, AddedOK
<1>4. QED
  BY <1>1, <1>2, <1>3 DEF Next, AllOver

(* The tables that were read when n - 1 of them were, and what a dump then *)
(* has of the rows that are committed.                                     *)
Rest(t, n) == Len(t) = 11 - n /\ \A i \in 1 .. Len(t) : t[i] = Extract(DataTypes[n - 1 + i])
Done(n) == {DataTypes[i] : i \in 1 .. n - 1}
Heads == {"users", "printers", "groups"}
Complete(o, d, n) ==
  /\ \A t \in Done(n) \cap Heads : Rows(d, t) \subseteq DOMAIN o
  /\ conf.enforced /\ "userpquota" \in Done(n) =>
       \A k \in Rows(d, "userpquota") : k \in DOMAIN o /\ Names(k, o[k]) = Names(k, d[k])
Named(o) ==
  \A k \in DOMAIN o : References(k[1], o[k]) \subseteq NamesIn(o) \/ (k[1] = "jobhistory" /\ ~conf.enforced)
Shown(o, d, n) == \A k \in DOMAIN d \ DOMAIN o : k[1] \in Done(n) => k \notin Extracted(d, k[1])

Adding == {"adduser", "addprinter", "addgroup", "addquota"}
Adder(p) == \E q \in beside[p] : cmd[q].do \in Adding
DumpAt(p, n) ==
  /\ Rest(proc[p].todo, n) /\ \A k \in DOMAIN proc[p].out : k[1] \in Done(n)
  /\ Adder(p) \/ (Complete(proc[p].out, db, n) /\ Named(proc[p].out))
  /\ beside[p] = {} => Shown(proc[p].out, db, n)
Dumped(p) ==
  cmd[p].do = "dump" =>
    /\ Running(p) => \E n \in 1 .. 11 : DumpAt(p, n)
    /\ proc[p].state = "done" => Adder(p) \/ Named(proc[p].out)
DumpInv == \A p \in Procs : Dumped(p)

(* What is referred to is read before what refers to it.                   *)
LEMMA TablesInOrder ==
  /\ DataTypes[1] = "printers" /\ DataTypes[2] = "printergroupsmembers" /\ DataTypes[3] = "users"
  /\ DataTypes[4] = "groups" /\ DataTypes[5] = "billingcodes" /\ DataTypes[6] = "groupsmembers"
  /\ DataTypes[7] = "userpquota" /\ DataTypes[8] = "grouppquota" /\ DataTypes[9] = "payments"
  /\ DataTypes[10] = "jobhistory" /\ DOMAIN DataTypes = 1 .. 10
BY DEF DataTypes

LEMMA ReadBefore ==
  ASSUME NEW n \in 1 .. 10, NEW t, t = DataTypes[n]
  PROVE  /\ t \in TableNames /\ t \notin Done(n) /\ Done(n + 1) = Done(n) \cup {t}
         /\ t = "userpquota" => {"users", "printers"} \subseteq Done(n)
         /\ t = "grouppquota" => {"groups", "printers"} \subseteq Done(n)
         /\ t = "groupsmembers" => {"groups", "users"} \subseteq Done(n)
         /\ t = "printergroupsmembers" => "printers" \in Done(n)
         /\ t = "payments" => "users" \in Done(n)
         /\ t = "jobhistory" => "userpquota" \in Done(n)
<1>1. \A i, j \in 1 .. 10 : DataTypes[i] = DataTypes[j] => i = j
  BY TablesInOrder
<1>2. t \in TableNames
  BY TablesInOrder DEF TableNames
<1>3. t \notin Done(n)
  BY <1>1 DEF Done
<1>4. Done(n + 1) = Done(n) \cup {t}
  <2>1. 1 .. (n + 1) - 1 = (1 .. n - 1) \cup {n}
    OBVIOUS
  <2>2. QED
    BY <2>1 DEF Done
<1>5. \A i \in 1 .. n - 1 : DataTypes[i] \in Done(n)
  BY DEF Done
<1>6. t = "userpquota" => n = 7
  BY <1>1, TablesInOrder, 7 \in 1 .. 10
<1>7. t = "grouppquota" => n = 8
  BY <1>1, TablesInOrder, 8 \in 1 .. 10
<1>8. t = "groupsmembers" => n = 6
  BY <1>1, TablesInOrder, 6 \in 1 .. 10
<1>9. t = "printergroupsmembers" => n = 2
  BY <1>1, TablesInOrder, 2 \in 1 .. 10
<1>10. t = "payments" => n = 9
  BY <1>1, TablesInOrder, 9 \in 1 .. 10
<1>11. t = "jobhistory" => n = 10
  BY <1>1, TablesInOrder, 10 \in 1 .. 10
<1>12. QED
  BY <1>2, <1>3, <1>4, <1>5, <1>6, <1>7, <1>8, <1>9, <1>10, <1>11, TablesInOrder

LEMMA AllAreRead == Done(1) = {} /\ TableNames \subseteq Done(11)
<1>1. \A i \in 1 .. 10 : DataTypes[i] \in Done(11)
  BY DEF Done
<1>2. QED
  BY <1>1, TablesInOrder DEF TableNames, Done

(* Rows other than those of the history refer to users, printers and       *)
(* groups.                                                                 *)
LEMMA WhatIsReferredTo ==
  ASSUME NEW n \in 1 .. 10, NEW t, t = DataTypes[n], NEW r, NEW x \in References(t, r), t # "jobhistory"
  PROVE  x[1] \in Done(n) \cap Heads
<1>1. \/ t = "userpquota" /\ x[1] \in {"users", "printers"}
      \/ t = "grouppquota" /\ x[1] \in {"groups", "printers"}
      \/ t = "groupsmembers" /\ x[1] \in {"groups", "users"}
      \/ t = "printergroupsmembers" /\ x[1] = "printers"
      \/ t = "payments" /\ x[1] = "users"
  BY ReadBefore DEF References, TableNames
<1>2. QED
  BY <1>1, ReadBefore DEF Heads

LEMMA ItsOnlyName ==
  ASSUME NEW x, x[1] # "entry of", NEW y, NEW s, x \in Names(y, s)
  PROVE  x = y
<1>1. <<"entry of", s.user, s.printer>>[1] = "entry of"
  OBVIOUS
<1>2. QED
  BY <1>1 DEF Names

(* A table is read.                                                        *)
LEMMA ReadingCompletes ==
  ASSUME TypeInv, WholeInv, NEW n \in 1 .. 10, NEW t, t = DataTypes[n],
         NEW o, \A k \in DOMAIN o : k[1] \in Done(n), Complete(o, db, n), Named(o),
         NEW e, e = Over([k \in Extracted(db, t) |-> db[k]], o)
  PROVE  Complete(e, db, n + 1) /\ Named(e)
<1>1. /\ DOMAIN e = Extracted(db, t) \cup DOMAIN o
      /\ \A k \in Extracted(db, t) : e[k] = db[k]
      /\ \A k \in DOMAIN o : k \notin Extracted(db, t) => e[k] = o[k]
  BY DEF Over
<1>2. \A k \in Extracted(db, t) : k \in DOMAIN db /\ k[1] = t
  BY DEF Extracted, Rows
<1>3. t \notin Done(n) /\ Done(n + 1) = Done(n) \cup {t} /\ t \in TableNames
  BY ReadBefore
<1>4. \A k \in DOMAIN o : k \notin Extracted(db, t) /\ e[k] = o[k]
  BY <1>1, <1>2, <1>3
<1>5. NamesIn(o) \subseteq NamesIn(e)
  BY <1>1, <1>4, NamesInGrow
<1>6. \A k \in Rows(db, t) : t \in Heads => k \in Extracted(db, t)
  BY DEF Extracted, Heads, Joined, References, GroupShown, Rows
<1>7. \A s \in Done(n + 1) \cap Heads : Rows(db, s) \subseteq DOMAIN e
  BY <1>1, <1>3, <1>6 DEF Complete
<1>8. ASSUME conf.enforced, "userpquota" \in Done(n + 1), NEW k \in Rows(db, "userpquota")
      PROVE  k \in DOMAIN e /\ Names(k, e[k]) = Names(k, db[k])
  <2>1. CASE "userpquota" \in Done(n)
    BY <1>1, <1>4, <1>8, <2>1 DEF Complete
  <2>2. CASE t = "userpquota"
    <3>1. k \in DOMAIN db /\ k[1] = "userpquota"
      BY <1>8 DEF Rows
    <3>2. PICK r : r = db[k]
      OBVIOUS
    <3>3. References("userpquota", r) \subseteq NamesIn(db)
      BY <1>8, <3>1, <3>2 DEF WholeInv, AllSeen, Whole
    <3>4. ASSUME NEW x \in References("userpquota", r) PROVE x \in DOMAIN db
      <4>1. PICK y \in DOMAIN db : x \in Names(y, db[y])
        BY <3>3 DEF NamesIn
      <4>2. x[1] \in {"users", "printers"}
        BY DEF References
      <4>3. x = y
        BY <4>1, <4>2, ItsOnlyName
      <4>4. QED
        BY <4>1, <4>3
    <3>5. k \in Extracted(db, t)
      BY <1>8, <2>2, <3>1, <3>2, <3>4 DEF Extracted, Joined
    <3>6. QED
      BY <1>1, <3>5
  <2>3. QED
    BY <1>3, <1>8, <2>1, <2>2
<1>9. ASSUME NEW k \in DOMAIN e PROVE References(k[1], e[k]) \subseteq NamesIn(e) \/ (k[1] = "jobhistory" /\ ~conf.enforced)
  <2>1. CASE k \in DOMAIN o
    <3>1. e[k] = o[k] /\ (References(k[1], o[k]) \subseteq NamesIn(o) \/ (k[1] = "jobhistory" /\ ~conf.enforced))
      BY <1>4, <2>1 DEF Named
    <3>2. QED
      BY <1>5, <3>1
  <2>2. CASE k \in Extracted(db, t)
    <3>1. PICK r : r = db[k]
      OBVIOUS
    <3>2. k \in DOMAIN db /\ k[1] = t /\ e[k] = r /\ Joined(k, r) \subseteq DOMAIN db
      BY <1>1, <1>2, <2>2, <3>1 DEF Extracted
    <3>3. CASE t # "jobhistory"
      <4>1. ASSUME NEW x \in References(t, r) PROVE x \in NamesIn(e)
        <5>1. x \in DOMAIN db /\ x[1] \in Done(n) \cap Heads
          BY <3>2, <3>3, WhatIsReferredTo DEF Joined
        <5>2. x \in DOMAIN o
          BY <5>1 DEF Complete, Rows
        <5>3. x \in DOMAIN e /\ x \in Names(x, e[x])
          BY <1>1, <5>2 DEF Names
        <5>4. QED
          BY <5>3 DEF NamesIn
      <4>2. QED
        BY <3>2, <4>1
    <3>4. CASE t = "jobhistory" /\ conf.enforced
      <4>1. ASSUME NEW x \in References("jobhistory", r) PROVE x \in NamesIn(e)
        <5>1. x \in NamesIn(db)
          BY <3>1, <3>2, <3>4 DEF WholeInv, AllSeen, Whole
        <5>2. PICK y \in DOMAIN db : x \in Names(y, db[y])
          BY <5>1 DEF NamesIn
        <5>3. x = <<"entry of", r.user, r.printer>>
          BY DEF References
        <5>4. y[1] = "userpquota"
          <6>1. y \in TableNames \X Nat
            BY <5>2 DEF TypeInv, IsKey
          <6>2. x # y
            <7>1. x[1] = "entry of" /\ y[1] \in TableNames
              BY <5>3, <6>1
            <7>2. QED
              BY <7>1 DEF TableNames
          <6>3. QED
            BY <5>2, <6>2 DEF Names
        <5>5. y \in DOMAIN o /\ x \in Names(y, o[y])
          BY <3>4, <5>2, <5>4, ReadBefore DEF Complete, Rows
        <5>6. QED
          BY <1>5, <5>5 DEF NamesIn
      <4>2. QED
        BY <3>2, <3>4, <4>1
    <3>5. QED
      BY <3>2, <3>3, <3>4
  <2>3. QED
    BY <1>1, <2>1, <2>2
<1>10. QED
  BY <1>7, <1>8, <1>9 DEF Complete, Named

LEMMA ReadingShows ==
  ASSUME NEW n \in 1 .. 10, NEW t, t = DataTypes[n], NEW o, NEW d, Shown(o, d, n),
         NEW e, e = Over([k \in Extracted(d, t) |-> d[k]], o)
  PROVE  Shown(e, d, n + 1)
<1>1. DOMAIN e = Extracted(d, t) \cup DOMAIN o
  BY DEF Over
<1>2. Done(n + 1) = Done(n) \cup {t}
  BY ReadBefore
<1>3. QED
  BY <1>1, <1>2 DEF Shown

(* What a dump has of the rows that are committed, it keeps having.        *)
LEMMA CompleteStays ==
  ASSUME TypeInv, LockInv, NamesInv, AddedInv, NEW r \in Procs, CommitWork(r), NEW p \in Procs, p # r, Running(p),
         ~Adder(p), NEW o, NEW n, Complete(o, db, n)
  PROVE  Complete(o, db', n)
<1>1. db' = View(r) /\ Running(r)
  BY CommitIs
<1>2. cmd[r].do \notin Adding
  BY <1>1 DEF LockInv, Adder
<1>3. ASSUME NEW k \in DOMAIN db', k[1] \in Heads \cup {"userpquota"}
      PROVE  k \in DOMAIN db /\ Names(k, db'[k]) = Names(k, db[k])
  <2>1. k \in DOMAIN db
    BY <1>1, <1>2, <1>3, ViewIs DEF AddedInv, AddedBy, Adding, Heads
  <2>2. Fits(k, View(r)[k], k, db[k])
    BY <1>1, <1>3, <2>1, ViewFits, SourcesAre
  <2>3. QED
    BY <1>1, <2>1, <2>2 DEF Fits, Same
<1>4. ASSUME NEW t \in Done(n) \cap Heads PROVE Rows(db', t) \subseteq DOMAIN o
  BY <1>3, <1>4 DEF Complete, Rows
<1>5. ASSUME conf.enforced, "userpquota" \in Done(n), NEW k \in Rows(db', "userpquota")
      PROVE  k \in DOMAIN o /\ Names(k, o[k]) = Names(k, db'[k])
  <2>1. k \in DOMAIN db' /\ k[1] = "userpquota"
    BY <1>5 DEF Rows
  <2>2. k \in Rows(db, "userpquota") /\ Names(k, db'[k]) = Names(k, db[k])
    BY <1>3, <2>1 DEF Rows
  <2>3. QED
    BY <1>5, <2>2 DEF Complete
<1>6. QED
  BY <1>4, <1>5, CommitIs DEF Complete

LEMMA DumpOthers ==
  ASSUME TypeInv, LockInv, NamesInv, AddedInv, NEW r \in Procs, Work(r) \/ GiveUp(r), NEW p \in Procs, p # r, Dumped(p)
  PROVE  Dumped(p)'
<1>1. cmd' = cmd /\ conf' = conf /\ proc'[p] = proc[p] /\ (db' = db \/ CommitWork(r))
  BY OthersSee
<1>2. beside[p] \subseteq beside'[p] /\ (Running(p) => r \in beside'[p])
  <2>1. CASE Start(r)
    BY <2>1, StartIs
  <2>2. CASE ~Start(r)
    BY <2>2, OthersSee DEF LockInv
  <2>3. QED
    BY <2>1, <2>2
<1>3. Adder(p) => Adder(p)'
  BY <1>1, <1>2 DEF Adder
<1>4. PICK o, d : o = proc[p].out /\ d = db'
  OBVIOUS
<1>5. Named(o)' <=> Named(o)
  BY <1>1 DEF Named, NamesIn
<1>6. ASSUME cmd[p].do = "dump", Running(p), NEW n \in 1 .. 11, DumpAt(p, n) PROVE DumpAt(p, n)'
  <2>1. ~Adder(p) => Complete(o, d, n) /\ Named(o)
    <3>1. ASSUME ~Adder(p) PROVE Complete(o, d, n)
      <4>1. Complete(o, db, n)
        BY <1>4, <1>6, <3>1 DEF DumpAt
      <4>2. QED
        BY <1>1, <1>4, <1>6, <3>1, <4>1, CompleteStays
    <3>2. QED
      BY <1>4, <1>6, <3>1 DEF DumpAt
  <2>2. Complete(o, d, n) => Complete(proc[p].out, db, n)'
    BY <1>1, <1>4 DEF Complete, Rows
  <2>3. Named(o) => Named(proc[p].out)'
    BY <1>1, <1>4, <1>5 DEF Named, NamesIn
  <2>4. beside'[p] # {}
    BY <1>2, <1>6
  <2>5. Rest(proc[p].todo, n)' /\ \A k \in DOMAIN proc'[p].out : k[1] \in Done(n)
    BY <1>1, <1>6 DEF DumpAt, Rest
  <2>6. QED
    BY <1>3, <2>1, <2>2, <2>3, <2>4, <2>5 DEF DumpAt
<1>7. ASSUME cmd[p].do = "dump", proc[p].state = "done" PROVE Adder(p)' \/ Named(proc[p].out)'
  <2>1. Adder(p) \/ Named(o)
    BY <1>4, <1>7 DEF Dumped
  <2>2. Named(o) => Named(proc[p].out)'
    BY <1>1, <1>4, <1>5 DEF Named, NamesIn
  <2>3. QED
    BY <1>3, <2>1, <2>2
<1>8. QED
  BY <1>1, <1>6, <1>7 DEF Dumped, Running

(* The first step of what is left of a dump.                               *)
LEMMA RestIs ==
  ASSUME NEW t, t \in Seq(Range(t)), NEW n \in 1 .. 11, Rest(t, n)
  PROVE  /\ t = <<>> <=> n = 11
         /\ t # <<>> => n \in 1 .. 10 /\ Head(t) = Extract(DataTypes[n]) /\ Rest(Tail(t), n + 1)
<1>1. Len(t) = 11 - n /\ \A i \in 1 .. Len(t) : t[i] = Extract(DataTypes[n - 1 + i])
  BY DEF Rest
<1>2. t = <<>> <=> n = 11
  BY <1>1, EmptySeq, LenProperties
<1>3. ASSUME t # <<>> PROVE n \in 1 .. 10 /\ Head(t) = Extract(DataTypes[n]) /\ Rest(Tail(t), n + 1)
  <2>1. Head(t) = t[1] /\ Len(Tail(t)) = Len(t) - 1 /\ \A i \in 1 .. Len(Tail(t)) : Tail(t)[i] = t[i + 1]
    BY <1>3, HeadTailProperties
  <2>2. n \in 1 .. 10
    BY <1>2, <1>3
  <2>3. 1 \in 1 .. Len(t) /\ n - 1 + 1 = n
    BY <1>1, <2>2
  <2>4. Head(t) = Extract(DataTypes[n])
    BY <1>1, <2>1, <2>3
  <2>5. ASSUME NEW i \in 1 .. Len(Tail(t)) PROVE Tail(t)[i] = Extract(DataTypes[(n + 1) - 1 + i])
    <3>1. i + 1 \in 1 .. Len(t) /\ n - 1 + (i + 1) = (n + 1) - 1 + i
      BY <1>1, <2>1, <2>2
    <3>2. QED
      BY <1>1, <2>1, <3>1
  <2>6. Len(Tail(t)) = 11 - (n + 1)
    BY <1>1, <2>1, <2>2
  <2>7. QED
    BY <2>2, <2>4, <2>5, <2>6 DEF Rest
<1>4. QED
  BY <1>2, <1>3

LEMMA DumpStarts ==
  ASSUME TypeInv, NEW p \in Procs, Start(p), cmd[p].do = "dump"
  PROVE  DumpAt(p, 1)'
<1>1. proc'[p].todo = Dump /\ cmd' = cmd
  BY StartIs DEF Script
<1>2. proc'[p].out = <<>>
  <2>1. Becomes(p, [Idle EXCEPT !.state = "running", !.todo = Script(p, db)])
    BY DEF Start
  <2>2. QED
    BY <2>1, OnlyOneBecomes DEF TypeInv, Idle
<1>3. DOMAIN proc'[p].out = {}
  BY <1>2
<1>4. Len(Dump) = 10 /\ \A i \in 1 .. 10 : Dump[i] = Extract(DataTypes[i])
  BY TablesInOrder DEF Dump
<1>5. Rest(proc[p].todo, 1)'
  BY <1>1, <1>4 DEF Rest
<1>6. Complete(proc[p].out, db, 1)'
  BY <1>3, AllAreRead DEF Complete
<1>7. Named(proc[p].out)' /\ Shown(proc[p].out, db, 1)'
  BY <1>3, AllAreRead DEF Named, Shown
<1>8. QED
  BY <1>3, <1>5, <1>6, <1>7 DEF DumpAt

LEMMA DumpReads ==
  ASSUME TypeInv, WholeInv, NEW p \in Procs, ExtractTable(p), NEW n \in 1 .. 11, DumpAt(p, n)
  PROVE  n + 1 \in 1 .. 11 /\ DumpAt(p, n + 1)'
<1>0. PICK t, d, o : t = DataTypes[n] /\ d = db /\ o = proc[p].out
  OBVIOUS
<1>1. proc[p].todo # <<>> /\ UNCHANGED <<conf, cmd, db, beside>>
  BY DEF ExtractTable, At
<1>2. Planned(cmd[p].do, proc[p].todo) /\ DOMAIN proc = Procs /\ DOMAIN proc[p] = Fields
  BY DEF TypeInv, ProcOK
<1>3. n \in 1 .. 10 /\ Step(p) = Extract(t) /\ Rest(Tail(proc[p].todo), n + 1)
  BY <1>0, <1>1, <1>2, RestIs DEF DumpAt, Planned, Step
<1>4. Step(p).table = t
  BY <1>3 DEF Extract
<1>5. PICK e : e = Over([k \in Extracted(d, t) |-> d[k]], o)
  OBVIOUS
<1>6. proc'[p].out = e /\ proc'[p].todo = Tail(proc[p].todo)
  <2>1. Becomes(p, [proc[p] EXCEPT !.out = e, !.todo = Tail(proc[p].todo)])
    BY <1>0, <1>4, <1>5 DEF ExtractTable
  <2>2. QED
    BY <1>2, <2>1 DEF Becomes, Fields
<1>7. \A k \in DOMAIN e : k[1] \in Done(n + 1)
  <2>1. DOMAIN e = Extracted(d, t) \cup DOMAIN o
    BY <1>5 DEF Over
  <2>2. \A k \in Extracted(d, t) : k[1] = t
    BY DEF Extracted, Rows
  <2>3. Done(n + 1) = Done(n) \cup {t}
    BY <1>0, <1>3, ReadBefore
  <2>4. QED
    BY <1>0, <2>1, <2>2, <2>3 DEF DumpAt
<1>8. Adder(p) \/ (Complete(e, d, n + 1) /\ Named(e))
  <2>1. ASSUME ~Adder(p) PROVE Complete(e, d, n + 1) /\ Named(e)
    <3>1. Complete(o, d, n) /\ Named(o) /\ \A k \in DOMAIN o : k[1] \in Done(n)
      BY <1>0, <2>1 DEF DumpAt
    <3>2. QED
      BY <1>0, <1>3, <1>5, <3>1, ReadingCompletes
  <2>2. QED
    BY <2>1
<1>9. beside[p] = {} => Shown(e, d, n + 1)
  <2>1. beside[p] = {} => Shown(o, d, n)
    BY <1>0 DEF DumpAt
  <2>2. QED
    BY <1>0, <1>3, <1>5, <2>1, ReadingShows
<1>10. /\ Complete(proc[p].out, db, n + 1)' <=> Complete(e, d, n + 1)
       /\ Named(proc[p].out)' <=> Named(e)
       /\ Shown(proc[p].out, db, n + 1)' <=> Shown(e, d, n + 1)
  <2>1. Complete(proc[p].out, db, n + 1)' <=> Complete(e, d, n + 1)
    BY <1>0, <1>1, <1>6 DEF Complete, Rows
  <2>2. Named(proc[p].out)' <=> Named(e)
    BY <1>1, <1>6 DEF Named, NamesIn
  <2>3. Shown(proc[p].out, db, n + 1)' <=> Shown(e, d, n + 1)
    BY <1>0, <1>1, <1>6 DEF Shown, Rows, Extracted, Joined, HasPages, GroupShown
  <2>4. QED
    BY <2>1, <2>2, <2>3
<1>11. Adder(p)' <=> Adder(p)
  BY <1>1 DEF Adder
<1>12. Rest(proc[p].todo, n + 1)'
  BY <1>3, <1>6 DEF Rest
<1>13. QED
  BY <1>1, <1>3, <1>6, <1>7, <1>8, <1>9, <1>10, <1>11, <1>12 DEF DumpAt

LEMMA DumpOwn ==
  ASSUME TypeInv, LockInv, WholeInv, NEW p \in Procs, Work(p) \/ GiveUp(p), Dumped(p)
  PROVE  Dumped(p)'
<1>0. cmd' = cmd
  BY OthersSee
<1> SUFFICES ASSUME cmd[p].do = "dump"
             PROVE  /\ Running(p)' => \E n \in 1 .. 11 : DumpAt(p, n)'
                    /\ proc'[p].state = "done" => Adder(p)' \/ Named(proc[p].out)'
  BY <1>0 DEF Dumped
<1>1. CASE Start(p)
  <2>1. DumpAt(p, 1)' /\ 1 \in 1 .. 11 /\ proc'[p].state = "running"
    BY <1>1, DumpStarts, StartIs
  <2>2. QED
    BY <2>1
<1>2. CASE ~Start(p)
  <2>1. Running(p) /\ beside' = beside /\ conf' = conf
    BY <1>2, OthersSee
  <2>2. PICK n \in 1 .. 11 : DumpAt(p, n)
    BY <2>1 DEF Dumped
  <2>3. Planned(cmd[p].do, proc[p].todo) /\ DOMAIN proc = Procs /\ DOMAIN proc[p] = Fields
    BY DEF TypeInv, ProcOK
  <2>4. proc[p].todo # <<>> => Step(p).op = "extract"
    BY <2>2, <2>3, RestIs DEF DumpAt, Planned, Step, Extract
  <2>5. CASE ExtractTable(p)
    <3>1. proc'[p].state = "running"
      BY <2>5, ReadingIs
    <3>2. QED
      BY <2>2, <2>5, <3>1, DumpReads
  <2>6. CASE CommitWork(p)
    <3>1. proc[p].todo = <<>>
      BY <2>4, <2>6 DEF CommitWork, At
    <3>2. Becomes(p, Closed([proc[p] EXCEPT !.state = "done"]))
      BY <2>6, <3>1 DEF CommitWork
    <3>3. proc'[p].out = proc[p].out /\ proc'[p].state = "done"
      BY <2>3, <3>2 DEF Becomes, Closed, Fields
    <3>4. Adder(p) \/ Named(proc[p].out)
      BY <2>2 DEF DumpAt
    <3>5. Named(proc[p].out)' <=> Named(proc[p].out)
      BY <2>1, <3>3 DEF Named, NamesIn
    <3>6. Adder(p)' <=> Adder(p)
      BY <1>0, <2>1 DEF Adder
    <3>7. QED
      BY <3>3, <3>4, <3>5, <3>6 DEF Running
  <2>7. CASE Refused(p) \/ GiveUp(p)
    BY <2>7, RollBackIs DEF Refused, GiveUp, Running
  <2>8. CASE ExpandRefund(p) \/ PayUser(p) \/ FindPages(p) \/ LookAtLast(p) \/ Execute(p)
    BY <2>4, <2>8, StatementIs DEF ExpandRefund, PayUser, FindPages, LookAtLast, At, Writes
  <2>9. QED
    BY <1>2, <2>5, <2>6, <2>7, <2>8 DEF Work
<1>3. QED
  BY <1>1, <1>2

LEMMA DumpInit == ASSUME Init PROVE DumpInv
<1>1. \A p \in Procs : cmd[p].do = "dump" => proc[p].state = "ready"
  BY DEF Init, Idle
<1>2. QED
  BY <1>1 DEF DumpInv, Dumped, Running

LEMMA DumpNext ==
  ASSUME TypeInv, LockInv, NamesInv, AddedInv, WholeInv, DumpInv, [Next]_vars
  PROVE  DumpInv'
<1>1. CASE UNCHANGED vars
  <2>1. conf' = conf /\ cmd' = cmd /\ db' = db /\ proc' = proc /\ beside' = beside
    BY <1>1 DEF vars
  <2>2. ASSUME NEW p \in Procs PROVE Dumped(p)'
    <3>1. PICK o, d, t : o = proc[p].out /\ d = db /\ t = proc[p].todo
      OBVIOUS
    <3>2. ASSUME NEW n PROVE DumpAt(p, n) => DumpAt(p, n)'
      <4>1. Complete(proc[p].out, db, n)' <=> Complete(o, d, n)
        BY <2>1, <3>1 DEF Complete, Rows
      <4>2. Shown(proc[p].out, db, n)' <=> Shown(o, d, n)
        BY <2>1, <3>1 DEF Shown, Rows, Extracted, Joined, HasPages, GroupShown
      <4>3. Named(proc[p].out)' <=> Named(o)
        BY <2>1, <3>1 DEF Named, NamesIn
      <4>4. Rest(proc[p].todo, n)' <=> Rest(t, n)
        BY <2>1, <3>1 DEF Rest
      <4>5. QED
        BY <2>1, <3>1, <4>1, <4>2, <4>3, <4>4 DEF DumpAt, Adder
    <3>3. Named(proc[p].out)' <=> Named(o)
      BY <2>1, <3>1 DEF Named, NamesIn
    <3>4. QED
      BY <2>1, <3>1, <3>2, <3>3 DEF DumpInv, Dumped, Adder, Running
  <2>3. QED
    BY <2>2 DEF DumpInv
<1>2. ASSUME NEW r \in Procs, Work(r) \/ GiveUp(r) PROVE \A p \in Procs : Dumped(p)'
  BY <1>2, DumpOwn, DumpOthers DEF DumpInv
<1>3. CASE \A p \in Procs : Dumped(p)'
  BY <1>3 DEF DumpInv
<1>4. QED
  BY <1>1, <1>2, <1>3 DEF Next, AllOver

LEMMA DumpsNameWhatTheyHave ==
  ASSUME DumpInv
  PROVE  DumpNamesWhatItHas
BY DEF DumpInv, Dumped, Named, NamesIn, Adder, Adding, DumpNamesWhatItHas

(* A row that is not shown when it can be refers to nothing, or to a row   *)
(* that does, or is a group's without pages.                               *)
LEMMA NotShown ==
  ASSUME TypeInv, NEW k \in DOMAIN db, k \notin Extracted(db, k[1])
  PROVE  (\E x \in {k} \cup Referred(db, k) : Orphan(db, x)) \/ (k[1] = "grouppquota" /\ ~HasPages(db, db[k]))
<1> SUFFICES ASSUME k[1] = "grouppquota" => HasPages(db, db[k])
             PROVE  \E x \in {k} \cup Referred(db, k) : Orphan(db, x)
  OBVIOUS
<1>1. PICK r : r = db[k]
  OBVIOUS
<1>2. PICK x \in Joined(k, r) : x \notin DOMAIN db
  <2>1. ~(Joined(k, r) \subseteq DOMAIN db)
    BY <1>1 DEF Extracted, Rows, GroupShown
  <2>2. QED
    BY <2>1
<1>3. \A y \in DOMAIN db : \A s : x[1] \in Heads => x \notin Names(y, s)
  BY <1>2, ItsOnlyName DEF Heads
<1>4. CASE k[1] # "jobhistory"
  <2>1. x \in References(k[1], r) /\ x[1] \in Heads
    BY <1>2, <1>4 DEF Joined, References, Heads
  <2>2. Orphan(db, k)
    BY <1>1, <1>3, <2>1 DEF Orphan
  <2>3. QED
    BY <2>2
<1>5. CASE k[1] = "jobhistory"
  <2>1. x \in {<<"users", r.user>>, <<"printers", r.printer>>} /\ x[1] \in Heads
    BY <1>2, <1>5 DEF Joined, Heads
  <2>2. PICK e : e = <<"entry of", r.user, r.printer>>
    OBVIOUS
  <2>3. References(k[1], r) = {e}
    BY <1>5, <2>2 DEF References
  <2>4. CASE \A y \in DOMAIN db : e \notin Names(y, db[y])
    <3>1. Orphan(db, k)
      BY <1>1, <2>3, <2>4 DEF Orphan
    <3>2. QED
      BY <3>1
  <2>5. ASSUME NEW y \in DOMAIN db, e \in Names(y, db[y]) PROVE y \in Referred(db, k) /\ Orphan(db, y)
    <3>1. y \in TableNames \X Nat /\ e[1] = "entry of"
      BY <2>2 DEF TypeInv, IsKey
    <3>2. y # e
      <4>1. y[1] \in TableNames
        BY <3>1
      <4>2. QED
        BY <3>1, <4>1 DEF TableNames
    <3>3. y[1] = "userpquota" /\ db[y].user = r.user /\ db[y].printer = r.printer
      BY <2>2, <2>5, <3>2 DEF Names
    <3>4. x \in References(y[1], db[y])
      BY <2>1, <3>3 DEF References
    <3>5. Orphan(db, y)
      BY <1>3, <2>1, <3>4 DEF Orphan
    <3>6. y \in Referred(db, k)
      BY <1>1, <2>3, <2>5 DEF Referred
    <3>7. QED
      BY <3>5, <3>6
  <2>6. QED
    BY <2>4, <2>5
<1>6. QED
  BY <1>4, <1>5

LEMMA DumpEnds ==
  ASSUME TypeInv, DumpInv, NEW p \in Procs, cmd[p].do = "dump", Running(p), beside[p] = {}, CommitWork(p)
  PROVE  Shown(proc[p].out, db, 11)
<1>1. PICK n \in 1 .. 11 : DumpAt(p, n)
  BY DEF DumpInv, Dumped
<1>2. Planned(cmd[p].do, proc[p].todo)
  BY DEF TypeInv, ProcOK
<1>3. proc[p].todo # <<>> => Step(p).op = "extract"
  BY <1>1, <1>2, RestIs DEF DumpAt, Planned, Step, Extract
<1>4. n = 11
  BY <1>1, <1>2, <1>3, RestIs DEF CommitWork, At, DumpAt, Planned
<1>5. QED
  BY <1>1, <1>4 DEF DumpAt

-----------------------------------------------------------------------------
(* Whose rows: on PostgreSQL, which gives no identifier twice, the users   *)
(* and quota entries that a job or a refund changes are those of the users *)
(* it names, or are gone for good; and a job that charges has its own      *)
(* quota entry from the first.                                             *)

Gone(k) ==
  k \notin DOMAIN db /\ k[2] \in 1 .. seq[k[1]] /\ \A q \in Procs : k \notin DOMAIN proc[q].own
UserOf(p, k)   == (k \in DOMAIN db /\ db[k].name \in cmd[p].users) \/ Gone(k)
QuotaOf(p, k) == (k \in DOMAIN db /\ UserOf(p, <<"users", db[k].user>>)) \/ Gone(k)
Mine(p, k)    == (k[1] = "users" => UserOf(p, k)) /\ (k[1] = "userpquota" => QuotaOf(p, k))
Itself(p, k)  == k \in DOMAIN proc[p].own \/ Gone(k) \/ Step(p) = LeftAsItWas(k)

ItsOwn(p, s) ==
  /\ s.key[1] # "jobhistory"
  /\ s.key[1] = "userpquota" /\ s.how # "above" /\ s.num # 0 => Itself(p, s.key)
NamesMine(p, s) ==
  /\ s.op = "update" => Mine(p, s.key) /\ (cmd[p].do = "job" => ItsOwn(p, s))
  /\ s.op \in {"refund", "payback"} => s.user \in cmd[p].users
  /\ s.op = "pages" => UserOf(p, <<"users", s.user>>)
MineOK(p) ==
  /\ \A k \in DOMAIN proc[p].own : Mine(p, k)
  /\ Running(p) => \A s \in Range(proc[p].todo) : NamesMine(p, s)
MineInv == conf.engine # "sqlite" => \A p \in Procs : cmd[p].do \in {"job", "refund"} => MineOK(p)

(* What is gone stays so.                                                  *)
LEMMA GoneStays ==
  ASSUME TypeInv, LockInv, NEW r \in Procs, Work(r) \/ GiveUp(r), conf.engine # "sqlite",
         NEW k, k[1] \in TableNames, Gone(k)
  PROVE  Gone(k)'
<1>1. /\ \A q \in Procs : q # r => proc'[q] = proc[q]
      /\ db' = db \/ CommitWork(r)
  BY OthersSee
<1>2. k \notin DOMAIN db /\ k[2] \in 1 .. seq[k[1]] /\ \A q \in Procs : k \notin DOMAIN proc[q].own
  BY DEF Gone
<1>3. k \notin DOMAIN View(r)
  BY <1>2, ViewIs
<1>4. k \notin DOMAIN db'
  BY <1>1, <1>2, <1>3, CommitIs
<1>5. k \notin DOMAIN proc'[r].own
  BY <1>2, <1>3, FreshOrThere
<1>6. \A q \in Procs : k \notin DOMAIN proc'[q].own
  BY <1>1, <1>2, <1>5
<1>7. k[2] \in 1 .. seq'[k[1]]
  <2>1. seq[k[1]] <= seq'[k[1]]
    BY FreshOrThere
  <2>2. seq[k[1]] \in Nat /\ seq'[k[1]] \in Nat
    BY TypeNext DEF TypeInv, Next
  <2>3. QED
    BY <1>2, <2>1, <2>2
<1>8. QED
  BY <1>4, <1>6, <1>7 DEF Gone

(* A row that is there stays that of its user, or is gone.                 *)
LEMMA VersionsAgree ==
  ASSUME NamesInv, NEW p \in Procs, NEW k \in DOMAIN proc[p].own, k \in DOMAIN db
  PROVE  /\ k[1] = "users" => proc[p].own[k].name = db[k].name
         /\ k[1] = "userpquota" => proc[p].own[k].user = db[k].user
<1>1. Fits(k, proc[p].own[k], k, db[k])
  BY SourcesAre DEF NamesInv, Agree
<1>2. k[1] \in Unique => UniqueKey(k[1], proc[p].own[k]) = UniqueKey(k[1], db[k])
  BY <1>1 DEF Fits, Same
<1>3. \A a, b, c, d : <<a, b>> = <<c, d>> => a = c
  OBVIOUS
<1>4. QED
  BY <1>2, <1>3 DEF UniqueKey, Unique, TableNames

LEMMA RowsStay ==
  ASSUME TypeInv, LockInv, NamesInv, NEW r \in Procs, Work(r) \/ GiveUp(r), conf.engine # "sqlite",
         NEW k \in DOMAIN db
  PROVE  \/ Gone(k)'
         \/ /\ k \in DOMAIN db'
            /\ k[1] = "users" => db'[k].name = db[k].name
            /\ k[1] = "userpquota" => db'[k].user = db[k].user
<1>1. /\ \A q \in Procs : q # r => proc'[q] = proc[q]
      /\ db' = db \/ CommitWork(r)
  BY OthersSee
<1>2. CASE db' = db
  BY <1>2
<1>3. CASE CommitWork(r)
  <2>1. /\ Running(r) /\ db' = View(r) /\ seq' = seq
        /\ DOMAIN proc'[r].own = {}
    BY <1>3, CommitIs
  <2>2. CASE k \in DOMAIN proc[r].own
    <3>1. k \in DOMAIN db' /\ db'[k] = proc[r].own[k]
      BY <2>1, <2>2, ViewIs
    <3>2. QED
      BY <2>2, <3>1, VersionsAgree
  <2>3. CASE k \notin DOMAIN proc[r].own /\ k \notin proc[r].gone
    <3>1. k \in DOMAIN db' /\ db'[k] = db[k]
      BY <2>1, <2>3, ViewIs
    <3>2. QED
      BY <3>1
  <2>4. CASE k \notin DOMAIN proc[r].own /\ k \in proc[r].gone
    <3>1. k \notin DOMAIN db'
      BY <2>1, <2>4, ViewIs
    <3>2. k[2] \in 1 .. seq'[k[1]]
      BY <2>1 DEF TypeInv, IsKey
    <3>3. ASSUME NEW q \in Procs PROVE k \notin DOMAIN proc'[q].own
      <4>1. CASE q = r
        BY <2>1, <4>1
      <4>2. CASE q # r
        <5>1. Written(q) \cap Written(r) = {} /\ k \in Written(r)
          BY <2>4, <4>2 DEF LockInv, Apart, Written
        <5>2. QED
          BY <1>1, <4>2, <5>1 DEF Written
      <4>3. QED
        BY <4>1, <4>2
    <3>4. QED
      BY <3>1, <3>2, <3>3 DEF Gone
  <2>5. QED
    BY <2>2, <2>3, <2>4
<1>4. QED
  BY <1>1, <1>2, <1>3

LEMMA UserStays ==
  ASSUME TypeInv, LockInv, NamesInv, NEW r \in Procs, Work(r) \/ GiveUp(r), conf.engine # "sqlite",
         NEW p \in Procs, NEW k, k[1] = "users", UserOf(p, k)
  PROVE  UserOf(p, k)'
<1>1. cmd' = cmd /\ "users" \in TableNames
  BY OthersSee DEF TableNames
<1>2. CASE Gone(k)
  <2>1. Gone(k)'
    BY <1>1, <1>2, GoneStays
  <2>2. QED
    BY <2>1 DEF UserOf
<1>3. CASE k \in DOMAIN db /\ db[k].name \in cmd[p].users
  <2>1. Gone(k)' \/ (k \in DOMAIN db' /\ db'[k].name = db[k].name)
    BY <1>3, RowsStay
  <2>2. QED
    BY <1>1, <1>3, <2>1 DEF UserOf
<1>4. QED
  BY <1>2, <1>3 DEF UserOf

LEMMA MineStays ==
  ASSUME TypeInv, LockInv, NamesInv, NEW r \in Procs, Work(r) \/ GiveUp(r), conf.engine # "sqlite",
         NEW p \in Procs, NEW k, Mine(p, k)
  PROVE  Mine(p, k)'
<1>1. k[1] = "users" => UserOf(p, k)'
  BY UserStays DEF Mine
<1>2. ASSUME k[1] = "userpquota" PROVE QuotaOf(p, k)'
  <2>1. "userpquota" \in TableNames /\ QuotaOf(p, k)
    BY <1>2 DEF TableNames, Mine
  <2>2. CASE Gone(k)
    <3>1. Gone(k)'
      BY <1>2, <2>1, <2>2, GoneStays
    <3>2. QED
      BY <3>1 DEF QuotaOf
  <2>3. ASSUME k \in DOMAIN db, UserOf(p, <<"users", db[k].user>>) PROVE QuotaOf(p, k)'
    <3>1. PICK u : u = <<"users", db[k].user>>
      OBVIOUS
    <3>2. u[1] = "users" /\ UserOf(p, u)
      BY <2>3, <3>1
    <3>3. UserOf(p, u)'
      BY <3>2, UserStays
    <3>4. Gone(k)' \/ (k \in DOMAIN db' /\ db'[k].user = db[k].user)
      BY <1>2, <2>3, RowsStay
    <3>5. CASE Gone(k)'
      BY <3>5 DEF QuotaOf
    <3>6. CASE k \in DOMAIN db' /\ db'[k].user = db[k].user
      <4>1. <<"users", db'[k].user>> = u
        BY <3>1, <3>6
      <4>2. UserOf(p, <<"users", db[k].user>>)'
        BY <3>3, <4>1 DEF UserOf, Gone
      <4>3. QED
        BY <3>6, <4>2 DEF QuotaOf
    <3>7. QED
      BY <3>4, <3>5, <3>6
  <2>4. QED
    BY <2>1, <2>2, <2>3 DEF QuotaOf
<1>3. QED
  BY <1>1, <1>2 DEF Mine

(* What a step names stays so, whether it is its turn or not, if the       *)
(* process keeps its rows and does not go past its first step.             *)
LEMMA NamesMineStays ==
  ASSUME TypeInv, LockInv, NamesInv, NEW r \in Procs, Work(r) \/ GiveUp(r), conf.engine # "sqlite",
         NEW p \in Procs, DOMAIN proc[p].own \subseteq DOMAIN proc'[p].own,
         NEW s, NamesMine(p, s),
         \A k : Step(p) = LeftAsItWas(k) /\ Itself(p, k) /\ cmd[p].do = "job" /\ Mine(p, k) /\ k[1] = "userpquota" => Itself(p, k)'
  PROVE  NamesMine(p, s)'
<1>1. cmd' = cmd /\ "userpquota" \in TableNames
  BY OthersSee DEF TableNames
<1>2. s.op = "update" => Mine(p, s.key)'
  BY MineStays DEF NamesMine
<1>3. s.op \in {"refund", "payback"} => s.user \in cmd'[p].users
  BY <1>1 DEF NamesMine
<1>4. ASSUME s.op = "pages" PROVE UserOf(p, <<"users", s.user>>)'
  <2>1. PICK u : u = <<"users", s.user>>
    OBVIOUS
  <2>2. u[1] = "users" /\ UserOf(p, u)
    BY <1>4, <2>1 DEF NamesMine
  <2>3. UserOf(p, u)'
    BY <2>2, UserStays
  <2>4. QED
    BY <2>1, <2>3
<1>5. ASSUME s.op = "update", cmd'[p].do = "job" PROVE ItsOwn(p, s)'
  <2>1. ItsOwn(p, s) /\ Mine(p, s.key) /\ cmd[p].do = "job"
    BY <1>1, <1>5 DEF NamesMine
  <2>2. ASSUME s.key[1] = "userpquota", Itself(p, s.key) PROVE Itself(p, s.key)'
    <3>1. PICK k : k = s.key
      OBVIOUS
    <3>2. CASE k \in DOMAIN proc[p].own
      BY <3>1, <3>2 DEF Itself
    <3>3. CASE Gone(k)
      <4>1. Gone(k)'
        BY <1>1, <2>2, <3>1, <3>3, GoneStays
      <4>2. QED
        BY <3>1, <4>1 DEF Itself
    <3>4. CASE Step(p) = LeftAsItWas(k)
      BY <2>1, <2>2, <3>1, <3>4
    <3>5. QED
      BY <2>2, <3>1, <3>2, <3>3, <3>4 DEF Itself
  <2>3. QED
    BY <2>1, <2>2 DEF ItsOwn
<1>6. QED
  BY <1>2, <1>3, <1>4, <1>5 DEF NamesMine

LEMMA MineOthers ==
  ASSUME TypeInv, LockInv, NamesInv, NEW r \in Procs, Work(r) \/ GiveUp(r), conf.engine # "sqlite",
         NEW p \in Procs, p # r, MineOK(p)
  PROVE  MineOK(p)'
<1>1. proc'[p] = proc[p]
  BY OthersSee
<1>2. \A k \in DOMAIN proc'[p].own : Mine(p, k)'
  BY <1>1, MineStays DEF MineOK
<1>3. ASSUME Running(p)', NEW s \in Range(proc'[p].todo) PROVE NamesMine(p, s)'
  <2>1. NamesMine(p, s) /\ Step(p)' = Step(p)
    BY <1>1, <1>3 DEF MineOK, Running, Step
  <2>2. \A k : Step(p) = LeftAsItWas(k) => Itself(p, k)'
    BY <2>1 DEF Itself
  <2>3. DOMAIN proc[p].own \subseteq DOMAIN proc'[p].own
    BY <1>1
  <2>4. QED
    BY <2>1, <2>2, <2>3, NamesMineStays
<1>4. QED
  BY <1>2, <1>3 DEF MineOK

(* What a job or a refund sees of users and quota entries is there.        *)
LEMMA SeenIsThere ==
  ASSUME TypeInv, NamesInv, AddedInv, NEW p \in Procs, cmd[p].do \in {"job", "refund"},
         NEW k \in DOMAIN View(p), k[1] \in {"users", "userpquota"}
  PROVE  /\ k \in DOMAIN db
         /\ k[1] = "users" => View(p)[k].name = db[k].name
         /\ k[1] = "userpquota" => View(p)[k].user = db[k].user
<1>1. CASE k \in DOMAIN proc[p].own
  <2>1. k \in DOMAIN db
    <3>1. ~AddedBy(cmd[p].do, k[1])
      BY DEF AddedBy
    <3>2. QED
      BY <1>1, <3>1 DEF AddedInv
  <2>2. View(p)[k] = proc[p].own[k]
    BY <1>1, ViewIs
  <2>3. QED
    BY <1>1, <2>1, <2>2, VersionsAgree
<1>2. CASE k \notin DOMAIN proc[p].own
  BY <1>2, ViewIs
<1>3. QED
  BY <1>1, <1>2

(* A process that reads has new steps, or one of them has changed.         *)
LEMMA MineReads ==
  ASSUME TypeInv, LockInv, NamesInv, AddedInv, conf.engine # "sqlite", NEW p \in Procs,
         cmd[p].do \in {"job", "refund"}, MineOK(p), Work(p),
         ExpandRefund(p) \/ PayUser(p) \/ FindPages(p) \/ LookAtLast(p) \/ ExtractTable(p)
  PROVE  MineOK(p)'
<1>1. /\ Running(p) /\ proc[p].todo # <<>> /\ UNCHANGED <<conf, cmd, db, seq, beside>>
      /\ proc'[p].own = proc[p].own /\ \A q \in Procs : q # p => proc'[q] = proc[q]
  BY ReadingIs
<1>2. PICK s, u : s = Step(p) /\ u = Tail(proc[p].todo)
  OBVIOUS
<1>3. /\ MayDo(cmd[p].do, s) /\ DOMAIN proc = Procs /\ DOMAIN proc[p] = Fields
      /\ u \in Seq(Range(u)) /\ Range(u) \subseteq Range(proc[p].todo) /\ s \in Range(proc[p].todo)
  BY <1>1, <1>2, StepMayBeDone, TailIsPlanned, HeadIsPlanned DEF TypeInv, ProcOK, Planned, Step
<1>4. s.op \in {"refund", "payback", "pages", "record", "extract"}
  BY <1>2 DEF ExpandRefund, PayUser, FindPages, LookAtLast, ExtractTable, At
<1>5. \A k : s # LeftAsItWas(k)
  BY <1>4 DEF LeftAsItWas
<1>6. \A x : NamesMine(p, x) => NamesMine(p, x)'
  <2>1. DOMAIN proc[p].own \subseteq DOMAIN proc'[p].own
    BY <1>1
  <2>2. QED
    BY <1>2, <1>5, <2>1, NamesMineStays
<1>7. \A k \in DOMAIN proc'[p].own : Mine(p, k)'
  BY <1>1, MineStays DEF MineOK
<1>8. ASSUME NEW t, t \in Seq(Range(t)), proc'[p].todo = t \o u, \A x \in Range(t) : NamesMine(p, x)
      PROVE  MineOK(p)'
  <2>1. \A x \in Range(t \o u) : NamesMine(p, x)
    <3>1. Range(t \o u) \subseteq Range(t) \cup Range(u)
      BY <1>3, <1>8, RangeOfBoth
    <3>2. QED
      BY <1>1, <1>3, <1>8, <3>1 DEF MineOK
  <2>2. QED
    BY <1>6, <1>7, <1>8, <2>1 DEF MineOK
<1>9. NamesMine(p, s)
  BY <1>1, <1>3 DEF MineOK
<1>10. CASE ExpandRefund(p)
  <2>1. s.op = "refund" /\ cmd[p].do = "refund" /\ s.user \in cmd[p].users
    BY <1>2, <1>3, <1>9, <1>10 DEF ExpandRefund, At, MayDo, NamesMine
  <2>2. PICK code : code = ForCode(View(p), s, 0 - s.num)
    OBVIOUS
  <2>3. Becomes(p, [proc[p] EXCEPT !.todo = code \o <<PayBack(s)>> \o u])
    BY <1>2, <1>10, <2>2 DEF ExpandRefund
  <2>4. code \in Seq(CodeSteps(View(p), 0 - s.num))
    BY <2>2, ViewIsTidy, CodesHaveSteps DEF Tidy
  <2>5. \A x \in CodeSteps(View(p), 0 - s.num) : NamesMine(p, x)
    BY <2>1 DEF CodeSteps, Rows, Increase, NamesMine, Mine
  <2>6. PayBack(s).op = "payback" /\ PayBack(s).user = s.user
    BY <1>3, <2>1 DEF PayBack, MayDo
  <2>7. NamesMine(p, PayBack(s))
    BY <2>1, <2>6 DEF NamesMine
  <2>8. PICK S : S = CodeSteps(View(p), 0 - s.num) \cup {PayBack(s)}
    OBVIOUS
  <2>9. code \in Seq(S) /\ <<PayBack(s)>> \in Seq(S)
    BY <2>4, <2>8, SeqMonotonic
  <2>10. PICK t : t = code \o <<PayBack(s)>>
    OBVIOUS
  <2>11. t \in Seq(S)
    BY <2>9, <2>10, ConcatProperties
  <2>12. t \in Seq(Range(t)) /\ \A x \in Range(t) : NamesMine(p, x)
    BY <2>5, <2>7, <2>8, <2>11, OnlyWhatItHas
  <2>13. proc'[p].todo = t \o u
    BY <1>3, <2>3, <2>10 DEF Becomes, Fields
  <2>14. QED
    BY <1>8, <2>12, <2>13
<1>11. CASE PayUser(p)
  <2>1. s.op = "payback" /\ cmd[p].do = "refund" /\ s.user \in cmd[p].users
    BY <1>2, <1>3, <1>9, <1>11 DEF PayUser, At, MayDo, NamesMine
  <2>2. PICK us, t : us = Ids(View(p), "users", {s.user}) /\ t = RefundSteps(s, us)
    OBVIOUS
  <2>3. Becomes(p, [proc[p] EXCEPT !.todo = t \o u])
    BY <1>2, <1>11, <2>2 DEF PayUser
  <2>4. s.num \in Int /\ s.price \in Int /\ s.key[1] = "jobhistory"
    BY <1>3, <2>1 DEF MayDo
  <2>5. t \in Seq(Range(t))
    BY <2>2, <2>4, RefundIsPlanned DEF Planned
  <2>6. ASSUME NEW i \in us PROVE UserOf(p, <<"users", i>>)
    <3>1. PICK k : k = <<"users", i>>
      OBVIOUS
    <3>2. k \in DOMAIN View(p) /\ View(p)[k].name = s.user /\ k[1] = "users"
      BY <2>2, <3>1, ViewIsTidy, IdsAreThere DEF Tidy
    <3>3. k \in DOMAIN db /\ db[k].name = s.user
      BY <3>2, SeenIsThere
    <3>4. QED
      BY <2>1, <3>1, <3>3 DEF UserOf
  <2>7. PICK v : v = CHOOSE x \in us : TRUE
    OBVIOUS
  <2>8. us # {} => v \in us
    BY <2>7
  <2>9. PICK a, b, c, d, e : /\ a = Increase(<<"users", v>>, s.price)
                             /\ b = Insert("payments", Row(None, v, None, None, 0 - s.price, None))
                             /\ c = RefundPages(v, s.printer, s.num)
                             /\ d = Refunded(s.key) /\ e = Commit
    OBVIOUS
  <2>10. t = IF us = {} THEN <<d, e>> ELSE <<a, b, c, d, e>>
    BY <2>2, <2>7, <2>9 DEF RefundSteps
  <2>11. NamesMine(p, b) /\ NamesMine(p, d) /\ NamesMine(p, e)
    BY <2>1, <2>4, <2>9 DEF NamesMine, Insert, Refunded, Commit, Mine
  <2>12. us # {} => NamesMine(p, a)
    <3>1. a.op = "update" /\ a.key = <<"users", v>> /\ a.key[1] = "users"
      BY <2>9 DEF Increase
    <3>2. us # {} => Mine(p, a.key)
      BY <2>6, <2>8, <3>1 DEF Mine
    <3>3. QED
      BY <2>1, <3>1, <3>2 DEF NamesMine
  <2>13. us # {} => NamesMine(p, c)
    <3>1. c.op = "pages" /\ c.user = v
      BY <2>9 DEF RefundPages
    <3>2. QED
      BY <2>6, <2>8, <3>1 DEF NamesMine
  <2>14. Range(<<d, e>>) = {d, e} /\ Range(<<a, b, c, d, e>>) = {a, b, c, d, e}
    BY DEF Range
  <2>15. \A x \in Range(t) : NamesMine(p, x)
    BY <2>10, <2>11, <2>12, <2>13, <2>14
  <2>16. proc'[p].todo = t \o u
    BY <1>3, <2>3 DEF Becomes, Fields
  <2>17. QED
    BY <1>8, <2>5, <2>15, <2>16
<1>12. CASE FindPages(p)
  <2>1. s.op = "pages" /\ cmd[p].do = "refund" /\ UserOf(p, <<"users", s.user>>)
    BY <1>2, <1>3, <1>9, <1>12 DEF FindPages, At, MayDo, NamesMine
  <2>2. PICK X, t : /\ X = Having(View(p), "userpquota", {s.user}, Ids(View(p), "printers", {s.printer}))
                    /\ t = IF X = {} THEN <<>> ELSE <<Increase(CHOOSE x \in X : TRUE, 0 - s.num)>>
    OBVIOUS
  <2>3. Becomes(p, [proc[p] EXCEPT !.todo = t \o u])
    BY <1>2, <1>12, <2>2 DEF FindPages
  <2>4. ASSUME NEW k \in X PROVE Mine(p, k)
    <3>1. k \in DOMAIN View(p) /\ k[1] = "userpquota" /\ Selects(In("user", {s.user}), k, View(p)[k])
      BY <2>2 DEF Having, Rows
    <3>2. View(p)[k].user = s.user
      BY <3>1, InSelects
    <3>3. k \in DOMAIN db /\ db[k].user = s.user
      BY <3>1, <3>2, SeenIsThere
    <3>4. QED
      BY <2>1, <3>1, <3>3 DEF Mine, QuotaOf
  <2>5. PICK k : k = CHOOSE x \in X : TRUE
    OBVIOUS
  <2>6. PICK i : i = Increase(k, 0 - s.num)
    OBVIOUS
  <2>7. X # {} => NamesMine(p, i)
    <3>1. i.op = "update" /\ i.key = k
      BY <2>6 DEF Increase
    <3>2. X # {} => Mine(p, k)
      BY <2>4, <2>5
    <3>3. QED
      BY <2>1, <3>1, <3>2 DEF NamesMine
  <2>8. t = IF X = {} THEN <<>> ELSE <<i>>
    BY <2>2, <2>5, <2>6
  <2>9. t \in Seq(Range(t)) /\ \A x \in Range(t) : NamesMine(p, x)
    <3>1. Range(<<i>>) = {i} /\ Range(<<>>) = {}
      BY DEF Range
    <3>2. <<i>> \in Seq({i}) /\ <<>> \in Seq({})
      OBVIOUS
    <3>3. QED
      BY <2>7, <2>8, <3>1, <3>2
  <2>10. proc'[p].todo = t \o u
    BY <1>3, <2>3 DEF Becomes, Fields
  <2>11. QED
    BY <1>8, <2>9, <2>10
<1>13. CASE LookAtLast(p)
  <2>1. PICK v : v = [s EXCEPT !.last = LastJob(View(p), s.row.printer)]
    OBVIOUS
  <2>2. s.op = "record" /\ Becomes(p, [proc[p] EXCEPT !.todo = <<v>> \o u])
    BY <1>2, <1>13, <2>1 DEF LookAtLast, At
  <2>3. DOMAIN s = {"op", "row", "last"}
    BY <1>3, <2>2 DEF MayDo
  <2>4. v.op = "record"
    BY <2>1, <2>2, <2>3
  <2>5. NamesMine(p, v)
    BY <2>4 DEF NamesMine
  <2>6. <<v>> \in Seq(Range(<<v>>)) /\ \A x \in Range(<<v>>) : NamesMine(p, x)
    <3>1. Range(<<v>>) = {v}
      BY DEF Range
    <3>2. <<v>> \in Seq({v})
      OBVIOUS
    <3>3. QED
      BY <2>5, <3>1, <3>2
  <2>7. proc'[p].todo = <<v>> \o u
    BY <1>3, <2>2 DEF Becomes, Fields
  <2>8. QED
    BY <1>8, <2>6, <2>7
<1>14. CASE ExtractTable(p)
  BY <1>2, <1>3, <1>14 DEF ExtractTable, At, MayDo
<1>15. QED
  BY <1>10, <1>11, <1>12, <1>13, <1>14

(* The rows that a statement makes a process's own.                        *)
LEMMA StatementOwns ==
  ASSUME TypeInv, NEW p \in Procs, Execute(p), NEW k \in DOMAIN proc'[p].own
  PROVE  \/ k \in DOMAIN proc[p].own
         \/ Step(p).op = "update" /\ k = Step(p).key
         \/ Step(p).op = "record" /\ k[1] = "jobhistory"
         \/ Step(p).op = "insert" /\ k[1] = Step(p).table /\ k \notin DOMAIN View(p)
<1>1. Blockers(p) = {} /\ (Update(p) \/ InsertRow(p) \/ WriteJobNew(p) \/ DeleteRows(p))
  BY DEF Execute, Statement
<1>2. CASE Update(p)
  <2>1. PICK rows : Wrote(p, rows) /\ DOMAIN rows = Touched(p)
    BY <1>2, UpdateIs
  <2>2. DOMAIN proc'[p].own = Touched(p) \cup DOMAIN proc[p].own
    BY <2>1, WroteIs
  <2>3. Step(p).op = "update" /\ Touched(p) = {Step(p).key} \cap DOMAIN View(p)
    BY <1>2, UpdateIs
  <2>4. QED
    BY <2>2, <2>3
<1>3. ASSUME AddRow(p), Running(p), proc[p].todo # <<>>, Step(p).op \in {"insert", "record"}
      PROVE  k \in DOMAIN proc[p].own \/ (k[1] = NewTable(p) /\ k \notin DOMAIN View(p))
  <2>1. PICK x : x[1] = NewTable(p) /\ x \notin DOMAIN View(p) /\ Wrote(p, [y \in {x} |-> NewRow(p)])
    <3>1. PICK n, x : x = <<NewTable(p), n>> /\ x \notin DOMAIN View(p) /\ Wrote(p, [y \in {x} |-> NewRow(p)])
      BY <1>1, <1>3, AddRowIs
    <3>2. QED
      BY <3>1
  <2>2. PICK rows : rows = [y \in {x} |-> NewRow(p)]
    OBVIOUS
  <2>3. DOMAIN proc'[p].own = DOMAIN rows \cup DOMAIN proc[p].own
    BY <2>1, <2>2, WroteIs
  <2>4. DOMAIN rows = {x}
    BY <2>2
  <2>5. QED
    BY <2>1, <2>3, <2>4
<1>4. CASE InsertRow(p)
  <2>1. Running(p) /\ proc[p].todo # <<>> /\ Step(p).op = "insert" /\ AddRow(p)
    BY <1>4 DEF InsertRow, At
  <2>2. QED
    BY <1>3, <2>1 DEF NewTable
<1>5. CASE WriteJobNew(p)
  <2>1. Running(p) /\ proc[p].todo # <<>> /\ Step(p).op = "record"
    BY <1>5 DEF WriteJobNew, At
  <2>2. CASE Anew(p)
    <3>1. AddRow(p)
      BY <1>5, <2>2 DEF WriteJobNew
    <3>2. QED
      BY <1>3, <2>1, <3>1 DEF NewTable
  <2>3. CASE ~Anew(p)
    <3>1. PICK rows : rows = [y \in Touched(p) |-> NewRow(p)]
      OBVIOUS
    <3>2. Wrote(p, rows) /\ Step(p).last[1] = "jobhistory" /\ Touched(p) = {Step(p).last} \cap DOMAIN View(p)
      BY <1>5, <2>3, <3>1, ReplacedIs
    <3>3. DOMAIN proc'[p].own = DOMAIN rows \cup DOMAIN proc[p].own
      BY <3>2, WroteIs
    <3>4. DOMAIN rows = Touched(p)
      BY <3>1
    <3>5. QED
      BY <2>1, <3>2, <3>3, <3>4
  <2>4. QED
    BY <2>2, <2>3
<1>6. CASE DeleteRows(p)
  BY <1>6, DeleteIs
<1>7. QED
  BY <1>1, <1>2, <1>4, <1>5, <1>6

LEMMA MineExecutes ==
  ASSUME TypeInv, LockInv, NamesInv, conf.engine # "sqlite", NEW p \in Procs,
         cmd[p].do \in {"job", "refund"}, MineOK(p), Execute(p)
  PROVE  MineOK(p)'
<1>1. /\ Running(p) /\ proc[p].todo # <<>> /\ db' = db /\ cmd' = cmd
      /\ proc'[p].todo = Tail(proc[p].todo)
      /\ \/ Step(p).op = "update" /\ \E rows : Changes(p, rows)
         \/ Step(p).op = "record" /\ ~Anew(p) /\ \E rows : Replaces(p, rows) /\ DOMAIN rows = Touched(p)
         \/ (Step(p).op = "insert" \/ (Step(p).op = "record" /\ Anew(p))) /\ \E k : Adds(p, k)
         \/ Step(p).op = "delete" /\ DeleteRows(p)
      /\ Work(p)
  BY StatementIs DEF Work
<1>2. MayDo(cmd[p].do, Step(p)) /\ Step(p) \in Range(proc[p].todo)
      /\ Range(Tail(proc[p].todo)) \subseteq Range(proc[p].todo)
  BY <1>1, StepMayBeDone, TailIsPlanned, HeadIsPlanned DEF TypeInv, ProcOK, Planned, Step
<1>3. NamesMine(p, Step(p))
  BY <1>1, <1>2 DEF MineOK
<1>4. Step(p).op # "delete" /\ proc[p].gone = {}
  BY <1>2 DEF MayDo, Deleting, Deleters, TypeInv, ProcOK
<1>5. DOMAIN proc[p].own \subseteq DOMAIN proc'[p].own
  BY <1>1, <1>4, WroteIs DEF Changes, Replaces, Adds
<1>6. ASSUME NEW k \in DOMAIN proc'[p].own PROVE Mine(p, k)'
  <2>1. CASE k \in DOMAIN proc[p].own
    BY <1>1, <2>1, MineStays DEF MineOK
  <2>2. CASE Step(p).op = "update" /\ k = Step(p).key
    BY <1>1, <1>3, <2>2, MineStays DEF NamesMine
  <2>3. CASE k[1] \notin {"users", "userpquota"}
    BY <2>3 DEF Mine
  <2>4. CASE Step(p).op = "insert" /\ k[1] = Step(p).table
    BY <1>2, <2>3, <2>4 DEF MayDo, AddedBy
  <2>5. QED
    BY <1>6, <2>1, <2>2, <2>3, <2>4, StatementOwns
<1>7. ASSUME NEW k, Step(p) = LeftAsItWas(k), Mine(p, k), k[1] = "userpquota" PROVE Itself(p, k)'
  <2>1. Step(p).op = "update" /\ Step(p).key = k
    BY <1>7 DEF LeftAsItWas
  <2>2. Update(p)
    BY <2>1 DEF Execute, Statement, Update, InsertRow, WriteJobNew, DeleteRows, At
  <2>3. CASE k \in DOMAIN View(p)
    <3>1. PICK rows : Wrote(p, rows) /\ DOMAIN rows = Touched(p) /\ Touched(p) = {Step(p).key} \cap DOMAIN View(p)
      BY <2>2, UpdateIs
    <3>2. k \in DOMAIN proc'[p].own
      BY <2>1, <2>3, <3>1, WroteIs
    <3>3. QED
      BY <3>2 DEF Itself
  <2>4. CASE k \notin DOMAIN View(p)
    <3>1. k \notin DOMAIN db
      BY <1>4, <2>4, ViewIs
    <3>2. Gone(k) /\ k[1] \in TableNames
      BY <1>7, <3>1 DEF Mine, QuotaOf, TableNames
    <3>3. Gone(k)'
      BY <1>1, <3>2, GoneStays
    <3>4. QED
      BY <3>3 DEF Itself
  <2>5. QED
    BY <2>3, <2>4
<1>8. ASSUME NEW s \in Range(proc'[p].todo) PROVE NamesMine(p, s)'
  <2>1. NamesMine(p, s)
    BY <1>1, <1>2, <1>8 DEF MineOK
  <2>2. QED
    BY <1>1, <1>5, <1>7, <2>1, NamesMineStays
<1>9. QED
  BY <1>6, <1>8 DEF MineOK

(* A job goes by the entries it found; if it charges, its first step is to *)
(* leave its own entry as it was.                                          *)
LEMMA JobNamesItsOwn ==
  ASSUME TypeInv, NEW p \in Procs, cmd[p].do = "job", NEW t, proc'[p].todo = t, db' = db, cmd' = cmd,
         JobSteps(p, db, Ids(db, "users", cmd[p].users), t)
  PROVE  \A s \in Range(t) : NamesMine(p, s)'
<1> DEFINE us == Ids(db, "users", cmd[p].users)
<1>1. PICK u, q, row, l, reset, charge, code : JobParts(p, db, us, t, u, q, row, l, reset, charge, code)
  BY DEF JobSteps
<1>2. UserOf(p, <<"users", u>>)'
  <2>1. u \in us
    BY <1>1 DEF JobParts
  <2>2. <<"users", u>> \in DOMAIN db /\ db[<<"users", u>>].name \in cmd[p].users
    BY <2>1, DbIsTidy, IdsAreThere
  <2>3. QED
    BY <2>2 DEF UserOf
<1> HIDE DEF us
<1>3. ASSUME NEW k \in Rows(db, "userpquota"), db[k].user = u PROVE Mine(p, k)' /\ k[1] = "userpquota"
  <2>1. k \in DOMAIN db' /\ db'[k].user = u /\ k[1] = "userpquota"
    BY <1>3 DEF Rows
  <2>2. UserOf(p, <<"users", db[k].user>>)'
    BY <1>2, <1>3
  <2>3. QED
    BY <2>1, <2>2 DEF Mine, QuotaOf
<1>4. q \in Rows(db, "userpquota") /\ db[q].user = u /\ ResetSteps(q, reset) /\ ChargeSteps(db, u, q, row, charge)
      /\ (charge # <<>> => reset # <<>>) /\ code \in Seq(CodeSteps(db, row.num))
      /\ t = reset \o (charge \o (<<Record(row, l)>> \o code))
  BY <1>1 DEF JobParts
<1>5. Mine(p, q)' /\ q[1] = "userpquota"
  BY <1>3, <1>4
<1>6. NamesMine(p, Record(row, l))'
  BY DEF NamesMine, Record
<1>7. \A s \in CodeSteps(db, row.num) : NamesMine(p, s)'
  BY DEF CodeSteps, Rows, Increase, NamesMine, Mine, ItsOwn
<1>8. CASE reset = <<>>
  <2>1. PICK S : S = {Record(row, l)} \cup CodeSteps(db, row.num)
    OBVIOUS
  <2>2. <<Record(row, l)>> \in Seq(S) /\ code \in Seq(S) /\ charge = <<>>
    <3>1. Record(row, l) \in S /\ CodeSteps(db, row.num) \subseteq S
      BY <2>1
    <3>2. QED
      BY <1>4, <1>8, <3>1, SeqMonotonic
  <2>3. t \in Seq(S)
    <3>1. PICK w : w = <<Record(row, l)>> \o code
      OBVIOUS
    <3>2. w \in Seq(S)
      BY <2>2, <3>1, ConcatProperties
    <3>3. t = <<>> \o (<<>> \o w)
      BY <1>4, <1>8, <2>2, <3>1
    <3>4. QED
      BY <3>2, <3>3, ConcatEmptySeq
  <2>4. QED
    BY <1>6, <1>7, <2>1, <2>3, OnlyWhatItHas
<1>9. CASE reset = <<LeftAsItWas(q)>>
  <2>1. PICK S : /\ S = JobStepSet(db, u, q, row, l)
                 /\ reset \in Seq(S) /\ charge \in Seq(S) /\ <<Record(row, l)>> \in Seq(S) /\ code \in Seq(S)
    BY <1>1, JobPartsAreSeqs DEF JobParts
  <2>2. PICK w : w = charge \o (<<Record(row, l)>> \o code)
    OBVIOUS
  <2>3. w \in Seq(S) /\ t = reset \o w
    BY <1>4, <2>1, <2>2, ConcatProperties
  <2>4. t \in Seq(S) /\ Head(t) = LeftAsItWas(q)
    <3>1. Len(reset) = 1 /\ reset[1] = LeftAsItWas(q)
      BY <1>9
    <3>2. QED
      BY <2>1, <2>3, <3>1, ConcatProperties, HeadTailProperties, EmptySeq
  <2>5. Itself(p, q)'
    BY <2>4 DEF Itself, Step
  <2>6. NamesMine(p, LeftAsItWas(q))'
    BY <1>5 DEF LeftAsItWas, NamesMine, ItsOwn
  <2>7. NamesMine(p, Increase(q, row.num))'
    BY <1>5, <2>5 DEF Increase, NamesMine, ItsOwn
  <2>8. \A s \in AboveSteps(db, u, row.num) : NamesMine(p, s)'
    <3>1. ASSUME NEW k \in Rows(db, "userpquota"), db[k].user = u PROVE NamesMine(p, CountAbove(k, row.num))'
      BY <1>3, <3>1 DEF CountAbove, NamesMine, ItsOwn
    <3>2. QED
      BY <3>1 DEF AboveSteps
  <2>9. \A x \in Int : NamesMine(p, Increase(<<"users", u>>, x))'
    <3>1. ASSUME NEW x \in Int PROVE NamesMine(p, Increase(<<"users", u>>, x))'
      <4>1. PICK s : s = Increase(<<"users", u>>, x)
        OBVIOUS
      <4>2. s.op = "update" /\ s.key = <<"users", u>> /\ s.key[1] = "users"
        BY <4>1 DEF Increase
      <4>3. Mine(p, <<"users", u>>)'
        BY <1>2 DEF Mine
      <4>4. NamesMine(p, s)'
        BY <4>2, <4>3 DEF NamesMine, ItsOwn
      <4>5. QED
        BY <4>1, <4>4
    <3>2. QED
      BY <3>1
  <2>10. \A s \in S : NamesMine(p, s)'
    BY <1>6, <1>7, <2>1, <2>6, <2>7, <2>8, <2>9 DEF JobStepSet
  <2>11. QED
    BY <2>4, <2>10, OnlyWhatItHas
<1>10. QED
  BY <1>4, <1>8, <1>9 DEF ResetSteps

LEMMA RefundsNameMine ==
  ASSUME TypeInv, NEW p \in Procs, cmd[p].do = "refund", cmd' = cmd, db' = db, NEW ps, NEW t,
         t = Refunds(db, Ids(db, "users", cmd[p].users), ps)
  PROVE  \A s \in Range(t) : NamesMine(p, s)'
<1> DEFINE us == Ids(db, "users", cmd[p].users)
           X == {k \in Having(db, "jobhistory", us, ps) : ~db[k].refunded /\ db[k].num # 0}
           jobs == SetToSeq(X)
           S == {RefundJob(db, k) : k \in X}
<1>1. X \in SUBSET DOMAIN db
  BY DEF Having, Rows
<1>2. jobs \in Seq(X)
  <2> HIDE DEF X
  <2>1. QED
    BY <1>1, DbIsTidy, SomeRowsAreFinite, SetToSeqIsSeq
<1>3. ASSUME NEW k \in X, NEW s, s = RefundJob(db, k) PROVE NamesMine(p, s)'
  <2>1. Selects(In("user", us), k, db[k])
    BY DEF Having
  <2>2. PICK u : u = db[k].user
    OBVIOUS
  <2>3. u \in us
    <3> HIDE DEF us
    <3>1. QED
      BY <2>1, <2>2, InSelects
  <2>4. db[<<"users", u>>].name \in cmd[p].users
    BY <2>3, DbIsTidy, IdsAreThere
  <2>5. s.op = "refund" /\ s.user = db[<<"users", u>>].name
    BY <1>3, <2>2 DEF RefundJob
  <2>6. QED
    BY <2>4, <2>5 DEF NamesMine
<1>4. t \in Seq(S)
  <2> HIDE DEF jobs
  <2>1. DOMAIN jobs = 1 .. Len(jobs) /\ Len(jobs) \in Nat /\ \A i \in DOMAIN jobs : jobs[i] \in X
    BY <1>2
  <2>2. \A i \in 1 .. Len(jobs) : RefundJob(db, jobs[i]) \in S
    BY <2>1
  <2>3. t = [i \in DOMAIN jobs |-> RefundJob(db, jobs[i])]
    BY DEF Refunds, jobs
  <2> HIDE DEF S, X
  <2>4. QED
    BY <2>1, <2>2, <2>3
<1>5. \A s \in S : NamesMine(p, s)'
  BY <1>3
<1> HIDE DEF S
<1>6. QED
  BY <1>4, <1>5, OnlyWhatItHas

LEMMA MineStarts ==
  ASSUME TypeInv, NEW p \in Procs, cmd[p].do \in {"job", "refund"}, Start(p)
  PROVE  MineOK(p)'
<1> DEFINE us == Ids(db, "users", cmd[p].users)
           ps == Ids(db, "printers", cmd[p].printers)
<1>1. UNCHANGED <<conf, cmd, db, seq>> /\ proc'[p].own = <<>> /\ proc'[p].todo = Script(p, db)
  BY StartIs
<1>2. DOMAIN proc'[p].own = {}
  BY <1>1
<1>3. ASSUME \A s \in Range(proc'[p].todo) : NamesMine(p, s)' PROVE MineOK(p)'
  BY <1>2, <1>3 DEF MineOK
<1>4. CASE cmd[p].do = "job"
  <2>1. IsCommand(cmd[p]) /\ Script(p, db) = PrintJob(db, p, us, ps)
    BY <1>4 DEF Script, TypeInv
  <2>2. PICK t : t = Script(p, db)
    OBVIOUS
  <2>3. t = <<>> \/ JobSteps(p, db, us, t)
    <3> HIDE DEF us, ps
    <3>1. QED
      BY <2>1, <2>2, DbIsTidy, JobHasSteps
  <2>4. CASE t = <<>>
    <3>1. Range(t) = {}
      BY <2>4 DEF Range
    <3>2. QED
      BY <1>1, <1>3, <2>2, <3>1
  <2>5. CASE JobSteps(p, db, us, t)
    <3>1. \A s \in Range(t) : NamesMine(p, s)'
      BY <1>1, <1>4, <2>2, <2>5, JobNamesItsOwn
    <3>2. QED
      BY <1>1, <1>3, <2>2, <3>1
  <2>6. QED
    BY <2>3, <2>4, <2>5
<1>5. CASE cmd[p].do = "refund"
  <2>1. proc'[p].todo = Refunds(db, us, ps)
    BY <1>1, <1>5 DEF Script
  <2>2. QED
    <3> HIDE DEF ps
    <3>1. \A s \in Range(proc'[p].todo) : NamesMine(p, s)'
      BY <1>1, <1>5, <2>1, RefundsNameMine
    <3>2. QED
      BY <1>3, <3>1
<1>6. QED
  BY <1>4, <1>5

LEMMA MineCloses ==
  ASSUME TypeInv, LockInv, NamesInv, conf.engine # "sqlite", NEW p \in Procs,
         cmd[p].do \in {"job", "refund"}, MineOK(p), Work(p) \/ GiveUp(p),
         CommitWork(p) \/ (RollBack(p) /\ cmd' = cmd)
  PROVE  MineOK(p)'
<1>1. DOMAIN proc'[p].own = {} /\ cmd' = cmd
  BY CommitIs, RollBackIs
<1>2. CASE RollBack(p)
  BY <1>1, <1>2, RollBackIs DEF MineOK, Running
<1>3. CASE CommitWork(p)
  <2>1. /\ Running(p)
        /\ proc[p].todo # <<>> => proc'[p].todo = Tail(proc[p].todo)
        /\ IF proc[p].todo = <<>> THEN proc'[p].state = "done" ELSE Step(p).op = "commit"
    BY <1>3, CommitIs
  <2>2. CASE proc[p].todo = <<>>
    BY <1>1, <2>1, <2>2 DEF MineOK, Running
  <2>3. CASE proc[p].todo # <<>>
    <3>1. MayDo(cmd[p].do, Step(p)) /\ Range(Tail(proc[p].todo)) \subseteq Range(proc[p].todo)
      BY <2>3, StepMayBeDone, TailIsPlanned DEF TypeInv, ProcOK
    <3>2. cmd[p].do = "refund"
      BY <2>1, <2>3, <3>1 DEF MayDo
    <3>3. ASSUME NEW s \in Range(proc'[p].todo) PROVE NamesMine(p, s)'
      <4>1. NamesMine(p, s)
        BY <2>1, <2>3, <3>1, <3>3 DEF MineOK
      <4>2. s.op = "update" => Mine(p, s.key)'
        BY <4>1, MineStays DEF NamesMine
      <4>3. ASSUME s.op = "pages" PROVE UserOf(p, <<"users", s.user>>)'
        <5>1. PICK u : u = <<"users", s.user>>
          OBVIOUS
        <5>2. u[1] = "users" /\ UserOf(p, u)
          BY <4>1, <4>3, <5>1 DEF NamesMine
        <5>3. UserOf(p, u)'
          BY <5>2, UserStays
        <5>4. QED
          BY <5>1, <5>3
      <4>4. QED
        BY <1>1, <3>2, <4>1, <4>2, <4>3 DEF NamesMine
    <3>4. QED
      BY <1>1, <3>3 DEF MineOK
  <2>4. QED
    BY <2>2, <2>3
<1>4. QED
  BY <1>2, <1>3

LEMMA MineInit == ASSUME Init PROVE MineInv
BY NothingWritten DEF MineInv, MineOK, Init, Running, Idle

LEMMA MineNext ==
  ASSUME TypeInv, LockInv, NamesInv, AddedInv, MineInv, [Next]_vars
  PROVE  MineInv'
<1>1. CASE UNCHANGED vars
  <2>1. conf' = conf /\ cmd' = cmd /\ db' = db /\ proc' = proc /\ seq' = seq
    BY <1>1 DEF vars
  <2>2. \A k : Gone(k) <=> Gone(k)'
    BY <2>1 DEF Gone
  <2>3. \A p, k : UserOf(p, k) <=> UserOf(p, k)'
    BY <2>1, <2>2 DEF UserOf
  <2>4. \A p, k : Mine(p, k) <=> Mine(p, k)'
    BY <2>1, <2>2, <2>3 DEF Mine, QuotaOf
  <2>5. \A p, k : Itself(p, k) <=> Itself(p, k)'
    BY <2>1, <2>2 DEF Itself, Step
  <2>6. \A p, s : NamesMine(p, s) <=> NamesMine(p, s)'
    BY <2>1, <2>3, <2>4, <2>5 DEF NamesMine, ItsOwn
  <2>7. QED
    BY <2>1, <2>4, <2>6 DEF MineInv, MineOK, Running
<1>2. ASSUME NEW r \in Procs, Work(r) \/ GiveUp(r), conf'.engine # "sqlite",
             NEW p \in Procs, cmd'[p].do \in {"job", "refund"}
      PROVE  MineOK(p)'
  <2>1. conf.engine # "sqlite" /\ cmd[p].do \in {"job", "refund"} /\ MineOK(p)
    BY <1>2, OthersSee DEF MineInv
  <2>2. CASE p # r
    BY <1>2, <2>1, <2>2, MineOthers
  <2>3. CASE p = r
    <3>1. CASE Start(p)
      BY <2>1, <3>1, MineStarts
    <3>2. CASE ExpandRefund(p) \/ PayUser(p) \/ FindPages(p) \/ LookAtLast(p) \/ ExtractTable(p)
      BY <2>1, <3>2, MineReads DEF Work
    <3>3. CASE Execute(p)
      BY <2>1, <3>3, MineExecutes
    <3>4. CASE CommitWork(p) \/ Refused(p) \/ GiveUp(p)
      BY <1>2, <2>1, <2>3, <3>4, MineCloses DEF Refused, GiveUp
    <3>5. QED
      BY <1>2, <2>3, <3>1, <3>2, <3>3, <3>4 DEF Work
  <2>4. QED
    BY <2>2, <2>3
<1>3. CASE AllOver
  BY <1>1, <1>3 DEF AllOver
<1>4. QED
  BY <1>1, <1>2, <1>3 DEF Next, MineInv

-----------------------------------------------------------------------------
(* Waiting, on PostgreSQL: a job takes its quota entry, the balance, the   *)
(* entries it counts on, the history and the billing code, a refund the    *)
(* billing code, the balance, the payment, the quota entry and the         *)
(* history, so neither waits for a row of a table that it went past, but a *)
(* job for an entry on the groups of its printer; who adds rows has only   *)
(* new ones.                                                               *)

Payers == {"job", "refund", "pay"}
Level(do, t) ==
  CASE t = "users"        -> 2
    [] t = "payments"     -> 3
    [] t = "userpquota"   -> IF do = "job" THEN 0 ELSE 4
    [] t = "jobhistory"   -> 5
    [] t = "billingcodes" -> IF do = "job" THEN 6 ELSE 1
    [] OTHER              -> 6
StepLevel(do, s) ==
  CASE s.op = "refund"  -> 0
    [] s.op = "payback" -> 2
    [] s.op = "update"  -> IF do = "job" /\ s.key[1] = "userpquota" /\ s.num # 0 THEN 4 ELSE Level(do, s.key[1])
    [] s.op = "insert"  -> 3
    [] s.op = "pages"   -> 4
    [] s.op = "record"  -> 5
    [] OTHER            -> 7

(* A list of jobs goes on after a commit.                                  *)
Precedes(do, s, u) ==
  \/ s.op = "commit"
  \/ IF s.op \in {"refund", "payback"} THEN u.op = "refund"
     ELSE \/ StepLevel(do, s) < StepLevel(do, u)
          \/ do = "job" /\ StepLevel(do, s) = 4 /\ StepLevel(do, u) = 4
Rising(do, t) == \A i \in 1 .. Len(t) : i < Len(t) => Precedes(do, t[i], t[i + 1])
Below(p) == \A k \in DOMAIN proc[p].own : Level(cmd[p].do, k[1]) < StepLevel(cmd[p].do, Step(p))

WaitOK(p) ==
  /\ cmd[p].do \notin Payers => DOMAIN proc[p].own \cap DOMAIN db = {}
  /\ cmd[p].do = "pay" => \A k \in DOMAIN proc[p].own : k[1] \in {"users", "payments"}
  /\ cmd[p].do = "job" => \A k \in DOMAIN proc[p].own \cap DOMAIN db : k[1] = "jobhistory" => conf.disablehistory
  /\ cmd[p].do \in Deleting => proc[p].shared = {}
  /\ Running(p) /\ proc[p].todo # <<>> =>
       /\ cmd[p].do \in {"quit", "leave"} => Tail(proc[p].todo) = <<>> /\ proc[p].gone = {}
       /\ cmd[p].do \in {"job", "refund"} => Rising(cmd[p].do, proc[p].todo) /\ Below(p)
WaitInv == conf.engine # "sqlite" => \A p \in Procs : WaitOK(p)

LEMMA LevelsAre ==
  /\ \A do, t : Level(do, t) \in 0 .. 6
  /\ \A do, t : do # "job" => Level(do, t) \in 1 .. 6
  /\ \A do, s : StepLevel(do, s) \in 0 .. 7
<1>1. \A do, t : Level(do, t) \in 0 .. 6 /\ (do # "job" => Level(do, t) \in 1 .. 6)
  BY DEF Level
<1>2. \A do, s : StepLevel(do, s) \in 0 .. 7
  BY <1>1 DEF StepLevel
<1>3. QED
  BY <1>1, <1>2

LEMMA RisingTail ==
  ASSUME NEW do, NEW t, t \in Seq(Range(t)), t # <<>>, Rising(do, t)
  PROVE  /\ Rising(do, Tail(t))
         /\ Tail(t) # <<>> => Precedes(do, Head(t), Head(Tail(t)))
<1>1. /\ Len(t) \in Nat \ {0} /\ Len(Tail(t)) = Len(t) - 1 /\ Head(t) = t[1]
      /\ \A i \in 1 .. Len(Tail(t)) : Tail(t)[i] = t[i + 1]
  BY HeadTailProperties, LenProperties, EmptySeq
<1>2. ASSUME NEW i \in 1 .. Len(Tail(t)), i < Len(Tail(t)) PROVE Precedes(do, Tail(t)[i], Tail(t)[i + 1])
  <2>1. i + 1 \in 1 .. Len(t) /\ i + 1 < Len(t) /\ i + 1 \in 1 .. Len(Tail(t))
    BY <1>1, <1>2
  <2>2. Precedes(do, t[i + 1], t[(i + 1) + 1])
    BY <2>1 DEF Rising
  <2>3. Tail(t)[i] = t[i + 1] /\ Tail(t)[i + 1] = t[(i + 1) + 1]
    BY <1>1, <2>1
  <2>4. QED
    BY <2>2, <2>3
<1>3. ASSUME Tail(t) # <<>> PROVE Precedes(do, Head(t), Head(Tail(t)))
  <2>1. Tail(t) \in Seq(Range(t)) /\ Len(Tail(t)) # 0
    BY <1>3, HeadTailProperties, EmptySeq
  <2>2. 1 \in 1 .. Len(t) /\ 1 < Len(t) /\ 1 \in 1 .. Len(Tail(t)) /\ Head(Tail(t)) = Tail(t)[1]
    BY <1>1, <2>1, HeadTailProperties
  <2>3. Precedes(do, t[1], t[1 + 1])
    BY <2>2 DEF Rising
  <2>4. Tail(t)[1] = t[1 + 1]
    BY <1>1, <2>2
  <2>5. QED
    BY <1>1, <2>2, <2>3, <2>4
<1>4. QED
  BY <1>2, <1>3 DEF Rising

LEMMA RisingBoth ==
  ASSUME NEW do, NEW S, NEW t \in Seq(S), NEW u \in Seq(S), Rising(do, t), Rising(do, u),
         t # <<>> /\ u # <<>> => Precedes(do, t[Len(t)], u[1])
  PROVE  Rising(do, t \o u)
<1>1. PICK w : w = t \o u
  OBVIOUS
<1>2. /\ Len(t) \in Nat /\ Len(u) \in Nat /\ Len(w) = Len(t) + Len(u)
      /\ \A i \in 1 .. Len(w) : w[i] = IF i <= Len(t) THEN t[i] ELSE u[i - Len(t)]
  BY <1>1, ConcatProperties, LenProperties
<1>3. ASSUME NEW i \in 1 .. Len(w), i < Len(w) PROVE Precedes(do, w[i], w[i + 1])
  <2>1. i + 1 \in 1 .. Len(w)
    BY <1>2, <1>3
  <2>2. CASE i < Len(t)
    <3>1. w[i] = t[i] /\ w[i + 1] = t[i + 1] /\ i \in 1 .. Len(t)
      BY <1>2, <2>1, <2>2
    <3>2. QED
      BY <2>2, <3>1 DEF Rising
  <2>3. CASE i = Len(t)
    <3>1. w[i] = t[Len(t)] /\ w[i + 1] = u[1] /\ Len(t) # 0 /\ Len(u) # 0
      BY <1>2, <1>3, <2>1, <2>3
    <3>2. t # <<>> /\ u # <<>>
      BY <3>1, EmptySeq
    <3>3. QED
      BY <3>1, <3>2
  <2>4. CASE i > Len(t)
    <3>1. /\ w[i] = u[i - Len(t)] /\ w[i + 1] = u[(i - Len(t)) + 1]
          /\ i - Len(t) \in 1 .. Len(u) /\ i - Len(t) < Len(u)
      BY <1>2, <1>3, <2>1, <2>4
    <3>2. QED
      BY <3>1 DEF Rising
  <2>5. QED
    BY <1>2, <2>2, <2>3, <2>4
<1>4. QED
  BY <1>1, <1>3 DEF Rising

LEMMA RisingBands ==
  ASSUME NEW do, NEW S, NEW T, NEW t \in Seq(S), NEW u \in Seq(T), Rising(do, t), Rising(do, u),
         \A a \in S, b \in T : Precedes(do, a, b)
  PROVE  Rising(do, t \o u) /\ t \o u \in Seq(S \cup T)
<1>1. PICK U : U = S \cup T
  OBVIOUS
<1>2. t \in Seq(U) /\ u \in Seq(U)
  BY <1>1, SeqMonotonic
<1>3. t # <<>> /\ u # <<>> => t[Len(t)] \in S /\ u[1] \in T
  <2>1. Len(t) \in Nat /\ Len(u) \in Nat /\ (t # <<>> => Len(t) # 0) /\ (u # <<>> => Len(u) # 0)
    BY LenProperties, EmptySeq
  <2>2. \A i \in 1 .. Len(t) : t[i] \in S
    BY ElementOfSeq
  <2>3. \A i \in 1 .. Len(u) : u[i] \in T
    BY ElementOfSeq
  <2>4. QED
    BY <2>1, <2>2, <2>3
<1>4. Rising(do, t \o u)
  BY <1>2, <1>3, RisingBoth
<1>5. t \o u \in Seq(U)
  BY <1>2, ConcatProperties
<1>6. QED
  BY <1>1, <1>4, <1>5

LEMMA AlikeRise ==
  ASSUME NEW do, NEW S, NEW t \in Seq(S), \A a, b \in S : Precedes(do, a, b)
  PROVE  Rising(do, t)
<1>1. \A i \in 1 .. Len(t) : t[i] \in S
  BY ElementOfSeq
<1>2. ASSUME NEW i \in 1 .. Len(t), i < Len(t) PROVE Precedes(do, t[i], t[i + 1])
  <2>1. i + 1 \in 1 .. Len(t)
    BY <1>2, LenProperties
  <2>2. QED
    BY <1>1, <2>1
<1>3. QED
  BY <1>2 DEF Rising

(* A billing code has one row, so a job or a refund updates one at most.   *)
LEMMA OneCode ==
  ASSUME NEW d, Tidy(d), NEW s, NEW n, NEW do,
         \A k, x \in DOMAIN d : Fits(k, d[k], x, d[x])
  PROVE  Rising(do, ForCode(d, s, n))
<1> DEFINE I == CodesOf(d, s)
           S == {Increase(<<"billingcodes", id>>, n) : id \in I}
           t == SetToSeq(S)
<1>1. \A i \in I : <<"billingcodes", i>> \in DOMAIN d /\ d[<<"billingcodes", i>>].name = s.code
  BY IdsAreThere DEF CodesOf
<1>2. ASSUME NEW i \in I, NEW j \in I PROVE i = j
  <2> HIDE DEF I
  <2>1. PICK k, x : k = <<"billingcodes", i>> /\ x = <<"billingcodes", j>>
    OBVIOUS
  <2>2. k \in DOMAIN d /\ x \in DOMAIN d /\ d[k].name = d[x].name /\ k[1] = "billingcodes" /\ x[1] = "billingcodes"
    BY <1>1, <2>1
  <2>3. Rival(k, d[k], x, d[x])
    BY <2>2 DEF Rival, Unique, UniqueKey, TableNames
  <2>4. k = x
    BY <2>2, <2>3 DEF Fits, Meets
  <2>5. QED
    BY <2>1, <2>4
<1>3. IsFiniteSet(S)
  <2>1. IsFiniteSet(I)
    BY IdsAreThere, FS_EmptySet DEF CodesOf
  <2> DEFINE f == [i \in I |-> Increase(<<"billingcodes", i>>, n)]
  <2>2. DOMAIN f = I /\ S = {f[i] : i \in I}
    OBVIOUS
  <2> HIDE DEF f, S, I
  <2>3. QED
    BY <2>1, <2>2, ImageIsFinite
<1>4. \A a, b \in S : a = b
  <2> HIDE DEF I
  <2>1. QED
    BY <1>2
<1>5. ForCode(d, s, n) = t
  BY DEF ForCode
<1> HIDE DEF S
<1>6. /\ Len(t) \in Nat /\ \A i \in 1 .. Len(t) : t[i] \in S
      /\ \A i, j \in 1 .. Len(t) : t[i] = t[j] => i = j
  BY <1>3, EachIsOnce
<1> HIDE DEF t
<1>7. \A i \in 1 .. Len(t) : ~(i < Len(t))
  <2>1. ASSUME NEW i \in 1 .. Len(t), i < Len(t) PROVE FALSE
    <3>1. i + 1 \in 1 .. Len(t) /\ i + 1 # i
      BY <1>6, <2>1
    <3>2. t[i] = t[i + 1]
      BY <1>4, <1>6, <3>1
    <3>3. QED
      BY <1>6, <3>1, <3>2
  <2>2. QED
    BY <2>1
<1>8. QED
  BY <1>5, <1>7 DEF Rising

LEMMA OneIsRising ==
  ASSUME NEW do, NEW a
  PROVE  Rising(do, <<>>) /\ Rising(do, <<a>>)
BY DEF Rising

LEMMA TwoAreRising ==
  ASSUME NEW do, NEW a, NEW b, Precedes(do, a, b)
  PROVE  Rising(do, <<a, b>>)
<1>1. Len(<<a, b>>) = 2 /\ <<a, b>>[1] = a /\ <<a, b>>[2] = b
  OBVIOUS
<1>2. PICK t : t = <<a, b>>
  OBVIOUS
<1>3. ASSUME NEW i \in 1 .. Len(t), i < Len(t) PROVE Precedes(do, t[i], t[i + 1])
  <2>1. i = 1
    BY <1>1, <1>2, <1>3
  <2>2. t[i] = a /\ t[i + 1] = b
    BY <1>1, <1>2, <2>1
  <2>3. QED
    BY <2>2
<1>4. QED
  BY <1>2, <1>3 DEF Rising

LEMMA FiveAreRising ==
  ASSUME NEW do, NEW a, NEW b, NEW c, NEW d, NEW e,
         Precedes(do, a, b), Precedes(do, b, c), Precedes(do, c, d), Precedes(do, d, e)
  PROVE  Rising(do, <<a, b, c, d, e>>)
<1>1. /\ Len(<<a, b, c, d, e>>) = 5 /\ <<a, b, c, d, e>>[1] = a /\ <<a, b, c, d, e>>[2] = b
      /\ <<a, b, c, d, e>>[3] = c /\ <<a, b, c, d, e>>[4] = d /\ <<a, b, c, d, e>>[5] = e
  OBVIOUS
<1>2. PICK t : t = <<a, b, c, d, e>>
  OBVIOUS
<1>3. ASSUME NEW i \in 1 .. Len(t), i < Len(t) PROVE Precedes(do, t[i], t[i + 1])
  <2>1. i = 1 \/ i = 2 \/ i = 3 \/ i = 4
    BY <1>1, <1>2, <1>3
  <2>2. \/ (t[i] = a /\ t[i + 1] = b) \/ (t[i] = b /\ t[i + 1] = c)
        \/ (t[i] = c /\ t[i + 1] = d) \/ (t[i] = d /\ t[i + 1] = e)
    BY <1>1, <1>2, <2>1
  <2>3. QED
    BY <2>2
<1>4. QED
  BY <1>2, <1>3 DEF Rising

(* What jobs and refunds start with, and the steps of a refund.            *)
LEMMA JobsRise ==
  ASSUME NEW d, Tidy(d), NEW us, NEW p, NEW t, t = <<>> \/ JobSteps(p, d, us, t),
         \A k, x \in DOMAIN d : Fits(k, d[k], x, d[x])
  PROVE  Rising("job", t)
<1>1. CASE t = <<>>
  BY <1>1, OneIsRising
<1>2. CASE JobSteps(p, d, us, t)
  <2>1. PICK u, q, row, l, reset, charge, code : JobParts(p, d, us, t, u, q, row, l, reset, charge, code)
    BY <1>2 DEF JobSteps
  <2>2. /\ q[1] = "userpquota" /\ ResetSteps(q, reset) /\ ChargeSteps(d, u, q, row, charge)
        /\ (charge # <<>> => row.num # 0) /\ code \in Seq(CodeSteps(d, row.num))
        /\ (code = <<>> \/ code = ForCode(d, cmd[p], row.num))
        /\ t = reset \o (charge \o (<<Record(row, l)>> \o code))
    BY <2>1 DEF JobParts, Rows
  <2>3. PICK A, B, C, D, F : /\ A = {LeftAsItWas(q)} /\ B = {Increase(<<"users", u>>, x) : x \in Int}
                             /\ C = {Increase(q, row.num)} \cup AboveSteps(d, u, row.num)
                             /\ D = {Record(row, l)} /\ F = CodeSteps(d, row.num)
    OBVIOUS
  <2>4. \A s \in A : s.op = "update" /\ StepLevel("job", s) = 0
    BY <2>2, <2>3 DEF LeftAsItWas, StepLevel, Level
  <2>5. \A s \in B : s.op = "update" /\ StepLevel("job", s) = 2
    <3>1. ASSUME NEW x \in Int, NEW s, s = Increase(<<"users", u>>, x)
          PROVE  s.op = "update" /\ StepLevel("job", s) = 2
      <4>1. s.op = "update" /\ s.key[1] = "users"
        BY <3>1 DEF Increase
      <4>2. QED
        BY <4>1 DEF StepLevel, Level
    <3>2. QED
      BY <2>3, <3>1
  <2>6. row.num # 0 => \A s \in C : s.op = "update" /\ StepLevel("job", s) = 4
    BY <2>2, <2>3 DEF Increase, CountAbove, AboveSteps, Rows, StepLevel
  <2>7. \A s \in D : s.op = "record" /\ StepLevel("job", s) = 5
    BY <2>3 DEF Record, StepLevel
  <2>8. \A s \in F : s.op = "update" /\ StepLevel("job", s) = 6
    BY <2>3 DEF CodeSteps, Rows, Increase, StepLevel, Level
  <2>0. /\ Rising("job", <<>>) /\ (\A a : Rising("job", <<a>>))
        /\ (\A U : <<>> \in Seq(U)) /\ (\A U : \A a \in U : <<a>> \in Seq(U))
    <3>1. Rising("job", <<>>) /\ \A a : Rising("job", <<a>>)
      BY OneIsRising
    <3>2. (\A U : <<>> \in Seq(U)) /\ (\A U : \A a \in U : <<a>> \in Seq(U))
      OBVIOUS
    <3>3. QED
      BY <3>1, <3>2
  <2>9. reset \in Seq(A) /\ Rising("job", reset)
    <3>1. LeftAsItWas(q) \in A
      BY <2>3
    <3>2. QED
      BY <2>0, <2>2, <3>1 DEF ResetSteps
  <2>10. code \in Seq(F) /\ Rising("job", code)
    BY <2>2, <2>3, OneCode, OneIsRising
  <2>11. charge \in Seq(B \cup C) /\ Rising("job", charge)
    <3>1. CASE charge = <<>>
      BY <2>0, <3>1
    <3>2. CASE charge # <<>>
      <4>1. PICK m, above : /\ MoneySteps(u, m) /\ above \in Seq(AboveSteps(d, u, row.num))
                            /\ charge = m \o (<<Increase(q, row.num)>> \o above)
        BY <2>2, <3>2 DEF ChargeSteps, UsageSteps
      <4>2. row.num # 0
        BY <2>2, <3>2
      <4>3. m \in Seq(B) /\ Rising("job", m)
        <5>1. CASE m = <<>>
          BY <2>0, <5>1
        <5>2. CASE m # <<>>
          <6>1. PICK x \in Int : m = <<Increase(<<"users", u>>, x)>>
            BY <4>1, <5>2 DEF MoneySteps
          <6>2. Increase(<<"users", u>>, x) \in B
            BY <2>3
          <6>3. QED
            BY <6>1, <6>2, OneIsRising
        <5>3. QED
          BY <5>1, <5>2
      <4>4. PICK w : w = <<Increase(q, row.num)>> \o above
        OBVIOUS
      <4>5. w \in Seq(C)
        <5>1. Increase(q, row.num) \in C /\ AboveSteps(d, u, row.num) \subseteq C
          BY <2>3
        <5>2. <<Increase(q, row.num)>> \in Seq(C) /\ above \in Seq(C)
          BY <4>1, <5>1, SeqMonotonic
        <5>3. QED
          BY <4>4, <5>2, ConcatProperties
      <4>6. Rising("job", w)
        <5>1. \A a, b \in C : Precedes("job", a, b)
          BY <2>6, <4>2 DEF Precedes
        <5>2. QED
          BY <4>5, <5>1, AlikeRise
      <4>7. \A a \in B, b \in C : Precedes("job", a, b)
        BY <2>5, <2>6, <4>2 DEF Precedes
      <4>8. QED
        BY <4>1, <4>3, <4>4, <4>5, <4>6, <4>7, RisingBands
    <3>3. QED
      BY <3>1, <3>2
  <2>12. PICK v : v = <<Record(row, l)>> \o code
    OBVIOUS
  <2>13. v \in Seq(D \cup F) /\ Rising("job", v)
    <3>1. <<Record(row, l)>> \in Seq(D) /\ Rising("job", <<Record(row, l)>>)
      BY <2>3, OneIsRising
    <3>2. \A a \in D, b \in F : Precedes("job", a, b)
      BY <2>7, <2>8 DEF Precedes
    <3>3. QED
      BY <2>10, <2>12, <3>1, <3>2, RisingBands
  <2>14. PICK w : w = charge \o v
    OBVIOUS
  <2>15. w \in Seq(B \cup C \cup D \cup F) /\ Rising("job", w)
    <3>1. CASE charge = <<>>
      <4>1. w = v
        BY <2>13, <2>14, <3>1, ConcatEmptySeq
      <4>2. w \in Seq(B \cup C \cup D \cup F)
        <5>1. D \cup F \subseteq B \cup C \cup D \cup F
          OBVIOUS
        <5>2. QED
          BY <2>13, <4>1, <5>1, SeqMonotonic
      <4>3. QED
        BY <2>13, <4>1, <4>2
    <3>2. CASE charge # <<>>
      <4>1. \A a \in B \cup C, b \in D \cup F : Precedes("job", a, b)
        BY <2>2, <2>5, <2>6, <2>7, <2>8, <3>2 DEF Precedes
      <4>2. (B \cup C) \cup (D \cup F) = B \cup C \cup D \cup F
        OBVIOUS
      <4>3. QED
        BY <2>11, <2>13, <2>14, <4>1, <4>2, RisingBands
    <3>3. QED
      BY <3>1, <3>2
  <2>16. CASE reset = <<>>
    <3>1. t = w
      BY <2>2, <2>12, <2>14, <2>15, <2>16, ConcatEmptySeq
    <3>2. QED
      BY <2>15, <3>1
  <2>17. CASE charge = <<>>
    <3>1. w = v
      BY <2>13, <2>14, <2>17, ConcatEmptySeq
    <3>2. \A a \in A, b \in D \cup F : Precedes("job", a, b)
      BY <2>4, <2>7, <2>8 DEF Precedes
    <3>3. QED
      BY <2>2, <2>9, <2>12, <2>13, <2>14, <3>1, <3>2, RisingBands
  <2>18. CASE charge # <<>>
    <3>1. \A a \in A, b \in B \cup C \cup D \cup F : Precedes("job", a, b)
      BY <2>2, <2>4, <2>5, <2>6, <2>7, <2>8, <2>18 DEF Precedes
    <3>2. QED
      BY <2>2, <2>9, <2>12, <2>14, <2>15, <3>1, RisingBands
  <2>19. QED
    BY <2>17, <2>18
<1>3. QED
  BY <1>1, <1>2

LEMMA RefundRises ==
  ASSUME NEW s, s.key[1] = "jobhistory", NEW us, NEW t, t = RefundSteps(s, us)
  PROVE  /\ Rising("refund", t) /\ t # <<>> /\ t[Len(t)].op = "commit"
         /\ 2 <= StepLevel("refund", t[1])
<1> DEFINE u == CHOOSE x \in us : TRUE
<1>1. PICK a, b, c, d, e : /\ a = Increase(<<"users", u>>, s.price)
                           /\ b = Insert("payments", Row(None, u, None, None, 0 - s.price, None))
                           /\ c = RefundPages(u, s.printer, s.num)
                           /\ d = Refunded(s.key) /\ e = Commit
  OBVIOUS
<1>2. t = <<d, e>> \/ t = <<a, b, c, d, e>>
  BY <1>1 DEF RefundSteps
<1>3. StepLevel("refund", a) = 2 /\ a.op = "update"
  BY <1>1 DEF StepLevel, Increase, Level
<1>4. StepLevel("refund", b) = 3 /\ b.op = "insert"
  BY <1>1 DEF StepLevel, Insert
<1>5. StepLevel("refund", c) = 4 /\ c.op = "pages"
  BY <1>1 DEF StepLevel, RefundPages
<1>6. StepLevel("refund", d) = 5 /\ d.op = "update"
  BY <1>1 DEF StepLevel, Refunded, Level
<1>7. StepLevel("refund", e) = 7 /\ e.op = "commit"
  BY <1>1 DEF StepLevel, Commit
<1>8. /\ Precedes("refund", a, b) /\ Precedes("refund", b, c) /\ Precedes("refund", c, d)
      /\ Precedes("refund", d, e)
  BY <1>3, <1>4, <1>5, <1>6, <1>7 DEF Precedes
<1>9. t[Len(t)] = e /\ t # <<>> /\ t[1] \in {a, d}
  <2>1. <<d, e>>[Len(<<d, e>>)] = e /\ <<d, e>> # <<>> /\ <<d, e>>[1] = d
    OBVIOUS
  <2>2. <<a, b, c, d, e>>[Len(<<a, b, c, d, e>>)] = e /\ <<a, b, c, d, e>> # <<>> /\ <<a, b, c, d, e>>[1] = a
    OBVIOUS
  <2>3. QED
    BY <1>2, <2>1, <2>2
<1>10. QED
  <2>1. Rising("refund", <<d, e>>)
    BY <1>8, TwoAreRising
  <2>2. Rising("refund", <<a, b, c, d, e>>)
    BY <1>8, FiveAreRising
  <2>3. QED
    BY <1>2, <1>3, <1>6, <1>7, <1>9, <2>1, <2>2

LEMMA RefundsRise ==
  ASSUME NEW d, Tidy(d), NEW us, NEW ps
  PROVE  Rising("refund", Refunds(d, us, ps))
<1>1. \A x : RefundJob(d, x).op = "refund"
  BY DEF RefundJob
<1>2. PICK X, jobs : /\ X = {k \in Having(d, "jobhistory", us, ps) : ~d[k].refunded /\ d[k].num # 0}
                     /\ jobs = SetToSeq(X)
                     /\ Refunds(d, us, ps) = [i \in DOMAIN jobs |-> RefundJob(d, jobs[i])]
  BY DEF Refunds
<1>3. jobs \in Seq(X)
  <2>1. X \in SUBSET DOMAIN d
    BY <1>2 DEF Having, Rows
  <2>2. QED
    BY <1>2, <2>1, SomeRowsAreFinite, SetToSeqIsSeq
<1>4. PICK t : t = Refunds(d, us, ps)
  OBVIOUS
<1>5. Len(t) = Len(jobs) /\ Len(t) \in Nat /\ \A i \in 1 .. Len(t) : t[i].op = "refund"
  <2>1. DOMAIN jobs = 1 .. Len(jobs) /\ Len(jobs) \in Nat
    BY <1>3
  <2>2. PICK n \in Nat : n = Len(jobs)
    BY <2>1
  <2>3. DOMAIN t = 1 .. n /\ \A i \in 1 .. n : t[i] = RefundJob(d, jobs[i])
    BY <1>2, <1>4, <2>1, <2>2
  <2>4. t = [i \in 1 .. n |-> t[i]]
    BY <1>2, <1>4, <2>1, <2>2
  <2>5. Len(t) = n
    BY <2>2, <2>4
  <2>6. QED
    BY <1>1, <2>2, <2>3, <2>5
<1>6. ASSUME NEW i \in 1 .. Len(t), i < Len(t) PROVE Precedes("refund", t[i], t[i + 1])
  <2>1. t[i].op = "refund" /\ t[i + 1].op = "refund"
    BY <1>5, <1>6
  <2>2. QED
    BY <2>1 DEF Precedes
<1>7. QED
  BY <1>4, <1>6 DEF Rising

(* What a step leads to is further, or another entry that a job counts on. *)
LEMMA NextIsFurther ==
  ASSUME NEW do, NEW s, NEW u, Precedes(do, s, u), s.op \in Writes, NEW k,
         Level(do, k[1]) < StepLevel(do, s)
           \/ (Level(do, k[1]) = StepLevel(do, s) /\ ~(do = "job" /\ StepLevel(do, s) = 4))
  PROVE  Level(do, k[1]) < StepLevel(do, u)
<1>1. PICK x, y, z : x = Level(do, k[1]) /\ y = StepLevel(do, s) /\ z = StepLevel(do, u)
  OBVIOUS
<1>2. x \in Int /\ y \in Int /\ z \in Int
  BY <1>1, LevelsAre
<1>3. y < z \/ (do = "job" /\ y = 4 /\ z = 4)
  BY <1>1 DEF Precedes, Writes
<1>4. x < z
  BY <1>1, <1>2, <1>3
<1>5. QED
  BY <1>1, <1>4

LEMMA WaitExecutes ==
  ASSUME TypeInv, JobInv, NEW p \in Procs, WaitOK(p), cmd[p].do = "job" => MineOK(p), Execute(p)
  PROVE  WaitOK(p)'
<1>1. /\ Running(p) /\ proc[p].todo # <<>> /\ db' = db /\ cmd' = cmd /\ conf' = conf
      /\ proc'[p].todo = Tail(proc[p].todo)
      /\ IF Step(p).op = "delete" THEN cmd[p].do \in Deleting /\ DOMAIN proc[p].own = {}
         ELSE cmd[p].do \notin Deleting /\ proc[p].gone = {}
      /\ Step(p).op \in Writes
  BY StatementIs
<1>2. MayDo(cmd[p].do, Step(p)) /\ proc[p].todo \in Seq(Range(proc[p].todo)) /\ Step(p) \in Range(proc[p].todo)
  BY <1>1, StepMayBeDone, HeadIsPlanned DEF TypeInv, ProcOK, Planned, Step
<1>3. DOMAIN db \subseteq DOMAIN View(p) \cup proc[p].gone
  BY ViewIs
<1>4. ASSUME cmd[p].do \notin Payers PROVE DOMAIN proc'[p].own \cap DOMAIN db = {}
  <2>1. Step(p).op \notin {"update", "record"}
    BY <1>2, <1>4 DEF MayDo, Payers
  <2>2. ASSUME NEW k \in DOMAIN proc'[p].own PROVE k \notin DOMAIN db
    <3>1. CASE k \in DOMAIN proc[p].own
      BY <1>4, <3>1 DEF WaitOK
    <3>2. CASE Step(p).op = "insert" /\ k \notin DOMAIN View(p)
      BY <1>1, <1>3, <3>2
    <3>3. QED
      BY <2>1, <2>2, <3>1, <3>2, StatementOwns
  <2>3. QED
    BY <2>2
<1>5. ASSUME cmd[p].do = "pay", NEW k \in DOMAIN proc'[p].own PROVE k[1] \in {"users", "payments"}
  <2>1. Step(p).op # "record"
    BY <1>2, <1>5 DEF MayDo
  <2>2. Step(p).op = "update" => Step(p).key[1] = "users"
    BY <1>2, <1>5 DEF MayDo
  <2>3. Step(p).op = "insert" => Step(p).table = "payments"
    BY <1>2, <1>5 DEF MayDo, AddedBy
  <2>4. QED
    BY <1>5, <2>1, <2>2, <2>3, StatementOwns DEF WaitOK
<1>6. cmd[p].do = "job" => Step(p).op \in {"update", "record"}
  BY <1>1, <1>2 DEF JobInv, AtWork, JobStep
<1>7. ASSUME cmd[p].do = "job", NEW k \in DOMAIN proc'[p].own, k \in DOMAIN db, k[1] = "jobhistory"
      PROVE  conf.disablehistory
  <2>1. CASE k \in DOMAIN proc[p].own
    BY <1>7, <2>1 DEF WaitOK
  <2>2. Step(p).op = "update" => Step(p).key[1] # "jobhistory"
    BY <1>1, <1>2, <1>7 DEF MineOK, NamesMine, ItsOwn
  <2>3. CASE k \notin DOMAIN proc[p].own /\ Step(p).op = "record"
    <3>1. k \in DOMAIN View(p)
      BY <1>1, <1>3, <1>7, <2>3
    <3>2. ~Anew(p)
      <4>1. ASSUME Anew(p) PROVE FALSE
        <5>1. PICK x : Adds(p, x)
          BY <2>3, <4>1, StatementIs
        <5>2. PICK rows : rows = [y \in {x} |-> NewRow(p)]
          OBVIOUS
        <5>3. DOMAIN rows = {x} /\ Wrote(p, rows) /\ x \notin DOMAIN View(p)
          BY <5>1, <5>2 DEF Adds
        <5>4. DOMAIN proc'[p].own = {x} \cup DOMAIN proc[p].own
          BY <5>3, WroteIs
        <5>5. QED
          BY <1>7, <2>3, <3>1, <5>3, <5>4
      <4>2. QED
        BY <4>1
    <3>3. QED
      BY <3>2 DEF Anew
  <2>4. QED
    BY <1>6, <1>7, <2>1, <2>2, <2>3, StatementOwns
<1>8. ASSUME cmd[p].do \in Deleting PROVE proc'[p].shared = {}
  <2>1. DeleteRows(p)
    BY <1>1, <1>8, StatementIs
  <2>2. QED
    BY <1>8, <2>1, DeleteIs DEF WaitOK
<1>9. ASSUME Tail(proc[p].todo) # <<>> PROVE cmd[p].do \notin {"quit", "leave"}
  BY <1>1, <1>9 DEF WaitOK
<1>10. ASSUME cmd[p].do \in {"job", "refund"} PROVE Rising(cmd[p].do, Tail(proc[p].todo))
  BY <1>1, <1>2, <1>10, RisingTail DEF WaitOK
<1>11. ASSUME cmd[p].do \in {"job", "refund"}, Tail(proc[p].todo) # <<>>, NEW k \in DOMAIN proc'[p].own
      PROVE  Level(cmd[p].do, k[1]) < StepLevel(cmd[p].do, Head(Tail(proc[p].todo)))
  <2>1. Precedes(cmd[p].do, Step(p), Head(Tail(proc[p].todo)))
    BY <1>1, <1>2, <1>11, RisingTail DEF WaitOK, Step
  <2>2. PICK do, x, y : do = cmd[p].do /\ x = Level(do, k[1]) /\ y = StepLevel(do, Step(p))
    OBVIOUS
  <2>3. x < y \/ (x = y /\ ~(do = "job" /\ y = 4))
    <3>1. CASE k \in DOMAIN proc[p].own
      BY <1>1, <1>11, <2>2, <3>1 DEF WaitOK, Below
    <3>2. CASE Step(p).op = "update" /\ k = Step(p).key
      <4>1. CASE do = "job" /\ k[1] = "userpquota"
        BY <2>2, <3>2, <4>1 DEF StepLevel, Level
      <4>2. CASE ~(do = "job" /\ k[1] = "userpquota")
        <5>1. y = x
          BY <2>2, <3>2, <4>2 DEF StepLevel
        <5>2. do = "job" => x # 4
          BY <2>2 DEF Level
        <5>3. QED
          BY <5>1, <5>2
      <4>3. QED
        BY <4>1, <4>2
    <3>3. CASE Step(p).op = "record" /\ k[1] = "jobhistory"
      BY <2>2, <3>3 DEF StepLevel, Level
    <3>4. CASE Step(p).op = "insert" /\ k[1] = Step(p).table
      <4>1. do = "refund"
        BY <1>6, <1>11, <2>2, <3>4
      <4>2. k[1] = "payments"
        BY <1>2, <2>2, <3>4, <4>1 DEF MayDo, AddedBy
      <4>3. QED
        BY <2>2, <3>4, <4>1, <4>2 DEF StepLevel, Level
    <3>5. QED
      BY <1>11, <3>1, <3>2, <3>3, <3>4, StatementOwns
  <2>4. QED
    BY <1>1, <2>1, <2>2, <2>3, NextIsFurther
<1>12. (Tail(proc[p].todo) # <<>> /\ cmd[p].do \in {"job", "refund"}) => Below(p)'
  BY <1>1, <1>11 DEF Below, Step
<1>13. QED
  BY <1>1, <1>4, <1>5, <1>7, <1>8, <1>9, <1>10, <1>12 DEF WaitOK

(* Another step in the place of the first.                                 *)
LEMMA InThePlace ==
  ASSUME NEW do, NEW v, NEW u, u \in Seq(Range(u)), Rising(do, u), u # <<>> => Precedes(do, v, Head(u))
  PROVE  Rising(do, <<v>> \o u) /\ Head(<<v>> \o u) = v
<1>1. PICK S : S = {v} \cup Range(u)
  OBVIOUS
<1>2. <<v>> \in Seq(S) /\ u \in Seq(S) /\ Len(<<v>>) = 1 /\ <<v>>[1] = v
  BY <1>1, SeqMonotonic
<1>3. u # <<>> => Head(u) = u[1]
  BY HeadTailProperties
<1>4. Rising(do, <<v>>)
  BY OneIsRising
<1>5. Rising(do, <<v>> \o u)
  BY <1>2, <1>3, <1>4, RisingBoth
<1>6. Head(<<v>> \o u) = v
  BY <1>2, ConcatProperties, HeadTailProperties, EmptySeq
<1>7. QED
  BY <1>5, <1>6

LEMMA WaitReads ==
  ASSUME TypeInv, JobInv, NamesInv, NEW p \in Procs, WaitOK(p),
         ExpandRefund(p) \/ PayUser(p) \/ FindPages(p) \/ LookAtLast(p) \/ ExtractTable(p)
  PROVE  WaitOK(p)'
<1>1. /\ Running(p) /\ proc[p].todo # <<>> /\ UNCHANGED <<conf, cmd, db, seq, beside>>
      /\ proc'[p].own = proc[p].own /\ proc'[p].gone = proc[p].gone /\ proc'[p].shared = proc[p].shared
  BY ReadingIs
<1>2. PICK do, s, u : do = cmd[p].do /\ s = Step(p) /\ u = Tail(proc[p].todo)
  OBVIOUS
<1>3. /\ MayDo(do, s) /\ proc[p].todo \in Seq(Range(proc[p].todo)) /\ DOMAIN proc = Procs
      /\ DOMAIN proc[p] = Fields /\ Planned(do, u)
  BY <1>1, <1>2, StepMayBeDone DEF TypeInv, ProcOK, Planned
<1>4. s.op \in {"refund", "payback", "pages", "record", "extract"}
  BY <1>2 DEF ExpandRefund, PayUser, FindPages, LookAtLast, ExtractTable, At
<1>5. do \notin {"quit", "leave"}
  BY <1>3, <1>4 DEF MayDo
<1>6. u \in Seq(Range(u))
  BY <1>3 DEF Planned
<1>7. do \in {"job", "refund"} => /\ Rising(do, u)
                                  /\ u # <<>> => Precedes(do, s, Head(u))
                                  /\ \A k \in DOMAIN proc[p].own : Level(do, k[1]) < StepLevel(do, s)
  BY <1>1, <1>2, <1>3, RisingTail DEF WaitOK, Below, Step
<1>8. u # <<>> => Head(u) = u[1]
  BY <1>6, HeadTailProperties
<1> DEFINE Fine(w) == Rising(do, w) /\ (w # <<>> => \A k \in DOMAIN proc[p].own : Level(do, k[1]) < StepLevel(do, Head(w)))
<1>9. ASSUME NEW w, proc'[p].todo = w, do \in {"job", "refund"} => Fine(w) PROVE WaitOK(p)'
  <2>1. do \in {"job", "refund"} /\ w # <<>> => Below(p)'
    BY <1>1, <1>2, <1>9 DEF Below, Step
  <2>2. QED
    BY <1>1, <1>2, <1>5, <1>9, <2>1 DEF WaitOK
<1>10. CASE ExpandRefund(p)
  <2>1. s.op = "refund" /\ do = "refund" /\ StepLevel(do, s) = 0
    BY <1>2, <1>3, <1>10 DEF ExpandRefund, At, MayDo, StepLevel
  <2>2. PICK code : code = ForCode(View(p), s, 0 - s.num)
    OBVIOUS
  <2>3. Becomes(p, [proc[p] EXCEPT !.todo = code \o <<PayBack(s)>> \o u])
    BY <1>2, <1>10, <2>2 DEF ExpandRefund
  <2>4. DOMAIN proc[p].own = {}
    BY <1>7, <2>1, LevelsAre
  <2>5. PayBack(s).op = "payback"
    BY <1>3, <2>1 DEF PayBack, MayDo
  <2>6. PICK S : S = CodeSteps(View(p), 0 - s.num)
    OBVIOUS
  <2>7. code \in Seq(S) /\ Rising(do, code)
    <3>1. Tidy(View(p)) /\ \A k, x \in DOMAIN View(p) : Fits(k, View(p)[k], x, View(p)[x])
      BY ViewIsTidy, ViewsFit DEF Tidy
    <3>2. QED
      BY <2>2, <2>6, <3>1, CodesHaveSteps, OneCode
  <2>8. PICK v : v = <<PayBack(s)>> \o u
    OBVIOUS
  <2>9. Rising(do, v)
    <3>1. u # <<>> => Precedes(do, PayBack(s), Head(u))
      BY <1>7, <2>1, <2>5 DEF Precedes
    <3>2. QED
      BY <1>6, <1>7, <2>1, <2>8, <3>1, InThePlace
  <2>10. PICK t : t = code \o <<PayBack(s)>>
    OBVIOUS
  <2>11. t \in Seq(S \cup {PayBack(s)}) /\ Rising(do, t) /\ t # <<>> /\ t[Len(t)] = PayBack(s)
    <3>1. <<PayBack(s)>> \in Seq({PayBack(s)}) /\ Rising(do, <<PayBack(s)>>)
          /\ Len(<<PayBack(s)>>) = 1 /\ <<PayBack(s)>>[1] = PayBack(s)
      BY OneIsRising
    <3>2. \A a \in S, b \in {PayBack(s)} : Precedes(do, a, b)
      <4>1. StepLevel(do, PayBack(s)) = 2
        BY <2>5 DEF StepLevel
      <4>2. \A a \in S : StepLevel(do, a) = 1 /\ a.op = "update"
        BY <2>1, <2>6 DEF CodeSteps, Rows, Increase, StepLevel, Level
      <4>3. QED
        BY <4>1, <4>2 DEF Precedes
    <3>3. t \in Seq(S \cup {PayBack(s)}) /\ Rising(do, t)
      <4>0. PICK T : T = {PayBack(s)}
        OBVIOUS
      <4>a. PICK a : a = <<PayBack(s)>>
        OBVIOUS
      <4>1. a \in Seq(T) /\ Rising(do, a) /\ \A x \in S, y \in T : Precedes(do, x, y)
        BY <3>1, <3>2, <4>0, <4>a
      <4>2. Rising(do, code \o a) /\ code \o a \in Seq(S \cup T)
        BY <2>7, <4>1, RisingBands
      <4>3. QED
        BY <2>10, <4>0, <4>a, <4>2
    <3>4. PICK U : U = S \cup {PayBack(s)}
      OBVIOUS
    <3>5. code \in Seq(U) /\ <<PayBack(s)>> \in Seq(U)
      BY <2>7, <3>1, <3>4, SeqMonotonic
    <3>6. Len(t) = Len(code) + 1 /\ Len(code) \in Nat /\ t[Len(t)] = PayBack(s)
      BY <2>10, <3>1, <3>5, ConcatProperties, LenProperties
    <3>7. t # <<>>
      BY <3>6, EmptySeq
    <3>8. QED
      BY <3>3, <3>6, <3>7
  <2>12. PICK w : w = t \o u
    OBVIOUS
  <2>13. Rising(do, w)
    <3>1. PICK U : U = S \cup {PayBack(s)} \cup Range(u)
      OBVIOUS
    <3>2. t \in Seq(U) /\ u \in Seq(U)
      <4>1. S \cup {PayBack(s)} \subseteq U /\ Range(u) \subseteq U
        BY <3>1
      <4>2. QED
        BY <1>6, <2>11, <4>1, SeqMonotonic
    <3>3. u # <<>> => Precedes(do, PayBack(s), u[1])
      BY <1>7, <1>8, <2>1, <2>5 DEF Precedes
    <3>4. QED
      BY <1>7, <2>1, <2>11, <2>12, <3>2, <3>3, RisingBoth
  <2>14. proc'[p].todo = w
    BY <1>3, <2>3, <2>10, <2>12 DEF Becomes, Fields
  <2>15. QED
    BY <1>9, <2>4, <2>13, <2>14
<1>11. CASE PayUser(p)
  <2>1. s.op = "payback" /\ do = "refund" /\ StepLevel(do, s) = 2
    BY <1>2, <1>3, <1>11 DEF PayUser, At, MayDo, StepLevel
  <2>2. PICK us, t : us = Ids(View(p), "users", {s.user}) /\ t = RefundSteps(s, us)
    OBVIOUS
  <2>3. Becomes(p, [proc[p] EXCEPT !.todo = t \o u])
    BY <1>2, <1>11, <2>2 DEF PayUser
  <2>4. s.num \in Int /\ s.price \in Int /\ s.key[1] = "jobhistory"
    BY <1>3, <2>1 DEF MayDo
  <2>5. /\ Rising(do, t) /\ t # <<>> /\ t[Len(t)].op = "commit" /\ 2 <= StepLevel(do, t[1])
        /\ t \in Seq(Range(t))
    BY <2>1, <2>2, <2>4, RefundRises, RefundIsPlanned DEF Planned
  <2>6. PICK w : w = t \o u
    OBVIOUS
  <2>7. PICK S : S = Range(t) \cup Range(u)
    OBVIOUS
  <2>8. t \in Seq(S) /\ u \in Seq(S)
    BY <1>6, <2>5, <2>7, SeqMonotonic
  <2>9. Rising(do, w)
    <3>1. u # <<>> => Precedes(do, t[Len(t)], u[1])
      BY <2>5 DEF Precedes
    <3>2. QED
      BY <1>7, <2>1, <2>5, <2>6, <2>8, <3>1, RisingBoth
  <2>10. Head(w) = t[1]
    <3>1. Len(t) \in Nat /\ Len(t) # 0
      BY <2>5, LenProperties, EmptySeq
    <3>2. QED
      BY <2>6, <2>8, <3>1, ConcatProperties, HeadTailProperties, EmptySeq
  <2>11. \A k \in DOMAIN proc[p].own : Level(do, k[1]) < StepLevel(do, t[1])
    <3>1. PICK y : y = StepLevel(do, t[1])
      OBVIOUS
    <3>2. y \in Int /\ 2 <= y /\ \A k \in DOMAIN proc[p].own : Level(do, k[1]) \in Int /\ Level(do, k[1]) < 2
      BY <1>7, <2>1, <2>5, <3>1, LevelsAre
    <3>3. \A k \in DOMAIN proc[p].own : Level(do, k[1]) < y
      BY <3>2
    <3>4. QED
      BY <3>1, <3>3
  <2>12. proc'[p].todo = w
    BY <1>3, <2>3, <2>6 DEF Becomes, Fields
  <2>13. QED
    BY <1>9, <2>9, <2>10, <2>11, <2>12
<1>12. CASE FindPages(p)
  <2>1. /\ Becomes(p, [proc[p] EXCEPT !.todo = PagesSteps(p) \o u])
        /\ s.op = "pages"
    BY <1>2, <1>12 DEF FindPages, PagesSteps, At
  <2>2. StepLevel(do, s) = 4 /\ s.op \notin {"commit", "refund", "payback"}
    BY <2>1 DEF StepLevel
  <2>3. do = "refund"
    BY <1>3, <2>1 DEF MayDo
  <2>4. u # <<>> => 4 < StepLevel(do, Head(u))
    BY <1>7, <2>2, <2>3 DEF Precedes
  <2>5. CASE PagesSteps(p) = <<>>
    <3>1. PagesSteps(p) \o u = u
      BY <1>6, <2>5, ConcatEmptySeq
    <3>2. proc'[p].todo = u
      BY <1>3, <2>1, <3>1 DEF Becomes, Fields
    <3>3. ASSUME u # <<>>, NEW k \in DOMAIN proc[p].own PROVE Level(do, k[1]) < StepLevel(do, Head(u))
      <4>1. PICK x, y : x = Level(do, k[1]) /\ y = StepLevel(do, Head(u))
        OBVIOUS
      <4>2. x \in Int /\ y \in Int /\ x < 4 /\ 4 < y
        BY <1>7, <2>2, <2>3, <2>4, <3>3, <4>1, LevelsAre
      <4>3. x < y
        BY <4>2
      <4>4. QED
        BY <4>1, <4>3
    <3>4. QED
      BY <1>7, <1>9, <2>3, <3>2, <3>3
  <2>6. ASSUME NEW x, x[1] = "userpquota", PagesSteps(p) = <<Increase(x, 0 - Step(p).num)>> PROVE WaitOK(p)'
    <3>1. PICK i : i = Increase(x, 0 - Step(p).num)
      OBVIOUS
    <3>2. StepLevel(do, i) = 4 /\ i.op = "update"
      BY <2>3, <2>6, <3>1 DEF StepLevel, Increase, Level
    <3>3. PICK w : w = <<i>> \o u
      OBVIOUS
    <3>4. proc'[p].todo = w
      BY <1>3, <2>1, <2>6, <3>1, <3>3 DEF Becomes, Fields
    <3>5. u # <<>> => Precedes(do, i, Head(u))
      BY <2>4, <3>2 DEF Precedes
    <3>6. Rising(do, w) /\ Head(w) = i
      BY <1>6, <1>7, <2>3, <3>3, <3>5, InThePlace
    <3>7. QED
      BY <1>7, <1>9, <2>2, <2>3, <3>2, <3>4, <3>6
  <2>7. QED
    BY <2>5, <2>6, PagesAreIncreases
<1>13. CASE LookAtLast(p)
  <2>1. PICK v : v = [s EXCEPT !.last = LastJob(View(p), s.row.printer)]
    OBVIOUS
  <2>2. s.op = "record" /\ Becomes(p, [proc[p] EXCEPT !.todo = <<v>> \o u])
    BY <1>2, <1>13, <2>1 DEF LookAtLast, At
  <2>3. do = "job" /\ DOMAIN s = {"op", "row", "last"}
    BY <1>3, <2>2 DEF MayDo
  <2>4. v.op = "record"
    BY <2>1, <2>2, <2>3
  <2>5. StepLevel(do, v) = StepLevel(do, s)
    BY <2>2, <2>4 DEF StepLevel
  <2>6. PICK w : w = <<v>> \o u
    OBVIOUS
  <2>7. proc'[p].todo = w
    BY <1>3, <2>2, <2>6 DEF Becomes, Fields
  <2>8. u # <<>> => Precedes(do, v, Head(u))
    BY <1>7, <2>2, <2>3, <2>4, <2>5 DEF Precedes
  <2>9. Rising(do, w) /\ Head(w) = v
    BY <1>6, <1>7, <2>3, <2>6, <2>8, InThePlace
  <2>10. QED
    BY <1>7, <1>9, <2>3, <2>5, <2>7, <2>9
<1>14. CASE ExtractTable(p)
  <2>1. s.op = "extract" /\ \E o : Becomes(p, [proc[p] EXCEPT !.out = o, !.todo = u])
    BY <1>2, <1>14 DEF ExtractTable, At
  <2>2. do = "dump"
    BY <1>3, <2>1 DEF MayDo
  <2>3. proc'[p].todo = u
    BY <1>3, <2>1 DEF Becomes, Fields
  <2>4. QED
    BY <1>9, <2>2, <2>3
<1>15. QED
  BY <1>10, <1>11, <1>12, <1>13, <1>14

LEMMA WaitStarts ==
  ASSUME TypeInv, NamesInv, NEW p \in Procs, Start(p)
  PROVE  WaitOK(p)'
<1> DEFINE c == cmd[p]
           us == Ids(db, "users", c.users)
           ps == Ids(db, "printers", c.printers)
           gs == Ids(db, "groups", c.groups)
           pgs == Ids(db, "printers", c.groups)
<1>1. /\ proc'[p].own = <<>> /\ proc'[p].gone = {} /\ proc'[p].shared = {}
      /\ proc'[p].todo = Script(p, db) /\ cmd' = cmd
  BY StartIs
<1>2. DOMAIN proc'[p].own = {}
  BY <1>1
<1>3. Tidy(db) /\ IsCommand(c)
  BY DbIsTidy DEF TypeInv
<1>4. c.do = "job" => Rising("job", Script(p, db))
  <2>1. c.do = "job" => Script(p, db) = PrintJob(db, p, us, ps)
    BY DEF Script
  <2>2. \A k, x \in DOMAIN db : Fits(k, db[k], x, db[x])
    BY SourcesAre DEF NamesInv, Agree
  <2> HIDE DEF us, ps
  <2>3. QED
    BY <1>3, <2>1, <2>2, JobHasSteps, JobsRise
<1>5. c.do = "refund" => Rising("refund", Script(p, db))
  <2>1. c.do = "refund" => Script(p, db) = Refunds(db, us, ps)
    BY DEF Script
  <2> HIDE DEF us, ps, c
  <2>2. QED
    BY <1>3, <2>1, RefundsRise
<1>6. c.do \in {"quit", "leave"} => Tail(Script(p, db)) = <<>>
  <2>1. c.do = "quit" => Script(p, db) = DelUsersFromGroups(us, gs)
    BY DEF Script
  <2>2. c.do = "leave" => Script(p, db) = RemovePrintersFromGroups(ps, pgs)
    BY DEF Script
  <2>3. \A s : Tail(<<s>>) = <<>>
    OBVIOUS
  <2> HIDE DEF us, ps, gs, pgs, c
  <2>4. (\E s : DelUsersFromGroups(us, gs) = <<s>>) /\ (\E s : RemovePrintersFromGroups(ps, pgs) = <<s>>)
    BY DEF DelUsersFromGroups, RemovePrintersFromGroups
  <2>5. QED
    BY <2>1, <2>2, <2>3, <2>4
<1>7. Below(p)'
  BY <1>2 DEF Below
<1>8. QED
  BY <1>1, <1>2, <1>4, <1>5, <1>6, <1>7 DEF WaitOK

LEMMA WaitCloses ==
  ASSUME TypeInv, NEW p \in Procs, WaitOK(p), CommitWork(p) \/ (RollBack(p) /\ cmd' = cmd)
  PROVE  WaitOK(p)'
<1>1. DOMAIN proc'[p].own = {} /\ proc'[p].shared = {} /\ cmd' = cmd
  BY CommitIs, RollBackIs
<1>2. Below(p)'
  BY <1>1 DEF Below
<1>3. CASE CommitWork(p)
  <2>1. /\ Running(p)
        /\ proc[p].todo # <<>> => proc'[p].todo = Tail(proc[p].todo)
        /\ IF proc[p].todo = <<>> THEN proc'[p].state = "done" ELSE Step(p).op = "commit"
    BY <1>3, CommitIs
  <2>2. CASE proc[p].todo = <<>>
    BY <1>1, <2>1, <2>2 DEF WaitOK, Running
  <2>3. CASE proc[p].todo # <<>>
    <3>1. MayDo(cmd[p].do, Step(p)) /\ proc[p].todo \in Seq(Range(proc[p].todo))
      BY <2>3, StepMayBeDone DEF TypeInv, ProcOK, Planned
    <3>2. cmd[p].do = "refund"
      BY <2>1, <2>3, <3>1 DEF MayDo
    <3>3. Rising("refund", proc'[p].todo)
      BY <2>1, <2>3, <3>1, <3>2, RisingTail DEF WaitOK
    <3>4. QED
      BY <1>1, <1>2, <3>2, <3>3 DEF WaitOK
  <2>4. QED
    BY <2>2, <2>3
<1>4. CASE RollBack(p)
  BY <1>1, <1>4, RollBackIs DEF WaitOK, Running
<1>5. QED
  BY <1>3, <1>4

LEMMA WaitOthers ==
  ASSUME TypeInv, LockInv, NEW r \in Procs, Work(r) \/ GiveUp(r), NEW p \in Procs, p # r, WaitOK(p)
  PROVE  WaitOK(p)'
<1>1. cmd' = cmd /\ conf' = conf /\ proc'[p] = proc[p] /\ (db' = db \/ CommitWork(r))
  BY OthersSee
<1>2. \A k \in DOMAIN proc[p].own : k \in DOMAIN db' <=> k \in DOMAIN db
  BY <1>1, CommitKeeps DEF Written
<1>3. Below(p) => Below(p)'
  BY <1>1 DEF Below, Step
<1>4. QED
  BY <1>1, <1>2, <1>3 DEF WaitOK, Running

LEMMA WaitInit == ASSUME Init PROVE WaitInv
BY NothingWritten DEF WaitInv, WaitOK

LEMMA WaitNext ==
  ASSUME TypeInv, LockInv, NamesInv, JobInv, MineInv, WaitInv, [Next]_vars
  PROVE  WaitInv'
<1>1. CASE UNCHANGED vars
  <2>1. cmd' = cmd /\ conf' = conf /\ db' = db /\ proc' = proc
    BY <1>1 DEF vars
  <2>2. \A p \in Procs : Below(p) => Below(p)'
    BY <2>1 DEF Below, Step
  <2>3. QED
    BY <2>1, <2>2 DEF WaitInv, WaitOK, Running
<1>2. ASSUME NEW r \in Procs, Work(r) \/ GiveUp(r), conf'.engine # "sqlite", NEW p \in Procs PROVE WaitOK(p)'
  <2>1. WaitOK(p) /\ (cmd[p].do = "job" => MineOK(p))
    BY <1>2, OthersSee DEF WaitInv, MineInv
  <2>2. CASE p # r
    BY <1>2, <2>1, <2>2, WaitOthers
  <2>3. CASE p = r
    <3>1. CASE Start(p)
      BY <3>1, WaitStarts
    <3>2. CASE ExpandRefund(p) \/ PayUser(p) \/ FindPages(p) \/ LookAtLast(p) \/ ExtractTable(p)
      BY <2>1, <3>2, WaitReads
    <3>3. CASE Execute(p)
      BY <2>1, <3>3, WaitExecutes
    <3>4. CASE CommitWork(p) \/ Refused(p) \/ GiveUp(p)
      BY <2>1, <3>4, WaitCloses DEF Refused, GiveUp
    <3>5. QED
      BY <1>2, <2>3, <3>1, <3>2, <3>3, <3>4 DEF Work
  <2>4. QED
    BY <2>2, <2>3
<1>3. CASE AllOver
  BY <1>1, <1>3 DEF AllOver
<1>4. QED
  BY <1>1, <1>2, <1>3 DEF Next, WaitInv

(* Who waits for whom: a process that has deleted nothing makes another,   *)
(* that deletes nothing either, wait for a row of its own.                 *)
Waits(q, k) ==
  \/ k \in DOMAIN db /\ (\/ Step(q).op = "update" /\ k = Step(q).key
                         \/ Step(q).op = "record" /\ k[1] = "jobhistory" /\ conf.disablehistory)
  \/ Step(q).op = "insert" /\ Step(q).table \in Unique /\ k[1] = Step(q).table
WaitsForOneOf(q, C) == \E r \in C : r # q /\ \E k \in DOMAIN proc[r].own : Waits(q, k)
Caught(q) ==
  /\ Running(q) /\ proc[q].todo # <<>> /\ Step(q).op \in {"insert", "update", "record"}
  /\ cmd[q].do \notin Deleting /\ proc[q].gone = {}
Circle(C) ==
  /\ C \subseteq Procs /\ C # {}
  /\ \A q \in C : Caught(q) /\ DOMAIN proc[q].own # {} /\ WaitsForOneOf(q, C)

LEMMA BlockedByARow ==
  ASSUME TypeInv, LockInv, NEW q \in Procs, NEW r \in Blockers(q), conf.engine # "sqlite",
         proc[r].gone = {}, Step(q).op # "delete"
  PROVE  r # q /\ \E k \in DOMAIN proc[r].own : Waits(q, k)
<1>1. r \in Procs /\ r # q /\ Running(q) /\ proc[q].todo # <<>> /\ Step(q).op \in Writes
  BY DEF Blockers
<1>2. \/ Touched(q) \cap Written(r) # {}
      \/ Clashes(q, Over(proc[r].own, Restrict(db, proc[r].gone \cap DOMAIN db)))
  BY <1>1 DEF Blockers
<1>3. Written(r) = DOMAIN proc[r].own /\ Written(q) \cap Written(r) = {}
  BY <1>1 DEF Written, LockInv, Apart
<1>4. CASE Touched(q) \cap Written(r) # {}
  <2>1. PICK k : k \in Touched(q) /\ k \in DOMAIN proc[r].own
    BY <1>3, <1>4
  <2>2. \/ Step(q).op = "update" /\ k = Step(q).key /\ k \in DOMAIN View(q)
        \/ Step(q).op = "record" /\ k[1] = "jobhistory" /\ conf.disablehistory /\ k \in DOMAIN View(q)
    BY <2>1 DEF Touched, Rows, Anew
  <2>3. k \in DOMAIN db
    <3>1. k \notin DOMAIN proc[q].own
      BY <1>3, <2>1 DEF Written
    <3>2. k \in DOMAIN View(q)
      BY <2>2
    <3>3. QED
      BY <3>1, <3>2, ViewIs
  <2>4. Waits(q, k)
    BY <2>2, <2>3 DEF Waits
  <2>5. QED
    BY <1>1, <2>1, <2>4
<1>5. CASE Clashes(q, Over(proc[r].own, Restrict(db, proc[r].gone \cap DOMAIN db)))
  <2>1. PICK d : d = Over(proc[r].own, Restrict(db, proc[r].gone \cap DOMAIN db))
    OBVIOUS
  <2>2. Step(q).op = "insert" /\ Step(q).table \in Unique /\ \E k \in DOMAIN d : k[1] = Step(q).table
    BY <1>5, <2>1 DEF Clashes, Rows
  <2>3. DOMAIN d = DOMAIN proc[r].own
    BY <2>1 DEF Over, Restrict
  <2>4. QED
    BY <1>1, <2>2, <2>3 DEF Waits
<1>6. QED
  BY <1>2, <1>4, <1>5

(* A process that waits and is waited for does not delete, when no         *)
(* deletion has written anything.                                          *)
LEMMA NoDeletionIsCaught ==
  ASSUME TypeInv, WaitInv, conf.engine # "sqlite", NEW q \in Procs, NEW r \in Blockers(q),
         Blockers(r) # {}, Deletes(r) => Written(r) = {}
  PROVE  Caught(r)
<1>1. r \in Procs /\ r # q
  BY DEF Blockers
<1>2. Running(r) /\ proc[r].todo # <<>> /\ Step(r).op \in Writes
  BY <1>1 DEF Blockers
<1>3. WaitOK(r) /\ ProcOK(r) /\ MayDo(cmd[r].do, Step(r))
  BY <1>1, <1>2, StepMayBeDone DEF WaitInv, TypeInv
<1>4. cmd[r].do \notin Deleting
  <2> SUFFICES ASSUME cmd[r].do \in Deleting PROVE FALSE
    OBVIOUS
  <2>1. proc[r].shared = {} /\ DOMAIN proc[r].own = {}
    BY <1>3 DEF WaitOK, ProcOK
  <2>2. Written(r) = {}
    <3>1. CASE cmd[r].do \in Deleters
      BY <3>1 DEF Deletes, Deleters
    <3>2. CASE cmd[r].do \in {"quit", "leave"}
      BY <1>2, <1>3, <2>1, <3>2 DEF WaitOK, Written
    <3>3. QED
      BY <3>1, <3>2 DEF Deleting
  <2>3. PICK d : d = Over(proc[r].own, Restrict(db, proc[r].gone \cap DOMAIN db))
    OBVIOUS
  <2>4. DOMAIN d = {}
    BY <2>2, <2>3 DEF Over, Restrict, Written
  <2>5. ~Clashes(q, d)
    BY <2>4 DEF Clashes, Rows
  <2>6. QED
    BY <2>1, <2>2, <2>3, <2>5 DEF Blockers, Written
<1>5. proc[r].gone = {}
  BY <1>3, <1>4 DEF ProcOK
<1>6. Step(r).op # "delete"
  BY <1>3, <1>4 DEF MayDo
<1>7. QED
  BY <1>2, <1>4, <1>5, <1>6 DEF Caught, Writes

(* Those that are waited for by one that is waited for are a circle by     *)
(* themselves.                                                             *)
LEMMA CircleOfOwners ==
  ASSUME TypeInv, LockInv, WaitInv, conf.engine # "sqlite", NEW p \in Procs, Deadlocked(p),
         \A q \in Procs : Deletes(q) => Written(q) = {}
  PROVE  \E C : Circle(C)
<1>1. PICK S \in SUBSET Procs : /\ p \in S /\ \A q \in S : Blockers(q) \cap S # {}
                                /\ \E q \in S : p \in Blockers(q)
  BY DEF Deadlocked
<1> DEFINE B == {r \in S : \E q \in S : r \in Blockers(q)}
           C == {r \in B : \E q \in B : r \in Blockers(q)}
<1>2. p \in B /\ B \subseteq Procs /\ C \subseteq B
  BY <1>1
<1>3. \A r \in B : \E x \in C : x \in Blockers(r)
  BY <1>1
<1>4. \A r \in B : \E q \in Procs : r \in Blockers(q)
  BY <1>1
<1>5. \A r \in C : \E q \in B : r \in Blockers(q)
  OBVIOUS
<1> HIDE DEF B, C
<1>6. ASSUME NEW r \in B PROVE Caught(r)
  <2>1. PICK q \in Procs : r \in Blockers(q)
    BY <1>4
  <2>2. Blockers(r) # {} /\ r \in Procs
    BY <1>2, <1>3
  <2>3. QED
    BY <2>1, <2>2, NoDeletionIsCaught
<1>7. ASSUME NEW q \in B, NEW r \in C, r \in Blockers(q)
      PROVE  r # q /\ \E k \in DOMAIN proc[r].own : Waits(q, k)
  <2>1. q \in Procs /\ proc[r].gone = {} /\ Step(q).op # "delete"
    BY <1>2, <1>6 DEF Caught
  <2>2. QED
    BY <1>7, <2>1, BlockedByARow
<1>8. ASSUME NEW q \in C PROVE Caught(q) /\ DOMAIN proc[q].own # {} /\ WaitsForOneOf(q, C)
  <2>1. Caught(q)
    BY <1>2, <1>6
  <2>2. DOMAIN proc[q].own # {}
    BY <1>5, <1>7
  <2>3. PICK r \in C : r \in Blockers(q)
    BY <1>2, <1>3
  <2>4. WaitsForOneOf(q, C)
    BY <1>2, <1>7, <2>3 DEF WaitsForOneOf
  <2>5. QED
    BY <2>1, <2>2, <2>4
<1>9. C # {} /\ C \subseteq Procs
  BY <1>2, <1>3
<1>10. QED
  BY <1>8, <1>9 DEF Circle

(* Whose row it is that a job, a refund or a payment waits for.            *)
InCommon(q, r) == cmd[q].users \cap cmd[r].users # {}
Obstructs(r, k, q) ==
  /\ r # q /\ k \in DOMAIN proc[r].own /\ cmd[r].do \in Payers
  /\ \/ Step(q).op = "update" /\ k = Step(q).key
     \/ Step(q).op = "record" /\ cmd[q].do = "job" /\ k[1] = "jobhistory" /\ conf.disablehistory
  /\ k \in DOMAIN db /\ (Itself(q, k) => Step(q) = LeftAsItWas(k))
  /\ cmd[r].do = "pay" => k[1] = "users"
  /\ cmd[r].do = "job" /\ k[1] = "jobhistory" => conf.disablehistory
  /\ cmd[r].do # "pay" => Level(cmd[r].do, k[1]) < StepLevel(cmd[r].do, Step(r))
  /\ cmd[r].do # "pay" /\ cmd[q].do # "pay" /\ k[1] \in {"users", "userpquota"} => InCommon(q, r)
ObstructedIn(q, C) == \E r \in C : \E k : Obstructs(r, k, q)

LEMMA UserInCommon ==
  ASSUME TypeInv, WholeInv, conf.engine # "sqlite", NEW q \in Procs, NEW r \in Procs,
         NEW k \in DOMAIN db, k[1] \in {"users", "userpquota"}, Mine(q, k), Mine(r, k)
  PROVE  InCommon(q, r)
<1>1. CASE k[1] = "users"
  BY <1>1 DEF Mine, UserOf, Gone, InCommon
<1>2. CASE k[1] = "userpquota"
  <2>1. conf.enforced
    BY DEF TypeInv, ConfType
  <2>2. PICK n : n = <<"users", db[k].user>>
    OBVIOUS
  <2>3. n \in References(k[1], db[k])
    <3>1. \A y : <<"users", y.user>> \in References("userpquota", y)
      BY DEF References
    <3>2. QED
      BY <1>2, <2>2, <3>1
  <2>4. PICK x \in DOMAIN db : n \in Names(x, db[x])
    <3>1. Whole(db)
      BY <2>1, WholeIs DEF SeenInv
    <3>2. QED
      BY <2>3, <3>1 DEF Whole, NamesIn
  <2>5. n = x
    <3>1. n[1] = "users"
      BY <2>2
    <3>2. QED
      BY <2>4, <3>1, ItsOnlyName
  <2>6. UserOf(q, n) /\ UserOf(r, n)
    BY <1>2, <2>2 DEF Mine, QuotaOf, Gone
  <2>7. QED
    BY <2>4, <2>5, <2>6 DEF UserOf, Gone, InCommon
<1>3. QED
  BY <1>1, <1>2

LEMMA WhoObstructs ==
  ASSUME TypeInv, LockInv, AddedInv, WholeInv, MineInv, WaitInv, JobInv, conf.engine # "sqlite",
         NEW C, Circle(C), NEW q \in C, cmd[q].do \in Payers
  PROVE  ObstructedIn(q, C)
<1>1. PICK r \in C : r # q /\ \E k \in DOMAIN proc[r].own : Waits(q, k)
  BY DEF Circle, WaitsForOneOf
<1>2. PICK k \in DOMAIN proc[r].own : Waits(q, k)
  BY <1>1
<1>3. q \in Procs /\ r \in Procs /\ Caught(q) /\ Caught(r)
  BY DEF Circle
<1>4. WaitOK(q) /\ WaitOK(r) /\ MayDo(cmd[q].do, Step(q))
  BY <1>3, StepMayBeDone DEF WaitInv, Caught
<1>5. /\ k \in DOMAIN db
      /\ \/ Step(q).op = "update" /\ k = Step(q).key
         \/ Step(q).op = "record" /\ cmd[q].do = "job" /\ k[1] = "jobhistory" /\ conf.disablehistory
  <2>1. ~(Step(q).op = "insert" /\ Step(q).table \in Unique)
    BY <1>4 DEF MayDo, AddedBy, Unique, TableNames, Payers
  <2>2. Step(q).op = "record" => cmd[q].do = "job"
    BY <1>4 DEF MayDo
  <2>3. QED
    BY <1>2, <2>1, <2>2 DEF Waits
<1>6. cmd[r].do \in Payers
  BY <1>4, <1>5 DEF WaitOK
<1>7. k[1] \in {"users", "userpquota", "billingcodes", "jobhistory"}
  BY <1>4, <1>5 DEF MayDo
<1>8. cmd[r].do = "pay" => k[1] = "users"
  BY <1>4, <1>7 DEF WaitOK
<1>9. cmd[r].do # "pay" => Level(cmd[r].do, k[1]) < StepLevel(cmd[r].do, Step(r))
  BY <1>3, <1>4, <1>6 DEF WaitOK, Below, Caught, Payers
<1>10. cmd[r].do = "job" /\ k[1] = "jobhistory" => conf.disablehistory
  BY <1>4, <1>5 DEF WaitOK
<1>11. Itself(q, k) => Step(q) = LeftAsItWas(k)
  <2>1. k \notin DOMAIN proc[q].own
    BY <1>1, <1>3 DEF LockInv, Apart, Written
  <2>2. QED
    BY <1>5, <2>1 DEF Itself, Gone
<1>12. ASSUME cmd[r].do # "pay", cmd[q].do # "pay", k[1] \in {"users", "userpquota"} PROVE InCommon(q, r)
  <2>1. MineOK(q) /\ MineOK(r)
    BY <1>3, <1>6, <1>12 DEF MineInv, Payers
  <2>2. Mine(r, k)
    BY <2>1 DEF MineOK
  <2>3. Step(q).op = "update" /\ k = Step(q).key
    BY <1>5, <1>12
  <2>4. Step(q) \in Range(proc[q].todo)
    BY <1>3, StepMayBeDone DEF Caught
  <2>5. Mine(q, k)
    BY <1>3, <2>1, <2>3, <2>4 DEF MineOK, NamesMine, Caught
  <2>6. QED
    BY <1>3, <1>5, <1>12, <2>2, <2>5, UserInCommon
<1>13. Obstructs(r, k, q)
  BY <1>1, <1>2, <1>5, <1>6, <1>8, <1>9, <1>10, <1>11, <1>12 DEF Obstructs
<1>14. QED
  BY <1>13 DEF ObstructedIn

(* What those who wait are going to change.                                *)
JobMayWait(q) ==
  \/ Step(q).op = "record" /\ StepLevel("job", Step(q)) = 5
  \/ /\ Step(q).op = "update"
     /\ \/ Step(q).key[1] = "users" /\ StepLevel("job", Step(q)) = 2
        \/ Step(q).key[1] = "billingcodes" /\ StepLevel("job", Step(q)) = 6
        \/ /\ Step(q).key[1] = "userpquota" /\ StepLevel("job", Step(q)) = 4
           /\ Step(q).num # 0 /\ (CountsAbove(q) \/ Itself(q, Step(q).key))
RefundMayWait(q) ==
  /\ Step(q).op = "update" \/ (Step(q).op = "insert" /\ Step(q).table = "payments")
  /\ Step(q).op = "update" =>
       \/ Step(q).key[1] = "users" /\ StepLevel("refund", Step(q)) = 2
       \/ Step(q).key[1] = "userpquota" /\ StepLevel("refund", Step(q)) = 4
       \/ Step(q).key[1] = "jobhistory" /\ StepLevel("refund", Step(q)) = 5

LEMMA WhatMayWait ==
  ASSUME TypeInv, MineInv, WaitInv, JobInv, conf.engine # "sqlite", NEW C, Circle(C), NEW q \in C
  PROVE  /\ cmd[q].do = "job" => JobMayWait(q)
         /\ cmd[q].do = "refund" => RefundMayWait(q)
<1>1. q \in Procs /\ Caught(q) /\ DOMAIN proc[q].own # {}
  BY DEF Circle
<1>2. WaitOK(q) /\ MayDo(cmd[q].do, Step(q)) /\ Step(q) \in Range(proc[q].todo)
  BY <1>1, StepMayBeDone DEF WaitInv, Caught
<1>3. PICK k : k \in DOMAIN proc[q].own
  BY <1>1
<1>4. cmd[q].do \in {"job", "refund"} => Level(cmd[q].do, k[1]) < StepLevel(cmd[q].do, Step(q))
  BY <1>1, <1>2, <1>3 DEF WaitOK, Below, Caught
<1>5. ASSUME cmd[q].do = "job" PROVE JobMayWait(q)
  <2>1. JobStep(q, Step(q))
    BY <1>1, <1>2, <1>5 DEF JobInv, AtWork, Caught
  <2>2. StepLevel("job", Step(q)) # 0
    <3>1. Level("job", k[1]) \in 0 .. 6 /\ Level("job", k[1]) < StepLevel("job", Step(q))
      BY <1>4, <1>5, LevelsAre
    <3>2. QED
      BY <3>1
  <2>3. NamesMine(q, Step(q))
    BY <1>1, <1>2, <1>5 DEF MineInv, MineOK, Caught
  <2>4. CASE Step(q).op = "record"
    BY <2>4 DEF JobMayWait, StepLevel
  <2>5. CASE Step(q).op = "update"
    <3>1. Step(q).key[1] \in {"users", "userpquota", "billingcodes"} /\ ItsOwn(q, Step(q))
      BY <1>2, <1>5, <2>3, <2>5 DEF MayDo, NamesMine, ItsOwn
    <3>2. CASE Step(q).key[1] = "userpquota"
      <4>1. Step(q).num # 0 /\ StepLevel("job", Step(q)) = 4
        BY <2>2, <2>5, <3>2 DEF StepLevel, Level
      <4>2. CountsAbove(q) \/ Itself(q, Step(q).key)
        BY <1>1, <2>5, <3>1, <3>2, <4>1 DEF CountsAbove, At, Caught, ItsOwn
      <4>3. QED
        BY <2>5, <3>2, <4>1, <4>2 DEF JobMayWait
    <3>3. CASE Step(q).key[1] \in {"users", "billingcodes"}
      BY <2>5, <3>3 DEF JobMayWait, StepLevel, Level
    <3>4. QED
      BY <3>1, <3>2, <3>3
  <2>6. QED
    BY <2>1, <2>4, <2>5 DEF JobStep
<1>6. ASSUME cmd[q].do = "refund" PROVE RefundMayWait(q)
  <2>1. StepLevel("refund", Step(q)) # 1
    <3>1. Level("refund", k[1]) \in 1 .. 6 /\ Level("refund", k[1]) < StepLevel("refund", Step(q))
      BY <1>4, <1>6, LevelsAre
    <3>2. QED
      BY <3>1
  <2>2. Step(q).op = "update" \/ (Step(q).op = "insert" /\ Step(q).table = "payments")
    BY <1>1, <1>2, <1>6 DEF MayDo, AddedBy, Caught
  <2>3. Step(q).op = "update" => Step(q).key[1] \in {"users", "userpquota", "jobhistory"}
    BY <1>2, <2>1 DEF MayDo, StepLevel, Level
  <2>4. QED
    BY <2>2, <2>3 DEF RefundMayWait, StepLevel, Level
<1>7. QED
  BY <1>5, <1>6

(* Two that are caught and write in opposite orders.                       *)
OppositeOrders ==
  \/ \E q, r \in Procs : BothWrote(q, r, cmd[q].do) /\ cmd[q].do \notin {"job", "refund"}
  \/ \E q, r \in Procs : BothWrote(q, r, "job") /\ CountsAbove(q) /\ InCommon(q, r)
  \/ \E q, r \in Procs :
       /\ cmd[q].do = "job" /\ cmd[r].do = "refund" /\ Written(q) # {} /\ Written(r) # {}
       /\ InCommon(q, r) \/ conf.disablehistory \/ \E x \in Procs : cmd[x].do = "pay" /\ Written(x) # {}

(* Along a circle that is not one of these the levels of what jobs and     *)
(* refunds wait for rise, up to a payment; and who pays only waits for     *)
(* another who does.                                                       *)
LEMMA CirclesAreOpposed ==
  ASSUME TypeInv, LockInv, AddedInv, WholeInv, MineInv, WaitInv, JobInv, conf.engine # "sqlite",
         NEW C, Circle(C)
  PROVE  OppositeOrders
<1> SUFFICES ASSUME ~OppositeOrders PROVE FALSE
  OBVIOUS
<1>1. C # {} /\ \A q \in C : q \in Procs /\ Caught(q) /\ Written(q) # {} /\ WaitsForOneOf(q, C)
  BY DEF Circle, Written
<1>2. ASSUME NEW q \in C, cmd[q].do \in Payers PROVE \E r \in C : \E k : Obstructs(r, k, q)
  BY <1>2, WhoObstructs DEF ObstructedIn
<1>3. ASSUME NEW q \in C, NEW r \in C, q # r, cmd[q].do = cmd[r].do PROVE cmd[q].do \in {"job", "refund"}
  BY <1>1, <1>3 DEF OppositeOrders, BothWrote
<1>4. ASSUME NEW q \in C, NEW r \in C, cmd[q].do = "job", cmd[r].do = "refund"
      PROVE  /\ ~InCommon(q, r) /\ ~InCommon(r, q) /\ ~conf.disablehistory
             /\ \A x \in C : cmd[x].do # "pay"
  BY <1>1, <1>4 DEF OppositeOrders, InCommon
<1>5. ASSUME NEW q \in C, NEW r \in C, q # r, cmd[q].do = "job", cmd[r].do = "job", CountsAbove(q)
      PROVE  ~InCommon(q, r)
  BY <1>1, <1>5 DEF OppositeOrders, BothWrote
<1>6. \A q \in C : (cmd[q].do = "job" => JobMayWait(q)) /\ (cmd[q].do = "refund" => RefundMayWait(q))
  BY WhatMayWait
<1>7. "job" \in Payers /\ "refund" \in Payers /\ "pay" \in Payers
      /\ \A do \in Payers : do \in {"job", "refund", "pay"}
  BY DEF Payers
(* Refunds.                                                                *)
<1>8. ASSUME NEW q \in C, cmd[q].do = "refund"
      PROVE  /\ Step(q).op = "update" /\ Step(q).key[1] \in {"users", "userpquota", "jobhistory"}
             /\ StepLevel("refund", Step(q)) = Level("refund", Step(q).key[1])
  <2>0. PICK r \in C : \E k : Obstructs(r, k, q)
    BY <1>2, <1>7, <1>8
  <2>1. PICK k : Obstructs(r, k, q)
    BY <2>0
  <2>2. Step(q).op = "update"
    BY <1>8, <2>1 DEF Obstructs
  <2>3. QED
    BY <1>6, <1>8, <2>2 DEF RefundMayWait, Level
<1>9. ASSUME NEW q \in C, cmd[q].do = "refund" PROVE Step(q).key[1] # "jobhistory"
  <2> SUFFICES ASSUME Step(q).key[1] = "jobhistory" PROVE FALSE
    OBVIOUS
  <2>0. PICK r \in C : \E k : Obstructs(r, k, q)
    BY <1>2, <1>7, <1>9
  <2>1. PICK k : Obstructs(r, k, q)
    BY <2>0
  <2>2. k[1] = "jobhistory" /\ cmd[r].do \in {"job", "refund"}
    BY <1>7, <1>8, <1>9, <2>1 DEF Obstructs
  <2>3. CASE cmd[r].do = "job"
    BY <1>4, <1>9, <2>1, <2>2, <2>3 DEF Obstructs
  <2>4. CASE cmd[r].do = "refund"
    <3>1. Level("refund", "jobhistory") < Level("refund", Step(r).key[1])
      BY <1>8, <2>1, <2>2, <2>4 DEF Obstructs
    <3>2. QED
      BY <1>8, <2>4, <3>1 DEF Level
  <2>5. QED
    BY <2>2, <2>3, <2>4
<1>10. ASSUME NEW q \in C, cmd[q].do = "refund" PROVE Step(q).key[1] = "users"
  <2> SUFFICES ASSUME Step(q).key[1] = "userpquota" PROVE FALSE
    BY <1>8, <1>9, <1>10
  <2>0. PICK r \in C : \E k : Obstructs(r, k, q)
    BY <1>2, <1>7, <1>10
  <2>1. PICK k : Obstructs(r, k, q)
    BY <2>0
  <2>2. k[1] = "userpquota" /\ cmd[r].do \in {"job", "refund"}
    BY <1>7, <1>8, <1>10, <2>1 DEF Obstructs
  <2>3. InCommon(q, r)
    BY <1>10, <2>1, <2>2 DEF Obstructs
  <2>4. CASE cmd[r].do = "job"
    BY <1>4, <1>10, <2>3, <2>4
  <2>5. CASE cmd[r].do = "refund"
    <3>1. Level("refund", "userpquota") < Level("refund", Step(r).key[1])
      BY <1>8, <2>1, <2>2, <2>5 DEF Obstructs
    <3>2. QED
      BY <1>8, <1>9, <2>5, <3>1 DEF Level
  <2>6. QED
    BY <2>2, <2>4, <2>5
<1>11. ASSUME NEW q \in C, cmd[q].do = "refund" PROVE \E x \in C : cmd[x].do = "pay"
  <2>0. PICK r \in C : \E k : Obstructs(r, k, q)
    BY <1>2, <1>7, <1>11
  <2>1. PICK k : Obstructs(r, k, q)
    BY <2>0
  <2>2. k[1] = "users" /\ cmd[r].do \in {"job", "refund", "pay"}
    BY <1>7, <1>8, <1>10, <1>11, <2>1 DEF Obstructs
  <2>3. cmd[r].do # "job"
    <3>1. cmd[r].do = "job" => InCommon(q, r)
      BY <1>11, <2>1, <2>2 DEF Obstructs
    <3>2. QED
      BY <1>4, <1>11, <3>1
  <2>4. cmd[r].do # "refund"
    <3>1. cmd[r].do = "refund" => Level("refund", "users") < Level("refund", Step(r).key[1])
      BY <1>8, <2>1, <2>2 DEF Obstructs
    <3>2. QED
      BY <1>10, <3>1 DEF Level
  <2>5. QED
    BY <2>2, <2>3, <2>4
(* Where there is a job there is no refund.                                *)
<1>12. ASSUME NEW q \in C, cmd[q].do = "job", NEW r \in C PROVE cmd[r].do # "refund"
  BY <1>4, <1>11, <1>12
<1>13. ASSUME NEW q \in C, cmd[q].do = "job"
       PROVE  ~(Step(q).op = "update" /\ Step(q).key[1] = "billingcodes")
  <2> SUFFICES ASSUME Step(q).op = "update", Step(q).key[1] = "billingcodes" PROVE FALSE
    OBVIOUS
  <2>0. PICK r \in C : \E k : Obstructs(r, k, q)
    BY <1>2, <1>7, <1>13
  <2>1. PICK k : Obstructs(r, k, q)
    BY <2>0
  <2>2. k[1] = "billingcodes" /\ cmd[r].do = "job"
    BY <1>7, <1>12, <1>13, <2>1 DEF Obstructs
  <2>3. Level("job", "billingcodes") < StepLevel("job", Step(r))
    BY <2>1, <2>2 DEF Obstructs
  <2>4. StepLevel("job", Step(r)) \in {2, 4, 5, 6}
    BY <1>6, <2>2 DEF JobMayWait
  <2>5. QED
    BY <2>3, <2>4 DEF Level
<1>14. ASSUME NEW q \in C, cmd[q].do = "job" PROVE Step(q).op # "record"
  <2> SUFFICES ASSUME Step(q).op = "record" PROVE FALSE
    OBVIOUS
  <2>0. PICK r \in C : \E k : Obstructs(r, k, q)
    BY <1>2, <1>7, <1>14
  <2>1. PICK k : Obstructs(r, k, q)
    BY <2>0
  <2>2. k[1] = "jobhistory" /\ cmd[r].do = "job"
    BY <1>7, <1>12, <1>14, <2>1 DEF Obstructs
  <2>3. Level("job", "jobhistory") < StepLevel("job", Step(r))
    BY <2>1, <2>2 DEF Obstructs
  <2>4. StepLevel("job", Step(r)) \in {2, 4, 5}
    BY <1>6, <1>13, <2>2 DEF JobMayWait
  <2>5. QED
    BY <2>3, <2>4 DEF Level
<1>15. ASSUME NEW q \in C, cmd[q].do = "job"
       PROVE  Step(q).op = "update" /\ Step(q).key[1] = "users" /\ StepLevel("job", Step(q)) = 2
  <2> SUFFICES ASSUME Step(q).op = "update", Step(q).key[1] = "userpquota", Step(q).num # 0,
                      CountsAbove(q) \/ Itself(q, Step(q).key)
               PROVE  FALSE
    BY <1>6, <1>13, <1>14, <1>15 DEF JobMayWait
  <2>0. PICK r \in C : \E k : Obstructs(r, k, q)
    BY <1>2, <1>7, <1>15
  <2>1. PICK k : Obstructs(r, k, q)
    BY <2>0
  <2>2. k = Step(q).key /\ k[1] = "userpquota" /\ cmd[r].do = "job" /\ r # q
    BY <1>7, <1>12, <1>15, <2>1 DEF Obstructs
  <2>3. ~Itself(q, k)
    BY <2>1 DEF Obstructs, LeftAsItWas
  <2>4. InCommon(q, r)
    BY <1>15, <2>1, <2>2 DEF Obstructs
  <2>5. QED
    BY <1>5, <1>15, <2>2, <2>3, <2>4
(* So both wait for the row of a user, of one who pays, and he does not.   *)
<1>16. ASSUME NEW q \in C PROVE cmd[q].do # "pay"
  <2> SUFFICES ASSUME cmd[q].do = "pay" PROVE FALSE
    OBVIOUS
  <2>0. PICK r \in C : \E k : Obstructs(r, k, q)
    BY <1>2, <1>7
  <2>1. PICK k : Obstructs(r, k, q)
    BY <2>0
  <2>2. Step(q).op = "update" /\ k = Step(q).key /\ r # q /\ cmd[r].do \in Payers
    BY <2>1 DEF Obstructs
  <2>3. k[1] = "users"
    BY <1>1, <2>2, StepMayBeDone DEF Caught, MayDo
  <2>4. cmd[r].do # "pay"
    BY <1>3, <2>2
  <2>5. Level(cmd[r].do, "users") < StepLevel(cmd[r].do, Step(r))
    BY <2>1, <2>3, <2>4 DEF Obstructs
  <2>6. StepLevel(cmd[r].do, Step(r)) = 2
    BY <1>7, <1>8, <1>10, <1>15, <2>2, <2>4 DEF Level
  <2>7. QED
    BY <2>5, <2>6 DEF Level
<1>17. ASSUME NEW q \in C PROVE cmd[q].do # "job"
  <2> SUFFICES ASSUME cmd[q].do = "job" PROVE FALSE
    OBVIOUS
  <2>0. PICK r \in C : \E k : Obstructs(r, k, q)
    BY <1>2, <1>7
  <2>1. PICK k : Obstructs(r, k, q)
    BY <2>0
  <2>2. k[1] = "users" /\ cmd[r].do = "job"
    BY <1>7, <1>12, <1>15, <1>16, <2>1 DEF Obstructs
  <2>3. Level("job", "users") < StepLevel("job", Step(r))
    BY <2>1, <2>2 DEF Obstructs
  <2>4. QED
    BY <1>15, <2>2, <2>3 DEF Level
<1>18. \A q \in C : cmd[q].do \notin Payers
  BY <1>7, <1>11, <1>16, <1>17
(* Who adds rows waits for one that adds the same.                         *)
<1>19. PICK q \in C : TRUE
  BY <1>1
<1>20. PICK r \in C : r # q /\ \E k \in DOMAIN proc[r].own : Waits(q, k)
  BY <1>1 DEF WaitsForOneOf
<1>21. PICK k \in DOMAIN proc[r].own : Waits(q, k)
  BY <1>20
<1>22. k \notin DOMAIN db
  BY <1>1, <1>18 DEF WaitInv, WaitOK
<1>23. Step(q).op = "insert" /\ Step(q).table \in Unique /\ k[1] = Step(q).table
  BY <1>21, <1>22 DEF Waits
<1>24. AddedBy(cmd[r].do, k[1]) /\ AddedBy(cmd[q].do, k[1])
  <2>1. AddedBy(cmd[r].do, k[1])
    BY <1>1, <1>22 DEF AddedInv
  <2>2. MayDo(cmd[q].do, Step(q))
    BY <1>1, StepMayBeDone DEF Caught
  <2>3. QED
    BY <1>23, <2>1, <2>2 DEF MayDo
<1>25. cmd[r].do = cmd[q].do
  BY <1>23, <1>24 DEF AddedBy, Unique, TableNames
<1>26. QED
  BY <1>3, <1>7, <1>18, <1>20, <1>25

(* The database breaks no circle of waiting but these, and those that a    *)
(* deletion is in.                                                         *)
LEMMA CirclesAreSpared ==
  ASSUME TypeInv, LockInv, AddedInv, WholeInv, MineInv, WaitInv, JobInv
  PROVE  DeadlockNeedsOppositeOrders
<1>1. ASSUME NEW p \in Procs, Deadlocked(p), \A q \in Procs : Deletes(q) => Written(q) = {}
      PROVE  OppositeOrders
  <2>1. CASE conf.engine = "sqlite"
    <3>1. PICK S \in SUBSET Procs : /\ p \in S /\ \A q \in S : Blockers(q) \cap S # {}
                                    /\ \E q \in S : p \in Blockers(q)
      BY <1>1 DEF Deadlocked
    <3>2. PICK x \in S : x \in Blockers(p)
      BY <3>1
    <3>3. x # p /\ x \in Procs /\ Written(x) # {} /\ Written(p) # {}
      BY <2>1, <3>1, <3>2 DEF Blockers
    <3>4. QED
      BY <2>1, <3>3 DEF LockInv, Apart
  <2>2. CASE conf.engine # "sqlite"
    <3>1. PICK C : Circle(C)
      BY <1>1, <2>2, CircleOfOwners
    <3>2. QED
      BY <2>2, <3>1, CirclesAreOpposed
  <2>3. QED
    BY <2>1, <2>2
<1>2. QED
  BY <1>1 DEF DeadlockNeedsOppositeOrders, OppositeOrders, InCommon

-----------------------------------------------------------------------------
(* All of it, always.                                                      *)

RacesInv ==
  /\ TypeInv /\ LockInv /\ NameInv /\ JobInv /\ NamesInv /\ SharedInv /\ PlanInv /\ WholeInv /\ AloneInv
  /\ AddedInv /\ DumpInv /\ MineInv /\ WaitInv

LEMMA RacesAlways == Spec => []RacesInv
<1>1. Init => RacesInv
  BY TypeInit, LockInit, NameInit, JobInit, NamesInit, SharedInit, PlanInit, WholeInit, AloneInit, AddedInit,
     DumpInit, MineInit, WaitInit DEF RacesInv
<1>2. RacesInv /\ [Next]_vars => RacesInv'
  BY TypeNext, LockNext, NameNext, JobNext, NamesNext, SharedNext, PlanNext, WholeNext, AloneNext, AddedNext,
     DumpNext, MineNext, WaitNext DEF RacesInv
<1>3. QED
  BY <1>1, <1>2, PTL DEF Spec

(* Who fails did not run alone: no command by itself deletes a row before  *)
(* what refers to it, adds a row twice, or adds one that refers to         *)
(* nothing, and nobody waits for himself.  Only a refund of a job whose    *)
(* billing code is gone fails alone.                                       *)
THEOREM FailuresNeedAnother == Spec => FailureNeedsOverlap
<1>1. RacesInv /\ [Next]_vars =>
        [\A p \in Procs : proc[p].state # "failed" /\ proc'[p].state = "failed" =>
           beside[p] # {} \/ NamesNoCode(p)]_vars
  <2>1. ASSUME RacesInv, Next, NEW p \in Procs, proc[p].state # "failed", proc'[p].state = "failed"
        PROVE  beside[p] # {} \/ NamesNoCode(p)
    <3>1. PICK r \in Procs : Work(r) \/ GiveUp(r)
      BY <2>1 DEF Next, AllOver, vars
    <3>2. QED
      BY <2>1, <3>1, AloneSucceeds DEF RacesInv
  <2>2. QED
    BY <2>1
<1>2. QED
  BY <1>1, RacesAlways, PTL DEF Spec, FailureNeedsOverlap

(* Where foreign keys are checked, no row ever refers to nothing, whoever  *)
(* deletes beside whom; where they are not, a deletion must have run       *)
(* beside a process that does not delete.                                  *)
THEOREM OrphansNeedADeletion == Spec => []OrphansNeedRace
<1>1. RacesInv => OrphansNeedRace
  BY OrphansAreLeft DEF RacesInv
<1>2. QED
  BY <1>1, RacesAlways, PTL

(* When processes wait in a circle, a deletion has written, or two of them *)
(* wrote in opposite orders: two that add or pay, a job that came to the   *)
(* groups of its printer and another of the same user, or a job and a      *)
(* refund that meet at an user, at a last job or at one who pays.  Refunds *)
(* alone, and jobs on printers in no group, never wait for one another so. *)
THEOREM CirclesNeedOppositeOrders == Spec => []DeadlockNeedsOppositeOrders
<1>1. RacesInv => DeadlockNeedsOppositeOrders
  BY CirclesAreSpared DEF RacesInv
<1>2. QED
  BY <1>1, RacesAlways, PTL

(* What a row of a dump refers to is in the dump: the tables are read one  *)
(* by one, each by a query of its own, but what is referred to before what *)
(* refers to it.                                                           *)
THEOREM DumpsCanBeRestored == Spec => []DumpNamesWhatItHas
<1>1. RacesInv => DumpNamesWhatItHas
  BY DumpsNameWhatTheyHave DEF RacesInv
<1>2. QED
  BY <1>1, RacesAlways, PTL

(* A dump that is made alone shows every row, but those that refer to      *)
(* nothing or to a row that does, and group quotas without pages.          *)
THEOREM DumpsAreWhole == Spec => DumpIsWhole
<1>1. RacesInv /\ [Next]_vars =>
        [\A p \in Procs :
           cmd[p].do = "dump" /\ proc[p].state = "running" /\ proc'[p].state = "done" /\ beside[p] = {} =>
             \A k \in DOMAIN db \ DOMAIN proc[p].out :
               \/ \E x \in {k} \cup Referred(db, k) : Orphan(db, x)
               \/ k[1] = "grouppquota" /\ ~HasPages(db, db[k])]_vars
  <2> SUFFICES ASSUME RacesInv, Next, NEW p \in Procs, cmd[p].do = "dump", proc[p].state = "running",
                      proc'[p].state = "done", beside[p] = {},
                      NEW k \in DOMAIN db \ DOMAIN proc[p].out
               PROVE  \/ \E x \in {k} \cup Referred(db, k) : Orphan(db, x)
                      \/ k[1] = "grouppquota" /\ ~HasPages(db, db[k])
    OBVIOUS
  <2>0. TypeInv /\ LockInv /\ DumpInv
    BY DEF RacesInv
  <2>1. PICK r \in Procs : Work(r) \/ GiveUp(r)
    BY DEF Next, AllOver, Quiet
  <2>2. p = r
    BY <2>0, <2>1, OthersSee
  <2>3. CommitWork(p)
    <3>1. CASE Execute(p)
      BY <2>0, <3>1, StatementIs
    <3>2. CASE ExpandRefund(p) \/ PayUser(p) \/ FindPages(p) \/ LookAtLast(p) \/ ExtractTable(p)
      BY <2>0, <3>2, ReadingIs
    <3>3. CASE Refused(p) \/ GiveUp(p)
      BY <2>0, <3>3, RollBackIs DEF Refused, GiveUp
    <3>4. CASE Start(p)
      BY <3>4 DEF Start
    <3>5. QED
      BY <2>1, <2>2, <3>1, <3>2, <3>3, <3>4 DEF Work
  <2>4. Shown(proc[p].out, db, 11)
    BY <2>0, <2>3, DumpEnds DEF Running
  <2>5. k[1] \in Done(11)
    BY <2>0, AllAreRead DEF TypeInv, IsKey
  <2>6. k \notin Extracted(db, k[1])
    BY <2>4, <2>5 DEF Shown
  <2>7. QED
    BY <2>0, <2>6, NotShown
<1>2. QED
  BY <1>1, RacesAlways, PTL DEF Spec, DumpIsWhole

=============================================================================
