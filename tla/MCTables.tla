------------------------------- MODULE MCTables -------------------------------
(* Instances of Tables: two users, two printers, jobs and commands.        *)
EXTENDS Tables

CONSTANTS m1, m2, m3, u1, u2, u3, p1, p2, g1

Postgres == [engine |-> "postgresql", enforced |-> TRUE, disablehistory |-> FALSE, early |-> FALSE]
Sqlite   == [Postgres EXCEPT !.engine = "sqlite"]
OldLite  == [Sqlite EXCEPT !.enforced = FALSE]
LastOnly == [Postgres EXCEPT !.disablehistory = TRUE]
Engines  == {Postgres, Sqlite, OldLite, LastOnly, [LastOnly EXCEPT !.early = TRUE]}

On(do, us, ps, n) ==
  [do |-> do, users |-> us, printers |-> ps, groups |-> {g1}, n |-> n,
   price |-> n, code |-> None, counted |-> TRUE, denied |-> FALSE]
Nothing == On("nothing", {}, {}, 0)
Dumping == On("dump", {}, {}, 0)
In2(do, u, ps) == [On(do, {u}, ps, 0) EXCEPT !.groups = {p2}]
Job(u, p) == On("job", {u}, {p}, 1)
Billed(u, p) == [Job(u, p) EXCEPT !.code = g1]
Refund(u) == On("refund", {u}, {p1}, 0)

(* u1 printed two sheets on p1, which is in the group p2, for the billing  *)
(* code g1; both have entries on p1, and u2 has one on p2.                 *)
Db ==
  (<<"users", 1>> :> NamedRow(u1, 0)) @@ (<<"users", 2>> :> NamedRow(u2, 0))
  @@ (<<"printers", 1>> :> NamedRow(p1, 0)) @@ (<<"printers", 2>> :> NamedRow(p2, 0))
  @@ (<<"groups", 1>> :> NamedRow(g1, 0)) @@ (<<"billingcodes", 1>> :> NamedRow(g1, 2))
  @@ (<<"userpquota", 1>> :> [PQuotaRow(1, 1) EXCEPT !.num = 2]) @@ (<<"userpquota", 2>> :> PQuotaRow(2, 1))
  @@ (<<"userpquota", 3>> :> PQuotaRow(2, 2))
  @@ (<<"grouppquota", 1>> :> Row(None, None, 1, 1, 0, None))
  @@ (<<"groupsmembers", 1>> :> Row(None, 2, None, 1, 0, None))
  @@ (<<"printergroupsmembers", 1>> :> Row(None, None, 1, 2, 0, None))
  @@ (<<"payments", 1>> :> Row(None, 2, None, None, 1, None))
  @@ (<<"jobhistory", 1>> :> JobRow(g1, 1, 1, 2, 2, 0, None))
Fresh == Restrict(Db, {<<"users", 2>>, <<"printers", 1>>})
(* The billing code is gone; the job was not counted. *)
NoCode == Restrict(Db, DOMAIN Db \ {<<"billingcodes", 1>>})
NotCounted ==
  [Db EXCEPT ![<<"userpquota", 1>>].num = 0, ![<<"jobhistory", 1>>] = [@ EXCEPT !.price = 0, !.aside = 2]]

Case(cf, d, x, y, z) == [conf |-> cf, cmd |-> (m1 :> x) @@ (m2 :> y) @@ (m3 :> z), db |-> d]

Jobs == {Job(u2, p1)}
Deletions ==
  {On("delusers", {u2}, {}, 0), On("delusers", {u1, u2}, {}, 0), On("delquotas", {u1, u2}, {p1}, 0), On("delprinters", {}, {p1}, 0)}
Additions == {On("adduser", {u2, u3}, {}, 1), On("addquota", {u1, u2, u3}, {p1, p2}, 0)}
Others ==
  {Job(u1, p1), On("pay", {u2}, {}, 2), Refund(u1), On("enter", {u1}, {}, 0), On("quit", {u2}, {}, 0),
   In2("join", u1, {p1, p2}), In2("leave", u1, {p1}), On("delgroups", {}, {}, 0), On("delgquotas", {}, {p1}, 0),
   On("delcodes", {}, {}, 0), On("addgquota", {}, {p1, p2}, 0)}
Starting == {On("addprinter", {}, {p1, p2}, 0), On("addgroup", {}, {}, 0), On("addcode", {}, {}, 0), On("adduser", {u1, u2}, {}, 0)}

(* Jobs of each kind, and what they meet at: the user, the entries above,  *)
(* the billing code.                                                       *)
Kinds ==
  {Billed(u1, p1), Billed(u2, p1), Job(u2, p2), [Job(u1, p1) EXCEPT !.counted = FALSE],
   [Billed(u1, p1) EXCEPT !.denied = TRUE], [Job(u2, p1) EXCEPT !.price = 0]}

Cases ==
  {Case(cf, Db, x, y, z) : cf \in Engines, x \in Jobs, y \in Deletions, z \in Additions \cup {Refund(u1), Job(u1, p1)}}
  \cup {Case(cf, Db, Refund(u1), On("delquotas", {u1}, {p1}, 0), z) :
          cf \in {Postgres, Sqlite}, z \in {On("addquota", {u1}, {p1}, 0), Job(u2, p1)}}
  \cup {Case(cf, Db, x, y, Nothing) : cf \in Engines, x \in Jobs \cup Deletions \cup Others, y \in Others}
  \cup {Case(cf, d, x, y, Nothing) : cf \in Engines, d \in {Db, NoCode, NotCounted}, x \in Kinds, y \in Kinds \cup {Refund(u1), On("delcodes", {}, {}, 0)}}
  \cup {Case(cf, Db, Refund(u1), Billed(u2, p1), On("pay", {u1, u2}, {}, 1)) : cf \in {Postgres, LastOnly}}
  \cup {Case(cf, Fresh, x, y, Nothing) : cf \in Engines, x \in Starting, y \in Starting \cup {On("enter", {u2}, {}, 0)}}
  \cup {Case(cf, Db, Dumping, y, Nothing) : cf \in Engines, y \in Deletions \cup Others \cup Jobs}
  \cup {Case(cf, Fresh, Dumping, y, z) : cf \in Engines, y \in Starting, z \in Additions}
  \cup {Case(OldLite, Db, Dumping, x, y) : x \in Jobs, y \in Deletions}

=============================================================================
