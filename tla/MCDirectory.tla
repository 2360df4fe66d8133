----------------------------- MODULE MCDirectory -----------------------------
(* Instances of Directory: pairs and sequences of commands and jobs on a   *)
(* small directory.                                                        *)
EXTENDS Directory

CONSTANTS m1, m2, m3,          (* processes                                   *)
          u1, u2, p1, p2,   (* users, a printer, a printers group          *)
          g1, k1, j0           (* an users group, a billing code, a job       *)

Plain == [accounts |-> "split", caching |-> FALSE, disablehistory |-> FALSE, early |-> FALSE]
Joined == [Plain EXCEPT !.accounts = "joined", !.early = TRUE]
Reused == [Plain EXCEPT !.disablehistory = TRUE]
Caching == [Plain EXCEPT !.caching = TRUE]

Command(do, u, n) == [do |-> do, user |-> u, printer |-> p1, n |-> n, code |-> None, group |-> g1]
Nothing == Command("nothing", None, 0)
Job(u) == Command("print", u, 1)
Coded(u) == [Job(u) EXCEPT !.code = k1]
On(cmdn, group) == [cmdn EXCEPT !.group = group]

(* u1 has a quota entry on p1 and its group p2, and printed the last job.  *)
Accounts(kind, us) ==
  IF kind = "split"
  THEN [dn \in {<<"account", u, None, None>> : u \in us} \cup {<<"balance", u, None, None>> : u \in us} |-> Entry(0, {}, None)]
  ELSE [dn \in {<<"account", u, None, None>> : u \in us} |-> Entry(0, {}, None)]
Quotas(us, ps) == [dn \in {<<"quota", u, p, Present>> : u \in us, p \in ps} |-> Entry(0, {}, None)]
Printers == (<<"printer", p1, None, None>> :> Entry(0, {}, None)) @@ (<<"printer", p2, None, None>> :> Entry(0, {p1}, None))
LastOf(u) == (<<"job", None, p1, Present>> :> Entry(0, {}, u)) @@ (<<"last", None, p1, Present>> :> Entry(0, {}, <<"job", None, p1, Present>>))
TwoJobs(u) == (<<"job", None, p1, j0>> :> Entry(0, {}, u)) @@ LastOf(u)
Codes == <<"code", k1, None, Present>> :> Entry(0, {}, None)
Groups == (<<"group", g1, None, None>> :> Entry(0, {u2}, None)) @@ (<<"gquota", g1, p1, Present>> :> Entry(0, {}, None))

Full(kind) == Accounts(kind, {u1, u2}) @@ Quotas({u1, u2}, {p1}) @@ Quotas({u1}, {p2}) @@ Printers @@ TwoJobs(u1) @@ Codes @@ Groups
Bare(kind) == Accounts(kind, {u2}) @@ Printers

Case(cf, d, x, y, z) == [conf |-> cf, cmd |-> (m1 :> x) @@ (m2 :> y) @@ (m3 :> z), dir |-> d]
Pairs(cf, d, xs, ys) == {Case(cf, d, x, y, Nothing) : x \in xs, y \in ys}

Cases ==
  LET full == Full("split")
      joined == Full("joined")
  IN (* jobs beside commands on their user, printer, code and groups *)
     Pairs(Plain, full, {Job(u1)}, {Job(u2), Command("deluser", u1, 0), Command("delquota", u1, 0), Command("delprinter", None, 0)})
     \cup Pairs(Joined, joined, {Job(u1)}, {Command("pay", u1, 1), Command("setusage", u1, 1), Command("deluser", u1, 0)})
     \cup Pairs(Reused, full, {Job(u2)}, {Command("deluser", u1, 0), Command("setusage", u2, 2)})
     \cup Pairs(Joined, Accounts("joined", {u1, u2}) @@ Quotas({u1, u2}, {p1}) @@ Printers, {Coded(u1)},
                {[Command("addcode", None, 0) EXCEPT !.code = k1]})
     \cup Pairs(Joined, joined, {Coded(u1)}, {[Command("savecode", None, 2) EXCEPT !.code = k1], [Command("delcode", None, 0) EXCEPT !.code = k1]})
     (* refunds *)
     \cup {Case(Reused, Accounts("split", {u1}) @@ Quotas({u1}, {p1}) @@ Printers @@ LastOf(u1), Command("refund", u1, 1), Job(u1), Nothing)}
     \cup Pairs(Plain, full, {Command("refund", u1, 1)}, {Command("deluser", u1, 0)})
     \cup Pairs(Plain, Accounts("split", {u1, u2}) @@ Quotas({u1}, {p1}) @@ Printers @@ LastOf(u1),
                {Command("refund", u1, 1)}, {Command("refund", u1, 1)})
     \cup Pairs(Caching, full, {[Command("refund", u1, 1) EXCEPT !.code = k1]}, {Nothing})
     \cup Pairs(Reused, Accounts("split", {u1}) @@ Quotas({u1}, {p1}) @@ Printers @@ TwoJobs(u1) @@ Codes,
                {[Command("refund", u1, 1) EXCEPT !.code = k1]}, {[Command("delcode", None, 0) EXCEPT !.code = k1]})
     (* commands beside one another *)
     \cup Pairs(Plain, Bare("split"), {Command("adduser", u1, 1)}, {Command("adduser", u1, 2), Command("deluser", u1, 0), Command("addquota", u1, 0)})
     \cup Pairs(Plain, Bare("split"), {Command("addquota", u2, 0)}, {Command("addquota", u2, 0), Command("deluser", u2, 0)})
     \cup Pairs(Plain, full, {On(Command("leave", None, 0), p2)}, {On(Command("join", None, 0), p2), Command("delprinter", None, 0)})
     \cup Pairs(Plain, full, {Command("enter", u1, 0)}, {Command("quit", u2, 0), Command("delgroup", None, 0), Command("deluser", u2, 0)})
     \cup Pairs(Plain, full, {Command("setlimits", None, 0)}, {Command("addgquota", None, 0), Command("delgroup", None, 0)})
     \cup Pairs(Plain, Bare("split"), {Command("addgroup", None, 0)}, {Command("addgroup", None, 0), Command("addgquota", None, 0)})
     \cup Pairs(Plain, Accounts("split", {u2}), {Command("addprinter", None, 0)}, {Command("addprinter", None, 0), Command("delprinter", None, 0)})
     \cup Pairs(Plain, full, {Command("pay", u1, 1)}, {Command("pay", u1, 2), Command("deluser", u1, 0)})
     (* dumps *)
     \cup Pairs(Plain, full, {Command("dump", None, 0)},
                {Job(u2), Command("deluser", u1, 0), Command("deluser", u2, 0), Command("delquota", u1, 0), Command("delprinter", None, 0),
                 Command("delgroup", None, 0), Command("leave", None, 0), [Command("delcode", None, 0) EXCEPT !.code = k1]})
     \cup {Case(Plain, Bare("split"), Command("dump", None, 0), Command("addquota", u2, 0), Command("deluser", u2, 0)),
           Case(Plain, Bare("split"), Command("dump", None, 0), Command("adduser", u1, 1), Command("addquota", u1, 0))}

(* A job after a deletion, and a deletion after that. *)
Sequences == {Case(cf, Full("split"), x, Job(u2), Command("deluser", u2, 0)) :
                cf \in {Plain, Reused}, x \in {Command("delquota", u1, 0), Command("deluser", u1, 0)}}

=============================================================================
