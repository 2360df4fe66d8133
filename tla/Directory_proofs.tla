-------------------------- MODULE Directory_proofs --------------------------
(***************************************************************************)
(* The LDAP storage, for any number of jobs and commands, any directory    *)
(* and any number of requests and answers that are lost: what its entries  *)
(* are, what it takes to have one twice, to lose a change, and to leave    *)
(* half of an user.                                                        *)
(***************************************************************************)
EXTENDS Directory, Sums_proofs

-----------------------------------------------------------------------------
(* Entries, objects in memory, and steps.                                  *)

Counted == {"quota", "gquota", "code"}

IsKey(k) == k = <<k[1], k[2], k[3]>>
IsDn(dn) == dn = <<dn[1], dn[2], dn[3], dn[4]>>
IsEntry(e) == DOMAIN e = {"num", "set", "ref"} /\ e.num \in Int /\ IsFiniteSet(e.set)
IsObject(k, o) == KeyOf(o.dn) = SubSeq(k, 1, 3) /\ o.num \in Int /\ IsFiniteSet(o.set)

DirOK ==
  /\ IsFiniteSet(DOMAIN dir) /\ DOMAIN ledger = DOMAIN dir
  /\ \A dn \in DOMAIN dir :
       /\ IsDn(dn) /\ (dn[1] \in Named => dn[3] = None /\ dn[4] = None)
       /\ IsEntry(dir[dn]) /\ (dn[1] = "last" => KeyOf(dir[dn].ref) = History(dn[3]))

(* The steps whose place matters: what is added only if it was not found,  *)
(* and the members of a group that was.                                    *)
Special(s) == s.op = "refresh" \/ (s.op = "add" /\ s.key[1] \in Counted)

(* What is written from what a process has in memory, and the commands     *)
(* that write so.                                                          *)
Reliant(s) == s.op = "modify" /\ (s.field = "set" \/ (s.field = "num" /\ s.how = "save"))
Savers == {"adduser", "pay", "setusage", "join", "leave", "enter", "quit", "setlimits", "savecode",
           "refund", "delprinter"}

(* The kinds of the two halves of an user.                                 *)
Halves == {"account", "balance"}

(* What step a process may have before it, D being the keys of the objects *)
(* it has.                                                                 *)
MayDo(p, s, D) ==
  /\ s.op = "find" => s.miss \in Nat /\ s.hit \in Nat
  /\ s.op \in {"last", "history"} => s.printer = cmd[p].printer
  /\ s.op = "add" =>
       /\ IsKey(s.key) /\ s.num \in Int
       /\ s.key[1] \in Named => s.key[3] = None
       /\ s.key[1] = "last" => KeyOf(s.ref) = History(s.key[3])
       /\ s.key[1] \in Counted => Adds(p, s.key)
  /\ s.op = "modify" =>
       /\ IsKey(s.key) \/ s.key \in D
       /\ s.field \in {"num", "set", "ref"}
       /\ s.field = "num" => s.by \in Int /\ s.how \in {"add", "save"}
       /\ s.field = "set" => IsFiniteSet(s.put)
       /\ s.field = "ref" => IsKey(s.key) /\ (s.key[1] = "last" => KeyOf(s.ref) = History(s.key[3]))
  /\ Reliant(s) \/ s.op \in {"leave", "refunds"} => cmd[p].do \in Savers
  /\ s.op \in {"jobs", "quotas", "check", "purge"} => cmd[p].do = "deluser"
  /\ s.op = "own" => s.owner # None
  /\ s.op = "collect" => s.kind \notin Halves \/ (s.kind = "balance" /\ cmd[p].do = "deluser")
  /\ s.op = "delete" => s.dn[1] \notin Halves \/ cmd[p].do = "deluser"
  /\ s.op = "add" => s.key[1] \notin Halves \/ cmd[p].do = "adduser"

Planned(p, t, D) == t \in Seq(Range(t)) /\ \A s \in Range(t) : MayDo(p, s, D)
Routine(t) == \A i \in 1 .. Len(t) : ~Special(t[i])

(* The search that decides whether a special step is reached; a command    *)
(* that does not find what it looks for before is over.                    *)
Guards(f, s) ==
  /\ f.op = "find" /\ f.key = s.key
  /\ s.op = "refresh" => f.miss = Stop /\ f.hit = 0
  /\ s.op = "add" => f.miss = 0 /\ f.hit # 0
Passed(s) == s.op = "find" /\ s.miss = Stop /\ s.hit = 0
Shaped(t) ==
  \A i \in 2 .. Len(t) : Special(t[i]) =>
    /\ Len(t) <= Stop /\ Guards(t[i - 1], t[i])
    /\ \A j \in 1 .. i - 2 : Passed(t[j])

(* The value a modification is about to write.                             *)
ChangeOK(s, v) ==
  /\ s.op = "modify"
  /\ s.field = "num" => v \in Int
  /\ s.field = "set" => IsFiniteSet(v)
  /\ s.field = "ref" => v = s.ref

LastOK(pr, l) == l.exists => KeyOf(l.job) = History(pr) /\ KeyOf(l.dn) = LastEntry(pr)

Fields == {"state", "todo", "obj", "bin", "out", "last", "new", "old", "made", "tries"}
IsProc(r) == DOMAIN r = Fields

HeadOK(r) ==
  /\ r.new # <<>> =>
       r.todo # <<>> /\ ChangeOK(Head(r.todo), r.new[1]) /\ Head(r.todo).key \in DOMAIN r.obj
  /\ r.todo # <<>> /\ Head(r.todo).op = "refresh" => Head(r.todo).key \in DOMAIN r.obj

ProcOK(p, r) ==
  /\ IsProc(r)
  /\ r.state \in {"ready", "running"} \cup Over /\ r.tries \in 0 .. 2 /\ r.made \in BOOLEAN
  /\ Planned(p, r.todo, DOMAIN r.obj) /\ Shaped(r.todo)
  /\ \A k \in DOMAIN r.obj : IsObject(k, r.obj[k])
  /\ r.bin \in Seq(Range(r.bin))
  /\ r.last = None \/ LastOK(cmd[p].printer, r.last)
  /\ r.old # <<>> => r.new # <<>>
  /\ HeadOK(r)

TypeInv ==
  /\ conf \in ConfType /\ faults \in 0 .. MaxFaults
  /\ \A p \in Procs : cmd[p].n \in Int /\ (cmd[p].do \in {"deluser", "delquota"} => cmd[p].user \notin {None, Anyone})
  /\ DirOK
  /\ DOMAIN proc = Procs /\ \A p \in Procs : ProcOK(p, proc[p])

(* Any two processes at work have met; an entry that is about to be added  *)
(* is there only if another process that adds it was met.                  *)
Met == \A p, q \in Procs : p # q /\ Running(p) /\ Running(q) => {p, q} \in met
Other(p, key) == \E q \in Procs : q # p /\ {p, q} \in met /\ Adds(p, key) /\ Adds(q, key)
Waits(p) ==
  At(p, "add") /\ Step(p).key[1] \in Counted =>
    \A dn \in Matching(Step(p).key) : dn[4] = p \/ Other(p, Step(p).key)
MeetInv == Met /\ DuplicatesNeedOverlap /\ \A p \in Procs : Waits(p)

(* Commands that write what they have in memory: what they do, and in      *)
(* which order.  A refund's payment is written right after the account was *)
(* looked up again; other entries are written once.                        *)
Saves(p) == cmd[p].do \in Savers
Repeated(p, s) == cmd[p].do = "refund" /\ s.op = "modify" /\ s.field = "set" /\ IsKey(s.key)
Role(p, s) ==
  LET do == cmd[p].do
  IN /\ s.op \in {"find", "refresh", "collect", "leave", "refunds", "codes", "add", "delete", "modify"}
     /\ s.op \in {"collect", "leave"} => do = "delprinter"
     /\ s.op = "refunds" => do = "refund"
     /\ s.op = "codes" => do = "savecode"
     /\ s.op = "add" => do = "adduser"
     /\ s.op = "refresh" => do \in {"enter", "quit"}
     /\ s.op = "find" /\ do # "refund" => s.miss \in {0, Stop} /\ s.hit \in {0, Stop}
     /\ s.op = "modify" => IsKey(s.key) \/ (IsDn(s.key) /\ do \in {"refund", "savecode"})
     /\ s.op = "modify" /\ s.field = "ref" => s.key[1] # "job"

Differ(k, l) == k # l /\ ((IsKey(k) /\ IsKey(l)) \/ (IsDn(k) /\ IsDn(l)) \/ KeyOf(k) # KeyOf(l))
Once(p, t) ==
  \A i, j \in 1 .. Len(t) :
    i < j /\ t[i].op = "modify" /\ Reliant(t[j]) /\ t[i].field = t[j].field /\ ~Repeated(p, t[j]) =>
      Differ(t[i].key, t[j].key)
AskedLast(t) ==
  \A i, j \in 1 .. Len(t) : i < j =>
    /\ t[i].op \in {"leave", "refunds", "codes"} => t[j].op # "modify"
    /\ t[i].op = "modify" => t[j].op \notin {"add", "refresh"}
Loads(f, k) == f.op = "find" /\ (f.key = k \/ (f.key[1] = "account" /\ k = Balance(f.key[2])))
AfterSearch(p, t) ==
  \A i \in 1 .. Len(t) : Repeated(p, t[i]) =>
    /\ i >= 2 => t[i - 1].op = "modify" /\ t[i - 1].field = "num"
    /\ i >= 3 => Loads(t[i - 2], t[i].key)
Lands(p, t) ==
  \A i \in 1 .. Len(t) : cmd[p].do = "refund" /\ t[i].op = "find" =>
    /\ t[i].hit = 0 /\ t[i].miss \in Nat \ {0}
    /\ t[i].miss \notin {Stop, Raise} =>
         /\ i + t[i].miss + 1 <= Len(t) /\ ~Repeated(p, t[i + t[i].miss + 1])
         /\ i + t[i].miss + 2 <= Len(t) => ~Repeated(p, t[i + t[i].miss + 2])
Ordered(p, t) == (\A s \in Range(t) : Role(p, s)) /\ Once(p, t) /\ AskedLast(t) /\ AfterSearch(p, t) /\ Lands(p, t)

(* What is in memory, and is going to be written, is what the directory    *)
(* has, or another wrote since, which is noted in contended.               *)
Relies(p, r, i) ==
  /\ Reliant(r.todo[i]) /\ r.todo[i].key \in DOMAIN r.obj
  /\ r.todo[i].field = "set" => ~conf.caching
  /\ i = 1 => r.new = <<>>
  /\ Repeated(p, r.todo[i]) => i <= 2
  /\ \A n \in Range(r.todo) : n.op \in {"refresh", "add"} => n.key # r.todo[i].key
Sure(dn, f) == dn \in DOMAIN dir /\ <<dn, f>> \notin contended
Fits(o, f) == Sure(o.dn, f) => o[f] = dir[o.dn][f]
Knows(p, r) ==
  /\ \A k \in DOMAIN r.obj : IsDn(k) => r.obj[k].dn = k
  /\ \A i \in 1 .. Len(r.todo) : Relies(p, r, i) => Fits(r.obj[r.todo[i].key], r.todo[i].field)

(* The value that was computed is what the change makes of what all others *)
(* made, or made of it.                                                    *)
Result(s, e) == IF s.field = "num" THEN e.num + s.by ELSE (e.set \cup s.put) \ s.drop
Agrees(r, s, dn, f) ==
  r.new # <<>> /\ f \in {"num", "set"} /\ (f = "set" => ~conf.caching) /\ Sure(dn, f) =>
    /\ r.old # <<>> => r.old[1] = dir[dn][f]
    /\ r.new[1] = IF r.made THEN ledger[dn][f] ELSE Result(s, ledger[dn])
Right(r, s) == Agrees(r, s, r.obj[s.key].dn, s.field)
Computed(r) == r.todo # <<>> => Right(r, Head(r.todo))
Began(r) == r.todo # <<>> /\ Head(r.todo).op = "modify" /\ r.made => r.new # <<>>

Writes(p, r) == Computed(r) /\ Began(r) /\ (Saves(p) => Ordered(p, r.todo) /\ Knows(p, r))
Booking == \A dn \in DOMAIN ledger : DOMAIN ledger[dn] = {"num", "set"}
LossInv == LossNeedsRace /\ Booking /\ \A p \in Procs : Running(p) => Writes(p, proc[p])

-----------------------------------------------------------------------------
(* Sequences of steps.                                                     *)

(* What is left when n steps after the first are skipped.                  *)
After(t, n) == IF n = Stop THEN <<>> ELSE SubSeq(t, n + 2, Len(t))
IsSeq(t) == t \in Seq(Range(t))

LEMMA SeqIsSeq ==
  ASSUME NEW S, NEW t \in Seq(S)
  PROVE  IsSeq(t) /\ Range(t) \subseteq S
BY OnlyWhatItHas DEF IsSeq

LEMMA RangeIs ==
  ASSUME NEW t, IsSeq(t)
  PROVE  /\ Len(t) \in Nat /\ DOMAIN t = 1 .. Len(t) /\ \A i \in 1 .. Len(t) : t[i] \in Range(t)
         /\ \A s \in Range(t) : \E i \in 1 .. Len(t) : s = t[i]
         /\ t # <<>> <=> Len(t) >= 1
         /\ t # <<>> => Head(t) = t[1] /\ Head(t) \in Range(t)
<1>1. Len(t) \in Nat /\ DOMAIN t = 1 .. Len(t) /\ \A i \in 1 .. Len(t) : t[i] \in Range(t)
  BY ElementOfSeq, LenProperties DEF IsSeq
<1>2. \A s \in Range(t) : \E i \in 1 .. Len(t) : s = t[i]
  BY <1>1 DEF Range
<1>3. t # <<>> <=> Len(t) # 0
  BY EmptySeq DEF IsSeq
<1>4. Head(t) = t[1]
  OBVIOUS
<1>5. QED
  BY <1>1, <1>2, <1>3, <1>4

LEMMA BothAre ==
  ASSUME NEW t, NEW u, IsSeq(t), IsSeq(u)
  PROVE  /\ IsSeq(t \o u) /\ Range(t \o u) \subseteq Range(t) \cup Range(u)
         /\ Len(t \o u) = Len(t) + Len(u)
         /\ \A i \in 1 .. Len(t) + Len(u) : (t \o u)[i] = IF i <= Len(t) THEN t[i] ELSE u[i - Len(t)]
<1> DEFINE S == Range(t) \cup Range(u)
<1>1. t \in Seq(S) /\ u \in Seq(S)
  <2>1. Range(t) \subseteq S /\ Range(u) \subseteq S
    OBVIOUS
  <2> HIDE DEF S
  <2>2. QED
    BY <2>1, SeqMonotonic DEF IsSeq
<1> HIDE DEF S
<1>2. /\ t \o u \in Seq(S) /\ Len(t \o u) = Len(t) + Len(u)
      /\ \A i \in 1 .. Len(t) + Len(u) : (t \o u)[i] = IF i <= Len(t) THEN t[i] ELSE u[i - Len(t)]
  BY <1>1, ConcatProperties
<1>3. IsSeq(t \o u) /\ Range(t \o u) \subseteq S
  BY <1>2, SeqIsSeq
<1>4. QED
  BY <1>2, <1>3 DEF S

LEMMA AfterIs ==
  ASSUME NEW t, IsSeq(t), NEW n \in Nat
  PROVE  /\ IsSeq(After(t, n)) /\ Range(After(t, n)) \subseteq Range(t)
         /\ Len(After(t, n)) = IF n # Stop /\ n + 2 <= Len(t) THEN Len(t) - n - 1 ELSE 0
         /\ \A i \in 1 .. Len(After(t, n)) : i + n + 1 \in 1 .. Len(t) /\ After(t, n)[i] = t[i + n + 1]
<1>0. CASE n = Stop
  <2>1. After(t, n) = <<>> /\ Range(<<>>) = {} /\ IsSeq(<<>>) /\ Len(<<>>) = 0
    BY <1>0 DEF After, Range, IsSeq
  <2>2. QED
    BY <1>0, <2>1
<1>1. Len(t) \in Nat /\ n + 2 \in Int /\ \A i \in n + 2 .. Len(t) : t[i] \in Range(t)
  BY RangeIs
<1>2. ASSUME n # Stop
      PROVE
      /\ After(t, n) \in Seq(Range(t))
      /\ Len(After(t, n)) = IF n + 2 <= Len(t) THEN Len(t) - (n + 2) + 1 ELSE 0
      /\ \A i \in 1 .. Len(t) - (n + 2) + 1 : After(t, n)[i] = t[n + 2 + i - 1]
  BY <1>1, <1>2, SubSeqProperties DEF After
<1>3. CASE n # Stop
  <2>1. IsSeq(After(t, n)) /\ Range(After(t, n)) \subseteq Range(t)
    BY <1>2, <1>3, SeqIsSeq
  <2>2. Len(After(t, n)) = IF n # Stop /\ n + 2 <= Len(t) THEN Len(t) - n - 1 ELSE 0
    BY <1>1, <1>2, <1>3
  <2>3. ASSUME NEW i \in 1 .. Len(After(t, n))
        PROVE  i + n + 1 \in 1 .. Len(t) /\ After(t, n)[i] = t[i + n + 1]
    <3>1. i \in 1 .. Len(t) - (n + 2) + 1 /\ n + 2 + i - 1 = i + n + 1 /\ i + n + 1 \in 1 .. Len(t)
      BY <1>1, <2>2
    <3>2. QED
      BY <1>2, <1>3, <3>1
  <2>4. QED
    BY <2>1, <2>2, <2>3
<1>4. QED
  BY <1>0, <1>3

LEMMA PlannedBy ==
  ASSUME NEW p, NEW D, NEW S, NEW t \in Seq(S), \A s \in S : MayDo(p, s, D)
  PROVE  Planned(p, t, D)
BY OnlyWhatItHas DEF Planned

LEMMA PlannedMore ==
  ASSUME NEW p, NEW t, NEW D, NEW E, D \subseteq E, Planned(p, t, D)
  PROVE  Planned(p, t, E)
BY DEF Planned, MayDo

LEMMA PlannedBoth ==
  ASSUME NEW p, NEW D, NEW t, NEW u, Planned(p, t, D), Planned(p, u, D)
  PROVE  Planned(p, t \o u, D)
BY BothAre DEF Planned, IsSeq

LEMMA PlannedAfter ==
  ASSUME NEW p, NEW D, NEW t, NEW n \in Nat, Planned(p, t, D)
  PROVE  Planned(p, After(t, n), D)
BY AfterIs DEF Planned, IsSeq

LEMMA RoutineBoth ==
  ASSUME NEW t, NEW u, IsSeq(t), IsSeq(u), Routine(t), Routine(u)
  PROVE  Routine(t \o u)
<1>1. Len(t) \in Nat /\ Len(u) \in Nat
  BY RangeIs
<1>2. ASSUME NEW i \in 1 .. Len(t \o u) PROVE ~Special((t \o u)[i])
  <2>1. i \in 1 .. Len(t) + Len(u) /\ (t \o u)[i] = IF i <= Len(t) THEN t[i] ELSE u[i - Len(t)]
    BY BothAre
  <2>2. CASE i <= Len(t)
    BY <1>1, <2>1, <2>2 DEF Routine
  <2>3. CASE ~(i <= Len(t))
    <3>1. i - Len(t) \in 1 .. Len(u)
      BY <1>1, <2>1, <2>3
    <3>2. QED
      BY <2>1, <2>3, <3>1 DEF Routine
  <2>4. QED
    BY <2>2, <2>3
<1>3. QED
  BY <1>2 DEF Routine

LEMMA RoutineIsShaped ==
  ASSUME NEW t, IsSeq(t), Routine(t)
  PROVE  Shaped(t)
<1>1. Len(t) \in Nat /\ \A i \in 2 .. Len(t) : i \in 1 .. Len(t)
  BY RangeIs
<1>2. QED
  BY <1>1 DEF Routine, Shaped

(* Whatever is skipped, special steps keep their place.                    *)
LEMMA ShapedAfter ==
  ASSUME NEW t, IsSeq(t), Shaped(t), NEW n \in Nat
  PROVE  Shaped(After(t, n))
<1> DEFINE u == After(t, n)
<1>1. /\ IsSeq(u) /\ Len(u) = IF n # Stop /\ n + 2 <= Len(t) THEN Len(t) - n - 1 ELSE 0
      /\ \A i \in 1 .. Len(u) : i + n + 1 \in 1 .. Len(t) /\ u[i] = t[i + n + 1]
  BY AfterIs
<1>2. Len(t) \in Nat /\ Len(u) \in Nat /\ Stop = 20
  BY <1>1, RangeIs DEF Stop
<1> HIDE DEF u
<1>3. ASSUME NEW i \in 2 .. Len(u), Special(u[i])
      PROVE  /\ Len(u) <= Stop /\ Guards(u[i - 1], u[i])
             /\ \A j \in 1 .. i - 2 : Passed(u[j])
  <2>1. i \in 1 .. Len(u) /\ i - 1 \in 1 .. Len(u) /\ i + n + 1 \in 2 .. Len(t)
    BY <1>1, <1>2
  <2>2. u[i] = t[i + n + 1] /\ u[i - 1] = t[(i + n + 1) - 1]
    <3>1. (i - 1) + n + 1 = (i + n + 1) - 1
      BY <2>1
    <3>2. QED
      BY <1>1, <2>1, <3>1
  <2>3. /\ Len(t) <= Stop /\ Guards(t[(i + n + 1) - 1], t[i + n + 1])
        /\ \A j \in 1 .. (i + n + 1) - 2 : Passed(t[j])
    BY <1>3, <2>1, <2>2 DEF Shaped
  <2>4. ASSUME NEW j \in 1 .. i - 2 PROVE Passed(u[j])
    <3>1. j \in 1 .. Len(u) /\ j + n + 1 \in 1 .. (i + n + 1) - 2
      BY <1>2, <2>1
    <3>2. QED
      BY <1>1, <2>3, <3>1
  <2>5. Len(u) <= Stop
    BY <1>1, <1>2, <2>3
  <2>6. QED
    BY <2>2, <2>3, <2>4, <2>5
<1>4. QED
  BY <1>3 DEF Shaped, u

(* A special step comes next only after the search that guards it.         *)
LEMMA SpecialIsNext ==
  ASSUME NEW t, IsSeq(t), t # <<>>, Shaped(t), NEW n \in Nat,
         n = 0 \/ (t[1].op = "find" /\ n \in {t[1].miss, t[1].hit}),
         After(t, n) # <<>>, Special(Head(After(t, n)))
  PROVE  n = 0 /\ Head(After(t, n)) = t[2] /\ Guards(t[1], t[2])
<1>1. /\ IsSeq(After(t, n)) /\ Len(After(t, n)) = IF n # Stop /\ n + 2 <= Len(t) THEN Len(t) - n - 1 ELSE 0
      /\ \A i \in 1 .. Len(After(t, n)) : i + n + 1 \in 1 .. Len(t) /\ After(t, n)[i] = t[i + n + 1]
  BY AfterIs
<1>2. Len(t) \in Nat /\ Stop = 20
  BY RangeIs DEF Stop
<1>3. Len(After(t, n)) >= 1 /\ Head(After(t, n)) = After(t, n)[1] /\ 1 \in 1 .. Len(After(t, n))
  BY <1>1, RangeIs
<1>4. 1 + n + 1 = n + 2 /\ n + 2 \in 2 .. Len(t) /\ Head(After(t, n)) = t[n + 2]
  BY <1>1, <1>2, <1>3
<1>5. /\ Len(t) <= Stop /\ Guards(t[(n + 2) - 1], t[n + 2])
      /\ \A j \in 1 .. (n + 2) - 2 : Passed(t[j])
  BY <1>4 DEF Shaped
<1>6. CASE n = 0
  BY <1>4, <1>5, <1>6
<1>7. CASE n # 0
  <2>1. 1 \in 1 .. (n + 2) - 2
    BY <1>7
  <2>2. t[1].miss = Stop /\ t[1].hit = 0
    BY <1>5, <2>1 DEF Passed
  <2>3. n = Stop
    BY <1>7, <2>2
  <2>4. QED
    BY <1>2, <1>4, <1>5, <2>3
<1>8. QED
  BY <1>6, <1>7

(* After any other step there is none.                                     *)
LEMMA RoutineAfter ==
  ASSUME NEW t, IsSeq(t), t # <<>>, Shaped(t), Head(t).op # "find"
  PROVE  Routine(After(t, 0))
<1>1. /\ IsSeq(After(t, 0)) /\ \A i \in 1 .. Len(After(t, 0)) : i + 0 + 1 \in 1 .. Len(t) /\ After(t, 0)[i] = t[i + 0 + 1]
  BY AfterIs
<1>2. Len(t) \in Nat /\ Head(t) = t[1] /\ Len(After(t, 0)) \in Nat
  BY <1>1, RangeIs
<1>3. ASSUME NEW i \in 1 .. Len(After(t, 0)), Special(After(t, 0)[i]) PROVE FALSE
  <2>1. i + 1 \in 2 .. Len(t) /\ After(t, 0)[i] = t[i + 1]
    <3>1. i + 0 + 1 = i + 1
      BY <1>2
    <3>2. QED
      BY <1>1, <1>2, <3>1
  <2>2. Guards(t[(i + 1) - 1], t[i + 1]) /\ \A j \in 1 .. (i + 1) - 2 : Passed(t[j])
    BY <1>3, <2>1 DEF Shaped
  <2>3. CASE i = 1
    BY <1>2, <2>2, <2>3 DEF Guards
  <2>4. CASE i # 1
    <3>1. 1 \in 1 .. (i + 1) - 2
      BY <1>2, <2>4
    <3>2. QED
      BY <1>2, <2>2, <3>1 DEF Passed
  <2>5. QED
    BY <2>3, <2>4
<1>4. QED
  BY <1>3 DEF Routine

-----------------------------------------------------------------------------
(* Names and keys.                                                         *)

LEMMA FourthIs ==
  ASSUME NEW a, NEW b, NEW c, NEW d
  PROVE  Append(<<a, b, c>>, d) = <<a, b, c, d>>
<1> DEFINE S == {a, b, c, d}
           s == <<a, b, c>>
           t == <<a, b, c, d>>
<1>1. s \in Seq(S) /\ d \in S /\ t \in Seq(S) /\ Len(s) = 3 /\ Len(t) = 4
  OBVIOUS
<1>2. s[1] = a /\ s[2] = b /\ s[3] = c /\ t[1] = a /\ t[2] = b /\ t[3] = c /\ t[4] = d
  OBVIOUS
<1> HIDE DEF S, s, t
<1>3. /\ Append(s, d) \in Seq(S) /\ Len(Append(s, d)) = 4 /\ Append(s, d)[4] = d
      /\ \A i \in 1 .. 3 : Append(s, d)[i] = s[i]
  <2>0. s \in Seq(S) /\ d \in S
    BY <1>1
  <2>1. Append(s, d) \in Seq(S)
    BY <2>0, AppendProperties
  <2>2. Len(Append(s, d)) = Len(s) + 1
    BY <2>0, AppendProperties
  <2>3. Append(s, d)[Len(s) + 1] = d
    BY <2>0, AppendProperties
  <2>4. \A i \in 1 .. Len(s) : Append(s, d)[i] = s[i]
    BY <2>0, AppendProperties
  <2>5. QED
    BY <1>1, <2>1, <2>2, <2>3, <2>4
<1>4. \A i \in 1 .. 4 : Append(s, d)[i] = t[i]
  BY <1>2, <1>3
<1>5. Append(s, d) = t
  BY <1>1, <1>3, <1>4, SeqEqual
<1>6. QED
  BY <1>5 DEF s, t

LEMMA FirstThree ==
  ASSUME NEW a, NEW b, NEW c, NEW d
  PROVE  SubSeq(<<a, b, c, d>>, 1, 3) = <<a, b, c>>
<1> DEFINE s == <<a, b, c, d>>
           S == {a, b, c, d}
           t == <<a, b, c>>
<1>1. \A i \in 1 .. 3 : s[i] \in S
  OBVIOUS
<1>2. s[1] = a /\ s[2] = b /\ s[3] = c /\ t \in Seq(S) /\ Len(t) = 3 /\ t[1] = a /\ t[2] = b /\ t[3] = c
  OBVIOUS
<1> HIDE DEF s, S, t
<1>3. /\ SubSeq(s, 1, 3) \in Seq(S) /\ Len(SubSeq(s, 1, 3)) = 3
      /\ \A i \in 1 .. 3 : SubSeq(s, 1, 3)[i] = s[i]
  <2>1. /\ SubSeq(s, 1, 3) \in Seq(S) /\ Len(SubSeq(s, 1, 3)) = IF 1 <= 3 THEN 3 - 1 + 1 ELSE 0
      /\ \A i \in 1 .. 3 - 1 + 1 : SubSeq(s, 1, 3)[i] = s[1 + i - 1]
    BY <1>1, SubSeqProperties
  <2>2. QED
    BY <2>1
<1>4. \A i \in 1 .. 3 : SubSeq(s, 1, 3)[i] = t[i]
  BY <1>2, <1>3
<1>5. SubSeq(s, 1, 3) = t
  BY <1>2, <1>3, <1>4, SeqEqual
<1>6. QED
  BY <1>5 DEF s, t

LEMMA AllThree ==
  ASSUME NEW a, NEW b, NEW c
  PROVE  SubSeq(<<a, b, c>>, 1, 3) = <<a, b, c>>
<1> DEFINE s == <<a, b, c>>
           S == {a, b, c}
<1>1. s \in Seq(S) /\ Len(s) = 3
  OBVIOUS
<1> HIDE DEF s, S
<1>2. SubSeq(s, 1, Len(s)) = s
  BY <1>1, SubSeqFull
<1>3. QED
  BY <1>1, <1>2 DEF s

LEMMA KeyIs ==
  ASSUME NEW dn, IsDn(dn)
  PROVE  KeyOf(dn) = <<dn[1], dn[2], dn[3]>> /\ IsKey(KeyOf(dn)) /\ SubSeq(KeyOf(dn), 1, 3) = KeyOf(dn)
<1>1. KeyOf(dn) = <<dn[1], dn[2], dn[3]>>
  BY FirstThree DEF KeyOf, IsDn
<1>2. QED
  BY <1>1, AllThree DEF IsKey

LEMMA DnIs ==
  ASSUME NEW k, IsKey(k), NEW id
  PROVE  /\ IsDn(Dn(k, id)) /\ KeyOf(Dn(k, id)) = k /\ SubSeq(k, 1, 3) = k
         /\ Dn(k, id)[1] = k[1] /\ Dn(k, id)[3] = k[3]
         /\ Dn(k, id)[4] = IF k[1] \in Named THEN None ELSE id
<1> DEFINE i == IF k[1] \in Named THEN None ELSE id
<1>1. Dn(k, id) = <<k[1], k[2], k[3], i>>
  <2>1. Append(k, i) = Append(<<k[1], k[2], k[3]>>, i)
    BY DEF IsKey
  <2>2. QED
    BY <2>1, FourthIs DEF Dn
<1> HIDE DEF i
<1>2. KeyOf(Dn(k, id)) = <<k[1], k[2], k[3]>>
  BY <1>1, FirstThree DEF KeyOf
<1>3. SubSeq(k, 1, 3) = k
  <2>1. SubSeq(k, 1, 3) = SubSeq(<<k[1], k[2], k[3]>>, 1, 3)
    BY DEF IsKey
  <2>2. QED
    BY <2>1, AllThree DEF IsKey
<1>4. KeyOf(Dn(k, id)) = k
  BY <1>2 DEF IsKey
<1>5. IsDn(Dn(k, id)) /\ Dn(k, id)[1] = k[1] /\ Dn(k, id)[3] = k[3] /\ Dn(k, id)[4] = i
  BY <1>1 DEF IsDn
<1>6. QED
  BY <1>3, <1>4, <1>5 DEF i

LEMMA KeysAreKeys ==
  ASSUME NEW u, NEW g
  PROVE  /\ IsKey(Account(u)) /\ IsKey(Balance(u)) /\ IsKey(Group(u)) /\ IsKey(Printer(u))
         /\ IsKey(Quota(u, g)) /\ IsKey(GQuota(u, g)) /\ IsKey(Code(u)) /\ IsKey(History(u))
         /\ IsKey(LastEntry(u))
BY DEF IsKey, Account, Balance, Group, Printer, Quota, GQuota, Code, History, LastEntry

(* An entry found by its key.                                              *)
LEMMA MatchIs ==
  ASSUME DirOK, NEW key, NEW dn \in Matching(key)
  PROVE  /\ dn \in DOMAIN dir /\ KeyOf(dn) = key /\ IsKey(key) /\ IsDn(dn) /\ IsObject(key, Loaded(dn))
         /\ dn[1] = key[1] /\ dn[2] = key[2] /\ dn[3] = key[3]
<1>1. dn \in DOMAIN dir /\ KeyOf(dn) = key
  BY DEF Matching
<1>2. IsDn(dn) /\ IsEntry(dir[dn])
  BY <1>1 DEF DirOK
<1>3. key = <<dn[1], dn[2], dn[3]>> /\ IsKey(key) /\ SubSeq(key, 1, 3) = key
  BY <1>1, <1>2, KeyIs
<1>4. IsObject(key, Loaded(dn))
  BY <1>1, <1>2, <1>3 DEF IsObject, Loaded, IsEntry
<1>5. QED
  BY <1>1, <1>2, <1>3, <1>4

(* An entry found by its kind.                                             *)
LEMMA SearchIs ==
  ASSUME DirOK, NEW kind, NEW owner, NEW printer
  PROVE  /\ IsFiniteSet(Search(kind, owner, printer))
         /\ \A dn \in Search(kind, owner, printer) :
              /\ dn \in DOMAIN dir /\ dn[1] = kind /\ IsDn(dn)
              /\ IsKey(KeyOf(dn)) /\ IsObject(dn, Loaded(dn)) /\ IsObject(KeyOf(dn), Loaded(dn))
<1>1. Search(kind, owner, printer) \subseteq DOMAIN dir /\ IsFiniteSet(DOMAIN dir)
  BY DEF Search, DirOK
<1>2. IsFiniteSet(Search(kind, owner, printer))
  BY <1>1, FS_Subset
<1>3. ASSUME NEW dn \in Search(kind, owner, printer)
      PROVE  /\ dn \in DOMAIN dir /\ dn[1] = kind /\ IsDn(dn)
             /\ IsKey(KeyOf(dn)) /\ IsObject(dn, Loaded(dn)) /\ IsObject(KeyOf(dn), Loaded(dn))
  <2>1. dn \in DOMAIN dir /\ dn[1] = kind
    BY DEF Search
  <2>2. IsDn(dn) /\ IsEntry(dir[dn])
    BY <2>1 DEF DirOK
  <2>3. IsKey(KeyOf(dn)) /\ SubSeq(KeyOf(dn), 1, 3) = KeyOf(dn)
    BY <2>2, KeyIs
  <2>4. QED
    BY <2>1, <2>2, <2>3 DEF IsObject, Loaded, IsEntry, KeyOf
<1>4. QED
  BY <1>2, <1>3

(* Entries of a name of their own are found under it.                      *)
LEMMA NamedIs ==
  ASSUME DirOK, NEW key, key[1] \in Named, Matching(key) # {}, NEW id
  PROVE  Dn(key, id) \in Matching(key)
<1>1. PICK dn \in Matching(key) : TRUE
  OBVIOUS
<1>2. /\ dn \in DOMAIN dir /\ KeyOf(dn) = key /\ IsKey(key) /\ IsDn(dn)
      /\ dn[1] = key[1] /\ dn[2] = key[2] /\ dn[3] = key[3]
  BY <1>1, MatchIs
<1>3. dn[4] = None
  BY <1>2 DEF DirOK
<1>4. Dn(key, id) = <<key[1], key[2], key[3], None>>
  <2>1. Append(key, None) = Append(<<key[1], key[2], key[3]>>, None)
    BY <1>2 DEF IsKey
  <2>2. QED
    BY <2>1, FourthIs DEF Dn
<1>5. dn = <<key[1], key[2], key[3], None>>
  BY <1>2, <1>3 DEF IsDn
<1>6. QED
  BY <1>4, <1>5

LEMMA WithIs ==
  ASSUME NEW f, NEW g
  PROVE  /\ DOMAIN With(f, g) = DOMAIN f \cup DOMAIN g
         /\ \A x \in DOMAIN f : With(f, g)[x] = f[x]
         /\ \A x \in DOMAIN g : x \notin DOMAIN f => With(f, g)[x] = g[x]
BY DEF With

LEMMA WithObjects ==
  ASSUME NEW f, NEW g, \A k \in DOMAIN f : IsObject(k, f[k]), \A k \in DOMAIN g : IsObject(k, g[k])
  PROVE  /\ \A k \in DOMAIN With(f, g) : IsObject(k, With(f, g)[k])
         /\ DOMAIN g \subseteq DOMAIN With(f, g) /\ DOMAIN f \subseteq DOMAIN With(f, g)
<1>1. DOMAIN With(f, g) = DOMAIN f \cup DOMAIN g
  BY WithIs
<1>2. ASSUME NEW k \in DOMAIN With(f, g) PROVE IsObject(k, With(f, g)[k])
  <2>1. CASE k \in DOMAIN f
    <3>1. With(f, g)[k] = f[k]
      BY <2>1 DEF With
    <3>2. QED
      BY <2>1, <3>1
  <2>2. CASE k \notin DOMAIN f
    <3>1. k \in DOMAIN g /\ With(f, g)[k] = g[k]
      BY <1>1, <2>2 DEF With
    <3>2. QED
      BY <3>1
  <2>3. QED
    BY <2>1, <2>2
<1>3. QED
  BY <1>1, <1>2

-----------------------------------------------------------------------------
(* One process takes a step.                                               *)

(* What a process has in memory, besides what it is at.                    *)
MemoryOK(p, r) ==
  /\ IsProc(r) /\ r.state \in {"ready", "running"} \cup Over
  /\ \A k \in DOMAIN r.obj : IsObject(k, r.obj[k])
  /\ r.bin \in Seq(Range(r.bin))
  /\ r.last = None \/ LastOK(cmd[p].printer, r.last)

LEMMA RestIs ==
  ASSUME NEW r, IsProc(r), NEW t
  PROVE  /\ IsProc(Rest(r, t)) /\ Rest(r, t).todo = t
         /\ Rest(r, t).new = <<>> /\ Rest(r, t).old = <<>> /\ Rest(r, t).made = FALSE /\ Rest(r, t).tries = 0
         /\ Rest(r, t).state = r.state /\ Rest(r, t).obj = r.obj /\ Rest(r, t).bin = r.bin
         /\ Rest(r, t).out = r.out /\ Rest(r, t).last = r.last
BY DEF Rest, IsProc, Fields

LEMMA RestOK ==
  ASSUME NEW p, NEW r, MemoryOK(p, r), NEW t, Planned(p, t, DOMAIN r.obj), Shaped(t),
         t # <<>> /\ Head(t).op = "refresh" => Head(t).key \in DOMAIN r.obj
  PROVE  ProcOK(p, Rest(r, t))
<1>1. /\ IsProc(Rest(r, t)) /\ Rest(r, t).todo = t
      /\ Rest(r, t).new = <<>> /\ Rest(r, t).old = <<>> /\ Rest(r, t).made = FALSE /\ Rest(r, t).tries = 0
      /\ Rest(r, t).state = r.state /\ Rest(r, t).obj = r.obj /\ Rest(r, t).bin = r.bin
      /\ Rest(r, t).out = r.out /\ Rest(r, t).last = r.last
  BY RestIs DEF MemoryOK
<1>2. HeadOK(Rest(r, t))
  BY <1>1 DEF HeadOK
<1>3. 0 \in 0 .. 2 /\ FALSE \in BOOLEAN
  OBVIOUS
<1>4. Rest(r, t).tries \in 0 .. 2 /\ Rest(r, t).made \in BOOLEAN
  BY <1>1, <1>3, Zenon
<1>5. \A k \in DOMAIN Rest(r, t).obj : IsObject(k, Rest(r, t).obj[k])
  BY <1>1 DEF MemoryOK
<1>6. QED
  BY <1>1, <1>2, <1>4, <1>5, Zenon DEF ProcOK, MemoryOK

LEMMA OneBecomes ==
  ASSUME DOMAIN proc = Procs, NEW p \in Procs, NEW r, Becomes(p, r)
  PROVE  DOMAIN proc' = Procs /\ proc'[p] = r /\ \A q \in Procs \ {p} : proc'[q] = proc[q]
BY DEF Becomes

LEMMA PlannedStays ==
  ASSUME UNCHANGED cmd, NEW p, NEW t, NEW D, Planned(p, t, D)
  PROVE  Planned(p, t, D)'
BY DEF Planned, MayDo, Adds, Quota, GQuota, Code, History

LEMMA ProcStays ==
  ASSUME UNCHANGED cmd, NEW p, NEW r, ProcOK(p, r), NEW q, proc'[q] = r, p = q
  PROVE  ProcOK(q, proc[q])'
<1>1. \A D, t : Planned(p, t, D) => Planned(p, t, D)'
  BY PlannedStays
<1>2. cmd' = cmd
  OBVIOUS
<1>3. QED
  BY <1>1, <1>2 DEF ProcOK, Planned, MayDo, Adds, Quota, GQuota, Code, LastOK, IsProc, HeadOK, IsObject, Shaped

(* Types are kept when what one process becomes, and the directory, have   *)
(* theirs.                                                                 *)
LEMMA TypeOne ==
  ASSUME TypeInv, NEW p \in Procs, NEW r, Becomes(p, r), ProcOK(p, r),
         UNCHANGED <<conf, cmd>>, faults' \in 0 .. MaxFaults, DirOK'
  PROVE  TypeInv'
<1>1. DOMAIN proc' = Procs /\ proc'[p] = r /\ \A q \in Procs \ {p} : proc'[q] = proc[q]
  BY OneBecomes DEF TypeInv
<1>2. ProcOK(p, proc[p])'
  BY <1>1, ProcStays
<1>3. ASSUME NEW q \in Procs \ {p} PROVE ProcOK(q, proc[q])'
  <2>1. ProcOK(q, proc[q]) /\ proc'[q] = proc[q]
    BY <1>1 DEF TypeInv
  <2>2. QED
    BY <2>1, ProcStays
<1>4. QED
  BY <1>1, <1>2, <1>3 DEF TypeInv

LEMMA DirStays ==
  ASSUME DirOK, UNCHANGED <<dir, ledger>>
  PROVE  DirOK'
BY DEF DirOK, IsEntry

(* What a step of a process makes of it: if it is about to add an entry    *)
(* that others may add too, there is none yet.                             *)
NoneIsNext(r) ==
  r.state = "running" /\ r.todo # <<>> /\ Head(r.todo).op = "add" /\ Head(r.todo).key[1] \in Counted =>
    Matching(Head(r.todo).key) = {}
GoesOn(p) == \E r : /\ Becomes(p, r) /\ ProcOK(p, r) /\ r.state \in {"running", "failed"}
                    /\ NoneIsNext(r)

LEMMA StepTo ==
  ASSUME NEW p, NEW r, MemoryOK(p, r), r.state = "running",
         NEW t, Planned(p, t, DOMAIN r.obj), Routine(t), Becomes(p, Rest(r, t))
  PROVE  GoesOn(p)
<1>1. IsSeq(t)
  BY DEF Planned, IsSeq
<1>2. t # <<>> => ~Special(Head(t))
  <2>1. t # <<>> => Len(t) >= 1 /\ Head(t) = t[1] /\ Len(t) \in Nat
    BY <1>1, RangeIs
  <2>2. QED
    BY <2>1 DEF Routine
<1>3. ProcOK(p, Rest(r, t))
  <2>1. Shaped(t)
    BY <1>1, RoutineIsShaped
  <2>2. t # <<>> => Head(t).op # "refresh"
    BY <1>2 DEF Special
  <2>3. QED
    BY <2>1, <2>2, RestOK
<1>4. Rest(r, t).state = "running" /\ Rest(r, t).todo = t
  <2>1. IsProc(r)
    BY DEF MemoryOK
  <2>2. Rest(r, t).state = r.state
    BY <2>1 DEF Rest, IsProc, Fields
  <2>3. Rest(r, t).todo = t
    BY <2>1 DEF Rest, IsProc, Fields
  <2>4. QED
    BY <2>2, <2>3
<1>5. NoneIsNext(Rest(r, t))
  BY <1>2, <1>4 DEF NoneIsNext, Special
<1>6. QED
  BY <1>3, <1>4, <1>5 DEF GoesOn

(* A step that is not a search for one object.                             *)
LEMMA LeftIsRoutine ==
  ASSUME TypeInv, NEW p \in Procs, proc[p].todo # <<>>, Step(p).op # "find",
         NEW D, DOMAIN proc[p].obj \subseteq D
  PROVE  Planned(p, Skipping(p, 0), D) /\ Routine(Skipping(p, 0))
<1> DEFINE u == Skipping(p, 0)
<1>1. Planned(p, proc[p].todo, DOMAIN proc[p].obj) /\ Shaped(proc[p].todo) /\ IsSeq(proc[p].todo)
  BY DEF TypeInv, ProcOK, Planned, IsSeq
<1>2. u = After(proc[p].todo, 0)
  BY DEF Skipping, After
<1>3. Planned(p, u, D)
  BY <1>1, <1>2, PlannedAfter, PlannedMore
<1>4. Routine(u)
  BY <1>1, <1>2, RoutineAfter DEF Step
<1>5. QED
  BY <1>3, <1>4

LEMMA SkipOver ==
  ASSUME TypeInv, NEW p \in Procs, proc[p].todo # <<>>, Step(p).op # "find",
         NEW r, MemoryOK(p, r), r.state = "running", DOMAIN proc[p].obj \subseteq DOMAIN r.obj,
         Becomes(p, Rest(r, Skipping(p, 0)))
  PROVE  GoesOn(p)
BY LeftIsRoutine, StepTo

LEMMA StepOver ==
  ASSUME TypeInv, NEW p \in Procs, proc[p].todo # <<>>, Step(p).op # "find",
         NEW r, MemoryOK(p, r), r.state = "running", DOMAIN proc[p].obj \subseteq DOMAIN r.obj,
         NEW t, Planned(p, t, DOMAIN r.obj), Routine(t),
         Becomes(p, Rest(r, t \o Skipping(p, 0)))
  PROVE  GoesOn(p)
<1> DEFINE u == Skipping(p, 0)
<1>1. Planned(p, u, DOMAIN r.obj) /\ Routine(u)
  BY LeftIsRoutine
<1>2. IsSeq(t) /\ IsSeq(u)
  BY <1>1 DEF Planned, IsSeq
<1>3. Becomes(p, Rest(r, t \o u))
  OBVIOUS
<1> HIDE DEF u
<1>4. Planned(p, t \o u, DOMAIN r.obj) /\ Routine(t \o u)
  BY <1>1, <1>2, PlannedBoth, RoutineBoth
<1>5. QED
  BY <1>3, <1>4, StepTo

(* What a process has when one field changes.                              *)
LEMMA MemoryObj ==
  ASSUME NEW p, NEW r, MemoryOK(p, r), NEW o, \A k \in DOMAIN o : IsObject(k, o[k])
  PROVE  /\ MemoryOK(p, [r EXCEPT !.obj = o]) /\ [r EXCEPT !.obj = o].obj = o
         /\ [r EXCEPT !.obj = o].state = r.state
BY DEF MemoryOK, IsProc, Fields

LEMMA MemoryBin ==
  ASSUME NEW p, NEW r, MemoryOK(p, r), NEW b, IsSeq(b)
  PROVE  /\ MemoryOK(p, [r EXCEPT !.bin = b]) /\ [r EXCEPT !.bin = b].obj = r.obj
         /\ [r EXCEPT !.bin = b].state = r.state
BY DEF MemoryOK, IsProc, Fields, IsSeq

LEMMA MemoryLast ==
  ASSUME NEW p, NEW r, MemoryOK(p, r), NEW l, LastOK(cmd[p].printer, l)
  PROVE  /\ MemoryOK(p, [r EXCEPT !.last = l]) /\ [r EXCEPT !.last = l].obj = r.obj
         /\ [r EXCEPT !.last = l].state = r.state
BY DEF MemoryOK, IsProc, Fields

LEMMA MemoryOut ==
  ASSUME NEW p, NEW r, MemoryOK(p, r), NEW o
  PROVE  /\ MemoryOK(p, [r EXCEPT !.out = o]) /\ [r EXCEPT !.out = o].obj = r.obj
         /\ [r EXCEPT !.out = o].state = r.state
BY DEF MemoryOK, IsProc, Fields

LEMMA HasMemory ==
  ASSUME TypeInv, NEW p \in Procs
  PROVE  /\ MemoryOK(p, proc[p]) /\ IsSeq(proc[p].todo) /\ HeadOK(proc[p])
         /\ Planned(p, proc[p].todo, DOMAIN proc[p].obj)
         /\ proc[p].todo # <<>> => MayDo(p, Step(p), DOMAIN proc[p].obj) /\ Step(p) = proc[p].todo[1]
<1>1. ProcOK(p, proc[p])
  BY DEF TypeInv
<1>2. IsSeq(proc[p].todo)
  BY <1>1 DEF ProcOK, Planned, IsSeq
<1>3. proc[p].todo # <<>> => Head(proc[p].todo) = proc[p].todo[1] /\ Head(proc[p].todo) \in Range(proc[p].todo)
  BY <1>2, RangeIs
<1>4. QED
  BY <1>1, <1>2, <1>3 DEF ProcOK, MemoryOK, Planned, Step

LEMMA TypeFail ==
  ASSUME TypeInv, NEW p \in Procs, Fail(p)
  PROVE  GoesOn(p)
<1> DEFINE r == [proc[p] EXCEPT !.state = "failed", !.old = <<>>]
<1>1. ProcOK(p, proc[p])
  BY DEF TypeInv
<1>2. /\ DOMAIN r = Fields /\ r.state = "failed" /\ r.old = <<>> /\ r.todo = proc[p].todo /\ r.obj = proc[p].obj
      /\ r.bin = proc[p].bin /\ r.last = proc[p].last /\ r.new = proc[p].new /\ r.made = proc[p].made
      /\ r.tries = proc[p].tries
  BY <1>1 DEF ProcOK, IsProc, Fields
<1>3. Becomes(p, r)
  BY DEF Fail
<1> HIDE DEF r
<1>4. HeadOK(r)
  BY <1>1, <1>2 DEF ProcOK, HeadOK
<1>5. ProcOK(p, r)
  BY <1>1, <1>2, <1>4 DEF ProcOK, IsProc, Over
<1>6. NoneIsNext(r)
  BY <1>2 DEF NoneIsNext
<1>7. QED
  BY <1>2, <1>3, <1>5, <1>6 DEF GoesOn

-----------------------------------------------------------------------------
(* Lists of steps.                                                         *)

LEMMA NoSteps == ASSUME NEW p, NEW D PROVE Planned(p, <<>>, D) /\ Routine(<<>>)
BY DEF Planned, Routine, Range

LEMMA ListIsSeq ==
  ASSUME NEW n \in Nat, NEW f, f = [i \in 1 .. n |-> f[i]]
  PROVE  IsSeq(f) /\ Len(f) = n /\ Range(f) = {f[i] : i \in 1 .. n}
<1> DEFINE S == {f[i] : i \in 1 .. n}
<1>1. [i \in 1 .. n |-> f[i]] \in Seq(S) /\ Len([i \in 1 .. n |-> f[i]]) = n
  OBVIOUS
<1>2. DOMAIN f = 1 .. n
  OBVIOUS
<1>3. Range(f) = S
  BY <1>2 DEF Range
<1> HIDE DEF S
<1>4. f \in Seq(S) /\ Len(f) = n
  BY <1>1
<1>5. QED
  BY <1>3, <1>4 DEF IsSeq, S

LEMMA ListPlanned ==
  ASSUME NEW p, NEW D, NEW n \in Nat, NEW f, f = [i \in 1 .. n |-> f[i]],
         \A i \in 1 .. n : MayDo(p, f[i], D) /\ ~Special(f[i])
  PROVE  Planned(p, f, D) /\ Routine(f)
<1>1. IsSeq(f) /\ Len(f) = n /\ Range(f) = {f[i] : i \in 1 .. n}
  BY ListIsSeq
<1>2. QED
  BY <1>1 DEF Planned, Routine, IsSeq

LEMMA OneStep ==
  ASSUME NEW p, NEW D, NEW s, MayDo(p, s, D), ~Special(s)
  PROVE  Planned(p, <<s>>, D) /\ Routine(<<s>>)
<1>1. <<s>> \in Seq({s}) /\ Len(<<s>>) = 1 /\ \A i \in 1 .. 1 : <<s>>[i] = s
  OBVIOUS
<1>2. Planned(p, <<s>>, D)
  <2> DEFINE S == {s}
  <2>1. \A x \in S : MayDo(p, x, D)
    OBVIOUS
  <2>2. <<s>> \in Seq(S)
    BY <1>1
  <2> HIDE DEF S
  <2>3. QED
    BY <2>1, <2>2, PlannedBy
<1>3. Routine(<<s>>)
  BY <1>1 DEF Routine
<1>4. QED
  BY <1>2, <1>3

LEMMA TwoSteps ==
  ASSUME NEW p, NEW D, NEW s, NEW u, MayDo(p, s, D), ~Special(s), MayDo(p, u, D), ~Special(u)
  PROVE  Planned(p, <<s, u>>, D) /\ Routine(<<s, u>>)
<1>1. <<s, u>> \in Seq({s, u}) /\ Len(<<s, u>>) = 2 /\ \A i \in 1 .. 2 : <<s, u>>[i] \in {s, u}
  OBVIOUS
<1>2. Planned(p, <<s, u>>, D)
  <2> DEFINE S == {s, u}
  <2>1. \A x \in S : MayDo(p, x, D)
    OBVIOUS
  <2>2. <<s, u>> \in Seq(S)
    BY <1>1
  <2> HIDE DEF S
  <2>3. QED
    BY <2>1, <2>2, PlannedBy
<1>3. Routine(<<s, u>>)
  BY <1>1 DEF Routine
<1>4. QED
  BY <1>2, <1>3

LEMMA BothPlanned ==
  ASSUME NEW p, NEW D, NEW t, NEW u, Planned(p, t, D), Routine(t), Planned(p, u, D), Routine(u)
  PROVE  Planned(p, t \o u, D) /\ Routine(t \o u)
<1>1. IsSeq(t) /\ IsSeq(u)
  BY DEF Planned, IsSeq
<1>2. QED
  BY <1>1, PlannedBoth, RoutineBoth

LEMMA RoutineRange ==
  ASSUME NEW t, IsSeq(t)
  PROVE  Routine(t) <=> \A s \in Range(t) : ~Special(s)
BY RangeIs DEF Routine

LEMMA StepsOf ==
  ASSUME NEW p, NEW D, NEW S, NEW t \in Seq(S), \A s \in S : MayDo(p, s, D) /\ ~Special(s)
  PROVE  Planned(p, t, D) /\ Routine(t)
<1>1. IsSeq(t) /\ Range(t) \subseteq S
  BY SeqIsSeq
<1>2. QED
  BY <1>1, RoutineRange DEF Planned, IsSeq

LEMMA FlattenPlanned ==
  ASSUME NEW p, NEW D, NEW n \in Nat, NEW b, b = [i \in 1 .. n |-> b[i]],
         \A i \in 1 .. n : Planned(p, b[i], D) /\ Routine(b[i])
  PROVE  Planned(p, FlattenSeq(b), D) /\ Routine(FlattenSeq(b))
<1> DEFINE S == UNION {Range(b[i]) : i \in 1 .. n}
<1>1. \A i \in 1 .. n : IsSeq(b[i]) /\ Range(b[i]) \subseteq S
  BY DEF Planned, IsSeq
<1>2. \A s \in S : MayDo(p, s, D) /\ ~Special(s)
  <2>1. ASSUME NEW s \in S PROVE MayDo(p, s, D) /\ ~Special(s)
    <3>1. PICK i \in 1 .. n : s \in Range(b[i])
      OBVIOUS
    <3>2. IsSeq(b[i])
      BY <1>1
    <3>3. QED
      BY <3>1, <3>2, RoutineRange DEF Planned
  <2>2. QED
    BY <2>1
<1> HIDE DEF S
<1>3. \A i \in 1 .. n : b[i] \in Seq(S)
  BY <1>1, SeqMonotonic DEF IsSeq
<1>4. b \in Seq(Seq(S))
  <2>1. [i \in 1 .. n |-> b[i]] \in Seq(Seq(S))
    BY <1>3
  <2>2. QED
    BY <2>1
<1>5. FlattenSeq(b) \in Seq(S)
  BY <1>4, FlattenIsSeq
<1>6. IsSeq(FlattenSeq(b)) /\ Range(FlattenSeq(b)) \subseteq S
  BY <1>5, SeqIsSeq
<1>7. QED
  BY <1>2, <1>6, RoutineRange DEF Planned, IsSeq

LEMMA ListedIn ==
  ASSUME NEW S, IsFiniteSet(S)
  PROVE  /\ Cardinality(S) \in Nat /\ IsSeq(SetToSeq(S)) /\ Len(SetToSeq(S)) = Cardinality(S)
         /\ DOMAIN SetToSeq(S) = 1 .. Cardinality(S) /\ Range(SetToSeq(S)) \subseteq S
         /\ \A i \in 1 .. Cardinality(S) : SetToSeq(S)[i] \in S
<1>1. SetToSeq(S) \in Seq(S) /\ Len(SetToSeq(S)) = Cardinality(S)
  BY SetToSeqIsSeq
<1>2. Cardinality(S) \in Nat
  BY FS_CardinalityType
<1>3. IsSeq(SetToSeq(S)) /\ Range(SetToSeq(S)) \subseteq S
  BY <1>1, SeqIsSeq
<1>4. DOMAIN SetToSeq(S) = 1 .. Cardinality(S) /\ \A i \in 1 .. Cardinality(S) : SetToSeq(S)[i] \in Range(SetToSeq(S))
  BY <1>1, <1>3, RangeIs
<1>5. QED
  BY <1>1, <1>2, <1>3, <1>4

(* What each kind of step asks.                                            *)
LEMMA StepsMayBe ==
  ASSUME NEW p, NEW D
  PROVE  /\ \A dn : dn[1] \notin Halves \/ cmd[p].do = "deluser" => MayDo(p, Delete(dn), D) /\ ~Special(Delete(dn))
         /\ \A k : \A m, h \in Nat : MayDo(p, Find(k, m, h), D) /\ ~Special(Find(k, m, h))
         /\ \A w \in {"parents", "codes"} : \A o, r : MayDo(p, Ask(w, o, r), D) /\ ~Special(Ask(w, o, r))
         /\ cmd[p].do = "deluser" => \A w \in {"jobs", "quotas", "purge"} : \A o, r :
              MayDo(p, Ask(w, o, r), D) /\ ~Special(Ask(w, o, r))
         /\ \A o, r : o # None => MayDo(p, Ask("own", o, r), D) /\ ~Special(Ask("own", o, r))
         /\ Saves(p) => \A w \in {"leave", "refunds"} : \A o, r :
              MayDo(p, Ask(w, o, r), D) /\ ~Special(Ask(w, o, r))
         /\ \A w \in {"last", "history"} : \A o :
              MayDo(p, Ask(w, o, cmd[p].printer), D) /\ ~Special(Ask(w, o, cmd[p].printer))
         /\ \A k, o, r : k \notin Halves \/ (k = "balance" /\ cmd[p].do = "deluser") =>
              MayDo(p, Collect(k, o, r), D) /\ ~Special(Collect(k, o, r))
<1>1. \A dn : dn[1] \notin Halves \/ cmd[p].do = "deluser" => MayDo(p, Delete(dn), D) /\ ~Special(Delete(dn))
  BY DEF MayDo, Reliant, Saves, Special, Delete
<1>2. \A k : \A m, h \in Nat : MayDo(p, Find(k, m, h), D) /\ ~Special(Find(k, m, h))
  BY DEF MayDo, Reliant, Saves, Special, Find
<1>3. \A w \in {"parents", "codes"} : \A o, r : MayDo(p, Ask(w, o, r), D) /\ ~Special(Ask(w, o, r))
  BY DEF MayDo, Reliant, Special, Ask
<1>8. ASSUME cmd[p].do = "deluser", NEW w \in {"jobs", "quotas", "purge"}, NEW o, NEW r
      PROVE  MayDo(p, Ask(w, o, r), D) /\ ~Special(Ask(w, o, r))
  BY <1>8 DEF MayDo, Reliant, Special, Ask
<1>9. \A o, r : o # None => MayDo(p, Ask("own", o, r), D) /\ ~Special(Ask("own", o, r))
  BY DEF MayDo, Reliant, Special, Ask
<1>6. ASSUME Saves(p), NEW w \in {"leave", "refunds"}, NEW o, NEW r
      PROVE  MayDo(p, Ask(w, o, r), D) /\ ~Special(Ask(w, o, r))
  BY <1>6 DEF MayDo, Saves, Reliant, Special, Ask
<1>4. \A w \in {"last", "history"} : \A o :
        MayDo(p, Ask(w, o, cmd[p].printer), D) /\ ~Special(Ask(w, o, cmd[p].printer))
  BY DEF MayDo, Reliant, Saves, Special, Ask
<1>5. \A k, o, r : k \notin Halves \/ (k = "balance" /\ cmd[p].do = "deluser") =>
        MayDo(p, Collect(k, o, r), D) /\ ~Special(Collect(k, o, r))
  BY DEF MayDo, Reliant, Saves, Special, Collect
<1>7. QED
  BY <1>1, <1>2, <1>3, <1>4, <1>5, <1>6, <1>8, <1>9

LEMMA ChangesMayBe ==
  ASSUME NEW p, NEW D, NEW k, IsKey(k) \/ k \in D
  PROVE  /\ \A n \in Int : MayDo(p, Increase(k, n), D) /\ ~Special(Increase(k, n))
         /\ \A n \in Int : (Saves(p) => MayDo(p, Save(k, n), D)) /\ ~Special(Save(k, n))
         /\ \A x, d : (Saves(p) => MayDo(p, Rewrite(k, {x}, d), D)) /\ ~Special(Rewrite(k, {x}, d))
         /\ \A d : (Saves(p) => MayDo(p, Rewrite(k, {}, d), D)) /\ ~Special(Rewrite(k, {}, d))
         /\ \A r : IsKey(k) /\ (k[1] = "last" => KeyOf(r) = History(k[3])) =>
                     MayDo(p, Link(k, r), D) /\ ~Special(Link(k, r))
<1>1. \A n \in Int : MayDo(p, Increase(k, n), D) /\ ~Special(Increase(k, n))
  BY DEF MayDo, Reliant, Saves, Special, Increase
<1>2. \A n \in Int : (Saves(p) => MayDo(p, Save(k, n), D)) /\ ~Special(Save(k, n))
  BY DEF MayDo, Reliant, Saves, Special, Save
<1>3. \A x, d : (Saves(p) => MayDo(p, Rewrite(k, {x}, d), D)) /\ ~Special(Rewrite(k, {x}, d))
  <2>1. \A x : IsFiniteSet({x})
    BY FS_Singleton
  <2>2. ASSUME NEW x, NEW d
        PROVE  (Saves(p) => MayDo(p, Rewrite(k, {x}, d), D)) /\ ~Special(Rewrite(k, {x}, d))
    <3>1. PICK y : y = {x} /\ IsFiniteSet(y)
      BY <2>1
    <3>2. (Saves(p) => MayDo(p, Rewrite(k, y, d), D)) /\ ~Special(Rewrite(k, y, d))
      BY <3>1 DEF MayDo, Reliant, Saves, Special, Rewrite
    <3>3. QED
      BY <3>1, <3>2
  <2>3. QED
    BY <2>2
<1>4. \A d : (Saves(p) => MayDo(p, Rewrite(k, {}, d), D)) /\ ~Special(Rewrite(k, {}, d))
  BY FS_EmptySet DEF MayDo, Reliant, Saves, Special, Rewrite
<1>5. \A r : IsKey(k) /\ (k[1] = "last" => KeyOf(r) = History(k[3])) =>
               MayDo(p, Link(k, r), D) /\ ~Special(Link(k, r))
  BY DEF MayDo, Reliant, Saves, Special, Link
<1>6. QED
  BY <1>1, <1>2, <1>3, <1>4, <1>5

LEMMA AddMayBe ==
  ASSUME NEW p, NEW D, NEW k, IsKey(k), NEW n \in Int, NEW r,
         k[1] \in Named => k[3] = None, k[1] = "last" => KeyOf(r) = History(k[3]),
         k[1] \in Halves => cmd[p].do = "adduser"
  PROVE  /\ k[1] \notin Counted => MayDo(p, Add(k, n, r), D) /\ ~Special(Add(k, n, r))
         /\ k[1] \in Counted /\ Adds(p, k) => MayDo(p, Add(k, n, r), D)
BY DEF MayDo, Reliant, Special, Add

-----------------------------------------------------------------------------
(* Searches.                                                               *)

LEMMA AtWork ==
  ASSUME TypeInv, NEW p \in Procs, NEW op, At(p, op)
  PROVE  /\ MemoryOK(p, proc[p]) /\ proc[p].state = "running" /\ proc[p].todo # <<>>
         /\ MayDo(p, Step(p), DOMAIN proc[p].obj) /\ Step(p).op = op /\ DirOK
BY HasMemory DEF At, Running, TypeInv

LEMMA GoCollect ==
  ASSUME TypeInv, NEW p \in Procs, CollectEntries(p)
  PROVE  GoesOn(p)
<1> DEFINE set == Search(Step(p).kind, Step(p).owner, Step(p).printer)
           t == Deletions(set)
<1>1. /\ MemoryOK(p, proc[p]) /\ proc[p].state = "running" /\ proc[p].todo # <<>>
      /\ Step(p).op = "collect" /\ DirOK /\ MayDo(p, Step(p), DOMAIN proc[p].obj)
  BY AtWork DEF CollectEntries
<1>2. Becomes(p, Rest(proc[p], t \o Skipping(p, 0)))
  BY DEF CollectEntries
<1>3. Cardinality(set) \in Nat
  BY <1>1, SearchIs, FS_CardinalityType
<1>4. Planned(p, t, DOMAIN proc[p].obj) /\ Routine(t)
  <2>1. t = [i \in 1 .. Cardinality(set) |-> t[i]]
    BY DEF Deletions
  <2>2. \A i \in 1 .. Cardinality(set) : t[i] = Delete(SetToSeq(set)[i])
    BY DEF Deletions
  <2>5. Step(p).kind \notin Halves \/ cmd[p].do = "deluser"
    BY <1>1 DEF MayDo
  <2>6. IsFiniteSet(set) /\ \A dn \in set : dn[1] = Step(p).kind
    BY <1>1, SearchIs
  <2> HIDE DEF t, set
  <2>7. \A i \in 1 .. Cardinality(set) : SetToSeq(set)[i][1] = Step(p).kind
    BY <2>6, ListedIn
  <2>3. \A i \in 1 .. Cardinality(set) : MayDo(p, t[i], DOMAIN proc[p].obj) /\ ~Special(t[i])
    BY <2>2, <2>5, <2>7, StepsMayBe
  <2>4. QED
    BY <1>3, <2>1, <2>3, ListPlanned
<1> HIDE DEF t
<1>5. Step(p).op # "find"
  BY <1>1
<1>6. QED
  BY <1>1, <1>2, <1>4, <1>5, StepOver

LEMMA GoGatherJobs ==
  ASSUME TypeInv, NEW p \in Procs, GatherJobs(p)
  PROVE  GoesOn(p)
<1> DEFINE b == proc[p].bin \o SetToSeq(Search("job", Step(p).owner, Anyone))
           r == [proc[p] EXCEPT !.bin = b]
<1>1. /\ MemoryOK(p, proc[p]) /\ proc[p].state = "running" /\ proc[p].todo # <<>>
      /\ Step(p).op = "jobs" /\ DirOK
  BY AtWork DEF GatherJobs
<1>2. Becomes(p, Rest(r, Skipping(p, 0)))
  BY DEF GatherJobs
<1>3. IsSeq(b)
  <2>1. SetToSeq(Search("job", Step(p).owner, Anyone)) \in Seq(Search("job", Step(p).owner, Anyone))
    BY <1>1, SearchIs, SetToSeqIsSeq
  <2>2. IsSeq(SetToSeq(Search("job", Step(p).owner, Anyone))) /\ IsSeq(proc[p].bin)
    BY <1>1, <2>1, SeqIsSeq DEF MemoryOK, IsSeq
  <2>3. QED
    BY <2>2, BothAre
<1>4. Step(p).op # "find"
  BY <1>1
<1> HIDE DEF b
<1>5. MemoryOK(p, r) /\ r.obj = proc[p].obj /\ r.state = "running"
  BY <1>1, <1>3, MemoryBin
<1> HIDE DEF r
<1>6. DOMAIN proc[p].obj \subseteq DOMAIN r.obj
  BY <1>5
<1>7. QED
  BY <1>1, <1>2, <1>4, <1>5, <1>6, SkipOver

LEMMA GoGatherQuotas ==
  ASSUME TypeInv, NEW p \in Procs, GatherQuotas(p)
  PROVE  GoesOn(p)
<1> DEFINE set == Search("quota", Step(p).owner, Anyone)
           found == SetToSeq(set)
           t == [i \in DOMAIN found |-> [op |-> "check", dn |-> found[i], owner |-> Step(p).owner]]
<1>1. /\ MemoryOK(p, proc[p]) /\ proc[p].state = "running" /\ proc[p].todo # <<>>
      /\ Step(p).op = "quotas" /\ DirOK /\ MayDo(p, Step(p), DOMAIN proc[p].obj)
  BY AtWork DEF GatherQuotas
<1>2. Becomes(p, Rest(proc[p], t \o Skipping(p, 0)))
  BY DEF GatherQuotas
<1>3. DOMAIN found = 1 .. Len(found) /\ Len(found) \in Nat
  <2>1. found \in Seq(set)
    BY <1>1, SearchIs, SetToSeqIsSeq
  <2> HIDE DEF found, set
  <2>2. QED
    BY <2>1, SeqIsSeq, RangeIs
<1>4. Planned(p, t, DOMAIN proc[p].obj) /\ Routine(t)
  <2> DEFINE n == Len(found)
  <2>1. t = [i \in 1 .. n |-> t[i]]
    BY <1>3
  <2>2. \A i \in 1 .. n : t[i].op = "check"
    BY <1>3
  <2>3. n \in Nat
    BY <1>3
  <2> HIDE DEF t, found, n
  <2>4. \A i \in 1 .. n : MayDo(p, t[i], DOMAIN proc[p].obj) /\ ~Special(t[i])
    BY <1>1, <2>2 DEF MayDo, Reliant, Special
  <2>5. QED
    BY <2>1, <2>3, <2>4, ListPlanned
<1> HIDE DEF t
<1>5. Step(p).op # "find"
  BY <1>1
<1>6. QED
  BY <1>1, <1>2, <1>4, <1>5, StepOver

LEMMA GoCheckLast ==
  ASSUME TypeInv, NEW p \in Procs, CheckLast(p)
  PROVE  GoesOn(p)
<1>1. /\ MemoryOK(p, proc[p]) /\ proc[p].state = "running" /\ proc[p].todo # <<>>
      /\ Step(p).op = "check" /\ DirOK
  BY AtWork DEF CheckLast
<1>2. PICK l \in LastJob(Step(p).dn[3]) :
        Becomes(p, Rest([proc[p] EXCEPT !.bin = @ \o <<Step(p).dn>> \o OwnLast(l, Step(p).owner)],
                        Skipping(p, 0)))
  BY DEF CheckLast
<1> DEFINE b == proc[p].bin \o <<Step(p).dn>> \o OwnLast(l, Step(p).owner)
           r == [proc[p] EXCEPT !.bin = b]
<1>3. IsSeq(b)
  <2>1. \A x : <<x>> \in Seq({x}) /\ <<>> \in Seq({x})
    OBVIOUS
  <2>2. \A x : IsSeq(<<x>>) /\ IsSeq(<<>>)
    BY <2>1, SeqIsSeq
  <2>3. IsSeq(OwnLast(l, Step(p).owner)) /\ IsSeq(proc[p].bin)
    BY <1>1, <2>2 DEF OwnLast, MemoryOK, IsSeq
  <2>4. IsSeq(proc[p].bin \o <<Step(p).dn>>)
    BY <2>2, <2>3, BothAre
  <2>5. QED
    BY <2>3, <2>4, BothAre
<1>4. Step(p).op # "find" /\ Becomes(p, Rest(r, Skipping(p, 0)))
  BY <1>1, <1>2
<1> HIDE DEF b
<1>5. MemoryOK(p, r) /\ r.obj = proc[p].obj /\ r.state = "running"
  BY <1>1, <1>3, MemoryBin
<1> HIDE DEF r
<1>6. DOMAIN proc[p].obj \subseteq DOMAIN r.obj
  BY <1>5
<1>7. QED
  BY <1>1, <1>4, <1>5, <1>6, SkipOver

LEMMA GoPurge ==
  ASSUME TypeInv, NEW p \in Procs, Purge(p)
  PROVE  GoesOn(p)
<1> DEFINE b == proc[p].bin
           r == [proc[p] EXCEPT !.bin = <<>>]
           t == [i \in DOMAIN b |-> Delete(b[i])]
<1>1. /\ MemoryOK(p, proc[p]) /\ proc[p].state = "running" /\ proc[p].todo # <<>>
      /\ Step(p).op = "purge" /\ DirOK /\ MayDo(p, Step(p), DOMAIN proc[p].obj)
  BY AtWork DEF Purge
<1>2. Becomes(p, Rest(r, t \o Skipping(p, 0)))
  BY DEF Purge
<1>3. IsSeq(<<>>) /\ IsSeq(b)
  BY <1>1 DEF MemoryOK, IsSeq, Range
<1>4. MemoryOK(p, r) /\ r.obj = proc[p].obj /\ r.state = "running"
  BY <1>1, <1>3, MemoryBin
<1> HIDE DEF r
<1>5. Planned(p, t, DOMAIN r.obj) /\ Routine(t)
  <2> DEFINE n == Len(b)
  <2>1. DOMAIN b = 1 .. n /\ n \in Nat
    BY <1>3, RangeIs
  <2>2. t = [i \in 1 .. n |-> t[i]]
    BY <2>1
  <2>3. \A i \in 1 .. n : t[i] = Delete(b[i])
    BY <2>1
  <2> HIDE DEF t, b, n
  <2>4. \A i \in 1 .. n : MayDo(p, t[i], DOMAIN r.obj) /\ ~Special(t[i])
    <3>1. cmd[p].do = "deluser"
      BY <1>1 DEF MayDo
    <3>2. QED
      BY <2>3, <3>1, StepsMayBe
  <2>5. QED
    BY <2>1, <2>2, <2>4, ListPlanned
<1> HIDE DEF t
<1>6. Step(p).op # "find" /\ DOMAIN proc[p].obj \subseteq DOMAIN r.obj
  BY <1>1, <1>4
<1>7. QED
  BY <1>1, <1>2, <1>4, <1>5, <1>6, StepOver

(* A last job that an user printed has an entry of its own.                *)
LEMMA OwnLastIs ==
  ASSUME DirOK, NEW pr, NEW l \in LastJob(pr), l.owner # None
  PROVE  l.dn \in Matching(LastEntry(pr)) /\ l.dn[1] = "last" /\ l.exists
<1>1. l # NoLastJob
  BY DEF NoLastJob
<1>2. l \in LastJobs(pr)
  BY <1>1 DEF LastJob
<1>3. PICK x \in Matching(LastEntry(pr)) :
        l = [dn |-> x, job |-> dir[x].ref, exists |-> dir[x].ref \in DOMAIN dir,
             owner |-> IF dir[x].ref \in DOMAIN dir THEN dir[dir[x].ref].ref ELSE None]
  BY <1>2 DEF LastJobs
<1>5. l.dn = x /\ l.exists
  BY <1>3
<1>4. QED
  BY <1>5, MatchIs DEF LastEntry

LEMMA GoDeleteOwnLast ==
  ASSUME TypeInv, NEW p \in Procs, DeleteOwnLast(p)
  PROVE  GoesOn(p)
<1>1. /\ MemoryOK(p, proc[p]) /\ proc[p].state = "running" /\ proc[p].todo # <<>>
      /\ Step(p).op = "own" /\ DirOK /\ MayDo(p, Step(p), DOMAIN proc[p].obj)
  BY AtWork DEF DeleteOwnLast
<1>2. PICK l \in LastJob(Step(p).printer) :
        LET own == OwnLast(l, Step(p).owner)
        IN Becomes(p, Rest(proc[p], [i \in DOMAIN own |-> Delete(own[i])] \o Skipping(p, 0)))
  BY DEF DeleteOwnLast
<1> DEFINE own == OwnLast(l, Step(p).owner)
           t == [i \in DOMAIN own |-> Delete(own[i])]
<1>3. Becomes(p, Rest(proc[p], t \o Skipping(p, 0)))
  BY <1>2
<1>4. IsSeq(own)
  <2>1. \A x : <<x>> \in Seq({x}) /\ <<>> \in Seq({x})
    OBVIOUS
  <2>2. \A x : IsSeq(<<x>>) /\ IsSeq(<<>>)
    BY <2>1, SeqIsSeq
  <2>3. QED
    BY <2>2 DEF OwnLast
<1>5. Planned(p, t, DOMAIN proc[p].obj) /\ Routine(t)
  <2> DEFINE n == Len(own)
  <2>1. DOMAIN own = 1 .. n /\ n \in Nat
    BY <1>4, RangeIs
  <2>2. t = [i \in 1 .. n |-> t[i]]
    BY <2>1
  <2>3. \A i \in 1 .. n : t[i] = Delete(own[i])
    BY <2>1
  <2>6. Step(p).owner # None
    BY <1>1 DEF MayDo
  <2>7. l.owner = Step(p).owner => l.dn[1] = "last"
    BY <1>1, <1>2, <2>6, OwnLastIs
  <2>8. \A i \in 1 .. n : own[i][1] \notin Halves
    BY <2>7 DEF OwnLast, Halves
  <2> HIDE DEF t, own, n
  <2>4. \A i \in 1 .. n : MayDo(p, t[i], DOMAIN proc[p].obj) /\ ~Special(t[i])
    BY <2>3, <2>8, StepsMayBe
  <2>5. QED
    BY <2>1, <2>2, <2>4, ListPlanned
<1> HIDE DEF t
<1>6. Step(p).op # "find"
  BY <1>1
<1>7. QED
  BY <1>1, <1>3, <1>5, <1>6, StepOver

(* The groups of a printer are entries of the directory.                   *)
LEMMA ParentsAre ==
  ASSUME DirOK, NEW pr
  PROVE  /\ IsFiniteSet(ParentPrinters(pr))
         /\ \A g \in ParentPrinters(pr) : IsObject(Printer(g), Loaded(Dn(Printer(g), None)))
<1> DEFINE S == Search("printer", Anyone, Anyone)
           f == [dn \in S |-> dn[2]]
<1>1. IsFiniteSet({f[dn] : dn \in S})
  <2>1. IsFiniteSet(S) /\ DOMAIN f = S
    BY SearchIs
  <2> HIDE DEF S, f
  <2>2. QED
    BY <2>1, ImageIsFinite
<1>2. {dn[2] : dn \in S} = {f[dn] : dn \in S}
  OBVIOUS
<1>3. ParentPrinters(pr) \subseteq {dn[2] : dn \in S}
  BY DEF ParentPrinters
<1>4. IsFiniteSet(ParentPrinters(pr))
  <2> HIDE DEF S, f
  <2>1. QED
    BY <1>1, <1>2, <1>3, FS_Subset
<1>5. ASSUME NEW g \in ParentPrinters(pr)
      PROVE  IsObject(Printer(g), Loaded(Dn(Printer(g), None)))
  <2>1. PICK dn \in S : g = dn[2]
    BY <1>3
  <2>2. dn \in DOMAIN dir /\ dn[1] = "printer" /\ IsDn(dn)
    BY SearchIs
  <2>3. dn[3] = None
    BY <2>2 DEF DirOK, Named
  <2>4. KeyOf(dn) = <<dn[1], dn[2], dn[3]>>
    BY <2>2, KeyIs
  <2>5. KeyOf(dn) = Printer(g)
    BY <2>1, <2>2, <2>3, <2>4 DEF Printer
  <2>6. dn \in Matching(Printer(g)) /\ Printer(g)[1] \in Named
    BY <2>2, <2>5 DEF Matching, Printer, Named
  <2>7. Dn(Printer(g), None) \in Matching(Printer(g))
    BY <2>6, NamedIs
  <2>8. QED
    BY <2>7, MatchIs
<1>6. QED
  BY <1>4, <1>5

LEMMA GoLeaveGroups ==
  ASSUME TypeInv, NEW p \in Procs, LeaveGroups(p)
  PROVE  GoesOn(p)
<1> DEFINE pr == Step(p).printer
           P == ParentPrinters(pr)
           groups == SetToSeq(P)
           known == [k \in {Printer(g) : g \in P} |-> Loaded(Dn(k, None))]
           o == With(known, proc[p].obj)
           r == [proc[p] EXCEPT !.obj = o]
           t == [i \in DOMAIN groups |-> Rewrite(Printer(groups[i]), {}, {pr})]
<1>1. /\ MemoryOK(p, proc[p]) /\ proc[p].state = "running" /\ proc[p].todo # <<>>
      /\ Step(p).op = "leave" /\ DirOK /\ Saves(p)
  BY AtWork DEF LeaveGroups, MayDo, Saves
<1>2. Becomes(p, Rest(r, t \o Skipping(p, 0)))
  BY DEF LeaveGroups
<1>3. \A k \in DOMAIN o : IsObject(k, o[k])
  <2>1. \A k \in DOMAIN known : IsObject(k, known[k])
    <3>1. \A g \in P : IsObject(Printer(g), Loaded(Dn(Printer(g), None)))
      BY <1>1, ParentsAre
    <3> HIDE DEF P
    <3>2. QED
      BY <3>1
  <2>2. \A k \in DOMAIN proc[p].obj : IsObject(k, proc[p].obj[k])
    BY <1>1 DEF MemoryOK
  <2> HIDE DEF known
  <2>3. QED
    BY <2>1, <2>2, WithObjects
<1>4. DOMAIN proc[p].obj \subseteq DOMAIN o
  BY DEF With
<1> HIDE DEF o
<1>5. MemoryOK(p, r) /\ r.obj = o /\ r.state = "running"
  BY <1>1, <1>3, MemoryObj
<1> HIDE DEF r
<1>6. Planned(p, t, DOMAIN r.obj) /\ Routine(t)
  <2> DEFINE n == Len(groups)
  <2>1. DOMAIN groups = 1 .. n /\ n \in Nat
    <3>1. groups \in Seq(P)
      BY <1>1, ParentsAre, SetToSeqIsSeq
    <3> HIDE DEF groups, P
    <3>2. QED
      BY <3>1, SeqIsSeq, RangeIs
  <2>2. t = [i \in 1 .. n |-> t[i]]
    BY <2>1
  <2>3. \A i \in 1 .. n : t[i] = Rewrite(Printer(groups[i]), {}, {pr})
    BY <2>1
  <2> HIDE DEF t, groups, n, pr
  <2>4. \A i \in 1 .. n : MayDo(p, t[i], DOMAIN r.obj) /\ ~Special(t[i])
    <3>1. ASSUME NEW i \in 1 .. n PROVE MayDo(p, t[i], DOMAIN r.obj) /\ ~Special(t[i])
      <4>1. IsKey(Printer(groups[i]))
        BY KeysAreKeys
      <4>2. /\ MayDo(p, Rewrite(Printer(groups[i]), {}, {pr}), DOMAIN r.obj)
            /\ ~Special(Rewrite(Printer(groups[i]), {}, {pr}))
        BY <1>1, <4>1, ChangesMayBe
      <4>3. QED
        BY <2>3, <4>2
    <3>2. QED
      BY <3>1
  <2>5. QED
    BY <2>1, <2>2, <2>4, ListPlanned
<1> HIDE DEF t
<1>7. Step(p).op # "find" /\ DOMAIN proc[p].obj \subseteq DOMAIN r.obj
  BY <1>1, <1>4, <1>5
<1>8. QED
  BY <1>1, <1>2, <1>5, <1>6, <1>7, StepOver

(* The last job, if there is one, is a job of the printer.                 *)
LEMMA LastIs ==
  ASSUME DirOK, NEW pr, NEW l \in LastJob(pr)
  PROVE  LastOK(pr, l)
<1>1. CASE l = NoLastJob
  BY <1>1 DEF NoLastJob, LastOK
<1>2. CASE l \in LastJobs(pr)
  <2>1. PICK dn \in Matching(LastEntry(pr)) : l.dn = dn /\ l.job = dir[dn].ref
    BY <1>2 DEF LastJobs
  <2>2. dn \in DOMAIN dir /\ KeyOf(dn) = LastEntry(pr) /\ dn[1] = "last" /\ dn[3] = pr
    BY MatchIs DEF LastEntry
  <2>3. KeyOf(dir[dn].ref) = History(pr)
    BY <2>2 DEF DirOK
  <2>4. QED
    BY <2>1, <2>2, <2>3 DEF LastOK
<1>3. QED
  BY <1>1, <1>2 DEF LastJob

LEMMA GoLookAtLast ==
  ASSUME TypeInv, NEW p \in Procs, LookAtLast(p)
  PROVE  GoesOn(p)
<1>1. /\ MemoryOK(p, proc[p]) /\ proc[p].state = "running" /\ proc[p].todo # <<>>
      /\ Step(p).op = "last" /\ DirOK /\ MayDo(p, Step(p), DOMAIN proc[p].obj)
  BY AtWork DEF LookAtLast
<1>2. PICK l \in LastJob(Step(p).printer) :
        Becomes(p, Rest([proc[p] EXCEPT !.last = l], Skipping(p, 0)))
  BY DEF LookAtLast
<1> DEFINE r == [proc[p] EXCEPT !.last = l]
<1>3. Step(p).printer = cmd[p].printer
  BY <1>1 DEF MayDo
<1>4. LastOK(cmd[p].printer, l)
  BY <1>1, <1>3, LastIs
<1>5. Step(p).op # "find" /\ Becomes(p, Rest(r, Skipping(p, 0)))
  BY <1>1, <1>2
<1>6. MemoryOK(p, r) /\ r.obj = proc[p].obj /\ r.state = "running"
  BY <1>1, <1>4, MemoryLast
<1> HIDE DEF r
<1>7. DOMAIN proc[p].obj \subseteq DOMAIN r.obj
  BY <1>6
<1>8. QED
  BY <1>1, <1>5, <1>6, <1>7, SkipOver

LEMMA ChargeIs ==
  ASSUME TypeInv, NEW p \in Procs, NEW D, NEW groups, IsSeq(groups)
  PROVE  Planned(p, Charge(cmd[p], groups), D) /\ Routine(Charge(cmd[p], groups))
<1> DEFINE c == cmd[p]
           a == <<Increase(Balance(c.user), 0 - c.n), Increase(Quota(c.user, c.printer), c.n)>>
           b == [i \in DOMAIN groups |-> Increase(Quota(c.user, groups[i]), c.n)]
           d == IF c.n = 0 THEN <<>> ELSE a \o b
           h == <<Ask("history", c.user, c.printer)>>
           e == IF c.code = None \/ c.n = 0 THEN <<>> ELSE <<Increase(Code(c.code), c.n)>>
<1>1. c.n \in Int /\ 0 - c.n \in Int
  BY DEF TypeInv
<1>2. \A u, g : IsKey(Balance(u)) /\ IsKey(Quota(u, g)) /\ IsKey(Code(u))
  BY KeysAreKeys
<1>3. \A k : \A n \in Int : IsKey(k) => MayDo(p, Increase(k, n), D) /\ ~Special(Increase(k, n))
  BY ChangesMayBe
<1>4. Planned(p, a, D) /\ Routine(a)
  <2>1. /\ MayDo(p, Increase(Balance(c.user), 0 - c.n), D) /\ ~Special(Increase(Balance(c.user), 0 - c.n))
        /\ MayDo(p, Increase(Quota(c.user, c.printer), c.n), D)
        /\ ~Special(Increase(Quota(c.user, c.printer), c.n))
    BY <1>1, <1>2, <1>3
  <2> HIDE DEF c
  <2>2. QED
    BY <2>1, TwoSteps
<1>5. Planned(p, b, D) /\ Routine(b)
  <2> DEFINE n == Len(groups)
  <2>1. DOMAIN groups = 1 .. n /\ n \in Nat
    BY RangeIs
  <2>2. b = [i \in 1 .. n |-> b[i]]
    BY <2>1
  <2>3. \A i \in 1 .. n : b[i] = Increase(Quota(c.user, groups[i]), c.n)
    BY <2>1
  <2> HIDE DEF b, c, n
  <2>4. \A i \in 1 .. n : MayDo(p, b[i], D) /\ ~Special(b[i])
    BY <1>1, <1>2, <1>3, <2>3
  <2>5. QED
    BY <2>1, <2>2, <2>4, ListPlanned
<1>6. Planned(p, h, D) /\ Routine(h)
  <2>1. MayDo(p, Ask("history", c.user, c.printer), D) /\ ~Special(Ask("history", c.user, c.printer))
    BY StepsMayBe
  <2> HIDE DEF c
  <2>2. QED
    BY <2>1, OneStep
<1>7. Planned(p, e, D) /\ Routine(e)
  <2>1. MayDo(p, Increase(Code(c.code), c.n), D) /\ ~Special(Increase(Code(c.code), c.n))
    BY <1>1, <1>2, <1>3
  <2>2. Planned(p, <<Increase(Code(c.code), c.n)>>, D) /\ Routine(<<Increase(Code(c.code), c.n)>>)
    <3> HIDE DEF c
    <3>1. QED
      BY <2>1, OneStep
  <2>3. QED
    BY <2>2, NoSteps
<1>8. Planned(p, d, D) /\ Routine(d)
  <2> HIDE DEF a, b
  <2>1. QED
    BY <1>4, <1>5, NoSteps, BothPlanned
<1>9. Charge(c, groups) = d \o h \o e
  BY DEF Charge
<1> HIDE DEF d, h, e
<1>10. Planned(p, d \o h, D) /\ Routine(d \o h)
  BY <1>6, <1>8, BothPlanned
<1>11. Planned(p, d \o h \o e, D) /\ Routine(d \o h \o e)
  BY <1>7, <1>10, BothPlanned
<1>12. QED
  BY <1>9, <1>11

LEMMA GoLookAtParents ==
  ASSUME TypeInv, NEW p \in Procs, LookAtParents(p)
  PROVE  GoesOn(p)
<1> DEFINE c == cmd[p]
           groups == {g \in ParentPrinters(c.printer) : Matching(Quota(c.user, g)) # {}}
<1>1. /\ MemoryOK(p, proc[p]) /\ proc[p].state = "running" /\ proc[p].todo # <<>>
      /\ Step(p).op = "parents" /\ DirOK
  BY AtWork DEF LookAtParents
<1>2. PICK chosen \in [groups -> DOMAIN dir] :
        /\ \A g \in groups : chosen[g] \in Matching(Quota(c.user, g))
        /\ LET known == [k \in {Quota(c.user, g) : g \in groups} |-> Loaded(chosen[k[3]])]
           IN Becomes(p, Rest([proc[p] EXCEPT !.obj = With(known, @)], Charge(c, SetToSeq(groups))))
  BY DEF LookAtParents
<1> DEFINE known == [k \in {Quota(c.user, g) : g \in groups} |-> Loaded(chosen[k[3]])]
           o == With(known, proc[p].obj)
           r == [proc[p] EXCEPT !.obj = o]
           t == Charge(c, SetToSeq(groups))
<1>3. Becomes(p, Rest(r, t))
  BY <1>2
<1>4. IsFiniteSet(groups)
  <2>1. IsFiniteSet(ParentPrinters(c.printer)) /\ groups \subseteq ParentPrinters(c.printer)
    BY <1>1, ParentsAre
  <2> HIDE DEF groups
  <2>2. QED
    BY <2>1, FS_Subset
<1>5. IsSeq(SetToSeq(groups))
  <2> HIDE DEF groups
  <2>1. SetToSeq(groups) \in Seq(groups)
    BY <1>4, SetToSeqIsSeq
  <2>2. QED
    BY <2>1, SeqIsSeq
<1>6. \A k \in DOMAIN o : IsObject(k, o[k])
  <2>1. \A g \in groups : IsObject(Quota(c.user, g), Loaded(chosen[g])) /\ Quota(c.user, g)[3] = g
    <3> HIDE DEF groups, c
    <3>1. QED
      BY <1>1, <1>2, MatchIs DEF Quota
  <2>2. ASSUME NEW k \in DOMAIN known PROVE IsObject(k, known[k])
    <3>1. PICK g \in groups : k = Quota(c.user, g)
      OBVIOUS
    <3>2. known[k] = Loaded(chosen[g])
      BY <2>1, <3>1
    <3> HIDE DEF known, groups, c
    <3>3. QED
      BY <2>1, <3>1, <3>2
  <2>3. \A k \in DOMAIN proc[p].obj : IsObject(k, proc[p].obj[k])
    BY <1>1 DEF MemoryOK
  <2> HIDE DEF known
  <2>4. QED
    BY <2>2, <2>3, WithObjects
<1> HIDE DEF o, groups
<1>7. MemoryOK(p, r) /\ r.obj = o /\ r.state = "running"
  BY <1>1, <1>6, MemoryObj
<1> HIDE DEF r
<1>8. Planned(p, t, DOMAIN r.obj) /\ Routine(t)
  BY <1>5, ChargeIs
<1> HIDE DEF t
<1>9. QED
  BY <1>3, <1>7, <1>8, StepTo

LEMMA HistoryIs ==
  ASSUME TypeInv, NEW p \in Procs, NEW D, NEW l, LastOK(Step(p).printer, l)
  PROVE  Planned(p, HistorySteps(p, l), D) /\ Routine(HistorySteps(p, l))
<1> DEFINE u == Step(p).owner
           pr == Step(p).printer
           again == conf.disablehistory /\ l.exists
           job == IF again THEN l.job ELSE Dn(History(pr), NewId(p))
           a == IF again THEN Link(History(pr), u) ELSE Add(History(pr), 0, u)
           b == IF l.exists THEN Link(LastEntry(pr), job) ELSE Add(LastEntry(pr), 0, job)
<1>1. HistorySteps(p, l) = <<a, b>>
  BY DEF HistorySteps
<1>2. KeyOf(job) = History(pr)
  <2>1. KeyOf(Dn(History(pr), NewId(p))) = History(pr)
    BY KeysAreKeys, DnIs
  <2>2. again => KeyOf(l.job) = History(pr)
    BY DEF LastOK
  <2>3. QED
    BY <2>1, <2>2
<1>3. /\ IsKey(History(pr)) /\ IsKey(LastEntry(pr))
      /\ History(pr)[1] = "job" /\ LastEntry(pr)[1] = "last" /\ LastEntry(pr)[3] = pr
      /\ "job" \notin Named /\ "last" \notin Named /\ "job" # "last" /\ "job" \notin Counted /\ "last" \notin Counted
      /\ "job" \notin Halves /\ "last" \notin Halves
  BY DEF IsKey, History, LastEntry, Named, Counted, Halves
<1>4. MayDo(p, a, D) /\ ~Special(a)
  <2> HIDE DEF u, again, pr
  <2>1. MayDo(p, Link(History(pr), u), D) /\ ~Special(Link(History(pr), u))
    BY <1>3, ChangesMayBe
  <2>2. MayDo(p, Add(History(pr), 0, u), D) /\ ~Special(Add(History(pr), 0, u))
    BY <1>3, AddMayBe
  <2>3. QED
    BY <2>1, <2>2
<1>5. MayDo(p, b, D) /\ ~Special(b)
  <2> HIDE DEF job, pr
  <2>1. MayDo(p, Link(LastEntry(pr), job), D) /\ ~Special(Link(LastEntry(pr), job))
    BY <1>2, <1>3, ChangesMayBe
  <2>2. MayDo(p, Add(LastEntry(pr), 0, job), D) /\ ~Special(Add(LastEntry(pr), 0, job))
    BY <1>2, <1>3, AddMayBe
  <2>3. QED
    BY <2>1, <2>2
<1> HIDE DEF a, b
<1>6. QED
  BY <1>1, <1>4, <1>5, TwoSteps

LEMMA GoWriteJobNew ==
  ASSUME TypeInv, NEW p \in Procs, WriteJobNew(p)
  PROVE  GoesOn(p)
<1> DEFINE pr == Step(p).printer
<1>1. /\ MemoryOK(p, proc[p]) /\ proc[p].state = "running" /\ proc[p].todo # <<>>
      /\ Step(p).op = "history" /\ DirOK /\ MayDo(p, Step(p), DOMAIN proc[p].obj)
  BY AtWork DEF WriteJobNew
<1>2. PICK l \in IF proc[p].last # None THEN {proc[p].last} ELSE LastJob(pr) :
        LET known == IF l.exists
                     THEN [k \in {History(pr), LastEntry(pr)} |->
                             [dn |-> IF k = History(pr) THEN l.job ELSE l.dn, num |-> 0, set |-> {}]]
                     ELSE <<>>
        IN Becomes(p, Rest([proc[p] EXCEPT !.obj = With(known, @)], HistorySteps(p, l) \o Skipping(p, 0)))
  BY DEF WriteJobNew
<1> DEFINE known == IF l.exists
                    THEN [k \in {History(pr), LastEntry(pr)} |->
                            [dn |-> IF k = History(pr) THEN l.job ELSE l.dn, num |-> 0, set |-> {}]]
                    ELSE <<>>
           o == With(known, proc[p].obj)
           r == [proc[p] EXCEPT !.obj = o]
           t == HistorySteps(p, l)
<1>3. pr = cmd[p].printer
  BY <1>1 DEF MayDo
<1>4. LastOK(pr, l)
  <2> HIDE DEF pr
  <2>1. QED
    BY <1>1, <1>2, <1>3, LastIs DEF MemoryOK
<1>5. Becomes(p, Rest(r, t \o Skipping(p, 0)))
  BY <1>2
<1>6. \A k \in DOMAIN o : IsObject(k, o[k])
  <2>1. SubSeq(History(pr), 1, 3) = History(pr) /\ SubSeq(LastEntry(pr), 1, 3) = LastEntry(pr)
    BY KeysAreKeys, DnIs
  <2>2. History(pr) # LastEntry(pr)
    BY DEF History, LastEntry
  <2>3. 0 \in Int /\ IsFiniteSet({})
    BY FS_EmptySet
  <2>4. \A k \in DOMAIN known : IsObject(k, known[k])
    <3>1. CASE ~l.exists
      BY <3>1
    <3>2. CASE l.exists
      <4>1. KeyOf(l.job) = History(pr) /\ KeyOf(l.dn) = LastEntry(pr)
        BY <1>4, <3>2 DEF LastOK
      <4>2. /\ DOMAIN known = {History(pr), LastEntry(pr)}
            /\ known[History(pr)] = [dn |-> l.job, num |-> 0, set |-> {}]
            /\ known[LastEntry(pr)] = [dn |-> l.dn, num |-> 0, set |-> {}]
        BY <2>2, <3>2
      <4> HIDE DEF known, pr
      <4>3. QED
        BY <2>1, <2>3, <4>1, <4>2 DEF IsObject
    <3>3. QED
      BY <3>1, <3>2
  <2>5. \A k \in DOMAIN proc[p].obj : IsObject(k, proc[p].obj[k])
    BY <1>1 DEF MemoryOK
  <2> HIDE DEF known
  <2>6. QED
    BY <2>4, <2>5, WithObjects
<1>7. DOMAIN proc[p].obj \subseteq DOMAIN o
  BY DEF With
<1> HIDE DEF o
<1>8. MemoryOK(p, r) /\ r.obj = o /\ r.state = "running"
  BY <1>1, <1>6, MemoryObj
<1> HIDE DEF r
<1>9. Planned(p, t, DOMAIN r.obj) /\ Routine(t)
  BY <1>4, HistoryIs
<1> HIDE DEF t
<1>10. Step(p).op # "find" /\ DOMAIN proc[p].obj \subseteq DOMAIN r.obj
  BY <1>1, <1>7, <1>8
<1>11. QED
  BY <1>1, <1>5, <1>8, <1>9, <1>10, StepOver

(* What is known of entries found by their names.                          *)
LEMMA KnownAre ==
  ASSUME TypeInv, NEW p \in Procs, MemoryOK(p, proc[p]),
         NEW S, IsFiniteSet(S), S \subseteq DOMAIN dir,
         NEW o, o = With([dn \in Range(SetToSeq(S)) |-> Loaded(dn)], proc[p].obj)
  PROVE  /\ \A k \in DOMAIN o : IsObject(k, o[k])
         /\ DOMAIN proc[p].obj \subseteq DOMAIN o
         /\ IsSeq(SetToSeq(S)) /\ Range(SetToSeq(S)) \subseteq DOMAIN o
<1> DEFINE known == [dn \in Range(SetToSeq(S)) |-> Loaded(dn)]
<1>1. IsSeq(SetToSeq(S)) /\ Range(SetToSeq(S)) \subseteq S
  <2>1. SetToSeq(S) \in Seq(S)
    BY SetToSeqIsSeq
  <2>2. QED
    BY <2>1, SeqIsSeq
<1>2. \A k \in DOMAIN known : IsObject(k, known[k])
  <2>1. ASSUME NEW k \in Range(SetToSeq(S)) PROVE IsObject(k, Loaded(k))
    <3>1. k \in DOMAIN dir
      BY <1>1
    <3>2. IsEntry(dir[k])
      BY <3>1 DEF TypeInv, DirOK
    <3>3. QED
      BY <3>2 DEF IsEntry, IsObject, Loaded, KeyOf
  <2>2. QED
    BY <2>1
<1>3. \A k \in DOMAIN proc[p].obj : IsObject(k, proc[p].obj[k])
  BY DEF MemoryOK
<1>4. DOMAIN known = Range(SetToSeq(S)) /\ o = With(known, proc[p].obj)
  OBVIOUS
<1> HIDE DEF known
<1>5. \A k \in DOMAIN o : IsObject(k, o[k])
  BY <1>2, <1>3, <1>4, WithObjects
<1>6. DOMAIN o = Range(SetToSeq(S)) \cup DOMAIN proc[p].obj
  BY <1>4 DEF With
<1>7. QED
  BY <1>1, <1>5, <1>6

LEMMA RefundIs ==
  ASSUME TypeInv, NEW p \in Procs, NEW D, NEW job \in D, NEW k, Saves(p)
  PROVE  Planned(p, RefundSteps(cmd[p], p, job, k), D) /\ Routine(RefundSteps(cmd[p], p, job, k))
<1> DEFINE c == cmd[p]
           a == <<Find(Code(c.code), Raise, 0), Increase(Code(c.code), 0 - c.n)>>
           s1 == Find(Account(c.user), 4, 0)
           s2 == Increase(Balance(c.user), c.n)
           s3 == Rewrite(Balance(c.user), {<<p, k>>}, {})
           s4 == Find(Quota(c.user, c.printer), 1, 0)
           s5 == Increase(Quota(c.user, c.printer), 0 - c.n)
           s6 == Rewrite(job, {"refunded"}, {})
           f == IF c.code = None THEN <<>> ELSE a
           S == {s1, s2, s3, s4, s5, s6}
<1>1. c.n \in Int /\ 0 - c.n \in Int /\ Raise \in Nat /\ 0 \in Nat /\ 1 \in Nat /\ 4 \in Nat
  BY DEF TypeInv, Raise
<1>2. \A u, g : IsKey(Balance(u)) /\ IsKey(Quota(u, g)) /\ IsKey(Code(u))
  BY KeysAreKeys
<1>3. \A x : \A n \in Int : IsKey(x) => MayDo(p, Increase(x, n), D) /\ ~Special(Increase(x, n))
  BY ChangesMayBe
<1>4. \A x : \A m, h \in Nat : MayDo(p, Find(x, m, h), D) /\ ~Special(Find(x, m, h))
  BY StepsMayBe
<1>5. MayDo(p, s3, D) /\ ~Special(s3)
  BY <1>2, ChangesMayBe
<1>6. MayDo(p, s6, D) /\ ~Special(s6)
  BY ChangesMayBe
<1>7. RefundSteps(cmd[p], p, job, k) = f \o <<s1, s2, s3, s4, s5, s6>>
  BY DEF RefundSteps
<1> HIDE DEF c
<1>8. Planned(p, a, D) /\ Routine(a)
  <2>1. /\ MayDo(p, Find(Code(c.code), Raise, 0), D) /\ ~Special(Find(Code(c.code), Raise, 0))
        /\ MayDo(p, Increase(Code(c.code), 0 - c.n), D) /\ ~Special(Increase(Code(c.code), 0 - c.n))
    BY <1>1, <1>2, <1>3, <1>4
  <2>2. QED
    BY <2>1, TwoSteps
<1>9. MayDo(p, s1, D) /\ ~Special(s1) /\ MayDo(p, s4, D) /\ ~Special(s4)
  BY <1>1, <1>4
<1>10. MayDo(p, s2, D) /\ ~Special(s2) /\ MayDo(p, s5, D) /\ ~Special(s5)
  BY <1>1, <1>2, <1>3
<1>11. Planned(p, <<s1, s2, s3, s4, s5, s6>>, D) /\ Routine(<<s1, s2, s3, s4, s5, s6>>)
  <2> HIDE DEF s1, s2, s3, s4, s5, s6
  <2>1. <<s1, s2, s3, s4, s5, s6>> \in Seq(S)
    OBVIOUS
  <2>2. \A s \in S : MayDo(p, s, D) /\ ~Special(s)
    BY <1>5, <1>6, <1>9, <1>10
  <2> HIDE DEF S
  <2>3. QED
    BY <2>1, <2>2, StepsOf
<1>12. Planned(p, f, D) /\ Routine(f)
  <2> HIDE DEF a
  <2>1. QED
    BY <1>8, NoSteps
<1> HIDE DEF a, f, s1, s2, s3, s4, s5, s6
<1>13. QED
  BY <1>7, <1>11, <1>12, BothPlanned

LEMMA GoListRefunds ==
  ASSUME TypeInv, NEW p \in Procs, ListRefunds(p)
  PROVE  GoesOn(p)
<1> DEFINE c == cmd[p]
           S == {dn \in Search("job", c.user, c.printer) : "refunded" \notin dir[dn].set}
           jobs == SetToSeq(S)
           o == With([dn \in Range(jobs) |-> Loaded(dn)], proc[p].obj)
           r == [proc[p] EXCEPT !.obj = o]
           b == [k \in DOMAIN jobs |-> RefundSteps(c, p, jobs[k], k)]
           t == FlattenSeq(b)
<1>1. /\ MemoryOK(p, proc[p]) /\ proc[p].state = "running" /\ proc[p].todo # <<>> /\ DirOK /\ Saves(p)
  BY AtWork DEF ListRefunds, MayDo, Saves
<1>2. Becomes(p, Rest(r, t))
  BY DEF ListRefunds
<1>3. IsFiniteSet(S) /\ S \subseteq DOMAIN dir
  <2>1. IsFiniteSet(Search("job", c.user, c.printer)) /\ S \subseteq Search("job", c.user, c.printer)
    BY <1>1, SearchIs
  <2>2. Search("job", c.user, c.printer) \subseteq DOMAIN dir
    BY DEF Search
  <2> HIDE DEF S
  <2>3. QED
    BY <2>1, <2>2, FS_Subset
<1>4. /\ \A k \in DOMAIN o : IsObject(k, o[k])
      /\ IsSeq(jobs) /\ Range(jobs) \subseteq DOMAIN o
  <2> HIDE DEF S
  <2>1. QED
    BY <1>1, <1>3, KnownAre
<1> HIDE DEF o
<1>5. MemoryOK(p, r) /\ r.obj = o /\ r.state = "running"
  BY <1>1, <1>4, MemoryObj
<1> HIDE DEF r
<1>6. Planned(p, t, DOMAIN r.obj) /\ Routine(t)
  <2> DEFINE n == Len(jobs)
  <2>1. DOMAIN jobs = 1 .. n /\ n \in Nat /\ \A i \in 1 .. n : jobs[i] \in DOMAIN r.obj
    <3> HIDE DEF jobs
    <3>1. QED
      BY <1>4, <1>5, RangeIs
  <2>2. b = [i \in 1 .. n |-> b[i]]
    BY <2>1
  <2>3. \A i \in 1 .. n : b[i] = RefundSteps(cmd[p], p, jobs[i], i)
    BY <2>1
  <2> HIDE DEF b, jobs, n, c
  <2>4. \A i \in 1 .. n : Planned(p, b[i], DOMAIN r.obj) /\ Routine(b[i])
    BY <1>1, <2>1, <2>3, RefundIs
  <2>5. QED
    BY <2>1, <2>2, <2>4, FlattenPlanned
<1> HIDE DEF t
<1>7. QED
  BY <1>2, <1>5, <1>6, StepTo

LEMMA GoMatchingCodes ==
  ASSUME TypeInv, NEW p \in Procs, MatchingCodes(p)
  PROVE  GoesOn(p)
<1> DEFINE c == cmd[p]
           S == Matching(Code(c.code))
           codes == SetToSeq(S)
           o == With([dn \in Range(codes) |-> Loaded(dn)], proc[p].obj)
           r == [proc[p] EXCEPT !.obj = o]
           b == [i \in DOMAIN codes |-> IF c.do = "savecode" THEN SaveBillingCode(codes[i], c.n)
                                        ELSE DeleteBillingCode(codes[i])]
<1>1. /\ MemoryOK(p, proc[p]) /\ proc[p].state = "running" /\ proc[p].todo # <<>> /\ DirOK
      /\ c.n \in Int
  BY AtWork DEF MatchingCodes, TypeInv
<1>2. Becomes(p, Rest(r, b))
  BY DEF MatchingCodes
<1>3. IsFiniteSet(S) /\ S \subseteq DOMAIN dir
  <2>1. IsFiniteSet(DOMAIN dir) /\ S \subseteq DOMAIN dir
    BY <1>1 DEF DirOK, Matching
  <2> HIDE DEF S
  <2>2. QED
    BY <2>1, FS_Subset
<1>4. /\ \A k \in DOMAIN o : IsObject(k, o[k])
      /\ IsSeq(codes) /\ Range(codes) \subseteq DOMAIN o
  <2> HIDE DEF S
  <2>1. QED
    BY <1>1, <1>3, KnownAre
<1> HIDE DEF o
<1>5. MemoryOK(p, r) /\ r.obj = o /\ r.state = "running"
  BY <1>1, <1>4, MemoryObj
<1> HIDE DEF r
<1>6. Planned(p, b, DOMAIN r.obj) /\ Routine(b)
  <2> DEFINE n == Len(codes)
  <2>1. DOMAIN codes = 1 .. n /\ n \in Nat /\ \A i \in 1 .. n : codes[i] \in DOMAIN r.obj
    <3> HIDE DEF codes
    <3>1. QED
      BY <1>4, <1>5, RangeIs
  <2>7. \A i \in 1 .. n : codes[i][1] \notin Halves
    <3>1. \A dn \in S : dn[1] = "code"
      BY <1>1, MatchIs DEF Code
    <3>2. \A i \in 1 .. n : codes[i] \in S
      <4> HIDE DEF S
      <4>1. n \in Nat /\ n = Cardinality(S)
        BY <1>3, ListedIn
      <4>2. QED
        BY <1>3, <4>1, ListedIn
    <3>3. QED
      BY <3>1, <3>2 DEF Halves
  <2>2. b = [i \in 1 .. n |-> b[i]]
    BY <2>1
  <2>3. \A i \in 1 .. n : b[i] = IF Saves(p) THEN b[i] ELSE Delete(codes[i])
    BY <2>1 DEF SaveBillingCode, DeleteBillingCode, Saves, Savers
  <2>6. \A i \in 1 .. n : b[i] \in {Save(codes[i], c.n), Delete(codes[i])}
    BY <2>1 DEF SaveBillingCode, DeleteBillingCode
  <2> HIDE DEF b, codes, n, c
  <2>4. ASSUME NEW i \in 1 .. n PROVE MayDo(p, b[i], DOMAIN r.obj) /\ ~Special(b[i])
    <3>1. (Saves(p) => MayDo(p, Save(codes[i], c.n), DOMAIN r.obj)) /\ ~Special(Save(codes[i], c.n))
      BY <1>1, <2>1, ChangesMayBe
    <3>2. MayDo(p, Delete(codes[i]), DOMAIN r.obj) /\ ~Special(Delete(codes[i]))
      BY <2>7, StepsMayBe
    <3>3. QED
      BY <2>3, <2>6, <3>1, <3>2
  <2>5. QED
    BY <2>1, <2>2, <2>4, ListPlanned
<1> HIDE DEF b
<1>7. QED
  BY <1>2, <1>5, <1>6, StepTo

-----------------------------------------------------------------------------
(* Dumps.                                                                  *)

LEMMA GoExtractNames ==
  ASSUME TypeInv, NEW p \in Procs, ExtractNames(p)
  PROVE  GoesOn(p)
<1> DEFINE what == Step(p).what
           S == GetAllNames(what)
           found == SetToSeq(S)
           b == [i \in DOMAIN found |-> <<Find(KeyOf(found[i]), 1, 0),
                                          [op |-> "show", what |-> what, key |-> KeyOf(found[i])]>>]
           t == FlattenSeq(b)
<1>1. /\ MemoryOK(p, proc[p]) /\ proc[p].state = "running" /\ proc[p].todo # <<>> /\ DirOK
      /\ Step(p).op = "extract"
  BY AtWork DEF ExtractNames
<1>2. Becomes(p, Rest(proc[p], t \o Skipping(p, 0)))
  BY DEF ExtractNames
<1>3. found \in Seq(S)
  <2>1. IsFiniteSet(S)
    BY <1>1, SearchIs DEF GetAllNames
  <2>2. QED
    BY <2>1, SetToSeqIsSeq
<1>4. Planned(p, t, DOMAIN proc[p].obj) /\ Routine(t)
  <2> DEFINE n == Len(found)
  <2>1. DOMAIN found = 1 .. n /\ n \in Nat
    BY <1>3, SeqIsSeq, RangeIs
  <2>2. b = [i \in 1 .. n |-> b[i]]
    BY <2>1
  <2>3. \A i \in 1 .. n : b[i] = <<Find(KeyOf(found[i]), 1, 0),
                                   [op |-> "show", what |-> what, key |-> KeyOf(found[i])]>>
    BY <2>1
  <2> HIDE DEF b, found, n, what
  <2>4. ASSUME NEW i \in 1 .. n PROVE Planned(p, b[i], DOMAIN proc[p].obj) /\ Routine(b[i])
    <3> DEFINE show == [op |-> "show", what |-> what, key |-> KeyOf(found[i])]
    <3>1. MayDo(p, Find(KeyOf(found[i]), 1, 0), DOMAIN proc[p].obj) /\ ~Special(Find(KeyOf(found[i]), 1, 0))
      BY StepsMayBe
    <3>2. MayDo(p, show, DOMAIN proc[p].obj) /\ ~Special(show)
      BY DEF MayDo, Reliant, Special
    <3>3. b[i] = <<Find(KeyOf(found[i]), 1, 0), show>>
      BY <2>3
    <3> HIDE DEF show
    <3>4. QED
      BY <3>1, <3>2, <3>3, TwoSteps
  <2>5. QED
    BY <2>1, <2>2, <2>4, FlattenPlanned
<1>5. Step(p).op # "find"
  BY <1>1
<1> HIDE DEF t
<1>6. QED
  BY <1>1, <1>2, <1>4, <1>5, StepOver

LEMMA GoShowObject ==
  ASSUME TypeInv, NEW p \in Procs, ShowObject(p)
  PROVE  GoesOn(p)
<1> DEFINE s == Step(p)
           owners == CASE s.what = "upquotas" -> PrinterUsersAndQuotas(s.key)
                       [] s.what = "gpquotas" -> PrinterGroupsAndQuotas(s.key)
                       [] OTHER               -> {}
           get == [i \in 1 .. Cardinality(owners) |-> Find(SetToSeq(owners)[i], 0, 0)]
<1>1. /\ MemoryOK(p, proc[p]) /\ proc[p].state = "running" /\ proc[p].todo # <<>> /\ DirOK
      /\ Step(p).op = "show"
  BY AtWork DEF ShowObject
<1>2. PICK o : Becomes(p, Rest([proc[p] EXCEPT !.out = o], get \o Skipping(p, 0)))
  BY DEF ShowObject
<1>3. Cardinality(owners) \in Nat
  <2>1. IsFiniteSet(PrinterUsersAndQuotas(s.key))
    <3> DEFINE S == Search("quota", Anyone, s.key[2])
    <3>1. IsFiniteSet(S)
      BY <1>1, SearchIs
    <3> HIDE DEF S
    <3> DEFINE f == [dn \in S |-> Account(dn[2])]
    <3>2. IsFiniteSet({f[dn] : dn \in S})
      <4>1. DOMAIN f = S
        OBVIOUS
      <4> HIDE DEF f
      <4>2. QED
        BY <3>1, <4>1, ImageIsFinite
    <3>3. {f[dn] : dn \in S} = {Account(dn[2]) : dn \in S}
      OBVIOUS
    <3> HIDE DEF f
    <3>4. QED
      BY <3>2, <3>3 DEF PrinterUsersAndQuotas, S
  <2>2. IsFiniteSet(PrinterGroupsAndQuotas(s.key))
    <3> DEFINE S == Search("gquota", Anyone, s.key[2])
    <3>1. IsFiniteSet(S)
      BY <1>1, SearchIs
    <3> HIDE DEF S
    <3> DEFINE f == [dn \in S |-> Group(dn[2])]
    <3>2. IsFiniteSet({f[dn] : dn \in S})
      <4>1. DOMAIN f = S
        OBVIOUS
      <4> HIDE DEF f
      <4>2. QED
        BY <3>1, <4>1, ImageIsFinite
    <3>3. {f[dn] : dn \in S} = {Group(dn[2]) : dn \in S}
      OBVIOUS
    <3> HIDE DEF f
    <3>4. QED
      BY <3>2, <3>3 DEF PrinterGroupsAndQuotas, S
  <2>3. IsFiniteSet(owners)
    BY <2>1, <2>2, FS_EmptySet
  <2> HIDE DEF owners
  <2>4. QED
    BY <2>3, FS_CardinalityType
<1>4. Planned(p, get, DOMAIN proc[p].obj) /\ Routine(get)
  <2> DEFINE n == Cardinality(owners)
  <2>1. get = [i \in 1 .. n |-> get[i]] /\ \A i \in 1 .. n : get[i] = Find(SetToSeq(owners)[i], 0, 0)
    OBVIOUS
  <2>2. n \in Nat
    BY <1>3
  <2> HIDE DEF get, owners, n
  <2>3. \A i \in 1 .. n : MayDo(p, get[i], DOMAIN proc[p].obj) /\ ~Special(get[i])
    <3>1. 0 \in Nat /\ \A k : MayDo(p, Find(k, 0, 0), DOMAIN proc[p].obj) /\ ~Special(Find(k, 0, 0))
      BY StepsMayBe
    <3>2. QED
      BY <2>1, <3>1
  <2>4. QED
    BY <2>1, <2>2, <2>3, ListPlanned
<1> DEFINE r == [proc[p] EXCEPT !.out = o]
<1> HIDE DEF get
<1>5. MemoryOK(p, r) /\ r.obj = proc[p].obj /\ r.state = "running"
  BY <1>1, MemoryOut
<1>6. Becomes(p, Rest(r, get \o Skipping(p, 0)))
  BY <1>2
<1>7. Step(p).op # "find"
  BY <1>1
<1> HIDE DEF r
<1>8. DOMAIN proc[p].obj \subseteq DOMAIN r.obj /\ Planned(p, get, DOMAIN r.obj)
  BY <1>4, <1>5
<1>9. QED
  BY <1>1, <1>4, <1>5, <1>6, <1>7, <1>8, StepOver

LEMMA GoExtractHistory ==
  ASSUME TypeInv, NEW p \in Procs, ExtractHistory(p)
  PROVE  GoesOn(p)
<1>1. /\ MemoryOK(p, proc[p]) /\ proc[p].state = "running" /\ proc[p].todo # <<>> /\ DirOK
      /\ Step(p).op = "extract"
  BY AtWork DEF ExtractHistory
<1>2. PICK o : Becomes(p, Rest([proc[p] EXCEPT !.out = o], Skipping(p, 0)))
  BY DEF ExtractHistory
<1> DEFINE r == [proc[p] EXCEPT !.out = o]
<1>3. MemoryOK(p, r) /\ r.obj = proc[p].obj /\ r.state = "running"
  BY <1>1, MemoryOut
<1>4. Becomes(p, Rest(r, Skipping(p, 0))) /\ Step(p).op # "find"
  BY <1>1, <1>2
<1> HIDE DEF r
<1>5. DOMAIN proc[p].obj \subseteq DOMAIN r.obj
  BY <1>3
<1>6. QED
  BY <1>1, <1>3, <1>4, <1>5, SkipOver

-----------------------------------------------------------------------------
(* Objects that are looked for, and members looked at again.               *)

LEMMA WithOne ==
  ASSUME NEW p, NEW r, MemoryOK(p, r), NEW key, NEW o, IsObject(key, o)
  PROVE  /\ MemoryOK(p, WithObject(r, key, o)) /\ WithObject(r, key, o).state = r.state
         /\ DOMAIN WithObject(r, key, o).obj = {key} \cup DOMAIN r.obj
<1> DEFINE g == [k \in {key} |-> o]
           f == With(g, r.obj)
<1>1. WithObject(r, key, o) = [r EXCEPT !.obj = f]
  BY DEF WithObject
<1>2. \A k \in DOMAIN g : IsObject(k, g[k])
  OBVIOUS
<1>3. \A k \in DOMAIN r.obj : IsObject(k, r.obj[k])
  BY DEF MemoryOK
<1>4. DOMAIN f = {key} \cup DOMAIN r.obj
  BY DEF With
<1> HIDE DEF g
<1>5. \A k \in DOMAIN f : IsObject(k, f[k])
  BY <1>2, <1>3, WithObjects
<1> HIDE DEF f
<1>6. QED
  BY <1>1, <1>4, <1>5, MemoryObj

LEMMA GoRefresh ==
  ASSUME TypeInv, NEW p \in Procs, RefreshMembers(p)
  PROVE  GoesOn(p)
<1> DEFINE s == Step(p)
           dn == proc[p].obj[s.key].dn
           r == WithObject(proc[p], s.key, Loaded(dn))
<1>1. /\ MemoryOK(p, proc[p]) /\ proc[p].state = "running" /\ proc[p].todo # <<>> /\ DirOK
      /\ s.op = "refresh"
  BY AtWork DEF RefreshMembers
<1>2. s.key \in DOMAIN proc[p].obj
  <2>1. HeadOK(proc[p])
    BY HasMemory
  <2>2. QED
    BY <1>1, <2>1 DEF HeadOK, Step
<1>3. \/ Becomes(p, Rest(proc[p], <<>>))
      \/ dn \in DOMAIN dir /\ Becomes(p, Rest(r, Skipping(p, 0)))
      \/ Fail(p)
  BY DEF RefreshMembers
<1>4. CASE Becomes(p, Rest(proc[p], <<>>))
  BY <1>1, <1>4, NoSteps, StepTo
<1>5. CASE dn \in DOMAIN dir /\ Becomes(p, Rest(r, Skipping(p, 0)))
  <2>1. IsObject(s.key, Loaded(dn))
    <3>1. IsEntry(dir[dn])
      BY <1>1, <1>5 DEF DirOK
    <3>2. IsObject(s.key, proc[p].obj[s.key])
      BY <1>1, <1>2 DEF MemoryOK
    <3>3. Loaded(dn).dn = dn /\ Loaded(dn).num = dir[dn].num /\ Loaded(dn).set = dir[dn].set
      BY DEF Loaded
    <3>4. KeyOf(dn) = SubSeq(s.key, 1, 3)
      BY <3>2 DEF IsObject
    <3> HIDE DEF dn, s
    <3>5. QED
      BY <3>1, <3>3, <3>4 DEF IsEntry, IsObject
  <2>2. /\ MemoryOK(p, r) /\ r.state = proc[p].state /\ DOMAIN r.obj = {s.key} \cup DOMAIN proc[p].obj
    BY <1>1, <2>1, WithOne
  <2> HIDE DEF r
  <2>3. DOMAIN proc[p].obj \subseteq DOMAIN r.obj /\ r.state = "running" /\ Step(p).op # "find"
    BY <1>1, <2>2
  <2>4. QED
    BY <1>1, <1>5, <2>2, <2>3, SkipOver
<1>6. CASE Fail(p)
  BY <1>6, TypeFail
<1>7. QED
  BY <1>3, <1>4, <1>5, <1>6

LEMMA FindTo ==
  ASSUME TypeInv, NEW p \in Procs, At(p, "find"),
         NEW r, MemoryOK(p, r), r.state = "running", DOMAIN proc[p].obj \subseteq DOMAIN r.obj,
         NEW n, \/ n = Step(p).miss /\ Matching(Step(p).key) = {}
                \/ n = Step(p).hit /\ Step(p).key \in DOMAIN r.obj,
         Becomes(p, Rest(r, Skipping(p, n)))
  PROVE  GoesOn(p)
<1> DEFINE t == proc[p].todo
           u == After(t, n)
<1>1. /\ t # <<>> /\ MayDo(p, Step(p), DOMAIN proc[p].obj) /\ Step(p).op = "find" /\ Step(p) = t[1]
      /\ IsSeq(t) /\ Planned(p, t, DOMAIN proc[p].obj) /\ Shaped(t)
  BY AtWork, HasMemory DEF TypeInv, ProcOK
<1>2. n \in Nat
  BY <1>1 DEF MayDo
<1>3. u = Skipping(p, n)
  BY DEF Skipping, After
<1>4. Planned(p, u, DOMAIN r.obj) /\ Shaped(u)
  <2> HIDE DEF t
  <2>1. Planned(p, u, DOMAIN proc[p].obj) /\ Shaped(u)
    BY <1>1, <1>2, PlannedAfter, ShapedAfter
  <2> HIDE DEF u
  <2>2. QED
    BY <2>1, PlannedMore
<1>5. u # <<>> /\ Special(Head(u)) => n = 0 /\ Guards(t[1], Head(u))
  <2> HIDE DEF t
  <2>1. t[1].op = "find" /\ n \in {t[1].miss, t[1].hit}
    BY <1>1
  <2>2. QED
    BY <1>1, <1>2, <2>1, SpecialIsNext
<1> HIDE DEF u
<1>6. u # <<>> /\ Head(u).op = "refresh" => Head(u).key \in DOMAIN r.obj
  BY <1>1, <1>5 DEF Special, Guards, Stop
<1>7. ProcOK(p, Rest(r, u))
  BY <1>4, <1>6, RestOK
<1>8. Rest(r, u).state = "running" /\ Rest(r, u).todo = u
  <2>1. IsProc(r)
    BY DEF MemoryOK
  <2>2. Rest(r, u).state = r.state
    BY <2>1 DEF Rest, IsProc, Fields
  <2>3. Rest(r, u).todo = u
    BY <2>1 DEF Rest, IsProc, Fields
  <2>4. QED
    BY <2>2, <2>3
<1>9. u # <<>> /\ Head(u).op = "add" /\ Head(u).key[1] \in Counted => Matching(Head(u).key) = {}
  BY <1>1, <1>5 DEF Special, Guards, Stop
<1>10. NoneIsNext(Rest(r, u))
  BY <1>8, <1>9 DEF NoneIsNext
<1>11. Becomes(p, Rest(r, u))
  BY <1>3
<1>12. QED
  BY <1>7, <1>8, <1>10, <1>11 DEF GoesOn

(* An account that is not broken has a balance.                            *)
LEMMA BalanceIs ==
  ASSUME DirOK, NEW key, key[1] = "account", Matching(key) # {}, ~Broken(key)
  PROVE  IsObject(Balance(key[2]), Loaded(Dn(Balance(key[2]), None)))
<1>1. PICK dn \in Matching(key) : TRUE
  OBVIOUS
<1>2. /\ dn \in DOMAIN dir /\ IsKey(key) /\ dn[1] = key[1] /\ dn[3] = key[3]
  BY <1>1, MatchIs
<1>3. key[3] = None
  BY <1>2 DEF DirOK, Named
<1>4. key = Account(key[2])
  BY <1>2, <1>3 DEF IsKey, Account
<1>5. ~Half(key[2]) \/ Matching(Account(key[2])) = {}
  BY DEF Broken
<1>6. Matching(Balance(key[2])) # {}
  BY <1>4, <1>5 DEF Half
<1>7. Balance(key[2])[1] \in Named
  BY DEF Balance, Named
<1>8. Dn(Balance(key[2]), None) \in Matching(Balance(key[2]))
  BY <1>6, <1>7, NamedIs
<1>9. QED
  BY <1>8, MatchIs

LEMMA GoFind ==
  ASSUME TypeInv, NEW p \in Procs, FindObject(p)
  PROVE  GoesOn(p)
<1> DEFINE s == Step(p)
           r == proc[p]
<1>1. MemoryOK(p, r) /\ r.state = "running" /\ r.todo # <<>> /\ DirOK /\ At(p, "find")
  BY AtWork DEF FindObject
<1>2. \/ Cached(p, s.key) /\ Becomes(p, Rest(r, Skipping(p, s.hit)))
      \/ ~Cached(p, s.key) /\ Matching(s.key) = {} /\ Becomes(p, Rest(r, Skipping(p, s.miss)))
      \/ Fail(p)
      \/ /\ ~Cached(p, s.key) /\ ~Broken(s.key)
         /\ \E dn \in Matching(s.key) :
              LET found == WithObject(r, s.key, Loaded(dn))
              IN Becomes(p, Rest(IF s.key[1] # "account" THEN found
                                 ELSE WithObject(found, Balance(s.key[2]), Loaded(Dn(Balance(s.key[2]), None))),
                                 Skipping(p, s.hit)))
  BY DEF FindObject
<1>3. CASE Cached(p, s.key) /\ Becomes(p, Rest(r, Skipping(p, s.hit)))
  <2>1. s.key \in DOMAIN r.obj
    BY <1>3 DEF Cached
  <2>2. DOMAIN proc[p].obj \subseteq DOMAIN r.obj
    OBVIOUS
  <2>3. Becomes(p, Rest(proc[p], Skipping(p, Step(p).hit))) /\ Step(p).key \in DOMAIN proc[p].obj
    BY <1>3, <2>1
  <2>4. QED
    BY <1>1, <2>3, FindTo
<1>4. CASE Matching(s.key) = {} /\ Becomes(p, Rest(r, Skipping(p, s.miss)))
  <2>1. Becomes(p, Rest(proc[p], Skipping(p, Step(p).miss))) /\ Matching(Step(p).key) = {}
    BY <1>4
  <2>2. QED
    BY <1>1, <2>1, FindTo
<1>5. ASSUME NEW dn \in Matching(s.key), ~Broken(s.key),
             LET found == WithObject(r, s.key, Loaded(dn))
             IN Becomes(p, Rest(IF s.key[1] # "account" THEN found
                                ELSE WithObject(found, Balance(s.key[2]), Loaded(Dn(Balance(s.key[2]), None))),
                                Skipping(p, s.hit)))
      PROVE  GoesOn(p)
  <2> DEFINE found == WithObject(r, s.key, Loaded(dn))
             both == WithObject(found, Balance(s.key[2]), Loaded(Dn(Balance(s.key[2]), None)))
  <2>1. IsObject(s.key, Loaded(dn))
    BY <1>1, MatchIs
  <2>2. MemoryOK(p, found) /\ found.state = "running" /\ DOMAIN found.obj = {s.key} \cup DOMAIN r.obj
    <3>1. MemoryOK(p, proc[p]) /\ proc[p].state = "running"
      BY <1>1
    <3>2. QED
      BY <2>1, <3>1, WithOne
  <2>3. CASE s.key[1] # "account"
    <3>1. Becomes(p, Rest(found, Skipping(p, Step(p).hit)))
      BY <1>5, <2>3
    <3> HIDE DEF found
    <3>2. Step(p).key \in DOMAIN found.obj /\ DOMAIN proc[p].obj \subseteq DOMAIN found.obj
      BY <2>2
    <3>3. QED
      BY <1>1, <2>2, <3>1, <3>2, FindTo
  <2>4. CASE s.key[1] = "account"
    <3>1. Becomes(p, Rest(both, Skipping(p, Step(p).hit)))
      BY <1>5, <2>4
    <3>2. IsObject(Balance(s.key[2]), Loaded(Dn(Balance(s.key[2]), None)))
      BY <1>1, <1>5, <2>4, BalanceIs
    <3> HIDE DEF found
    <3>3. MemoryOK(p, both) /\ both.state = "running" /\ DOMAIN both.obj = {Balance(s.key[2])} \cup DOMAIN found.obj
      BY <2>2, <3>2, WithOne
    <3> HIDE DEF both
    <3>4. Step(p).key \in DOMAIN both.obj /\ DOMAIN proc[p].obj \subseteq DOMAIN both.obj
      BY <2>2, <3>3
    <3>5. QED
      BY <1>1, <3>1, <3>3, <3>4, FindTo
  <2>5. QED
    BY <2>3, <2>4
<1>6. CASE Fail(p)
  BY <1>6, TypeFail
<1>7. QED
  BY <1>2, <1>3, <1>4, <1>5, <1>6

LEMMA GoSearch ==
  ASSUME TypeInv, NEW p \in Procs, SearchNext(p)
  PROVE  GoesOn(p) /\ Unchanged /\ Running(p)
<1>1. CASE FindObject(p)
  BY <1>1, GoFind DEF FindObject, At
<1>2. CASE RefreshMembers(p)
  BY <1>2, GoRefresh DEF RefreshMembers, At
<1>3. CASE CollectEntries(p)
  BY <1>3, GoCollect DEF CollectEntries, At
<1>4. CASE GatherJobs(p)
  BY <1>4, GoGatherJobs DEF GatherJobs, At
<1>5. CASE GatherQuotas(p)
  BY <1>5, GoGatherQuotas DEF GatherQuotas, At
<1>6. CASE CheckLast(p)
  BY <1>6, GoCheckLast DEF CheckLast, At
<1>7. CASE Purge(p)
  BY <1>7, GoPurge DEF Purge, At
<1>8. CASE DeleteOwnLast(p)
  BY <1>8, GoDeleteOwnLast DEF DeleteOwnLast, At
<1>9. CASE LeaveGroups(p)
  BY <1>9, GoLeaveGroups DEF LeaveGroups, At
<1>10. CASE LookAtLast(p)
  BY <1>10, GoLookAtLast DEF LookAtLast, At
<1>11. CASE LookAtParents(p)
  BY <1>11, GoLookAtParents DEF LookAtParents, At
<1>12. CASE WriteJobNew(p)
  BY <1>12, GoWriteJobNew DEF WriteJobNew, At
<1>13. CASE ListRefunds(p)
  BY <1>13, GoListRefunds DEF ListRefunds, At
<1>14. CASE MatchingCodes(p)
  BY <1>14, GoMatchingCodes DEF MatchingCodes, At
<1>15. CASE ExtractNames(p)
  BY <1>15, GoExtractNames DEF ExtractNames, At
<1>16. CASE ShowObject(p)
  BY <1>16, GoShowObject DEF ShowObject, At
<1>17. CASE ExtractHistory(p)
  BY <1>17, GoExtractHistory DEF ExtractHistory, At
<1>18. QED
  BY <1>1, <1>2, <1>3, <1>4, <1>5, <1>6, <1>7, <1>8, <1>9, <1>10, <1>11, <1>12, <1>13, <1>14, <1>15,
     <1>16, <1>17 DEF SearchNext

-----------------------------------------------------------------------------
(* Requests that change the directory.                                     *)

(* The name an addition is about is new with every process.                *)
LEMMA AddedIs ==
  ASSUME TypeInv, NEW p \in Procs, At(p, "add")
  PROVE  /\ Target(p) = Dn(Step(p).key, p) /\ IsDn(Target(p)) /\ KeyOf(Target(p)) = Step(p).key
         /\ IsKey(Step(p).key) /\ SubSeq(Step(p).key, 1, 3) = Step(p).key
         /\ Target(p)[1] = Step(p).key[1] /\ Target(p)[3] = Step(p).key[3]
         /\ Target(p)[4] = IF Step(p).key[1] \in Named THEN None ELSE p
         /\ MayDo(p, Step(p), DOMAIN proc[p].obj)
<1>1. MayDo(p, Step(p), DOMAIN proc[p].obj) /\ Step(p).op = "add"
  BY AtWork
<1>2. Target(p) = Dn(Step(p).key, p)
  BY <1>1 DEF Target, NewId
<1>3. IsKey(Step(p).key)
  BY <1>1 DEF MayDo
<1>4. QED
  BY <1>1, <1>2, <1>3, DnIs

(* The name a modification is about, once its value is known.              *)
LEMMA ModifiedIs ==
  ASSUME TypeInv, NEW p \in Procs, At(p, "modify"), proc[p].old # <<>>
  PROVE  /\ ChangeOK(Step(p), proc[p].new[1]) /\ Step(p).key \in DOMAIN proc[p].obj
         /\ Target(p) = proc[p].obj[Step(p).key].dn
         /\ MayDo(p, Step(p), DOMAIN proc[p].obj)
         /\ IsKey(Step(p).key) => KeyOf(Target(p)) = Step(p).key
<1>1. MayDo(p, Step(p), DOMAIN proc[p].obj) /\ Step(p).op = "modify" /\ proc[p].todo # <<>> /\ MemoryOK(p, proc[p])
  BY AtWork
<1>2. proc[p].new # <<>> /\ HeadOK(proc[p])
  BY HasMemory DEF TypeInv, ProcOK
<1>3. ChangeOK(Step(p), proc[p].new[1]) /\ Step(p).key \in DOMAIN proc[p].obj
  BY <1>2 DEF HeadOK, Step
<1>4. Target(p) = proc[p].obj[Step(p).key].dn
  BY <1>1, <1>3 DEF Target
<1>5. IsObject(Step(p).key, proc[p].obj[Step(p).key])
  BY <1>1, <1>3 DEF MemoryOK
<1>6. IsKey(Step(p).key) => SubSeq(Step(p).key, 1, 3) = Step(p).key
  BY DnIs
<1>7. QED
  BY <1>1, <1>3, <1>4, <1>5, <1>6 DEF IsObject

LEMMA GoReadOld ==
  ASSUME TypeInv, NEW p \in Procs, ReadOld(p)
  PROVE  GoesOn(p)
<1> DEFINE s == Step(p)
           old == dir[Target(p)][s.field]
           r == [proc[p] EXCEPT !.old = <<old>>, !.new = <<ComputedOnce(p, old)>>]
<1>1. /\ MemoryOK(p, proc[p]) /\ proc[p].state = "running" /\ proc[p].todo # <<>> /\ DirOK
      /\ MayDo(p, s, DOMAIN proc[p].obj) /\ s.op = "modify"
  BY AtWork DEF ReadOld
<1>2. \/ Becomes(p, Rest(proc[p], Skipping(p, 0)))
      \/ Fail(p)
      \/ Target(p) \in DOMAIN dir /\ Becomes(p, r)
  BY DEF ReadOld
<1>3. CASE Becomes(p, Rest(proc[p], Skipping(p, 0)))
  <2>1. Step(p).op # "find" /\ DOMAIN proc[p].obj \subseteq DOMAIN proc[p].obj
    BY <1>1
  <2>2. QED
    BY <1>1, <1>3, <2>1, SkipOver
<1>4. CASE Fail(p)
  BY <1>4, TypeFail
<1>5. CASE Target(p) \in DOMAIN dir /\ Becomes(p, r)
  <2>1. IsDn(Target(p)) /\ IsEntry(dir[Target(p)])
    BY <1>1, <1>5 DEF DirOK
  <2>2. s.key \in DOMAIN proc[p].obj
    <3>1. SUFFICES ASSUME s.key \notin DOMAIN proc[p].obj PROVE FALSE
      OBVIOUS
    <3>2. Target(p) = s.key /\ IsKey(s.key)
      BY <1>1, <3>1 DEF Target, MayDo
    <3>3. QED
      BY <2>1, <3>2 DEF IsKey, IsDn
  <2>3. IsObject(s.key, proc[p].obj[s.key])
    BY <1>1, <2>2 DEF MemoryOK
  <2>4. ProcOK(p, proc[p])
    BY DEF TypeInv
  <2> DEFINE v == ComputedOnce(p, old)
  <2>5. ChangeOK(s, v)
    <3>1. CASE proc[p].new # <<>>
      <4>1. v = proc[p].new[1]
        BY <3>1 DEF ComputedOnce
      <4>2. ChangeOK(Head(proc[p].todo), proc[p].new[1])
        BY <2>4, <3>1 DEF ProcOK, HeadOK
      <4>3. QED
        BY <4>1, <4>2 DEF Step
    <3>2. CASE proc[p].new = <<>>
      <4>1. v = NewValue(p, old)
        BY <3>2 DEF ComputedOnce
      <4>2. CASE s.field = "num"
        <5>1. old \in Int /\ proc[p].obj[s.key].num \in Int /\ s.by \in Int
          BY <1>1, <2>1, <2>3, <4>2 DEF IsEntry, IsObject, MayDo
        <5>2. v = (IF s.how = "add" THEN old ELSE proc[p].obj[s.key].num) + s.by
          BY <4>1, <4>2 DEF NewValue
        <5> HIDE DEF v, old
        <5>3. v \in Int
          BY <5>1, <5>2
        <5>4. QED
          BY <1>1, <4>2, <5>3 DEF ChangeOK
      <4>3. CASE s.field = "set"
        <5>1. IsFiniteSet(proc[p].obj[s.key].set) /\ IsFiniteSet(s.put)
          BY <1>1, <2>3, <4>3 DEF IsObject, MayDo
        <5>2. v = (proc[p].obj[s.key].set \cup s.put) \ s.drop
          BY <4>1, <4>3 DEF NewValue
        <5> HIDE DEF v, old
        <5>3. IsFiniteSet(proc[p].obj[s.key].set \cup s.put)
          BY <5>1, FS_Union
        <5>4. IsFiniteSet(v)
          BY <5>2, <5>3, FS_Subset
        <5>5. QED
          BY <1>1, <4>3, <5>4 DEF ChangeOK
      <4>4. CASE s.field = "ref"
        <5>1. v = s.ref
          BY <4>1, <4>4 DEF NewValue
        <5> HIDE DEF v
        <5>2. QED
          BY <1>1, <4>4, <5>1 DEF ChangeOK
      <4>5. QED
        BY <1>1, <4>2, <4>3, <4>4 DEF MayDo
    <3>3. QED
      BY <3>1, <3>2
  <2> HIDE DEF v, old
  <2>6. /\ DOMAIN r = Fields /\ r.state = "running" /\ r.old = <<old>> /\ r.new = <<v>>
        /\ r.todo = proc[p].todo /\ r.obj = proc[p].obj
        /\ r.bin = proc[p].bin /\ r.last = proc[p].last /\ r.made = proc[p].made /\ r.tries = proc[p].tries
    BY <1>1, <2>4 DEF ProcOK, IsProc, Fields, v
  <2>7. <<v>> # <<>> /\ <<v>>[1] = v
    OBVIOUS
  <2>8. Becomes(p, r)
    BY <1>5 DEF v
  <2> HIDE DEF r
  <2>9. HeadOK(r)
    BY <1>1, <2>2, <2>5, <2>6, <2>7 DEF HeadOK, Step
  <2>10. ProcOK(p, r)
    BY <2>4, <2>6, <2>7, <2>9 DEF ProcOK, IsProc
  <2>11. NoneIsNext(r)
    BY <1>1, <2>6 DEF NoneIsNext, Step
  <2>12. QED
    BY <2>6, <2>8, <2>10, <2>11 DEF GoesOn
<1>6. QED
  BY <1>2, <1>3, <1>4, <1>5

LEMMA EntryBut ==
  ASSUME NEW e, IsEntry(e), NEW f, NEW v,
         \/ f = "num" /\ v \in Int
         \/ f = "set" /\ IsFiniteSet(v)
         \/ f = "ref"
  PROVE  IsEntry([e EXCEPT ![f] = v]) /\ [e EXCEPT ![f] = v].ref = IF f = "ref" THEN v ELSE e.ref
BY DEF IsEntry

(* A request that is served keeps the directory one.                       *)
LEMMA DirAdd ==
  ASSUME TypeInv, NEW p \in Procs, Served(p), At(p, "add")
  PROVE  DirOK' /\ DOMAIN dir' = DOMAIN dir \cup {Target(p)} /\ Target(p) \notin DOMAIN dir
<1> DEFINE s == Step(p)
           dn == Target(p)
           e == Entry(s.num, {}, s.ref)
           g == [x \in {dn} |-> e]
           b == [x \in {dn} |-> [num |-> s.num, set |-> {}]]
<1>1. /\ IsDn(dn) /\ KeyOf(dn) = s.key /\ dn[1] = s.key[1] /\ dn[3] = s.key[3]
      /\ (s.key[1] \in Named => dn[4] = None) /\ MayDo(p, s, DOMAIN proc[p].obj)
  BY AddedIs
<1>2. s.op = "add" /\ DirOK
  BY DEF At, TypeInv
<1>3. dir' = With(g, dir) /\ ledger' = With(b, ledger) /\ dn \notin DOMAIN dir
  BY <1>2 DEF Served, Accepted
<1>4. DOMAIN dir' = {dn} \cup DOMAIN dir /\ DOMAIN ledger' = {dn} \cup DOMAIN ledger
  BY <1>3 DEF With
<1>5. IsFiniteSet({dn} \cup DOMAIN dir)
  BY <1>2, FS_AddElement DEF DirOK
<1>6. dir'[dn] = e
  BY <1>3 DEF With
<1>7. \A x \in DOMAIN dir : dir'[x] = dir[x]
  BY <1>3 DEF With
<1>8. e.num \in Int /\ e.set = {} /\ e.ref = s.ref /\ DOMAIN e = {"num", "set", "ref"}
  BY <1>1, <1>2 DEF MayDo, Entry
<1> HIDE DEF e, g, b, dn, s
<1>9. IsEntry(e)
  BY <1>8, FS_EmptySet DEF IsEntry
<1>10. dn[1] = "last" => KeyOf(e.ref) = History(dn[3])
  BY <1>1, <1>2, <1>8 DEF MayDo
<1>11. dn[1] \in Named => dn[3] = None /\ dn[4] = None
  BY <1>1, <1>2 DEF MayDo
<1>12. \A x \in DOMAIN dir' :
         /\ IsDn(x) /\ (x[1] \in Named => x[3] = None /\ x[4] = None)
         /\ IsEntry(dir'[x]) /\ (x[1] = "last" => KeyOf(dir'[x].ref) = History(x[3]))
  <2>1. ASSUME NEW x \in DOMAIN dir'
        PROVE  /\ IsDn(x) /\ (x[1] \in Named => x[3] = None /\ x[4] = None)
               /\ IsEntry(dir'[x]) /\ (x[1] = "last" => KeyOf(dir'[x].ref) = History(x[3]))
    <3>1. CASE x = dn
      BY <1>1, <1>6, <1>9, <1>10, <1>11, <3>1
    <3>2. CASE x \in DOMAIN dir
      BY <1>2, <1>7, <3>2 DEF DirOK
    <3>3. QED
      BY <1>4, <3>1, <3>2
  <2>2. QED
    BY <2>1
<1>13. DOMAIN ledger' = DOMAIN dir' /\ IsFiniteSet(DOMAIN dir')
  BY <1>2, <1>4, <1>5 DEF DirOK
<1>14. DirOK'
  BY <1>12, <1>13 DEF DirOK, IsDn, IsEntry, KeyOf, History
<1>15. QED
  BY <1>3, <1>4, <1>14 DEF dn

LEMMA DirDelete ==
  ASSUME TypeInv, NEW p \in Procs, Served(p), At(p, "delete")
  PROVE  DirOK' /\ DOMAIN dir' \subseteq DOMAIN dir
<1> DEFINE D == DOMAIN dir \ {Target(p)}
<1>1. DirOK /\ Step(p).op = "delete"
  BY DEF At, TypeInv
<1>2. DOMAIN ledger = DOMAIN dir
  BY <1>1 DEF DirOK
<1>3. dir' = Restrict(dir, D) /\ ledger' = Restrict(ledger, D)
  BY <1>1, <1>2 DEF Served
<1>4. DOMAIN dir' = D /\ DOMAIN ledger' = D /\ \A x \in D : dir'[x] = dir[x]
  BY <1>3 DEF Restrict
<1>5. IsFiniteSet(D) /\ D \subseteq DOMAIN dir
  BY <1>1, FS_Subset DEF DirOK
<1> HIDE DEF D
<1>6. \A x \in DOMAIN dir' :
        /\ IsDn(x) /\ (x[1] \in Named => x[3] = None /\ x[4] = None)
        /\ IsEntry(dir'[x]) /\ (x[1] = "last" => KeyOf(dir'[x].ref) = History(x[3]))
  BY <1>1, <1>4, <1>5 DEF DirOK
<1>7. DirOK'
  BY <1>4, <1>5, <1>6 DEF DirOK, IsDn, IsEntry, KeyOf, History
<1>8. QED
  BY <1>4, <1>5, <1>7

LEMMA DirModify ==
  ASSUME TypeInv, NEW p \in Procs, Served(p), At(p, "modify"), proc[p].old # <<>>
  PROVE  DirOK' /\ DOMAIN dir' = DOMAIN dir
<1> DEFINE s == Step(p)
           dn == Target(p)
           v == Modified(p, dir[dn][s.field])
<1>1. DirOK /\ s.op = "modify"
  BY DEF At, TypeInv
<1>2. /\ ChangeOK(s, proc[p].new[1]) /\ s.key \in DOMAIN proc[p].obj /\ MayDo(p, s, DOMAIN proc[p].obj)
      /\ IsKey(s.key) => KeyOf(dn) = s.key
  BY ModifiedIs
<1>3. /\ dir' = IF NoChange(p) THEN dir
                ELSE IF Replaces(p) THEN [dir EXCEPT ![dn] = Entry(0, {}, s.ref)]
                ELSE [dir EXCEPT ![dn][s.field] = v]
      /\ ledger' = Booked(p) /\ (dn \in DOMAIN dir \/ NoChange(p))
  BY <1>1 DEF Served, Accepted
<1>4. DOMAIN ledger' = DOMAIN ledger /\ DOMAIN ledger = DOMAIN dir
  <2>1. DOMAIN ledger' = DOMAIN ledger
    BY <1>3 DEF Booked
  <2>2. QED
    BY <1>1, <2>1 DEF DirOK
<1>5. CASE NoChange(p)
  <2>1. dir' = dir
    BY <1>3, <1>5
  <2>2. QED
    BY <1>1, <1>4, <2>1 DEF DirOK
<1>6. CASE ~NoChange(p)
  <2>1. dn \in DOMAIN dir
    BY <1>3, <1>6
  <2>2. IsDn(dn) /\ IsEntry(dir[dn]) /\ (dn[1] = "last" => KeyOf(dir[dn].ref) = History(dn[3]))
    BY <1>1, <2>1 DEF DirOK
  <2>3. /\ DOMAIN dir' = DOMAIN dir /\ (\A x \in DOMAIN dir : x # dn => dir'[x] = dir[x])
        /\ IsEntry(dir'[dn]) /\ (dn[1] = "last" => KeyOf(dir'[dn].ref) = History(dn[3]))
    <3>1. CASE Replaces(p)
      <4> DEFINE e == Entry(0, {}, s.ref)
      <4>1. dir' = [dir EXCEPT ![dn] = e]
        BY <1>3, <1>6, <3>1
      <4>2. IsEntry(e)
        BY FS_EmptySet DEF IsEntry, Entry
      <4>3. dn[1] = "job"
        BY <3>1 DEF Replaces
      <4> HIDE DEF e, dn
      <4>4. DOMAIN dir' = DOMAIN dir /\ dir'[dn] = e /\ \A x \in DOMAIN dir : x # dn => dir'[x] = dir[x]
        BY <2>1, <4>1
      <4>5. QED
        BY <4>2, <4>3, <4>4
    <3>2. CASE ~Replaces(p)
      <4> DEFINE e == [dir[dn] EXCEPT ![s.field] = v]
      <4>1. dir' = [dir EXCEPT ![dn][s.field] = v]
        BY <1>3, <1>6, <3>2
      <4>2. \/ s.field = "num" /\ v \in Int
            \/ s.field = "set" /\ IsFiniteSet(v)
            \/ s.field = "ref" /\ v = s.ref
        <5>1. CASE s.field = "num"
          <6>1. v = proc[p].new[1]
            BY <5>1 DEF Modified
          <6>2. QED
            BY <1>2, <5>1, <6>1 DEF ChangeOK
        <5>2. CASE s.field = "set"
          <6>1. IsFiniteSet(proc[p].new[1]) /\ IsFiniteSet(dir[dn].set)
            BY <1>2, <2>2, <5>2 DEF ChangeOK, IsEntry
          <6>2. IsFiniteSet(dir[dn].set \cup proc[p].new[1])
            BY <6>1, FS_Union
          <6>3. v = dir[dn].set \cup proc[p].new[1] \/ v = proc[p].new[1]
            BY <5>2 DEF Modified
          <6> HIDE DEF v, dn
          <6>4. QED
            BY <5>2, <6>1, <6>2, <6>3
        <5>3. CASE s.field = "ref"
          <6>1. v = proc[p].new[1]
            BY <5>3 DEF Modified
          <6>2. QED
            BY <1>2, <5>3, <6>1 DEF ChangeOK
        <5>4. QED
          BY <1>1, <1>2, <5>1, <5>2, <5>3 DEF MayDo
      <4>3. s.field = "ref" /\ dn[1] = "last" => KeyOf(s.ref) = History(dn[3])
        <5>1. SUFFICES ASSUME s.field = "ref", dn[1] = "last" PROVE KeyOf(s.ref) = History(dn[3])
          OBVIOUS
        <5>2. KeyOf(dn) = s.key
          BY <1>1, <1>2, <5>1 DEF MayDo
        <5>3. s.key = <<dn[1], dn[2], dn[3]>>
          BY <2>2, <5>2, KeyIs
        <5>4. s.key[1] = dn[1] /\ s.key[3] = dn[3]
          BY <5>3
        <5>5. QED
          BY <1>1, <1>2, <5>1, <5>4 DEF MayDo
      <4> HIDE DEF v, dn
      <4>4. IsEntry(e) /\ e.ref = IF s.field = "ref" THEN v ELSE dir[dn].ref
        <5> DEFINE x == dir[dn]
                   y == s.field
        <5>1. IsEntry(x)
          BY <2>2
        <5>2. \/ y = "num" /\ v \in Int
              \/ y = "set" /\ IsFiniteSet(v)
              \/ y = "ref"
          BY <4>2
        <5> HIDE DEF x, y
        <5>3. IsEntry([x EXCEPT ![y] = v])
          BY <5>1, <5>2, EntryBut
        <5>4. [x EXCEPT ![y] = v].ref = IF y = "ref" THEN v ELSE x.ref
          BY <5>1, <5>2, EntryBut
        <5>5. QED
          BY <5>3, <5>4 DEF x, y
      <4>5. DOMAIN dir' = DOMAIN dir /\ dir'[dn] = e /\ \A x \in DOMAIN dir : x # dn => dir'[x] = dir[x]
        BY <2>1, <4>1
      <4> HIDE DEF e
      <4>6. dn[1] = "last" => KeyOf(e.ref) = History(dn[3])
        <5>1. CASE s.field = "ref"
          BY <4>2, <4>3, <4>4, <5>1
        <5>2. CASE s.field # "ref"
          BY <2>2, <4>4, <5>2
        <5>3. QED
          BY <5>1, <5>2
      <4>7. QED
        BY <4>4, <4>5, <4>6
    <3>3. QED
      BY <3>1, <3>2
  <2> HIDE DEF dn, v
  <2>4. \A x \in DOMAIN dir' :
          /\ IsDn(x) /\ (x[1] \in Named => x[3] = None /\ x[4] = None)
          /\ IsEntry(dir'[x]) /\ (x[1] = "last" => KeyOf(dir'[x].ref) = History(x[3]))
    <3>1. ASSUME NEW x \in DOMAIN dir'
          PROVE  /\ IsDn(x) /\ (x[1] \in Named => x[3] = None /\ x[4] = None)
                 /\ IsEntry(dir'[x]) /\ (x[1] = "last" => KeyOf(dir'[x].ref) = History(x[3]))
      <4>1. x \in DOMAIN dir
        BY <2>3
      <4>2. CASE x = dn
        BY <1>1, <2>3, <4>1, <4>2 DEF DirOK
      <4>3. CASE x # dn
        BY <1>1, <2>3, <4>1, <4>3 DEF DirOK
      <4>4. QED
        BY <4>2, <4>3
    <3>2. QED
      BY <3>1
  <2>5. IsFiniteSet(DOMAIN dir') /\ DOMAIN ledger' = DOMAIN dir'
    BY <1>1, <1>4, <2>3 DEF DirOK
  <2>6. DirOK'
    BY <2>4, <2>5 DEF DirOK, IsDn, IsEntry, KeyOf, History
  <2>7. QED
    BY <2>3, <2>6
<1>7. QED
  BY <1>5, <1>6

-----------------------------------------------------------------------------
(* Trying again.                                                           *)

(* A process that is refused or tries again is at the same step, or over.  *)
Stays(p) == \E r : /\ Becomes(p, r) /\ ProcOK(p, r) /\ r.todo = proc[p].todo
                   /\ r.state \in {"running", "failed"}

LEMMA FailStays ==
  ASSUME TypeInv, NEW p \in Procs, Fail(p)
  PROVE  Stays(p)
<1> DEFINE r == [proc[p] EXCEPT !.state = "failed", !.old = <<>>]
<1>1. ProcOK(p, proc[p])
  BY DEF TypeInv
<1>2. /\ DOMAIN r = Fields /\ r.state = "failed" /\ r.old = <<>> /\ r.todo = proc[p].todo /\ r.obj = proc[p].obj
      /\ r.bin = proc[p].bin /\ r.last = proc[p].last /\ r.new = proc[p].new /\ r.made = proc[p].made
      /\ r.tries = proc[p].tries
  BY <1>1 DEF ProcOK, IsProc, Fields
<1>3. Becomes(p, r)
  BY DEF Fail
<1> HIDE DEF r
<1>4. HeadOK(r)
  BY <1>1, <1>2 DEF ProcOK, HeadOK
<1>5. ProcOK(p, r)
  BY <1>1, <1>2, <1>4 DEF ProcOK, IsProc, Over
<1>6. QED
  BY <1>2, <1>3, <1>5 DEF Stays

LEMMA AgainStays ==
  ASSUME TypeInv, NEW p \in Procs, Running(p), NEW made \in BOOLEAN, Again(p, made)
  PROVE  Stays(p)
<1>1. CASE ~MayTryAgain(p)
  BY <1>1, FailStays DEF Again
<1>2. CASE MayTryAgain(p)
  <2> DEFINE r == [proc[p] EXCEPT !.tries = IF @ < 3 THEN @ + 1 ELSE @, !.old = <<>>, !.made = @ \/ made]
             m == proc[p].made \/ made
             n == proc[p].tries + 1
  <2>1. ProcOK(p, proc[p]) /\ proc[p].state = "running"
    BY DEF TypeInv, Running
  <2>2. Becomes(p, r)
    BY <1>2 DEF Again
  <2>3. m \in BOOLEAN
    OBVIOUS
  <2>4. proc[p].tries \in 0 .. 2 /\ proc[p].tries < 2
    BY <1>2, <2>1 DEF ProcOK, MayTryAgain
  <2>5. n \in 0 .. 2 /\ proc[p].tries < 3
    BY <2>4
  <2>6. r = [proc[p] EXCEPT !.tries = n, !.old = <<>>, !.made = m]
    BY <2>5
  <2> HIDE DEF r, m, n
  <2>7. /\ DOMAIN r = Fields /\ r.state = proc[p].state /\ r.old = <<>> /\ r.todo = proc[p].todo
        /\ r.obj = proc[p].obj /\ r.bin = proc[p].bin /\ r.last = proc[p].last /\ r.new = proc[p].new
        /\ r.made = m /\ r.tries = n
    BY <2>1, <2>6 DEF ProcOK, IsProc, Fields
  <2>8. HeadOK(r)
    BY <2>1, <2>7 DEF ProcOK, HeadOK
  <2>9. r.tries \in 0 .. 2 /\ r.made \in BOOLEAN /\ r.state \in {"ready", "running"} \cup Over
    BY <2>1, <2>3, <2>5, <2>7, Zenon DEF ProcOK
  <2>10. ProcOK(p, r)
    BY <2>1, <2>7, <2>8, <2>9 DEF ProcOK, IsProc
  <2>11. QED
    BY <2>1, <2>2, <2>7, <2>10 DEF Stays
<1>3. QED
  BY <1>1, <1>2

LEMMA TryAgainStays ==
  ASSUME TypeInv, NEW p \in Procs, Running(p), NEW made \in BOOLEAN, TryAgain(p, made)
  PROVE  Stays(p)
BY AgainStays, FailStays DEF TryAgain

(* A request that was answered.                                            *)
LEMMA RequestIs ==
  ASSUME TypeInv, NEW p \in Procs, Request(p)
  PROVE  \E r : /\ Becomes(p, r) /\ ProcOK(p, r) /\ r.state = "running"
                /\ r.todo # <<>> => ~Special(Head(r.todo))
<1> DEFINE s == Step(p)
           k == Kept(p)
           t == Skipping(p, 0)
<1>1. /\ MemoryOK(p, proc[p]) /\ proc[p].state = "running" /\ proc[p].todo # <<>> /\ s.op # "find"
  BY AtWork DEF Request, Ready
<1>2. Becomes(p, Rest(k, t))
  BY DEF Request
<1>3. MemoryOK(p, k) /\ k.state = "running" /\ DOMAIN proc[p].obj \subseteq DOMAIN k.obj
  <2>1. CASE s.op # "add"
    BY <1>1, <2>1 DEF Kept
  <2>2. CASE s.op = "add"
    <3> DEFINE o == [dn |-> Target(p), num |-> s.num, set |-> {}]
    <3>1. KeyOf(Target(p)) = s.key /\ SubSeq(s.key, 1, 3) = s.key /\ MayDo(p, s, DOMAIN proc[p].obj)
      BY <1>1, <2>2, AddedIs DEF At, Running
    <3>2. s.num \in Int
      BY <2>2, <3>1 DEF MayDo
    <3>3. IsObject(s.key, o)
      BY <3>1, <3>2, FS_EmptySet DEF IsObject
    <3>4. k = WithObject(proc[p], s.key, o)
      BY <2>2 DEF Kept
    <3> HIDE DEF o, k
    <3>5. MemoryOK(p, k) /\ k.state = proc[p].state /\ DOMAIN k.obj = {s.key} \cup DOMAIN proc[p].obj
      BY <1>1, <3>3, <3>4, WithOne
    <3>6. QED
      BY <1>1, <3>5
  <2>3. QED
    BY <2>1, <2>2
<1> HIDE DEF k
<1>4. Planned(p, t, DOMAIN k.obj) /\ Routine(t)
  BY <1>1, <1>3, LeftIsRoutine
<1> HIDE DEF t
<1>5. IsSeq(t)
  BY <1>4 DEF Planned, IsSeq
<1>6. t # <<>> => ~Special(Head(t))
  <2>1. t # <<>> => Len(t) >= 1 /\ Head(t) = t[1] /\ Len(t) \in Nat
    BY <1>5, RangeIs
  <2>2. QED
    BY <1>4, <2>1 DEF Routine
<1>7. ProcOK(p, Rest(k, t))
  <2>1. Shaped(t)
    BY <1>4, <1>5, RoutineIsShaped
  <2>2. t # <<>> => Head(t).op # "refresh"
    BY <1>6 DEF Special
  <2>3. QED
    BY <1>3, <1>4, <2>1, <2>2, RestOK
<1>8. Rest(k, t).state = "running"
  BY <1>3 DEF MemoryOK, Rest, IsProc, Fields
<1>9. Rest(k, t).todo = t
  BY <1>3 DEF MemoryOK, Rest, IsProc, Fields
<1>10. QED
  BY <1>2, <1>6, <1>7, <1>8, <1>9

-----------------------------------------------------------------------------
(* What the commands plan at their start.                                  *)

(* What a command looks up before anything else.                           *)
Lookups(t, n) == IsSeq(t) /\ Len(t) = n /\ \A i \in 1 .. n : Passed(t[i])

LEMMA NeedsIs ==
  ASSUME NEW p, NEW D, NEW n \in Nat, NEW keys, DOMAIN keys = 1 .. n
  PROVE  /\ Planned(p, Needs(keys), D) /\ Routine(Needs(keys)) /\ Lookups(Needs(keys), n)
         /\ \A i \in 1 .. n : Needs(keys)[i] = Find(keys[i], Stop, 0)
<1> DEFINE t == Needs(keys)
<1>1. t = [i \in 1 .. n |-> t[i]] /\ \A i \in 1 .. n : t[i] = Find(keys[i], Stop, 0)
  BY DEF Needs
<1> HIDE DEF t
<1>2. \A i \in 1 .. n : MayDo(p, t[i], D) /\ ~Special(t[i])
  <2>1. Stop \in Nat /\ 0 \in Nat
    BY DEF Stop
  <2>2. \A k : MayDo(p, Find(k, Stop, 0), D) /\ ~Special(Find(k, Stop, 0))
    BY <2>1, StepsMayBe
  <2>3. QED
    BY <1>1, <2>2
<1>3. Planned(p, t, D) /\ Routine(t)
  BY <1>1, <1>2, ListPlanned
<1>4. IsSeq(t) /\ Len(t) = n
  BY <1>1, ListIsSeq
<1>5. \A i \in 1 .. n : Passed(t[i])
  BY <1>1 DEF Passed, Find
<1>6. QED
  BY <1>1, <1>3, <1>4, <1>5 DEF t, Lookups

(* Lookups before a special step keep its place.                           *)
LEMMA ShapedBefore ==
  ASSUME NEW n \in Nat, NEW t, Lookups(t, n), NEW u, IsSeq(u), Shaped(u), n + Len(u) <= Stop,
         u # <<>> /\ Special(u[1]) => n >= 1 /\ Guards(t[n], u[1])
  PROVE  Shaped(t \o u)
<1> DEFINE w == t \o u
<1>1. /\ IsSeq(w) /\ Len(w) = n + Len(u)
      /\ \A i \in 1 .. n + Len(u) : w[i] = IF i <= n THEN t[i] ELSE u[i - n]
  BY BothAre DEF Lookups
<1>2. Len(u) \in Nat /\ \A i \in 1 .. n : Passed(t[i])
  BY RangeIs DEF Lookups
<1>3. u # <<>> <=> Len(u) >= 1
  BY RangeIs
<1> HIDE DEF w
<1>4. ASSUME NEW i \in 2 .. Len(w), Special(w[i])
      PROVE  Len(w) <= Stop /\ Guards(w[i - 1], w[i]) /\ \A j \in 1 .. i - 2 : Passed(w[j])
  <2>1. i > n
    <3>1. i <= n => i \in 1 .. n /\ w[i] = t[i]
      BY <1>1, <1>2
    <3>2. i <= n => ~Special(w[i])
      BY <1>2, <3>1 DEF Passed, Special
    <3>3. QED
      BY <1>1, <1>2, <1>4, <3>2
  <2>2. i - n \in 1 .. Len(u) /\ w[i] = u[i - n]
    BY <1>1, <1>2, <2>1
  <2>3. CASE i = n + 1
    <3>1. i - n = 1 /\ i - 1 = n /\ n \in 1 .. n + Len(u) /\ w[i - 1] = t[n]
      BY <1>1, <1>2, <2>3
    <3>2. \A j \in 1 .. i - 2 : j \in 1 .. n /\ w[j] = t[j]
      BY <1>1, <1>2, <2>3
    <3>3. Guards(t[n], u[1])
      BY <1>2, <1>3, <1>4, <2>2, <3>1
    <3>4. QED
      BY <1>1, <1>2, <2>2, <3>1, <3>2, <3>3
  <2>4. CASE i # n + 1
    <3>1. i - n \in 2 .. Len(u) /\ i - 1 \in 1 .. n + Len(u) /\ w[i - 1] = u[(i - n) - 1]
      <4>1. i - n \in 2 .. Len(u) /\ i - 1 \in 1 .. n + Len(u) /\ ~(i - 1 <= n) /\ (i - 1) - n = (i - n) - 1
        BY <1>1, <1>2, <2>1, <2>2, <2>4
      <4>2. QED
        BY <1>1, <4>1
    <3>2. Guards(u[(i - n) - 1], u[i - n]) /\ \A j \in 1 .. (i - n) - 2 : Passed(u[j])
      BY <1>4, <2>2, <3>1 DEF Shaped
    <3>3. ASSUME NEW j \in 1 .. i - 2 PROVE Passed(w[j])
      <4>1. j \in 1 .. n + Len(u)
        BY <1>2, <3>1
      <4>2. CASE j <= n
        BY <1>1, <1>2, <4>1, <4>2
      <4>3. CASE ~(j <= n)
        <5>1. j - n \in 1 .. (i - n) - 2
          BY <1>2, <4>3
        <5>2. QED
          BY <1>1, <3>2, <4>1, <4>3, <5>1
      <4>4. QED
        BY <4>2, <4>3
    <3>4. QED
      BY <1>1, <2>2, <3>1, <3>2, <3>3
  <2>5. QED
    BY <2>3, <2>4
<1>5. QED
  BY <1>4 DEF Shaped, w

(* Steps that are not special after it do no harm.                         *)
LEMMA ShapedThen ==
  ASSUME NEW t, IsSeq(t), Shaped(t), NEW u, IsSeq(u), Routine(u), Len(t) + Len(u) <= Stop
  PROVE  Shaped(t \o u)
<1> DEFINE w == t \o u
<1>1. /\ IsSeq(w) /\ Len(w) = Len(t) + Len(u)
      /\ \A i \in 1 .. Len(t) + Len(u) : w[i] = IF i <= Len(t) THEN t[i] ELSE u[i - Len(t)]
  BY BothAre
<1>2. Len(t) \in Nat /\ Len(u) \in Nat
  BY RangeIs
<1> HIDE DEF w
<1>3. ASSUME NEW i \in 2 .. Len(w), Special(w[i])
      PROVE  Len(w) <= Stop /\ Guards(w[i - 1], w[i]) /\ \A j \in 1 .. i - 2 : Passed(w[j])
  <2>1. i <= Len(t)
    <3>1. SUFFICES ASSUME ~(i <= Len(t)) PROVE FALSE
      OBVIOUS
    <3>2. i - Len(t) \in 1 .. Len(u) /\ w[i] = u[i - Len(t)]
      BY <1>1, <1>2, <3>1
    <3>3. QED
      BY <1>3, <3>2 DEF Routine
  <2>2. i \in 2 .. Len(t) /\ w[i] = t[i] /\ w[i - 1] = t[i - 1] /\ \A j \in 1 .. i - 2 : w[j] = t[j]
    BY <1>1, <1>2, <2>1
  <2>3. Guards(t[i - 1], t[i]) /\ \A j \in 1 .. i - 2 : Passed(t[j])
    BY <1>3, <2>2 DEF Shaped
  <2>4. QED
    BY <1>1, <2>2, <2>3
<1>4. QED
  BY <1>3 DEF Shaped, w

(* What a command may start with.                                          *)
Starts(p, t) == Planned(p, t, {}) /\ Shaped(t) /\ (t # <<>> => ~Special(Head(t)))

LEMMA RoutineStarts ==
  ASSUME NEW p, NEW t, Planned(p, t, {}), Routine(t)
  PROVE  Starts(p, t)
<1>1. IsSeq(t)
  BY DEF Planned, IsSeq
<1>2. Shaped(t)
  BY <1>1, RoutineIsShaped
<1>3. t # <<>> => Len(t) >= 1 /\ Head(t) = t[1] /\ Len(t) \in Nat
  BY <1>1, RangeIs
<1>4. QED
  BY <1>2, <1>3 DEF Starts, Routine

(* Lookups, and what comes after them.                                     *)
LEMMA LookupsStart ==
  ASSUME NEW p, NEW n \in Nat, n >= 1, NEW t, Lookups(t, n), Planned(p, t, {}),
         NEW u, Planned(p, u, {}), Shaped(u), n + Len(u) <= Stop,
         u # <<>> /\ Special(u[1]) => Guards(t[n], u[1])
  PROVE  Starts(p, t \o u) /\ Len(t \o u) = n + Len(u)
<1>1. IsSeq(t) /\ IsSeq(u) /\ Len(t) = n /\ Len(u) \in Nat /\ Passed(t[1])
  BY RangeIs DEF Planned, IsSeq, Lookups
<1>2. Planned(p, t \o u, {})
  BY PlannedBoth
<1>3. Shaped(t \o u)
  BY <1>1, ShapedBefore
<1>4. IsSeq(t \o u) /\ Len(t \o u) = n + Len(u) /\ (t \o u)[1] = t[1]
  BY <1>1, BothAre
<1>5. Head(t \o u) = t[1]
  BY <1>4
<1>6. ~Special(t[1])
  BY <1>1 DEF Passed, Special
<1>7. QED
  BY <1>2, <1>3, <1>4, <1>5, <1>6 DEF Starts

(* A search, what is added when it finds nothing, and the rest.            *)
LEMMA FindAndAdd ==
  ASSUME NEW p, NEW f, NEW a, MayDo(p, f, {}), ~Special(f), MayDo(p, a, {}), Guards(f, a), a.op = "add"
  PROVE  Starts(p, <<f, a>>) /\ Len(<<f, a>>) = 2
<1> DEFINE t == <<f, a>>
           S == {f, a}
<1>1. t \in Seq(S) /\ Len(t) = 2 /\ t[1] = f /\ t[2] = a /\ Head(t) = f
  OBVIOUS
<1>2. \A s \in S : MayDo(p, s, {})
  OBVIOUS
<1> HIDE DEF t, S
<1>3. Planned(p, t, {})
  BY <1>1, <1>2, PlannedBy
<1>4. Shaped(t)
  <2>1. \A i \in 2 .. Len(t) : i = 2 /\ i - 1 = 1 /\ \A j \in 1 .. i - 2 : FALSE
    BY <1>1
  <2>2. Len(t) <= Stop
    BY <1>1 DEF Stop
  <2>3. QED
    BY <1>1, <2>1, <2>2 DEF Shaped
<1>5. QED
  BY <1>1, <1>3, <1>4 DEF Starts, t

LEMMA NeedsThen ==
  ASSUME NEW p, NEW n \in Nat, NEW keys, DOMAIN keys = 1 .. n,
         NEW u, Planned(p, u, {}), Routine(u)
  PROVE  Starts(p, Needs(keys) \o u)
<1> DEFINE t == Needs(keys)
<1>1. Planned(p, t, {}) /\ Routine(t)
  BY NeedsIs
<1> HIDE DEF t
<1>2. Planned(p, t \o u, {}) /\ Routine(t \o u)
  BY <1>1, BothPlanned
<1>3. Starts(p, t \o u)
  BY <1>2, RoutineStarts
<1>4. QED
  BY <1>3 DEF t

LEMMA ThreeSteps ==
  ASSUME NEW p, NEW D, NEW a, NEW b, NEW c, MayDo(p, a, D), ~Special(a), MayDo(p, b, D), ~Special(b),
         MayDo(p, c, D), ~Special(c)
  PROVE  Planned(p, <<a, b, c>>, D) /\ Routine(<<a, b, c>>)
<1> DEFINE S == {a, b, c}
           t == <<a, b, c>>
<1>1. t \in Seq(S)
  OBVIOUS
<1>2. \A s \in S : MayDo(p, s, D) /\ ~Special(s)
  OBVIOUS
<1> HIDE DEF t, S
<1>3. Planned(p, t, D) /\ Routine(t)
  BY <1>1, <1>2, StepsOf
<1>4. QED
  BY <1>3 DEF t

(* The commands on users.                                                  *)
LEMMA UserScripts ==
  ASSUME NEW p, NEW u, NEW n \in Int
  PROVE  /\ Saves(p) => (cmd[p].do = "adduser" => Starts(p, AddUser(u, n, p))) /\ Starts(p, SaveUser(u, n, p))
         /\ cmd[p].do = "deluser" => Starts(p, DeleteUser(u))
<1> DEFINE pay == WriteNewPayment(u, p)
           find == Find(Account(u), 0, Stop)
           link == Link(Account(u), None)
           save == Save(Balance(u), n)
<1>1. /\ IsKey(Account(u)) /\ IsKey(Balance(u)) /\ Account(u)[1] = "account" /\ Account(u)[3] = None
      /\ Balance(u)[1] \in {"account", "balance"} /\ Balance(u)[3] = None
  BY KeysAreKeys DEF Account, Balance
<1>2. (Saves(p) => MayDo(p, pay, {})) /\ ~Special(pay)
  BY <1>1, ChangesMayBe DEF WriteNewPayment
<1>3. MayDo(p, find, {}) /\ ~Special(find)
  BY StepsMayBe DEF Stop
<1>4. MayDo(p, link, {}) /\ ~Special(link)
  BY <1>1, ChangesMayBe
<1>5. (Saves(p) => MayDo(p, save, {})) /\ ~Special(save)
  BY <1>1, ChangesMayBe
<1>6. ASSUME Saves(p), cmd[p].do = "adduser" PROVE Starts(p, AddUser(u, n, p))
  <2> DEFINE a == Add(Account(u), 0, None)
             b == Add(Balance(u), n, None)
             c == Add(Account(u), n, None)
             new == NewAccount(u, n)
  <2>1. \A k \in {Account(u), Balance(u)} : k[1] \notin Counted /\ k[1] # "last"
    BY <1>1 DEF Counted
  <2>2. \A k \in {Account(u), Balance(u)} : \A m \in Int :
          MayDo(p, Add(k, m, None), {}) /\ ~Special(Add(k, m, None))
    <3>1. \A k \in {Account(u), Balance(u)} : IsKey(k) /\ k[3] = None
      BY <1>1
    <3>2. QED
      BY <1>6, <2>1, <3>1, AddMayBe
  <2>3. 0 \in Int
    OBVIOUS
  <2>4. /\ MayDo(p, a, {}) /\ ~Special(a) /\ MayDo(p, b, {}) /\ ~Special(b)
        /\ MayDo(p, c, {}) /\ ~Special(c)
    BY <2>2, <2>3
  <2>5. new = <<a, b>> \/ new = <<c>>
    BY DEF NewAccount
  <2>6. AddUser(u, n, p) = <<find>> \o new \o <<pay>>
    BY DEF AddUser
  <2> HIDE DEF a, b, c, new, find, pay
  <2>7. Planned(p, new, {}) /\ Routine(new)
    <3>1. Planned(p, <<a, b>>, {}) /\ Routine(<<a, b>>) /\ Planned(p, <<c>>, {}) /\ Routine(<<c>>)
      BY <2>4, TwoSteps, OneStep
    <3>2. QED
      BY <2>5, <3>1
  <2>8. Planned(p, <<find>>, {}) /\ Routine(<<find>>) /\ Planned(p, <<pay>>, {}) /\ Routine(<<pay>>)
    BY <1>2, <1>3, <1>6, OneStep
  <2> DEFINE x == <<find>>
             y == <<pay>>
  <2> HIDE DEF x, y
  <2>9. Planned(p, x \o new, {}) /\ Routine(x \o new) /\ Planned(p, y, {}) /\ Routine(y)
    <3>1. Planned(p, x, {}) /\ Routine(x) /\ Planned(p, y, {}) /\ Routine(y)
      BY <2>8 DEF x, y
    <3>2. QED
      BY <2>7, <3>1, BothPlanned
  <2>10. Planned(p, (x \o new) \o y, {}) /\ Routine((x \o new) \o y)
    BY <2>9, BothPlanned
  <2>11. AddUser(u, n, p) = (x \o new) \o y
    BY <2>6 DEF x, y
  <2>12. QED
    BY <2>10, <2>11, RoutineStarts
<1>7. ASSUME Saves(p) PROVE Starts(p, SaveUser(u, n, p))
  <2> DEFINE t == <<pay, link, save>>
  <2>1. SaveUser(u, n, p) = Needs(<<Account(u)>>) \o t
    BY DEF SaveUser, Matches
  <2> HIDE DEF pay, link, save
  <2>2. Planned(p, t, {}) /\ Routine(t)
    BY <1>2, <1>4, <1>5, <1>7, ThreeSteps
  <2>3. DOMAIN <<Account(u)>> = 1 .. 1 /\ 1 \in Nat
    OBVIOUS
  <2> HIDE DEF t
  <2>4. QED
    BY <2>1, <2>2, <2>3, NeedsThen
<1>8. ASSUME cmd[p].do = "deluser" PROVE Starts(p, DeleteUser(u))
  <2> DEFINE a == Ask("jobs", u, Anyone)
             b == Ask("quotas", u, Anyone)
             c == Ask("purge", u, Anyone)
             d == Delete(Account(u))
             e == Collect("balance", u, Anyone)
             x == <<a, b, c>>
             y == <<d, e>>
             k == Needs(<<Account(u)>>)
  <2>1. DeleteUser(u) = (k \o x) \o y
    BY DEF DeleteUser, Matches, DeleteAccount
  <2>2. /\ MayDo(p, a, {}) /\ ~Special(a) /\ MayDo(p, b, {}) /\ ~Special(b)
        /\ MayDo(p, c, {}) /\ ~Special(c)
    BY <1>8, StepsMayBe
  <2>3. MayDo(p, d, {}) /\ ~Special(d) /\ MayDo(p, e, {}) /\ ~Special(e)
    BY <1>8, StepsMayBe
  <2> HIDE DEF a, b, c, d, e
  <2>4. Planned(p, x, {}) /\ Routine(x)
    BY <2>2, ThreeSteps
  <2>5. Planned(p, y, {}) /\ Routine(y)
    BY <2>3, TwoSteps
  <2>6. Planned(p, k, {}) /\ Routine(k)
    <3>1. DOMAIN <<Account(u)>> = 1 .. 1 /\ 1 \in Nat
      OBVIOUS
    <3>2. QED
      BY <3>1, NeedsIs
  <2> HIDE DEF x, y, k
  <2>7. Planned(p, k \o x, {}) /\ Routine(k \o x)
    BY <2>4, <2>6, BothPlanned
  <2>8. Planned(p, (k \o x) \o y, {}) /\ Routine((k \o x) \o y)
    BY <2>5, <2>7, BothPlanned
  <2>9. QED
    BY <2>1, <2>8, RoutineStarts
<1>9. QED
  BY <1>6, <1>7, <1>8

(* The commands on quota entries.                                          *)
LEMMA QuotaScripts ==
  ASSUME NEW p, NEW u, NEW pr, NEW n \in Int
  PROVE  /\ (Saves(p) => Starts(p, SaveUserPQuota(u, pr, n))) /\ (u # None => Starts(p, DeleteUserPQuota(u, pr)))
         /\ cmd[p].do = "addquota" /\ cmd[p].user = u /\ cmd[p].printer = pr => Starts(p, AddUserPQuota(u, pr))
<1> DEFINE keys == <<Printer(pr), Account(u), Quota(u, pr)>>
           q == Quota(u, pr)
<1>1. IsKey(q) /\ q[1] = "quota"
  BY KeysAreKeys DEF Quota
<1>2. DOMAIN keys = 1 .. 3 /\ 3 \in Nat
  OBVIOUS
<1>3. ASSUME Saves(p) PROVE Starts(p, SaveUserPQuota(u, pr, n))
  <2> DEFINE s == Save(q, n)
             t == <<s>>
  <2>1. SaveUserPQuota(u, pr, n) = Needs(keys) \o t
    BY DEF SaveUserPQuota, QuotaEntry
  <2>2. MayDo(p, s, {}) /\ ~Special(s)
    BY <1>1, <1>3, ChangesMayBe
  <2> HIDE DEF s, keys
  <2>3. Planned(p, t, {}) /\ Routine(t)
    BY <2>2, OneStep
  <2> HIDE DEF t
  <2>4. QED
    BY <1>2, <2>1, <2>3, NeedsThen
<1>4. ASSUME u # None PROVE Starts(p, DeleteUserPQuota(u, pr))
  <2> DEFINE a == Collect("job", u, pr)
             b == Ask("own", u, pr)
             c == Delete(q)
             t == <<a, b, c>>
  <2>1. DeleteUserPQuota(u, pr) = Needs(keys) \o t
    BY DEF DeleteUserPQuota, QuotaEntry
  <2>2. /\ MayDo(p, a, {}) /\ ~Special(a) /\ MayDo(p, b, {}) /\ ~Special(b)
        /\ MayDo(p, c, {}) /\ ~Special(c)
    <3>1. "job" \notin Halves /\ q[1] \notin Halves
      BY <1>1 DEF Halves
    <3> HIDE DEF q
    <3>2. QED
      BY <1>4, <3>1, StepsMayBe
  <2> HIDE DEF a, b, c, keys
  <2>3. Planned(p, t, {}) /\ Routine(t)
    BY <2>2, ThreeSteps
  <2> HIDE DEF t
  <2>4. QED
    BY <1>2, <2>1, <2>3, NeedsThen
<1>5. ASSUME cmd[p].do = "addquota", cmd[p].user = u, cmd[p].printer = pr
      PROVE  Starts(p, AddUserPQuota(u, pr))
  <2> DEFINE f == Find(q, 0, Stop)
             a == Add(q, 0, None)
             k == <<Printer(pr), Account(u)>>
  <2>1. AddUserPQuota(u, pr) = Needs(k) \o <<f, a>>
    BY DEF AddUserPQuota, Matches
  <2>2. MayDo(p, f, {}) /\ ~Special(f)
    BY StepsMayBe DEF Stop
  <2>3. MayDo(p, a, {})
    <3>1. Adds(p, q)
      BY <1>1, <1>5 DEF Adds
    <3>2. q[1] \in Counted /\ q[1] \notin Named /\ q[1] # "last" /\ 0 \in Int /\ q[1] \notin Halves
      BY <1>1 DEF Counted, Named, Halves
    <3> HIDE DEF q
    <3>3. QED
      BY <1>1, <3>1, <3>2, AddMayBe
  <2>4. Guards(f, a) /\ a.op = "add"
    BY DEF Guards, Find, Add, Stop
  <2>5. DOMAIN k = 1 .. 2 /\ 2 \in Nat
    OBVIOUS
  <2> HIDE DEF f, a, k, q
  <2>6. Starts(p, <<f, a>>) /\ Len(<<f, a>>) = 2
    BY <2>2, <2>3, <2>4, FindAndAdd
  <2> DEFINE t == <<f, a>>
  <2>7. t[1] = f
    OBVIOUS
  <2>8. Starts(p, t) /\ Len(t) = 2
    BY <2>6
  <2> HIDE DEF t
  <2>9. Planned(p, Needs(k), {}) /\ Lookups(Needs(k), 2)
    BY <2>5, NeedsIs
  <2>10. Starts(p, Needs(k) \o t)
    <3>1. Planned(p, t, {}) /\ Shaped(t) /\ ~Special(t[1])
      BY <2>2, <2>7, <2>8 DEF Starts
    <3>2. 2 + Len(t) <= Stop /\ 2 >= 1
      BY <2>8 DEF Stop
    <3>3. QED
      BY <2>5, <2>9, <3>1, <3>2, LookupsStart
  <2>11. QED
    BY <2>1, <2>10 DEF t
<1>6. QED
  BY <1>3, <1>4, <1>5

(* The commands on printers.                                               *)
LEMMA AddStarts ==
  ASSUME NEW p, NEW k, IsKey(k), k[1] \in Named \/ k[1] \in Counted, k[1] \in Named => k[3] = None,
         k[1] \in Counted => Adds(p, k), k[1] \notin Halves
  PROVE  Starts(p, <<Find(k, 0, Stop), Add(k, 0, None)>>)
<1> DEFINE f == Find(k, 0, Stop)
           a == Add(k, 0, None)
<1>1. MayDo(p, f, {}) /\ ~Special(f)
  BY StepsMayBe DEF Stop
<1>2. k[1] # "last" /\ 0 \in Int
  BY DEF Named, Counted
<1>3. MayDo(p, a, {})
  BY <1>2, AddMayBe
<1>4. Guards(f, a) /\ a.op = "add"
  BY DEF Guards, Find, Add, Stop
<1> HIDE DEF f, a
<1>5. Starts(p, <<f, a>>)
  BY <1>1, <1>3, <1>4, FindAndAdd
<1>6. QED
  BY <1>5 DEF f, a

LEMMA PrinterScripts ==
  ASSUME NEW p, NEW pr, NEW g
  PROVE  /\ Starts(p, AddPrinter(pr))
         /\ Saves(p) => /\ Starts(p, DeletePrinter(pr)) /\ Starts(p, WritePrinterToGroup(pr, g))
                        /\ Starts(p, RemovePrinterFromGroup(pr, g))
<1>1. \A x : IsKey(Printer(x)) /\ Printer(x)[1] = "printer" /\ Printer(x)[3] = None
  BY KeysAreKeys DEF Printer
<1>2. "printer" \in Named /\ "printer" \notin Counted /\ "printer" \notin Halves
  BY DEF Named, Counted, Halves
<1>3. Starts(p, AddPrinter(pr))
  BY <1>1, <1>2, AddStarts DEF AddPrinter
<1> DEFINE keys == <<Printer(pr), Printer(g)>>
           put == Rewrite(Printer(g), {pr}, {})
           drop == Rewrite(Printer(g), {}, {pr})
<1>4. DOMAIN keys = 1 .. 2 /\ 2 \in Nat
  OBVIOUS
<1>5. (Saves(p) => MayDo(p, put, {})) /\ ~Special(put)
  BY <1>1, ChangesMayBe
<1>6. (Saves(p) => MayDo(p, drop, {})) /\ ~Special(drop)
  BY <1>1, ChangesMayBe
<1>7. WritePrinterToGroup(pr, g) = Needs(keys) \o <<put>> /\ RemovePrinterFromGroup(pr, g) = Needs(keys) \o <<drop>>
  BY DEF WritePrinterToGroup, RemovePrinterFromGroup, Matches
<1>8. ASSUME Saves(p)
      PROVE  Starts(p, WritePrinterToGroup(pr, g)) /\ Starts(p, RemovePrinterFromGroup(pr, g))
  <2> DEFINE t == <<put>>
             u == <<drop>>
  <2> HIDE DEF put, drop, keys
  <2>1. Planned(p, t, {}) /\ Routine(t) /\ Planned(p, u, {}) /\ Routine(u)
    BY <1>5, <1>6, <1>8, OneStep
  <2>2. WritePrinterToGroup(pr, g) = Needs(keys) \o t /\ RemovePrinterFromGroup(pr, g) = Needs(keys) \o u
    BY <1>7
  <2> HIDE DEF t, u
  <2>3. Starts(p, Needs(keys) \o t) /\ Starts(p, Needs(keys) \o u)
    BY <1>4, <2>1, NeedsThen
  <2>4. QED
    BY <2>2, <2>3
<1>9. ASSUME Saves(p) PROVE Starts(p, DeletePrinter(pr))
  <2> DEFINE k == <<Printer(pr)>>
             c == [i \in 1 .. 4 |-> Collect(<<"last", "job", "gquota", "quota">>[i], Anyone, pr)]
             a == Ask("leave", None, pr)
             d == Delete(Printer(pr))
             t == <<a, d>>
  <2>1. DeletePrinter(pr) = (Needs(k) \o c) \o t
    BY DEF DeletePrinter, Matches
  <2>2. MayDo(p, a, {}) /\ ~Special(a) /\ MayDo(p, d, {}) /\ ~Special(d)
    <3>1. Printer(pr)[1] \notin Halves
      BY DEF Printer, Halves
    <3>2. QED
      BY <1>9, <3>1, StepsMayBe
  <2>3. Planned(p, c, {}) /\ Routine(c)
    <3>1. c = [i \in 1 .. 4 |-> c[i]] /\ 4 \in Nat
      OBVIOUS
    <3>2. \A i \in 1 .. 4 : MayDo(p, c[i], {}) /\ ~Special(c[i])
      <4>1. \A x : x \notin Halves => MayDo(p, Collect(x, Anyone, pr), {}) /\ ~Special(Collect(x, Anyone, pr))
        BY StepsMayBe
      <4>4. \A i \in 1 .. 4 : <<"last", "job", "gquota", "quota">>[i] \notin Halves
        BY DEF Halves
      <4>2. \A i \in 1 .. 4 : c[i] = Collect(<<"last", "job", "gquota", "quota">>[i], Anyone, pr)
        OBVIOUS
      <4> HIDE DEF c
      <4>3. QED
        BY <4>1, <4>2, <4>4
    <3> HIDE DEF c
    <3>3. QED
      BY <3>1, <3>2, ListPlanned
  <2>4. DOMAIN k = 1 .. 1 /\ 1 \in Nat
    OBVIOUS
  <2> HIDE DEF a, d, c, k
  <2>5. Planned(p, t, {}) /\ Routine(t)
    BY <2>2, TwoSteps
  <2>6. Planned(p, Needs(k), {}) /\ Routine(Needs(k))
    BY <2>4, NeedsIs
  <2> HIDE DEF t
  <2>7. Planned(p, Needs(k) \o c, {}) /\ Routine(Needs(k) \o c)
    BY <2>3, <2>6, BothPlanned
  <2>8. Planned(p, (Needs(k) \o c) \o t, {}) /\ Routine((Needs(k) \o c) \o t)
    BY <2>5, <2>7, BothPlanned
  <2>9. QED
    BY <2>1, <2>8, RoutineStarts
<1>10. QED
  BY <1>3, <1>8, <1>9

(* The commands on groups.                                                 *)
LEMMA GroupScripts ==
  ASSUME NEW p, NEW g, NEW pr, NEW n \in Int
  PROVE  /\ Starts(p, AddGroup(g)) /\ Starts(p, DeleteGroup(g))
         /\ Saves(p) => Starts(p, SaveGroupPQuota(g, pr, n))
         /\ cmd[p].do = "addgquota" /\ cmd[p].group = g /\ cmd[p].printer = pr => Starts(p, AddGroupPQuota(g, pr))
<1> DEFINE q == GQuota(g, pr)
<1>1. IsKey(q) /\ q[1] = "gquota" /\ IsKey(Group(g)) /\ Group(g)[1] = "group" /\ Group(g)[3] = None
  BY KeysAreKeys DEF GQuota, Group
<1>2. /\ "group" \in Named /\ "group" \notin Counted /\ "gquota" \in Counted /\ "gquota" \notin Named
      /\ "group" \notin Halves /\ "gquota" \notin Halves
  BY DEF Named, Counted, Halves
<1>3. Starts(p, AddGroup(g))
  BY <1>1, <1>2, AddStarts DEF AddGroup
<1>4. Starts(p, DeleteGroup(g))
  <2> DEFINE a == Collect("gquota", g, Anyone)
             b == Delete(Group(g))
             t == <<a, b>>
             k == <<Group(g)>>
  <2>1. DeleteGroup(g) = Needs(k) \o t
    BY DEF DeleteGroup, Matches
  <2>2. MayDo(p, a, {}) /\ ~Special(a) /\ MayDo(p, b, {}) /\ ~Special(b)
    <3>1. "gquota" \notin Halves /\ Group(g)[1] \notin Halves
      BY DEF Group, Halves
    <3>2. QED
      BY <3>1, StepsMayBe
  <2>3. DOMAIN k = 1 .. 1 /\ 1 \in Nat
    OBVIOUS
  <2> HIDE DEF a, b, k
  <2>4. Planned(p, t, {}) /\ Routine(t)
    BY <2>2, TwoSteps
  <2> HIDE DEF t
  <2>5. QED
    BY <2>1, <2>3, <2>4, NeedsThen
<1>5. ASSUME Saves(p) PROVE Starts(p, SaveGroupPQuota(g, pr, n))
  <2> DEFINE s == Save(q, n)
             t == <<s>>
             k == <<Printer(pr), Group(g), q>>
  <2>1. SaveGroupPQuota(g, pr, n) = Needs(k) \o t
    BY DEF SaveGroupPQuota, Matches
  <2>2. MayDo(p, s, {}) /\ ~Special(s)
    BY <1>1, <1>5, ChangesMayBe
  <2>3. DOMAIN k = 1 .. 3 /\ 3 \in Nat
    OBVIOUS
  <2> HIDE DEF s, k
  <2>4. Planned(p, t, {}) /\ Routine(t)
    BY <2>2, OneStep
  <2> HIDE DEF t
  <2>5. QED
    BY <2>1, <2>3, <2>4, NeedsThen
<1>6. ASSUME cmd[p].do = "addgquota", cmd[p].group = g, cmd[p].printer = pr
      PROVE  Starts(p, AddGroupPQuota(g, pr))
  <2> DEFINE t == <<Find(q, 0, Stop), Add(q, 0, None)>>
             k == <<Printer(pr), Group(g)>>
  <2>1. AddGroupPQuota(g, pr) = Needs(k) \o t
    BY DEF AddGroupPQuota, Matches
  <2>2. Adds(p, q)
    BY <1>1, <1>6 DEF Adds
  <2>3. Starts(p, t)
    <3> HIDE DEF q
    <3>1. QED
      BY <1>1, <1>2, <2>2, AddStarts
  <2>4. Len(t) = 2 /\ t[1] = Find(q, 0, Stop)
    OBVIOUS
  <2>5. ~Special(t[1]) /\ 2 + Len(t) <= Stop
    BY <2>4 DEF Special, Find, Stop
  <2>6. DOMAIN k = 1 .. 2 /\ 2 \in Nat /\ 2 >= 1
    OBVIOUS
  <2> HIDE DEF k, t
  <2>7. Planned(p, Needs(k), {}) /\ Lookups(Needs(k), 2)
    BY <2>6, NeedsIs
  <2>8. Planned(p, t, {}) /\ Shaped(t)
    BY <2>3 DEF Starts
  <2>9. QED
    BY <2>1, <2>5, <2>6, <2>7, <2>8, LookupsStart
<1>7. QED
  BY <1>3, <1>4, <1>5, <1>6

(* The commands on the members of a group, who are looked at again.        *)
LEMMA MemberScripts ==
  ASSUME NEW p, NEW u, NEW g, Saves(p)
  PROVE  Starts(p, AddUserToGroup(u, g)) /\ Starts(p, DelUserFromGroup(u, g))
<1> DEFINE k == <<Account(u), Group(g)>>
<1>1. IsKey(Group(g))
  BY KeysAreKeys
<1>2. ASSUME NEW stop, NEW w, MayDo(p, w, {}), ~Special(w)
      PROVE  Starts(p, Needs(k) \o <<Refresh(Group(g), u, stop), w>>)
  <2> DEFINE r == Refresh(Group(g), u, stop)
             t == <<r, w>>
             S == {r, w}
  <2>1. t \in Seq(S) /\ Len(t) = 2 /\ t[1] = r /\ t[2] = w
    OBVIOUS
  <2>2. MayDo(p, r, {})
    BY DEF MayDo, Reliant, Refresh
  <2>3. \A s \in S : MayDo(p, s, {})
    BY <1>2, <2>2
  <2>4. DOMAIN k = 1 .. 2 /\ k[2] = Group(g) /\ 2 \in Nat /\ 2 >= 1 /\ 2 \in 1 .. 2
    OBVIOUS
  <2>5. r.op = "refresh" /\ r.key = Group(g)
    BY DEF Refresh
  <2> HIDE DEF r, S, t, k
  <2>6. Planned(p, t, {})
    BY <2>1, <2>3, PlannedBy
  <2>7. Shaped(t)
    <3>1. \A i \in 2 .. Len(t) : i = 2
      BY <2>1
    <3>2. QED
      BY <1>2, <2>1, <3>1 DEF Shaped
  <2>8. Planned(p, Needs(k), {}) /\ Lookups(Needs(k), 2) /\ Needs(k)[2] = Find(Group(g), Stop, 0)
    <3>1. Planned(p, Needs(k), {}) /\ Lookups(Needs(k), 2)
      BY <2>4, NeedsIs
    <3>2. \A i \in 1 .. 2 : Needs(k)[i] = Find(k[i], Stop, 0)
      BY <2>4, NeedsIs
    <3>3. QED
      BY <2>4, <3>1, <3>2
  <2>9. Guards(Needs(k)[2], t[1])
    BY <2>1, <2>5, <2>8 DEF Guards, Find
  <2>10. 2 + Len(t) <= Stop
    BY <2>1 DEF Stop
  <2>11. Starts(p, Needs(k) \o t)
    BY <2>4, <2>6, <2>7, <2>8, <2>9, <2>10, LookupsStart
  <2>12. QED
    BY <2>11 DEF t, r
<1>3. Starts(p, AddUserToGroup(u, g))
  <2> DEFINE w == Rewrite(Group(g), {u}, {})
  <2>1. MayDo(p, w, {}) /\ ~Special(w)
    BY <1>1, ChangesMayBe
  <2>2. AddUserToGroup(u, g) = Needs(k) \o <<Refresh(Group(g), u, TRUE), w>>
    BY DEF AddUserToGroup, Matches
  <2> HIDE DEF w, k
  <2>3. QED
    BY <1>2, <2>1, <2>2
<1>4. Starts(p, DelUserFromGroup(u, g))
  <2> DEFINE w == Rewrite(Group(g), {}, {u})
  <2>1. MayDo(p, w, {}) /\ ~Special(w)
    BY <1>1, ChangesMayBe
  <2>2. DelUserFromGroup(u, g) = Needs(k) \o <<Refresh(Group(g), u, FALSE), w>>
    BY DEF DelUserFromGroup, Matches
  <2> HIDE DEF w, k
  <2>3. QED
    BY <1>2, <2>1, <2>2
<1>5. QED
  BY <1>3, <1>4

(* A dump, and the other steps that need a search.                         *)
LEMMA SearchScripts ==
  ASSUME NEW p
  PROVE  /\ Saves(p) => Starts(p, <<Ask("refunds", cmd[p].user, cmd[p].printer)>>)
         /\ Starts(p, <<Ask("codes", cmd[p].user, cmd[p].printer)>>)
         /\ Starts(p, Dump) /\ Starts(p, <<>>)
<1> DEFINE a == Ask("refunds", cmd[p].user, cmd[p].printer)
           b == Ask("codes", cmd[p].user, cmd[p].printer)
<1>1. (Saves(p) => MayDo(p, a, {}) /\ ~Special(a)) /\ MayDo(p, b, {}) /\ ~Special(b)
  BY StepsMayBe
<1>2. (Saves(p) => Starts(p, <<a>>)) /\ Starts(p, <<b>>)
  <2> DEFINE t == <<a>>
             u == <<b>>
  <2> HIDE DEF a, b
  <2>1. (Saves(p) => Planned(p, t, {}) /\ Routine(t)) /\ Planned(p, u, {}) /\ Routine(u)
    BY <1>1, OneStep
  <2> HIDE DEF t, u
  <2>2. (Saves(p) => Starts(p, t)) /\ Starts(p, u)
    BY <2>1, RoutineStarts
  <2>3. QED
    BY <2>2 DEF t, u
<1>3. Starts(p, Dump)
  <2> DEFINE t == Dump
  <2>1. t = [i \in 1 .. 10 |-> t[i]] /\ \A i \in 1 .. 10 : t[i].op = "extract"
    BY DEF Dump, DataTypes
  <2>2. 10 \in Nat
    OBVIOUS
  <2> HIDE DEF t
  <2>3. \A i \in 1 .. 10 : MayDo(p, t[i], {}) /\ ~Special(t[i])
    BY <2>1 DEF MayDo, Reliant, Special
  <2>4. Planned(p, t, {}) /\ Routine(t)
    BY <2>1, <2>2, <2>3, ListPlanned
  <2>5. Starts(p, t)
    BY <2>4, RoutineStarts
  <2>6. QED
    BY <2>5 DEF t
<1>4. Starts(p, <<>>)
  BY NoSteps, RoutineStarts
<1>5. QED
  BY <1>2, <1>3, <1>4

LEMMA StartsThen ==
  ASSUME NEW p, NEW t, Starts(p, t), t # <<>>, NEW u, Planned(p, u, {}), Routine(u), Len(t) + Len(u) <= Stop
  PROVE  Starts(p, t \o u) /\ Len(t \o u) = Len(t) + Len(u) /\ t \o u # <<>>
<1>1. IsSeq(t) /\ IsSeq(u)
  BY DEF Starts, Planned, IsSeq
<1>2. Len(t) >= 1 /\ Head(t) = t[1] /\ Len(t) \in Nat /\ Len(u) \in Nat
  BY <1>1, RangeIs
<1>3. IsSeq(t \o u) /\ Len(t \o u) = Len(t) + Len(u) /\ (t \o u)[1] = t[1]
  BY <1>1, <1>2, BothAre
<1>4. t \o u # <<>> /\ Head(t \o u) = t[1]
  BY <1>2, <1>3, RangeIs
<1>5. Planned(p, t \o u, {})
  BY PlannedBoth DEF Starts
<1>6. Shaped(t \o u)
  BY <1>1, ShapedThen DEF Starts
<1>7. QED
  BY <1>2, <1>3, <1>4, <1>5, <1>6 DEF Starts

(* The codes, and a job with the code it may add.                          *)
LEMMA CodeScripts ==
  ASSUME NEW p, NEW k, cmd[p].do = "addcode" /\ cmd[p].code = k
  PROVE  Starts(p, AddBillingCode(k))
<1>1. /\ IsKey(Code(k)) /\ Code(k)[1] = "code" /\ "code" \in Counted /\ "code" \notin Named
      /\ "code" \notin Halves
  BY KeysAreKeys DEF Code, Counted, Named, Halves
<1>2. Adds(p, Code(k))
  BY <1>1 DEF Adds
<1>3. QED
  BY <1>1, <1>2, AddStarts DEF AddBillingCode

LEMMA JobScript ==
  ASSUME NEW p, cmd[p].do = "print"
  PROVE  Starts(p, PrintJob(cmd[p]))
<1> DEFINE c == cmd[p]
           key == Code(c.code)
           f == Find(key, 0, 1)
           a == Add(key, 0, None)
           f2 == Find(key, 0, 0)
           keys == <<Printer(c.printer), Account(c.user), Quota(c.user, c.printer)>>
           q == Needs(keys)
           new == <<f, a, f2>>
           add == IF c.code = None THEN <<>> ELSE new
           l == Ask("last", c.user, c.printer)
           early == IF conf.early THEN <<l>> ELSE <<>>
           pa == Ask("parents", c.user, c.printer)
           parents == <<pa>>
<1>1. PrintJob(cmd[p]) = ((q \o add) \o early) \o parents
  BY DEF PrintJob, QuotaEntry
<1>2. IsKey(key) /\ key[1] = "code" /\ Adds(p, key)
  <2>1. IsKey(key) /\ key[1] = "code"
    BY KeysAreKeys DEF Code
  <2>2. QED
    BY <2>1 DEF Adds
<1>3. MayDo(p, a, {}) /\ Guards(f, a)
  <2>1. key[1] \in Counted /\ key[1] \notin Named /\ key[1] # "last" /\ 0 \in Int /\ key[1] \notin Halves
    BY <1>2 DEF Counted, Named, Halves
  <2> HIDE DEF key
  <2>2. MayDo(p, a, {})
    BY <1>2, <2>1, AddMayBe
  <2>3. QED
    BY <2>2 DEF Guards, Find, Add
<1>4. MayDo(p, f, {}) /\ ~Special(f) /\ MayDo(p, f2, {}) /\ ~Special(f2)
  <2>1. 0 \in Nat /\ 1 \in Nat
    OBVIOUS
  <2> HIDE DEF key
  <2>2. QED
    BY <2>1, StepsMayBe
<1>5. MayDo(p, l, {}) /\ ~Special(l)
  BY StepsMayBe
<1>6. MayDo(p, pa, {}) /\ ~Special(pa)
  BY StepsMayBe
<1>7. DOMAIN keys = 1 .. 3 /\ 3 \in Nat /\ 3 >= 1
  OBVIOUS
<1>8. Planned(p, q, {}) /\ Lookups(q, 3)
  <2> HIDE DEF keys
  <2>1. QED
    BY <1>7, NeedsIs
<1> HIDE DEF q, f, a, f2, l, pa
<1>9. Planned(p, add, {}) /\ Shaped(add) /\ Len(add) <= 3 /\ Len(add) \in Nat /\ (add # <<>> => ~Special(add[1]))
  <2>1. CASE add = <<>>
    <3>1. Planned(p, <<>>, {}) /\ Routine(<<>>)
      BY NoSteps
    <3>2. Shaped(<<>>)
      BY <3>1, RoutineIsShaped DEF Planned, IsSeq
    <3> HIDE DEF add
    <3>3. QED
      BY <2>1, <3>1, <3>2
  <2>2. CASE add = new
    <3> DEFINE S == {f, a, f2}
    <3>1. new \in Seq(S) /\ Len(new) = 3 /\ new[1] = f /\ new[2] = a /\ new[3] = f2
      OBVIOUS
    <3>2. \A s \in S : MayDo(p, s, {})
      BY <1>3, <1>4
    <3> HIDE DEF new, S
    <3>3. Planned(p, new, {})
      BY <3>1, <3>2, PlannedBy
    <3>4. Shaped(new)
      <4>1. Len(new) <= Stop
        BY <3>1 DEF Stop
      <4>2. ASSUME NEW i \in 2 .. Len(new), Special(new[i])
            PROVE  Guards(new[i - 1], new[i]) /\ \A j \in 1 .. i - 2 : Passed(new[j])
        <5>1. i = 2 \/ i = 3
          BY <3>1
        <5>2. i # 3
          BY <1>4, <3>1, <4>2
        <5>3. i = 2 /\ i - 1 = 1 /\ \A j \in 1 .. i - 2 : FALSE
          BY <5>1, <5>2
        <5>4. QED
          BY <1>3, <3>1, <5>3
      <4>3. QED
        BY <4>1, <4>2 DEF Shaped
    <3> HIDE DEF add
    <3>5. QED
      BY <1>4, <2>2, <3>1, <3>3, <3>4
  <2>3. QED
    BY <2>1, <2>2
<1>10. Planned(p, early, {}) /\ Routine(early) /\ Len(early) <= 1 /\ Len(early) \in Nat
  <2>1. Planned(p, <<l>>, {}) /\ Routine(<<l>>) /\ Planned(p, <<>>, {}) /\ Routine(<<>>)
    BY <1>5, OneStep, NoSteps
  <2>2. early = <<l>> \/ early = <<>>
    OBVIOUS
  <2>3. Len(early) <= 1 /\ Len(early) \in Nat
    OBVIOUS
  <2> HIDE DEF early
  <2>4. QED
    BY <2>1, <2>2, <2>3
<1>11. Planned(p, parents, {}) /\ Routine(parents) /\ Len(parents) = 1
  <2>1. Planned(p, <<pa>>, {}) /\ Routine(<<pa>>)
    BY <1>6, OneStep
  <2>2. QED
    BY <2>1
<1> HIDE DEF add, early, parents
<1>12. Starts(p, q \o add) /\ Len(q \o add) = 3 + Len(add)
  <2>1. 3 + Len(add) <= Stop
    BY <1>9 DEF Stop
  <2>2. QED
    BY <1>7, <1>8, <1>9, <2>1, LookupsStart
<1> DEFINE t == q \o add
           u == t \o early
<1>13. Starts(p, t) /\ t # <<>> /\ Len(t) <= 6 /\ Len(t) \in Nat
  <2>1. IsSeq(t)
    BY <1>12 DEF Starts, Planned, IsSeq
  <2>2. Len(t) >= 1 /\ Len(t) <= 6 /\ Len(t) \in Nat
    BY <1>9, <1>12
  <2>3. t # <<>>
    BY <2>1, <2>2, RangeIs
  <2>4. QED
    BY <1>12, <2>2, <2>3
<1> HIDE DEF t
<1>14. Starts(p, u) /\ Len(u) = Len(t) + Len(early) /\ u # <<>>
  <2>1. Len(t) + Len(early) <= Stop
    BY <1>10, <1>13 DEF Stop
  <2>2. QED
    BY <1>10, <1>13, <2>1, StartsThen
<1> HIDE DEF u
<1>15. Starts(p, u \o parents)
  <2>1. Len(u) + Len(parents) <= Stop
    BY <1>10, <1>11, <1>13, <1>14 DEF Stop
  <2>2. QED
    BY <1>11, <1>14, <2>1, StartsThen
<1>16. QED
  BY <1>1, <1>15 DEF t, u

LEMMA ScriptStarts ==
  ASSUME NEW p, cmd[p].n \in Int, cmd[p].do \in {"deluser", "delquota"} => cmd[p].user # None
  PROVE  Starts(p, Script(p))
<1> DEFINE c == cmd[p]
           do == c.do
<1>1. CASE do = "print"
  BY <1>1, JobScript DEF Script
<1>2. CASE do = "refund"
  BY <1>2, SearchScripts DEF Script, Saves, Savers
<1>3. CASE do = "adduser"
  BY <1>3, UserScripts DEF Script, Saves, Savers
<1>4. CASE do = "pay"
  BY <1>4, UserScripts DEF Script, Saves, Savers
<1>5. CASE do = "deluser"
  BY <1>5, UserScripts DEF Script, Saves, Savers
<1>6. CASE do = "addquota"
  BY <1>6, QuotaScripts DEF Script, Saves, Savers
<1>7. CASE do = "setusage"
  BY <1>7, QuotaScripts DEF Script, Saves, Savers
<1>8. CASE do = "delquota"
  BY <1>8, QuotaScripts DEF Script, Saves, Savers
<1>9. CASE do = "addprinter"
  BY <1>9, PrinterScripts DEF Script, Saves, Savers
<1>10. CASE do = "join"
  BY <1>10, PrinterScripts DEF Script, Saves, Savers
<1>11. CASE do = "leave"
  BY <1>11, PrinterScripts DEF Script, Saves, Savers
<1>12. CASE do = "delprinter"
  BY <1>12, PrinterScripts DEF Script, Saves, Savers
<1>13. CASE do = "addgroup"
  BY <1>13, GroupScripts DEF Script, Saves, Savers
<1>14. CASE do = "enter"
  BY <1>14, MemberScripts DEF Script, Saves, Savers
<1>15. CASE do = "quit"
  BY <1>15, MemberScripts DEF Script, Saves, Savers
<1>16. CASE do = "delgroup"
  BY <1>16, GroupScripts DEF Script, Saves, Savers
<1>17. CASE do = "addgquota"
  BY <1>17, GroupScripts DEF Script, Saves, Savers
<1>18. CASE do = "setlimits"
  BY <1>18, GroupScripts DEF Script, Saves, Savers
<1>19. CASE do = "addcode"
  BY <1>19, CodeScripts DEF Script
<1>20. CASE do \in {"savecode", "delcode"}
  BY <1>20, SearchScripts DEF Script, Saves, Savers
<1>21. CASE do = "dump"
  BY <1>21, SearchScripts DEF Script, Saves, Savers
<1>22. CASE do \notin {"print", "refund", "adduser", "pay", "deluser", "addquota", "setusage", "delquota",
                       "addprinter", "join", "leave", "delprinter", "addgroup", "enter", "quit", "delgroup",
                       "addgquota", "setlimits", "addcode", "savecode", "delcode", "dump"}
  BY <1>22, SearchScripts DEF Script, Saves, Savers
<1> HIDE DEF do
<1>23. QED
  BY <1>1, <1>2, <1>3, <1>4, <1>5, <1>6, <1>7, <1>8, <1>9, <1>10, <1>11, <1>12, <1>13, <1>14, <1>15,
     <1>16, <1>17, <1>18, <1>19, <1>20, <1>21, <1>22

-----------------------------------------------------------------------------
(* The types.                                                              *)

(* A process that is at a step of no particular place.                     *)
Fresh(r) == r.todo # <<>> => ~Special(Head(r.todo))

LEMMA IdleIs ==
  ASSUME NEW p, NEW r, DOMAIN r = Fields, Starts(p, r.todo), r.state \in {"ready", "running", "done"},
         r.obj = <<>>, r.bin = <<>>, r.last = None, r.new = <<>>, r.old = <<>>, r.made = FALSE, r.tries = 0
  PROVE  ProcOK(p, r)
<1>1. DOMAIN <<>> = {} /\ <<>> \in Seq(Range(<<>>)) /\ 0 \in 0 .. 2 /\ FALSE \in BOOLEAN
  OBVIOUS
<1>2. Planned(p, r.todo, DOMAIN r.obj) /\ Shaped(r.todo)
  BY <1>1 DEF Starts
<1>3. r.todo # <<>> /\ Head(r.todo).op = "refresh" => FALSE
  BY DEF Starts, Special
<1>4. HeadOK(r)
  BY <1>3 DEF HeadOK
<1>5. r.tries \in 0 .. 2 /\ r.made \in BOOLEAN /\ r.bin \in Seq(Range(r.bin))
  BY <1>1, Zenon
<1>6. \A k \in DOMAIN r.obj : IsObject(k, r.obj[k])
  BY <1>1
<1>7. QED
  BY <1>2, <1>4, <1>5, <1>6 DEF ProcOK, IsProc, Over

LEMMA StartIs ==
  ASSUME TypeInv, NEW p \in Procs, Start(p)
  PROVE  \E r : Becomes(p, r) /\ ProcOK(p, r) /\ r.state = "running" /\ Fresh(r)
<1> DEFINE t == Script(p)
           r == [Idle EXCEPT !.state = "running", !.todo = t]
<1>1. Starts(p, t)
  BY ScriptStarts DEF TypeInv
<1>2. Becomes(p, r)
  BY DEF Start
<1> HIDE DEF t
<1>3. /\ DOMAIN r = Fields /\ r.state = "running" /\ r.todo = t /\ r.obj = <<>> /\ r.bin = <<>> /\ r.last = None
      /\ r.new = <<>> /\ r.old = <<>> /\ r.made = FALSE /\ r.tries = 0
  BY DEF Idle, Fields
<1> HIDE DEF r
<1>4. ProcOK(p, r)
  BY <1>1, <1>3, IdleIs
<1>5. Fresh(r)
  BY <1>1, <1>3 DEF Starts, Fresh
<1>6. QED
  BY <1>2, <1>3, <1>4, <1>5

LEMMA FinishIs ==
  ASSUME TypeInv, NEW p \in Procs, Finish(p)
  PROVE  \E r : Becomes(p, r) /\ ProcOK(p, r) /\ r.state = "done"
<1> DEFINE r == [proc[p] EXCEPT !.state = "done"]
<1>1. ProcOK(p, proc[p])
  BY DEF TypeInv
<1>2. /\ DOMAIN r = Fields /\ r.state = "done" /\ r.old = proc[p].old /\ r.todo = proc[p].todo
      /\ r.obj = proc[p].obj /\ r.bin = proc[p].bin /\ r.last = proc[p].last /\ r.new = proc[p].new
      /\ r.made = proc[p].made /\ r.tries = proc[p].tries
  BY <1>1 DEF ProcOK, IsProc, Fields
<1>3. Becomes(p, r)
  BY DEF Finish
<1> HIDE DEF r
<1>4. HeadOK(r)
  BY <1>1, <1>2 DEF ProcOK, HeadOK
<1>5. ProcOK(p, r)
  BY <1>1, <1>2, <1>4 DEF ProcOK, IsProc, Over
<1>6. QED
  BY <1>2, <1>3, <1>5

LEMMA RefusedStays ==
  ASSUME TypeInv, NEW p \in Procs, Refused(p)
  PROVE  Stays(p)
<1>1. Running(p) /\ FALSE \in BOOLEAN
  BY DEF Refused, Ready, At
<1>2. CASE Fail(p)
  BY <1>2, FailStays
<1>3. CASE Again(p, FALSE)
  BY <1>1, <1>3, AgainStays
<1>4. QED
  BY <1>2, <1>3 DEF Refused

LEMMA LostStays ==
  ASSUME TypeInv, NEW p \in Procs, RequestLost(p) \/ AnswerLost(p)
  PROVE  Stays(p) /\ faults' \in 0 .. MaxFaults
<1>1. Running(p) /\ FALSE \in BOOLEAN /\ TRUE \in BOOLEAN
  BY DEF RequestLost, AnswerLost, Ready, At
<1>2. ASSUME RequestLost(p) PROVE Stays(p)
  <2>1. TryAgain(p, FALSE)
    BY <1>2 DEF RequestLost
  <2>2. QED
    BY <1>1, <2>1, TryAgainStays
<1>3. ASSUME AnswerLost(p) PROVE Stays(p)
  <2>1. TryAgain(p, TRUE)
    BY <1>3 DEF AnswerLost
  <2>2. QED
    BY <1>1, <2>1, TryAgainStays
<1>4. faults' \in 0 .. MaxFaults
  <2>1. faults \in 0 .. MaxFaults /\ faults < MaxFaults /\ faults' = faults + 1
    BY DEF TypeInv, RequestLost, AnswerLost
  <2>2. MaxFaults \in Nat
    BY DirectoryAssumption
  <2>3. QED
    BY <2>1, <2>2
<1>5. QED
  BY <1>2, <1>3, <1>4

(* What a request that is served adds.                                     *)
Grows(p) ==
  \/ DOMAIN dir' \subseteq DOMAIN dir
  \/ At(p, "add") /\ DOMAIN dir' = DOMAIN dir \cup {Target(p)} /\ Target(p) \notin DOMAIN dir

LEMMA ServedIs ==
  ASSUME TypeInv, NEW p \in Procs, Ready(p), Served(p)
  PROVE  DirOK' /\ Grows(p)
<1>1. CASE At(p, "add")
  BY <1>1, DirAdd DEF Grows
<1>2. CASE At(p, "delete")
  BY <1>2, DirDelete DEF Grows
<1>3. CASE At(p, "modify") /\ proc[p].old # <<>>
  BY <1>3, DirModify DEF Grows
<1>4. QED
  BY <1>1, <1>2, <1>3 DEF Ready

LEMMA TypeNext ==
  ASSUME TypeInv, [Next]_vars
  PROVE  TypeInv'
<1>1. DirOK /\ faults \in 0 .. MaxFaults
  BY DEF TypeInv
<1>2. ASSUME UNCHANGED vars PROVE TypeInv'
  <2>1. DirOK'
    BY <1>1, <1>2, DirStays DEF vars
  <2>2. ASSUME NEW q \in Procs PROVE ProcOK(q, proc[q])'
    <3>1. ProcOK(q, proc[q]) /\ proc'[q] = proc[q] /\ UNCHANGED cmd
      BY <1>2 DEF TypeInv, vars
    <3>2. QED
      BY <3>1, ProcStays
  <2>3. QED
    BY <1>2, <2>1, <2>2 DEF TypeInv, vars
<1>3. ASSUME NEW p \in Procs, Work(p) \/ RequestLost(p) \/ AnswerLost(p) PROVE TypeInv'
  <2>1. CASE Start(p)
    <3>1. DirOK' /\ faults' \in 0 .. MaxFaults /\ UNCHANGED <<conf, cmd>>
      BY <1>1, <2>1, DirStays DEF Start
    <3>2. QED
      BY <2>1, <3>1, StartIs, TypeOne
  <2>2. CASE Finish(p)
    <3>1. DirOK' /\ faults' \in 0 .. MaxFaults /\ UNCHANGED <<conf, cmd>>
      BY <1>1, <2>2, DirStays DEF Finish, Unchanged
    <3>2. QED
      BY <2>2, <3>1, FinishIs, TypeOne
  <2>3. CASE SearchNext(p) \/ ReadOld(p)
    <3>1. GoesOn(p) /\ Unchanged
      <4>1. SearchNext(p) => GoesOn(p) /\ Unchanged
        BY GoSearch
      <4>2. ReadOld(p) => GoesOn(p)
        BY GoReadOld
      <4>3. ReadOld(p) => Unchanged
        BY DEF ReadOld
      <4>4. QED
        BY <2>3, <4>1, <4>2, <4>3
    <3>2. DirOK' /\ faults' \in 0 .. MaxFaults /\ UNCHANGED <<conf, cmd>>
      BY <1>1, <3>1, DirStays DEF Unchanged
    <3>3. QED
      BY <3>1, <3>2, TypeOne DEF GoesOn
  <2>4. CASE Request(p)
    <3>1. Ready(p) /\ Served(p) /\ UNCHANGED <<conf, cmd>> /\ faults' \in 0 .. MaxFaults
      BY <1>1, <2>4 DEF Request
    <3>2. DirOK'
      BY <3>1, ServedIs
    <3>3. QED
      BY <2>4, <3>1, <3>2, RequestIs, TypeOne
  <2>5. CASE Refused(p)
    <3>1. DirOK' /\ faults' \in 0 .. MaxFaults /\ UNCHANGED <<conf, cmd>>
      BY <1>1, <2>5, DirStays DEF Refused, Unchanged
    <3>2. QED
      BY <2>5, <3>1, RefusedStays, TypeOne DEF Stays
  <2>6. CASE RequestLost(p)
    <3>1. DirOK' /\ UNCHANGED <<conf, cmd>>
      BY <1>1, <2>6, DirStays DEF RequestLost
    <3>2. Stays(p) /\ faults' \in 0 .. MaxFaults
      BY <2>6, LostStays
    <3>3. QED
      BY <3>1, <3>2, TypeOne DEF Stays
  <2>7. CASE AnswerLost(p)
    <3>1. Ready(p) /\ Served(p) /\ UNCHANGED <<conf, cmd>>
      BY <2>7 DEF AnswerLost
    <3>2. DirOK'
      BY <3>1, ServedIs
    <3>3. Stays(p) /\ faults' \in 0 .. MaxFaults
      BY <2>7, LostStays
    <3>4. QED
      BY <3>1, <3>2, <3>3, TypeOne DEF Stays
  <2>8. QED
    BY <1>3, <2>1, <2>2, <2>3, <2>4, <2>5, <2>6, <2>7 DEF Work
<1>4. QED
  BY <1>2, <1>3 DEF Next, AllOver

LEMMA TypeInit ==
  ASSUME Init
  PROVE  TypeInv
<1>1. PICK s \in Scenarios : conf = s.conf /\ cmd = s.cmd /\ dir = s.dir
  BY DEF Init
<1>2. /\ conf \in ConfType /\ IsDirectory(dir) /\ MaxFaults \in Nat
      /\ \A p \in Procs : cmd[p].n \in Int /\ (cmd[p].do \in {"deluser", "delquota"} => cmd[p].user \notin {None, Anyone})
  BY <1>1, DirectoryAssumption
<1>3. DirOK
  <2>1. IsFiniteSet(DOMAIN dir) /\ DOMAIN ledger = DOMAIN dir
    BY <1>2 DEF IsDirectory, Init
  <2>2. ASSUME NEW dn \in DOMAIN dir
        PROVE  /\ IsDn(dn) /\ (dn[1] \in Named => dn[3] = None /\ dn[4] = None)
               /\ IsEntry(dir[dn]) /\ (dn[1] = "last" => KeyOf(dir[dn].ref) = History(dn[3]))
    <3>1. /\ dn = <<dn[1], dn[2], dn[3], dn[4]>> /\ (dn[1] \in Named => dn[3] = None /\ dn[4] = None)
          /\ dn[1] = "last" => KeyOf(dir[dn].ref) = <<"job", None, dn[3]>>
      BY <1>2 DEF IsDirectory
    <3>2. dir[dn] = Entry(dir[dn].num, dir[dn].set, dir[dn].ref) /\ dir[dn].num \in Int /\ IsFiniteSet(dir[dn].set)
      BY <1>2 DEF IsDirectory
    <3>3. DOMAIN dir[dn] = {"num", "set", "ref"}
      BY <3>2 DEF Entry
    <3>4. QED
      BY <3>1, <3>2, <3>3 DEF IsDn, IsEntry, History
  <2>3. QED
    BY <2>1, <2>2 DEF DirOK
<1>4. DOMAIN proc = Procs
  BY DEF Init
<1>5. ASSUME NEW p \in Procs PROVE ProcOK(p, proc[p])
  <2>1. Starts(p, <<>>)
    BY SearchScripts
  <2> DEFINE r == proc[p]
  <2>2. r = [Idle EXCEPT !.state = "done"] \/ r = Idle
    BY DEF Init
  <2> HIDE DEF r
  <2>3. /\ DOMAIN r = Fields /\ r.state \in {"ready", "running", "done"} /\ r.todo = <<>> /\ r.obj = <<>>
        /\ r.bin = <<>> /\ r.last = None /\ r.new = <<>> /\ r.old = <<>> /\ r.made = FALSE /\ r.tries = 0
    <3>1. CASE r = Idle
      BY <3>1 DEF Idle, Fields
    <3>2. CASE r = [Idle EXCEPT !.state = "done"]
      BY <3>2 DEF Idle, Fields
    <3>3. QED
      BY <2>2, <3>1, <3>2
  <2>4. ProcOK(p, r)
    BY <2>1, <2>3, IdleIs
  <2>5. QED
    BY <2>4 DEF r
<1>6. faults \in 0 .. MaxFaults
  BY <1>2 DEF Init
<1>7. QED
  BY <1>2, <1>3, <1>4, <1>5, <1>6 DEF TypeInv

LEMMA TypesAreKept == Spec => []TypeInv
<1>1. Init => TypeInv
  BY TypeInit
<1>2. TypeInv /\ [Next]_vars => TypeInv'
  BY TypeNext
<1>3. QED
  BY <1>1, <1>2, PTL DEF Spec

LEMMA TypesImply ==
  ASSUME TypeInv
  PROVE  TypeOK
<1>1. ASSUME NEW dn \in DOMAIN dir PROVE Len(dn) = 4 /\ dir[dn].num \in Int /\ IsFiniteSet(dir[dn].set)
  <2>1. IsDn(dn) /\ IsEntry(dir[dn])
    BY DEF TypeInv, DirOK
  <2>2. Len(dn) = 4
    <3>1. Len(<<dn[1], dn[2], dn[3], dn[4]>>) = 4
      OBVIOUS
    <3>2. QED
      BY <2>1, <3>1 DEF IsDn
  <2>3. QED
    BY <2>1, <2>2 DEF IsEntry
<1>2. ASSUME NEW p \in Procs
      PROVE  /\ proc[p].state \in {"ready", "running"} \cup Over
             /\ proc[p].tries \in 0 .. 2 /\ proc[p].made \in BOOLEAN
             /\ proc[p].old # <<>> => proc[p].new # <<>>
             /\ At(p, "modify") => proc[p].old = <<>> \/ Step(p).key \in DOMAIN proc[p].obj
             /\ \A k \in DOMAIN proc[p].obj : KeyOf(proc[p].obj[k].dn) = SubSeq(k, 1, 3)
  <2>1. ProcOK(p, proc[p])
    BY DEF TypeInv
  <2>2. At(p, "modify") => proc[p].old = <<>> \/ Step(p).key \in DOMAIN proc[p].obj
    BY ModifiedIs
  <2>3. \A k \in DOMAIN proc[p].obj : KeyOf(proc[p].obj[k].dn) = SubSeq(k, 1, 3)
    BY <2>1 DEF ProcOK, IsObject
  <2>4. QED
    BY <2>1, <2>2, <2>3 DEF ProcOK
<1>3. conf \in ConfType /\ faults \in 0 .. MaxFaults /\ DOMAIN ledger = DOMAIN dir
  BY DEF TypeInv, DirOK
<1>4. QED
  BY <1>1, <1>2, <1>3 DEF TypeOK

(* Whatever processes do, whatever is lost: entries have numbers and lists,*)
(* the books have as many, requests are tried three times at most, and     *)
(* what is written from memory is written from an object of that name.     *)
THEOREM DirectoryKeepsItsTypes == Spec => []TypeOK
BY TypesAreKept, TypesImply, PTL

-----------------------------------------------------------------------------
(* Entries that are there twice.                                           *)

LEMMA AddsStays ==
  ASSUME UNCHANGED cmd, NEW q, NEW key, Adds(q, key)
  PROVE  Adds(q, key)'
BY DEF Adds, Quota, GQuota, Code

LEMMA OtherStays ==
  ASSUME UNCHANGED cmd, met \subseteq met', NEW q, NEW key, Other(q, key)
  PROVE  Other(q, key)'
BY DEF Other, Adds, Quota, GQuota, Code

LEMMA MetStays ==
  ASSUME TypeInv, Met, NEW p \in Procs, NEW r, Becomes(p, r), Running(p), met \subseteq met'
  PROVE  Met'
<1>1. \A q \in Procs : Running(q)' => Running(q)
  BY OneBecomes DEF TypeInv, Running
<1>2. QED
  BY <1>1 DEF Met

LEMMA MetGrows ==
  ASSUME TypeInv, Met, NEW p \in Procs, Start(p)
  PROVE  Met'
<1>1. met' = met \cup Beside(p)
  BY DEF Start
<1>2. \A q \in Procs : q # p => (Running(q)' <=> Running(q))
  BY OneBecomes DEF TypeInv, Running, Start
<1>3. \A q \in Procs : Running(q) => {p, q} \in met'
  BY <1>1 DEF Beside
<1>4. \A q \in Procs : {p, q} = {q, p}
  OBVIOUS
<1>5. ASSUME NEW q \in Procs, NEW s \in Procs, q # s, Running(q)', Running(s)' PROVE {q, s} \in met'
  <2>1. CASE q = p
    BY <1>2, <1>3, <1>5, <2>1
  <2>2. CASE s = p
    BY <1>2, <1>3, <1>4, <1>5, <2>2
  <2>3. CASE q # p /\ s # p
    BY <1>1, <1>2, <1>5, <2>3 DEF Met
  <2>4. QED
    BY <2>1, <2>2, <2>3
<1>6. QED
  BY <1>5 DEF Met

(* A process that goes on waiting to add an entry.                         *)
LEMMA StillWaits ==
  ASSUME TypeInv, MeetInv, UNCHANGED cmd, met \subseteq met', NEW p \in Procs, Grows(p), NEW q \in Procs,
         At(q, "add")' => At(q, "add") /\ Step(q)' = Step(q)
  PROVE  Waits(q)'
<1>1. SUFFICES ASSUME At(q, "add")', (Step(q).key[1] \in Counted)', NEW dn \in Matching(Step(q).key)'
               PROVE  dn[4] = q \/ Other(q, Step(q).key)'
  BY DEF Waits
<1>0. PICK key : key = Step(q).key
  OBVIOUS
<1>2. At(q, "add") /\ Step(q)' = Step(q) /\ key[1] \in Counted /\ Step(q).key = key
  BY <1>0, <1>1
<1>3. dn \in DOMAIN dir' /\ KeyOf(dn) = key
  BY <1>1, <1>2 DEF Matching, KeyOf
<1>4. CASE dn \in DOMAIN dir
  <2>1. dn \in Matching(key)
    BY <1>3, <1>4 DEF Matching
  <2>2. dn[4] = q \/ Other(q, key)
    BY <1>2, <2>1 DEF MeetInv, Waits
  <2>3. Other(q, key) => Other(q, key)'
    BY OtherStays
  <2>4. QED
    BY <1>2, <2>2, <2>3
<1>5. CASE dn \notin DOMAIN dir
  <2>1. At(p, "add") /\ dn = Target(p)
    BY <1>3, <1>5 DEF Grows
  <2>2. /\ KeyOf(dn) = Step(p).key /\ MayDo(p, Step(p), DOMAIN proc[p].obj)
        /\ dn[4] = IF Step(p).key[1] \in Named THEN None ELSE p
    BY <2>1, AddedIs
  <2>3. Step(p).key = key /\ key[1] \notin Named
    BY <1>2, <1>3, <2>2 DEF Counted, Named
  <2>4. dn[4] = p
    BY <2>2, <2>3
  <2>5. CASE p = q
    BY <2>4, <2>5
  <2>6. CASE p # q
    <3>1. MayDo(q, Step(q), DOMAIN proc[q].obj)
      BY <1>2, AddedIs
    <3>2. Adds(p, key) /\ Adds(q, key)
      BY <1>2, <2>1, <2>2, <2>3, <3>1 DEF MayDo, At
    <3>3. {q, p} \in met
      BY <1>2, <2>1, <2>6 DEF MeetInv, Met, At
    <3>4. Other(q, key)
      BY <2>6, <3>2, <3>3 DEF Other
    <3>5. Other(q, key)'
      BY <3>4, OtherStays
    <3>6. QED
      BY <1>2, <3>5
  <2>7. QED
    BY <2>5, <2>6
<1>6. QED
  BY <1>4, <1>5

(* An entry of a name that is there already.                               *)
Pair(a, b) == \E p, q \in Procs : p # q /\ {p, q} \in met /\ Adds(p, KeyOf(a)) /\ Adds(q, KeyOf(a))

LEMMA PairOfNew ==
  ASSUME TypeInv, MeetInv, NEW p \in Procs, At(p, "add"), Target(p) \notin DOMAIN dir,
         NEW b \in DOMAIN dir, KeyOf(b) = KeyOf(Target(p)), b[1] \in Counted
  PROVE  Pair(b, Target(p))
<1> DEFINE key == Step(p).key
<1>0. PICK dn : dn = Target(p)
  OBVIOUS
<1>1. /\ IsDn(dn) /\ KeyOf(dn) = key /\ MayDo(p, Step(p), DOMAIN proc[p].obj)
      /\ dn[4] = IF key[1] \in Named THEN None ELSE p
  BY <1>0, AddedIs
<1>2. b \in Matching(key) /\ DirOK
  BY <1>0, <1>1 DEF Matching, TypeInv
<1>3. IsDn(b) /\ b[1] = key[1]
  BY <1>2, MatchIs
<1>4. key[1] \in Counted /\ key[1] \notin Named
  BY <1>3 DEF Counted, Named
<1>5. b[4] = p \/ Other(p, key)
  BY <1>2, <1>4 DEF MeetInv, Waits
<1>6. b[4] # p
  <2>1. KeyOf(b) = <<b[1], b[2], b[3]>> /\ KeyOf(dn) = <<dn[1], dn[2], dn[3]>>
    BY <1>1, <1>3, KeyIs
  <2>2. b[1] = dn[1] /\ b[2] = dn[2] /\ b[3] = dn[3]
    <3>1. <<b[1], b[2], b[3]>> = <<dn[1], dn[2], dn[3]>>
      BY <1>0, <2>1
    <3>2. QED
      BY <3>1
  <2>3. b[4] = p => b = dn
    BY <1>1, <1>3, <1>4, <2>2 DEF IsDn
  <2>4. QED
    BY <1>0, <2>3
<1>7. QED
  BY <1>0, <1>1, <1>5, <1>6 DEF Other, Pair

LEMMA StillSingle ==
  ASSUME TypeInv, MeetInv, UNCHANGED cmd, met \subseteq met', NEW p \in Procs, Grows(p)
  PROVE  DuplicatesNeedOverlap'
<1>1. SUFFICES ASSUME NEW a \in DOMAIN dir', NEW b \in DOMAIN dir', a # b, KeyOf(a) = KeyOf(b), a[1] \in Counted
               PROVE  Pair(a, b)'
  BY DEF DuplicatesNeedOverlap, Pair, Counted, KeyOf
<1>2. Pair(a, b) \/ Pair(b, a)
  <2>1. CASE a \in DOMAIN dir /\ b \in DOMAIN dir
    BY <1>1, <2>1 DEF MeetInv, DuplicatesNeedOverlap, Pair, Counted
  <2>2. CASE a \notin DOMAIN dir
    <3>1. At(p, "add") /\ a = Target(p) /\ b \in DOMAIN dir
      BY <1>1, <2>2 DEF Grows
    <3>2. b[1] = a[1]
      <4>1. IsDn(a)
        BY <3>1, AddedIs
      <4>2. IsDn(b)
        BY <3>1 DEF TypeInv, DirOK
      <4>3. <<a[1], a[2], a[3]>> = <<b[1], b[2], b[3]>>
        BY <1>1, <4>1, <4>2, KeyIs
      <4>4. QED
        BY <4>3
    <3>3. QED
      BY <1>1, <2>2, <3>1, <3>2, PairOfNew
  <2>3. CASE b \notin DOMAIN dir
    <3>1. At(p, "add") /\ b = Target(p) /\ a \in DOMAIN dir
      BY <1>1, <2>3 DEF Grows
    <3>2. QED
      BY <1>1, <2>3, <3>1, PairOfNew
  <2>4. QED
    BY <2>1, <2>2, <2>3
<1>3. Pair(a, b)
  BY <1>1, <1>2 DEF Pair
<1>4. Pair(a, b)'
  <2>1. PICK q, r \in Procs : q # r /\ {q, r} \in met /\ Adds(q, KeyOf(a)) /\ Adds(r, KeyOf(a))
    BY <1>3 DEF Pair
  <2>2. PICK key : key = KeyOf(a)
    OBVIOUS
  <2>3. Adds(q, key)' /\ Adds(r, key)' /\ {q, r} \in met'
    BY <2>1, <2>2, AddsStays
  <2>4. KeyOf(a)' = key
    BY <2>2 DEF KeyOf
  <2>5. QED
    BY <2>1, <2>3, <2>4 DEF Pair
<1>5. QED
  BY <1>4

LEMMA MeetOne ==
  ASSUME TypeInv, MeetInv, UNCHANGED cmd, met \subseteq met', NEW p \in Procs, NEW r, Becomes(p, r), Grows(p),
         Met', Waits(p)'
  PROVE  MeetInv'
<1>1. DuplicatesNeedOverlap'
  BY StillSingle
<1>2. ASSUME NEW q \in Procs PROVE Waits(q)'
  <2>1. CASE q = p
    BY <2>1
  <2>2. CASE q # p
    <3>1. proc'[q] = proc[q]
      BY <2>2, OneBecomes DEF TypeInv
    <3>2. At(q, "add")' => At(q, "add") /\ Step(q)' = Step(q)
      BY <3>1 DEF At, Running, Step
    <3>3. QED
      BY <3>2, StillWaits
  <2>3. QED
    BY <2>1, <2>2
<1>3. QED
  BY <1>1, <1>2 DEF MeetInv

LEMMA FreshWaits ==
  ASSUME TypeInv, NEW p \in Procs, NEW r, Becomes(p, r), Fresh(r) \/ r.state # "running"
  PROVE  Waits(p)'
<1>1. proc'[p] = r
  BY OneBecomes DEF TypeInv
<1>2. QED
  BY <1>1 DEF Waits, At, Running, Step, Fresh, Special

LEMMA FoundNone ==
  ASSUME TypeInv, NEW p \in Procs, NEW r, Becomes(p, r), NoneIsNext(r), UNCHANGED dir
  PROVE  Waits(p)'
<1>1. proc'[p] = r
  BY OneBecomes DEF TypeInv
<1>2. SUFFICES ASSUME At(p, "add")', (Step(p).key[1] \in Counted)' PROVE Matching(Step(p).key)' = {}
  BY DEF Waits
<1>3. r.state = "running" /\ r.todo # <<>> /\ Head(r.todo).op = "add" /\ Head(r.todo).key[1] \in Counted
  BY <1>1, <1>2 DEF At, Running, Step
<1>4. Matching(Head(r.todo).key) = {}
  BY <1>3 DEF NoneIsNext
<1>5. QED
  BY <1>1, <1>4 DEF Matching, Step

LEMMA StayedWaits ==
  ASSUME TypeInv, MeetInv, UNCHANGED cmd, met \subseteq met', NEW p \in Procs, Grows(p), Running(p),
         NEW r, Becomes(p, r), r.todo = proc[p].todo
  PROVE  Waits(p)'
<1>1. proc'[p] = r
  BY OneBecomes DEF TypeInv
<1>2. At(p, "add")' => At(p, "add") /\ Step(p)' = Step(p)
  BY <1>1 DEF At, Running, Step
<1>3. QED
  BY <1>2, StillWaits

LEMMA MeetInit ==
  ASSUME Init
  PROVE  MeetInv
<1>1. PICK s \in Scenarios : dir = s.dir
  BY DEF Init
<1>2. IsDirectory(dir)
  BY <1>1, DirectoryAssumption
<1>3. DuplicatesNeedOverlap
  BY <1>2 DEF IsDirectory, DuplicatesNeedOverlap
<1>4. \A p \in Procs : ~Running(p)
  BY DEF Init, Running, Idle
<1>5. QED
  BY <1>3, <1>4 DEF MeetInv, Met, Waits, At

LEMMA MeetNext ==
  ASSUME TypeInv, MeetInv, [Next]_vars
  PROVE  MeetInv'
<1>1. ASSUME UNCHANGED vars PROVE MeetInv'
  <2>1. UNCHANGED <<conf, cmd, dir, proc, met>>
    BY <1>1 DEF vars
  <2>2. Met'
    BY <2>1 DEF MeetInv, Met, Running
  <2>3. ASSUME NEW q, NEW key PROVE Adds(q, key)' <=> Adds(q, key)
    BY <2>1 DEF Adds, Quota, GQuota, Code
  <2>4. DuplicatesNeedOverlap'
    <3>1. SUFFICES ASSUME NEW a \in DOMAIN dir', NEW b \in DOMAIN dir', a # b, KeyOf(a) = KeyOf(b),
                          a[1] \in {"quota", "gquota", "code"}
                   PROVE  Pair(a, b)'
      BY DEF DuplicatesNeedOverlap, Pair, KeyOf
    <3>2. PICK p, q \in Procs : p # q /\ {p, q} \in met /\ Adds(p, KeyOf(a)) /\ Adds(q, KeyOf(a))
      BY <2>1, <3>1 DEF MeetInv, DuplicatesNeedOverlap
    <3>3. QED
      BY <2>1, <2>3, <3>2 DEF Pair, KeyOf
  <2>5. ASSUME NEW q \in Procs PROVE Waits(q)'
    <3>1. At(q, "add")' => At(q, "add") /\ Step(q)' = Step(q)
      BY <2>1 DEF At, Running, Step
    <3>2. UNCHANGED cmd /\ met \subseteq met' /\ Grows(q)
      BY <2>1 DEF Grows
    <3>3. QED
      BY <3>1, <3>2, StillWaits
  <2>6. QED
    BY <2>2, <2>4, <2>5 DEF MeetInv
<1>2. ASSUME NEW p \in Procs, Work(p) \/ RequestLost(p) \/ AnswerLost(p) PROVE MeetInv'
  <2>0. Met
    BY DEF MeetInv
  <2>1. CASE Start(p)
    <3>1. UNCHANGED cmd /\ met \subseteq met' /\ Grows(p)
      BY <2>1 DEF Start, Grows
    <3>2. PICK r : Becomes(p, r) /\ Fresh(r)
      BY <2>1, StartIs
    <3>3. Waits(p)'
      BY <3>2, FreshWaits
    <3>4. Met'
      BY <2>0, <2>1, MetGrows
    <3>5. QED
      BY <3>1, <3>2, <3>3, <3>4, MeetOne
  <2>2. CASE Finish(p)
    <3>1. UNCHANGED cmd /\ met \subseteq met' /\ Grows(p) /\ Running(p)
      BY <2>2 DEF Finish, Unchanged, Grows
    <3>2. PICK r : Becomes(p, r) /\ r.state = "done"
      BY <2>2, FinishIs
    <3>3. Waits(p)'
      BY <3>2, FreshWaits
    <3>4. Met'
      BY <2>0, <3>1, <3>2, MetStays
    <3>5. QED
      BY <3>1, <3>2, <3>3, <3>4, MeetOne
  <2>3. CASE SearchNext(p) \/ ReadOld(p)
    <3>1. GoesOn(p)
      BY <2>3, GoSearch, GoReadOld
    <3>2. Unchanged /\ Running(p)
      <4>1. SearchNext(p) => Unchanged /\ Running(p)
        BY GoSearch
      <4>2. ReadOld(p) => Unchanged /\ Running(p)
        BY DEF ReadOld, At
      <4>3. QED
        BY <2>3, <4>1, <4>2
    <3>3. UNCHANGED <<cmd, dir>> /\ met \subseteq met' /\ Grows(p)
      BY <3>2 DEF Unchanged, Grows
    <3>4. PICK r : Becomes(p, r) /\ NoneIsNext(r)
      BY <3>1 DEF GoesOn
    <3>5. Waits(p)'
      BY <3>3, <3>4, FoundNone
    <3>6. Met'
      BY <2>0, <3>2, <3>3, <3>4, MetStays
    <3>7. QED
      BY <3>3, <3>4, <3>5, <3>6, MeetOne
  <2>4. CASE Request(p)
    <3>1. Ready(p) /\ Served(p) /\ UNCHANGED cmd /\ met \subseteq met'
      BY <2>4 DEF Request
    <3>2. Grows(p) /\ Running(p)
      BY <3>1, ServedIs DEF Ready, At
    <3>3. PICK r : Becomes(p, r) /\ Fresh(r)
      BY <2>4, RequestIs DEF Fresh
    <3>4. Waits(p)'
      BY <3>3, FreshWaits
    <3>5. Met'
      BY <2>0, <3>1, <3>2, <3>3, MetStays
    <3>6. QED
      BY <3>1, <3>2, <3>3, <3>4, <3>5, MeetOne
  <2>5. CASE Refused(p) \/ RequestLost(p) \/ AnswerLost(p)
    <3>1. UNCHANGED cmd /\ met \subseteq met' /\ Ready(p)
      BY <2>5 DEF Refused, RequestLost, AnswerLost, Unchanged
    <3>2. Running(p)
      BY <3>1 DEF Ready, At
    <3>3. Grows(p)
      <4>1. Refused(p) \/ RequestLost(p) => Grows(p)
        BY DEF Refused, RequestLost, Unchanged, Grows
      <4>2. AnswerLost(p) => Grows(p)
        BY <3>1, ServedIs DEF AnswerLost
      <4>3. QED
        BY <2>5, <4>1, <4>2
    <3>4. PICK r : Becomes(p, r) /\ r.todo = proc[p].todo
      BY <2>5, RefusedStays, LostStays DEF Stays
    <3>5. Waits(p)'
      BY <3>1, <3>2, <3>3, <3>4, StayedWaits
    <3>6. Met'
      BY <2>0, <3>1, <3>2, <3>4, MetStays
    <3>7. QED
      BY <3>1, <3>3, <3>4, <3>5, <3>6, MeetOne
  <2>6. QED
    BY <1>2, <2>1, <2>2, <2>3, <2>4, <2>5 DEF Work
<1>3. QED
  BY <1>1, <1>2 DEF Next, AllOver

(* A quota entry, a group's quota entry or a billing code is there twice   *)
(* only if two commands, or jobs, that both add it ran at the same time:   *)
(* a process only adds what it did not find, and what is added again after *)
(* a lost answer has the name of what was added before.                    *)
THEOREM DuplicatesAreRaces == Spec => []DuplicatesNeedOverlap
<1>1. Init => MeetInv
  BY MeetInit
<1>2. TypeInv /\ MeetInv /\ [Next]_vars => MeetInv'
  BY MeetNext
<1>3. MeetInv => DuplicatesNeedOverlap
  BY DEF MeetInv
<1>4. QED
  BY <1>1, <1>2, <1>3, TypesAreKept, PTL DEF Spec

-----------------------------------------------------------------------------
(* The order of what commands that save do.                                *)

LEMMA OrderedAfter ==
  ASSUME NEW p, NEW t, IsSeq(t), Ordered(p, t), NEW n \in Nat
  PROVE  Ordered(p, After(t, n))
<1> DEFINE u == After(t, n)
           m == n + 1
<1>1. /\ IsSeq(u) /\ Range(u) \subseteq Range(t) /\ m \in Nat /\ Len(u) \in Nat /\ Len(t) \in Nat
      /\ \A i \in 1 .. Len(u) : i + m \in 1 .. Len(t) /\ u[i] = t[i + m]
      /\ Len(u) > 0 => Len(u) = Len(t) - m
  <2>1. /\ IsSeq(u) /\ Range(u) \subseteq Range(t)
        /\ Len(u) = IF n # Stop /\ n + 2 <= Len(t) THEN Len(t) - n - 1 ELSE 0
        /\ \A i \in 1 .. Len(u) : i + n + 1 \in 1 .. Len(t) /\ u[i] = t[i + n + 1]
    BY AfterIs
  <2>2. Len(u) \in Nat /\ Len(t) \in Nat
    BY <2>1, RangeIs
  <2> HIDE DEF u
  <2>3. \A i \in 1 .. Len(u) : i + n + 1 = i + m
    OBVIOUS
  <2>4. QED
    BY <2>1, <2>2, <2>3
<1> HIDE DEF u, m
<1>2. Once(p, u)
  <2>1. ASSUME NEW i \in 1 .. Len(u), NEW j \in 1 .. Len(u), i < j, u[i].op = "modify", Reliant(u[j]),
               u[i].field = u[j].field, ~Repeated(p, u[j])
        PROVE  Differ(u[i].key, u[j].key)
    <3>1. i + m < j + m
      BY <1>1, <2>1
    <3>2. i + m \in 1 .. Len(t) /\ j + m \in 1 .. Len(t) /\ u[i] = t[i + m] /\ u[j] = t[j + m]
      BY <1>1
    <3>3. QED
      BY <2>1, <3>1, <3>2 DEF Ordered, Once
  <2>2. QED
    BY <2>1 DEF Once
<1>3. AskedLast(u)
  <2>1. ASSUME NEW i \in 1 .. Len(u), NEW j \in 1 .. Len(u), i < j
        PROVE  /\ u[i].op \in {"leave", "refunds", "codes"} => u[j].op # "modify"
               /\ u[i].op = "modify" => u[j].op \notin {"add", "refresh"}
    <3>1. i + m \in 1 .. Len(t) /\ j + m \in 1 .. Len(t) /\ i + m < j + m /\ u[i] = t[i + m] /\ u[j] = t[j + m]
      BY <1>1, <2>1
    <3>2. QED
      BY <3>1 DEF Ordered, AskedLast
  <2>2. QED
    BY <2>1 DEF AskedLast
<1>4. AfterSearch(p, u)
  <2>1. ASSUME NEW i \in 1 .. Len(u), Repeated(p, u[i])
        PROVE  /\ i >= 2 => u[i - 1].op = "modify" /\ u[i - 1].field = "num"
               /\ i >= 3 => Loads(u[i - 2], u[i].key)
    <3>1. i + m \in 1 .. Len(t) /\ u[i] = t[i + m]
      BY <1>1
    <3>2. i >= 2 => i + m >= 2 /\ u[i - 1] = t[(i + m) - 1]
      <4>1. i >= 2 => i - 1 \in 1 .. Len(u) /\ (i - 1) + m = (i + m) - 1
        BY <1>1
      <4>2. QED
        BY <1>1, <4>1
    <3>3. i >= 3 => i + m >= 3 /\ u[i - 2] = t[(i + m) - 2]
      <4>1. i >= 3 => i - 2 \in 1 .. Len(u) /\ (i - 2) + m = (i + m) - 2
        BY <1>1
      <4>2. QED
        BY <1>1, <4>1
    <3>4. QED
      BY <2>1, <3>1, <3>2, <3>3 DEF Ordered, AfterSearch
  <2>2. QED
    BY <2>1 DEF AfterSearch
<1>5. Lands(p, u)
  <2>1. ASSUME NEW i \in 1 .. Len(u), cmd[p].do = "refund", u[i].op = "find"
        PROVE  /\ u[i].hit = 0 /\ u[i].miss \in Nat \ {0}
               /\ u[i].miss \notin {Stop, Raise} =>
                    /\ i + u[i].miss + 1 <= Len(u) /\ ~Repeated(p, u[i + u[i].miss + 1])
                    /\ i + u[i].miss + 2 <= Len(u) => ~Repeated(p, u[i + u[i].miss + 2])
    <3>1. i + m \in 1 .. Len(t) /\ u[i] = t[i + m] /\ Len(u) = Len(t) - m
      BY <1>1
    <3>2. PICK a : a = u[i].miss
      OBVIOUS
    <3>3. /\ u[i].hit = 0 /\ a \in Nat \ {0}
          /\ a \notin {Stop, Raise} =>
               /\ i + m + a + 1 <= Len(t) /\ ~Repeated(p, t[i + m + a + 1])
               /\ i + m + a + 2 <= Len(t) => ~Repeated(p, t[i + m + a + 2])
      BY <2>1, <3>1, <3>2 DEF Ordered, Lands
    <3>4. \A x \in Nat : (i + x) + m = i + m + x /\ (i + x <= Len(u) <=> i + m + x <= Len(t)) /\ i + x >= 1
      BY <1>1, <3>1
    <3>5. \A x \in Nat : i + x <= Len(u) => u[i + x] = t[i + m + x]
      <4>1. \A x \in Nat : i + x <= Len(u) => i + x \in 1 .. Len(u)
        BY <1>1
      <4>2. QED
        BY <1>1, <3>4, <4>1
    <3>6. /\ a + 1 \in Nat /\ a + 2 \in Nat /\ i + (a + 1) = i + a + 1 /\ i + (a + 2) = i + a + 2
          /\ i + m + (a + 1) = i + m + a + 1 /\ i + m + (a + 2) = i + m + a + 2
      <4>1. a \in Nat
        BY <3>3
      <4>2. QED
        BY <1>1, <4>1
    <3>7. ASSUME a \notin {Stop, Raise}
          PROVE  /\ i + a + 1 <= Len(u) /\ ~Repeated(p, u[i + a + 1])
                 /\ i + a + 2 <= Len(u) => ~Repeated(p, u[i + a + 2])
      <4>1. i + (a + 1) <= Len(u) /\ u[i + (a + 1)] = t[i + m + (a + 1)]
        BY <3>3, <3>4, <3>5, <3>6, <3>7
      <4>2. ASSUME i + (a + 2) <= Len(u) PROVE u[i + (a + 2)] = t[i + m + (a + 2)] /\ i + m + a + 2 <= Len(t)
        BY <3>4, <3>5, <3>6, <4>2
      <4>3. QED
        BY <3>3, <3>6, <3>7, <4>1, <4>2
    <3>8. /\ u[i].hit = 0 /\ u[i].miss \in Nat \ {0}
      BY <3>2, <3>3
    <3>9. QED
      BY <3>2, <3>7, <3>8
  <2>2. QED
    BY <2>1 DEF Lands
<1>6. QED
  BY <1>1, <1>2, <1>3, <1>4, <1>5 DEF Ordered, u

(* What does not change an entry may come before, but for refunds.         *)
Harmless(p, s) == Role(p, s) /\ s.op \notin {"modify", "leave", "refunds", "codes"}

LEMMA OrderedBefore ==
  ASSUME NEW p, cmd[p].do # "refund", NEW w, IsSeq(w), \A s \in Range(w) : Harmless(p, s),
         NEW u, IsSeq(u), Ordered(p, u)
  PROVE  Ordered(p, w \o u)
<1> DEFINE t == w \o u
<1>1. /\ IsSeq(t) /\ Range(t) \subseteq Range(w) \cup Range(u) /\ Len(t) = Len(w) + Len(u)
      /\ \A i \in 1 .. Len(w) + Len(u) : t[i] = IF i <= Len(w) THEN w[i] ELSE u[i - Len(w)]
  BY BothAre
<1>2. Len(w) \in Nat /\ Len(u) \in Nat /\ \A i \in 1 .. Len(w) : Harmless(p, w[i])
  BY RangeIs
<1> HIDE DEF t
<1>3. \A i \in 1 .. Len(t) : \/ Harmless(p, t[i])
                             \/ i - Len(w) \in 1 .. Len(u) /\ t[i] = u[i - Len(w)]
  BY <1>1, <1>2
<1>4. \A s : ~Repeated(p, s)
  BY DEF Repeated
<1>5. Once(p, t)
  <2>1. ASSUME NEW i \in 1 .. Len(t), NEW j \in 1 .. Len(t), i < j, t[i].op = "modify", Reliant(t[j]),
               t[i].field = t[j].field
        PROVE  Differ(t[i].key, t[j].key)
    <3>1. /\ i - Len(w) \in 1 .. Len(u) /\ t[i] = u[i - Len(w)]
          /\ j - Len(w) \in 1 .. Len(u) /\ t[j] = u[j - Len(w)]
      BY <1>3, <2>1 DEF Harmless, Reliant
    <3>2. i - Len(w) < j - Len(w)
      BY <1>1, <1>2, <2>1
    <3>3. QED
      BY <1>4, <2>1, <3>1, <3>2 DEF Ordered, Once
  <2>2. QED
    BY <2>1 DEF Once
<1>6. AskedLast(t)
  <2>1. ASSUME NEW i \in 1 .. Len(t), NEW j \in 1 .. Len(t), i < j, t[i].op \in {"leave", "refunds", "codes", "modify"}
        PROVE  /\ t[i].op \in {"leave", "refunds", "codes"} => t[j].op # "modify"
               /\ t[i].op = "modify" => t[j].op \notin {"add", "refresh"}
    <3>1. i - Len(w) \in 1 .. Len(u) /\ t[i] = u[i - Len(w)]
      BY <1>3, <2>1 DEF Harmless
    <3>2. j - Len(w) \in 1 .. Len(u) /\ t[j] = u[j - Len(w)] /\ i - Len(w) < j - Len(w)
      BY <1>1, <1>2, <2>1, <3>1
    <3>3. QED
      BY <2>1, <3>1, <3>2 DEF Ordered, AskedLast
  <2>2. QED
    BY <2>1 DEF AskedLast
<1>7. AfterSearch(p, t) /\ Lands(p, t)
  BY <1>4 DEF AfterSearch, Lands
<1>8. \A s \in Range(t) : Role(p, s)
  BY <1>1 DEF Harmless, Ordered
<1>9. QED
  BY <1>5, <1>6, <1>7, <1>8 DEF Ordered, t

LEMMA OneOrdered ==
  ASSUME NEW p, NEW s, Role(p, s), s.op # "find"
  PROVE  Ordered(p, <<s>>) /\ IsSeq(<<s>>)
<1> DEFINE t == <<s>>
<1>1. Len(t) = 1 /\ t[1] = s /\ Range(t) = {s}
  BY DEF Range
<1>2. t \in Seq({s})
  OBVIOUS
<1> HIDE DEF t
<1>3. \A i \in 1 .. Len(t) : i = 1
  BY <1>1
<1>4. Once(p, t) /\ AskedLast(t) /\ AfterSearch(p, t) /\ Lands(p, t)
  BY <1>1, <1>3 DEF Once, AskedLast, AfterSearch, Lands
<1>5. QED
  BY <1>1, <1>2, <1>4 DEF Ordered, IsSeq, t

LEMMA NothingOrdered == ASSUME NEW p PROVE Ordered(p, <<>>) /\ IsSeq(<<>>)
BY DEF Ordered, Once, AskedLast, AfterSearch, Lands, Range, IsSeq

LEMMA TwoAre == ASSUME NEW a, NEW b PROVE <<a>> \o <<b>> = <<a, b>>
<1> DEFINE x == <<a>>
           y == <<b>>
           z == <<a, b>>
<1>1. /\ x \in Seq({a, b}) /\ Len(x) = 1 /\ x[1] = a
      /\ y \in Seq({a, b}) /\ Len(y) = 1 /\ y[1] = b
      /\ z \in Seq({a, b}) /\ Len(z) = 2 /\ z[1] = a /\ z[2] = b
  OBVIOUS
<1> HIDE DEF x, y, z
<1>2. x \o y \in Seq({a, b}) /\ Len(x \o y) = 2 /\ (x \o y)[1] = a /\ (x \o y)[2] = b
  BY <1>1, ConcatProperties
<1>3. \A i \in 1 .. Len(z) : (x \o y)[i] = z[i]
  BY <1>1, <1>2
<1>4. x \o y = z
  BY <1>1, <1>2, <1>3, SeqEqual
<1>5. QED
  BY <1>4 DEF x, y, z

LEMMA NeedsHarmless ==
  ASSUME NEW p, cmd[p].do # "refund", NEW n \in Nat, NEW keys, DOMAIN keys = 1 .. n
  PROVE  IsSeq(Needs(keys)) /\ \A s \in Range(Needs(keys)) : Harmless(p, s)
<1> DEFINE t == Needs(keys)
<1>1. t = [i \in 1 .. n |-> t[i]] /\ \A i \in 1 .. n : t[i] = Find(keys[i], Stop, 0)
  BY DEF Needs
<1> HIDE DEF t
<1>2. IsSeq(t) /\ Range(t) = {t[i] : i \in 1 .. n}
  BY <1>1, ListIsSeq
<1>3. \A k : Harmless(p, Find(k, Stop, 0))
  BY DEF Harmless, Role, Find
<1>4. QED
  BY <1>1, <1>2, <1>3 DEF t

LEMMA NeedsOrdered ==
  ASSUME NEW p, cmd[p].do # "refund", NEW n \in Nat, NEW keys, DOMAIN keys = 1 .. n,
         NEW u, IsSeq(u), Ordered(p, u)
  PROVE  Ordered(p, Needs(keys) \o u)
BY NeedsHarmless, OrderedBefore

LEMMA OneChange ==
  ASSUME NEW p, cmd[p].do # "refund", NEW n \in Nat, NEW keys, DOMAIN keys = 1 .. n,
         NEW s, Role(p, s), s.op # "find"
  PROVE  Ordered(p, Needs(keys) \o <<s>>)
BY OneOrdered, NeedsOrdered

LEMMA UserOrdered ==
  ASSUME NEW p, NEW u, NEW n
  PROVE  /\ cmd[p].do = "adduser" => Ordered(p, AddUser(u, n, p))
         /\ cmd[p].do = "pay" => Ordered(p, SaveUser(u, n, p))
<1> DEFINE pay == WriteNewPayment(u, p)
<1>1. IsKey(Account(u)) /\ IsKey(Balance(u)) /\ Account(u)[1] # "job"
  BY KeysAreKeys DEF Account
<1>2. Role(p, pay) /\ pay.op = "modify" /\ pay.field = "set"
  BY <1>1 DEF WriteNewPayment, Role, Rewrite
<1>3. ASSUME cmd[p].do = "adduser" PROVE Ordered(p, AddUser(u, n, p))
  <2> DEFINE f == <<Find(Account(u), 0, Stop)>>
             new == NewAccount(u, n)
             w == f \o new
  <2>1. AddUser(u, n, p) = w \o <<pay>>
    BY DEF AddUser
  <2>2. \A k, m, r : Harmless(p, Add(k, m, r)) /\ Harmless(p, Find(k, 0, Stop))
    BY <1>3 DEF Harmless, Role, Add, Find
  <2>3. IsSeq(f) /\ \A s \in Range(f) : Harmless(p, s)
    <3>1. f \in Seq({Find(Account(u), 0, Stop)})
      OBVIOUS
    <3> HIDE DEF f
    <3>2. QED
      BY <2>2, <3>1, SeqIsSeq
  <2>4. IsSeq(new) /\ \A s \in Range(new) : Harmless(p, s)
    <3> DEFINE a == Add(Account(u), 0, None)
               b == Add(Balance(u), n, None)
               c == Add(Account(u), n, None)
    <3>1. new = <<a, b>> \/ new = <<c>>
      BY DEF NewAccount
    <3> HIDE DEF a, b, c
    <3>2. <<a, b>> \in Seq({a, b, c}) /\ <<c>> \in Seq({a, b, c})
      OBVIOUS
    <3> HIDE DEF new
    <3>3. new \in Seq({a, b, c})
      BY <3>1, <3>2
    <3>4. Harmless(p, a) /\ Harmless(p, b) /\ Harmless(p, c)
      BY <2>2 DEF a, b, c
    <3>5. QED
      BY <3>3, <3>4, SeqIsSeq
  <2> HIDE DEF f, new
  <2>5. IsSeq(w) /\ \A s \in Range(w) : Harmless(p, s)
    BY <2>3, <2>4, BothAre
  <2> HIDE DEF w
  <2>6. Ordered(p, <<pay>>) /\ IsSeq(<<pay>>)
    BY <1>2, OneOrdered
  <2>7. Ordered(p, w \o <<pay>>)
    BY <1>3, <2>5, <2>6, OrderedBefore
  <2>8. QED
    BY <2>1, <2>7
<1>4. ASSUME cmd[p].do = "pay" PROVE Ordered(p, SaveUser(u, n, p))
  <2> DEFINE link == Link(Account(u), None)
             save == Save(Balance(u), n)
             t == <<pay, link, save>>
             k == <<Account(u)>>
  <2>1. SaveUser(u, n, p) = Needs(k) \o t
    BY DEF SaveUser, Matches
  <2>2. /\ Role(p, link) /\ link.op = "modify" /\ link.field = "ref"
        /\ Role(p, save) /\ save.op = "modify" /\ save.field = "num"
    BY <1>1 DEF Role, Link, Save
  <2>3. DOMAIN k = 1 .. 1 /\ 1 \in Nat
    OBVIOUS
  <2> HIDE DEF pay, link, save, k
  <2>4. /\ t \in Seq({pay, link, save}) /\ Len(t) = 3 /\ Range(t) = {pay, link, save}
        /\ t[1] = pay /\ t[2] = link /\ t[3] = save
    BY DEF Range
  <2> HIDE DEF t
  <2>5. \A i \in 1 .. Len(t) : i \in {1, 2, 3} /\ t[i].op = "modify"
    BY <1>2, <2>2, <2>4
  <2>6. Once(p, t)
    <3>1. \A i, j \in 1 .. Len(t) : i < j => t[i].field # t[j].field
      BY <1>2, <2>2, <2>4, <2>5
    <3>2. QED
      BY <3>1 DEF Once
  <2>7. AskedLast(t) /\ AfterSearch(p, t) /\ Lands(p, t)
    BY <1>4, <2>5 DEF AskedLast, AfterSearch, Lands, Repeated
  <2>8. IsSeq(t) /\ Ordered(p, t)
    BY <1>2, <2>2, <2>4, <2>6, <2>7, SeqIsSeq DEF Ordered
  <2>9. QED
    BY <1>4, <2>1, <2>3, <2>8, NeedsOrdered
<1>5. QED
  BY <1>3, <1>4

LEMMA MemberOrdered ==
  ASSUME NEW p, cmd[p].do \in {"enter", "quit"}, NEW u, NEW g
  PROVE  Ordered(p, AddUserToGroup(u, g)) /\ Ordered(p, DelUserFromGroup(u, g))
<1> DEFINE k == <<Account(u), Group(g)>>
<1>1. DOMAIN k = 1 .. 2 /\ 2 \in Nat
  OBVIOUS
<1>2. ASSUME NEW stop, NEW w, Role(p, w), w.op # "find"
      PROVE  Ordered(p, Needs(k) \o <<Refresh(Group(g), u, stop), w>>)
  <2> DEFINE r == Refresh(Group(g), u, stop)
             x == <<r>>
             y == <<w>>
  <2>1. Harmless(p, r)
    BY DEF Harmless, Role, Refresh
  <2> HIDE DEF r, k
  <2>2. IsSeq(x) /\ \A s \in Range(x) : Harmless(p, s)
    <3>1. x \in Seq({r})
      OBVIOUS
    <3> HIDE DEF x
    <3>2. QED
      BY <2>1, <3>1, SeqIsSeq
  <2>3. Ordered(p, y) /\ IsSeq(y)
    BY <1>2, OneOrdered
  <2>4. x \o y = <<r, w>>
    BY TwoAre
  <2> HIDE DEF x, y
  <2>5. Ordered(p, x \o y) /\ IsSeq(x \o y)
    BY <2>2, <2>3, OrderedBefore, BothAre
  <2>6. Ordered(p, Needs(k) \o (x \o y))
    BY <1>1, <2>5, NeedsOrdered
  <2>7. QED
    BY <2>4, <2>6 DEF r
<1>3. \A x, y : Role(p, Rewrite(Group(g), x, y)) /\ Rewrite(Group(g), x, y).op # "find"
  BY KeysAreKeys DEF Role, Rewrite
<1>4. /\ AddUserToGroup(u, g) = Needs(k) \o <<Refresh(Group(g), u, TRUE), Rewrite(Group(g), {u}, {})>>
      /\ DelUserFromGroup(u, g) = Needs(k) \o <<Refresh(Group(g), u, FALSE), Rewrite(Group(g), {}, {u})>>
  BY DEF AddUserToGroup, DelUserFromGroup, Matches
<1> HIDE DEF k
<1>5. QED
  BY <1>2, <1>3, <1>4

LEMMA PrinterOrdered ==
  ASSUME NEW p, cmd[p].do = "delprinter", NEW pr
  PROVE  Ordered(p, DeletePrinter(pr))
<1> DEFINE k == <<Printer(pr)>>
           c == [i \in 1 .. 4 |-> Collect(<<"last", "job", "gquota", "quota">>[i], Anyone, pr)]
           a == Ask("leave", None, pr)
           d == Delete(Printer(pr))
           t == <<a, d>>
<1>1. DeletePrinter(pr) = (Needs(k) \o c) \o t
  BY DEF DeletePrinter, Matches
<1>2. IsSeq(c) /\ \A s \in Range(c) : Harmless(p, s)
  <2>1. c = [i \in 1 .. 4 |-> c[i]] /\ 4 \in Nat
    OBVIOUS
  <2>2. \A i \in 1 .. 4 : Harmless(p, c[i])
    <3>1. \A x : Harmless(p, Collect(x, Anyone, pr))
      BY DEF Harmless, Role, Collect
    <3>2. \A i \in 1 .. 4 : c[i] = Collect(<<"last", "job", "gquota", "quota">>[i], Anyone, pr)
      OBVIOUS
    <3> HIDE DEF c
    <3>3. QED
      BY <3>1, <3>2
  <2> HIDE DEF c
  <2>3. IsSeq(c) /\ Range(c) = {c[i] : i \in 1 .. 4}
    BY <2>1, ListIsSeq
  <2>4. QED
    BY <2>2, <2>3
<1>3. DOMAIN k = 1 .. 1 /\ 1 \in Nat
  OBVIOUS
<1>4. Role(p, a) /\ a.op = "leave" /\ Role(p, d) /\ d.op = "delete"
  BY DEF Role, Ask, Delete
<1> HIDE DEF k, c, a, d
<1>5. IsSeq(t) /\ Ordered(p, t)
  <2>1. t \in Seq({a, d}) /\ Len(t) = 2 /\ Range(t) = {a, d} /\ t[1] = a /\ t[2] = d
    BY DEF Range
  <2> HIDE DEF t
  <2>2. \A i \in 1 .. Len(t) : i \in {1, 2} /\ t[i].op \in {"leave", "delete"}
    BY <1>4, <2>1
  <2>3. Once(p, t) /\ AskedLast(t) /\ AfterSearch(p, t) /\ Lands(p, t)
    BY <2>2 DEF Once, AskedLast, AfterSearch, Lands, Repeated
  <2>4. QED
    BY <1>4, <2>1, <2>3, SeqIsSeq DEF Ordered
<1> HIDE DEF t
<1>6. IsSeq(Needs(k) \o c) /\ \A s \in Range(Needs(k) \o c) : Harmless(p, s)
  <2>1. IsSeq(Needs(k)) /\ \A s \in Range(Needs(k)) : Harmless(p, s)
    BY <1>3, NeedsHarmless
  <2>2. QED
    BY <1>2, <2>1, BothAre
<1>7. QED
  BY <1>1, <1>5, <1>6, OrderedBefore

LEMMA ScriptOrdered ==
  ASSUME NEW p, Saves(p)
  PROVE  Ordered(p, Script(p))
<1> DEFINE c == cmd[p]
           do == c.do
<1>1. \A k, n, x, y : IsKey(k) => /\ Role(p, Save(k, n)) /\ Save(k, n).op # "find"
                                  /\ Role(p, Rewrite(k, x, y)) /\ Rewrite(k, x, y).op # "find"
  BY DEF Role, Save, Rewrite
<1>2. CASE do \in {"adduser", "pay"}
  BY <1>2, UserOrdered DEF Script
<1>3. CASE do = "setusage"
  <2> DEFINE k == <<Printer(c.printer), Account(c.user), Quota(c.user, c.printer)>>
             s == Save(Quota(c.user, c.printer), c.n)
  <2>1. Script(p) = Needs(k) \o <<s>>
    BY <1>3 DEF Script, SaveUserPQuota, QuotaEntry
  <2>2. DOMAIN k = 1 .. 3 /\ 3 \in Nat
    OBVIOUS
  <2>3. Role(p, s) /\ s.op # "find"
    BY <1>1, KeysAreKeys
  <2> HIDE DEF k, s
  <2>4. QED
    BY <1>3, <2>1, <2>2, <2>3, OneChange
<1>4. CASE do \in {"join", "leave"}
  <2> DEFINE k == <<Printer(c.printer), Printer(c.group)>>
             s == IF do = "join" THEN Rewrite(Printer(c.group), {c.printer}, {})
                  ELSE Rewrite(Printer(c.group), {}, {c.printer})
  <2>1. Script(p) = Needs(k) \o <<s>>
    <3>1. CASE do = "join"
      BY <3>1 DEF Script, WritePrinterToGroup, Matches
    <3>2. CASE do = "leave"
      BY <3>2 DEF Script, RemovePrinterFromGroup, Matches
    <3>3. QED
      BY <1>4, <3>1, <3>2
  <2>2. DOMAIN k = 1 .. 2 /\ 2 \in Nat
    OBVIOUS
  <2>3. Role(p, s) /\ s.op # "find"
    BY <1>1, KeysAreKeys
  <2> HIDE DEF k, s
  <2>4. QED
    BY <1>4, <2>1, <2>2, <2>3, OneChange
<1>5. CASE do \in {"enter", "quit"}
  BY <1>5, MemberOrdered DEF Script
<1>6. CASE do = "setlimits"
  <2> DEFINE k == <<Printer(c.printer), Group(c.group), GQuota(c.group, c.printer)>>
             s == Save(GQuota(c.group, c.printer), c.n)
  <2>1. Script(p) = Needs(k) \o <<s>>
    BY <1>6 DEF Script, SaveGroupPQuota, Matches
  <2>2. DOMAIN k = 1 .. 3 /\ 3 \in Nat
    OBVIOUS
  <2>3. Role(p, s) /\ s.op # "find"
    BY <1>1, KeysAreKeys
  <2> HIDE DEF k, s
  <2>4. QED
    BY <1>6, <2>1, <2>2, <2>3, OneChange
<1>7. CASE do = "savecode"
  <2> DEFINE s == Ask("codes", c.user, c.printer)
  <2>1. Script(p) = <<s>>
    BY <1>7 DEF Script
  <2>2. Role(p, s) /\ s.op # "find"
    BY <1>7 DEF Role, Ask
  <2> HIDE DEF s
  <2>3. QED
    BY <2>1, <2>2, OneOrdered
<1>8. CASE do = "refund"
  <2> DEFINE s == Ask("refunds", c.user, c.printer)
  <2>1. Script(p) = <<s>>
    BY <1>8 DEF Script
  <2>2. Role(p, s) /\ s.op # "find"
    BY <1>8 DEF Role, Ask
  <2> HIDE DEF s
  <2>3. QED
    BY <2>1, <2>2, OneOrdered
<1>9. CASE do = "delprinter"
  BY <1>9, PrinterOrdered DEF Script
<1>10. QED
  BY <1>2, <1>3, <1>4, <1>5, <1>6, <1>7, <1>8, <1>9 DEF Saves, Savers

-----------------------------------------------------------------------------
(* What a process has when no request is served.                           *)

LEMMA OrderedStays ==
  ASSUME UNCHANGED <<conf, cmd>>, NEW p, NEW t, Ordered(p, t)
  PROVE  Ordered(p, t)'
BY DEF Ordered, Role, Once, AskedLast, AfterSearch, Lands, Repeated, Reliant, Loads, Balance, Differ, IsKey, IsDn, KeyOf

LEMMA ReliesStays ==
  ASSUME UNCHANGED <<conf, cmd>>, NEW p, NEW r, NEW i
  PROVE  Relies(p, r, i)' <=> Relies(p, r, i)
BY DEF Relies, Reliant, Repeated, IsKey

LEMMA ComputedStays ==
  ASSUME UNCHANGED <<conf, dir, ledger, contended>>, NEW r, Computed(r)
  PROVE  Computed(r)'
<1>1. \A s, dn, f : Agrees(r, s, dn, f)' <=> Agrees(r, s, dn, f)
  BY DEF Agrees, Sure, Result
<1>2. QED
  BY <1>1 DEF Computed, Right

LEMMA KnowsStays ==
  ASSUME UNCHANGED <<conf, cmd, dir, contended>>, NEW p, NEW r, Knows(p, r)
  PROVE  Knows(p, r)'
<1>1. \A i : Relies(p, r, i)' <=> Relies(p, r, i)
  BY ReliesStays
<1>2. \A o, f : Fits(o, f) => Fits(o, f)'
  BY DEF Fits, Sure
<1>3. ASSUME NEW k \in DOMAIN r.obj, IsDn(k)' PROVE r.obj[k].dn = k
  BY <1>3 DEF Knows, IsDn
<1>4. QED
  BY <1>1, <1>2, <1>3 DEF Knows

LEMMA WritesStay ==
  ASSUME UNCHANGED <<conf, cmd, dir, contended, ledger>>, NEW p, NEW r, Writes(p, r)
  PROVE  Writes(p, r)'
<1>1. Computed(r)' /\ Began(r)'
  BY ComputedStays DEF Writes, Began
<1>2. Saves(p)' <=> Saves(p)
  BY DEF Saves
<1>3. Saves(p) => Ordered(p, r.todo)' /\ Knows(p, r)'
  BY OrderedStays, KnowsStays DEF Writes
<1>4. QED
  BY <1>1, <1>2, <1>3 DEF Writes

(* What is so of what a process becomes is so of the process.              *)
LEMMA WritesOf ==
  ASSUME NEW q, NEW r, Writes(q, r)', proc'[q] = r
  PROVE  Writes(q, proc[q])'
<1>1. \A s, dn, f : Agrees(r, s, dn, f)' => Agrees(proc[q], s, dn, f)'
  BY DEF Agrees, Sure, Result
<1>2. Computed(proc[q])'
  BY <1>1 DEF Writes, Computed, Right
<1>3. Began(proc[q])'
  BY DEF Writes, Began
<1>4. Ordered(q, r.todo)' => Ordered(q, proc[q].todo)'
  BY DEF Ordered, Role, Once, AskedLast, AfterSearch, Lands, Repeated, Reliant, Loads, Balance, Differ, IsKey, IsDn, KeyOf
<1>5. Knows(q, r)' => Knows(q, proc[q])'
  BY DEF Knows, Relies, Fits, Sure, Repeated, Reliant, IsDn, IsKey
<1>6. QED
  BY <1>2, <1>3, <1>4, <1>5 DEF Writes

(* Nothing is written when no request is served.                           *)
LEMMA LossOne ==
  ASSUME TypeInv, LossInv, NEW p \in Procs, NEW r, Becomes(p, r), r.state = "running" => Writes(p, r),
         UNCHANGED <<conf, cmd, dir, contended, ledger>>
  PROVE  LossInv'
<1>1. proc'[p] = r /\ \A q \in Procs \ {p} : proc'[q] = proc[q]
  BY OneBecomes DEF TypeInv
<1>2. LossNeedsRace' /\ Booking'
  <2>1. LossNeedsRace /\ Booking /\ dir' = dir /\ ledger' = ledger /\ contended' = contended /\ conf' = conf
    BY DEF LossInv
  <2>2. QED
    BY <2>1 DEF LossNeedsRace, Booking
<1>3. ASSUME NEW q \in Procs, Running(q)' PROVE Writes(q, proc[q])'
  <2>1. CASE q = p
    <3>1. Writes(q, r)'
      BY <1>1, <1>3, <2>1, WritesStay DEF Running
    <3>2. QED
      BY <1>1, <2>1, <3>1, WritesOf
  <2>2. CASE q # p
    <3>1. proc'[q] = proc[q]
      BY <1>1, <2>2
    <3>2. PICK x : x = proc[q]
      OBVIOUS
    <3>3. Writes(q, x)
      BY <1>3, <3>1, <3>2 DEF LossInv, Running
    <3>4. Writes(q, x)'
      BY <3>3, WritesStay
    <3>5. QED
      BY <3>1, <3>2, <3>4, WritesOf
  <2>3. QED
    BY <2>1, <2>2
<1>4. QED
  BY <1>2, <1>3 DEF LossInv

-----------------------------------------------------------------------------
(* What a request that is served writes.                                   *)

LEMMA ServedAdds ==
  ASSUME NEW p \in Procs, Served(p), At(p, "add")
  PROVE  /\ DOMAIN dir' = DOMAIN dir \cup {Target(p)} /\ DOMAIN ledger' = DOMAIN ledger \cup {Target(p)}
         /\ \A x \in DOMAIN dir \ {Target(p)} : dir'[x] = dir[x]
         /\ \A x \in DOMAIN ledger \ {Target(p)} : ledger'[x] = ledger[x]
         /\ dir'[Target(p)].num = Step(p).num /\ dir'[Target(p)].set = {}
         /\ ledger'[Target(p)].num = Step(p).num /\ ledger'[Target(p)].set = {}
         /\ DOMAIN ledger'[Target(p)] = {"num", "set"}
         /\ Target(p) \notin DOMAIN dir
<1> DEFINE s == Step(p)
           dn == Target(p)
           e == Entry(s.num, {}, s.ref)
           b == [num |-> s.num, set |-> {}]
           f == [x \in {dn} |-> e]
           g == [x \in {dn} |-> b]
<1>1. s.op = "add"
  BY DEF At
<1>2. dir' = With(f, dir) /\ ledger' = With(g, ledger) /\ dn \notin DOMAIN dir
  BY <1>1 DEF Served, Accepted
<1>3. e.num = s.num /\ e.set = {} /\ b.num = s.num /\ b.set = {} /\ DOMAIN b = {"num", "set"}
  BY DEF Entry
<1>4. DOMAIN f = {dn} /\ f[dn] = e /\ DOMAIN g = {dn} /\ g[dn] = b
  OBVIOUS
<1> HIDE DEF e, b, f, g, dn
<1>5. dir'[dn] = e /\ ledger'[dn] = b
  BY <1>2, <1>4 DEF With
<1>6. DOMAIN dir' = {dn} \cup DOMAIN dir /\ DOMAIN ledger' = {dn} \cup DOMAIN ledger
  BY <1>2, <1>4 DEF With
<1>7. \A x \in DOMAIN dir \ {dn} : dir'[x] = dir[x]
  BY <1>2, <1>4 DEF With
<1>8. \A x \in DOMAIN ledger \ {dn} : ledger'[x] = ledger[x]
  BY <1>2, <1>4 DEF With
<1>9. QED
  BY <1>2, <1>3, <1>5, <1>6, <1>7, <1>8 DEF dn

LEMMA ServedDeletes ==
  ASSUME NEW p \in Procs, Served(p), At(p, "delete")
  PROVE  /\ DOMAIN dir' = DOMAIN dir \ {Target(p)}
         /\ \A x \in DOMAIN dir' : dir'[x] = dir[x]
         /\ \A x \in DOMAIN ledger \ {Target(p)} : ledger'[x] = ledger[x]
<1>1. Step(p).op = "delete"
  BY DEF At
<1>2. /\ dir' = Restrict(dir, DOMAIN dir \ {Target(p)})
      /\ ledger' = Restrict(ledger, DOMAIN ledger \ {Target(p)})
  BY <1>1 DEF Served
<1>3. QED
  BY <1>2 DEF Restrict

(* The attributes of the entry a modification is about.                    *)
LEMMA ServedModifies ==
  ASSUME TypeInv, Booking, NEW p \in Procs, Served(p), At(p, "modify"), proc[p].old # <<>>
  PROVE  /\ DOMAIN dir' = DOMAIN dir /\ DOMAIN ledger' = DOMAIN ledger
         /\ \A x \in DOMAIN dir \ {Target(p)} : dir'[x] = dir[x] /\ ledger'[x] = ledger[x]
         /\ Replaces(p) => /\ Target(p) \in DOMAIN dir
                           /\ dir'[Target(p)].num = 0 /\ ledger'[Target(p)].num = 0
                           /\ dir'[Target(p)].set = {} /\ ledger'[Target(p)].set = {}
         /\ ~Replaces(p) /\ Target(p) \in DOMAIN dir =>
              /\ \A f \in {"num", "set"} \ {Step(p).field} :
                   /\ dir'[Target(p)][f] = dir[Target(p)][f]
                   /\ ledger'[Target(p)][f] = ledger[Target(p)][f]
              /\ Step(p).field \in {"num", "set"} =>
                   /\ dir'[Target(p)][Step(p).field] = IF NoChange(p) THEN dir[Target(p)][Step(p).field]
                                                       ELSE Modified(p, dir[Target(p)][Step(p).field])
                   /\ ledger'[Target(p)][Step(p).field] =
                        IF proc[p].made THEN ledger[Target(p)][Step(p).field]
                        ELSE Result(Step(p), ledger[Target(p)])
         /\ Booking'
<1> DEFINE s == Step(p)
           dn == Target(p)
           v == Modified(p, dir[dn][s.field])
           w == Result(s, ledger[dn])
<1>1. DirOK /\ s.op = "modify" /\ DOMAIN ledger = DOMAIN dir
  BY DEF At, TypeInv, DirOK
<1>2. /\ dir' = IF NoChange(p) THEN dir
                ELSE IF Replaces(p) THEN [dir EXCEPT ![dn] = Entry(0, {}, s.ref)]
                ELSE [dir EXCEPT ![dn][s.field] = v]
      /\ ledger' = Booked(p) /\ (dn \in DOMAIN dir \/ NoChange(p))
  BY <1>1 DEF Served, Accepted
<1>3. Replaces(p) => ~NoChange(p) /\ s.field = "ref"
  BY DEF Replaces, NoChange
<1>4. s.field \in {"num", "set", "ref"}
  BY <1>1, ModifiedIs DEF MayDo
<1>5. /\ DOMAIN dir' = DOMAIN dir
      /\ \A x \in DOMAIN dir \ {dn} : dir'[x] = dir[x]
      /\ Replaces(p) => dn \in DOMAIN dir /\ dir'[dn].num = 0 /\ dir'[dn].set = {}
      /\ ~Replaces(p) /\ dn \in DOMAIN dir =>
           /\ \A f \in {"num", "set"} \ {s.field} : dir'[dn][f] = dir[dn][f]
           /\ s.field \in {"num", "set"} => dir'[dn][s.field] = IF NoChange(p) THEN dir[dn][s.field] ELSE v
  <2>1. dn \in DOMAIN dir => DOMAIN dir[dn] = {"num", "set", "ref"}
    BY <1>1 DEF DirOK, IsEntry
  <2>2. CASE NoChange(p)
    BY <1>2, <1>3, <2>2
  <2>3. CASE ~NoChange(p) /\ Replaces(p)
    <3> DEFINE e == Entry(0, {}, s.ref)
    <3>1. e.num = 0 /\ e.set = {}
      BY DEF Entry
    <3>2. dir' = [dir EXCEPT ![dn] = e] /\ dn \in DOMAIN dir
      BY <1>2, <2>3
    <3> HIDE DEF e, dn
    <3>3. QED
      BY <2>3, <3>1, <3>2
  <2>4. CASE ~NoChange(p) /\ ~Replaces(p)
    <3>1. dir' = [dir EXCEPT ![dn][s.field] = v] /\ dn \in DOMAIN dir
      BY <1>2, <2>4
    <3> HIDE DEF dn, v, s
    <3>2. dir'[dn] = [dir[dn] EXCEPT ![s.field] = v]
      BY <3>1
    <3>3. /\ \A f \in {"num", "set"} \ {s.field} : dir'[dn][f] = dir[dn][f]
          /\ dir'[dn][s.field] = v
      BY <1>4, <2>1, <3>1, <3>2
    <3>4. QED
      BY <2>4, <3>1, <3>3
  <2>5. QED
    BY <2>2, <2>3, <2>4
<1>6. /\ DOMAIN ledger' = DOMAIN ledger
      /\ \A x \in DOMAIN ledger \ {dn} : ledger'[x] = ledger[x]
      /\ dn \in DOMAIN ledger =>
           /\ DOMAIN ledger'[dn] = {"num", "set"}
           /\ Replaces(p) => ledger'[dn].num = 0 /\ ledger'[dn].set = {}
           /\ ~Replaces(p) =>
                /\ \A f \in {"num", "set"} \ {s.field} : ledger'[dn][f] = ledger[dn][f]
                /\ s.field \in {"num", "set"} =>
                     ledger'[dn][s.field] = IF proc[p].made THEN ledger[dn][s.field] ELSE w
  <2>1. dn \in DOMAIN ledger => DOMAIN ledger[dn] = {"num", "set"}
    BY DEF Booking
  <2>2. CASE dn \notin DOMAIN ledger
    <3>1. ledger' = ledger
      BY <1>2, <2>2 DEF Booked
    <3>2. QED
      BY <2>2, <3>1
  <2>3. CASE dn \in DOMAIN ledger /\ Replaces(p)
    <3> DEFINE e == [num |-> 0, set |-> {}]
    <3>1. ledger' = [ledger EXCEPT ![dn] = e]
      BY <1>2, <2>3 DEF Booked
    <3>2. e.num = 0 /\ e.set = {} /\ DOMAIN e = {"num", "set"}
      OBVIOUS
    <3> HIDE DEF e, dn
    <3>3. QED
      BY <2>3, <3>1, <3>2
  <2>4. CASE dn \in DOMAIN ledger /\ ~Replaces(p) /\ (proc[p].made \/ s.field = "ref")
    <3>1. ledger' = ledger
      BY <1>2, <2>4 DEF Booked
    <3>2. s.field = "ref" => s.field \notin {"num", "set"}
      OBVIOUS
    <3>3. QED
      BY <2>1, <2>4, <3>1, <3>2
  <2>5. CASE dn \in DOMAIN ledger /\ ~Replaces(p) /\ ~(proc[p].made \/ s.field = "ref") /\ s.field = "num"
    <3>1. ledger' = [ledger EXCEPT ![dn].num = @ + s.by]
      BY <1>2, <2>5 DEF Booked
    <3>2. w = ledger[dn].num + s.by
      BY <2>5 DEF Result
    <3> HIDE DEF dn, w, s
    <3>3. ledger'[dn] = [ledger[dn] EXCEPT !.num = w]
      BY <2>5, <3>1, <3>2
    <3>4. ledger'[dn].num = w /\ ledger'[dn].set = ledger[dn].set /\ DOMAIN ledger'[dn] = {"num", "set"}
      BY <2>1, <2>5, <3>3
    <3>5. QED
      BY <2>5, <3>1, <3>4
  <2>6. CASE dn \in DOMAIN ledger /\ ~Replaces(p) /\ ~(proc[p].made \/ s.field = "ref") /\ s.field = "set"
    <3>1. ledger' = [ledger EXCEPT ![dn].set = (@ \cup s.put) \ s.drop]
      BY <1>2, <2>6 DEF Booked
    <3>2. w = (ledger[dn].set \cup s.put) \ s.drop
      BY <2>6 DEF Result
    <3> HIDE DEF dn, w, s
    <3>3. ledger'[dn] = [ledger[dn] EXCEPT !.set = w]
      BY <2>6, <3>1, <3>2
    <3>4. ledger'[dn].set = w /\ ledger'[dn].num = ledger[dn].num /\ DOMAIN ledger'[dn] = {"num", "set"}
      BY <2>1, <2>6, <3>3
    <3>5. QED
      BY <2>6, <3>1, <3>4
  <2>7. QED
    BY <1>4, <2>2, <2>3, <2>4, <2>5, <2>6
<1> HIDE DEF dn, s, v, w
<1>7. Booking'
  BY <1>6 DEF Booking
<1>8. QED
  BY <1>1, <1>5, <1>6, <1>7 DEF dn, s, v, w

LEMMA ReadyIs ==
  ASSUME TypeInv, NEW p \in Procs, Ready(p)
  PROVE  /\ \/ At(p, "add") \/ At(p, "delete") \/ (At(p, "modify") /\ proc[p].old # <<>>)
         /\ Running(p) /\ proc[p].todo # <<>> /\ Step(p) = proc[p].todo[1]
         /\ Step(p).op \in {"add", "delete", "modify"}
         /\ DOMAIN ledger = DOMAIN dir
         /\ MemoryOK(p, proc[p]) /\ IsSeq(proc[p].todo) /\ MayDo(p, Step(p), DOMAIN proc[p].obj)
         /\ proc[p].new # <<>> => At(p, "modify") /\ proc[p].old # <<>>
<1>1. Running(p) /\ proc[p].todo # <<>> /\ Step(p).op \in {"add", "delete", "modify"}
  BY DEF Ready, At
<1>2. HeadOK(proc[p]) /\ IsSeq(proc[p].todo) /\ Step(p) = proc[p].todo[1] /\ MemoryOK(p, proc[p]) /\ MayDo(p, Step(p), DOMAIN proc[p].obj)
  BY <1>1, HasMemory
<1>3. proc[p].new # <<>> => Step(p).op = "modify"
  BY <1>2 DEF HeadOK, ChangeOK, Step
<1>4. QED
  BY <1>1, <1>2, <1>3 DEF Ready, At, TypeInv, DirOK

LEMMA Untouched ==
  ASSUME TypeInv, Booking, NEW p \in Procs, Ready(p), Served(p),
         NEW dn \in DOMAIN dir', NEW f \in {"num", "set"}, <<dn, f>> \notin Attributes(p)
  PROVE  dn \in DOMAIN dir /\ dir'[dn][f] = dir[dn][f] /\ ledger'[dn][f] = ledger[dn][f]
<1>1. DOMAIN ledger = DOMAIN dir
  BY ReadyIs
<1>2. dn # Target(p) \/ (Step(p).op = "modify" /\ ~Replaces(p) /\ Step(p).field # f)
  BY DEF Attributes
<1>3. CASE At(p, "add")
  <2>1. dn # Target(p)
    BY <1>2, <1>3 DEF At
  <2>2. QED
    BY <1>1, <1>3, <2>1, ServedAdds
<1>4. CASE At(p, "delete")
  <2>1. dn # Target(p)
    BY <1>2, <1>4 DEF At
  <2>2. QED
    BY <1>1, <1>4, <2>1, ServedDeletes
<1>5. CASE At(p, "modify") /\ proc[p].old # <<>>
  <2>1. CASE dn # Target(p)
    BY <1>1, <1>5, <2>1, ServedModifies
  <2>2. CASE dn = Target(p)
    <3>1. ~Replaces(p) /\ Step(p).field # f
      BY <1>2, <2>2
    <3>2. QED
      BY <1>1, <1>5, <2>2, <3>1, ServedModifies
  <2>3. QED
    BY <2>1, <2>2
<1>6. QED
  BY <1>3, <1>4, <1>5, ReadyIs

(* What was computed is written, and is what the books say.                *)
LEMMA ValueIs ==
  ASSUME TypeInv, LossInv, NEW p \in Procs, Ready(p), Served(p), At(p, "modify"), proc[p].old # <<>>,
         NEW f \in {"num", "set"}, f = Step(p).field, f = "set" => ~conf.caching, Sure(Target(p), f)
  PROVE  dir'[Target(p)][f] = proc[p].new[1] /\ ledger'[Target(p)][f] = proc[p].new[1]
<1> DEFINE dn == Target(p)
           r == proc[p]
           s == Step(p)
<1>1. ~Replaces(p) /\ Booking /\ dn \in DOMAIN dir
  BY DEF Replaces, LossInv, Sure
<1>2. /\ dir'[dn][f] = IF NoChange(p) THEN dir[dn][f] ELSE Modified(p, dir[dn][f])
      /\ ledger'[dn][f] = IF r.made THEN ledger[dn][f] ELSE Result(s, ledger[dn])
  BY <1>1, ServedModifies
<1>3. r.new # <<>> /\ r.todo # <<>> /\ dn = r.obj[s.key].dn /\ Running(p)
  BY ModifiedIs, ReadyIs DEF TypeInv, ProcOK
<1>4. Agrees(r, s, dn, f)
  BY <1>3 DEF LossInv, Writes, Computed, Right, Step
<1>5. /\ r.old[1] = dir[dn][f]
      /\ r.new[1] = IF r.made THEN ledger[dn][f] ELSE Result(s, ledger[dn])
  BY <1>3, <1>4 DEF Agrees
<1>6. NoChange(p) => r.new[1] = r.old[1]
  BY DEF NoChange
<1>7. Modified(p, dir[dn][f]) = r.new[1]
  <2>1. CASE f = "set" /\ r.old[1] = {}
    BY <1>5, <2>1 DEF Modified
  <2>2. CASE ~(f = "set" /\ r.old[1] = {})
    BY <2>2 DEF Modified
  <2>3. QED
    BY <2>1, <2>2
<1>8. QED
  BY <1>2, <1>5, <1>6, <1>7

LEMMA LossServed ==
  ASSUME TypeInv, LossInv, NEW p \in Procs, Ready(p), Served(p), conf' = conf
  PROVE  LossNeedsRace' /\ Booking'
<1>1. contended \subseteq contended'
  BY DEF Served
<1>2. Booking /\ DOMAIN ledger = DOMAIN dir
  BY ReadyIs DEF LossInv
<1>3. Booking'
  <2>1. CASE At(p, "add")
    BY <1>2, <2>1, ServedAdds DEF Booking
  <2>2. CASE At(p, "delete")
    <3>1. /\ DOMAIN ledger' \subseteq DOMAIN ledger \ {Target(p)}
          /\ \A x \in DOMAIN ledger \ {Target(p)} : ledger'[x] = ledger[x]
      <4>1. ledger' = Restrict(ledger, DOMAIN ledger \ {Target(p)})
        BY <2>2 DEF Served, At
      <4>2. QED
        BY <4>1 DEF Restrict
    <3>2. QED
      BY <1>2, <3>1 DEF Booking
  <2>3. CASE At(p, "modify") /\ proc[p].old # <<>>
    BY <1>2, <2>3, ServedModifies
  <2>4. QED
    BY <2>1, <2>2, <2>3, ReadyIs
<1>4. ASSUME NEW dn \in DOMAIN dir', NEW f \in {"num", "set"}, <<dn, f>> \notin contended', f = "set" => ~conf.caching
      PROVE  dir'[dn][f] = ledger'[dn][f]
  <2>1. CASE <<dn, f>> \notin Attributes(p)
    <3>1. dn \in DOMAIN dir /\ dir'[dn][f] = dir[dn][f] /\ ledger'[dn][f] = ledger[dn][f]
      BY <1>2, <2>1, Untouched
    <3>2. dir[dn][f] = ledger[dn][f]
      BY <1>1, <1>4, <3>1 DEF LossInv, LossNeedsRace
    <3>3. QED
      BY <3>1, <3>2
  <2>2. CASE <<dn, f>> \in Attributes(p)
    <3>1. dn = Target(p) /\ (Step(p).op = "modify" /\ ~Replaces(p) => f = Step(p).field)
      BY <2>2 DEF Attributes
    <3>2. CASE At(p, "add")
      BY <3>1, <3>2, ServedAdds
    <3>3. CASE At(p, "delete")
      BY <3>1, <3>3, ServedDeletes
    <3>4. CASE At(p, "modify") /\ proc[p].old # <<>> /\ Replaces(p)
      BY <1>2, <3>1, <3>4, ServedModifies
    <3>5. CASE At(p, "modify") /\ proc[p].old # <<>> /\ ~Replaces(p)
      <4>1. f = Step(p).field
        BY <3>1, <3>5 DEF At
      <4>2. dn \in DOMAIN dir
        BY <1>2, <3>5, ServedModifies
      <4>3. Sure(Target(p), f)
        BY <1>1, <1>4, <3>1, <4>2 DEF Sure
      <4>4. QED
        BY <1>4, <3>1, <3>5, <4>1, <4>3, ValueIs
    <3>6. QED
      BY <3>2, <3>3, <3>4, <3>5, ReadyIs
  <2>3. QED
    BY <2>1, <2>2
<1>5. \A dn \in DOMAIN dir' :
        /\ <<dn, "num">> \notin contended' => dir'[dn].num = ledger'[dn].num
        /\ <<dn, "set">> \notin contended' /\ ~conf.caching => dir'[dn].set = ledger'[dn].set
  BY <1>4
<1>6. QED
  BY <1>3, <1>5 DEF LossNeedsRace

(* What another process is about to write is what it was, or contended.    *)
LEMMA HeldBy ==
  ASSUME TypeInv, NEW q \in Procs, Running(q), proc[q].todo # <<>>
  PROVE  /\ proc[q].new # <<>> => <<proc[q].obj[Step(q).key].dn, Step(q).field>> \in Holds(q)
         /\ \A i \in 1 .. Len(proc[q].todo) : Relies(q, proc[q], i) =>
              <<proc[q].obj[proc[q].todo[i].key].dn, proc[q].todo[i].field>> \in Holds(q)
<1> DEFINE r == proc[q]
<1>1. IsSeq(r.todo) /\ HeadOK(r)
  BY HasMemory
<1>2. ASSUME r.new # <<>> PROVE <<r.obj[Step(q).key].dn, Step(q).field>> \in Holds(q)
  <2>1. Step(q).op = "modify" /\ Step(q).key \in DOMAIN r.obj
    BY <1>1, <1>2 DEF HeadOK, ChangeOK, Step
  <2>2. Target(q) = r.obj[Step(q).key].dn
    BY <2>1 DEF Target
  <2>3. <<Target(q), Step(q).field>> \in Holds(q)
    BY <1>2 DEF Holds
  <2>4. QED
    BY <2>2, <2>3
<1>3. ASSUME NEW i \in 1 .. Len(r.todo), Relies(q, r, i)
      PROVE  <<r.obj[r.todo[i].key].dn, r.todo[i].field>> \in Holds(q)
  <2> DEFINE s == r.todo[i]
  <2>1. s \in Range(r.todo)
    BY <1>1, RangeIs
  <2>2. /\ s.op = "modify" /\ s.field \in {"num", "set"} /\ (s.field = "num" => s.how = "save")
        /\ s.key \in DOMAIN r.obj
        /\ ~\E n \in Range(r.todo) : n.op = "refresh" /\ n.key = s.key
    BY <1>3 DEF Relies, Reliant
  <2> HIDE DEF s
  <2>3. <<r.obj[s.key].dn, s.field>> \in Holds(q)
    BY <2>1, <2>2 DEF Holds
  <2>4. QED
    BY <2>3 DEF s
<1>4. QED
  BY <1>2, <1>3

LEMMA SureAfter ==
  ASSUME TypeInv, Booking, NEW p \in Procs, Ready(p), Served(p), NEW q \in Procs \ {p},
         NEW dn, NEW f \in {"num", "set"}, <<dn, f>> \in Holds(q), Sure(dn, f)'
  PROVE  Sure(dn, f) /\ dir'[dn][f] = dir[dn][f] /\ ledger'[dn][f] = ledger[dn][f]
<1>1. contended' = contended \cup {a \in Attributes(p) : \E x \in Procs \ {p} : a \in Holds(x)}
  BY DEF Served
<1>2. dn \in DOMAIN dir' /\ <<dn, f>> \notin contended'
  BY DEF Sure
<1>3. <<dn, f>> \notin Attributes(p) /\ <<dn, f>> \notin contended
  BY <1>1, <1>2
<1>4. QED
  BY <1>2, <1>3, Untouched DEF Sure

LEMMA ResultStays == \A s, e : Result(s, e)' = Result(s, e)
BY DEF Result

LEMMA OthersKeep ==
  ASSUME TypeInv, LossInv, NEW p \in Procs, Ready(p), Served(p), UNCHANGED <<conf, cmd>>,
         NEW q \in Procs \ {p}, proc'[q] = proc[q], Running(q)
  PROVE  Writes(q, proc[q])'
<1>1. PICK r : r = proc[q]
  OBVIOUS
<1>2. Writes(q, r) /\ Booking /\ IsSeq(r.todo) /\ HeadOK(r)
  BY <1>1, HasMemory DEF LossInv
<1>3. Computed(r)'
  <2>1. SUFFICES ASSUME r.todo # <<>> PROVE Right(r, Head(r.todo))'
    BY DEF Computed
  <2> DEFINE s == Head(r.todo)
             dn == r.obj[s.key].dn
             f == s.field
  <2>2. Agrees(r, s, dn, f)
    BY <1>2, <2>1 DEF Writes, Computed, Right
  <2>3. Agrees(r, s, dn, f)'
    <3>1. SUFFICES ASSUME r.new # <<>>, f \in {"num", "set"}, f = "set" => ~conf.caching, Sure(dn, f)'
                   PROVE  /\ r.old # <<>> => r.old[1] = dir'[dn][f]
                          /\ r.new[1] = IF r.made THEN ledger'[dn][f] ELSE Result(s, ledger'[dn])
      BY ResultStays DEF Agrees
    <3>2. <<dn, f>> \in Holds(q)
      BY <1>1, <2>1, <3>1, HeldBy DEF Step
    <3>3. Sure(dn, f) /\ dir'[dn][f] = dir[dn][f] /\ ledger'[dn][f] = ledger[dn][f]
      BY <1>2, <3>1, <3>2, SureAfter
    <3>4. /\ r.old # <<>> => r.old[1] = dir[dn][f]
          /\ r.new[1] = IF r.made THEN ledger[dn][f] ELSE Result(s, ledger[dn])
      BY <2>2, <3>1, <3>3 DEF Agrees
    <3> HIDE DEF dn
    <3>5. Result(s, ledger'[dn]) = Result(s, ledger[dn])
      BY <3>1, <3>3 DEF Result
    <3>6. QED
      BY <3>3, <3>4, <3>5
  <2>4. QED
    BY <2>3 DEF Right
<1>4. Began(r)'
  BY <1>2 DEF Writes, Began
<1>5. ASSUME Saves(q) PROVE Ordered(q, r.todo)' /\ Knows(q, r)'
  <2>1. Ordered(q, r.todo) /\ Knows(q, r)
    BY <1>2, <1>5 DEF Writes
  <2>2. Ordered(q, r.todo)'
    BY <2>1, OrderedStays
  <2>3. \A i : Relies(q, r, i)' <=> Relies(q, r, i)
    BY ReliesStays
  <2>4. ASSUME NEW i \in 1 .. Len(r.todo), Relies(q, r, i)
        PROVE  Fits(r.obj[r.todo[i].key], r.todo[i].field)'
    <3> DEFINE o == r.obj[r.todo[i].key]
               f == r.todo[i].field
    <3>1. Fits(o, f)
      BY <2>1, <2>4 DEF Knows
    <3>2. r.todo # <<>> /\ f \in {"num", "set"}
      BY <1>2, <2>4, RangeIs DEF Relies, Reliant
    <3>3. <<o.dn, f>> \in Holds(q)
      BY <1>1, <2>4, <3>2, HeldBy
    <3>4. Sure(o.dn, f)' => Sure(o.dn, f) /\ dir'[o.dn][f] = dir[o.dn][f]
      BY <1>2, <3>2, <3>3, SureAfter
    <3> HIDE DEF o, f
    <3>5. Fits(o, f)'
      BY <3>1, <3>4 DEF Fits
    <3>6. QED
      BY <3>5 DEF o, f
  <2>5. \A k \in DOMAIN r.obj : IsDn(k)' => r.obj[k].dn = k
    BY <2>1 DEF Knows, IsDn
  <2>6. QED
    BY <2>2, <2>3, <2>4, <2>5 DEF Knows
<1>6. Saves(q)' <=> Saves(q)
  BY DEF Saves
<1>7. Writes(q, r)'
  BY <1>3, <1>4, <1>5, <1>6 DEF Writes
<1>8. QED
  BY <1>1, <1>7, WritesOf

(* A request that is served: all is kept but what the process becomes.     *)
LEMMA LossOther ==
  ASSUME TypeInv, LossInv, NEW p \in Procs, Ready(p), Served(p), UNCHANGED <<conf, cmd>>,
         NEW r, Becomes(p, r), r.state = "running" => Writes(p, r)'
  PROVE  LossInv'
<1>1. proc'[p] = r /\ \A q \in Procs \ {p} : proc'[q] = proc[q]
  BY OneBecomes DEF TypeInv
<1>2. LossNeedsRace' /\ Booking'
  BY LossServed
<1>3. ASSUME NEW q \in Procs, Running(q)' PROVE Writes(q, proc[q])'
  <2>1. CASE q = p
    BY <1>1, <1>3, <2>1, WritesOf DEF Running
  <2>2. CASE q # p
    <3>1. proc'[q] = proc[q] /\ Running(q)
      BY <1>1, <1>3, <2>2 DEF Running
    <3>2. QED
      BY <2>2, <3>1, OthersKeep
  <2>3. QED
    BY <2>1, <2>2
<1>4. QED
  BY <1>2, <1>3 DEF LossInv

-----------------------------------------------------------------------------
(* What a process that saves makes of its own requests.                    *)

LEMMA KeyOrDn == ASSUME NEW k PROVE ~(IsKey(k) /\ IsDn(k)) /\ (IsKey(k) => SubSeq(k, 1, 3) = k)
<1>1. ~(IsKey(k) /\ IsDn(k))
  BY DEF IsKey, IsDn
<1>2. ASSUME IsKey(k) PROVE SubSeq(k, 1, 3) = k
  <2>1. SubSeq(<<k[1], k[2], k[3]>>, 1, 3) = <<k[1], k[2], k[3]>>
    BY AllThree
  <2>2. QED
    BY <1>2, <2>1 DEF IsKey
<1>3. QED
  BY <1>1, <1>2

LEMMA NamesDiffer ==
  ASSUME NEW p, NEW r, MemoryOK(p, r), Knows(p, r), NEW k \in DOMAIN r.obj, NEW l \in DOMAIN r.obj, Differ(k, l)
  PROVE  r.obj[k].dn # r.obj[l].dn
<1>1. KeyOf(r.obj[k].dn) = SubSeq(k, 1, 3) /\ KeyOf(r.obj[l].dn) = SubSeq(l, 1, 3)
  BY DEF MemoryOK, IsObject
<1>2. CASE IsKey(k) /\ IsKey(l)
  BY <1>1, <1>2, KeyOrDn DEF Differ
<1>3. CASE IsDn(k) /\ IsDn(l)
  BY <1>3 DEF Knows, Differ
<1>4. CASE KeyOf(k) # KeyOf(l)
  BY <1>1, <1>4 DEF KeyOf
<1>5. QED
  BY <1>2, <1>3, <1>4 DEF Differ

LEMMA OwnKeeps ==
  ASSUME TypeInv, LossInv, NEW p \in Procs, Ready(p), Served(p), UNCHANGED <<conf, cmd>>, Saves(p),
         NEW r, r = proc[p], NEW i \in 2 .. Len(r.todo), Relies(p, r, i)
  PROVE  Fits(r.obj[r.todo[i].key], r.todo[i].field)'
<1> DEFINE t == r.todo
           h == t[1]
           s == t[i]
           k == s.key
           f == s.field
           o == r.obj[k]
<1>1. /\ Running(p) /\ t # <<>> /\ Step(p) = h /\ h.op \in {"add", "delete", "modify"} /\ MemoryOK(p, r)
      /\ IsSeq(t) /\ MayDo(p, h, DOMAIN r.obj) /\ Ready(p)
  BY ReadyIs
<1>2. Ordered(p, t) /\ Knows(p, r) /\ Booking
  BY <1>1 DEF LossInv, Writes
<1>3. Len(t) \in Nat /\ i \in 1 .. Len(t) /\ 1 \in 1 .. Len(t) /\ 1 < i
  BY <1>1, RangeIs
<1>4. h \in Range(t) /\ s \in Range(t) /\ Role(p, h) /\ Role(p, s)
  BY <1>1, <1>2, <1>3, RangeIs DEF Ordered
<1>5. s.op = "modify" /\ Reliant(s) /\ f \in {"num", "set"} /\ k \in DOMAIN r.obj /\ Fits(o, f)
  BY <1>2, <1>3 DEF Relies, Reliant, Knows
<1>6. KeyOf(o.dn) = SubSeq(k, 1, 3)
  BY <1>1, <1>5 DEF MemoryOK, IsObject
<1> HIDE DEF t, h, s, k, f, o
<1>7. SUFFICES ASSUME Sure(o.dn, f)' PROVE o[f] = dir'[o.dn][f]
  BY DEF Fits, o, k, f, s, t
<1>8. o.dn \in DOMAIN dir' /\ <<o.dn, f>> \notin contended' /\ contended \subseteq contended'
  BY <1>7 DEF Sure, Served
<1>9. CASE <<o.dn, f>> \notin Attributes(p)
  <2>1. o.dn \in DOMAIN dir /\ dir'[o.dn][f] = dir[o.dn][f]
    BY <1>2, <1>5, <1>8, <1>9, Untouched
  <2>2. Sure(o.dn, f)
    BY <1>8, <2>1 DEF Sure
  <2>3. QED
    BY <1>5, <2>1, <2>2 DEF Fits
<1>10. CASE <<o.dn, f>> \in Attributes(p)
  <2>1. o.dn = Target(p) /\ (h.op = "modify" /\ ~Replaces(p) => h.field = f)
    BY <1>1, <1>10 DEF Attributes
  <2>2. h.op # "delete"
    <3>1. SUFFICES ASSUME h.op = "delete" PROVE FALSE
      OBVIOUS
    <3>2. At(p, "delete")
      BY <1>1, <3>1 DEF At
    <3>3. QED
      BY <1>8, <2>1, <3>2, ServedDeletes
  <2>3. h.op # "add"
    <3>1. SUFFICES ASSUME h.op = "add" PROVE FALSE
      OBVIOUS
    <3>2. KeyOf(Target(p)) = h.key
      BY <1>1, <3>1, AddedIs DEF At
    <3>3. cmd[p].do = "adduser"
      BY <1>4, <3>1 DEF Role
    <3>4. IsKey(k)
      BY <1>4, <1>5, <3>3 DEF Role, k
    <3>5. h.key = k
      BY <1>6, <2>1, <3>2, <3>4, KeyOrDn
    <3>6. QED
      BY <1>4, <3>1, <3>5 DEF Relies, t, s, k
  <2>4. h.op = "modify" /\ At(p, "modify") /\ proc[p].old # <<>>
    BY <1>1, <2>2, <2>3, ReadyIs DEF At
  <2>5. h.key \in DOMAIN r.obj /\ Target(p) = r.obj[h.key].dn
    BY <1>1, <2>4, ModifiedIs
  <2>6. ~Replaces(p)
    <3>1. SUFFICES ASSUME Replaces(p) PROVE FALSE
      OBVIOUS
    <3>2. h.field = "ref" /\ Target(p)[1] = "job"
      BY <1>1, <3>1 DEF Replaces
    <3>3. IsKey(h.key) /\ h.key[1] # "job"
      BY <1>1, <1>4, <2>4, <3>2 DEF MayDo, Role
    <3>4. KeyOf(Target(p)) = h.key
      BY <1>1, <2>4, <3>3, ModifiedIs
    <3>5. Target(p) \in DOMAIN dir
      BY <1>2, <2>4, <3>1, ServedModifies
    <3>6. IsDn(Target(p))
      BY <3>5 DEF TypeInv, DirOK
    <3>7. h.key = <<Target(p)[1], Target(p)[2], Target(p)[3]>>
      BY <3>4, <3>6, KeyIs
    <3>8. QED
      BY <3>2, <3>3, <3>7
  <2>7. h.field = f
    BY <2>1, <2>4, <2>6
  <2>8. ~Repeated(p, s)
    <3>1. SUFFICES ASSUME Repeated(p, s) PROVE FALSE
      OBVIOUS
    <3>2. i <= 2
      BY <3>1 DEF Relies, s, t
    <3>3. i = 2 /\ i - 1 = 1
      BY <1>3, <3>2
    <3>4. t[i - 1].field = "num"
      BY <1>2, <1>3, <3>1, <3>3 DEF Ordered, AfterSearch, s
    <3>5. QED
      BY <2>7, <3>1, <3>3, <3>4 DEF Repeated, h, f
  <2>9. Differ(h.key, k)
    BY <1>2, <1>3, <1>5, <2>4, <2>7, <2>8 DEF Ordered, Once, h, s, k, f
  <2>10. r.obj[h.key].dn # o.dn
    BY <1>1, <1>2, <1>5, <2>5, <2>9, NamesDiffer DEF o
  <2>11. QED
    BY <2>1, <2>5, <2>10
<1>11. QED
  BY <1>9, <1>10

LEMMA RangeAfter ==
  ASSUME NEW t, IsSeq(t), NEW x \in Range(t)
  PROVE  x = t[1] \/ x \in Range(After(t, 0))
<1> DEFINE u == After(t, 0)
<1>1. PICK i \in 1 .. Len(t) : x = t[i]
  BY RangeIs
<1>2. CASE i = 1
  BY <1>1, <1>2
<1>3. CASE i # 1
  <2>1. Len(t) \in Nat /\ i >= 2 /\ i - 1 >= 1
    BY <1>1, <1>3, RangeIs
  <2>2. /\ IsSeq(u) /\ Len(u) = IF 0 # Stop /\ 0 + 2 <= Len(t) THEN Len(t) - 0 - 1 ELSE 0
        /\ \A j \in 1 .. Len(u) : j + 0 + 1 \in 1 .. Len(t) /\ u[j] = t[j + 0 + 1]
    BY AfterIs
  <2> HIDE DEF u
  <2>3. Len(u) = Len(t) - 1
    BY <1>1, <2>1, <2>2 DEF Stop
  <2>4. i - 1 \in 1 .. Len(u) /\ (i - 1) + 0 + 1 = i
    BY <1>1, <2>1, <2>3
  <2>5. u[i - 1] = t[i]
    BY <2>2, <2>4
  <2>6. QED
    BY <1>1, <2>2, <2>4, <2>5, RangeIs DEF u
<1>4. QED
  BY <1>2, <1>3

(* What a process relies on after a step it relied on before.              *)
LEMMA Relied ==
  ASSUME NEW p, NEW r, IsSeq(r.todo), NEW r2, NEW n \in Nat, r2.todo = After(r.todo, n),
         NEW i \in 1 .. Len(r2.todo), Relies(p, r2, i), r2.todo[i].key \in DOMAIN r.obj,
         Repeated(p, r2.todo[i]) => i + n + 1 <= 2,
         \A m \in Range(r.todo) : m.op \in {"refresh", "add"} => m.key # r2.todo[i].key
  PROVE  /\ i + n + 1 \in 2 .. Len(r.todo) /\ r.todo[i + n + 1] = r2.todo[i]
         /\ Relies(p, r, i + n + 1)
<1>1. i + n + 1 \in 1 .. Len(r.todo) /\ r.todo[i + n + 1] = r2.todo[i]
  BY AfterIs
<1>2. i \in Nat /\ i >= 1
  BY AfterIs, RangeIs
<1>3. i + n + 1 # 1 /\ i + n + 1 >= 2
  BY <1>2
<1>4. Relies(p, r, i + n + 1)
  BY <1>1, <1>3 DEF Relies
<1>5. QED
  BY <1>1, <1>3, <1>4

LEMMA NextRelied ==
  ASSUME NEW p, NEW r, IsSeq(r.todo), NEW r2, r2.todo = After(r.todo, 0),
         NEW i \in 1 .. Len(r2.todo), Relies(p, r2, i), r2.todo[i].key \in DOMAIN r.obj,
         Repeated(p, r2.todo[i]) => i = 1,
         r.todo[1].op \in {"refresh", "add"} => r.todo[1].key # r2.todo[i].key
  PROVE  /\ i + 1 \in 2 .. Len(r.todo) /\ r.todo[i + 1] = r2.todo[i] /\ Relies(p, r, i + 1)
<1>1. 0 \in Nat /\ i + 0 + 1 = i + 1 /\ (i = 1 => i + 0 + 1 <= 2)
  <2>1. i \in Nat
    BY AfterIs, RangeIs
  <2>2. QED
    BY <2>1
<1>2. ASSUME NEW m \in Range(r.todo), m.op \in {"refresh", "add"} PROVE m.key # r2.todo[i].key
  BY <1>2, RangeAfter DEF Relies
<1>3. PICK n \in Nat : n = 0
  OBVIOUS
<1>4. /\ r2.todo = After(r.todo, n) /\ i + n + 1 = i + 1
      /\ Repeated(p, r2.todo[i]) => i + n + 1 <= 2
  BY <1>1, <1>3
<1>5. i + n + 1 \in 2 .. Len(r.todo) /\ r.todo[i + n + 1] = r2.todo[i] /\ Relies(p, r, i + n + 1)
  BY <1>2, <1>4, Relied
<1>6. QED
  BY <1>4, <1>5

LEMMA RestWrites ==
  ASSUME NEW p, NEW r, IsProc(r), NEW t, Saves(p) => Ordered(p, t) /\ Knows(p, Rest(r, t))
  PROVE  Writes(p, Rest(r, t))
<1>1. Rest(r, t).new = <<>> /\ Rest(r, t).made = FALSE /\ Rest(r, t).todo = t
  BY DEF Rest, IsProc, Fields
<1>2. Computed(Rest(r, t)) /\ Began(Rest(r, t))
  BY <1>1 DEF Computed, Right, Agrees, Began
<1>3. QED
  BY <1>1, <1>2 DEF Writes

(* The entry that was asked is another now: the first of two the process   *)
(* still relies on is the next.                                            *)
LEMMA FirstRepeated ==
  ASSUME NEW p, NEW t, IsSeq(t), Ordered(p, t), t[1].op # "find",
         NEW i \in 1 .. Len(After(t, 0)), Repeated(p, After(t, 0)[i]), i <= 2
  PROVE  i = 1
<1> DEFINE u == After(t, 0)
<1>1. i + 0 + 1 \in 1 .. Len(t) /\ u[i] = t[i + 0 + 1] /\ i \in Nat /\ i >= 1
  BY AfterIs, RangeIs
<1>2. SUFFICES ASSUME i = 2 PROVE FALSE
  BY <1>1
<1>3. i + 0 + 1 = 3 /\ 3 - 2 = 1 /\ 3 >= 3
  BY <1>2
<1>4. Repeated(p, t[3]) /\ 3 \in 1 .. Len(t)
  BY <1>1, <1>3
<1>5. Loads(t[1], t[3].key)
  BY <1>3, <1>4 DEF Ordered, AfterSearch
<1>6. QED
  BY <1>5 DEF Loads

-----------------------------------------------------------------------------
(* A request, answered or not.                                             *)

LEMMA KeptIs ==
  ASSUME TypeInv, NEW p \in Procs, Ready(p)
  PROVE  /\ IsProc(Kept(p)) /\ Kept(p).state = "running"
         /\ Step(p).op # "add" => Kept(p).obj = proc[p].obj
         /\ Step(p).op = "add" =>
              /\ IsKey(Step(p).key) /\ DOMAIN Kept(p).obj = {Step(p).key} \cup DOMAIN proc[p].obj
              /\ Kept(p).obj[Step(p).key] = [dn |-> Target(p), num |-> Step(p).num, set |-> {}]
              /\ \A k \in DOMAIN proc[p].obj : k # Step(p).key => Kept(p).obj[k] = proc[p].obj[k]
<1>1. IsProc(proc[p]) /\ proc[p].state = "running"
  BY ReadyIs DEF MemoryOK, Running
<1>2. CASE Step(p).op # "add"
  BY <1>1, <1>2 DEF Kept
<1>3. CASE Step(p).op = "add"
  <2> DEFINE key == Step(p).key
             o == [dn |-> Target(p), num |-> Step(p).num, set |-> {}]
             g == [k \in {key} |-> o]
  <2>1. IsKey(key)
    BY <1>3, ReadyIs DEF MayDo
  <2>2. Kept(p) = [proc[p] EXCEPT !.obj = With(g, proc[p].obj)]
    BY <1>3 DEF Kept, WithObject
  <2>3. DOMAIN g = {key} /\ g[key] = o
    OBVIOUS
  <2> HIDE DEF g, o, key
  <2>4. IsProc(Kept(p)) /\ Kept(p).state = "running" /\ Kept(p).obj = With(g, proc[p].obj)
    BY <1>1, <2>2 DEF IsProc, Fields
  <2>5. QED
    BY <1>3, <2>1, <2>3, <2>4 DEF With, o, key
<1>4. QED
  BY <1>2, <1>3

LEMMA RequestWrites ==
  ASSUME TypeInv, LossInv, NEW p \in Procs, Request(p)
  PROVE  LossInv'
<1>1. Ready(p) /\ Served(p) /\ Becomes(p, Rest(Kept(p), Skipping(p, 0))) /\ UNCHANGED <<conf, cmd>>
  BY DEF Request
<1>2. PICK r : r = proc[p]
  OBVIOUS
<1>3. PICK k : k = Kept(p)
  OBVIOUS
<1>4. PICK s : s = Step(p)
  OBVIOUS
<1> DEFINE t == r.todo
           u == After(t, 0)
           r2 == Rest(k, u)
<1>5. Becomes(p, r2)
  BY <1>1, <1>2, <1>3 DEF Skipping, After
<1>6. /\ IsProc(k) /\ k.state = "running"
      /\ s.op # "add" => k.obj = r.obj
      /\ s.op = "add" =>
           /\ IsKey(s.key) /\ DOMAIN k.obj = {s.key} \cup DOMAIN r.obj
           /\ k.obj[s.key] = [dn |-> Target(p), num |-> s.num, set |-> {}]
           /\ \A x \in DOMAIN r.obj : x # s.key => k.obj[x] = r.obj[x]
  BY <1>1, <1>2, <1>3, <1>4, KeptIs
<1>7. IsProc(r2) /\ r2.todo = u /\ r2.obj = k.obj /\ r2.state = k.state
  BY <1>6 DEF Rest, IsProc, Fields
<1>8. /\ IsSeq(t) /\ t # <<>> /\ s = t[1] /\ s.op \in {"add", "delete", "modify"} /\ Running(p)
  BY <1>1, <1>2, <1>4, ReadyIs
<1>9. ASSUME Saves(p) PROVE Ordered(p, u)' /\ Knows(p, r2)'
  <2>1. Ordered(p, t) /\ Knows(p, r)
    BY <1>2, <1>8, <1>9 DEF LossInv, Writes
  <2>2. Ordered(p, u)'
    <3>1. Ordered(p, u)
      BY <1>8, <2>1, OrderedAfter
    <3> HIDE DEF u
    <3>2. QED
      BY <1>1, <3>1, OrderedStays
  <2>3. ASSUME NEW x \in DOMAIN r2.obj, IsDn(x) PROVE r2.obj[x].dn = x
    <3>1. x # s.key \/ s.op # "add"
      BY <1>6, <2>3, KeyOrDn
    <3>2. QED
      BY <1>6, <1>7, <2>1, <2>3, <3>1 DEF Knows
  <2>4. ASSUME NEW i \in 1 .. Len(r2.todo), Relies(p, r2, i)
        PROVE  Fits(r2.obj[r2.todo[i].key], r2.todo[i].field)'
    <3> DEFINE x == r2.todo[i].key
               f == r2.todo[i].field
    <3>1. x \in DOMAIN k.obj /\ f \in {"num", "set"} /\ (Repeated(p, r2.todo[i]) => i <= 2)
      BY <1>7, <2>4 DEF Relies, Reliant
    <3>2. CASE s.op = "add" /\ x = s.key
      <4>1. At(p, "add")
        BY <1>2, <1>4, <1>8, <3>2 DEF At
      <4>2. dir'[Target(p)].num = s.num /\ dir'[Target(p)].set = {}
        BY <1>1, <1>4, <4>1, ServedAdds
      <4>3. PICK q : q = Target(p)
        OBVIOUS
      <4>4. r2.obj[x] = [dn |-> q, num |-> s.num, set |-> {}]
        BY <1>6, <1>7, <3>2, <4>3
      <4>5. r2.obj[x].dn = q /\ r2.obj[x].num = s.num /\ r2.obj[x].set = {}
        BY <4>4
      <4>6. r2.obj[x][f] = dir'[r2.obj[x].dn][f]
        BY <3>1, <4>2, <4>3, <4>5
      <4> HIDE DEF r2, x, f
      <4>7. Fits(r2.obj[x], f)'
        BY <4>6 DEF Fits
      <4>8. QED
        BY <4>7 DEF x, f
    <3>3. CASE ~(s.op = "add" /\ x = s.key)
      <4>1. x \in DOMAIN r.obj /\ r2.obj[x] = r.obj[x]
        BY <1>6, <1>7, <3>1, <3>3
      <4>2. Repeated(p, r2.todo[i]) => i = 1
        <5>1. SUFFICES ASSUME Repeated(p, r2.todo[i]) PROVE i = 1
          OBVIOUS
        <5>2. i <= 2 /\ t[1].op # "find" /\ r2.todo = u
          BY <1>7, <1>8, <3>1, <5>1
        <5> HIDE DEF r2, t
        <5>3. QED
          BY <1>8, <2>1, <2>4, <5>1, <5>2, FirstRepeated
      <4>3. t[1].op \in {"refresh", "add"} => t[1].key # r2.todo[i].key
        BY <1>8, <3>3
      <4> HIDE DEF r2
      <4>4. i + 1 \in 2 .. Len(t) /\ t[i + 1] = r2.todo[i] /\ Relies(p, r, i + 1)
        BY <1>7, <1>8, <2>4, <4>1, <4>2, <4>3, NextRelied
      <4>5. Fits(r.obj[t[i + 1].key], t[i + 1].field)'
        BY <1>1, <1>2, <1>9, <4>4, OwnKeeps
      <4>6. r.obj[t[i + 1].key] = r2.obj[x] /\ t[i + 1].field = f
        BY <4>1, <4>4
      <4>7. QED
        BY <4>5, <4>6
    <3>4. QED
      BY <3>2, <3>3
  <2> HIDE DEF r2
  <2>5. \A i : Relies(p, r2, i)' <=> Relies(p, r2, i)
    BY <1>1, ReliesStays
  <2>6. \A x \in DOMAIN r2.obj : IsDn(x)' => r2.obj[x].dn = x
    BY <2>3 DEF IsDn
  <2>7. Knows(p, r2)'
    BY <2>4, <2>5, <2>6 DEF Knows
  <2>8. QED
    BY <2>2, <2>7
<1>10. Writes(p, r2)'
  <2>1. r2.new = <<>> /\ r2.made = FALSE
    BY <1>6 DEF Rest, IsProc, Fields
  <2> HIDE DEF r2, u
  <2>2. Computed(r2)' /\ Began(r2)'
    BY <2>1 DEF Computed, Right, Agrees, Began
  <2>3. Saves(p)' <=> Saves(p)
    BY <1>1 DEF Saves
  <2>4. QED
    BY <1>7, <1>9, <2>2, <2>3 DEF Writes
<1> HIDE DEF r2
<1>11. QED
  BY <1>1, <1>5, <1>10, LossOther

LEMMA FailWrites ==
  ASSUME TypeInv, LossInv, NEW p \in Procs, Fail(p), UNCHANGED <<conf, cmd, dir, contended, ledger>>
  PROVE  LossInv'
<1> DEFINE r == [proc[p] EXCEPT !.state = "failed", !.old = <<>>]
<1>1. IsProc(proc[p])
  BY DEF TypeInv, ProcOK
<1>2. r.state = "failed"
  BY <1>1 DEF IsProc, Fields
<1>3. Becomes(p, r)
  BY DEF Fail
<1> HIDE DEF r
<1>4. QED
  BY <1>2, <1>3, LossOne

(* What trying again makes of a process.                                   *)
Retried(r, r2, made) ==
  \/ r2.state = "failed"
  \/ /\ r2.state = "running" /\ r2.todo = r.todo /\ r2.obj = r.obj /\ r2.new = r.new /\ r2.old = <<>>
     /\ r2.made = (r.made \/ made)

LEMMA RetryIs ==
  ASSUME TypeInv, NEW p \in Procs, Running(p), NEW made \in BOOLEAN, TryAgain(p, made)
  PROVE  \E r2 : Becomes(p, r2) /\ Retried(proc[p], r2, made)
<1>1. IsProc(proc[p]) /\ proc[p].state = "running"
  BY DEF TypeInv, ProcOK, Running
<1>2. CASE Fail(p)
  <2> DEFINE r == [proc[p] EXCEPT !.state = "failed", !.old = <<>>]
  <2>1. r.state = "failed" /\ Becomes(p, r)
    BY <1>1, <1>2 DEF Fail, IsProc, Fields
  <2> HIDE DEF r
  <2>2. QED
    BY <2>1 DEF Retried
<1>3. CASE Again(p, made) /\ MayTryAgain(p)
  <2> DEFINE n == IF proc[p].tries < 3 THEN proc[p].tries + 1 ELSE proc[p].tries
             m == proc[p].made \/ made
             r == [proc[p] EXCEPT !.tries = n, !.old = <<>>, !.made = m]
  <2>1. Becomes(p, r)
    BY <1>3 DEF Again
  <2> HIDE DEF n, m
  <2>2. /\ r.state = "running" /\ r.todo = proc[p].todo /\ r.obj = proc[p].obj /\ r.new = proc[p].new
        /\ r.old = <<>> /\ r.made = m
    BY <1>1 DEF IsProc, Fields
  <2> HIDE DEF r
  <2>3. QED
    BY <2>1, <2>2 DEF Retried, m
<1>4. QED
  BY <1>2, <1>3 DEF TryAgain, Again

LEMMA RetryWrites ==
  ASSUME TypeInv, LossInv, NEW p \in Procs, Running(p), TryAgain(p, FALSE),
         UNCHANGED <<conf, cmd, dir, contended, ledger>>
  PROVE  LossInv'
<1>1. PICK r2 : Becomes(p, r2) /\ Retried(proc[p], r2, FALSE)
  BY RetryIs
<1>2. Writes(p, proc[p]) /\ proc[p].made \in BOOLEAN
  BY DEF LossInv, TypeInv, ProcOK
<1>3. ASSUME r2.state = "running" PROVE Writes(p, r2)
  <2>1. /\ r2.todo = proc[p].todo /\ r2.obj = proc[p].obj /\ r2.new = proc[p].new /\ r2.old = <<>>
        /\ r2.made = proc[p].made
    BY <1>1, <1>2, <1>3 DEF Retried
  <2>2. \A s, dn, f : Agrees(proc[p], s, dn, f) => Agrees(r2, s, dn, f)
    BY <2>1 DEF Agrees
  <2>3. Computed(r2) /\ Began(r2)
    BY <1>2, <2>1, <2>2 DEF Writes, Computed, Right, Began
  <2>4. \A i : Relies(p, r2, i) <=> Relies(p, proc[p], i)
    BY <2>1 DEF Relies
  <2>5. Knows(p, proc[p]) => Knows(p, r2)
    BY <2>1, <2>4 DEF Knows
  <2>6. QED
    BY <1>2, <2>1, <2>3, <2>5 DEF Writes
<1>4. QED
  BY <1>1, <1>3, LossOne

(* The request was made, but nobody was told.                              *)
LEMMA AnswerWrites ==
  ASSUME TypeInv, LossInv, NEW p \in Procs, AnswerLost(p)
  PROVE  LossInv'
<1>1. Ready(p) /\ Served(p) /\ TryAgain(p, TRUE) /\ UNCHANGED <<conf, cmd>> /\ Running(p)
  BY ReadyIs DEF AnswerLost
<1>2. PICK r : r = proc[p]
  OBVIOUS
<1>3. PICK r2 : Becomes(p, r2) /\ Retried(r, r2, TRUE)
  BY <1>1, <1>2, RetryIs
<1>4. Writes(p, r) /\ IsSeq(r.todo) /\ r.todo # <<>> /\ Head(r.todo) = Step(p) /\ Step(p).op \in {"add", "delete", "modify"}
  BY <1>1, <1>2, ReadyIs DEF LossInv, Step
<1>5. ASSUME r2.state = "running" PROVE Writes(p, r2)'
  <2>1. /\ r2.todo = r.todo /\ r2.obj = r.obj /\ r2.new = r.new /\ r2.old = <<>> /\ r2.made = TRUE
    BY <1>3, <1>5 DEF Retried
  <2>2. PICK s : s = Step(p)
    OBVIOUS
  <2>3. s = Head(r2.todo)
    BY <1>4, <2>1, <2>2
  <2>4. r.new # <<>> => At(p, "modify") /\ r.old # <<>>
    BY <1>1, <1>2, ReadyIs
  <2>5. Right(r2, s)'
    <3> DEFINE dn == r.obj[s.key].dn
               f == s.field
    <3>1. ASSUME r.new # <<>>, f \in {"num", "set"}, f = "set" => ~conf.caching, Sure(dn, f)'
          PROVE  r.new[1] = ledger'[dn][f]
      <4>1. At(p, "modify") /\ proc[p].old # <<>> /\ Target(p) = dn
        BY <1>2, <2>2, <2>4, <3>1, ModifiedIs
      <4>2. dn \in DOMAIN dir' /\ <<dn, f>> \notin contended' /\ contended \subseteq contended'
        BY <1>1, <3>1 DEF Sure, Served
      <4>3. DOMAIN dir' = DOMAIN dir
        BY <1>1, <4>1, ServedModifies DEF LossInv
      <4>4. Sure(dn, f)
        BY <4>2, <4>3 DEF Sure
      <4> HIDE DEF dn
      <4>5. ledger'[Target(p)][f] = proc[p].new[1]
        BY <1>1, <2>2, <3>1, <4>1, <4>4, ValueIs
      <4>6. QED
        BY <1>2, <4>1, <4>5
    <3>2. Agrees(r2, s, dn, f)'
      <4> HIDE DEF dn, f
      <4>1. QED
        BY <1>1, <2>1, <3>1 DEF Agrees
    <3>3. dn = r2.obj[s.key].dn
      BY <2>1
    <3> HIDE DEF dn
    <3>4. QED
      BY <3>2, <3>3 DEF Right
  <2>6. Computed(r2)'
    BY <2>3, <2>5 DEF Computed
  <2>7. Began(r2)'
    <3>1. s.op = "modify" => r.new # <<>>
      BY <1>1, <1>2, <2>2, ReadyIs DEF At, TypeInv, ProcOK
    <3>2. QED
      BY <2>1, <2>3, <3>1 DEF Began
  <2>8. ASSUME Saves(p) PROVE Ordered(p, r2.todo)' /\ Knows(p, r2)'
    <3>1. Ordered(p, r.todo) /\ Knows(p, r)
      BY <1>4, <2>8 DEF Writes
    <3>2. Ordered(p, r2.todo)'
      BY <1>1, <2>1, <3>1, OrderedStays
    <3>3. ASSUME NEW i \in 1 .. Len(r2.todo), Relies(p, r2, i)
          PROVE  Fits(r2.obj[r2.todo[i].key], r2.todo[i].field)'
      <4>1. Relies(p, r, i)
        BY <2>1, <3>3 DEF Relies
      <4>2. i # 1
        <5>1. SUFFICES ASSUME i = 1 PROVE FALSE
          OBVIOUS
        <5>2. r.new = <<>> /\ s.op = "modify"
          <6>1. s = r.todo[1]
            BY <1>4, <2>2, RangeIs
          <6>2. QED
            BY <4>1, <5>1, <6>1 DEF Relies, Reliant
        <5>3. r.new # <<>>
          BY <1>1, <1>2, <2>2, <5>2, ReadyIs DEF At, TypeInv, ProcOK
        <5>4. QED
          BY <5>2, <5>3
      <4>3. i \in 2 .. Len(r.todo)
        BY <1>4, <2>1, <3>3, <4>2, RangeIs
      <4>4. Fits(r.obj[r.todo[i].key], r.todo[i].field)'
        BY <1>1, <1>2, <2>8, <4>1, <4>3, OwnKeeps
      <4>5. QED
        BY <2>1, <4>4
    <3>4. \A i : Relies(p, r2, i)' <=> Relies(p, r2, i)
      BY <1>1, ReliesStays
    <3>5. \A x \in DOMAIN r2.obj : IsDn(x)' => r2.obj[x].dn = x
      BY <2>1, <3>1 DEF Knows, IsDn
    <3>6. Knows(p, r2)'
      BY <3>3, <3>4, <3>5 DEF Knows
    <3>7. QED
      BY <3>2, <3>6
  <2>9. Saves(p)' <=> Saves(p)
    BY <1>1 DEF Saves
  <2>10. QED
    BY <2>6, <2>7, <2>8, <2>9 DEF Writes
<1>6. QED
  BY <1>1, <1>3, <1>5, LossOther

(* The first look at an entry.                                             *)
LEMMA ReadWrites ==
  ASSUME TypeInv, LossInv, NEW p \in Procs, ReadOld(p)
  PROVE  LossInv'
<1> DEFINE r == proc[p]
           t == r.todo
           s == Step(p)
           old == dir[Target(p)][s.field]
           v == ComputedOnce(p, old)
           r2 == [r EXCEPT !.old = <<old>>, !.new = <<v>>]
           r3 == Rest(r, After(t, 0))
<1>1. /\ MemoryOK(p, r) /\ Running(p) /\ t # <<>> /\ MayDo(p, s, DOMAIN r.obj) /\ s.op = "modify" /\ s = t[1]
      /\ IsSeq(t) /\ At(p, "modify") /\ Head(t) = s
  BY AtWork, HasMemory DEF ReadOld, Running, Step
<1>2. /\ \/ Becomes(p, r3)
         \/ Fail(p)
         \/ Target(p) \in DOMAIN dir /\ Becomes(p, r2)
      /\ UNCHANGED <<conf, cmd, dir, contended, ledger>> /\ r.old = <<>>
  BY DEF ReadOld, Unchanged, Skipping, After
<1>3. Writes(p, r) /\ IsProc(r)
  BY <1>1 DEF LossInv, MemoryOK
<1>4. CASE Becomes(p, r3)
  <2>1. ASSUME Saves(p) PROVE Ordered(p, After(t, 0)) /\ Knows(p, r3)
    <3>1. Ordered(p, t) /\ Knows(p, r)
      BY <1>3, <2>1 DEF Writes
    <3>2. Ordered(p, After(t, 0))
      BY <1>1, <3>1, OrderedAfter
    <3>3. r3.todo = After(t, 0) /\ r3.obj = r.obj
      BY <1>3 DEF Rest, IsProc, Fields
    <3>4. ASSUME NEW i \in 1 .. Len(r3.todo), Relies(p, r3, i)
          PROVE  Fits(r3.obj[r3.todo[i].key], r3.todo[i].field)
      <4>1. r3.todo[i].key \in DOMAIN r.obj /\ (Repeated(p, r3.todo[i]) => i <= 2)
        BY <3>3, <3>4 DEF Relies
      <4>2. ASSUME Repeated(p, r3.todo[i]) PROVE i = 1
        <5>1. i <= 2 /\ t[1].op # "find" /\ i \in 1 .. Len(After(t, 0)) /\ Repeated(p, After(t, 0)[i])
          BY <1>1, <3>3, <4>1, <4>2
        <5> HIDE DEF t
        <5>2. QED
          BY <1>1, <3>1, <5>1, FirstRepeated
      <4>3. ~(t[1].op \in {"refresh", "add"})
        BY <1>1
      <4> HIDE DEF r3, r
      <4>4. i + 1 \in 2 .. Len(t) /\ t[i + 1] = r3.todo[i] /\ Relies(p, r, i + 1)
        BY <1>1, <3>3, <3>4, <4>1, <4>2, <4>3, NextRelied
      <4>5. Fits(r.obj[t[i + 1].key], t[i + 1].field)
        BY <3>1, <4>4 DEF Knows
      <4>6. QED
        BY <3>3, <4>4, <4>5
    <3>5. Knows(p, r3)
      BY <3>1, <3>3, <3>4 DEF Knows
    <3>6. QED
      BY <3>2, <3>5
  <2>2. Writes(p, r3)
    BY <1>3, <2>1, RestWrites
  <2> HIDE DEF r3
  <2>3. QED
    BY <1>2, <1>4, <2>2, LossOne
<1>5. CASE Fail(p)
  BY <1>2, <1>5, FailWrites
<1>6. CASE Target(p) \in DOMAIN dir /\ Becomes(p, r2)
  <2> HIDE DEF v, old
  <2>1. /\ r2.todo = t /\ r2.obj = r.obj /\ r2.made = r.made /\ r2.old = <<old>> /\ r2.new = <<v>>
    BY <1>3 DEF IsProc, Fields
  <2>2. s.key \in DOMAIN r.obj /\ Target(p) = r.obj[s.key].dn
    <3>1. SUFFICES ASSUME s.key \notin DOMAIN r.obj PROVE FALSE
      BY <1>1 DEF Target
    <3>2. Target(p) = s.key /\ IsKey(s.key)
      BY <1>1, <3>1 DEF Target, MayDo
    <3>3. IsDn(Target(p))
      BY <1>6 DEF TypeInv, DirOK
    <3>4. QED
      BY <3>2, <3>3, KeyOrDn
  <2>3. <<old>>[1] = old /\ <<v>>[1] = v /\ <<v>> # <<>>
    OBVIOUS
  <2> DEFINE dn == Target(p)
             f == s.field
  <2>4. ASSUME f \in {"num", "set"}, f = "set" => ~conf.caching, Sure(dn, f)
        PROVE  v = IF r.made THEN ledger[dn][f] ELSE Result(s, ledger[dn])
    <3>1. CASE r.new # <<>>
      <4>1. v = r.new[1]
        BY <3>1 DEF v, ComputedOnce
      <4>2. Agrees(r, s, dn, f)
        BY <1>1, <1>3, <2>2 DEF Writes, Computed, Right
      <4>3. QED
        BY <2>4, <3>1, <4>1, <4>2 DEF Agrees
    <3>2. CASE r.new = <<>>
      <4>1. ~r.made
        BY <1>1, <1>3, <3>2 DEF Writes, Began
      <4>2. v = NewValue(p, old) /\ old = dir[dn][f]
        BY <3>2 DEF v, ComputedOnce, old
      <4>3. dir[dn][f] = ledger[dn][f]
        <5>1. dn \in DOMAIN dir /\ <<dn, f>> \notin contended
          BY <2>4 DEF Sure
        <5> HIDE DEF dn, f
        <5>2. f = "num" \/ (f = "set" /\ ~conf.caching)
          BY <2>4
        <5>3. QED
          BY <5>1, <5>2 DEF LossInv, LossNeedsRace
      <4>4. Reliant(s) => r.obj[s.key][f] = dir[dn][f]
        <5>1. SUFFICES ASSUME Reliant(s) PROVE r.obj[s.key][f] = dir[dn][f]
          OBVIOUS
        <5>2. Saves(p)
          BY <1>1, <5>1 DEF MayDo, Saves
        <5>3. Ordered(p, t) /\ Knows(p, r)
          BY <1>3, <5>2 DEF Writes
        <5>4. 1 \in 1 .. Len(t) /\ Len(t) \in Nat
          BY <1>1, RangeIs
        <5>5. ASSUME NEW n \in Range(t), n.op \in {"refresh", "add"} PROVE n.key # t[1].key
          <6>1. PICK j \in 1 .. Len(t) : n = t[j]
            BY <1>1, RangeIs
          <6>2. j # 1
            BY <1>1, <5>5, <6>1
          <6>3. 1 < j
            BY <5>4, <6>2
          <6>4. QED
            BY <1>1, <5>3, <5>4, <5>5, <6>1, <6>3 DEF Ordered, AskedLast
        <5>6. Relies(p, r, 1)
          BY <1>1, <2>2, <2>4, <3>2, <5>1, <5>5 DEF Relies
        <5>7. Fits(r.obj[t[1].key], t[1].field)
          BY <5>3, <5>4, <5>6 DEF Knows
        <5>8. QED
          BY <1>1, <2>2, <2>4, <5>7 DEF Fits
      <4>5. CASE f = "num"
        <5>1. v = (IF s.how = "add" THEN old ELSE r.obj[s.key].num) + s.by
          BY <4>2, <4>5 DEF NewValue
        <5>2. s.how # "add" => Reliant(s)
          BY <1>1, <4>5 DEF MayDo, Reliant
        <5>3. Result(s, ledger[dn]) = ledger[dn].num + s.by
          BY <4>5 DEF Result
        <5> HIDE DEF s, r, dn
        <5>4. QED
          BY <4>1, <4>2, <4>3, <4>4, <4>5, <5>1, <5>2, <5>3
      <4>6. CASE f = "set"
        <5>1. v = (r.obj[s.key].set \cup s.put) \ s.drop
          BY <4>2, <4>6 DEF NewValue
        <5>2. Reliant(s)
          BY <1>1, <4>6 DEF Reliant
        <5>3. Result(s, ledger[dn]) = (ledger[dn].set \cup s.put) \ s.drop
          BY <4>6 DEF Result
        <5> HIDE DEF s, r, dn
        <5>4. QED
          BY <4>1, <4>3, <4>4, <4>6, <5>1, <5>2, <5>3
      <4>7. QED
        BY <2>4, <4>5, <4>6
    <3>3. QED
      BY <3>1, <3>2
  <2>5. Agrees(r2, s, dn, f)
    <3> HIDE DEF r2
    <3>1. QED
      BY <2>1, <2>3, <2>4 DEF Agrees, old
  <2>6. Computed(r2) /\ Began(r2)
    <3> HIDE DEF r2
    <3>1. QED
      BY <1>1, <2>1, <2>2, <2>3, <2>5 DEF Computed, Right, Began
  <2>7. ASSUME Saves(p) PROVE Ordered(p, r2.todo) /\ Knows(p, r2)
    <3>1. Ordered(p, t) /\ Knows(p, r)
      BY <1>3, <2>7 DEF Writes
    <3> HIDE DEF r2
    <3>2. \A i : Relies(p, r2, i) => Relies(p, r, i)
      BY <2>1, <2>3 DEF Relies
    <3>3. Knows(p, r2)
      BY <2>1, <3>1, <3>2 DEF Knows
    <3>4. QED
      BY <2>1, <3>1, <3>3
  <2>8. Writes(p, r2)
    BY <2>6, <2>7 DEF Writes
  <2>9. Becomes(p, r2)
    BY <1>6
  <2> HIDE DEF r2
  <2>10. QED
    BY <1>2, <2>8, <2>9, LossOne
<1>7. QED
  BY <1>2, <1>4, <1>5, <1>6

-----------------------------------------------------------------------------
(* Searches.                                                               *)

(* A search ends in a failure or at the start of another step.             *)
Rests(p) == Fail(p) \/ \E x, t : IsProc(x) /\ Becomes(p, Rest(x, t))

LEMMA StillProc ==
  ASSUME NEW r, IsProc(r), NEW v
  PROVE  /\ IsProc([r EXCEPT !.obj = v]) /\ IsProc([r EXCEPT !.bin = v]) /\ IsProc([r EXCEPT !.last = v])
         /\ IsProc([r EXCEPT !.out = v])
BY DEF IsProc

LEMMA FindRests ==
  ASSUME TypeInv, NEW p \in Procs, FindObject(p)
  PROVE  Rests(p)
<1> DEFINE s == Step(p)
           r == proc[p]
<1>1. IsProc(r)
  BY DEF TypeInv, ProcOK
<1>2. \A x, k, o : IsProc(x) => IsProc(WithObject(x, k, o))
  BY StillProc DEF WithObject
<1>3. \/ Becomes(p, Rest(r, Skipping(p, s.hit)))
      \/ Becomes(p, Rest(r, Skipping(p, s.miss)))
      \/ Fail(p)
      \/ \E dn \in Matching(s.key) :
           LET found == WithObject(r, s.key, Loaded(dn))
           IN Becomes(p, Rest(IF s.key[1] # "account" THEN found
                              ELSE WithObject(found, Balance(s.key[2]), Loaded(Dn(Balance(s.key[2]), None))),
                              Skipping(p, s.hit)))
  BY DEF FindObject
<1>4. ASSUME NEW dn,
             LET found == WithObject(r, s.key, Loaded(dn))
             IN Becomes(p, Rest(IF s.key[1] # "account" THEN found
                                ELSE WithObject(found, Balance(s.key[2]), Loaded(Dn(Balance(s.key[2]), None))),
                                Skipping(p, s.hit)))
      PROVE  Rests(p)
  <2> DEFINE found == WithObject(r, s.key, Loaded(dn))
             both == WithObject(found, Balance(s.key[2]), Loaded(Dn(Balance(s.key[2]), None)))
  <2>1. IsProc(found)
    BY <1>1, <1>2
  <2>2. IsProc(both)
    BY <1>2, <2>1
  <2>3. Becomes(p, Rest(found, Skipping(p, s.hit))) \/ Becomes(p, Rest(both, Skipping(p, s.hit)))
    BY <1>4
  <2> HIDE DEF found, both
  <2>4. QED
    BY <2>1, <2>2, <2>3 DEF Rests
<1>5. QED
  BY <1>1, <1>3, <1>4 DEF Rests

LEMMA SearchRests ==
  ASSUME TypeInv, NEW p \in Procs, SearchNext(p)
  PROVE  Rests(p)
<1>1. IsProc(proc[p])
  BY DEF TypeInv, ProcOK
<1>2. ASSUME RefreshMembers(p) PROVE Rests(p)
  BY <1>1, <1>2, StillProc DEF RefreshMembers, WithObject, Rests
<1>3. ASSUME CollectEntries(p) PROVE Rests(p)
  BY <1>1, <1>3 DEF CollectEntries, Rests
<1>4. ASSUME GatherJobs(p) PROVE Rests(p)
  BY <1>1, <1>4, StillProc DEF GatherJobs, Rests
<1>5. ASSUME GatherQuotas(p) PROVE Rests(p)
  BY <1>1, <1>5 DEF GatherQuotas, Rests
<1>6. ASSUME CheckLast(p) PROVE Rests(p)
  BY <1>1, <1>6, StillProc DEF CheckLast, Rests
<1>7. ASSUME Purge(p) PROVE Rests(p)
  BY <1>1, <1>7, StillProc DEF Purge, Rests
<1>8. ASSUME DeleteOwnLast(p) PROVE Rests(p)
  BY <1>1, <1>8 DEF DeleteOwnLast, Rests
<1>9. ASSUME LeaveGroups(p) PROVE Rests(p)
  BY <1>1, <1>9, StillProc DEF LeaveGroups, Rests
<1>10. ASSUME LookAtLast(p) PROVE Rests(p)
  BY <1>1, <1>10, StillProc DEF LookAtLast, Rests
<1>11. ASSUME LookAtParents(p) PROVE Rests(p)
  BY <1>1, <1>11, StillProc DEF LookAtParents, Rests
<1>12. ASSUME WriteJobNew(p) PROVE Rests(p)
  BY <1>1, <1>12, StillProc DEF WriteJobNew, Rests
<1>13. ASSUME ListRefunds(p) PROVE Rests(p)
  BY <1>1, <1>13, StillProc DEF ListRefunds, Rests
<1>14. ASSUME MatchingCodes(p) PROVE Rests(p)
  BY <1>1, <1>14, StillProc DEF MatchingCodes, Rests
<1>15. ASSUME ExtractNames(p) PROVE Rests(p)
  BY <1>1, <1>15 DEF ExtractNames, Rests
<1>16. ASSUME ShowObject(p) PROVE Rests(p)
  BY <1>1, <1>16, StillProc DEF ShowObject, Rests
<1>17. ASSUME ExtractHistory(p) PROVE Rests(p)
  BY <1>1, <1>17, StillProc DEF ExtractHistory, Rests
<1>18. QED
  BY FindRests, <1>2, <1>3, <1>4, <1>5, <1>6, <1>7, <1>8, <1>9, <1>10, <1>11, <1>12, <1>13, <1>14, <1>15, <1>16,
     <1>17 DEF SearchNext

(* Commands that do not save rely on nothing.                              *)
LEMMA OtherSearches ==
  ASSUME TypeInv, LossInv, NEW p \in Procs, SearchNext(p), ~Saves(p)
  PROVE  LossInv'
<1>1. UNCHANGED <<conf, cmd, dir, contended, ledger>>
  BY GoSearch DEF Unchanged
<1>2. CASE Fail(p)
  BY <1>1, <1>2, FailWrites
<1>3. ASSUME NEW x, NEW t, IsProc(x), Becomes(p, Rest(x, t)) PROVE LossInv'
  <2>1. Writes(p, Rest(x, t))
    BY <1>3, RestWrites
  <2>2. QED
    BY <1>1, <1>3, <2>1, LossOne
<1>4. QED
  BY <1>2, <1>3, SearchRests DEF Rests

(* What a search knows is what it had, and what it found.                  *)
Learned(r, o) ==
  \A k \in DOMAIN o : \/ k \in DOMAIN r.obj /\ o[k] = r.obj[k]
                      \/ \E x : o[k] = Loaded(x) /\ (IsDn(k) => x = k)

LEMMA SearchKnows ==
  ASSUME NEW p, NEW r, Knows(p, r), NEW r2, Learned(r, r2.obj),
         \A i \in 1 .. Len(r2.todo) :
           Relies(p, r2, i) =>
             \/ \E x : r2.obj[r2.todo[i].key] = Loaded(x)
             \/ /\ r2.obj[r2.todo[i].key] = r.obj[r2.todo[i].key]
                /\ \E j \in 1 .. Len(r.todo) : Relies(p, r, j) /\ r.todo[j] = r2.todo[i]
  PROVE  Knows(p, r2)
<1>1. \A x : Loaded(x).dn = x /\ Loaded(x).num = dir[x].num /\ Loaded(x).set = dir[x].set
  BY DEF Loaded
<1>2. ASSUME NEW x, NEW f \in {"num", "set"} PROVE Fits(Loaded(x), f)
  BY <1>1 DEF Fits
<1>3. ASSUME NEW k \in DOMAIN r2.obj, IsDn(k) PROVE r2.obj[k].dn = k
  BY <1>1, <1>3 DEF Learned, Knows
<1>4. ASSUME NEW i \in 1 .. Len(r2.todo), Relies(p, r2, i)
      PROVE  Fits(r2.obj[r2.todo[i].key], r2.todo[i].field)
  <2>1. r2.todo[i].field \in {"num", "set"}
    BY <1>4 DEF Relies, Reliant
  <2>2. CASE \E x : r2.obj[r2.todo[i].key] = Loaded(x)
    BY <1>2, <2>1, <2>2
  <2>3. ASSUME r2.obj[r2.todo[i].key] = r.obj[r2.todo[i].key],
               NEW j \in 1 .. Len(r.todo), Relies(p, r, j), r.todo[j] = r2.todo[i]
        PROVE  Fits(r2.obj[r2.todo[i].key], r2.todo[i].field)
    <3>1. Fits(r.obj[r.todo[j].key], r.todo[j].field)
      BY <2>3 DEF Knows
    <3>2. QED
      BY <2>3, <3>1
  <2>4. QED
    BY <1>4, <2>2, <2>3
<1>5. QED
  BY <1>3, <1>4 DEF Knows

LEMMA LearnedOne ==
  ASSUME NEW r, NEW x, IsProc(x), Learned(r, x.obj), NEW key, NEW dn, IsDn(key) => dn = key,
         NEW y, y = WithObject(x, key, Loaded(dn))
  PROVE  /\ IsProc(y) /\ Learned(r, y.obj) /\ y.obj[key] = Loaded(dn)
         /\ DOMAIN y.obj = {key} \cup DOMAIN x.obj
         /\ \A k \in DOMAIN x.obj : k # key => y.obj[k] = x.obj[k]
<1> DEFINE g == [k \in {key} |-> Loaded(dn)]
<1>1. y = [x EXCEPT !.obj = With(g, x.obj)]
  BY DEF WithObject
<1>2. DOMAIN g = {key} /\ g[key] = Loaded(dn)
  OBVIOUS
<1> HIDE DEF g
<1>3. IsProc(y) /\ y.obj = With(g, x.obj)
  BY <1>1 DEF IsProc, Fields
<1>4. /\ y.obj[key] = Loaded(dn) /\ DOMAIN y.obj = {key} \cup DOMAIN x.obj
      /\ \A k \in DOMAIN x.obj : k # key => y.obj[k] = x.obj[k]
  BY <1>2, <1>3 DEF With
<1>5. Learned(r, y.obj)
  BY <1>4 DEF Learned
<1>6. QED
  BY <1>3, <1>4, <1>5

AllFound(known) == \A k \in DOMAIN known : \E y : known[k] = Loaded(y) /\ (IsDn(k) => y = k)
Learns(r, known, x) ==
  /\ IsProc(x) /\ Learned(r, x.obj) /\ DOMAIN x.obj = DOMAIN known \cup DOMAIN r.obj
  /\ \A k \in DOMAIN known : \E y : x.obj[k] = Loaded(y)

LEMMA LearnedMany ==
  ASSUME NEW r, IsProc(r), NEW known, AllFound(known), NEW x, x = [r EXCEPT !.obj = With(known, @)]
  PROVE  Learns(r, known, x)
<1>1. IsProc(x) /\ x.obj = With(known, r.obj)
  BY DEF IsProc, Fields
<1>2. /\ DOMAIN x.obj = DOMAIN known \cup DOMAIN r.obj
      /\ \A k \in DOMAIN known : x.obj[k] = known[k]
      /\ \A k \in DOMAIN r.obj : k \notin DOMAIN known => x.obj[k] = r.obj[k]
  BY <1>1 DEF With
<1>3. Learned(r, x.obj)
  BY <1>2 DEF Learned, AllFound
<1>4. \A k \in DOMAIN known : \E y : x.obj[k] = Loaded(y)
  BY <1>2 DEF AllFound
<1>5. QED
  BY <1>1, <1>2, <1>3, <1>4 DEF Learns

(* What a process already relied on, and what it still may after a step.   *)
Had(p, r, s) == \E j \in 1 .. Len(r.todo) : Relies(p, r, j) /\ r.todo[j] = s
Keeps(p, r, s) ==
  /\ s.key \in DOMAIN r.obj /\ ~Repeated(p, s)
  /\ r.todo[1].op \in {"refresh", "add"} => r.todo[1].key # s.key
Left(r, u) == IsSeq(r.todo) /\ u = After(r.todo, 0)

LEMMA SearchTo ==
  ASSUME TypeInv, LossInv, NEW p \in Procs, Running(p), Saves(p),
         UNCHANGED <<conf, cmd, dir, contended, ledger>>,
         NEW x, IsProc(x), Learned(proc[p], x.obj), NEW t, Ordered(p, t), Becomes(p, Rest(x, t)),
         \A i \in 1 .. Len(t) :
           Relies(p, Rest(x, t), i) =>
             \/ \E y : x.obj[t[i].key] = Loaded(y)
             \/ Had(p, proc[p], t[i])
  PROVE  LossInv'
<1> DEFINE r2 == Rest(x, t)
<1>1. r2.todo = t /\ r2.obj = x.obj
  BY DEF Rest, IsProc, Fields
<1>2. Knows(p, proc[p])
  BY DEF LossInv, Writes
<1>3. ASSUME NEW i \in 1 .. Len(t), Relies(p, r2, i), ~\E y : x.obj[t[i].key] = Loaded(y)
      PROVE  x.obj[t[i].key] = proc[p].obj[t[i].key]
  <2>1. t[i].key \in DOMAIN x.obj
    BY <1>1, <1>3 DEF Relies
  <2>2. QED
    BY <1>3, <2>1 DEF Learned
<1>4. Becomes(p, r2)
  OBVIOUS
<1>5. \A i \in 1 .. Len(r2.todo) :
        Relies(p, r2, i) =>
          \/ \E y : r2.obj[r2.todo[i].key] = Loaded(y)
          \/ /\ r2.obj[r2.todo[i].key] = proc[p].obj[r2.todo[i].key]
             /\ \E j \in 1 .. Len(proc[p].todo) : Relies(p, proc[p], j) /\ proc[p].todo[j] = r2.todo[i]
  BY <1>1, <1>3 DEF Had
<1> HIDE DEF r2
<1>6. Learned(proc[p], r2.obj)
  BY <1>1
<1>7. Knows(p, r2)
  BY <1>2, <1>5, <1>6, SearchKnows
<1>8. Writes(p, r2)
  BY <1>7, RestWrites DEF r2
<1>9. QED
  BY <1>4, <1>8, LossOne

LEMMA NothingLearned == ASSUME NEW r PROVE Learned(r, r.obj)
BY DEF Learned

LEMMA SaverIs ==
  ASSUME TypeInv, LossInv, NEW p \in Procs, Running(p), proc[p].todo # <<>>, Saves(p)
  PROVE  /\ IsProc(proc[p]) /\ IsSeq(proc[p].todo) /\ Step(p) = proc[p].todo[1] /\ Step(p) \in Range(proc[p].todo)
         /\ Ordered(p, proc[p].todo) /\ Knows(p, proc[p]) /\ Role(p, Step(p))
         /\ 1 \in 1 .. Len(proc[p].todo) /\ Len(proc[p].todo) \in Nat
         /\ \A n : Skipping(p, n) = After(proc[p].todo, n)
<1>1. MemoryOK(p, proc[p]) /\ IsSeq(proc[p].todo) /\ Step(p) = proc[p].todo[1]
  BY HasMemory
<1>2. Step(p) \in Range(proc[p].todo) /\ 1 \in 1 .. Len(proc[p].todo) /\ Len(proc[p].todo) \in Nat
  BY <1>1, RangeIs DEF Step
<1>3. Ordered(p, proc[p].todo) /\ Knows(p, proc[p])
  BY DEF LossInv, Writes
<1>4. QED
  BY <1>1, <1>2, <1>3 DEF MemoryOK, Ordered, Skipping, After

(* What is left when one step is over.                                     *)
LEMMA LeftRelied ==
  ASSUME NEW p, NEW r, NEW x, IsProc(x), NEW u, Left(r, u), NEW i \in 1 .. Len(u), Relies(p, Rest(x, u), i),
         NEW s, s = u[i], Keeps(p, r, s)
  PROVE  Had(p, r, s)
<1>1. PICK r2 : r2 = Rest(x, u)
  OBVIOUS
<1>2. r2.todo = u
  BY <1>1 DEF Rest, IsProc, Fields
<1>3. r2.todo = After(r.todo, 0) /\ i \in 1 .. Len(r2.todo) /\ Relies(p, r2, i) /\ IsSeq(r.todo)
  BY <1>1, <1>2 DEF Left
<1>4. /\ r2.todo[i].key \in DOMAIN r.obj /\ (Repeated(p, r2.todo[i]) => i = 1)
      /\ r.todo[1].op \in {"refresh", "add"} => r.todo[1].key # r2.todo[i].key
  BY <1>2 DEF Keeps
<1>5. i + 1 \in 2 .. Len(r.todo) /\ r.todo[i + 1] = r2.todo[i] /\ Relies(p, r, i + 1)
  BY <1>3, <1>4, NextRelied
<1>6. i + 1 \in 1 .. Len(r.todo)
  BY <1>5
<1>7. QED
  BY <1>2, <1>5, <1>6 DEF Had

LEMMA RefreshWrites ==
  ASSUME TypeInv, LossInv, NEW p \in Procs, RefreshMembers(p), Saves(p)
  PROVE  LossInv'
<1>0. /\ Running(p) /\ proc[p].todo # <<>> /\ Step(p).op = "refresh" /\ Step(p).key \in DOMAIN proc[p].obj
      /\ UNCHANGED <<conf, cmd, dir, contended, ledger>>
  BY HasMemory DEF RefreshMembers, At, HeadOK, Step, Unchanged
<1>1. PICK r : r = proc[p]
  OBVIOUS
<1>2. PICK s : s = Step(p)
  OBVIOUS
<1>3. PICK u : u = After(r.todo, 0)
  OBVIOUS
<1>4. PICK x : x = WithObject(r, s.key, Loaded(r.obj[s.key].dn))
  OBVIOUS
<1>5. /\ IsProc(r) /\ IsSeq(r.todo) /\ s = r.todo[1] /\ Ordered(p, r.todo) /\ Knows(p, r) /\ Role(p, s)
      /\ Skipping(p, 0) = u
  BY <1>0, <1>1, <1>2, <1>3, SaverIs
<1>6. \/ Becomes(p, Rest(r, <<>>))
      \/ Becomes(p, Rest(x, u))
      \/ Fail(p)
  BY <1>1, <1>2, <1>4, <1>5 DEF RefreshMembers
<1>7. CASE Becomes(p, Rest(r, <<>>))
  <2>1. Ordered(p, <<>>) /\ Learned(r, r.obj)
    BY NothingOrdered, NothingLearned
  <2>2. \A i \in 1 .. Len(<<>>) : FALSE
    OBVIOUS
  <2>3. QED
    BY <1>0, <1>1, <1>5, <1>7, <2>1, <2>2, SearchTo
<1>8. CASE Becomes(p, Rest(x, u))
  <2>1. IsDn(s.key) => r.obj[s.key].dn = s.key
    BY <1>0, <1>1, <1>2, <1>5 DEF Knows
  <2>2. /\ IsProc(x) /\ Learned(r, x.obj) /\ x.obj[s.key] = Loaded(r.obj[s.key].dn)
        /\ DOMAIN x.obj = {s.key} \cup DOMAIN r.obj
    BY <1>4, <1>5, <2>1, NothingLearned, LearnedOne
  <2>3. Ordered(p, u)
    BY <1>3, <1>5, OrderedAfter
  <2>4. ASSUME NEW i \in 1 .. Len(u), Relies(p, Rest(x, u), i)
        PROVE  \/ \E y : x.obj[u[i].key] = Loaded(y)
               \/ Had(p, r, u[i])
    <3>1. CASE u[i].key = s.key
      BY <2>2, <3>1
    <3>2. CASE u[i].key # s.key
      <4>1. u[i].key \in DOMAIN r.obj
        <5>1. Rest(x, u).todo = u /\ Rest(x, u).obj = x.obj
          BY <2>2 DEF Rest, IsProc, Fields
        <5>2. QED
          BY <2>2, <2>4, <3>2, <5>1 DEF Relies
      <4>2. ~Repeated(p, u[i])
        BY <1>0, <1>2, <1>5 DEF Role, Repeated
      <4>3. r.todo[1].op \in {"refresh", "add"} => r.todo[1].key # u[i].key
        BY <1>5, <3>2
      <4>4. Keeps(p, r, u[i]) /\ Left(r, u)
        BY <1>3, <1>5, <4>1, <4>2, <4>3 DEF Keeps, Left
      <4>5. QED
        BY <2>2, <2>4, <4>4, LeftRelied
    <3>3. QED
      BY <3>1, <3>2
  <2>5. QED
    BY <1>0, <1>1, <1>8, <2>2, <2>3, <2>4, SearchTo
<1>9. CASE Fail(p)
  BY <1>0, <1>9, FailWrites
<1>10. QED
  BY <1>6, <1>7, <1>8, <1>9

(* What is left behind other steps.                                        *)
LEMMA BehindRelied ==
  ASSUME NEW p, NEW r, NEW x, IsProc(x), NEW w, IsSeq(w), NEW u, Left(r, u),
         NEW t, t = w \o u, NEW i \in 1 .. Len(t), i > Len(w), Relies(p, Rest(x, t), i),
         NEW s, s = t[i], Keeps(p, r, s)
  PROVE  Had(p, r, s)
<1>1. IsSeq(u) /\ Len(w) \in Nat /\ Len(u) \in Nat
  BY AfterIs, RangeIs DEF Left
<1>2. /\ Len(t) = Len(w) + Len(u)
      /\ \A k \in 1 .. Len(w) + Len(u) : t[k] = IF k <= Len(w) THEN w[k] ELSE u[k - Len(w)]
      /\ IsSeq(t)
  BY <1>1, BothAre
<1>3. i - Len(w) \in 1 .. Len(u)
  BY <1>1, <1>2
<1>4. PICK j \in 1 .. Len(u) : j = i - Len(w) /\ t[i] = u[j]
  BY <1>1, <1>2, <1>3
<1>5. Range(u) \subseteq Range(t)
  <2>1. ASSUME NEW n \in Range(u) PROVE n \in Range(t)
    <3>1. PICK k \in 1 .. Len(u) : n = u[k]
      BY <1>1, RangeIs
    <3>2. k + Len(w) \in 1 .. Len(t) /\ ~(k + Len(w) <= Len(w)) /\ (k + Len(w)) - Len(w) = k
      BY <1>1, <1>2
    <3>3. t[k + Len(w)] = u[k]
      BY <1>2, <3>2
    <3>4. QED
      BY <1>2, <3>1, <3>2, <3>3, RangeIs
  <2>2. QED
    BY <2>1
<1>6. Rest(x, t).todo = t /\ Rest(x, u).todo = u /\ Rest(x, u).new = <<>> /\ Rest(x, u).obj = Rest(x, t).obj
  BY DEF Rest, IsProc, Fields
<1>7. Relies(p, Rest(x, u), j)
  BY <1>4, <1>5, <1>6 DEF Relies
<1>8. QED
  BY <1>4, <1>7, LeftRelied

LEMMA DeletionsHarmless ==
  ASSUME NEW p, NEW set, IsFiniteSet(set)
  PROVE  IsSeq(Deletions(set)) /\ \A s \in Range(Deletions(set)) : Harmless(p, s) /\ s.op = "delete"
<1> DEFINE t == Deletions(set)
<1>1. t = [i \in 1 .. Cardinality(set) |-> t[i]]
  BY DEF Deletions
<1>2. \A i \in 1 .. Cardinality(set) : t[i] = Delete(SetToSeq(set)[i])
  BY DEF Deletions
<1> HIDE DEF t
<1>3. Cardinality(set) \in Nat
  BY FS_CardinalityType
<1>4. IsSeq(t) /\ Range(t) = {t[i] : i \in 1 .. Cardinality(set)}
  BY <1>1, <1>3, ListIsSeq
<1>5. \A d : Harmless(p, Delete(d)) /\ Delete(d).op = "delete"
  BY DEF Harmless, Role, Delete
<1>6. QED
  BY <1>2, <1>4, <1>5 DEF t

LEMMA CollectWrites ==
  ASSUME TypeInv, LossInv, NEW p \in Procs, CollectEntries(p), Saves(p)
  PROVE  LossInv'
<1>0. /\ Running(p) /\ proc[p].todo # <<>> /\ Step(p).op = "collect"
      /\ UNCHANGED <<conf, cmd, dir, contended, ledger>>
  BY DEF CollectEntries, At, Unchanged
<1>1. PICK r : r = proc[p]
  OBVIOUS
<1>2. PICK u : u = After(r.todo, 0)
  OBVIOUS
<1>3. PICK set : set = Search(Step(p).kind, Step(p).owner, Step(p).printer)
  OBVIOUS
<1>4. PICK w : w = Deletions(set)
  OBVIOUS
<1>5. PICK t : t = w \o u
  OBVIOUS
<1>6. /\ IsProc(r) /\ IsSeq(r.todo) /\ r.todo[1].op = "collect" /\ Ordered(p, r.todo)
      /\ cmd[p].do = "delprinter" /\ Skipping(p, 0) = u
  <2>1. Role(p, Step(p))
    BY <1>0, SaverIs
  <2>2. QED
    BY <1>0, <1>1, <1>2, <2>1, SaverIs DEF Role
<1>7. Becomes(p, Rest(r, t))
  BY <1>1, <1>3, <1>4, <1>5, <1>6 DEF CollectEntries
<1>8. IsFiniteSet(set)
  BY <1>3, SearchIs DEF TypeInv
<1>9. IsSeq(w) /\ \A s \in Range(w) : Harmless(p, s) /\ s.op = "delete"
  BY <1>4, <1>8, DeletionsHarmless
<1>10. IsSeq(u) /\ Ordered(p, u)
  BY <1>2, <1>6, OrderedAfter, AfterIs
<1>11. Ordered(p, t)
  BY <1>5, <1>6, <1>9, <1>10, OrderedBefore
<1>12. ASSUME NEW i \in 1 .. Len(t), Relies(p, Rest(r, t), i)
       PROVE  \/ \E y : r.obj[t[i].key] = Loaded(y)
              \/ Had(p, r, t[i])
  <2>1. Rest(r, t).todo = t /\ Rest(r, t).obj = r.obj
    BY <1>6 DEF Rest, IsProc, Fields
  <2>2. t[i].op = "modify" /\ t[i].key \in DOMAIN r.obj /\ ~Repeated(p, t[i])
    BY <1>6, <1>12, <2>1 DEF Relies, Reliant, Repeated
  <2>3. i > Len(w)
    <3>1. SUFFICES ASSUME i <= Len(w) PROVE FALSE
      <4>1. Len(w) \in Nat /\ i \in Nat
        BY <1>5, <1>9, <1>10, BothAre, RangeIs
      <4>2. QED
        BY <4>1
    <3>2. Len(w) \in Nat /\ Len(u) \in Nat /\ Len(t) = Len(w) + Len(u)
      BY <1>5, <1>9, <1>10, BothAre, RangeIs
    <3>3. i \in 1 .. Len(w) /\ i \in 1 .. Len(w) + Len(u)
      BY <3>1, <3>2
    <3>4. t[i] = w[i]
      BY <1>5, <1>9, <1>10, <3>1, <3>3, BothAre
    <3>5. w[i].op = "delete"
      BY <1>9, <3>3, RangeIs
    <3>6. QED
      BY <2>2, <3>4, <3>5
  <2>4. Keeps(p, r, t[i]) /\ Left(r, u)
    BY <1>2, <1>6, <2>2 DEF Keeps, Left
  <2>5. QED
    BY <1>5, <1>6, <1>9, <1>12, <2>3, <2>4, BehindRelied
<1>13. Learned(r, r.obj)
  BY NothingLearned
<1>14. QED
  BY <1>0, <1>1, <1>6, <1>7, <1>11, <1>12, <1>13, SearchTo

LEMMA EachOnce ==
  ASSUME NEW S, IsFiniteSet(S)
  PROVE  /\ IsSeq(SetToSeq(S)) /\ DOMAIN SetToSeq(S) = 1 .. Len(SetToSeq(S)) /\ Len(SetToSeq(S)) \in Nat
         /\ \A i \in 1 .. Len(SetToSeq(S)) : SetToSeq(S)[i] \in S
         /\ \A i, j \in 1 .. Len(SetToSeq(S)) : SetToSeq(S)[i] = SetToSeq(S)[j] => i = j
<1> DEFINE f == SetToSeq(S)
<1>1. f \in Seq(S) /\ IsSeq(f)
  BY SetToSeqIsSeq, SeqIsSeq
<1>2. DOMAIN f = 1 .. Len(f) /\ Len(f) \in Nat /\ \A i \in 1 .. Len(f) : f[i] \in S
  BY <1>1, ElementOfSeq, LenProperties
<1>3. IsInjective(f)
  <2> DEFINE n == Cardinality(S)
  <2>1. ExistsBijection(1 .. n, S)
    BY FS_CardinalityType
  <2>2. PICK g \in [1 .. n -> S] : IsInjective(g)
    BY <2>1 DEF ExistsBijection, Bijection, Injection
  <2> HIDE DEF n
  <2>3. f = CHOOSE h \in [1 .. n -> S] : IsInjective(h)
    BY DEF SetToSeq, n
  <2> HIDE DEF f
  <2>4. QED
    BY <2>2, <2>3
<1> HIDE DEF f
<1>4. \A i, j \in 1 .. Len(f) : f[i] = f[j] => i = j
  BY <1>2, <1>3 DEF IsInjective
<1>5. QED
  BY <1>1, <1>2, <1>4 DEF f

(* Changes of one entry each, and nothing that changes an entry after.     *)
LEMMA ChangesOrdered ==
  ASSUME NEW p, cmd[p].do # "refund", NEW t, IsSeq(t), \A s \in Range(t) : Role(p, s), NEW n \in Nat,
         \A i \in 1 .. Len(t) : IF i <= n THEN t[i].op = "modify" ELSE t[i].op \notin {"modify", "add", "refresh"},
         \A i, j \in 1 .. Len(t) : i < j /\ j <= n => Differ(t[i].key, t[j].key)
  PROVE  Ordered(p, t)
<1>1. \A i, j \in 1 .. Len(t) : i < j /\ ~(j <= n) => t[j].op # "modify"
  OBVIOUS
<1>2. \A s : ~Repeated(p, s)
  BY DEF Repeated
<1>3. Once(p, t)
  <2>1. ASSUME NEW i \in 1 .. Len(t), NEW j \in 1 .. Len(t), i < j, Reliant(t[j])
        PROVE  Differ(t[i].key, t[j].key)
    <3>1. t[j].op = "modify"
      BY <2>1 DEF Reliant
    <3>2. j <= n
      BY <1>1, <2>1, <3>1
    <3>3. QED
      BY <2>1, <3>2
  <2>2. QED
    BY <2>1 DEF Once
<1>4. AskedLast(t)
  <2>1. ASSUME NEW i \in 1 .. Len(t), NEW j \in 1 .. Len(t), i < j
        PROVE  /\ t[i].op \in {"leave", "refunds", "codes"} => t[j].op # "modify"
               /\ t[i].op = "modify" => t[j].op \notin {"add", "refresh"}
    <3>1. Len(t) \in Nat /\ i \in Int /\ j \in Int
      BY RangeIs
    <3>2. ~(i <= n) => ~(j <= n)
      BY <2>1, <3>1
    <3>3. t[i].op \in {"leave", "refunds", "codes"} => ~(i <= n)
      OBVIOUS
    <3>4. t[j].op \in {"add", "refresh"} => ~(j <= n)
      OBVIOUS
    <3>5. t[j].op \notin {"add", "refresh"}
      OBVIOUS
    <3>6. QED
      BY <3>2, <3>3, <3>5
  <2>2. QED
    BY <2>1 DEF AskedLast
<1>5. AfterSearch(p, t) /\ Lands(p, t)
  BY <1>2 DEF AfterSearch, Lands
<1>6. QED
  BY <1>3, <1>4, <1>5 DEF Ordered

LEMMA LeaveWrites ==
  ASSUME TypeInv, LossInv, NEW p \in Procs, LeaveGroups(p), Saves(p)
  PROVE  LossInv'
<1>0. /\ Running(p) /\ proc[p].todo # <<>> /\ Step(p).op = "leave"
      /\ UNCHANGED <<conf, cmd, dir, contended, ledger>>
  BY DEF LeaveGroups, At, Unchanged
<1>1. PICK r : r = proc[p]
  OBVIOUS
<1>2. PICK u : u = After(r.todo, 0)
  OBVIOUS
<1>3. PICK pr : pr = Step(p).printer
  OBVIOUS
<1>4. PICK P : P = ParentPrinters(pr)
  OBVIOUS
<1>5. PICK groups : groups = SetToSeq(P)
  OBVIOUS
<1>6. PICK known : known = [k \in {Printer(g) : g \in P} |-> Loaded(Dn(k, None))]
  OBVIOUS
<1>7. PICK x : x = [r EXCEPT !.obj = With(known, r.obj)]
  OBVIOUS
<1>8. PICK w : w = [i \in DOMAIN groups |-> Rewrite(Printer(groups[i]), {}, {pr})]
  OBVIOUS
<1>9. PICK t : t = w \o u
  OBVIOUS
<1>10. /\ IsProc(r) /\ IsSeq(r.todo) /\ r.todo[1].op = "leave" /\ Ordered(p, r.todo) /\ 1 \in 1 .. Len(r.todo)
       /\ cmd[p].do = "delprinter" /\ Skipping(p, 0) = u /\ Len(r.todo) \in Nat
  <2>1. Role(p, Step(p))
    BY <1>0, SaverIs
  <2>2. QED
    BY <1>0, <1>1, <1>2, <2>1, SaverIs DEF Role
<1>11. Becomes(p, Rest(x, t))
  BY <1>1, <1>3, <1>4, <1>5, <1>6, <1>7, <1>8, <1>9, <1>10 DEF LeaveGroups
<1>12. /\ IsSeq(groups) /\ DOMAIN groups = 1 .. Len(groups) /\ Len(groups) \in Nat
       /\ \A i \in 1 .. Len(groups) : groups[i] \in P
       /\ \A i, j \in 1 .. Len(groups) : groups[i] = groups[j] => i = j
  <2>1. IsFiniteSet(P)
    BY <1>4, ParentsAre DEF TypeInv
  <2>2. QED
    BY <1>5, <2>1, EachOnce
<1>13. PICK n : n = Len(groups)
  OBVIOUS
<1>14. /\ IsSeq(w) /\ Len(w) = n /\ n \in Nat
       /\ \A i \in 1 .. n : w[i] = Rewrite(Printer(groups[i]), {}, {pr})
  <2>1. w = [i \in 1 .. n |-> w[i]] /\ n \in Nat
    BY <1>8, <1>12, <1>13
  <2>2. IsSeq(w) /\ Len(w) = n
    BY <2>1, ListIsSeq
  <2>3. QED
    BY <1>8, <1>12, <1>13, <2>1, <2>2
<1>15. IsSeq(u) /\ Range(u) \subseteq Range(r.todo) /\ \A i \in 1 .. Len(u) : u[i].op \notin {"modify", "add", "refresh"}
  <2>1. /\ IsSeq(u) /\ Range(u) \subseteq Range(r.todo)
        /\ \A i \in 1 .. Len(u) : i + 0 + 1 \in 1 .. Len(r.todo) /\ u[i] = r.todo[i + 0 + 1]
    BY <1>2, <1>10, AfterIs
  <2>2. ASSUME NEW i \in 1 .. Len(u) PROVE u[i].op \notin {"modify", "add", "refresh"}
    <3>1. i \in Nat /\ i >= 1 /\ 1 < i + 0 + 1
      BY <2>1, RangeIs
    <3>2. i + 0 + 1 \in 1 .. Len(r.todo) /\ u[i] = r.todo[i + 0 + 1]
      BY <2>1
    <3>3. u[i].op # "modify"
      BY <1>10, <3>1, <3>2 DEF Ordered, AskedLast
    <3>4. u[i].op \notin {"add", "refresh"}
      <4>1. Role(p, u[i])
        BY <1>10, <2>1, RangeIs DEF Ordered
      <4>2. QED
        BY <1>10, <4>1 DEF Role
    <3>5. QED
      BY <3>3, <3>4
  <2>3. QED
    BY <2>1, <2>2
<1>16. /\ IsSeq(t) /\ Len(t) = n + Len(u) /\ Len(u) \in Nat /\ Range(t) \subseteq Range(w) \cup Range(u)
       /\ \A i \in 1 .. Len(t) : \/ i <= n /\ i \in 1 .. n /\ t[i] = Rewrite(Printer(groups[i]), {}, {pr})
                                 \/ ~(i <= n) /\ t[i].op \notin {"modify", "add", "refresh"}
  <2>1. /\ IsSeq(t) /\ Len(t) = Len(w) + Len(u) /\ Range(t) \subseteq Range(w) \cup Range(u)
        /\ \A i \in 1 .. Len(w) + Len(u) : t[i] = IF i <= Len(w) THEN w[i] ELSE u[i - Len(w)]
    BY <1>9, <1>14, <1>15, BothAre
  <2>2. Len(u) \in Nat
    BY <1>15, RangeIs
  <2>3. ASSUME NEW i \in 1 .. Len(t)
        PROVE  \/ i <= n /\ i \in 1 .. n /\ t[i] = Rewrite(Printer(groups[i]), {}, {pr})
               \/ ~(i <= n) /\ t[i].op \notin {"modify", "add", "refresh"}
    <3>1. CASE i <= n
      <4>1. i \in 1 .. n /\ t[i] = w[i]
        BY <1>14, <2>1, <2>2, <3>1
      <4>2. QED
        BY <1>14, <3>1, <4>1
    <3>2. CASE ~(i <= n)
      <4>1. i - n \in 1 .. Len(u) /\ t[i] = u[i - n]
        BY <1>14, <2>1, <2>2, <3>2
      <4>2. QED
        BY <1>15, <3>2, <4>1
    <3>3. QED
      BY <3>1, <3>2
  <2>4. QED
    BY <1>14, <2>1, <2>2, <2>3
<1>17. \A g : IsKey(Printer(g)) /\ Printer(g)[2] = g
  BY KeysAreKeys DEF Printer
<1>18. Ordered(p, t)
  <2>1. \A s \in Range(t) : Role(p, s)
    <3>1. \A g : Role(p, Rewrite(Printer(g), {}, {pr}))
      BY <1>17 DEF Role, Rewrite
    <3>2. ASSUME NEW s \in Range(w) PROVE Role(p, s)
      <4>1. \E i \in 1 .. Len(w) : s = w[i]
        BY <1>14, RangeIs
      <4>2. QED
        BY <1>14, <3>1, <4>1
    <3>3. ASSUME NEW s \in Range(u) PROVE Role(p, s)
      BY <1>10, <1>15 DEF Ordered
    <3>4. QED
      BY <1>16, <3>2, <3>3
  <2>2. \A i \in 1 .. Len(t) : IF i <= n THEN t[i].op = "modify" ELSE t[i].op \notin {"modify", "add", "refresh"}
    <3>1. \A g : Rewrite(Printer(g), {}, {pr}).op = "modify"
      BY DEF Rewrite
    <3>2. QED
      BY <1>16, <3>1
  <2>3. ASSUME NEW i \in 1 .. Len(t), NEW j \in 1 .. Len(t), i < j, j <= n
        PROVE  Differ(t[i].key, t[j].key)
    <3>1. i <= n /\ i # j
      BY <1>14, <1>16, <2>3
    <3>2. /\ i \in 1 .. n /\ t[i] = Rewrite(Printer(groups[i]), {}, {pr})
          /\ j \in 1 .. n /\ t[j] = Rewrite(Printer(groups[j]), {}, {pr})
      BY <1>16, <2>3, <3>1
    <3>3. groups[i] # groups[j]
      BY <1>12, <1>13, <3>1, <3>2
    <3>4. t[i].key = Printer(groups[i]) /\ t[j].key = Printer(groups[j])
      BY <3>2 DEF Rewrite
    <3>5. QED
      BY <1>17, <3>3, <3>4 DEF Differ
  <2>4. QED
    BY <1>10, <1>14, <1>16, <2>1, <2>2, <2>3, ChangesOrdered
<1>19. Learns(r, known, x)
  <2>1. AllFound(known)
    <3>1. ASSUME NEW k \in DOMAIN known PROVE known[k] = Loaded(Dn(k, None)) /\ ~IsDn(k)
      <4>1. PICK g \in P : k = Printer(g)
        BY <1>6, <3>1
      <4>2. QED
        BY <1>6, <1>17, <3>1, <4>1, KeyOrDn
    <3>2. QED
      BY <3>1 DEF AllFound
  <2>2. QED
    BY <1>7, <1>10, <2>1, LearnedMany
<1>20. ASSUME NEW i \in 1 .. Len(t), Relies(p, Rest(x, t), i)
       PROVE  (\E y : x.obj[t[i].key] = Loaded(y)) \/ Had(p, r, t[i])
  <2>1. Rest(x, t).todo = t
    BY <1>19 DEF Learns, Rest, IsProc, Fields
  <2>2. t[i].op = "modify"
    BY <1>20, <2>1 DEF Relies, Reliant
  <2>3. i \in 1 .. n /\ t[i] = Rewrite(Printer(groups[i]), {}, {pr})
    BY <1>16, <2>2
  <2>4. t[i].key = Printer(groups[i]) /\ groups[i] \in P
    BY <1>12, <1>13, <2>3 DEF Rewrite
  <2>5. t[i].key \in DOMAIN known
    BY <1>6, <2>4
  <2>6. QED
    BY <1>19, <2>5 DEF Learns
<1>21. IsProc(x) /\ Learned(r, x.obj)
  BY <1>19 DEF Learns
<1>22. QED
  BY <1>0, <1>1, <1>11, <1>18, <1>20, <1>21, SearchTo

LEMMA CodesWrites ==
  ASSUME TypeInv, LossInv, NEW p \in Procs, MatchingCodes(p), Saves(p)
  PROVE  LossInv'
<1>0. /\ Running(p) /\ proc[p].todo # <<>> /\ Step(p).op = "codes"
      /\ UNCHANGED <<conf, cmd, dir, contended, ledger>>
  BY DEF MatchingCodes, At, Unchanged
<1>1. PICK r : r = proc[p]
  OBVIOUS
<1>2. PICK c : c = cmd[p]
  OBVIOUS
<1>3. PICK S : S = Matching(Code(c.code))
  OBVIOUS
<1>4. PICK codes : codes = SetToSeq(S)
  OBVIOUS
<1>5. PICK known : known = [dn \in Range(codes) |-> Loaded(dn)]
  OBVIOUS
<1>6. PICK x : x = [r EXCEPT !.obj = With(known, @)]
  OBVIOUS
<1>7. PICK t : t = [i \in DOMAIN codes |-> Save(codes[i], c.n)]
  OBVIOUS
<1>8. IsProc(r) /\ cmd[p].do = "savecode"
  <2>1. Role(p, Step(p)) /\ IsProc(proc[p])
    BY <1>0, SaverIs
  <2>2. QED
    BY <1>0, <1>1, <2>1 DEF Role
<1>9. Becomes(p, Rest(x, t))
  BY <1>1, <1>2, <1>3, <1>4, <1>5, <1>6, <1>7, <1>8 DEF MatchingCodes, SaveBillingCode
<1>10. \A dn \in S : IsDn(dn)
  BY <1>3, MatchIs DEF TypeInv
<1>11. IsFiniteSet(S)
  BY <1>3, FS_Subset DEF Matching, TypeInv, DirOK
<1>12. /\ IsSeq(codes) /\ DOMAIN codes = 1 .. Len(codes) /\ Len(codes) \in Nat
       /\ \A i \in 1 .. Len(codes) : codes[i] \in S
       /\ \A i, j \in 1 .. Len(codes) : codes[i] = codes[j] => i = j
  BY <1>4, <1>11, EachOnce
<1>13. PICK n \in Nat : n = Len(codes)
  BY <1>12
<1>14. /\ IsSeq(t) /\ Len(t) = n /\ Range(t) = {t[i] : i \in 1 .. n}
       /\ \A i \in 1 .. n : t[i] = Save(codes[i], c.n) /\ codes[i] \in S /\ codes[i] \in Range(codes)
  <2>1. t = [i \in 1 .. n |-> t[i]]
    BY <1>7, <1>12, <1>13
  <2>2. IsSeq(t) /\ Len(t) = n /\ Range(t) = {t[i] : i \in 1 .. n}
    BY <2>1, ListIsSeq
  <2>3. \A i \in 1 .. n : t[i] = Save(codes[i], c.n)
    BY <1>7, <1>12, <1>13
  <2>4. \A i \in 1 .. n : codes[i] \in S /\ codes[i] \in Range(codes)
    BY <1>12, <1>13, RangeIs
  <2>5. QED
    BY <2>2, <2>3, <2>4
<1>15. \A d, m : Save(d, m).op = "modify" /\ Save(d, m).key = d
  BY DEF Save
<1>16. Ordered(p, t)
  <2>1. ASSUME NEW s \in Range(t) PROVE Role(p, s)
    <3>1. PICK i \in 1 .. n : s = Save(codes[i], c.n) /\ codes[i] \in S
      BY <1>14
    <3>2. QED
      BY <1>8, <1>10, <3>1 DEF Role, Save
  <2>2. \A i \in 1 .. Len(t) : IF i <= n THEN t[i].op = "modify" ELSE t[i].op \notin {"modify", "add", "refresh"}
    BY <1>14, <1>15
  <2>3. ASSUME NEW i \in 1 .. Len(t), NEW j \in 1 .. Len(t), i < j, j <= n
        PROVE  Differ(t[i].key, t[j].key)
    <3>1. i \in 1 .. n /\ j \in 1 .. n /\ i # j
      BY <1>14, <2>3
    <3>2. codes[i] # codes[j]
      BY <1>12, <1>13, <3>1
    <3>3. t[i].key = codes[i] /\ t[j].key = codes[j] /\ codes[i] \in S /\ codes[j] \in S
      BY <1>14, <1>15, <3>1
    <3>4. QED
      BY <1>10, <3>2, <3>3 DEF Differ
  <2>4. cmd[p].do # "refund"
    BY <1>8
  <2>5. QED
    BY <1>14, <2>1, <2>2, <2>3, <2>4, ChangesOrdered
<1>17. Learns(r, known, x) /\ DOMAIN known = Range(codes)
  <2>1. AllFound(known) /\ DOMAIN known = Range(codes)
    BY <1>5 DEF AllFound
  <2>2. QED
    BY <1>6, <1>8, <2>1, LearnedMany
<1>18. ASSUME NEW i \in 1 .. Len(t) PROVE \E y : x.obj[t[i].key] = Loaded(y)
  <2>1. t[i].key \in DOMAIN known
    BY <1>14, <1>15, <1>17
  <2>2. QED
    BY <1>17, <2>1 DEF Learns
<1>19. IsProc(x) /\ Learned(r, x.obj)
  BY <1>17 DEF Learns
<1>20. QED
  BY <1>0, <1>1, <1>9, <1>16, <1>18, <1>19, SearchTo

(* What is left when some steps are skipped.                               *)
Skipped(p, r, n, u) ==
  /\ IsSeq(r.todo) /\ n \in Nat /\ u = After(r.todo, n)
  /\ n # 0 => \A m \in Range(r.todo) : m.op \notin {"refresh", "add"}

LEMMA SkippedRelied ==
  ASSUME NEW p, NEW r, NEW x, IsProc(x), NEW n, NEW u, Skipped(p, r, n, u),
         NEW i \in 1 .. Len(u), Relies(p, Rest(x, u), i), NEW s, s = u[i], Keeps(p, r, s)
  PROVE  Had(p, r, s)
<1>1. CASE n = 0
  <2>1. Left(r, u)
    BY <1>1 DEF Skipped, Left
  <2>2. QED
    BY <2>1, LeftRelied
<1>2. CASE n # 0
  <2>1. PICK r2 : r2 = Rest(x, u)
    OBVIOUS
  <2>2. r2.todo = u
    BY <2>1 DEF Rest, IsProc, Fields
  <2>3. /\ IsSeq(r.todo) /\ n \in Nat /\ r2.todo = After(r.todo, n) /\ i \in 1 .. Len(r2.todo) /\ Relies(p, r2, i)
        /\ \A m \in Range(r.todo) : m.op \notin {"refresh", "add"}
    BY <1>2, <2>1, <2>2 DEF Skipped
  <2>4. r2.todo[i].key \in DOMAIN r.obj /\ ~Repeated(p, r2.todo[i]) /\ r2.todo[i] = s
    BY <2>2 DEF Keeps
  <2>5. i + n + 1 \in 2 .. Len(r.todo) /\ r.todo[i + n + 1] = r2.todo[i] /\ Relies(p, r, i + n + 1)
    BY <2>3, <2>4, Relied
  <2>6. i + n + 1 \in 1 .. Len(r.todo)
    BY <2>5
  <2>7. QED
    BY <2>4, <2>5, <2>6 DEF Had
<1>3. QED
  BY <1>1, <1>2

(* What is known of a search.                                              *)
LEMMA FindSteps ==
  ASSUME TypeInv, LossInv, NEW p \in Procs, FindObject(p), Saves(p)
  PROVE  /\ Running(p) /\ proc[p].todo # <<>> /\ Step(p).op = "find"
         /\ IsProc(proc[p]) /\ IsSeq(proc[p].todo) /\ Step(p) = proc[p].todo[1] /\ Ordered(p, proc[p].todo)
         /\ \A n : Skipping(p, n) = After(proc[p].todo, n)
         /\ Step(p).hit \in {0, Stop} /\ Step(p).miss \in Nat
         /\ cmd[p].do # "refund" => Step(p).miss \in {0, Stop}
         /\ cmd[p].do = "refund" =>
              /\ Step(p).hit = 0 /\ Step(p).miss \in Nat \ {0}
              /\ \A m \in Range(proc[p].todo) : m.op \notin {"refresh", "add"}
              /\ Step(p).miss \notin {Stop, Raise} =>
                   /\ 1 + Step(p).miss + 1 <= Len(proc[p].todo) /\ ~Repeated(p, proc[p].todo[1 + Step(p).miss + 1])
                   /\ 1 + Step(p).miss + 2 <= Len(proc[p].todo) => ~Repeated(p, proc[p].todo[1 + Step(p).miss + 2])
<1>1. Running(p) /\ proc[p].todo # <<>> /\ Step(p).op = "find"
  BY DEF FindObject, At
<1>2. /\ IsProc(proc[p]) /\ IsSeq(proc[p].todo) /\ Step(p) = proc[p].todo[1] /\ Ordered(p, proc[p].todo)
      /\ 1 \in 1 .. Len(proc[p].todo) /\ Role(p, Step(p))
      /\ \A n : Skipping(p, n) = After(proc[p].todo, n)
  BY <1>1, SaverIs
<1>3. cmd[p].do # "refund" => Step(p).miss \in {0, Stop} /\ Step(p).hit \in {0, Stop}
  BY <1>1, <1>2 DEF Role
<1>4. ASSUME cmd[p].do = "refund"
      PROVE  /\ Step(p).hit = 0 /\ Step(p).miss \in Nat \ {0}
             /\ \A m \in Range(proc[p].todo) : m.op \notin {"refresh", "add"}
             /\ Step(p).miss \notin {Stop, Raise} =>
                  /\ 1 + Step(p).miss + 1 <= Len(proc[p].todo) /\ ~Repeated(p, proc[p].todo[1 + Step(p).miss + 1])
                  /\ 1 + Step(p).miss + 2 <= Len(proc[p].todo) => ~Repeated(p, proc[p].todo[1 + Step(p).miss + 2])
  <2>1. ASSUME NEW m \in Range(proc[p].todo) PROVE m.op \notin {"refresh", "add"}
    <3>1. Role(p, m)
      BY <1>2 DEF Ordered
    <3>2. QED
      BY <1>4, <3>1 DEF Role
  <2> DEFINE t == proc[p].todo
  <2>2. Lands(p, t) /\ t[1].op = "find" /\ 1 \in 1 .. Len(t) /\ Step(p) = t[1]
    BY <1>1, <1>2 DEF Ordered
  <2> HIDE DEF t
  <2>3. /\ t[1].hit = 0 /\ t[1].miss \in Nat \ {0}
        /\ t[1].miss \notin {Stop, Raise} =>
             /\ 1 + t[1].miss + 1 <= Len(t) /\ ~Repeated(p, t[1 + t[1].miss + 1])
             /\ 1 + t[1].miss + 2 <= Len(t) => ~Repeated(p, t[1 + t[1].miss + 2])
    BY <1>4, <2>2 DEF Lands
  <2>4. QED
    BY <2>1, <2>2, <2>3 DEF t
<1>5. Stop \in Nat /\ 0 \in Nat
  BY DEF Stop
<1>6. QED
  BY <1>1, <1>2, <1>3, <1>4, <1>5

(* Nothing was found, or it was in the cache.                              *)
LEMMA NotFoundWrites ==
  ASSUME TypeInv, LossInv, NEW p \in Procs, FindObject(p), Saves(p), NEW n,
         Becomes(p, Rest(proc[p], Skipping(p, n))),
         (n = Step(p).hit /\ conf.caching) \/ (n = Step(p).miss /\ n # Raise)
  PROVE  LossInv'
<1>0. UNCHANGED <<conf, cmd, dir, contended, ledger>>
  BY DEF FindObject, Unchanged
<1>1. PICK r : r = proc[p]
  OBVIOUS
<1>2. PICK s : s = Step(p)
  OBVIOUS
<1>3. PICK u : u = After(r.todo, n)
  OBVIOUS
<1>4. /\ Running(p) /\ IsProc(r) /\ IsSeq(r.todo) /\ s = r.todo[1] /\ s.op = "find" /\ Ordered(p, r.todo)
      /\ Skipping(p, n) = u /\ n \in Nat
  BY <1>1, <1>2, <1>3, FindSteps DEF Stop
<1>5. Becomes(p, Rest(r, u))
  BY <1>1, <1>4
<1>6. IsSeq(u) /\ Ordered(p, u)
  BY <1>3, <1>4, OrderedAfter, AfterIs
<1>7. ASSUME NEW i \in 1 .. Len(u), Relies(p, Rest(r, u), i) PROVE Had(p, r, u[i])
  <2>1. Rest(r, u).todo = u /\ Rest(r, u).obj = r.obj
    BY <1>4 DEF Rest, IsProc, Fields
  <2>2. u[i].key \in DOMAIN r.obj /\ (Repeated(p, u[i]) => i <= 2) /\ (u[i].field = "set" => ~conf.caching)
    BY <1>7, <2>1 DEF Relies
  <2>3. n # Stop
    <3>1. n = Stop => u = <<>>
      BY <1>3 DEF After
    <3>2. u # <<>>
      BY <1>6, <1>7, RangeIs
    <3>3. QED
      BY <3>1, <3>2
  <2>4. ~Repeated(p, u[i])
    <3>1. SUFFICES ASSUME Repeated(p, u[i]) PROVE FALSE
      OBVIOUS
    <3>2. cmd[p].do = "refund" /\ ~conf.caching
      BY <2>2, <3>1 DEF Repeated
    <3>3. n = s.miss /\ n # Raise
      BY <1>2, <3>2
    <3>4. /\ ~Repeated(p, r.todo[1 + n + 1])
          /\ 1 + n + 2 <= Len(r.todo) => ~Repeated(p, r.todo[1 + n + 2])
      BY <1>1, <1>2, <2>3, <3>2, <3>3, FindSteps
    <3>5. i + n + 1 \in 1 .. Len(r.todo) /\ u[i] = r.todo[i + n + 1] /\ i \in Nat /\ i >= 1 /\ i <= 2 /\ Len(r.todo) \in Nat
      BY <1>3, <1>4, <1>6, <2>2, <3>1, AfterIs, RangeIs
    <3>6. CASE i = 1
      BY <3>1, <3>4, <3>5, <3>6
    <3>7. CASE i = 2
      <4>1. i + n + 1 = 1 + n + 2 /\ 1 + n + 2 <= Len(r.todo)
        BY <1>4, <3>5, <3>7
      <4>2. QED
        BY <3>1, <3>4, <3>5, <4>1
    <3>8. QED
      BY <3>5, <3>6, <3>7
  <2>5. Keeps(p, r, u[i])
    BY <1>4, <2>2, <2>4 DEF Keeps
  <2>6. Skipped(p, r, n, u)
    <3>1. n # 0 => cmd[p].do = "refund"
      <4>1. cmd[p].do # "refund" => n \in {0, Stop}
        BY <1>2, FindSteps
      <4>2. QED
        BY <2>3, <4>1
    <3>2. n # 0 => \A m \in Range(r.todo) : m.op \notin {"refresh", "add"}
      BY <1>1, <3>1, FindSteps
    <3>3. QED
      BY <1>3, <1>4, <3>2 DEF Skipped
  <2>7. QED
    BY <1>4, <1>7, <2>5, <2>6, SkippedRelied
<1>8. Learned(r, r.obj)
  BY NothingLearned
<1>9. QED
  BY <1>0, <1>1, <1>4, <1>5, <1>6, <1>7, <1>8, SearchTo

(* The entry is in memory now, and for an account its balance.             *)
LEMMA FoundWrites ==
  ASSUME TypeInv, LossInv, NEW p \in Procs, FindObject(p), Saves(p), NEW dn \in Matching(Step(p).key),
         LET found == WithObject(proc[p], Step(p).key, Loaded(dn))
         IN Becomes(p, Rest(IF Step(p).key[1] # "account" THEN found
                            ELSE WithObject(found, Balance(Step(p).key[2]),
                                            Loaded(Dn(Balance(Step(p).key[2]), None))),
                            Skipping(p, Step(p).hit)))
  PROVE  LossInv'
<1>0. UNCHANGED <<conf, cmd, dir, contended, ledger>>
  BY DEF FindObject, Unchanged
<1>1. PICK r : r = proc[p]
  OBVIOUS
<1>2. PICK s : s = Step(p)
  OBVIOUS
<1>3. PICK n : n = s.hit
  OBVIOUS
<1>4. PICK u : u = After(r.todo, n)
  OBVIOUS
<1>5. PICK b : b = Balance(s.key[2])
  OBVIOUS
<1>6. PICK one : one = WithObject(r, s.key, Loaded(dn))
  OBVIOUS
<1>7. PICK two : two = WithObject(one, b, Loaded(Dn(b, None)))
  OBVIOUS
<1>8. PICK x : x = IF s.key[1] # "account" THEN one ELSE two
  OBVIOUS
<1>9. /\ Running(p) /\ IsProc(r) /\ IsSeq(r.todo) /\ s = r.todo[1] /\ s.op = "find" /\ Ordered(p, r.todo)
      /\ Skipping(p, n) = u /\ n \in {0, Stop}
  BY <1>1, <1>2, <1>3, <1>4, FindSteps
<1>10. Becomes(p, Rest(x, u))
  BY <1>1, <1>2, <1>3, <1>5, <1>6, <1>7, <1>8, <1>9
<1>11. ~IsDn(s.key) /\ ~IsDn(b)
  <2>1. IsKey(s.key)
    BY <1>2, MatchIs DEF TypeInv
  <2>2. IsKey(b)
    BY <1>5, KeysAreKeys
  <2>3. QED
    BY <2>1, <2>2, KeyOrDn
<1>12. /\ IsProc(one) /\ Learned(r, one.obj) /\ one.obj[s.key] = Loaded(dn)
       /\ DOMAIN one.obj = {s.key} \cup DOMAIN r.obj
  <2>1. Learned(r, r.obj) /\ IsProc(r)
    BY <1>9, NothingLearned
  <2>2. PICK k : k = s.key
    OBVIOUS
  <2>3. (IsDn(k) => dn = k) /\ one = WithObject(r, k, Loaded(dn))
    BY <1>6, <1>11, <2>2
  <2>4. IsProc(one) /\ Learned(r, one.obj) /\ one.obj[k] = Loaded(dn) /\ DOMAIN one.obj = {k} \cup DOMAIN r.obj
    BY <2>1, <2>3, LearnedOne
  <2>5. QED
    BY <2>2, <2>4
<1>13. /\ IsProc(two) /\ Learned(r, two.obj) /\ two.obj[b] = Loaded(Dn(b, None))
       /\ DOMAIN two.obj = {b} \cup DOMAIN one.obj
       /\ \A k \in DOMAIN one.obj : k # b => two.obj[k] = one.obj[k]
  BY <1>7, <1>11, <1>12, LearnedOne
<1>14. IsProc(x) /\ Learned(r, x.obj)
  BY <1>8, <1>12, <1>13
<1>15. \A k \in DOMAIN x.obj : \/ \E y : x.obj[k] = Loaded(y)
                               \/ k \in DOMAIN r.obj /\ ~Loads(s, k)
  <2>1. ASSUME NEW k \in DOMAIN x.obj, ~\E y : x.obj[k] = Loaded(y)
        PROVE  k \in DOMAIN r.obj /\ ~Loads(s, k)
    <3>1. CASE s.key[1] # "account"
      <4>1. x = one
        BY <1>8, <3>1
      <4>2. k # s.key
        BY <1>12, <2>1, <4>1
      <4>3. QED
        BY <1>12, <3>1, <4>1, <4>2 DEF Loads
    <3>2. CASE s.key[1] = "account"
      <4>1. x = two
        BY <1>8, <3>2
      <4>2. k # b
        BY <1>13, <2>1, <4>1
      <4>3. k \in DOMAIN one.obj /\ two.obj[k] = one.obj[k]
        BY <1>13, <4>1, <4>2
      <4>4. k # s.key
        BY <1>12, <2>1, <4>1, <4>3
      <4>5. QED
        BY <1>5, <1>12, <4>2, <4>3, <4>4 DEF Loads
    <3>3. QED
      BY <3>1, <3>2
  <2>2. QED
    BY <2>1
<1>16. IsSeq(u) /\ Ordered(p, u)
  <2>1. n \in Nat
    BY <1>9 DEF Stop
  <2>2. QED
    BY <1>4, <1>9, <2>1, OrderedAfter, AfterIs
<1>17. ASSUME NEW i \in 1 .. Len(u), Relies(p, Rest(x, u), i)
       PROVE  (\E y : x.obj[u[i].key] = Loaded(y)) \/ Had(p, r, u[i])
  <2>1. Rest(x, u).todo = u /\ Rest(x, u).obj = x.obj
    BY <1>14 DEF Rest, IsProc, Fields
  <2>2. u[i].key \in DOMAIN x.obj /\ (Repeated(p, u[i]) => i <= 2)
    BY <1>17, <2>1 DEF Relies
  <2>3. SUFFICES ASSUME u[i].key \in DOMAIN r.obj, ~Loads(s, u[i].key) PROVE Had(p, r, u[i])
    BY <1>15, <2>2
  <2>4. n = 0
    <3>1. n = Stop => u = <<>>
      BY <1>4 DEF After
    <3>2. u # <<>>
      BY <1>16, <1>17, RangeIs
    <3>3. QED
      BY <1>9, <3>1, <3>2
  <2>5. Left(r, u)
    BY <1>4, <1>9, <2>4 DEF Left
  <2>6. ~Repeated(p, u[i])
    <3>1. SUFFICES ASSUME Repeated(p, u[i]) PROVE FALSE
      OBVIOUS
    <3>2. i + 0 + 1 \in 1 .. Len(r.todo) /\ u[i] = r.todo[i + 0 + 1] /\ i \in Nat /\ i >= 1 /\ i <= 2
      BY <1>4, <1>9, <1>16, <2>2, <2>4, <3>1, AfterIs, RangeIs
    <3>3. PICK j \in 1 .. Len(r.todo) : j = i + 1 /\ u[i] = r.todo[j]
      BY <3>2
    <3>4. Repeated(p, r.todo[j]) /\ AfterSearch(p, r.todo)
      BY <1>9, <3>1, <3>3 DEF Ordered
    <3>5. CASE i = 1
      <4>1. j = 2 /\ j - 1 = 1
        BY <3>3, <3>5
      <4>2. r.todo[1].op = "modify"
        BY <3>4, <4>1 DEF AfterSearch
      <4>3. QED
        BY <1>9, <4>2
    <3>6. CASE i = 2
      <4>1. j = 3 /\ j - 2 = 1
        BY <3>3, <3>6
      <4>2. Loads(r.todo[1], r.todo[j].key)
        BY <3>4, <4>1 DEF AfterSearch
      <4>3. QED
        BY <1>9, <2>3, <3>3, <4>2
    <3>7. QED
      BY <3>2, <3>5, <3>6
  <2>7. Keeps(p, r, u[i])
    BY <1>9, <2>3, <2>6 DEF Keeps
  <2>8. QED
    BY <1>14, <1>17, <2>5, <2>7, LeftRelied
<1>18. QED
  BY <1>0, <1>1, <1>9, <1>10, <1>14, <1>16, <1>17, SearchTo

LEMMA FindWrites ==
  ASSUME TypeInv, LossInv, NEW p \in Procs, FindObject(p), Saves(p)
  PROVE  LossInv'
<1>1. \/ conf.caching /\ Becomes(p, Rest(proc[p], Skipping(p, Step(p).hit)))
      \/ Step(p).miss # Raise /\ Becomes(p, Rest(proc[p], Skipping(p, Step(p).miss)))
      \/ Fail(p)
      \/ \E dn \in Matching(Step(p).key) :
           LET found == WithObject(proc[p], Step(p).key, Loaded(dn))
           IN Becomes(p, Rest(IF Step(p).key[1] # "account" THEN found
                              ELSE WithObject(found, Balance(Step(p).key[2]),
                                              Loaded(Dn(Balance(Step(p).key[2]), None))),
                              Skipping(p, Step(p).hit)))
  BY DEF FindObject, Cached
<1>2. CASE conf.caching /\ Becomes(p, Rest(proc[p], Skipping(p, Step(p).hit)))
  BY <1>2, NotFoundWrites
<1>3. CASE Step(p).miss # Raise /\ Becomes(p, Rest(proc[p], Skipping(p, Step(p).miss)))
  BY <1>3, NotFoundWrites
<1>4. CASE Fail(p)
  BY <1>4, FailWrites DEF FindObject, Unchanged
<1>5. QED
  BY <1>1, <1>2, <1>3, <1>4, FoundWrites


(* The steps of a refund: entries that are looked for, counters, payments, *)
(* and the jobs J, each of which is marked once.                           *)
Jobs(J) == \A k \in J : IsDn(k) /\ k[1] = "job"
Pays(p, s) == s.op = "modify" /\ s.field = "set" /\ s.key = Balance(cmd[p].user)
Marks(J, s) == s.op = "modify" /\ s.field = "set" /\ s.key \in J
Counts(s) == s.op = "modify" /\ s.field = "num" /\ s.how = "add" /\ IsKey(s.key)
Looks(s) == s.op = "find" /\ s.hit = 0 /\ s.miss \in Nat \ {0}
Refund(p, J, s) == Pays(p, s) \/ Marks(J, s) \/ Counts(s) \/ Looks(s)
PaysAfter(p, t, i) == Pays(p, t[i]) => i >= 3 /\ Counts(t[i - 1]) /\ Loads(t[i - 2], Balance(cmd[p].user))
LooksOn(J, t, i) ==
  Looks(t[i]) /\ t[i].miss \notin {Stop, Raise} =>
    /\ i + t[i].miss + 1 <= Len(t) /\ Marks(J, t[i + t[i].miss + 1])
    /\ i + t[i].miss + 2 <= Len(t) => Looks(t[i + t[i].miss + 2])
MarksOnce(J, t) == \A i, j \in 1 .. Len(t) : i < j /\ Marks(J, t[i]) /\ Marks(J, t[j]) => t[i].key # t[j].key
Refunds(p, J, t) ==
  /\ IsSeq(t) /\ (t # <<>> => Looks(t[1])) /\ MarksOnce(J, t)
  /\ \A i \in 1 .. Len(t) : Refund(p, J, t[i]) /\ PaysAfter(p, t, i) /\ LooksOn(J, t, i)

LEMMA PaidIs ==
  ASSUME NEW p, NEW J, Jobs(J), NEW s
  PROVE  /\ Repeated(p, s) /\ Refund(p, J, s) => Pays(p, s)
         /\ Marks(J, s) \/ Looks(s) => ~Repeated(p, s)
         /\ Refund(p, J, s) /\ s.op = "find" => Looks(s)
         /\ Refund(p, J, s) /\ cmd[p].do = "refund" => Role(p, s)
<1>1. PICK k : k = s.key
  OBVIOUS
<1>2. Marks(J, s) => IsDn(k) /\ ~IsKey(k)
  <2>1. k \in J => IsDn(k) /\ ~IsKey(k)
    BY KeyOrDn DEF Jobs
  <2>2. QED
    BY <1>1, <2>1 DEF Marks
<1>3. Pays(p, s) => IsKey(k)
  BY <1>1, KeysAreKeys DEF Pays
<1>4. Counts(s) => IsKey(k)
  BY <1>1 DEF Counts
<1>5. Repeated(p, s) /\ Refund(p, J, s) => Pays(p, s)
  BY <1>1, <1>2 DEF Repeated, Refund, Counts, Looks
<1>6. Marks(J, s) \/ Looks(s) => ~Repeated(p, s)
  BY <1>1, <1>2 DEF Repeated, Looks
<1>7. Refund(p, J, s) /\ s.op = "find" => Looks(s)
  BY DEF Refund, Pays, Marks, Counts
<1>8. ASSUME Refund(p, J, s), cmd[p].do = "refund" PROVE Role(p, s)
  <2>1. CASE Looks(s)
    BY <1>8, <2>1 DEF Role, Looks
  <2>2. CASE Pays(p, s)
    BY <1>1, <1>3, <1>8, <2>2 DEF Role, Pays
  <2>3. CASE Marks(J, s)
    BY <1>1, <1>2, <1>8, <2>3 DEF Role, Marks
  <2>4. CASE Counts(s)
    BY <1>8, <2>4 DEF Role, Counts
  <2>5. QED
    BY <1>8, <2>1, <2>2, <2>3, <2>4 DEF Refund
<1>9. QED
  BY <1>5, <1>6, <1>7, <1>8

LEMMA RefundsOrdered ==
  ASSUME NEW p, cmd[p].do = "refund", NEW J, Jobs(J), NEW t, Refunds(p, J, t)
  PROVE  Ordered(p, t)
<1>1. /\ IsSeq(t) /\ Len(t) \in Nat /\ \A s \in Range(t) : \E i \in 1 .. Len(t) : s = t[i]
      /\ \A i \in 1 .. Len(t) : Refund(p, J, t[i]) /\ PaysAfter(p, t, i) /\ LooksOn(J, t, i)
      /\ MarksOnce(J, t)
  BY RangeIs DEF Refunds
<1>2. \A s \in Range(t) : Role(p, s)
  BY <1>1, PaidIs
<1>3. Once(p, t)
  <2>1. ASSUME NEW i \in 1 .. Len(t), NEW j \in 1 .. Len(t), i < j, t[i].op = "modify", Reliant(t[j]),
               t[i].field = t[j].field, ~Repeated(p, t[j])
        PROVE  Differ(t[i].key, t[j].key)
    <3>1. PICK a : a = t[i]
      OBVIOUS
    <3>2. PICK b : b = t[j]
      OBVIOUS
    <3>3. Refund(p, J, a) /\ Refund(p, J, b) /\ a.op = "modify" /\ Reliant(b) /\ a.field = b.field /\ ~Repeated(p, b)
      BY <1>1, <2>1, <3>1, <3>2
    <3>4. ~Pays(p, b)
      BY <3>3, KeysAreKeys DEF Pays, Repeated
    <3>5. Marks(J, b)
      BY <3>3, <3>4 DEF Refund, Reliant, Counts, Looks
    <3>6. Marks(J, a) \/ Pays(p, a)
      BY <3>3, <3>5 DEF Refund, Marks, Counts, Looks
    <3>7. PICK k : k = a.key
      OBVIOUS
    <3>8. PICK l : l = b.key
      OBVIOUS
    <3>9. l \in J /\ IsDn(l) /\ l[1] = "job"
      BY <3>5, <3>8 DEF Marks, Jobs
    <3>10. CASE Marks(J, a)
      <4>1. k # l
        BY <1>1, <2>1, <3>1, <3>2, <3>5, <3>7, <3>8, <3>10 DEF MarksOnce
      <4>2. IsDn(k)
        BY <3>7, <3>10 DEF Marks, Jobs
      <4>3. QED
        BY <3>1, <3>2, <3>7, <3>8, <3>9, <4>1, <4>2 DEF Differ
    <3>11. CASE Pays(p, a)
      <4>1. k = Balance(cmd[p].user) /\ KeyOf(k) = k /\ k[1] # "job"
        <5>1. k = Balance(cmd[p].user)
          BY <3>7, <3>11 DEF Pays
        <5>2. IsKey(k)
          BY <5>1, KeysAreKeys
        <5>3. KeyOf(k) = k
          BY <5>2, KeyOrDn DEF KeyOf
        <5>4. k[1] # "job"
          BY <5>1 DEF Balance
        <5>5. QED
          BY <5>1, <5>3, <5>4
      <4>2. KeyOf(l)[1] = "job"
        BY <3>9 DEF KeyOf, IsDn
      <4>3. k # l
        BY <3>9, <4>1
      <4>4. QED
        BY <3>1, <3>2, <3>7, <3>8, <4>1, <4>2, <4>3 DEF Differ
    <3>12. QED
      BY <3>6, <3>10, <3>11
  <2>2. QED
    BY <2>1 DEF Once
<1>4. AskedLast(t)
  <2>1. \A s : Refund(p, J, s) => s.op \notin {"leave", "refunds", "codes", "add", "refresh"}
    BY DEF Refund, Pays, Marks, Counts, Looks
  <2>2. QED
    BY <1>1, <2>1 DEF AskedLast
<1>5. AfterSearch(p, t)
  <2>1. ASSUME NEW i \in 1 .. Len(t), Repeated(p, t[i])
        PROVE  /\ t[i - 1].op = "modify" /\ t[i - 1].field = "num"
               /\ Loads(t[i - 2], t[i].key)
    <3>1. Pays(p, t[i])
      BY <1>1, <2>1, PaidIs
    <3>2. Counts(t[i - 1]) /\ Loads(t[i - 2], Balance(cmd[p].user))
      BY <1>1, <3>1 DEF PaysAfter
    <3>3. QED
      BY <3>1, <3>2 DEF Counts, Pays
  <2>2. QED
    BY <2>1 DEF AfterSearch
<1>6. Lands(p, t)
  <2>1. ASSUME NEW i \in 1 .. Len(t), t[i].op = "find"
        PROVE  /\ t[i].hit = 0 /\ t[i].miss \in Nat \ {0}
               /\ t[i].miss \notin {Stop, Raise} =>
                    /\ i + t[i].miss + 1 <= Len(t) /\ ~Repeated(p, t[i + t[i].miss + 1])
                    /\ i + t[i].miss + 2 <= Len(t) => ~Repeated(p, t[i + t[i].miss + 2])
    <3>1. PICK a : a = t[i].miss
      OBVIOUS
    <3>2. Looks(t[i])
      BY <1>1, <2>1, PaidIs
    <3>3. t[i].hit = 0 /\ a \in Nat \ {0}
      BY <3>1, <3>2 DEF Looks
    <3>4. a \notin {Stop, Raise} => /\ i + a + 1 <= Len(t) /\ Marks(J, t[i + a + 1])
                                    /\ i + a + 2 <= Len(t) => Looks(t[i + a + 2])
      BY <1>1, <3>1, <3>2 DEF LooksOn
    <3>5. a \notin {Stop, Raise} => /\ i + a + 1 <= Len(t) /\ ~Repeated(p, t[i + a + 1])
                                    /\ i + a + 2 <= Len(t) => ~Repeated(p, t[i + a + 2])
      BY <3>4, PaidIs
    <3>6. QED
      BY <3>1, <3>3, <3>5
  <2>2. QED
    BY <2>1 DEF Lands
<1>7. QED
  BY <1>2, <1>3, <1>4, <1>5, <1>6 DEF Ordered


LEMMA RefundsBoth ==
  ASSUME NEW p, NEW J, NEW K, J \cap K = {}, Jobs(J), Jobs(K), NEW t, NEW u, Refunds(p, J, t), Refunds(p, K, u)
  PROVE  Refunds(p, J \cup K, t \o u)
<1> DEFINE v == t \o u
           L == J \cup K
<1>1. PICK m : m = Len(t)
  OBVIOUS
<1>2. PICK n : n = Len(u)
  OBVIOUS
<1>3. /\ IsSeq(t) /\ (t # <<>> => Looks(t[1])) /\ MarksOnce(J, t)
      /\ \A i \in 1 .. m : Refund(p, J, t[i]) /\ PaysAfter(p, t, i) /\ LooksOn(J, t, i)
  BY <1>1 DEF Refunds
<1>4. /\ IsSeq(u) /\ (u # <<>> => Looks(u[1])) /\ MarksOnce(K, u)
      /\ \A i \in 1 .. n : Refund(p, K, u[i]) /\ PaysAfter(p, u, i) /\ LooksOn(K, u, i)
  BY <1>2 DEF Refunds
<1>5. m \in Nat /\ n \in Nat /\ (t # <<>> <=> m >= 1) /\ (u # <<>> <=> n >= 1)
  BY <1>1, <1>2, <1>3, <1>4, RangeIs
<1>6. /\ IsSeq(v) /\ Len(v) = m + n
      /\ \A i \in 1 .. m + n : v[i] = IF i <= m THEN t[i] ELSE u[i - m]
  BY <1>1, <1>2, <1>3, <1>4, BothAre
<1> HIDE DEF v
<1>7. \A i \in 1 .. m : v[i] = t[i]
  BY <1>5, <1>6
<1>8. \A i \in 1 .. n : v[m + i] = u[i]
  <2>1. ASSUME NEW i \in 1 .. n PROVE v[m + i] = u[i]
    <3>1. m + i \in 1 .. m + n /\ ~(m + i <= m) /\ (m + i) - m = i
      BY <1>5
    <3>2. QED
      BY <1>6, <3>1
  <2>2. QED
    BY <2>1
<1>9. \A i \in 1 .. m + n : i \in 1 .. m \/ \E k \in 1 .. n : i = m + k
  <2>1. ASSUME NEW i \in 1 .. m + n, i \notin 1 .. m PROVE i - m \in 1 .. n /\ i = m + (i - m)
    BY <1>5, <2>1
  <2>2. QED
    BY <2>1
<1>10. \A s : (Marks(J, s) \/ Marks(K, s)) => Marks(L, s)
  BY DEF Marks
<1>11. v # <<>> => Looks(v[1])
  <2>1. CASE m >= 1
    BY <1>3, <1>5, <1>7, <2>1
  <2>2. CASE m = 0 /\ n >= 1
    <3>1. 1 \in 1 .. n /\ m + 1 = 1
      BY <1>5, <2>2
    <3>2. v[1] = u[1]
      BY <1>8, <3>1
    <3>3. QED
      BY <1>4, <1>5, <2>2, <3>2
  <2>3. CASE m = 0 /\ n = 0
    BY <1>6, <2>3, RangeIs
  <2>4. QED
    BY <1>5, <2>1, <2>2, <2>3
<1>12. \A i \in 1 .. m + n : Refund(p, L, v[i])
  <2>1. \A i \in 1 .. m : Refund(p, L, v[i])
    BY <1>3, <1>7, <1>10 DEF Refund
  <2>2. \A i \in 1 .. n : Refund(p, L, v[m + i])
    BY <1>4, <1>8, <1>10 DEF Refund
  <2>3. QED
    BY <1>9, <2>1, <2>2
<1>13. ASSUME NEW i \in 1 .. m + n PROVE PaysAfter(p, v, i)
  <2>1. CASE i \in 1 .. m
    <3>1. i >= 3 => i - 1 \in 1 .. m /\ i - 2 \in 1 .. m
      BY <1>5, <2>1
    <3>2. PaysAfter(p, t, i) /\ v[i] = t[i]
      BY <1>3, <1>7, <2>1
    <3>3. i >= 3 => v[i - 1] = t[i - 1] /\ v[i - 2] = t[i - 2]
      BY <1>7, <3>1
    <3>4. QED
      BY <3>2, <3>3 DEF PaysAfter
  <2>2. ASSUME NEW k \in 1 .. n, i = m + k PROVE PaysAfter(p, v, i)
    <3>1. k >= 3 => k - 1 \in 1 .. n /\ k - 2 \in 1 .. n /\ i - 1 = m + (k - 1) /\ i - 2 = m + (k - 2) /\ i >= 3
      BY <1>5, <2>2
    <3>2. PaysAfter(p, u, k) /\ v[i] = u[k]
      BY <1>4, <1>8, <2>2
    <3>3. k >= 3 => v[i - 1] = u[k - 1] /\ v[i - 2] = u[k - 2]
      BY <1>8, <3>1
    <3>4. QED
      BY <3>1, <3>2, <3>3 DEF PaysAfter
  <2>3. QED
    BY <1>9, <2>1, <2>2
<1>14. ASSUME NEW i \in 1 .. m + n PROVE LooksOn(L, v, i)
  <2>1. SUFFICES ASSUME Looks(v[i]), v[i].miss \notin {Stop, Raise}
                 PROVE  /\ i + v[i].miss + 1 <= m + n /\ Marks(L, v[i + v[i].miss + 1])
                        /\ i + v[i].miss + 2 <= m + n => Looks(v[i + v[i].miss + 2])
    BY <1>6 DEF LooksOn
  <2>2. PICK a : a = v[i].miss
    OBVIOUS
  <2>3. a \in Nat \ {0} /\ a \notin {Stop, Raise}
    BY <2>1, <2>2 DEF Looks
  <2>4. CASE i \in 1 .. m
    <3>1. v[i] = t[i] /\ LooksOn(J, t, i)
      BY <1>3, <1>7, <2>4
    <3>2. /\ i + a + 1 <= m /\ Marks(J, t[i + a + 1])
          /\ i + a + 2 <= m => Looks(t[i + a + 2])
      BY <1>1, <2>1, <2>2, <3>1 DEF LooksOn
    <3>3. i + a + 1 \in 1 .. m /\ i + a + 1 <= m + n
      BY <1>5, <2>3, <2>4, <3>2
    <3>4. Marks(L, v[i + a + 1])
      BY <1>7, <1>10, <3>2, <3>3
    <3>5. ASSUME i + a + 2 <= m + n PROVE Looks(v[i + a + 2])
      <4>1. CASE i + a + 2 <= m
        <5>1. i + a + 2 \in 1 .. m
          BY <1>5, <2>3, <2>4, <4>1
        <5>2. QED
          BY <1>7, <3>2, <4>1, <5>1
      <4>2. CASE ~(i + a + 2 <= m)
        <5>1. i + a + 2 = m + 1 /\ n >= 1 /\ 1 \in 1 .. n
          BY <1>5, <2>3, <2>4, <3>2, <3>5, <4>2
        <5>2. v[m + 1] = u[1] /\ Looks(u[1])
          BY <1>4, <1>5, <1>8, <5>1
        <5>3. QED
          BY <5>1, <5>2
      <4>3. QED
        BY <4>1, <4>2
    <3>6. QED
      BY <2>2, <3>3, <3>4, <3>5
  <2>5. ASSUME NEW k \in 1 .. n, i = m + k
        PROVE  /\ i + v[i].miss + 1 <= m + n /\ Marks(L, v[i + v[i].miss + 1])
               /\ i + v[i].miss + 2 <= m + n => Looks(v[i + v[i].miss + 2])
    <3>1. v[i] = u[k] /\ LooksOn(K, u, k)
      BY <1>4, <1>8, <2>5
    <3>2. /\ k + a + 1 <= n /\ Marks(K, u[k + a + 1])
          /\ k + a + 2 <= n => Looks(u[k + a + 2])
      BY <1>2, <2>1, <2>2, <3>1 DEF LooksOn
    <3>3. k + a + 1 \in 1 .. n /\ i + a + 1 <= m + n /\ i + a + 1 = m + (k + a + 1) /\ i + a + 2 = m + (k + a + 2)
      BY <1>5, <2>3, <2>5, <3>2
    <3>4. Marks(L, v[i + a + 1])
      BY <1>8, <1>10, <3>2, <3>3
    <3>5. ASSUME i + a + 2 <= m + n PROVE Looks(v[i + a + 2])
      <4>1. k + a + 2 \in 1 .. n /\ k + a + 2 <= n
        BY <1>5, <2>3, <2>5, <3>5
      <4>2. QED
        BY <1>8, <3>2, <3>3, <4>1
    <3>6. QED
      BY <2>2, <3>3, <3>4, <3>5
  <2>6. QED
    BY <1>9, <2>4, <2>5
<1>15. MarksOnce(L, v)
  <2>1. ASSUME NEW i \in 1 .. m + n, NEW j \in 1 .. m + n, i < j, Marks(L, v[i]), Marks(L, v[j])
        PROVE  v[i].key # v[j].key
    <3>1. ASSUME NEW M, NEW s, Jobs(M), Marks(L, s), Refund(p, M, s) PROVE Marks(M, s)
      <4>1. PICK k : k = s.key
        OBVIOUS
      <4>2. ~IsKey(k)
        <5>1. IsDn(k)
          BY <3>1, <4>1 DEF Marks, Jobs
        <5>2. QED
          BY <5>1, KeyOrDn
      <4>3. ~Pays(p, s)
        BY <4>1, <4>2, KeysAreKeys DEF Pays
      <4>4. QED
        BY <3>1, <4>3 DEF Marks, Refund, Looks, Counts
    <3>2. \A x \in 1 .. m : Marks(L, t[x]) => Marks(J, t[x])
      BY <1>3, <3>1
    <3>3. \A x \in 1 .. n : Marks(L, u[x]) => Marks(K, u[x])
      BY <1>4, <3>1
    <3>4. CASE i \in 1 .. m /\ j \in 1 .. m
      BY <1>1, <1>3, <1>7, <2>1, <3>2, <3>4 DEF MarksOnce
    <3>5. ASSUME i \in 1 .. m, NEW l \in 1 .. n, j = m + l PROVE v[i].key # v[j].key
      <4>1. v[i] = t[i] /\ v[j] = u[l] /\ Marks(J, t[i]) /\ Marks(K, u[l])
        BY <1>7, <1>8, <2>1, <3>2, <3>3, <3>5
      <4>2. t[i].key \in J /\ u[l].key \in K
        BY <4>1 DEF Marks
      <4>3. QED
        BY <4>1, <4>2
    <3>6. ASSUME NEW k \in 1 .. n, NEW l \in 1 .. n, i = m + k, j = m + l PROVE v[i].key # v[j].key
      <4>1. v[i] = u[k] /\ v[j] = u[l] /\ k < l
        BY <1>5, <1>8, <2>1, <3>6
      <4>2. QED
        BY <1>2, <1>4, <2>1, <3>3, <4>1 DEF MarksOnce
    <3>7. j \in 1 .. m => i \in 1 .. m
      BY <1>5, <2>1
    <3>8. QED
      BY <1>9, <3>4, <3>5, <3>6, <3>7
  <2>2. QED
    BY <1>6, <2>1 DEF MarksOnce
<1> HIDE DEF L
<1>16. \A i \in 1 .. Len(v) : Refund(p, L, v[i]) /\ PaysAfter(p, v, i) /\ LooksOn(L, v, i)
  BY <1>6, <1>12, <1>13, <1>14
<1>17. Refunds(p, L, v)
  BY <1>6, <1>11, <1>15, <1>16 DEF Refunds
<1>18. QED
  BY <1>17 DEF L, v


LEMMA RefundsOne ==
  ASSUME NEW p, cmd[p].n \in Int, NEW job, IsDn(job), job[1] = "job", NEW k
  PROVE  Refunds(p, {job}, RefundSteps(cmd[p], p, job, k))
<1>1. PICK c : c = cmd[p]
  OBVIOUS
<1>2. PICK J : J = {job}
  OBVIOUS
<1>3. PICK f1 : f1 = Find(Code(c.code), Raise, 0)
  OBVIOUS
<1>4. PICK f2 : f2 = Increase(Code(c.code), 0 - c.n)
  OBVIOUS
<1>5. PICK s1 : s1 = Find(Account(c.user), 4, 0)
  OBVIOUS
<1>6. PICK s2 : s2 = Increase(Balance(c.user), c.n)
  OBVIOUS
<1>7. PICK s3 : s3 = Rewrite(Balance(c.user), {<<p, k>>}, {})
  OBVIOUS
<1>8. PICK s4 : s4 = Find(Quota(c.user, c.printer), 1, 0)
  OBVIOUS
<1>9. PICK s5 : s5 = Increase(Quota(c.user, c.printer), 0 - c.n)
  OBVIOUS
<1>10. PICK s6 : s6 = Rewrite(job, {"refunded"}, {})
  OBVIOUS
<1>11. PICK w : w = <<s1, s2, s3, s4, s5, s6>>
  OBVIOUS
<1>12. PICK f : f = IF c.code = None THEN <<>> ELSE <<f1, f2>>
  OBVIOUS
<1>13. RefundSteps(c, p, job, k) = f \o w
  BY <1>3, <1>4, <1>5, <1>6, <1>7, <1>8, <1>9, <1>10, <1>11, <1>12 DEF RefundSteps
<1>14. /\ Looks(f1) /\ Counts(f2) /\ f1.miss = Raise /\ ~Looks(f2) /\ \A K : ~Marks(K, f1) /\ ~Marks(K, f2)
       /\ ~Pays(p, f1) /\ ~Pays(p, f2)
  BY <1>3, <1>4, KeysAreKeys DEF Looks, Counts, Marks, Pays, Find, Increase, Raise
<1>15. /\ Looks(s1) /\ s1.miss = 4 /\ s1.op = "find" /\ Loads(s1, Balance(c.user))
       /\ Looks(s4) /\ s4.miss = 1
       /\ ~Pays(p, s1) /\ ~Pays(p, s4) /\ ~Marks(J, s1) /\ ~Marks(J, s4)
  BY <1>5, <1>8 DEF Looks, Loads, Marks, Pays, Find, Account
<1>16. Counts(s2) /\ Counts(s5) /\ ~Looks(s2) /\ ~Looks(s5) /\ ~Pays(p, s2) /\ ~Pays(p, s5) /\ ~Marks(J, s2) /\ ~Marks(J, s5)
  BY <1>6, <1>9, KeysAreKeys DEF Counts, Looks, Marks, Pays, Increase
<1>17. Pays(p, s3) /\ ~Looks(s3) /\ ~Marks(J, s3)
  <2>1. Balance(c.user) # job
    BY KeysAreKeys, KeyOrDn
  <2>2. QED
    BY <1>1, <1>2, <1>7, <2>1 DEF Pays, Looks, Marks, Rewrite
<1>18. Marks(J, s6) /\ ~Looks(s6) /\ ~Pays(p, s6)
  <2>1. Balance(c.user) # job
    BY KeysAreKeys, KeyOrDn
  <2>2. QED
    BY <1>1, <1>2, <1>10, <2>1 DEF Pays, Looks, Marks, Rewrite
<1>19. Refunds(p, {}, <<f1, f2>>)
  <2>1. PICK t : t = <<f1, f2>>
    OBVIOUS
  <2>2. IsSeq(t) /\ Len(t) = 2 /\ t[1] = f1 /\ t[2] = f2
    <3>1. t \in Seq({f1, f2}) /\ Len(t) = 2 /\ t[1] = f1 /\ t[2] = f2
      BY <2>1
    <3>2. QED
      BY <3>1, SeqIsSeq
  <2>3. \A i \in 1 .. 2 : i = 1 \/ i = 2
    OBVIOUS
  <2>4. \A i \in 1 .. 2 : Refund(p, {}, t[i]) /\ PaysAfter(p, t, i) /\ LooksOn({}, t, i)
    BY <1>14, <2>2, <2>3 DEF Refund, PaysAfter, LooksOn
  <2>5. MarksOnce({}, t)
    BY DEF MarksOnce, Marks
  <2>6. Refunds(p, {}, t)
    BY <1>14, <2>2, <2>4, <2>5 DEF Refunds
  <2>7. QED
    BY <2>1, <2>6
<1>20. Refunds(p, {}, <<>>)
  BY NothingOrdered DEF Refunds, MarksOnce
<1>21. Refunds(p, {}, f)
  BY <1>12, <1>19, <1>20
<1>22. Refunds(p, J, w)
  <2>1. /\ IsSeq(w) /\ Len(w) = 6
        /\ w[1] = s1 /\ w[2] = s2 /\ w[3] = s3 /\ w[4] = s4 /\ w[5] = s5 /\ w[6] = s6
    <3>1. /\ w \in Seq({s1, s2, s3, s4, s5, s6}) /\ Len(w) = 6
          /\ w[1] = s1 /\ w[2] = s2 /\ w[3] = s3 /\ w[4] = s4 /\ w[5] = s5 /\ w[6] = s6
      BY <1>11
    <3>2. QED
      BY <3>1, SeqIsSeq
  <2>2. \A i \in 1 .. 6 : i = 1 \/ i = 2 \/ i = 3 \/ i = 4 \/ i = 5 \/ i = 6
    OBVIOUS
  <2>3. \A i \in 1 .. 6 : Refund(p, J, w[i])
    BY <1>15, <1>16, <1>17, <1>18, <2>1, <2>2 DEF Refund
  <2>4. ASSUME NEW i \in 1 .. 6 PROVE PaysAfter(p, w, i)
    <3>1. CASE i = 3
      <4>1. i - 1 = 2 /\ i - 2 = 1 /\ i >= 3
        BY <3>1
      <4>2. QED
        BY <1>1, <1>15, <1>16, <2>1, <4>1 DEF PaysAfter
    <3>2. CASE i # 3
      BY <1>15, <1>16, <1>18, <2>1, <2>2, <3>2 DEF PaysAfter
    <3>3. QED
      BY <3>1, <3>2
  <2>5. ASSUME NEW i \in 1 .. 6 PROVE LooksOn(J, w, i)
    <3>1. CASE i = 1
      <4>1. w[1].miss = 4 /\ 1 + 4 + 1 = 6 /\ 1 + 4 + 2 = 7
        BY <1>15, <2>1
      <4>2. QED
        BY <1>18, <2>1, <3>1, <4>1 DEF LooksOn
    <3>2. CASE i = 4
      <4>1. w[4].miss = 1 /\ 4 + 1 + 1 = 6 /\ 4 + 1 + 2 = 7
        BY <1>15, <2>1
      <4>2. QED
        BY <1>18, <2>1, <3>2, <4>1 DEF LooksOn
    <3>3. CASE i # 1 /\ i # 4
      BY <1>16, <1>17, <1>18, <2>1, <2>2, <3>3 DEF LooksOn
    <3>4. QED
      BY <3>1, <3>2, <3>3
  <2>6. MarksOnce(J, w)
    <3>1. \A i \in 1 .. 6 : Marks(J, w[i]) => i = 6
      BY <1>15, <1>16, <1>17, <2>1, <2>2
    <3>2. QED
      BY <2>1, <3>1 DEF MarksOnce
  <2>7. QED
    BY <1>15, <2>1, <2>3, <2>4, <2>5, <2>6 DEF Refunds
<1>23. Jobs({}) /\ Jobs(J) /\ {} \cap J = {} /\ {} \cup J = J
  BY <1>2 DEF Jobs
<1>24. Refunds(p, {} \cup J, f \o w)
  BY <1>21, <1>22, <1>23, RefundsBoth
<1>25. QED
  BY <1>1, <1>2, <1>13, <1>23, <1>24


LEMMA RefundsMany ==
  ASSUME NEW p, cmd[p].n \in Int, NEW n \in Nat, NEW f,
         \A i \in 1 .. n : IsDn(f[i]) /\ f[i][1] = "job",
         \A i, j \in 1 .. n : f[i] = f[j] => i = j,
         NEW b, b = [i \in 1 .. n |-> RefundSteps(cmd[p], p, f[i], i)]
  PROVE  Refunds(p, {f[i] : i \in 1 .. n}, FlattenSeq(b))
<1> DEFINE S == UNION {Range(b[i]) : i \in 1 .. n}
           J(m) == {f[i] : i \in 1 .. m}
           C == [m \in 1 .. n |-> {x \in Seq(S) : Refunds(p, J(m), x)}]
<1>1. Len(b) = n
  <2>1. b = [i \in 1 .. n |-> b[i]]
    OBVIOUS
  <2>2. QED
    BY <2>1, ListIsSeq
<1>2. CASE n = 0
  <2>1. FlattenSeq(b) = <<>>
    BY <1>1, <1>2, FlattenOfNone
  <2>2. {f[i] : i \in 1 .. n} = {}
    BY <1>2
  <2>3. Refunds(p, {}, <<>>)
    BY NothingOrdered DEF Refunds, MarksOnce
  <2>4. QED
    BY <2>1, <2>2, <2>3
<1>3. CASE n # 0
  <2>1. ASSUME NEW m \in 1 .. n PROVE Refunds(p, {f[m]}, b[m]) /\ b[m] \in Seq(S)
    <3>1. b[m] = RefundSteps(cmd[p], p, f[m], m)
      OBVIOUS
    <3>2. Refunds(p, {f[m]}, b[m])
      BY <3>1, RefundsOne
    <3>3. IsSeq(b[m]) /\ Range(b[m]) \subseteq S
      BY <3>2 DEF Refunds
    <3> HIDE DEF S
    <3>4. b[m] \in Seq(S)
      BY <3>3, SeqMonotonic DEF IsSeq
    <3>5. QED
      BY <3>2, <3>4
  <2>2. ASSUME NEW m \in 2 .. n PROVE \A x \in C[m - 1] : x \o b[m] \in C[m]
    <3>1. m \in 1 .. n /\ m - 1 \in 1 .. n
      BY <1>3
    <3>2. ASSUME NEW x \in C[m - 1] PROVE x \o b[m] \in C[m]
      <4>1. x \in Seq(S) /\ Refunds(p, J(m - 1), x)
        BY <3>1
      <4>2. J(m - 1) \cap {f[m]} = {} /\ J(m - 1) \cup {f[m]} = J(m)
        <5>1. \A i \in 1 .. m - 1 : i \in 1 .. n /\ i # m
          BY <3>1
        <5>2. 1 .. m = (1 .. m - 1) \cup {m}
          BY <3>1
        <5>3. QED
          BY <3>1, <5>1, <5>2
      <4>3. Jobs(J(m - 1)) /\ Jobs({f[m]})
        <5>1. \A i \in 1 .. m - 1 : i \in 1 .. n
          BY <3>1
        <5>2. QED
          BY <3>1, <5>1 DEF Jobs
      <4>4. Refunds(p, {f[m]}, b[m]) /\ b[m] \in Seq(S)
        BY <2>1, <3>1
      <4> HIDE DEF S, J
      <4>5. Refunds(p, J(m - 1) \cup {f[m]}, x \o b[m])
        BY <4>1, <4>2, <4>3, <4>4, RefundsBoth
      <4>6. x \o b[m] \in Seq(S)
        BY <4>1, <4>4, ConcatProperties
      <4>7. QED
        BY <3>1, <4>2, <4>5, <4>6
    <3>3. QED
      BY <3>2
  <2>3. b[1] \in C[1]
    <3>1. 1 \in 1 .. n
      BY <1>3
    <3>2. Refunds(p, {f[1]}, b[1]) /\ b[1] \in Seq(S)
      BY <2>1, <3>1
    <3>3. J(1) = {f[1]}
      OBVIOUS
    <3> HIDE DEF S, J
    <3>4. QED
      BY <3>1, <3>2, <3>3
  <2>4. n \in 1 .. n
    BY <1>3
  <2>5. FlattenSeq(b) \in C[n]
    <3> HIDE DEF C
    <3>1. QED
      BY <1>1, <1>3, <2>2, <2>3, FlattenKeeps
  <2>6. QED
    BY <2>4, <2>5
<1>4. QED
  BY <1>2, <1>3

LEMMA RefundsWrites ==
  ASSUME TypeInv, LossInv, NEW p \in Procs, ListRefunds(p), Saves(p)
  PROVE  LossInv'
<1>0. /\ Running(p) /\ proc[p].todo # <<>> /\ Step(p).op = "refunds"
      /\ UNCHANGED <<conf, cmd, dir, contended, ledger>>
  BY DEF ListRefunds, At, Unchanged
<1>1. PICK r : r = proc[p]
  OBVIOUS
<1>2. PICK c : c = cmd[p]
  OBVIOUS
<1>3. PICK S : S = {dn \in Search("job", c.user, c.printer) : "refunded" \notin dir[dn].set}
  OBVIOUS
<1>4. PICK jobs : jobs = SetToSeq(S)
  OBVIOUS
<1>5. PICK known : known = [dn \in Range(jobs) |-> Loaded(dn)]
  OBVIOUS
<1>6. PICK x : x = [r EXCEPT !.obj = With(known, @)]
  OBVIOUS
<1>7. PICK b : b = [k \in DOMAIN jobs |-> RefundSteps(c, p, jobs[k], k)]
  OBVIOUS
<1>8. PICK t : t = FlattenSeq(b)
  OBVIOUS
<1>9. IsProc(r) /\ cmd[p].do = "refund"
  <2>1. Role(p, Step(p)) /\ IsProc(proc[p])
    BY <1>0, SaverIs
  <2>2. QED
    BY <1>0, <1>1, <2>1 DEF Role
<1>10. Becomes(p, Rest(x, t))
  BY <1>1, <1>2, <1>3, <1>4, <1>5, <1>6, <1>7, <1>8 DEF ListRefunds
<1>11. IsFiniteSet(S) /\ \A dn \in S : IsDn(dn) /\ dn[1] = "job"
  <2>1. PICK T : T = Search("job", c.user, c.printer)
    OBVIOUS
  <2>2. IsFiniteSet(T) /\ \A dn \in T : IsDn(dn) /\ dn[1] = "job"
    BY <2>1, SearchIs DEF TypeInv
  <2>3. S \subseteq T
    BY <1>3, <2>1
  <2>4. QED
    BY <2>2, <2>3, FS_Subset
<1>12. /\ IsSeq(jobs) /\ DOMAIN jobs = 1 .. Len(jobs) /\ Len(jobs) \in Nat
       /\ \A i \in 1 .. Len(jobs) : jobs[i] \in S
       /\ \A i, j \in 1 .. Len(jobs) : jobs[i] = jobs[j] => i = j
  BY <1>4, <1>11, EachOnce
<1>13. PICK n \in Nat : n = Len(jobs)
  BY <1>12
<1>14. PICK J : J = {jobs[i] : i \in 1 .. n}
  OBVIOUS
<1>15. Refunds(p, J, t) /\ Jobs(J) /\ J = Range(jobs)
  <2>1. b = [i \in 1 .. n |-> RefundSteps(cmd[p], p, jobs[i], i)]
    BY <1>2, <1>7, <1>12, <1>13
  <2>2. \A i \in 1 .. n : IsDn(jobs[i]) /\ jobs[i][1] = "job"
    BY <1>11, <1>12, <1>13
  <2>3. \A i, j \in 1 .. n : jobs[i] = jobs[j] => i = j
    BY <1>12, <1>13
  <2>4. cmd[p].n \in Int
    BY DEF TypeInv
  <2>5. Refunds(p, J, t)
    BY <1>8, <1>14, <2>1, <2>2, <2>3, <2>4, RefundsMany
  <2>6. Jobs(J)
    BY <1>14, <2>2 DEF Jobs
  <2>7. J = Range(jobs)
    BY <1>12, <1>13, <1>14 DEF Range
  <2>8. QED
    BY <2>5, <2>6, <2>7
<1>16. Ordered(p, t)
  BY <1>9, <1>15, RefundsOrdered
<1>17. Learns(r, known, x) /\ DOMAIN known = J
  <2>1. AllFound(known) /\ DOMAIN known = J
    BY <1>5, <1>15 DEF AllFound
  <2>2. QED
    BY <1>6, <1>9, <2>1, LearnedMany
<1>18. ASSUME NEW i \in 1 .. Len(t), Relies(p, Rest(x, t), i) PROVE \E y : x.obj[t[i].key] = Loaded(y)
  <2>1. PICK s : s = t[i]
    OBVIOUS
  <2>2. Rest(x, t).todo = t
    BY <1>17 DEF Learns, Rest, IsProc, Fields
  <2>3. Reliant(s) /\ (Repeated(p, s) => i <= 2)
    BY <1>18, <2>1, <2>2 DEF Relies
  <2>4. Refund(p, J, s) /\ PaysAfter(p, t, i)
    BY <1>15, <2>1 DEF Refunds
  <2>5. ~Pays(p, s)
    <3>1. SUFFICES ASSUME Pays(p, s) PROVE FALSE
      OBVIOUS
    <3>2. Repeated(p, s)
      BY <1>9, <3>1, KeysAreKeys DEF Pays, Repeated
    <3>3. i >= 3
      BY <2>1, <2>4, <3>1 DEF PaysAfter
    <3>4. i \in Int
      OBVIOUS
    <3>5. QED
      BY <2>3, <3>2, <3>3, <3>4
  <2>6. Marks(J, s)
    BY <2>3, <2>4, <2>5 DEF Refund, Reliant, Counts, Looks
  <2>7. s.key \in DOMAIN known
    BY <1>17, <2>6 DEF Marks
  <2>8. QED
    BY <1>17, <2>1, <2>7 DEF Learns
<1>19. IsProc(x) /\ Learned(r, x.obj)
  BY <1>17 DEF Learns
<1>20. QED
  BY <1>0, <1>1, <1>10, <1>16, <1>18, <1>19, SearchTo


LEMMA SaverSearches ==
  ASSUME TypeInv, LossInv, NEW p \in Procs, SearchNext(p), Saves(p)
  PROVE  LossInv'
<1>1. \/ FindObject(p) \/ RefreshMembers(p) \/ CollectEntries(p) \/ LeaveGroups(p) \/ ListRefunds(p) \/ MatchingCodes(p)
      \/ \E op \in {"jobs", "quotas", "check", "purge", "own", "last", "parents", "history", "extract", "show"} :
           At(p, op)
  BY DEF SearchNext, GatherJobs, GatherQuotas, CheckLast, Purge, DeleteOwnLast, LookAtLast, LookAtParents,
         WriteJobNew, ExtractNames, ShowObject, ExtractHistory
<1>2. ASSUME NEW op \in {"jobs", "quotas", "check", "purge", "own", "last", "parents", "history", "extract", "show"},
             At(p, op)
      PROVE  FALSE
  <2>1. Running(p) /\ proc[p].todo # <<>> /\ Step(p).op = op
    BY <1>2 DEF At
  <2>2. Role(p, Step(p))
    BY <2>1, SaverIs
  <2>3. QED
    BY <2>1, <2>2 DEF Role
<1>3. QED
  BY <1>1, <1>2, FindWrites, RefreshWrites, CollectWrites, LeaveWrites, RefundsWrites, CodesWrites

-----------------------------------------------------------------------------
(* All steps.                                                              *)

LEMMA StartWrites ==
  ASSUME TypeInv, LossInv, NEW p \in Procs, Start(p)
  PROVE  LossInv'
<1>1. PICK r : r = [Idle EXCEPT !.state = "running", !.todo = Script(p)]
  OBVIOUS
<1>2. Becomes(p, r) /\ UNCHANGED <<conf, cmd, dir, contended, ledger>>
  BY <1>1 DEF Start
<1>3. r.todo = Script(p) /\ r.obj = <<>> /\ r.new = <<>> /\ r.made = FALSE
  BY <1>1 DEF Idle
<1>4. DOMAIN r.obj = {}
  BY <1>3
<1>5. Saves(p) => Ordered(p, r.todo)
  BY <1>3, ScriptOrdered
<1>6. Knows(p, r)
  BY <1>4 DEF Knows, Relies
<1>7. Computed(r) /\ Began(r)
  BY <1>3 DEF Computed, Right, Agrees, Began
<1>8. QED
  BY <1>2, <1>5, <1>6, <1>7, LossOne DEF Writes

LEMMA LossNext ==
  ASSUME TypeInv, LossInv, [Next]_vars
  PROVE  LossInv'
<1>1. ASSUME UNCHANGED vars PROVE LossInv'
  <2>1. /\ LossNeedsRace /\ Booking
        /\ UNCHANGED <<conf, cmd, dir, contended, ledger, proc>>
    BY <1>1 DEF LossInv, vars
  <2>2. LossNeedsRace' /\ Booking'
    BY <2>1 DEF LossNeedsRace, Booking
  <2>3. ASSUME NEW q \in Procs, Running(q)' PROVE Writes(q, proc[q])'
    <3>1. PICK x : x = proc[q]
      OBVIOUS
    <3>2. Writes(q, x)
      BY <2>1, <2>3, <3>1 DEF LossInv, Running
    <3>3. Writes(q, x)'
      BY <2>1, <3>2, WritesStay
    <3>4. QED
      BY <2>1, <3>1, <3>3, WritesOf
  <2>4. QED
    BY <2>2, <2>3 DEF LossInv
<1>2. ASSUME NEW p \in Procs, Work(p) \/ RequestLost(p) \/ AnswerLost(p) PROVE LossInv'
  <2>1. CASE Start(p)
    BY <2>1, StartWrites
  <2>2. CASE Finish(p)
    <3>1. PICK r : Becomes(p, r) /\ r.state = "done"
      BY <2>2, FinishIs
    <3>2. UNCHANGED <<conf, cmd, dir, contended, ledger>>
      BY <2>2 DEF Finish, Unchanged
    <3>3. QED
      BY <3>1, <3>2, LossOne
  <2>3. CASE SearchNext(p)
    BY <2>3, OtherSearches, SaverSearches
  <2>4. CASE ReadOld(p)
    BY <2>4, ReadWrites
  <2>5. CASE Request(p)
    BY <2>5, RequestWrites
  <2>6. CASE Refused(p) \/ RequestLost(p)
    <3>1. TryAgain(p, FALSE) /\ UNCHANGED <<conf, cmd, dir, contended, ledger>> /\ Ready(p)
      BY <2>6 DEF Refused, RequestLost, TryAgain, Unchanged
    <3>2. Running(p)
      BY <3>1 DEF Ready, At
    <3>3. QED
      BY <3>1, <3>2, RetryWrites
  <2>7. CASE AnswerLost(p)
    BY <2>7, AnswerWrites
  <2>8. QED
    BY <1>2, <2>1, <2>2, <2>3, <2>4, <2>5, <2>6, <2>7 DEF Work
<1>3. QED
  BY <1>1, <1>2 DEF Next, AllOver

LEMMA LossInit ==
  ASSUME Init
  PROVE  LossInv
<1>1. DOMAIN ledger = DOMAIN dir /\ \A dn \in DOMAIN dir : ledger[dn] = [num |-> dir[dn].num, set |-> dir[dn].set]
  BY DEF Init
<1>2. LossNeedsRace /\ Booking
  BY <1>1 DEF LossNeedsRace, Booking
<1>3. ASSUME NEW p \in Procs PROVE ~Running(p)
  <2>1. proc[p] = [Idle EXCEPT !.state = "done"] \/ proc[p] = Idle
    BY DEF Init
  <2>2. Idle.state = "ready" /\ [Idle EXCEPT !.state = "done"].state = "done"
    BY DEF Idle
  <2>3. QED
    BY <2>1, <2>2 DEF Running
<1>4. QED
  BY <1>2, <1>3 DEF LossInv

(* A balance, a counter or a list of members or payments differs from what *)
(* all changes to it amount to only if it was written while another        *)
(* process was about to write an older value back, or, lists, with the     *)
(* cache: no order of requests, no retry after a request or an answer was  *)
(* lost, and no command alone loses a change or makes it twice.            *)
THEOREM LossesAreRaces == Spec => []LossNeedsRace
<1>1. Init => LossInv
  BY LossInit
<1>2. TypeInv /\ LossInv /\ [Next]_vars => LossInv'
  BY LossNext
<1>3. LossInv => LossNeedsRace
  BY DEF LossInv
<1>4. QED
  BY <1>1, <1>2, <1>3, TypesAreKept, PTL DEF Spec

-----------------------------------------------------------------------------
(* Users that are half there.                                              *)

AccountDn(u) == <<"account", u, None, None>>
BalanceDn(u) == <<"balance", u, None, None>>
Has(dn) == dn \in DOMAIN dir
Same(dn) == Has(dn)' <=> Has(dn)

(* The steps of addUser from the account on, and those of deleteUser.      *)
BalanceKey(u) == <<"balance", u, None>>
AddBoth(p, u, n) ==
  <<Add(Account(u), 0, None), Add(BalanceKey(u), n, None), Rewrite(BalanceKey(u), {p}, {})>>
AddOne(p, u, n) == <<Add(BalanceKey(u), n, None), Rewrite(BalanceKey(u), {p}, {})>>
PayNew(p, u) == <<Rewrite(BalanceKey(u), {p}, {})>>
DropOne(u) == <<Collect("balance", u, Anyone)>>
DropLast(u) == <<Delete(BalanceDn(u))>>

(* Before deleteUser deletes the account it only looks at things, and      *)
(* deletes jobs and quota entries.                                         *)
Clears(s, u) ==
  /\ s.op \in {"find", "jobs", "quotas", "check", "purge", "delete"}
  /\ s.op = "find" => s = Find(Account(u), Stop, 0)
  /\ s.op \in {"check", "delete"} => s.dn[1] \notin Halves
  /\ s.op \in {"quotas", "check"} => s.owner # None
Clearing(x, u) == IsSeq(x) /\ \A s \in Range(x) : Clears(s, u)

Addition(p, t) ==
  LET c == cmd[p]
  IN t \in {<<Find(Account(c.user), 0, Stop)>> \o AddBoth(p, c.user, c.n), AddBoth(p, c.user, c.n),
            AddOne(p, c.user, c.n), PayNew(p, c.user), <<>>}
Removal(u, t) ==
  \/ \E x : Clearing(x, u) /\ t = x \o DeleteAccount(u)
  \/ t \in {DropOne(u), DropLast(u), <<>>}

Alters(p, r) ==
  /\ cmd[p].do = "adduser" => Addition(p, r.todo)
  /\ cmd[p].do = "deluser" =>
       /\ Removal(cmd[p].user, r.todo)
       /\ \A dn \in Range(r.bin) : dn[1] \notin Halves
       /\ \A k \in DOMAIN r.obj : IsKey(k)

(* An user is half there only while it is added, or deleted.               *)
Adding(p, u) ==
  Running(p) /\ cmd[p].do = "adduser" /\ cmd[p].user = u /\ proc[p].todo = AddOne(p, u, cmd[p].n)
Removing(p, u) ==
  Running(p) /\ cmd[p].do = "deluser" /\ cmd[p].user = u /\ proc[p].todo \in {DropOne(u), DropLast(u)}
Pairing(u) ==
  \E p, q \in Procs : /\ {p, q} \in met /\ cmd[p].user = u /\ cmd[q].user = u
                      /\ cmd[p].do = "adduser" /\ cmd[q].do = "deluser"
Sound(u) ==
  /\ (Has(AccountDn(u)) <=> Has(BalanceDn(u))) \/ \E p \in Procs : Adding(p, u) \/ Removing(p, u)
  /\ \A p \in Procs : Adding(p, u) => Has(AccountDn(u)) /\ ~Has(BalanceDn(u))
  /\ \A p \in Procs : Removing(p, u) => ~Has(AccountDn(u))
  /\ \A p, q \in Procs : Adding(p, u) /\ Adding(q, u) => p = q
HalfInv ==
  conf.accounts = "split" /\ faults = 0 =>
    /\ \A p \in Procs : Running(p) => Alters(p, proc[p])
    /\ \A u : Pairing(u) \/ Sound(u)

(* No user is half there.                                                  *)
AllWhole == \A dn \in DOMAIN dir : ~Half(dn[2])

-----------------------------------------------------------------------------
(* Sequences of their steps.                                               *)

LEMMA SameSeq ==
  ASSUME NEW t, NEW u, IsSeq(t), IsSeq(u), Len(t) = Len(u), \A i \in 1 .. Len(t) : t[i] = u[i]
  PROVE  t = u
<1> DEFINE S == Range(t) \cup Range(u)
<1>1. t \in Seq(S) /\ u \in Seq(S)
  <2>1. Range(t) \subseteq S /\ Range(u) \subseteq S
    OBVIOUS
  <2> HIDE DEF S
  <2>2. QED
    BY <2>1, SeqMonotonic DEF IsSeq
<1> HIDE DEF S
<1>2. QED
  BY <1>1, SeqEqual

LEMMA AfterBoth ==
  ASSUME NEW x, NEW y, IsSeq(x), IsSeq(y), x # <<>>
  PROVE  After(x \o y, 0) = After(x, 0) \o y
<1> DEFINE t == x \o y
           a == After(x, 0)
           b == After(t, 0)
<1>1. /\ IsSeq(t) /\ Len(t) = Len(x) + Len(y)
      /\ \A i \in 1 .. Len(x) + Len(y) : t[i] = IF i <= Len(x) THEN x[i] ELSE y[i - Len(x)]
  BY BothAre
<1>2. Len(x) \in Nat /\ Len(y) \in Nat /\ Len(x) >= 1 /\ Stop = 20 /\ 0 \in Nat
  BY RangeIs DEF Stop
<1> HIDE DEF t
<1>3. /\ IsSeq(a) /\ Len(a) = IF 0 # Stop /\ 0 + 2 <= Len(x) THEN Len(x) - 0 - 1 ELSE 0
      /\ \A i \in 1 .. Len(a) : i + 0 + 1 \in 1 .. Len(x) /\ a[i] = x[i + 0 + 1]
  BY <1>2, AfterIs
<1>4. /\ IsSeq(b) /\ Len(b) = IF 0 # Stop /\ 0 + 2 <= Len(t) THEN Len(t) - 0 - 1 ELSE 0
      /\ \A i \in 1 .. Len(b) : i + 0 + 1 \in 1 .. Len(t) /\ b[i] = t[i + 0 + 1]
  BY <1>1, <1>2, AfterIs
<1> HIDE DEF a, b
<1>5. Len(a) = Len(x) - 1 /\ Len(b) = Len(x) + Len(y) - 1
  <2>1. 0 # Stop /\ Len(t) = Len(x) + Len(y)
    BY <1>1, <1>2
  <2>2. Len(a) = IF 0 + 2 <= Len(x) THEN Len(x) - 0 - 1 ELSE 0
    BY <1>3, <2>1
  <2>3. Len(b) = IF 0 + 2 <= Len(x) + Len(y) THEN Len(x) + Len(y) - 0 - 1 ELSE 0
    BY <1>4, <2>1
  <2>4. Len(a) = Len(x) - 1
    BY <1>2, <2>2
  <2>5. Len(b) = Len(x) + Len(y) - 1
    <3>1. PICK m \in Nat, n \in Nat : m = Len(x) /\ n = Len(y) /\ m >= 1
      BY <1>2
    <3>2. m + n - 0 - 1 = m + n - 1 /\ (~(0 + 2 <= m + n) => m + n - 1 = 0)
      BY <3>1
    <3>3. QED
      BY <2>3, <3>1, <3>2
  <2>6. QED
    BY <2>4, <2>5
<1>6. /\ IsSeq(a \o y) /\ Len(a \o y) = Len(a) + Len(y)
      /\ \A i \in 1 .. Len(a) + Len(y) : (a \o y)[i] = IF i <= Len(a) THEN a[i] ELSE y[i - Len(a)]
  BY <1>3, BothAre
<1>7. ASSUME NEW i \in 1 .. Len(b) PROVE b[i] = (a \o y)[i]
  <2>1. b[i] = t[i + 1] /\ i + 1 \in 1 .. Len(x) + Len(y)
    BY <1>1, <1>2, <1>4, <1>5
  <2>2. CASE i <= Len(a)
    <3>1. t[i + 1] = x[i + 1] /\ a[i] = x[i + 1]
      BY <1>1, <1>2, <1>3, <1>5, <2>1, <2>2
    <3>2. QED
      BY <1>2, <1>5, <1>6, <2>1, <2>2, <3>1
  <2>3. CASE ~(i <= Len(a))
    <3>1. t[i + 1] = y[i + 1 - Len(x)] /\ i + 1 - Len(x) = i - Len(a)
      BY <1>1, <1>2, <1>5, <2>1, <2>3
    <3>2. QED
      BY <1>2, <1>5, <1>6, <2>1, <2>3, <3>1
  <2>4. QED
    BY <2>2, <2>3
<1>8. b = a \o y
  <2>1. Len(b) = Len(a \o y) /\ IsSeq(b) /\ IsSeq(a \o y)
    BY <1>2, <1>4, <1>5, <1>6
  <2>2. QED
    BY <1>7, <2>1, SameSeq
<1>9. QED
  BY <1>8 DEF a, b, t

LEMMA OneIsSeq ==
  ASSUME NEW a
  PROVE  IsSeq(<<a>>) /\ Range(<<a>>) = {a} /\ <<a>> # <<>> /\ Len(<<a>>) = 1 /\ Head(<<a>>) = a
<1>1. <<a>> \in Seq({a}) /\ Len(<<a>>) = 1 /\ <<a>>[1] = a /\ DOMAIN <<a>> = 1 .. 1 /\ Head(<<a>>) = a /\ <<a>> # <<>>
  OBVIOUS
<1>2. IsSeq(<<a>>)
  BY <1>1, SeqIsSeq
<1>3. Range(<<a>>) = {a}
  BY <1>1 DEF Range
<1>4. QED
  BY <1>1, <1>2, <1>3

LEMMA EmptyBefore ==
  ASSUME NEW y, IsSeq(y)
  PROVE  <<>> \o y = y /\ IsSeq(<<>>) /\ Range(<<>>) = {} /\ y \o <<>> = y
<1>1. IsSeq(<<>>) /\ Len(<<>>) = 0 /\ Range(<<>>) = {}
  BY DEF IsSeq, Range
<1>2. y \in Seq(Range(y))
  BY DEF IsSeq
<1>3. <<>> \o y = y /\ y \o <<>> = y
  BY <1>2, ConcatEmptySeq
<1>4. QED
  BY <1>1, <1>3

LEMMA AfterFirst ==
  ASSUME NEW a, NEW y, IsSeq(y)
  PROVE  After(<<a>> \o y, 0) = y /\ Head(<<a>> \o y) = a /\ <<a>> \o y # <<>> /\ Len(<<a>> \o y) = Len(y) + 1
<1>1. IsSeq(<<a>>) /\ Len(<<a>>) = 1 /\ <<a>> # <<>> /\ Len(y) \in Nat /\ 0 \in Nat /\ <<a>>[1] = a
  BY OneIsSeq, RangeIs
<1>2. After(<<a>>, 0) = <<>>
  <2>1. IsSeq(After(<<a>>, 0)) /\ Len(After(<<a>>, 0)) = IF 0 # Stop /\ 0 + 2 <= Len(<<a>>) THEN Len(<<a>>) - 0 - 1 ELSE 0
    BY <1>1, AfterIs
  <2>2. Len(After(<<a>>, 0)) = 0
    BY <1>1, <2>1
  <2>3. QED
    BY <2>1, <2>2, RangeIs
<1>3. After(<<a>> \o y, 0) = <<>> \o y
  BY <1>1, <1>2, AfterBoth
<1>4. /\ IsSeq(<<a>> \o y) /\ Len(<<a>> \o y) = 1 + Len(y)
      /\ \A i \in 1 .. 1 + Len(y) : (<<a>> \o y)[i] = IF i <= 1 THEN <<a>>[i] ELSE y[i - 1]
  BY <1>1, BothAre
<1>5. (<<a>> \o y)[1] = a /\ Len(<<a>> \o y) >= 1
  BY <1>1, <1>4
<1>6. <<a>> \o y # <<>> /\ Head(<<a>> \o y) = (<<a>> \o y)[1]
  BY <1>4, <1>5, RangeIs
<1>7. QED
  BY <1>1, <1>3, <1>4, <1>5, <1>6, EmptyBefore

(* The plans one by one.                                                   *)
LEMMA PlansAre ==
  ASSUME NEW p, NEW u, NEW n
  PROVE  /\ IsSeq(AddBoth(p, u, n)) /\ Len(AddBoth(p, u, n)) = 3 /\ AddBoth(p, u, n) # <<>>
         /\ Head(AddBoth(p, u, n)) = Add(Account(u), 0, None) /\ After(AddBoth(p, u, n), 0) = AddOne(p, u, n)
         /\ IsSeq(AddOne(p, u, n)) /\ Len(AddOne(p, u, n)) = 2 /\ AddOne(p, u, n) # <<>>
         /\ Head(AddOne(p, u, n)) = Add(BalanceKey(u), n, None) /\ After(AddOne(p, u, n), 0) = PayNew(p, u)
         /\ IsSeq(PayNew(p, u)) /\ Len(PayNew(p, u)) = 1 /\ PayNew(p, u) # <<>>
         /\ Head(PayNew(p, u)) = Rewrite(BalanceKey(u), {p}, {}) /\ After(PayNew(p, u), 0) = <<>>
         /\ IsSeq(DeleteAccount(u)) /\ Len(DeleteAccount(u)) = 2 /\ DeleteAccount(u) # <<>>
         /\ Head(DeleteAccount(u)) = Delete(Account(u)) /\ After(DeleteAccount(u), 0) = DropOne(u)
         /\ IsSeq(DropOne(u)) /\ Len(DropOne(u)) = 1 /\ DropOne(u) # <<>>
         /\ Head(DropOne(u)) = Collect("balance", u, Anyone) /\ After(DropOne(u), 0) = <<>>
         /\ IsSeq(DropLast(u)) /\ Len(DropLast(u)) = 1 /\ DropLast(u) # <<>>
         /\ Head(DropLast(u)) = Delete(BalanceDn(u)) /\ After(DropLast(u), 0) = <<>>
         /\ IsSeq(<<>>) /\ Len(<<>>) = 0
<1> DEFINE A == Add(Account(u), 0, None)
           B == Add(BalanceKey(u), n, None)
           W == Rewrite(BalanceKey(u), {p}, {})
           D == Delete(Account(u))
           C == Collect("balance", u, Anyone)
           E == Delete(BalanceDn(u))
<1>1. AddBoth(p, u, n) = <<A, B, W>> /\ AddOne(p, u, n) = <<B, W>> /\ PayNew(p, u) = <<W>>
  BY DEF AddBoth, AddOne, PayNew
<1>2. DeleteAccount(u) = <<D, C>> /\ DropOne(u) = <<C>> /\ DropLast(u) = <<E>>
  BY DEF DeleteAccount, DropOne, DropLast
<1> HIDE DEF A, B, W, D, C, E
<1>3. IsSeq(<<>>) /\ Len(<<>>) = 0
  BY DEF IsSeq, Range
<1>4. \A a : <<a>> = <<a>> \o <<>>
  <2>1. \A a : IsSeq(<<a>>)
    BY OneIsSeq
  <2>2. QED
    BY <2>1, EmptyBefore
<1>5. \A a, b : IsSeq(<<a, b>>) /\ <<a, b>> = <<a>> \o <<b>>
  <2>1. ASSUME NEW a, NEW b PROVE <<a>> \o <<b>> = <<a, b>>
    BY TwoAre
  <2>2. \A a, b : IsSeq(<<a>> \o <<b>>)
    BY OneIsSeq, BothAre
  <2>3. QED
    BY <2>1, <2>2
<1>6. \A a, b, c : <<a, b, c>> = <<a>> \o <<b, c>> /\ IsSeq(<<a, b, c>>)
  <2>1. ASSUME NEW a, NEW b, NEW c PROVE IsSeq(<<a, b, c>>)
    <3>1. <<a, b, c>> \in Seq({a, b, c})
      OBVIOUS
    <3>2. QED
      BY <3>1, SeqIsSeq
  <2>2. ASSUME NEW a, NEW b, NEW c PROVE <<a, b, c>> = <<a>> \o <<b, c>>
    <3>1. IsSeq(<<a>>) /\ IsSeq(<<b, c>>) /\ IsSeq(<<a, b, c>>)
      BY <1>5, <2>1, OneIsSeq
    <3>2. Len(<<a>>) = 1 /\ Len(<<b, c>>) = 2 /\ Len(<<a, b, c>>) = 3
      OBVIOUS
    <3>3. /\ IsSeq(<<a>> \o <<b, c>>) /\ Len(<<a>> \o <<b, c>>) = 1 + 2
          /\ \A i \in 1 .. 1 + 2 : (<<a>> \o <<b, c>>)[i] = IF i <= 1 THEN <<a>>[i] ELSE <<b, c>>[i - 1]
      BY <3>1, <3>2, BothAre
    <3>4. \A i \in 1 .. 3 : <<a, b, c>>[i] = IF i <= 1 THEN <<a>>[i] ELSE <<b, c>>[i - 1]
      OBVIOUS
    <3>5. \A i \in 1 .. 3 : <<a, b, c>>[i] = (<<a>> \o <<b, c>>)[i]
      BY <3>3, <3>4
    <3>6. QED
      BY <3>1, <3>2, <3>3, <3>5, SameSeq
  <2>3. QED
    BY <2>1, <2>2
<1>7. \A a : IsSeq(<<a>>) /\ Len(<<a>>) = 1 /\ <<a>> # <<>> /\ Head(<<a>>) = a /\ After(<<a>>, 0) = <<>>
  <2>1. ASSUME NEW a PROVE After(<<a>>, 0) = <<>>
    <3>1. After(<<a>> \o <<>>, 0) = <<>>
      BY <1>3, AfterFirst
    <3>2. <<a>> \o <<>> = <<a>>
      BY <1>4
    <3>3. QED
      BY <3>1, <3>2
  <2>2. QED
    BY <2>1, OneIsSeq
<1>8. \A a, b : Len(<<a, b>>) = 2 /\ <<a, b>> # <<>> /\ Head(<<a, b>>) = a /\ After(<<a, b>>, 0) = <<b>>
  <2>1. ASSUME NEW a, NEW b PROVE After(<<a, b>>, 0) = <<b>>
    <3>1. After(<<a>> \o <<b>>, 0) = <<b>>
      BY <1>7, AfterFirst
    <3>2. <<a>> \o <<b>> = <<a, b>>
      BY <1>5
    <3>3. QED
      BY <3>1, <3>2
  <2>2. ASSUME NEW a, NEW b PROVE Len(<<a, b>>) = 2 /\ <<a, b>> # <<>> /\ Head(<<a, b>>) = a
    OBVIOUS
  <2>3. QED
    BY <2>1, <2>2
<1>9. Len(<<A, B, W>>) = 3 /\ <<A, B, W>> # <<>> /\ Head(<<A, B, W>>) = A /\ After(<<A, B, W>>, 0) = <<B, W>>
  <2>1. After(<<A, B, W>>, 0) = <<B, W>>
    <3>1. After(<<A>> \o <<B, W>>, 0) = <<B, W>>
      BY <1>5, AfterFirst
    <3>2. <<A>> \o <<B, W>> = <<A, B, W>>
      BY <1>6
    <3>3. QED
      BY <3>1, <3>2
  <2>2. Len(<<A, B, W>>) = 3 /\ <<A, B, W>> # <<>> /\ Head(<<A, B, W>>) = A
    OBVIOUS
  <2>3. QED
    BY <2>1, <2>2
<1>10. /\ IsSeq(<<A, B, W>>) /\ IsSeq(<<B, W>>) /\ IsSeq(<<D, C>>)
       /\ Len(<<B, W>>) = 2 /\ <<B, W>> # <<>> /\ Head(<<B, W>>) = B /\ After(<<B, W>>, 0) = <<W>>
       /\ Len(<<D, C>>) = 2 /\ <<D, C>> # <<>> /\ Head(<<D, C>>) = D /\ After(<<D, C>>, 0) = <<C>>
  BY <1>5, <1>6, <1>8
<1>11. \A a \in {W, C, E} : IsSeq(<<a>>) /\ Len(<<a>>) = 1 /\ <<a>> # <<>> /\ Head(<<a>>) = a /\ After(<<a>>, 0) = <<>>
  BY <1>7
<1>12. QED
  BY <1>1, <1>2, <1>3, <1>9, <1>10, <1>11 DEF A, B, W, D, C, E

-----------------------------------------------------------------------------
(* What requests make of the two halves.                                   *)

LEMMA HalvesAre ==
  ASSUME NEW u, NEW id
  PROVE  /\ Dn(Account(u), id) = AccountDn(u) /\ KeyOf(AccountDn(u)) = Account(u) /\ IsDn(AccountDn(u))
         /\ Dn(BalanceKey(u), id) = BalanceDn(u) /\ KeyOf(BalanceDn(u)) = BalanceKey(u) /\ IsDn(BalanceDn(u))
         /\ AccountDn(u)[1] = "account" /\ BalanceDn(u)[1] = "balance"
<1>1. Append(<<"account", u, None>>, None) = AccountDn(u) /\ Append(<<"balance", u, None>>, None) = BalanceDn(u)
  BY FourthIs DEF AccountDn, BalanceDn
<1>2. Dn(Account(u), id) = AccountDn(u) /\ Dn(BalanceKey(u), id) = BalanceDn(u)
  BY <1>1 DEF Dn, Account, BalanceKey, Named
<1>3. KeyOf(AccountDn(u)) = Account(u) /\ KeyOf(BalanceDn(u)) = BalanceKey(u)
  BY FirstThree DEF KeyOf, AccountDn, BalanceDn, Account, BalanceKey
<1>4. QED
  BY <1>2, <1>3 DEF IsDn, AccountDn, BalanceDn

LEMMA HalfIs ==
  ASSUME DirOK, conf.accounts = "split", NEW u
  PROVE  /\ Balance(u) = BalanceKey(u)
         /\ Matching(Account(u)) = {} <=> ~Has(AccountDn(u))
         /\ Matching(BalanceKey(u)) = {} <=> ~Has(BalanceDn(u))
<1>1. Balance(u) = BalanceKey(u)
  BY DEF Balance, BalanceKey
<1>2. /\ Has(AccountDn(u)) => AccountDn(u) \in Matching(Account(u))
      /\ Has(BalanceDn(u)) => BalanceDn(u) \in Matching(BalanceKey(u))
  BY HalvesAre DEF Has, Matching
<1>3. Account(u)[1] \in Named /\ BalanceKey(u)[1] \in Named
  BY DEF Account, BalanceKey, Named
<1>4. /\ Matching(Account(u)) # {} => Dn(Account(u), None) \in Matching(Account(u))
      /\ Matching(BalanceKey(u)) # {} => Dn(BalanceKey(u), None) \in Matching(BalanceKey(u))
  BY <1>3, NamedIs
<1>5. /\ Matching(Account(u)) # {} => Has(AccountDn(u))
      /\ Matching(BalanceKey(u)) # {} => Has(BalanceDn(u))
  BY <1>4, HalvesAre DEF Has, Matching
<1>6. QED
  BY <1>1, <1>2, <1>5

(* The entry with the name of a half.                                      *)
LEMMA OnlyHalf ==
  ASSUME DirOK, NEW u, NEW dn \in DOMAIN dir
  PROVE  /\ KeyOf(dn) = Account(u) => dn = AccountDn(u)
         /\ KeyOf(dn) = BalanceKey(u) => dn = BalanceDn(u)
<1>1. IsDn(dn) /\ (dn[1] \in Named => dn[3] = None /\ dn[4] = None)
  BY DEF DirOK
<1>2. KeyOf(dn) = <<dn[1], dn[2], dn[3]>>
  BY <1>1, KeyIs
<1>3. ASSUME KeyOf(dn) = Account(u) PROVE dn = AccountDn(u)
  <2>1. dn[1] = "account" /\ dn[2] = u
    BY <1>2, <1>3 DEF Account
  <2>2. QED
    BY <1>1, <2>1 DEF Named, IsDn, AccountDn
<1>4. ASSUME KeyOf(dn) = BalanceKey(u) PROVE dn = BalanceDn(u)
  <2>1. dn[1] = "balance" /\ dn[2] = u
    BY <1>2, <1>4 DEF BalanceKey
  <2>2. QED
    BY <1>1, <2>1 DEF Named, IsDn, BalanceDn
<1>5. QED
  BY <1>3, <1>4

(* The name a deletion is about.                                           *)
LEMMA DeletedIs ==
  ASSUME TypeInv, NEW p \in Procs, At(p, "delete")
  PROVE  /\ Step(p).dn \in DOMAIN proc[p].obj => KeyOf(Target(p)) = SubSeq(Step(p).dn, 1, 3)
         /\ Step(p).dn \notin DOMAIN proc[p].obj => Target(p) = Step(p).dn
<1>1. Step(p).op = "delete" /\ \A k \in DOMAIN proc[p].obj : IsObject(k, proc[p].obj[k])
  BY AtWork DEF MemoryOK
<1>2. QED
  BY <1>1 DEF Target, IsObject

LEMMA KindOfDeleted ==
  ASSUME TypeInv, NEW p \in Procs, At(p, "delete"), Target(p) \in DOMAIN dir
  PROVE  Target(p)[1] = Step(p).dn[1]
<1>1. DirOK /\ IsDn(Target(p))
  BY DEF TypeInv, DirOK
<1>2. CASE Step(p).dn \notin DOMAIN proc[p].obj
  BY <1>2, DeletedIs
<1>3. CASE Step(p).dn \in DOMAIN proc[p].obj
  <2> DEFINE k == Step(p).dn
             S == {k[1], k[2], k[3]}
  <2>1. KeyOf(Target(p)) = SubSeq(k, 1, 3)
    BY <1>3, DeletedIs
  <2>2. KeyOf(Target(p)) = <<Target(p)[1], Target(p)[2], Target(p)[3]>>
    BY <1>1, KeyIs
  <2>3. \A i \in 1 .. 3 : k[i] \in S
    OBVIOUS
  <2> HIDE DEF k, S
  <2>4. /\ SubSeq(k, 1, 3) \in Seq(S) /\ Len(SubSeq(k, 1, 3)) = IF 1 <= 3 THEN 3 - 1 + 1 ELSE 0
        /\ \A i \in 1 .. 3 - 1 + 1 : SubSeq(k, 1, 3)[i] = k[1 + i - 1]
    BY <2>3, SubSeqProperties
  <2>5. SubSeq(k, 1, 3)[1] = k[1]
    BY <2>4
  <2>6. QED
    BY <2>1, <2>2, <2>5 DEF k
<1>4. QED
  BY <1>2, <1>3

(* Other requests leave both as they are.                                  *)
LEMMA OthersSame ==
  ASSUME TypeInv, NEW p \in Procs, Ready(p), Served(p),
         Step(p).op = "add" => Step(p).key[1] \notin Halves,
         Step(p).op = "delete" => Step(p).dn[1] \notin Halves, NEW u
  PROVE  Same(AccountDn(u)) /\ Same(BalanceDn(u))
<1>1. AccountDn(u)[1] \in Halves /\ BalanceDn(u)[1] \in Halves
  BY HalvesAre DEF Halves
<1>2. CASE At(p, "add")
  <2>1. DOMAIN dir' = DOMAIN dir \cup {Target(p)} /\ Target(p)[1] = Step(p).key[1] /\ Step(p).op = "add"
    BY <1>2, ServedAdds, AddedIs DEF At
  <2>2. Target(p) # AccountDn(u) /\ Target(p) # BalanceDn(u)
    BY <1>1, <2>1
  <2>3. AccountDn(u)' = AccountDn(u) /\ BalanceDn(u)' = BalanceDn(u)
    BY DEF AccountDn, BalanceDn
  <2>4. QED
    BY <2>1, <2>2, <2>3 DEF Same, Has
<1>3. CASE At(p, "delete")
  <2>1. DOMAIN dir' = DOMAIN dir \ {Target(p)} /\ Target(p) \in DOMAIN dir /\ Step(p).op = "delete"
    BY <1>3, ServedDeletes DEF At, Served, Accepted
  <2>2. Target(p)[1] = Step(p).dn[1]
    BY <1>3, <2>1, KindOfDeleted
  <2>3. Target(p) # AccountDn(u) /\ Target(p) # BalanceDn(u)
    BY <1>1, <2>1, <2>2
  <2>4. QED
    BY <2>1, <2>3 DEF Same, Has
<1>4. CASE At(p, "modify") /\ proc[p].old # <<>>
  BY <1>4, DirModify DEF Same, Has
<1>5. QED
  BY <1>2, <1>3, <1>4, ReadyIs

LEMMA AddsHalf ==
  ASSUME TypeInv, NEW p \in Procs, Ready(p), Served(p), Step(p).op = "add", NEW u
  PROVE  /\ Step(p).key = Account(u) =>
              DOMAIN dir' = DOMAIN dir \cup {AccountDn(u)} /\ AccountDn(u) \notin DOMAIN dir
         /\ Step(p).key = BalanceKey(u) =>
              DOMAIN dir' = DOMAIN dir \cup {BalanceDn(u)} /\ BalanceDn(u) \notin DOMAIN dir
<1>1. At(p, "add")
  BY DEF Ready, At
<1>2. DOMAIN dir' = DOMAIN dir \cup {Target(p)} /\ Target(p) \notin DOMAIN dir
  BY <1>1, ServedAdds
<1>3. Target(p) = Dn(Step(p).key, p)
  BY <1>1, AddedIs
<1>4. QED
  BY <1>2, <1>3, HalvesAre

LEMMA DropsHalf ==
  ASSUME TypeInv, NEW p \in Procs, Ready(p), Served(p), Step(p).op = "delete", NEW u
  PROVE  /\ Step(p).dn = Account(u) =>
              DOMAIN dir' = DOMAIN dir \ {AccountDn(u)} /\ AccountDn(u) \in DOMAIN dir
         /\ Step(p).dn = BalanceDn(u) =>
              DOMAIN dir' = DOMAIN dir \ {BalanceDn(u)} /\ BalanceDn(u) \in DOMAIN dir
<1>1. At(p, "delete") /\ DirOK
  BY DEF Ready, At, TypeInv
<1>2. DOMAIN dir' = DOMAIN dir \ {Target(p)} /\ Target(p) \in DOMAIN dir
  BY <1>1, ServedDeletes DEF Served, Accepted
<1>3. IsDn(Target(p))
  BY <1>1, <1>2 DEF DirOK
<1>4. ASSUME Step(p).dn = Account(u) PROVE Target(p) = AccountDn(u)
  <2>1. IsKey(Account(u)) /\ SubSeq(Account(u), 1, 3) = Account(u)
    BY KeysAreKeys, KeyOrDn
  <2>2. Step(p).dn \in DOMAIN proc[p].obj
    BY <1>3, <1>4, <1>1, <2>1, KeyOrDn, DeletedIs
  <2>3. KeyOf(Target(p)) = Account(u)
    BY <1>1, <1>4, <2>1, <2>2, DeletedIs
  <2>4. QED
    BY <1>1, <1>2, <2>3, OnlyHalf
<1>5. ASSUME Step(p).dn = BalanceDn(u) PROVE Target(p) = BalanceDn(u)
  <2>1. CASE Step(p).dn \notin DOMAIN proc[p].obj
    BY <1>1, <1>5, <2>1, DeletedIs
  <2>2. CASE Step(p).dn \in DOMAIN proc[p].obj
    <3>1. KeyOf(Target(p)) = BalanceKey(u)
      <4>1. KeyOf(Target(p)) = SubSeq(Step(p).dn, 1, 3)
        BY <1>1, <2>2, DeletedIs
      <4>2. KeyOf(BalanceDn(u)) = SubSeq(BalanceDn(u), 1, 3) /\ KeyOf(BalanceDn(u)) = BalanceKey(u)
        BY HalvesAre DEF KeyOf
      <4>3. QED
        BY <1>5, <4>1, <4>2
    <3>2. QED
      BY <1>1, <1>2, <3>1, OnlyHalf
  <2>3. QED
    BY <2>1, <2>2
<1>6. QED
  BY <1>2, <1>4, <1>5

-----------------------------------------------------------------------------
(* What the two commands plan.                                             *)

LEMMA BothThen ==
  ASSUME NEW x, NEW y, NEW z, IsSeq(x), IsSeq(y), IsSeq(z)
  PROVE  (x \o y) \o z = x \o (y \o z)
<1> DEFINE S == Range(x) \cup Range(y) \cup Range(z)
<1>1. x \in Seq(S) /\ y \in Seq(S) /\ z \in Seq(S)
  <2>1. Range(x) \subseteq S /\ Range(y) \subseteq S /\ Range(z) \subseteq S
    OBVIOUS
  <2> HIDE DEF S
  <2>2. QED
    BY <2>1, SeqMonotonic DEF IsSeq
<1> HIDE DEF S
<1>2. QED
  BY <1>1, ConcatAssociative

LEMMA ClearingBoth ==
  ASSUME NEW u, NEW x, NEW y, Clearing(x, u), Clearing(y, u)
  PROVE  Clearing(x \o y, u)
BY BothAre DEF Clearing

LEMMA ClearingAfter ==
  ASSUME NEW u, NEW x, Clearing(x, u)
  PROVE  Clearing(After(x, 0), u)
<1>1. 0 \in Nat
  OBVIOUS
<1>2. QED
  BY <1>1, AfterIs DEF Clearing

(* The user is half there only at these points of the plans.               *)
Halfway(p, t) ==
  LET u == cmd[p].user
  IN \/ cmd[p].do = "adduser" /\ t = AddOne(p, u, cmd[p].n)
     \/ cmd[p].do = "deluser" /\ t \in {DropOne(u), DropLast(u)}

LEMMA NotHalfway ==
  ASSUME NEW p, NEW t
  PROVE  /\ cmd[p].do \notin {"adduser", "deluser"} => ~Halfway(p, t)
         /\ cmd[p].do = "adduser" /\ t \in {<<Find(Account(cmd[p].user), 0, Stop)>> \o AddBoth(p, cmd[p].user, cmd[p].n),
                                            AddBoth(p, cmd[p].user, cmd[p].n), PayNew(p, cmd[p].user), <<>>} => ~Halfway(p, t)
         /\ cmd[p].do = "deluser" /\ (t = <<>> \/ \E x : Clearing(x, cmd[p].user) /\ t = x \o DeleteAccount(cmd[p].user)) => ~Halfway(p, t)
<1> DEFINE u == cmd[p].user
           n == cmd[p].n
<1>1. cmd[p].do \notin {"adduser", "deluser"} => ~Halfway(p, t)
  BY DEF Halfway
<1>2. ASSUME cmd[p].do = "adduser", t \in {<<Find(Account(u), 0, Stop)>> \o AddBoth(p, u, n), AddBoth(p, u, n), PayNew(p, u), <<>>}
      PROVE  ~Halfway(p, t)
  <2>1. /\ Len(AddBoth(p, u, n)) = 3 /\ Len(AddOne(p, u, n)) = 2 /\ Len(PayNew(p, u)) = 1 /\ Len(<<>>) = 0
        /\ IsSeq(AddBoth(p, u, n))
    BY PlansAre
  <2>2. Len(<<Find(Account(u), 0, Stop)>> \o AddBoth(p, u, n)) = 3 + 1
    BY <2>1, AfterFirst
  <2>3. Len(t) # 2
    <3>1. PICK a, b, c, d : /\ a = <<Find(Account(u), 0, Stop)>> \o AddBoth(p, u, n) /\ b = AddBoth(p, u, n)
                            /\ c = PayNew(p, u) /\ d = <<>>
      OBVIOUS
    <3>2. Len(a) = 3 + 1 /\ Len(b) = 3 /\ Len(c) = 1 /\ Len(d) = 0
      BY <2>1, <2>2, <3>1
    <3>3. t = a \/ t = b \/ t = c \/ t = d
      BY <1>2, <3>1
    <3>4. QED
      BY <3>2, <3>3
  <2>4. QED
    BY <1>2, <2>1, <2>3 DEF Halfway
<1>3. ASSUME cmd[p].do = "deluser", t = <<>> \/ \E x : Clearing(x, u) /\ t = x \o DeleteAccount(u)
      PROVE  ~Halfway(p, t)
  <2>1. /\ Len(DropOne(u)) = 1 /\ Len(DropLast(u)) = 1 /\ Len(<<>>) = 0
        /\ IsSeq(DeleteAccount(u)) /\ Len(DeleteAccount(u)) = 2
    BY PlansAre
  <2>2. ASSUME NEW x, Clearing(x, u), t = x \o DeleteAccount(u) PROVE Len(t) # 1
    <3>1. IsSeq(x) /\ Len(x) \in Nat
      BY <2>2, RangeIs DEF Clearing
    <3>2. Len(t) = Len(x) + 2
      <4>1. PICK y : y = DeleteAccount(u)
        OBVIOUS
      <4>2. IsSeq(y) /\ Len(y) = 2 /\ t = x \o y
        BY <2>1, <2>2, <4>1
      <4>3. QED
        BY <3>1, <4>2, BothAre
    <3>3. QED
      BY <3>1, <3>2
  <2>3. Len(t) # 1
    <3>1. CASE t = <<>>
      BY <2>1, <3>1
    <3>2. CASE \E x : Clearing(x, u) /\ t = x \o DeleteAccount(u)
      BY <2>2, <3>2
    <3>3. QED
      BY <1>3, <3>1, <3>2
  <2>4. QED
    BY <1>3, <2>1, <2>3 DEF Halfway
<1>4. QED
  BY <1>1, <1>2, <1>3

LEMMA ScriptAlters ==
  ASSUME conf.accounts = "split", NEW p, cmd[p].do = "deluser" => cmd[p].user # None,
         NEW r, r.todo = Script(p), r.obj = <<>>, r.bin = <<>>
  PROVE  Alters(p, r) /\ ~Halfway(p, r.todo)
<1> DEFINE u == cmd[p].user
           n == cmd[p].n
<1>1. CASE cmd[p].do \notin {"adduser", "deluser"}
  BY <1>1, NotHalfway DEF Alters
<1>2. CASE cmd[p].do = "adduser"
  <2> DEFINE F == Find(Account(u), 0, Stop)
             A == Add(Account(u), 0, None)
             B == Add(BalanceKey(u), n, None)
             W == Rewrite(BalanceKey(u), {p}, {})
  <2>1. Script(p) = (<<F>> \o <<A, B>>) \o <<W>>
    <3>1. Balance(u) = BalanceKey(u)
      BY DEF Balance, BalanceKey
    <3>2. NewAccount(u, n) = <<A, B>> /\ WriteNewPayment(u, p) = W
      BY <3>1 DEF NewAccount, WriteNewPayment
    <3>3. Script(p) = AddUser(u, n, p)
      BY <1>2 DEF Script
    <3>4. QED
      BY <3>2, <3>3 DEF AddUser
  <2>2. AddBoth(p, u, n) = <<A, B, W>>
    BY DEF AddBoth
  <2> HIDE DEF F, A, B, W
  <2>3. IsSeq(<<A, B>>) /\ IsSeq(<<F>>) /\ IsSeq(<<W>>) /\ IsSeq(<<A>>) /\ IsSeq(<<B>>)
    <3>1. <<A, B>> \in Seq({A, B})
      OBVIOUS
    <3>2. QED
      BY <3>1, SeqIsSeq, OneIsSeq
  <2>4. <<A, B>> \o <<W>> = <<A, B, W>>
    <3>1. /\ IsSeq(<<A, B>> \o <<W>>) /\ Len(<<A, B>> \o <<W>>) = Len(<<A, B>>) + Len(<<W>>)
          /\ \A i \in 1 .. Len(<<A, B>>) + Len(<<W>>) :
               (<<A, B>> \o <<W>>)[i] = IF i <= Len(<<A, B>>) THEN <<A, B>>[i] ELSE <<W>>[i - Len(<<A, B>>)]
      BY <2>3, BothAre
    <3>2. Len(<<A, B>>) = 2 /\ Len(<<W>>) = 1 /\ Len(<<A, B, W>>) = 3
      OBVIOUS
    <3>3. \A i \in 1 .. 3 : <<A, B, W>>[i] = IF i <= 2 THEN <<A, B>>[i] ELSE <<W>>[i - 2]
      OBVIOUS
    <3>4. \A i \in 1 .. 3 : (<<A, B>> \o <<W>>)[i] = <<A, B, W>>[i]
      BY <3>1, <3>2, <3>3
    <3>5. IsSeq(<<A, B, W>>)
      <4>1. IsSeq(AddBoth(p, u, n))
        BY PlansAre
      <4>2. QED
        BY <2>2, <4>1
    <3>6. Len(<<A, B>> \o <<W>>) = 3 /\ IsSeq(<<A, B>> \o <<W>>)
      BY <3>1, <3>2
    <3> DEFINE x == <<A, B>> \o <<W>>
               y == <<A, B, W>>
    <3>7. IsSeq(x) /\ IsSeq(y) /\ Len(x) = Len(y) /\ Len(x) = 3 /\ \A i \in 1 .. 3 : x[i] = y[i]
      BY <3>2, <3>4, <3>5, <3>6
    <3> HIDE DEF x, y
    <3>8. x = y
      BY <3>7, SameSeq
    <3>9. QED
      BY <3>8 DEF x, y
  <2>5. Script(p) = <<F>> \o AddBoth(p, u, n)
    BY <2>1, <2>2, <2>3, <2>4, BothThen
  <2>6. r.todo = <<Find(Account(u), 0, Stop)>> \o AddBoth(p, u, n)
    BY <2>5 DEF F
  <2>7. ~Halfway(p, r.todo)
    BY <1>2, <2>6, NotHalfway
  <2>8. QED
    BY <1>2, <2>6, <2>7 DEF Alters, Addition
<1>3. CASE cmd[p].do = "deluser"
  <2> DEFINE k == Needs(<<Account(u)>>)
             x == <<Ask("jobs", u, Anyone), Ask("quotas", u, Anyone), Ask("purge", u, Anyone)>>
  <2>1. Script(p) = (k \o x) \o DeleteAccount(u)
    BY <1>3 DEF Script, DeleteUser, Matches
  <2>2. Clearing(k, u)
    <3>1. DOMAIN <<Account(u)>> = 1 .. 1 /\ <<Account(u)>>[1] = Account(u) /\ 1 \in Nat
      OBVIOUS
    <3>2. IsSeq(k) /\ Len(k) = 1 /\ \A i \in 1 .. 1 : k[i] = Find(<<Account(u)>>[i], Stop, 0)
      BY <3>1, NeedsIs DEF Lookups
    <3>3. \A s \in Range(k) : s = Find(Account(u), Stop, 0)
      BY <3>1, <3>2, RangeIs
    <3>4. Clears(Find(Account(u), Stop, 0), u)
      BY DEF Clears, Find
    <3>5. QED
      BY <3>2, <3>3, <3>4 DEF Clearing
  <2>3. Clearing(x, u)
    <3> DEFINE S == {Ask("jobs", u, Anyone), Ask("quotas", u, Anyone), Ask("purge", u, Anyone)}
    <3>1. x \in Seq(S)
      OBVIOUS
    <3>2. \A s \in S : Clears(s, u)
      BY <1>3 DEF Clears, Ask
    <3> HIDE DEF S, x
    <3>3. QED
      BY <3>1, <3>2, SeqIsSeq DEF Clearing
  <2> HIDE DEF k, x
  <2>4. Clearing(k \o x, u)
    BY <2>2, <2>3, ClearingBoth
  <2>5. Removal(u, r.todo)
    BY <2>1, <2>4 DEF Removal
  <2>6. ~Halfway(p, r.todo)
    BY <1>3, <2>1, <2>4, NotHalfway
  <2>7. Range(r.bin) = {} /\ DOMAIN r.obj = {}
    BY DEF Range
  <2>8. QED
    BY <1>3, <2>5, <2>6, <2>7 DEF Alters
<1>4. QED
  BY <1>1, <1>2, <1>3

-----------------------------------------------------------------------------
(* Their searches.                                                         *)

Goes(p, r) == Becomes(p, r) /\ (r.state = "running" => Alters(p, r))
Calm(p) == \E r : Goes(p, r) /\ (r.state = "running" => ~Halfway(p, r.todo))

LEMMA FailCalm ==
  ASSUME TypeInv, NEW p \in Procs, Fail(p)
  PROVE  Calm(p)
<1>1. PICK r : r = [proc[p] EXCEPT !.state = "failed", !.old = <<>>]
  OBVIOUS
<1>2. IsProc(proc[p])
  BY DEF TypeInv, ProcOK
<1>3. r.state = "failed" /\ Becomes(p, r)
  BY <1>1, <1>2 DEF IsProc, Fields, Fail
<1>4. QED
  BY <1>3 DEF Calm, Goes

LEMMA RestTo ==
  ASSUME NEW p, NEW r, IsProc(r), NEW t, Becomes(p, Rest(r, t))
  PROVE  \E v : Becomes(p, v) /\ v.todo = t /\ v.obj = r.obj /\ v.bin = r.bin /\ v.state = r.state
<1>1. PICK v : v = Rest(r, t)
  OBVIOUS
<1>2. v.todo = t /\ v.obj = r.obj /\ v.bin = r.bin /\ v.state = r.state
  BY <1>1 DEF Rest, IsProc, Fields
<1>3. Becomes(p, v)
  BY <1>1
<1>4. QED
  BY <1>2, <1>3

LEMMA OthersCalm ==
  ASSUME NEW p, cmd[p].do \notin {"adduser", "deluser"}, NEW r, Becomes(p, r)
  PROVE  Calm(p)
BY NotHalfway DEF Calm, Goes, Alters

LEMMA AdderSearches ==
  ASSUME TypeInv, NEW p \in Procs, cmd[p].do = "adduser", Addition(p, proc[p].todo), SearchNext(p)
  PROVE  ~Halfway(p, proc[p].todo) /\ Calm(p)
<1>1. PICK u, n : u = cmd[p].user /\ n = cmd[p].n
  OBVIOUS
<1>2. PICK F, A, B, W : /\ F = Find(Account(u), 0, Stop) /\ A = Add(Account(u), 0, None)
                        /\ B = Add(BalanceKey(u), n, None) /\ W = Rewrite(BalanceKey(u), {p}, {})
  OBVIOUS
<1>3. F.op = "find" /\ F.hit = Stop /\ F.miss = 0 /\ A.op = "add" /\ B.op = "add" /\ W.op = "modify"
  BY <1>2 DEF Find, Add, Rewrite
<1>4. PICK t : t = proc[p].todo
  OBVIOUS
<1>5. t # <<>> /\ Head(t).op \notin {"add", "modify"} /\ (Head(t).op = "find" => FindObject(p))
  BY <1>4 DEF SearchNext, FindObject, RefreshMembers, CollectEntries, GatherJobs, GatherQuotas, CheckLast, Purge,
       DeleteOwnLast, LeaveGroups, LookAtLast, LookAtParents, WriteJobNew, ListRefunds, MatchingCodes,
       ExtractNames, ShowObject, ExtractHistory, At, Step
<1>6. /\ Head(AddBoth(p, u, n)) = A /\ Head(AddOne(p, u, n)) = B /\ Head(PayNew(p, u)) = W /\ IsSeq(AddBoth(p, u, n))
  BY <1>2, PlansAre
<1>7. t = <<F>> \o AddBoth(p, u, n)
  <2>1. t \in {<<F>> \o AddBoth(p, u, n), AddBoth(p, u, n), AddOne(p, u, n), PayNew(p, u), <<>>}
    BY <1>1, <1>2, <1>4 DEF Addition
  <2>2. t # AddBoth(p, u, n)
    BY <1>3, <1>5, <1>6
  <2>3. t # AddOne(p, u, n)
    BY <1>3, <1>5, <1>6
  <2>4. t # PayNew(p, u)
    BY <1>3, <1>5, <1>6
  <2>5. QED
    BY <1>5, <2>1, <2>2, <2>3, <2>4
<1>8. Head(t) = F /\ After(t, 0) = AddBoth(p, u, n)
  BY <1>6, <1>7, AfterFirst
<1>9. ~Halfway(p, t)
  BY <1>1, <1>2, <1>7, NotHalfway
<1>10. FindObject(p) /\ Step(p) = F
  BY <1>3, <1>4, <1>5, <1>8 DEF Step
<1>11. Skipping(p, 0) = AddBoth(p, u, n) /\ Skipping(p, Stop) = <<>>
  BY <1>4, <1>8 DEF Skipping, After, Stop
<1>12. Fail(p) \/ \E x, m : IsProc(x) /\ m \in {<<>>, AddBoth(p, u, n)} /\ Becomes(p, Rest(x, m))
  <2> DEFINE r == proc[p]
  <2>1. IsProc(r) /\ \A x, k, o : IsProc(x) => IsProc(WithObject(x, k, o))
    BY StillProc DEF TypeInv, ProcOK, WithObject
  <2>2. \/ Becomes(p, Rest(r, Skipping(p, F.hit)))
        \/ Becomes(p, Rest(r, Skipping(p, F.miss)))
        \/ Fail(p)
        \/ \E dn \in Matching(F.key) :
             LET found == WithObject(r, F.key, Loaded(dn))
             IN Becomes(p, Rest(IF F.key[1] # "account" THEN found
                                ELSE WithObject(found, Balance(F.key[2]), Loaded(Dn(Balance(F.key[2]), None))),
                                Skipping(p, F.hit)))
    BY <1>10 DEF FindObject
  <2>3. ASSUME NEW dn,
               LET found == WithObject(r, F.key, Loaded(dn))
               IN Becomes(p, Rest(IF F.key[1] # "account" THEN found
                                  ELSE WithObject(found, Balance(F.key[2]), Loaded(Dn(Balance(F.key[2]), None))),
                                  Skipping(p, F.hit)))
        PROVE  \E x : IsProc(x) /\ Becomes(p, Rest(x, Skipping(p, F.hit)))
    <3> DEFINE found == WithObject(r, F.key, Loaded(dn))
               both == WithObject(found, Balance(F.key[2]), Loaded(Dn(Balance(F.key[2]), None)))
    <3>1. IsProc(found) /\ IsProc(both)
      BY <2>1
    <3>2. Becomes(p, Rest(found, Skipping(p, F.hit))) \/ Becomes(p, Rest(both, Skipping(p, F.hit)))
      BY <2>3
    <3> HIDE DEF found, both
    <3>3. QED
      BY <3>1, <3>2
  <2>4. Skipping(p, F.hit) = <<>> /\ Skipping(p, F.miss) = AddBoth(p, u, n)
    BY <1>3, <1>11
  <2> HIDE DEF r
  <2>5. QED
    BY <2>1, <2>2, <2>3, <2>4
<1>13. ASSUME NEW x, NEW m \in {<<>>, AddBoth(p, u, n)}, IsProc(x), Becomes(p, Rest(x, m)) PROVE Calm(p)
  <2>2. PICK r : r.todo = m /\ Becomes(p, r)
    BY <1>13, RestTo
  <2>3. Alters(p, r) /\ ~Halfway(p, r.todo)
    BY <1>1, <1>13, <2>2, NotHalfway DEF Alters, Addition
  <2>4. QED
    BY <2>2, <2>3 DEF Calm, Goes
<1>14. QED
  BY <1>4, <1>9, <1>12, <1>13, FailCalm

(* Before the account is deleted.                                          *)
LEMMA ClearingOn ==
  ASSUME NEW p \in Procs, cmd[p].do = "deluser", NEW u, u = cmd[p].user,
         NEW x, Clearing(x, u), x # <<>>, proc[p].todo = x \o DeleteAccount(u),
         NEW r, IsProc(r), \A dn \in Range(r.bin) : dn[1] \notin Halves, \A k \in DOMAIN r.obj : IsKey(k),
         NEW t, t = Skipping(p, 0) \/ \E w : Clearing(w, u) /\ t = w \o Skipping(p, 0), Becomes(p, Rest(r, t))
  PROVE  Calm(p)
<1>1. PICK y : y = After(x, 0)
  OBVIOUS
<1>2. PICK d : d = DeleteAccount(u)
  OBVIOUS
<1>3. IsSeq(d) /\ IsSeq(x) /\ Clearing(y, u) /\ IsSeq(y)
  BY <1>1, <1>2, PlansAre, ClearingAfter DEF Clearing
<1>4. Skipping(p, 0) = y \o d
  <2>1. Skipping(p, 0) = After(x \o d, 0)
    BY <1>2 DEF Skipping, After
  <2>2. QED
    BY <1>1, <1>3, <2>1, AfterBoth
<1>5. \E z : Clearing(z, u) /\ t = z \o d
  <2>1. CASE t = Skipping(p, 0)
    BY <1>3, <1>4, <2>1
  <2>2. ASSUME NEW w, Clearing(w, u), t = w \o Skipping(p, 0) PROVE \E z : Clearing(z, u) /\ t = z \o d
    <3>1. t = (w \o y) \o d
      <4>1. IsSeq(w)
        BY <2>2 DEF Clearing
      <4>2. (w \o y) \o d = w \o (y \o d)
        BY <1>3, <4>1, BothThen
      <4>3. QED
        BY <1>4, <2>2, <4>2
    <3>2. QED
      BY <1>3, <2>2, <3>1, ClearingBoth
  <2>3. QED
    BY <2>1, <2>2
<1>7. PICK v : v.todo = t /\ v.obj = r.obj /\ v.bin = r.bin /\ Becomes(p, v)
  BY RestTo
<1>8. Alters(p, v) /\ ~Halfway(p, v.todo)
  <2>1. ~Halfway(p, t)
    BY <1>2, <1>5, NotHalfway
  <2>2. Removal(u, t)
    BY <1>2, <1>5 DEF Removal
  <2>3. QED
    BY <1>7, <2>1, <2>2 DEF Alters
<1>9. QED
  BY <1>7, <1>8 DEF Calm, Goes

LEMMA ClearingHead ==
  ASSUME NEW u, NEW x, Clearing(x, u), x # <<>>
  PROVE  /\ Head(x \o DeleteAccount(u)) = Head(x) /\ Clears(Head(x), u) /\ x \o DeleteAccount(u) # <<>>
         /\ IsSeq(x) /\ IsSeq(x \o DeleteAccount(u)) /\ Head(x) \in Range(x)
<1>1. PICK d : d = DeleteAccount(u)
  OBVIOUS
<1>2. IsSeq(d) /\ IsSeq(x) /\ Len(d) \in Nat /\ Len(x) \in Nat /\ Len(x) >= 1
  BY <1>1, PlansAre, RangeIs DEF Clearing
<1>3. /\ IsSeq(x \o d) /\ Len(x \o d) = Len(x) + Len(d)
      /\ \A i \in 1 .. Len(x) + Len(d) : (x \o d)[i] = IF i <= Len(x) THEN x[i] ELSE d[i - Len(x)]
  BY <1>2, BothAre
<1>4. Len(x \o d) >= 1 /\ (x \o d)[1] = x[1]
  BY <1>2, <1>3
<1>5. x \o d # <<>> /\ Head(x \o d) = (x \o d)[1] /\ Head(x) = x[1] /\ Head(x) \in Range(x)
  BY <1>2, <1>3, <1>4, RangeIs
<1>6. QED
  BY <1>1, <1>3, <1>4, <1>5 DEF Clearing

LEMMA StopCalm ==
  ASSUME NEW p \in Procs, cmd[p].do = "deluser",
         NEW r, IsProc(r), \A dn \in Range(r.bin) : dn[1] \notin Halves, \A k \in DOMAIN r.obj : IsKey(k),
         Becomes(p, Rest(r, <<>>))
  PROVE  Calm(p)
<1>1. PICK v : v.todo = <<>> /\ v.obj = r.obj /\ v.bin = r.bin /\ Becomes(p, v)
  BY RestTo
<1>2. Alters(p, v)
  BY <1>1 DEF Alters, Removal
<1>3. ~Halfway(p, v.todo)
  BY <1>1, NotHalfway
<1>4. QED
  BY <1>1, <1>2, <1>3 DEF Calm, Goes

LEMMA WithObjectIs ==
  ASSUME NEW r, IsProc(r), NEW k, NEW o
  PROVE  /\ IsProc(WithObject(r, k, o)) /\ WithObject(r, k, o).bin = r.bin
         /\ DOMAIN WithObject(r, k, o).obj = DOMAIN r.obj \cup {k}
<1>1. PICK f, g : f = With([x \in {k} |-> o], r.obj) /\ g = [x \in {k} |-> o]
  OBVIOUS
<1>2. WithObject(r, k, o) = [r EXCEPT !.obj = f]
  BY <1>1 DEF WithObject
<1>3. DOMAIN g = {k} /\ DOMAIN f = DOMAIN g \cup DOMAIN r.obj
  BY <1>1, WithIs
<1>4. IsProc([r EXCEPT !.obj = f]) /\ [r EXCEPT !.obj = f].bin = r.bin /\ [r EXCEPT !.obj = f].obj = f
  BY DEF IsProc, Fields
<1>5. QED
  BY <1>2, <1>3, <1>4

LEMMA FindClears ==
  ASSUME TypeInv, NEW p \in Procs, cmd[p].do = "deluser", NEW u, u = cmd[p].user,
         NEW x, Clearing(x, u), x # <<>>, proc[p].todo = x \o DeleteAccount(u),
         \A dn \in Range(proc[p].bin) : dn[1] \notin Halves, \A k \in DOMAIN proc[p].obj : IsKey(k),
         FindObject(p)
  PROVE  Calm(p)
<1>0. Step(p).op = "find" /\ Clears(Step(p), u)
  BY ClearingHead DEF FindObject, At, Step
<1>1. Step(p) = Find(Account(u), Stop, 0)
  BY <1>0 DEF Clears
<1>2. PICK r, s : r = proc[p] /\ s = Step(p)
  OBVIOUS
<1>3. s.key = Account(u) /\ s.miss = Stop /\ s.hit = 0 /\ s.key[1] = "account" /\ s.key[2] = u /\ IsKey(s.key)
  BY <1>1, <1>2, KeysAreKeys DEF Find, Account
<1>4. IsProc(r) /\ Skipping(p, Stop) = <<>>
  BY <1>2 DEF TypeInv, ProcOK, Skipping
<1>5. \/ Becomes(p, Rest(r, Skipping(p, 0)))
      \/ Becomes(p, Rest(r, <<>>))
      \/ Fail(p)
      \/ \E o, b : Becomes(p, Rest(WithObject(WithObject(r, s.key, o), Balance(u), b), Skipping(p, 0)))
  BY <1>2, <1>3, <1>4 DEF FindObject
<1>6. CASE Becomes(p, Rest(r, Skipping(p, 0)))
  BY <1>2, <1>4, <1>6, ClearingOn
<1>7. CASE Becomes(p, Rest(r, <<>>))
  BY <1>2, <1>4, <1>7, StopCalm
<1>8. CASE Fail(p)
  BY <1>8, FailCalm
<1>9. ASSUME NEW o, NEW b, Becomes(p, Rest(WithObject(WithObject(r, s.key, o), Balance(u), b), Skipping(p, 0)))
      PROVE  Calm(p)
  <2>1. PICK v, w : v = WithObject(r, s.key, o) /\ w = WithObject(v, Balance(u), b)
    OBVIOUS
  <2>2. IsProc(v) /\ v.bin = r.bin /\ DOMAIN v.obj = DOMAIN r.obj \cup {s.key}
    BY <1>4, <2>1, WithObjectIs
  <2>3. IsProc(w) /\ w.bin = v.bin /\ DOMAIN w.obj = DOMAIN v.obj \cup {Balance(u)}
    BY <2>1, <2>2, WithObjectIs
  <2>4. Becomes(p, Rest(w, Skipping(p, 0)))
    BY <1>9, <2>1
  <2>5. \A k \in DOMAIN w.obj : IsKey(k)
    BY <1>2, <1>3, <2>2, <2>3, KeysAreKeys
  <2>6. \A dn \in Range(w.bin) : dn[1] \notin Halves
    BY <1>2, <2>2, <2>3
  <2>7. QED
    BY <2>3, <2>4, <2>5, <2>6, ClearingOn
<1>10. QED
  BY <1>5, <1>6, <1>7, <1>8, <1>9

(* What is remembered, and what is then deleted.                           *)
LEMMA BinClears ==
  ASSUME NEW p \in Procs, cmd[p].do = "deluser", NEW u, u = cmd[p].user,
         NEW x, Clearing(x, u), x # <<>>, proc[p].todo = x \o DeleteAccount(u),
         IsProc(proc[p]), \A k \in DOMAIN proc[p].obj : IsKey(k),
         NEW b, IsSeq(b), \A dn \in Range(b) : dn[1] \notin Halves,
         Becomes(p, Rest([proc[p] EXCEPT !.bin = b], Skipping(p, 0)))
  PROVE  Calm(p)
<1>1. PICK r : r = [proc[p] EXCEPT !.bin = b]
  OBVIOUS
<1>2. IsProc(r) /\ r.bin = b /\ r.obj = proc[p].obj
  BY <1>1 DEF IsProc, Fields
<1>3. Becomes(p, Rest(r, Skipping(p, 0)))
  BY <1>1
<1>4. \A dn \in Range(r.bin) : dn[1] \notin Halves
  BY <1>2
<1>5. \A k \in DOMAIN r.obj : IsKey(k)
  BY <1>2
<1>6. QED
  BY <1>2, <1>3, <1>4, <1>5, ClearingOn

LEMMA RemoverClears ==
  ASSUME TypeInv, NEW p \in Procs, cmd[p].do = "deluser", NEW u, u = cmd[p].user,
         NEW x, Clearing(x, u), x # <<>>, proc[p].todo = x \o DeleteAccount(u),
         \A dn \in Range(proc[p].bin) : dn[1] \notin Halves, \A k \in DOMAIN proc[p].obj : IsKey(k),
         SearchNext(p)
  PROVE  Calm(p)
<1>1. Clears(Step(p), u)
  BY ClearingHead DEF Step
<1>2. Step(p).op \in {"find", "jobs", "quotas", "check", "purge", "delete"}
  BY <1>1 DEF Clears
<1>3. FindObject(p) \/ GatherJobs(p) \/ GatherQuotas(p) \/ CheckLast(p) \/ Purge(p)
  BY <1>2 DEF SearchNext, RefreshMembers, CollectEntries,
       DeleteOwnLast, LeaveGroups, LookAtLast, LookAtParents, WriteJobNew, ListRefunds, MatchingCodes,
       ExtractNames, ShowObject, ExtractHistory, At
<1>4. IsProc(proc[p]) /\ IsSeq(proc[p].bin) /\ DirOK
  BY DEF TypeInv, ProcOK, IsSeq
<1>5. CASE FindObject(p)
  BY <1>5, FindClears
<1>6. CASE GatherJobs(p)
  <2>1. PICK S : S = Search("job", Step(p).owner, Anyone)
    OBVIOUS
  <2>2. IsFiniteSet(S) /\ \A dn \in S : dn[1] = "job"
    BY <1>4, <2>1, SearchIs
  <2>3. IsSeq(SetToSeq(S)) /\ Range(SetToSeq(S)) \subseteq S
    BY <2>2, ListedIn
  <2>4. PICK b : b = proc[p].bin \o SetToSeq(S)
    OBVIOUS
  <2>5. IsSeq(b) /\ \A dn \in Range(b) : dn[1] \notin Halves
    BY <1>4, <2>2, <2>3, <2>4, BothAre DEF Halves
  <2>6. Becomes(p, Rest([proc[p] EXCEPT !.bin = b], Skipping(p, 0)))
    BY <1>6, <2>1, <2>4 DEF GatherJobs
  <2>7. QED
    BY <1>4, <2>5, <2>6, BinClears
<1>7. CASE CheckLast(p)
  <2>1. PICK l \in LastJob(Step(p).dn[3]) :
          Becomes(p, Rest([proc[p] EXCEPT !.bin = @ \o <<Step(p).dn>> \o OwnLast(l, Step(p).owner)], Skipping(p, 0)))
    BY <1>7 DEF CheckLast
  <2>2. Step(p).op = "check" /\ Step(p).dn[1] \notin Halves /\ Step(p).owner # None
    BY <1>1, <1>7 DEF CheckLast, At, Clears
  <2>3. PICK o : o = OwnLast(l, Step(p).owner)
    OBVIOUS
  <2>4. IsSeq(o) /\ \A dn \in Range(o) : dn[1] \notin Halves
    <3>1. CASE l.owner # Step(p).owner
      <4>1. o = <<>> /\ Range(<<>>) = {} /\ IsSeq(<<>>)
        BY <2>3, <3>1 DEF OwnLast, Range, IsSeq
      <4>2. QED
        BY <4>1
    <3>2. CASE l.owner = Step(p).owner
      <4>1. o = <<l.dn>> /\ l.dn[1] = "last"
        BY <1>4, <2>2, <2>3, <3>2, OwnLastIs DEF OwnLast
      <4>2. IsSeq(<<l.dn>>) /\ Range(<<l.dn>>) = {l.dn}
        BY OneIsSeq
      <4>3. QED
        BY <4>1, <4>2 DEF Halves
    <3>3. QED
      BY <3>1, <3>2
  <2>5. PICK c : c = proc[p].bin \o <<Step(p).dn>>
    OBVIOUS
  <2>6. IsSeq(c) /\ \A dn \in Range(c) : dn[1] \notin Halves
    <3>1. IsSeq(<<Step(p).dn>>) /\ Range(<<Step(p).dn>>) = {Step(p).dn}
      BY OneIsSeq
    <3>2. QED
      BY <1>4, <2>2, <2>5, <3>1, BothAre
  <2>7. PICK b : b = c \o o
    OBVIOUS
  <2>8. IsSeq(b) /\ \A dn \in Range(b) : dn[1] \notin Halves
    BY <2>4, <2>6, <2>7, BothAre
  <2>9. Becomes(p, Rest([proc[p] EXCEPT !.bin = b], Skipping(p, 0)))
    BY <2>1, <2>3, <2>5, <2>7
  <2>10. QED
    BY <1>4, <2>8, <2>9, BinClears
<1>8. CASE GatherQuotas(p)
  <2>1. PICK S, f, o : S = Search("quota", Step(p).owner, Anyone) /\ f = SetToSeq(S) /\ o = Step(p).owner
    OBVIOUS
  <2>2. IsFiniteSet(S) /\ \A dn \in S : dn[1] = "quota"
    BY <1>4, <2>1, SearchIs
  <2>3. /\ Cardinality(S) \in Nat /\ DOMAIN f = 1 .. Cardinality(S)
        /\ \A i \in 1 .. Cardinality(S) : f[i] \in S
    BY <2>1, <2>2, ListedIn
  <2>4. Step(p).op = "quotas" /\ o # None
    BY <1>1, <1>8, <2>1 DEF GatherQuotas, At, Clears
  <2>5. PICK n : n = Cardinality(S)
    OBVIOUS
  <2>6. PICK w : w = [i \in 1 .. n |-> [op |-> "check", dn |-> f[i], owner |-> o]]
    OBVIOUS
  <2>7. Clearing(w, u)
    <3>1. w = [i \in 1 .. n |-> w[i]] /\ n \in Nat
      BY <2>3, <2>5, <2>6
    <3>2. IsSeq(w) /\ Range(w) = {w[i] : i \in 1 .. n}
      BY <3>1, ListIsSeq
    <3>3. ASSUME NEW i \in 1 .. n PROVE Clears(w[i], u)
      <4>1. w[i] = [op |-> "check", dn |-> f[i], owner |-> o]
        BY <2>6
      <4>2. f[i][1] \notin Halves
        BY <2>2, <2>3, <2>5 DEF Halves
      <4>3. QED
        BY <2>4, <4>1, <4>2 DEF Clears
    <3>4. QED
      BY <3>2, <3>3 DEF Clearing
  <2>8. Becomes(p, Rest(proc[p], w \o Skipping(p, 0)))
    BY <1>8, <2>1, <2>3, <2>5, <2>6 DEF GatherQuotas
  <2>9. QED
    BY <1>4, <2>7, <2>8, ClearingOn
<1>9. CASE Purge(p)
  <2>1. PICK b : b = proc[p].bin
    OBVIOUS
  <2>2. PICK w : w = [i \in DOMAIN b |-> Delete(b[i])]
    OBVIOUS
  <2>3. IsSeq(b) /\ \A dn \in Range(b) : dn[1] \notin Halves
    BY <1>4, <2>1
  <2>4. PICK n : n = Len(b) /\ n \in Nat /\ DOMAIN b = 1 .. n /\ \A i \in 1 .. n : b[i] \in Range(b)
    BY <2>3, RangeIs
  <2>5. Clearing(w, u)
    <3>1. w = [i \in 1 .. n |-> w[i]] /\ \A i \in 1 .. n : w[i] = Delete(b[i])
      BY <2>2, <2>4
    <3>2. IsSeq(w) /\ Range(w) = {w[i] : i \in 1 .. n}
      BY <2>4, <3>1, ListIsSeq
    <3>3. ASSUME NEW i \in 1 .. n PROVE Clears(w[i], u)
      <4>1. b[i][1] \notin Halves
        BY <2>3, <2>4
      <4>2. QED
        BY <3>1, <4>1 DEF Clears, Delete
    <3>4. QED
      BY <3>2, <3>3 DEF Clearing
  <2>6. PICK r : r = [proc[p] EXCEPT !.bin = <<>>]
    OBVIOUS
  <2>7. IsProc(r) /\ r.bin = <<>> /\ r.obj = proc[p].obj
    BY <1>4, <2>6 DEF IsProc, Fields
  <2>8. Becomes(p, Rest(r, w \o Skipping(p, 0)))
    BY <1>9, <2>1, <2>2, <2>6 DEF Purge
  <2>9. \A dn \in Range(r.bin) : dn[1] \notin Halves
    BY <2>7 DEF Range
  <2>10. \A k \in DOMAIN r.obj : IsKey(k)
    BY <2>7
  <2>11. QED
    BY <2>5, <2>7, <2>8, <2>9, <2>10, ClearingOn
<1>10. QED
  BY <1>3, <1>5, <1>6, <1>7, <1>8, <1>9

(* The balance of an user is looked for by its owner.                      *)
LEMMA BalancesOf ==
  ASSUME DirOK, NEW u, u # Anyone
  PROVE  Search("balance", u, Anyone) = IF Has(BalanceDn(u)) THEN {BalanceDn(u)} ELSE {}
<1>1. ASSUME NEW dn \in Search("balance", u, Anyone) PROVE dn \in DOMAIN dir /\ dn = BalanceDn(u)
  <2>1. dn \in DOMAIN dir /\ dn[1] = "balance" /\ u = Owner(dn)
    BY DEF Search
  <2>2. dn[2] = u
    BY <2>1 DEF Owner
  <2>3. IsDn(dn) /\ dn[3] = None /\ dn[4] = None
    BY <2>1 DEF DirOK, Named
  <2>4. QED
    BY <2>1, <2>2, <2>3 DEF IsDn, BalanceDn
<1>2. ASSUME Has(BalanceDn(u)) PROVE BalanceDn(u) \in Search("balance", u, Anyone)
  BY <1>2 DEF Has, Search, Owner, BalanceDn
<1>3. QED
  BY <1>1, <1>2 DEF Has

LEMMA BalanceDeletions ==
  ASSUME NEW u
  PROVE  Deletions({}) = <<>> /\ Deletions({BalanceDn(u)}) = DropLast(u)
<1>1. ASSUME NEW S, IsFiniteSet(S), NEW n, n = Cardinality(S)
      PROVE  /\ IsSeq(Deletions(S)) /\ Len(Deletions(S)) = n /\ n \in Nat
             /\ \A i \in 1 .. n : Deletions(S)[i] = Delete(SetToSeq(S)[i]) /\ SetToSeq(S)[i] \in S
  <2>1. PICK t : t = Deletions(S)
    OBVIOUS
  <2>2. n \in Nat /\ \A i \in 1 .. n : SetToSeq(S)[i] \in S
    BY <1>1, ListedIn
  <2>3. t = [i \in 1 .. n |-> Delete(SetToSeq(S)[i])]
    BY <1>1, <2>1 DEF Deletions
  <2>4. t = [i \in 1 .. n |-> t[i]] /\ \A i \in 1 .. n : t[i] = Delete(SetToSeq(S)[i])
    BY <2>3
  <2>5. IsSeq(t) /\ Len(t) = n
    BY <2>2, <2>4, ListIsSeq
  <2>6. QED
    BY <2>1, <2>2, <2>4, <2>5
<1>2. IsFiniteSet({}) /\ Cardinality({}) = 0
  BY FS_EmptySet
<1>3. IsFiniteSet({BalanceDn(u)}) /\ Cardinality({BalanceDn(u)}) = 1
  BY FS_Singleton
<1>4. Deletions({}) = <<>>
  <2>1. IsSeq(Deletions({})) /\ Len(Deletions({})) = 0
    BY <1>1, <1>2
  <2>2. QED
    BY <2>1, RangeIs
<1>5. Deletions({BalanceDn(u)}) = DropLast(u)
  <2>1. PICK t, S : t = Deletions(S) /\ S = {BalanceDn(u)}
    OBVIOUS
  <2>2. IsSeq(t) /\ Len(t) = 1 /\ \A i \in 1 .. 1 : t[i] = Delete(SetToSeq(S)[i]) /\ SetToSeq(S)[i] \in S
    BY <1>1, <1>3, <2>1
  <2>3. PICK y, e : y = DropLast(u) /\ e = Delete(BalanceDn(u))
    OBVIOUS
  <2>4. \A i \in 1 .. 1 : t[i] = e
    BY <2>1, <2>2, <2>3
  <2>5. IsSeq(y) /\ Len(y) = 1 /\ y = <<e>>
    BY <2>3, PlansAre DEF DropLast
  <2>6. \A i \in 1 .. 1 : y[i] = e
    BY <2>5
  <2>7. t = y
    BY <2>2, <2>4, <2>5, <2>6, SameSeq
  <2>8. QED
    BY <2>1, <2>3, <2>7
<1>6. QED
  BY <1>4, <1>5

(* After the account, the balance, when there is one.                      *)
Drops(p, u) ==
  \E r : Goes(p, r) /\ r.state = "running" /\ r.todo = IF Has(BalanceDn(u)) THEN DropLast(u) ELSE <<>>

LEMMA RemoverCollects ==
  ASSUME TypeInv, NEW p \in Procs, cmd[p].do = "deluser", NEW u, u = cmd[p].user, proc[p].todo = DropOne(u),
         \A dn \in Range(proc[p].bin) : dn[1] \notin Halves, \A k \in DOMAIN proc[p].obj : IsKey(k),
         SearchNext(p)
  PROVE  Drops(p, u)
<1>1. Step(p) = Collect("balance", u, Anyone) /\ Skipping(p, 0) = <<>>
  BY PlansAre DEF Step, Skipping, After
<1>2. Running(p) /\ CollectEntries(p)
  BY <1>1 DEF Collect, SearchNext, FindObject, RefreshMembers, GatherJobs, GatherQuotas, CheckLast, Purge, CollectEntries,
       DeleteOwnLast, LeaveGroups, LookAtLast, LookAtParents, WriteJobNew, ListRefunds, MatchingCodes,
       ExtractNames, ShowObject, ExtractHistory, At
<1>3. PICK S : S = Search("balance", u, Anyone)
  OBVIOUS
<1>4. Becomes(p, Rest(proc[p], Deletions(S) \o <<>>))
  <2>1. PICK s : s = Step(p)
    OBVIOUS
  <2>2. s.kind = "balance" /\ s.owner = u /\ s.printer = Anyone
    BY <1>1, <2>1 DEF Collect
  <2>3. Becomes(p, Rest(proc[p], Deletions(Search(s.kind, s.owner, s.printer)) \o Skipping(p, 0)))
    BY <1>2, <2>1 DEF CollectEntries
  <2>4. QED
    BY <1>1, <1>3, <2>2, <2>3
<1>5. u # Anyone /\ DirOK /\ IsProc(proc[p])
  BY DEF TypeInv, ProcOK
<1>6. PICK t : t = IF Has(BalanceDn(u)) THEN DropLast(u) ELSE <<>>
  OBVIOUS
<1>7. Deletions(S) = t
  BY <1>3, <1>5, <1>6, BalancesOf, BalanceDeletions
<1>8. t \o <<>> = t
  <2>1. IsSeq(t)
    BY <1>6, PlansAre
  <2>2. QED
    BY <2>1, EmptyBefore
<1>9. PICK v : v.todo = t /\ v.obj = proc[p].obj /\ v.bin = proc[p].bin /\ v.state = proc[p].state /\ Becomes(p, v)
  BY <1>4, <1>5, <1>7, <1>8, RestTo
<1>10. Alters(p, v)
  BY <1>6, <1>9 DEF Alters, Removal
<1>11. QED
  BY <1>2, <1>6, <1>9, <1>10 DEF Goes, Drops, Running

-----------------------------------------------------------------------------
(* One process takes a step.                                               *)

(* Where it is then.                                                       *)
AddingAs(p, r, u) ==
  r.state = "running" /\ cmd[p].do = "adduser" /\ cmd[p].user = u /\ r.todo = AddOne(p, u, cmd[p].n)
RemovingAs(p, r, u) ==
  r.state = "running" /\ cmd[p].do = "deluser" /\ cmd[p].user = u /\ r.todo \in {DropOne(u), DropLast(u)}

LEMMA WhereNext ==
  ASSUME TypeInv, NEW p \in Procs, NEW r, Becomes(p, r), UNCHANGED cmd, NEW u
  PROVE  /\ Adding(p, u)' <=> AddingAs(p, r, u)
         /\ Removing(p, u)' <=> RemovingAs(p, r, u)
         /\ Adding(p, u) <=> AddingAs(p, proc[p], u)
         /\ Removing(p, u) <=> RemovingAs(p, proc[p], u)
         /\ \A q \in Procs : q # p => (Adding(q, u)' <=> Adding(q, u)) /\ (Removing(q, u)' <=> Removing(q, u))
<1>1. proc'[p] = r /\ \A q \in Procs : q # p => proc'[q] = proc[q]
  BY OneBecomes DEF TypeInv
<1>2. Adding(p, u)' <=> AddingAs(p, r, u)
  BY <1>1 DEF Adding, AddingAs, Running, AddOne
<1>3. Removing(p, u)' <=> RemovingAs(p, r, u)
  BY <1>1 DEF Removing, RemovingAs, Running, DropOne, DropLast
<1>4. ASSUME NEW q \in Procs, q # p PROVE (Adding(q, u)' <=> Adding(q, u)) /\ (Removing(q, u)' <=> Removing(q, u))
  BY <1>1, <1>4 DEF Adding, Removing, Running, AddOne, DropOne, DropLast
<1>5. QED
  BY <1>2, <1>3, <1>4 DEF Adding, Removing, AddingAs, RemovingAs, Running

LEMMA SoundOne ==
  ASSUME TypeInv, NEW p \in Procs, NEW r, Becomes(p, r), UNCHANGED cmd, NEW u, Sound(u),
         \/ Has(AccountDn(u))' <=> Has(BalanceDn(u))'
         \/ AddingAs(p, r, u) \/ RemovingAs(p, r, u)
         \/ \E q \in Procs \ {p} : Adding(q, u) \/ Removing(q, u),
         AddingAs(p, r, u) => /\ Has(AccountDn(u))' /\ ~Has(BalanceDn(u))'
                           /\ \A q \in Procs \ {p} : ~Adding(q, u),
         RemovingAs(p, r, u) => ~Has(AccountDn(u))',
         \A q \in Procs \ {p} : /\ Adding(q, u) => Has(AccountDn(u))' /\ ~Has(BalanceDn(u))'
                                /\ Removing(q, u) => ~Has(AccountDn(u))'
  PROVE  Sound(u)'
<1>1. /\ Adding(p, u)' <=> AddingAs(p, r, u)
      /\ Removing(p, u)' <=> RemovingAs(p, r, u)
      /\ \A q \in Procs : q # p => (Adding(q, u)' <=> Adding(q, u)) /\ (Removing(q, u)' <=> Removing(q, u))
  BY WhereNext
<1>2. (Has(AccountDn(u))' <=> Has(BalanceDn(u))') \/ \E q \in Procs : Adding(q, u)' \/ Removing(q, u)'
  BY <1>1
<1>3. \A q \in Procs : Adding(q, u)' => Has(AccountDn(u))' /\ ~Has(BalanceDn(u))'
  BY <1>1
<1>4. \A q \in Procs : Removing(q, u)' => ~Has(AccountDn(u))'
  BY <1>1
<1>5. \A q, s \in Procs : Adding(q, u)' /\ Adding(s, u)' => q = s
  BY <1>1 DEF Sound
<1>6. QED
  BY <1>2, <1>3, <1>4, <1>5 DEF Sound

(* Nothing happens to the two halves, and the process goes on as it was.   *)
LEMMA SoundSame ==
  ASSUME TypeInv, NEW p \in Procs, NEW r, Becomes(p, r), UNCHANGED cmd, NEW u, Sound(u),
         Same(AccountDn(u)), Same(BalanceDn(u)),
         AddingAs(p, r, u) <=> AddingAs(p, proc[p], u), RemovingAs(p, r, u) <=> RemovingAs(p, proc[p], u)
  PROVE  Sound(u)'
<1>1. (Has(AccountDn(u))' <=> Has(AccountDn(u))) /\ (Has(BalanceDn(u))' <=> Has(BalanceDn(u)))
  BY DEF Same, AccountDn, BalanceDn
<1>2. (Adding(p, u) <=> AddingAs(p, r, u)) /\ (Removing(p, u) <=> RemovingAs(p, r, u))
  BY WhereNext
<1>3. \/ Has(AccountDn(u))' <=> Has(BalanceDn(u))'
      \/ AddingAs(p, r, u) \/ RemovingAs(p, r, u)
      \/ \E q \in Procs \ {p} : Adding(q, u) \/ Removing(q, u)
  BY <1>1, <1>2 DEF Sound
<1>4. AddingAs(p, r, u) => /\ Has(AccountDn(u))' /\ ~Has(BalanceDn(u))'
                        /\ \A q \in Procs \ {p} : ~Adding(q, u)
  BY <1>1, <1>2 DEF Sound
<1>5. RemovingAs(p, r, u) => ~Has(AccountDn(u))'
  BY <1>1, <1>2 DEF Sound
<1>6. \A q \in Procs \ {p} : /\ Adding(q, u) => Has(AccountDn(u))' /\ ~Has(BalanceDn(u))'
                             /\ Removing(q, u) => ~Has(AccountDn(u))'
  BY <1>1 DEF Sound
<1>7. QED
  BY <1>3, <1>4, <1>5, <1>6, SoundOne

(* Nobody adds an user while another process deletes it.                   *)
Apart(u) ==
  \A q, s \in Procs : ~(/\ Running(q) /\ cmd[q].do = "adduser" /\ cmd[q].user = u
                        /\ Running(s) /\ cmd[s].do = "deluser" /\ cmd[s].user = u)

LEMMA ApartIs ==
  ASSUME Met, NEW u, ~Pairing(u)
  PROVE  Apart(u)
<1>1. ASSUME NEW q \in Procs, NEW s \in Procs, Running(q), cmd[q].do = "adduser", cmd[q].user = u,
             Running(s), cmd[s].do = "deluser", cmd[s].user = u
      PROVE  FALSE
  <2>1. q # s
    BY <1>1
  <2>2. {q, s} \in met
    BY <1>1, <2>1 DEF Met
  <2>3. QED
    BY <1>1, <2>2 DEF Pairing
<1>2. QED
  BY <1>1 DEF Apart

(* The account is added.                                                   *)
LEMMA SoundOpened ==
  ASSUME TypeInv, NEW p \in Procs, NEW r, Becomes(p, r), UNCHANGED cmd, NEW u, Sound(u), Apart(u), Running(p),
         cmd[p].do = "adduser", cmd[p].user = u,
         DOMAIN dir' = DOMAIN dir \cup {AccountDn(u)}, ~Has(AccountDn(u)), r.todo = AddOne(p, u, cmd[p].n),
         r.state = "running"
  PROVE  Sound(u)'
<1>1. AccountDn(u) # BalanceDn(u)
  BY DEF AccountDn, BalanceDn
<1>2. Has(AccountDn(u))' /\ (Has(BalanceDn(u))' <=> Has(BalanceDn(u)))
  BY <1>1 DEF Has, AccountDn, BalanceDn
<1>3. AddingAs(p, r, u) /\ ~RemovingAs(p, r, u)
  BY DEF AddingAs, RemovingAs
<1>4. \A q \in Procs : ~Removing(q, u)
  BY DEF Apart, Removing
<1>5. \A q \in Procs : ~Adding(q, u)
  BY DEF Sound
<1>6. ~Has(BalanceDn(u))
  BY <1>4, <1>5 DEF Sound
<1>7. QED
  BY <1>2, <1>3, <1>4, <1>5, <1>6, SoundOne

(* The account is deleted.                                                 *)
LEMMA SoundBroken ==
  ASSUME TypeInv, NEW p \in Procs, NEW r, Becomes(p, r), UNCHANGED cmd, NEW u, Sound(u), Apart(u), Running(p),
         cmd[p].do = "deluser", cmd[p].user = u,
         DOMAIN dir' = DOMAIN dir \ {AccountDn(u)}, r.todo = DropOne(u), r.state = "running"
  PROVE  Sound(u)'
<1>1. ~Has(AccountDn(u))'
  BY DEF Has, AccountDn
<1>2. RemovingAs(p, r, u) /\ ~AddingAs(p, r, u)
  BY DEF AddingAs, RemovingAs
<1>3. \A q \in Procs : ~Adding(q, u)
  BY DEF Apart, Adding
<1>4. QED
  BY <1>1, <1>2, <1>3, SoundOne

(* The process is past it: both halves are there, or none is.              *)
LEMMA SoundClosed ==
  ASSUME TypeInv, NEW p \in Procs, NEW r, Becomes(p, r), UNCHANGED cmd, NEW u, Sound(u), Apart(u),
         Adding(p, u) \/ Removing(p, u), ~AddingAs(p, r, u), ~RemovingAs(p, r, u),
         Same(AccountDn(u)), Has(BalanceDn(u))' <=> Adding(p, u)
  PROVE  Sound(u)'
<1>1. Has(AccountDn(u))' <=> Has(AccountDn(u))
  BY DEF Same, AccountDn
<1>2. Adding(p, u) <=> Has(AccountDn(u))
  BY DEF Sound
<1>3. Has(AccountDn(u))' <=> Has(BalanceDn(u))'
  BY <1>1, <1>2
<1>4. \A q \in Procs \ {p} : ~Adding(q, u)
  BY DEF Sound, Apart, Adding, Removing
<1>5. \A q \in Procs \ {p} : Removing(q, u) => ~Has(AccountDn(u))'
  BY <1>1 DEF Sound
<1>6. QED
  BY <1>3, <1>4, <1>5, SoundOne

LEMMA HalfOne ==
  ASSUME TypeInv, Met, HalfInv, conf.accounts = "split", faults = 0, UNCHANGED <<conf, cmd>>, met \subseteq met',
         NEW p \in Procs, NEW r, Goes(p, r), \A u : Sound(u) /\ Apart(u) => Sound(u)'
  PROVE  HalfInv'
<1>1. proc'[p] = r /\ \A q \in Procs : q # p => proc'[q] = proc[q]
  BY OneBecomes DEF TypeInv, Goes
<1>2. ASSUME NEW q \in Procs, Running(q)' PROVE Alters(q, proc[q])'
  <2>1. PICK x : x = proc'[q]
    OBVIOUS
  <2>2. x.state = "running"
    BY <1>2, <2>1 DEF Running
  <2>3. Alters(q, x)
    <3>1. CASE q = p
      BY <1>1, <2>1, <2>2, <3>1 DEF Goes
    <3>2. CASE q # p
      BY <1>1, <2>1, <2>2, <3>2 DEF HalfInv, Running
    <3>3. QED
      BY <3>1, <3>2
  <2>4. cmd'[q] = cmd[q]
    OBVIOUS
  <2>5. QED
    BY <2>1, <2>3, <2>4 DEF Alters, Addition, Removal, AddBoth, AddOne, PayNew, DropOne, DropLast
<1>3. ASSUME NEW u PROVE Pairing(u)' \/ Sound(u)'
  <2>1. Pairing(u) => Pairing(u)'
    BY DEF Pairing
  <2>2. Pairing(u) \/ (Sound(u) /\ Apart(u))
    BY ApartIs DEF HalfInv
  <2>3. QED
    BY <2>1, <2>2
<1>4. QED
  BY <1>2, <1>3 DEF HalfInv

(* Where the halves of an user are not at stake.                           *)
LEMMA CalmKeeps ==
  ASSUME TypeInv, Met, HalfInv, conf.accounts = "split", faults = 0, UNCHANGED <<conf, cmd>>, met \subseteq met',
         NEW p \in Procs, Running(p) => ~Halfway(p, proc[p].todo), Calm(p),
         \A u : Same(AccountDn(u)) /\ Same(BalanceDn(u))
  PROVE  HalfInv'
<1>1. PICK r : Goes(p, r) /\ (r.state = "running" => ~Halfway(p, r.todo))
  BY DEF Calm
<1>2. ASSUME NEW u, Sound(u) PROVE Sound(u)'
  <2>1. ~AddingAs(p, r, u) /\ ~RemovingAs(p, r, u)
    BY <1>1 DEF AddingAs, RemovingAs, Halfway
  <2>2. ~AddingAs(p, proc[p], u) /\ ~RemovingAs(p, proc[p], u)
    BY DEF AddingAs, RemovingAs, Halfway, Running
  <2>3. Becomes(p, r)
    BY <1>1 DEF Goes
  <2>4. QED
    BY <1>2, <2>1, <2>2, <2>3, SoundSame
<1>3. QED
  BY <1>1, <1>2, HalfOne

LEMMA StillSame ==
  ASSUME UNCHANGED dir, NEW u
  PROVE  Same(AccountDn(u)) /\ Same(BalanceDn(u))
BY DEF Same, Has, AccountDn, BalanceDn

(* How a deletion goes on, from where it is.                               *)
LEMMA RemovalIs ==
  ASSUME NEW u, NEW t, Removal(u, t), t # <<>>
  PROVE  \/ \E x : Clearing(x, u) /\ x # <<>> /\ t = x \o DeleteAccount(u) /\ Clears(Head(t), u)
         \/ t = DeleteAccount(u) /\ Head(t) = Delete(Account(u)) /\ After(t, 0) = DropOne(u)
         \/ t = DropOne(u) /\ Head(t) = Collect("balance", u, Anyone)
         \/ t = DropLast(u) /\ Head(t) = Delete(BalanceDn(u)) /\ After(t, 0) = <<>>
<1>1. CASE t \in {DropOne(u), DropLast(u), <<>>}
  BY <1>1, PlansAre
<1>2. ASSUME NEW x, Clearing(x, u), t = x \o DeleteAccount(u), x # <<>>
      PROVE  Clearing(x, u) /\ x # <<>> /\ t = x \o DeleteAccount(u) /\ Clears(Head(t), u)
  BY <1>2, ClearingHead
<1>3. ASSUME NEW x, t = x \o DeleteAccount(u), x = <<>>
      PROVE  t = DeleteAccount(u) /\ Head(t) = Delete(Account(u)) /\ After(t, 0) = DropOne(u)
  <2>1. PICK y : y = DeleteAccount(u)
    OBVIOUS
  <2>2. IsSeq(y) /\ Head(y) = Delete(Account(u)) /\ After(y, 0) = DropOne(u)
    BY <2>1, PlansAre
  <2>3. t = y
    BY <1>3, <2>1, <2>2, EmptyBefore
  <2>4. QED
    BY <2>1, <2>2, <2>3
<1>4. QED
  BY <1>1, <1>2, <1>3 DEF Removal

LEMMA SearchHalf ==
  ASSUME TypeInv, Met, HalfInv, conf.accounts = "split", faults = 0, NEW p \in Procs, SearchNext(p)
  PROVE  HalfInv'
<1>1. UNCHANGED <<conf, cmd, dir>> /\ met \subseteq met' /\ Running(p)
  BY GoSearch DEF Unchanged
<1>2. \A u : Same(AccountDn(u)) /\ Same(BalanceDn(u))
  BY <1>1, StillSame
<1>3. PICK u, t : u = cmd[p].user /\ t = proc[p].todo
  OBVIOUS
<1>4. Alters(p, proc[p])
  BY <1>1 DEF HalfInv
<1>5. CASE cmd[p].do \notin {"adduser", "deluser"}
  <2>1. PICK r : Becomes(p, r)
    BY GoSearch DEF GoesOn
  <2>2. Calm(p) /\ ~Halfway(p, t)
    BY <1>5, <2>1, OthersCalm, NotHalfway
  <2>3. QED
    BY <1>1, <1>2, <1>3, <2>2, CalmKeeps
<1>6. CASE cmd[p].do = "adduser"
  <2>1. Addition(p, proc[p].todo)
    BY <1>4, <1>6 DEF Alters
  <2>2. ~Halfway(p, proc[p].todo) /\ Calm(p)
    BY <1>6, <2>1, AdderSearches
  <2>3. QED
    BY <1>1, <1>2, <2>2, CalmKeeps
<1>7. CASE cmd[p].do = "deluser"
  <2>1. /\ Removal(u, t) /\ \A dn \in Range(proc[p].bin) : dn[1] \notin Halves
        /\ \A k \in DOMAIN proc[p].obj : IsKey(k)
    BY <1>3, <1>4, <1>7 DEF Alters
  <2>2. t # <<>> /\ Head(t).op # "delete"
    BY <1>3 DEF SearchNext, FindObject, RefreshMembers, CollectEntries, GatherJobs, GatherQuotas, CheckLast, Purge,
         DeleteOwnLast, LeaveGroups, LookAtLast, LookAtParents, WriteJobNew, ListRefunds, MatchingCodes,
         ExtractNames, ShowObject, ExtractHistory, At, Step
  <2>3. \A dn : Delete(dn).op = "delete"
    BY DEF Delete
  <2>4. (\E x : Clearing(x, u) /\ x # <<>> /\ t = x \o DeleteAccount(u)) \/ t = DropOne(u)
    BY <2>1, <2>2, <2>3, RemovalIs
  <2>5. CASE t = DropOne(u)
    <3>1. Drops(p, u)
      BY <1>3, <1>7, <2>1, <2>5, RemoverCollects
    <3>2. PICK r : Goes(p, r) /\ r.state = "running" /\ r.todo = IF Has(BalanceDn(u)) THEN DropLast(u) ELSE <<>>
      BY <3>1 DEF Drops
    <3>3. Becomes(p, r)
      BY <3>2 DEF Goes
    <3>4. /\ \A w : ~AddingAs(p, r, w) /\ ~AddingAs(p, proc[p], w)
          /\ \A w : w # u => ~RemovingAs(p, r, w) /\ ~RemovingAs(p, proc[p], w)
          /\ RemovingAs(p, proc[p], u) /\ (RemovingAs(p, r, u) <=> Has(BalanceDn(u)))
      <4>1. <<>> \notin {DropOne(u), DropLast(u)}
        BY PlansAre
      <4>2. RemovingAs(p, r, u) <=> Has(BalanceDn(u))
        BY <1>3, <1>7, <3>2, <4>1 DEF RemovingAs
      <4>3. QED
        BY <1>1, <1>3, <1>7, <2>5, <4>2 DEF AddingAs, RemovingAs, Running
    <3>5. Removing(p, u) /\ ~Adding(p, u)
      BY <1>1, <1>3, <1>7, <2>5 DEF Removing, Adding
    <3>6. ASSUME NEW w, Sound(w), Apart(w) PROVE Sound(w)'
      <4>1. CASE w # u \/ Has(BalanceDn(u))
        BY <1>1, <1>2, <3>3, <3>4, <3>6, <4>1, SoundSame
      <4>2. CASE w = u /\ ~Has(BalanceDn(u))
        <5>1. ~(Has(BalanceDn(u))')
          BY <1>1, <4>2 DEF Has, BalanceDn
        <5>2. QED
          BY <1>1, <1>2, <3>3, <3>4, <3>5, <3>6, <4>2, <5>1, SoundClosed
      <4>3. QED
        BY <4>1, <4>2
    <3>7. QED
      BY <1>1, <3>2, <3>6, HalfOne
  <2>6. ASSUME NEW x, Clearing(x, u), x # <<>>, t = x \o DeleteAccount(u) PROVE HalfInv'
    <3>1. Calm(p)
      BY <1>3, <1>7, <2>1, <2>6, RemoverClears
    <3>2. ~Halfway(p, t)
      BY <1>3, <1>7, <2>6, NotHalfway
    <3>3. QED
      BY <1>1, <1>2, <1>3, <3>1, <3>2, CalmKeeps
  <2>7. QED
    BY <2>4, <2>5, <2>6
<1>8. QED
  BY <1>5, <1>6, <1>7

LEMMA ReadHalf ==
  ASSUME TypeInv, Met, HalfInv, conf.accounts = "split", faults = 0, NEW p \in Procs, ReadOld(p)
  PROVE  HalfInv'
<1>1. UNCHANGED <<conf, cmd, dir>> /\ met \subseteq met' /\ Running(p) /\ proc[p].todo # <<>> /\ Step(p).op = "modify"
  BY DEF ReadOld, At, Unchanged
<1>2. \A u : Same(AccountDn(u)) /\ Same(BalanceDn(u))
  BY <1>1, StillSame
<1>3. PICK u, t : u = cmd[p].user /\ t = proc[p].todo
  OBVIOUS
<1>4. Alters(p, proc[p]) /\ IsProc(proc[p])
  BY <1>1 DEF HalfInv, TypeInv, ProcOK
<1>5. CASE cmd[p].do \notin {"adduser", "deluser"}
  <2>1. PICK r : Becomes(p, r)
    BY GoReadOld DEF GoesOn
  <2>2. Calm(p) /\ ~Halfway(p, t)
    BY <1>5, <2>1, OthersCalm, NotHalfway
  <2>3. QED
    BY <1>1, <1>2, <1>3, <2>2, CalmKeeps
<1>6. CASE cmd[p].do = "adduser"
  <2>1. PICK n : n = cmd[p].n
    OBVIOUS
  <2>2. /\ Head(AddBoth(p, u, n)) = Add(Account(u), 0, None) /\ Head(AddOne(p, u, n)) = Add(BalanceKey(u), n, None)
        /\ IsSeq(AddBoth(p, u, n)) /\ After(PayNew(p, u), 0) = <<>>
    BY PlansAre
  <2>3. Head(<<Find(Account(u), 0, Stop)>> \o AddBoth(p, u, n)) = Find(Account(u), 0, Stop)
    BY <2>2, AfterFirst
  <2>4. t \in {<<Find(Account(u), 0, Stop)>> \o AddBoth(p, u, n), AddBoth(p, u, n), AddOne(p, u, n), PayNew(p, u), <<>>}
    BY <1>3, <1>4, <1>6, <2>1 DEF Alters, Addition
  <2>5. t # <<>> /\ Head(t).op = "modify"
    BY <1>1, <1>3 DEF Step
  <2>6. t = PayNew(p, u)
    <3>1. Find(Account(u), 0, Stop).op = "find" /\ Add(Account(u), 0, None).op = "add" /\ Add(BalanceKey(u), n, None).op = "add"
      BY DEF Find, Add
    <3>2. QED
      BY <2>2, <2>3, <2>4, <2>5, <3>1
  <2>7. ~Halfway(p, t) /\ ~Halfway(p, <<>>)
    BY <1>3, <1>6, <2>6, NotHalfway
  <2>8. Skipping(p, 0) = <<>>
    BY <1>3, <2>2, <2>6 DEF Skipping, After
  <2>9. \/ Becomes(p, Rest(proc[p], <<>>)) \/ Fail(p)
        \/ \E a, b : Becomes(p, [proc[p] EXCEPT !.old = a, !.new = b])
    BY <2>8 DEF ReadOld
  <2>10. ASSUME Becomes(p, Rest(proc[p], <<>>)) PROVE Calm(p)
    <3>1. PICK v : v.todo = <<>> /\ Becomes(p, v)
      BY <1>4, <2>10, RestTo
    <3>2. Alters(p, v)
      BY <1>6, <3>1 DEF Alters, Addition
    <3>3. ~Halfway(p, v.todo)
      BY <2>7, <3>1
    <3>4. QED
      BY <3>1, <3>2, <3>3 DEF Calm, Goes
  <2>11. ASSUME \E a, b : Becomes(p, [proc[p] EXCEPT !.old = a, !.new = b]) PROVE Calm(p)
    <3>0. PICK a, b : Becomes(p, [proc[p] EXCEPT !.old = a, !.new = b])
      BY <2>11
    <3>1. [proc[p] EXCEPT !.old = a, !.new = b].todo = t
      BY <1>3, <1>4 DEF IsProc, Fields
    <3>2. PICK v : v.todo = t /\ Becomes(p, v)
      BY <3>0, <3>1
    <3>3. Alters(p, v)
      BY <1>3, <1>6, <2>1, <2>4, <3>2 DEF Alters, Addition
    <3>4. QED
      BY <2>7, <3>2, <3>3 DEF Calm, Goes
  <2>12. Calm(p)
    BY <2>9, <2>10, <2>11, FailCalm
  <2>13. QED
    BY <1>1, <1>2, <1>3, <2>7, <2>12, CalmKeeps
<1>7. CASE cmd[p].do = "deluser"
  <2>1. Removal(u, t) /\ t # <<>> /\ Head(t).op = "modify"
    BY <1>1, <1>3, <1>4, <1>7 DEF Alters, Step
  <2>2. Clears(Head(t), u) \/ Head(t) \in {Delete(Account(u)), Collect("balance", u, Anyone), Delete(BalanceDn(u))}
    BY <2>1, RemovalIs
  <2>3. QED
    BY <2>1, <2>2 DEF Clears, Delete, Collect
<1>8. QED
  BY <1>5, <1>6, <1>7

(* Requests of other commands leave both halves as they are.               *)
LEMMA OthersServed ==
  ASSUME TypeInv, NEW p \in Procs, Ready(p), Served(p), cmd[p].do \notin {"adduser", "deluser"}, NEW u
  PROVE  Same(AccountDn(u)) /\ Same(BalanceDn(u))
<1>1. MayDo(p, Step(p), DOMAIN proc[p].obj)
  BY ReadyIs
<1>2. /\ Step(p).op = "add" => Step(p).key[1] \notin Halves
      /\ Step(p).op = "delete" => Step(p).dn[1] \notin Halves
  BY <1>1 DEF MayDo
<1>3. QED
  BY <1>2, OthersSame

(* An entry is added, or deleted: of all halves, that one is concerned.    *)
LEMMA OnlyOne ==
  ASSUME NEW u, NEW w, NEW d, d \in {AccountDn(u), BalanceDn(u)},
         DOMAIN dir' = DOMAIN dir \cup {d} \/ DOMAIN dir' = DOMAIN dir \ {d}
  PROVE  /\ w # u => Same(AccountDn(w)) /\ Same(BalanceDn(w))
         /\ d = AccountDn(u) => Same(BalanceDn(u))
         /\ d = BalanceDn(u) => Same(AccountDn(u))
<1>1. \A e : e # d => (e \in DOMAIN dir' <=> e \in DOMAIN dir)
  OBVIOUS
<1>2. w # u => AccountDn(w) # d /\ BalanceDn(w) # d
  BY DEF AccountDn, BalanceDn
<1>3. AccountDn(u) # BalanceDn(u)
  BY DEF AccountDn, BalanceDn
<1>4. \A x : (Same(AccountDn(x)) <=> (AccountDn(x) \in DOMAIN dir' <=> AccountDn(x) \in DOMAIN dir))
             /\ (Same(BalanceDn(x)) <=> (BalanceDn(x) \in DOMAIN dir' <=> BalanceDn(x) \in DOMAIN dir))
  BY DEF Same, Has, AccountDn, BalanceDn
<1>5. QED
  BY <1>1, <1>2, <1>3, <1>4

LEMMA AdderRequests ==
  ASSUME TypeInv, Met, HalfInv, conf.accounts = "split", faults = 0, NEW p \in Procs, Request(p), cmd[p].do = "adduser"
  PROVE  HalfInv'
<1>1. /\ Ready(p) /\ Served(p) /\ UNCHANGED <<conf, cmd>> /\ met \subseteq met'
      /\ Running(p) /\ proc[p].todo # <<>> /\ Step(p).op \in {"add", "delete", "modify"}
  BY ReadyIs DEF Request
<1>2. PICK u, n, t : u = cmd[p].user /\ n = cmd[p].n /\ t = proc[p].todo
  OBVIOUS
<1>3. PICK v : v.todo = Skipping(p, 0) /\ v.state = "running" /\ Becomes(p, v)
  <2>1. IsProc(Kept(p)) /\ Kept(p).state = "running"
    BY <1>1, KeptIs
  <2>2. Becomes(p, Rest(Kept(p), Skipping(p, 0)))
    BY DEF Request
  <2>3. QED
    BY <2>1, <2>2, RestTo
<1>4. /\ Head(AddBoth(p, u, n)) = Add(Account(u), 0, None) /\ After(AddBoth(p, u, n), 0) = AddOne(p, u, n)
      /\ Head(AddOne(p, u, n)) = Add(BalanceKey(u), n, None) /\ After(AddOne(p, u, n), 0) = PayNew(p, u)
      /\ Head(PayNew(p, u)) = Rewrite(BalanceKey(u), {p}, {}) /\ After(PayNew(p, u), 0) = <<>>
      /\ IsSeq(AddBoth(p, u, n))
  BY PlansAre
<1>5. Alters(p, proc[p])
  BY <1>1 DEF HalfInv
<1>6. t \in {AddBoth(p, u, n), AddOne(p, u, n), PayNew(p, u)}
  <2>1. t \in {<<Find(Account(u), 0, Stop)>> \o AddBoth(p, u, n), AddBoth(p, u, n), AddOne(p, u, n), PayNew(p, u), <<>>}
    BY <1>2, <1>5 DEF Alters, Addition
  <2>2. Head(<<Find(Account(u), 0, Stop)>> \o AddBoth(p, u, n)) = Find(Account(u), 0, Stop)
    BY <1>4, AfterFirst
  <2>3. Find(Account(u), 0, Stop).op = "find" /\ Head(t).op # "find" /\ t # <<>>
    BY <1>1, <1>2 DEF Find, Step
  <2>4. QED
    BY <2>1, <2>2, <2>3
<1>7. Skipping(p, 0) = After(t, 0) /\ Step(p) = Head(t)
  BY <1>2 DEF Skipping, After, Step
<1>8. \A w : ~RemovingAs(p, v, w) /\ ~RemovingAs(p, proc[p], w)
  BY DEF RemovingAs
<1>9. CASE t = AddBoth(p, u, n)
  <2>1. Step(p) = Add(Account(u), 0, None) /\ v.todo = AddOne(p, u, n)
    BY <1>3, <1>4, <1>7, <1>9
  <2>2. Step(p).op = "add" /\ Step(p).key = Account(u)
    BY <2>1 DEF Add
  <2>3. DOMAIN dir' = DOMAIN dir \cup {AccountDn(u)} /\ ~Has(AccountDn(u))
    BY <1>1, <2>2, AddsHalf DEF Has
  <2>4. Goes(p, v)
    BY <1>2, <1>3, <2>1 DEF Goes, Alters, Addition
  <2>5. ASSUME NEW w, Sound(w), Apart(w) PROVE Sound(w)'
    <3>1. CASE w = u
      BY <1>1, <1>2, <1>3, <2>1, <2>3, <2>5, <3>1, SoundOpened
    <3>2. CASE w # u
      <4>1. ~AddingAs(p, v, w) /\ ~AddingAs(p, proc[p], w)
        BY <1>2, <3>2 DEF AddingAs
      <4>2. Same(AccountDn(w)) /\ Same(BalanceDn(w))
        BY <2>3, <3>2, OnlyOne
      <4>3. QED
        BY <1>1, <1>3, <1>8, <2>5, <4>1, <4>2, SoundSame
    <3>3. QED
      BY <3>1, <3>2
  <2>6. QED
    BY <1>1, <2>4, <2>5, HalfOne
<1>10. CASE t = AddOne(p, u, n)
  <2>1. Step(p) = Add(BalanceKey(u), n, None) /\ v.todo = PayNew(p, u)
    BY <1>3, <1>4, <1>7, <1>10
  <2>2. Step(p).op = "add" /\ Step(p).key = BalanceKey(u)
    BY <2>1 DEF Add
  <2>3. DOMAIN dir' = DOMAIN dir \cup {BalanceDn(u)}
    BY <1>1, <2>2, AddsHalf
  <2>4. Goes(p, v)
    BY <1>2, <1>3, <2>1 DEF Goes, Alters, Addition
  <2>5. \A w : ~AddingAs(p, v, w)
    <3>1. ~Halfway(p, v.todo)
      BY <1>2, <2>1, NotHalfway
    <3>2. QED
      BY <3>1 DEF AddingAs, Halfway
  <2>6. ASSUME NEW w, Sound(w), Apart(w) PROVE Sound(w)'
    <3>1. CASE w = u
      <4>1. Adding(p, u)
        BY <1>1, <1>2, <1>10 DEF Adding
      <4>2. Has(BalanceDn(u))'
        BY <2>3 DEF Has, BalanceDn
      <4>3. Same(AccountDn(u))
        BY <2>3, OnlyOne
      <4>4. QED
        BY <1>1, <1>3, <1>8, <2>5, <2>6, <3>1, <4>1, <4>2, <4>3, SoundClosed
    <3>2. CASE w # u
      <4>1. ~AddingAs(p, proc[p], w)
        BY <1>2, <3>2 DEF AddingAs
      <4>2. Same(AccountDn(w)) /\ Same(BalanceDn(w))
        BY <2>3, <3>2, OnlyOne
      <4>3. QED
        BY <1>1, <1>3, <1>8, <2>5, <2>6, <4>1, <4>2, SoundSame
    <3>3. QED
      BY <3>1, <3>2
  <2>7. QED
    BY <1>1, <2>4, <2>6, HalfOne
<1>11. CASE t = PayNew(p, u)
  <2>1. Step(p) = Rewrite(BalanceKey(u), {p}, {}) /\ v.todo = <<>>
    BY <1>3, <1>4, <1>7, <1>11
  <2>2. Step(p).op = "modify"
    BY <2>1 DEF Rewrite
  <2>3. \A w : Same(AccountDn(w)) /\ Same(BalanceDn(w))
    BY <1>1, <2>2, OthersSame
  <2>4. ~Halfway(p, t) /\ ~Halfway(p, <<>>)
    BY <1>2, <1>11, NotHalfway
  <2>5. Alters(p, v)
    BY <2>1 DEF Alters, Addition
  <2>6. Calm(p)
    BY <1>3, <2>1, <2>4, <2>5 DEF Calm, Goes
  <2>7. QED
    BY <1>1, <1>2, <2>3, <2>4, <2>6, CalmKeeps
<1>12. QED
  BY <1>6, <1>9, <1>10, <1>11

LEMMA RemoverRequests ==
  ASSUME TypeInv, Met, HalfInv, conf.accounts = "split", faults = 0, NEW p \in Procs, Request(p), cmd[p].do = "deluser"
  PROVE  HalfInv'
<1>1. /\ Ready(p) /\ Served(p) /\ UNCHANGED <<conf, cmd>> /\ met \subseteq met'
      /\ Running(p) /\ proc[p].todo # <<>> /\ Step(p).op \in {"add", "delete", "modify"}
  BY ReadyIs DEF Request
<1>2. PICK u, t : u = cmd[p].user /\ t = proc[p].todo
  OBVIOUS
<1>3. Alters(p, proc[p]) /\ IsProc(proc[p])
  BY <1>1 DEF HalfInv, TypeInv, ProcOK
<1>4. /\ Removal(u, t) /\ \A dn \in Range(proc[p].bin) : dn[1] \notin Halves
      /\ \A k \in DOMAIN proc[p].obj : IsKey(k)
  BY <1>2, <1>3 DEF Alters
<1>5. Skipping(p, 0) = After(t, 0) /\ Step(p) = Head(t) /\ t # <<>>
  BY <1>1, <1>2 DEF Skipping, After, Step
<1>6. \/ \E x : Clearing(x, u) /\ x # <<>> /\ t = x \o DeleteAccount(u) /\ Clears(Head(t), u)
      \/ t = DeleteAccount(u) /\ Head(t) = Delete(Account(u)) /\ After(t, 0) = DropOne(u)
      \/ t = DropOne(u) /\ Head(t) = Collect("balance", u, Anyone)
      \/ t = DropLast(u) /\ Head(t) = Delete(BalanceDn(u)) /\ After(t, 0) = <<>>
  BY <1>4, <1>5, RemovalIs
<1>7. Step(p).op = "delete"
  BY <1>1, <1>5, <1>6 DEF Clears, Delete, Collect
<1>8. Becomes(p, Rest(proc[p], Skipping(p, 0))) /\ proc[p].state = "running"
  BY <1>1, <1>7 DEF Request, Kept, Running
<1>9. PICK v : /\ v.todo = Skipping(p, 0) /\ v.state = "running" /\ v.obj = proc[p].obj /\ v.bin = proc[p].bin
               /\ Becomes(p, v)
  BY <1>3, <1>8, RestTo
<1>10. \A w : ~AddingAs(p, v, w) /\ ~AddingAs(p, proc[p], w)
  BY DEF AddingAs
<1>11. ASSUME NEW x, Clearing(x, u), x # <<>>, t = x \o DeleteAccount(u), Clears(Head(t), u) PROVE HalfInv'
  <2>1. \A w : Same(AccountDn(w)) /\ Same(BalanceDn(w))
    <3>1. Step(p).dn[1] \notin Halves
      BY <1>5, <1>7, <1>11 DEF Clears
    <3>2. QED
      BY <1>1, <1>7, <3>1, OthersSame
  <2>2. Calm(p)
    BY <1>2, <1>3, <1>4, <1>8, <1>11, ClearingOn
  <2>3. ~Halfway(p, t)
    BY <1>2, <1>11, NotHalfway
  <2>4. QED
    BY <1>1, <1>2, <2>1, <2>2, <2>3, CalmKeeps
<1>12. CASE t = DeleteAccount(u) /\ Head(t) = Delete(Account(u)) /\ After(t, 0) = DropOne(u)
  <2>1. v.todo = DropOne(u) /\ Step(p).dn = Account(u)
    BY <1>5, <1>9, <1>12 DEF Delete
  <2>2. DOMAIN dir' = DOMAIN dir \ {AccountDn(u)}
    BY <1>1, <1>7, <2>1, DropsHalf
  <2>3. Goes(p, v)
    BY <1>2, <1>4, <1>9, <2>1 DEF Goes, Alters, Removal
  <2>4. ASSUME NEW w, Sound(w), Apart(w) PROVE Sound(w)'
    <3>1. CASE w = u
      BY <1>1, <1>2, <1>9, <2>1, <2>2, <2>4, <3>1, SoundBroken
    <3>2. CASE w # u
      <4>1. ~RemovingAs(p, v, w) /\ ~RemovingAs(p, proc[p], w)
        BY <1>2, <3>2 DEF RemovingAs
      <4>2. Same(AccountDn(w)) /\ Same(BalanceDn(w))
        BY <2>2, <3>2, OnlyOne
      <4>3. QED
        BY <1>1, <1>9, <1>10, <2>4, <4>1, <4>2, SoundSame
    <3>3. QED
      BY <3>1, <3>2
  <2>5. QED
    BY <1>1, <2>3, <2>4, HalfOne
<1>13. CASE t = DropLast(u) /\ Head(t) = Delete(BalanceDn(u)) /\ After(t, 0) = <<>>
  <2>1. v.todo = <<>> /\ Step(p).dn = BalanceDn(u)
    BY <1>5, <1>9, <1>13 DEF Delete
  <2>2. DOMAIN dir' = DOMAIN dir \ {BalanceDn(u)}
    BY <1>1, <1>7, <2>1, DropsHalf
  <2>3. Goes(p, v)
    BY <1>2, <1>4, <1>9, <2>1 DEF Goes, Alters, Removal
  <2>4. \A w : ~RemovingAs(p, v, w)
    <3>1. \A w : <<>> \notin {DropOne(w), DropLast(w)}
      BY PlansAre
    <3>2. QED
      BY <2>1, <3>1 DEF RemovingAs
  <2>5. ASSUME NEW w, Sound(w), Apart(w) PROVE Sound(w)'
    <3>1. CASE w = u
      <4>1. Removing(p, u) /\ ~Adding(p, u)
        BY <1>1, <1>2, <1>13 DEF Removing, Adding
      <4>2. ~(Has(BalanceDn(u))')
        BY <2>2 DEF Has, BalanceDn
      <4>3. Same(AccountDn(u))
        BY <2>2, OnlyOne
      <4>4. QED
        BY <1>1, <1>9, <1>10, <2>4, <2>5, <3>1, <4>1, <4>2, <4>3, SoundClosed
    <3>2. CASE w # u
      <4>1. ~RemovingAs(p, proc[p], w)
        BY <1>2, <3>2 DEF RemovingAs
      <4>2. Same(AccountDn(w)) /\ Same(BalanceDn(w))
        BY <2>2, <3>2, OnlyOne
      <4>3. QED
        BY <1>1, <1>9, <1>10, <2>4, <2>5, <4>1, <4>2, SoundSame
    <3>3. QED
      BY <3>1, <3>2
  <2>6. QED
    BY <1>1, <2>3, <2>5, HalfOne
<1>14. CASE t = DropOne(u) /\ Head(t) = Collect("balance", u, Anyone)
  BY <1>5, <1>7, <1>14 DEF Collect
<1>15. QED
  BY <1>6, <1>11, <1>12, <1>13, <1>14

LEMMA OtherRequests ==
  ASSUME TypeInv, Met, HalfInv, conf.accounts = "split", faults = 0, NEW p \in Procs, Request(p),
         cmd[p].do \notin {"adduser", "deluser"}
  PROVE  HalfInv'
<1>1. Ready(p) /\ Served(p) /\ UNCHANGED <<conf, cmd>> /\ met \subseteq met'
  BY DEF Request
<1>2. PICK r : Becomes(p, r)
  BY DEF Request
<1>3. Calm(p) /\ ~Halfway(p, proc[p].todo)
  BY <1>2, OthersCalm, NotHalfway
<1>4. \A u : Same(AccountDn(u)) /\ Same(BalanceDn(u))
  BY <1>1, OthersServed
<1>5. QED
  BY <1>1, <1>3, <1>4, CalmKeeps

(* A request that was refused is made again as it was, or the process has  *)
(* failed.                                                                 *)
LEMMA RefusedIs ==
  ASSUME TypeInv, NEW p \in Procs, Refused(p)
  PROVE  \E r : /\ Becomes(p, r)
                /\ \/ r.state = "failed"
                   \/ r.state = "running" /\ r.todo = proc[p].todo /\ r.obj = proc[p].obj /\ r.bin = proc[p].bin
<1>1. IsProc(proc[p]) /\ proc[p].state = "running"
  BY DEF TypeInv, ProcOK, Refused, Ready, At, Running
<1>2. CASE Fail(p)
  <2>1. PICK r : r = [proc[p] EXCEPT !.state = "failed", !.old = <<>>]
    OBVIOUS
  <2>2. r.state = "failed" /\ Becomes(p, r)
    BY <1>1, <1>2, <2>1 DEF Fail, IsProc, Fields
  <2>3. QED
    BY <2>2
<1>3. CASE Again(p, FALSE) /\ MayTryAgain(p)
  <2>1. PICK n, m, r : /\ n = IF proc[p].tries < 3 THEN proc[p].tries + 1 ELSE proc[p].tries
                       /\ m = (proc[p].made \/ FALSE) /\ r = [proc[p] EXCEPT !.tries = n, !.old = <<>>, !.made = m]
    OBVIOUS
  <2>2. Becomes(p, r)
    BY <1>3, <2>1 DEF Again
  <2>3. r.state = "running" /\ r.todo = proc[p].todo /\ r.obj = proc[p].obj /\ r.bin = proc[p].bin
    BY <1>1, <2>1 DEF IsProc, Fields
  <2>4. QED
    BY <2>2, <2>3
<1>4. QED
  BY <1>2, <1>3 DEF Refused, Again

LEMMA RefusedHalf ==
  ASSUME TypeInv, Met, HalfInv, conf.accounts = "split", faults = 0, NEW p \in Procs, Refused(p)
  PROVE  HalfInv'
<1>1. /\ Ready(p) /\ ~Accepted(p) /\ UNCHANGED <<conf, cmd, dir>> /\ met \subseteq met'
      /\ Running(p) /\ proc[p].todo # <<>> /\ Step(p).op \in {"add", "delete", "modify"}
  BY ReadyIs DEF Refused, Unchanged
<1>2. \A u : Same(AccountDn(u)) /\ Same(BalanceDn(u))
  BY <1>1, StillSame
<1>3. PICK r : /\ Becomes(p, r)
               /\ \/ r.state = "failed"
                  \/ r.state = "running" /\ r.todo = proc[p].todo /\ r.obj = proc[p].obj /\ r.bin = proc[p].bin
  BY RefusedIs
<1>4. Alters(p, proc[p]) /\ proc[p].state = "running"
  BY <1>1 DEF HalfInv, Running
<1>5. CASE r.state # "failed"
  <2>1. r.state = "running" /\ r.todo = proc[p].todo /\ r.obj = proc[p].obj /\ r.bin = proc[p].bin
    BY <1>3, <1>5
  <2>2. Goes(p, r)
    BY <1>3, <1>4, <2>1 DEF Goes, Alters
  <2>3. \A w : /\ AddingAs(p, r, w) <=> AddingAs(p, proc[p], w)
               /\ RemovingAs(p, r, w) <=> RemovingAs(p, proc[p], w)
    BY <1>4, <2>1 DEF AddingAs, RemovingAs
  <2>4. ASSUME NEW w, Sound(w) PROVE Sound(w)'
    BY <1>1, <1>2, <1>3, <2>3, <2>4, SoundSame
  <2>5. QED
    BY <1>1, <2>2, <2>4, HalfOne
<1>6. CASE r.state = "failed"
  <2>1. Goes(p, r) /\ \A w : ~AddingAs(p, r, w) /\ ~RemovingAs(p, r, w)
    BY <1>3, <1>6 DEF Goes, AddingAs, RemovingAs
  <2>2. ASSUME NEW w, Sound(w), Apart(w) PROVE Sound(w)'
    <3>1. ~Adding(p, w)
      <4>1. SUFFICES ASSUME Adding(p, w) PROVE FALSE
        OBVIOUS
      <4>2. Step(p) = Add(BalanceKey(w), cmd[p].n, None)
        <5>1. Head(AddOne(p, w, cmd[p].n)) = Add(BalanceKey(w), cmd[p].n, None)
          BY PlansAre
        <5>2. QED
          BY <4>1, <5>1 DEF Adding, Step
      <4>3. Step(p).op = "add" /\ Step(p).key = BalanceKey(w)
        BY <4>2 DEF Add
      <4>4. Target(p) = BalanceDn(w)
        BY <4>3, HalvesAre DEF Target
      <4>5. Target(p) \in DOMAIN dir
        BY <1>1, <4>3 DEF Accepted
      <4>6. QED
        BY <2>2, <4>1, <4>4, <4>5 DEF Sound, Has
    <3>2. CASE Removing(p, w)
      <4>1. Step(p) = Collect("balance", w, Anyone) \/ Step(p) = Delete(BalanceDn(w))
        BY <3>2, PlansAre DEF Removing, Step
      <4>2. Step(p).op = "delete" /\ Step(p).dn = BalanceDn(w)
        BY <1>1, <4>1 DEF Collect, Delete
      <4>3. BalanceDn(w) \notin DOMAIN proc[p].obj
        <5>1. \A k \in DOMAIN proc[p].obj : IsKey(k)
          BY <1>4, <3>2 DEF Alters, Removing
        <5>2. IsDn(BalanceDn(w))
          BY HalvesAre
        <5>3. QED
          BY <5>1, <5>2, KeyOrDn
      <4>4. Target(p) = BalanceDn(w)
        BY <4>2, <4>3 DEF Target
      <4>5. ~Has(BalanceDn(w))
        BY <1>1, <4>2, <4>4 DEF Accepted, Has
      <4>6. ~(Has(BalanceDn(w))')
        BY <1>1, <4>5 DEF Has, BalanceDn
      <4>7. QED
        BY <1>1, <1>2, <1>3, <2>1, <2>2, <3>1, <3>2, <4>6, SoundClosed
    <3>3. CASE ~Removing(p, w)
      <4>1. ~AddingAs(p, proc[p], w) /\ ~RemovingAs(p, proc[p], w)
        BY <1>1, <1>3, <3>1, <3>3, WhereNext
      <4>2. QED
        BY <1>1, <1>2, <1>3, <2>1, <2>2, <4>1, SoundSame
    <3>4. QED
      BY <3>2, <3>3
  <2>3. QED
    BY <1>1, <2>1, <2>2, HalfOne
<1>7. QED
  BY <1>5, <1>6

LEMMA StartHalf ==
  ASSUME TypeInv, Met, HalfInv, conf.accounts = "split", faults = 0, NEW p \in Procs, Start(p)
  PROVE  HalfInv'
<1>1. UNCHANGED <<conf, cmd, dir>> /\ met \subseteq met' /\ ~Running(p)
  BY DEF Start, Running
<1>2. PICK r : r = [Idle EXCEPT !.state = "running", !.todo = Script(p)]
  OBVIOUS
<1>3. Becomes(p, r) /\ r.todo = Script(p) /\ r.obj = <<>> /\ r.bin = <<>>
  BY <1>2 DEF Start, Idle
<1>4. Alters(p, r) /\ ~Halfway(p, r.todo)
  <2>1. cmd[p].do = "deluser" => cmd[p].user # None
    BY DEF TypeInv
  <2>2. QED
    BY <1>3, <2>1, ScriptAlters
<1>5. Calm(p)
  BY <1>3, <1>4 DEF Calm, Goes
<1>6. QED
  BY <1>1, <1>5, StillSame, CalmKeeps

LEMMA FinishHalf ==
  ASSUME TypeInv, Met, HalfInv, conf.accounts = "split", faults = 0, NEW p \in Procs, Finish(p)
  PROVE  HalfInv'
<1>1. UNCHANGED <<conf, cmd, dir>> /\ met \subseteq met' /\ proc[p].todo = <<>>
  BY DEF Finish, Unchanged
<1>2. PICK r : Becomes(p, r) /\ r.state = "done"
  BY FinishIs
<1>3. Calm(p)
  BY <1>2 DEF Calm, Goes
<1>4. ~Halfway(p, <<>>)
  BY NotHalfway
<1>5. QED
  BY <1>1, <1>3, <1>4, StillSame, CalmKeeps

LEMMA HalfNext ==
  ASSUME TypeInv, Met, HalfInv, [Next]_vars
  PROVE  HalfInv'
<1>1. ASSUME UNCHANGED vars PROVE HalfInv'
  <2>1. SUFFICES ASSUME conf'.accounts = "split", faults' = 0
                 PROVE  /\ \A p \in Procs : Running(p)' => Alters(p, proc[p])'
                        /\ \A u : Pairing(u)' \/ Sound(u)'
    BY DEF HalfInv
  <2>2. UNCHANGED <<conf, cmd, dir, proc, faults, met>> /\ conf.accounts = "split" /\ faults = 0
    BY <1>1, <2>1 DEF vars
  <2>3. ASSUME NEW p \in Procs, Running(p)' PROVE Alters(p, proc[p])'
    <3>1. Alters(p, proc[p])
      BY <2>2, <2>3 DEF HalfInv, Running
    <3>2. QED
      BY <2>2, <3>1 DEF Alters, Addition, Removal, AddBoth, AddOne, PayNew, DropOne, DropLast
  <2>4. ASSUME NEW u PROVE Pairing(u)' \/ Sound(u)'
    <3>1. Pairing(u) \/ Sound(u)
      BY <2>2 DEF HalfInv
    <3>2. Pairing(u) => Pairing(u)'
      BY <2>2 DEF Pairing
    <3>3. \A p \in Procs : (Adding(p, u)' <=> Adding(p, u)) /\ (Removing(p, u)' <=> Removing(p, u))
      BY <2>2 DEF Adding, Removing, Running, AddOne, DropOne, DropLast
    <3>4. (Has(AccountDn(u))' <=> Has(AccountDn(u))) /\ (Has(BalanceDn(u))' <=> Has(BalanceDn(u)))
      BY <2>2 DEF Has, AccountDn, BalanceDn
    <3>5. Sound(u) => Sound(u)'
      BY <3>3, <3>4 DEF Sound
    <3>6. QED
      BY <3>1, <3>2, <3>5
  <2>5. QED
    BY <2>3, <2>4
<1>2. ASSUME NEW p \in Procs, Work(p) \/ RequestLost(p) \/ AnswerLost(p) PROVE HalfInv'
  <2>1. SUFFICES ASSUME conf'.accounts = "split", faults' = 0 PROVE HalfInv'
    BY DEF HalfInv
  <2>2. UNCHANGED conf
    <3>1. SearchNext(p) => UNCHANGED conf
      BY GoSearch DEF Unchanged
    <3>2. QED
      BY <1>2, <3>1 DEF Work, Start, Finish, ReadOld, Request, Refused, RequestLost, AnswerLost, Unchanged
  <2>3. conf.accounts = "split"
    BY <2>1, <2>2
  <2>4. Work(p)
    <3>1. SUFFICES ASSUME faults' = faults + 1 PROVE FALSE
      BY <1>2 DEF RequestLost, AnswerLost
    <3>2. faults \in 0 .. MaxFaults /\ MaxFaults \in Nat
      BY DirectoryAssumption DEF TypeInv
    <3>3. QED
      BY <2>1, <3>1, <3>2
  <2>5. faults = 0
    <3>1. SearchNext(p) => UNCHANGED faults
      BY GoSearch DEF Unchanged
    <3>2. UNCHANGED faults
      BY <2>4, <3>1 DEF Work, Start, Finish, ReadOld, Request, Refused, Unchanged
    <3>3. QED
      BY <2>1, <3>2
  <2>6. Start(p) => HalfInv'
    BY <2>3, <2>5, StartHalf
  <2>7. Finish(p) => HalfInv'
    BY <2>3, <2>5, FinishHalf
  <2>8. SearchNext(p) => HalfInv'
    BY <2>3, <2>5, SearchHalf
  <2>9. ReadOld(p) => HalfInv'
    BY <2>3, <2>5, ReadHalf
  <2>10. Request(p) => HalfInv'
    BY <2>3, <2>5, AdderRequests, RemoverRequests, OtherRequests
  <2>11. Refused(p) => HalfInv'
    BY <2>3, <2>5, RefusedHalf
  <2>12. QED
    BY <2>4, <2>6, <2>7, <2>8, <2>9, <2>10, <2>11 DEF Work
<1>3. QED
  BY <1>1, <1>2 DEF Next, AllOver

LEMMA HalfInit ==
  ASSUME Init, AllWhole
  PROVE  HalfInv
<1>1. DirOK
  BY TypeInit DEF TypeInv
<1>2. ASSUME NEW p \in Procs PROVE ~Running(p)
  <2>1. proc[p] = [Idle EXCEPT !.state = "done"] \/ proc[p] = Idle
    BY DEF Init
  <2>2. Idle.state = "ready" /\ [Idle EXCEPT !.state = "done"].state = "done"
    BY DEF Idle
  <2>3. QED
    BY <2>1, <2>2 DEF Running
<1>3. ASSUME conf.accounts = "split", NEW u PROVE Sound(u)
  <2>1. Has(AccountDn(u)) \/ Has(BalanceDn(u)) => ~Half(u)
    <3>1. AccountDn(u)[2] = u /\ BalanceDn(u)[2] = u
      BY DEF AccountDn, BalanceDn
    <3>2. \A dn \in DOMAIN dir : dn[2] = u => ~Half(u)
      BY DEF AllWhole
    <3>3. QED
      BY <3>1, <3>2 DEF Has
  <2>2. ~Half(u) => (Has(AccountDn(u)) <=> Has(BalanceDn(u)))
    BY <1>1, <1>3, HalfIs DEF Half
  <2>3. QED
    BY <1>2, <2>1, <2>2 DEF Sound, Adding, Removing
<1>4. QED
  BY <1>2, <1>3 DEF HalfInv

LEMMA HalfImplies ==
  ASSUME TypeInv, HalfInv
  PROVE  HalfAccountNeedsFailure
<1>1. SUFFICES ASSUME NEW u \in {dn[2] : dn \in DOMAIN dir}, Quiet, Half(u), faults = 0 PROVE Pairing(u)
  <2>1. SUFFICES ASSUME NEW u \in {dn[2] : dn \in DOMAIN dir}, Quiet, Half(u), faults = 0
                 PROVE  \E p, q \in Procs : /\ {p, q} \in met /\ cmd[p].user = u /\ cmd[q].user = u
                                            /\ cmd[p].do = "adduser" /\ cmd[q].do = "deluser"
    BY DEF HalfAccountNeedsFailure
  <2>2. QED
    BY <2>1 DEF Pairing
<1>2. DirOK /\ conf.accounts \in {"split", "joined"}
  BY DEF TypeInv, ConfType
<1>3. conf.accounts = "split"
  <2>1. conf.accounts # "split" => Balance(u) = Account(u)
    BY DEF Balance, Account
  <2>2. QED
    BY <1>1, <1>2, <2>1 DEF Half
<1>4. ~(Has(AccountDn(u)) <=> Has(BalanceDn(u)))
  BY <1>1, <1>2, <1>3, HalfIs DEF Half
<1>5. \A p \in Procs : ~Running(p)
  BY <1>1 DEF Quiet, Over, Running
<1>6. \A p \in Procs : ~Adding(p, u) /\ ~Removing(p, u)
  BY <1>5 DEF Adding, Removing
<1>7. ~Sound(u)
  BY <1>4, <1>6 DEF Sound
<1>8. QED
  BY <1>1, <1>3, <1>7 DEF HalfInv

(* When no user is half there at first, and no request or answer is lost,  *)
(* an account without a balance or a balance without an account is left    *)
(* only by the user being added and deleted at the same time: no other     *)
(* command, and no order of the requests of one, leaves one.               *)
THEOREM HalvesAreRaces == Spec /\ AllWhole => []HalfAccountNeedsFailure
<1>1. Init /\ AllWhole => MeetInv /\ HalfInv
  BY MeetInit, HalfInit
<1>2. TypeInv /\ MeetInv /\ HalfInv /\ [Next]_vars => MeetInv' /\ HalfInv'
  BY MeetNext, HalfNext DEF MeetInv
<1>3. TypeInv /\ HalfInv => HalfAccountNeedsFailure
  BY HalfImplies
<1>4. QED
  BY <1>1, <1>2, <1>3, TypesAreKept, PTL DEF Spec

=============================================================================
