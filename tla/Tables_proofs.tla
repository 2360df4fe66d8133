---------------------------- MODULE Tables_proofs ----------------------------
(***************************************************************************)
(* The SQL storage, for any number of jobs and commands, any database and  *)
(* any names: what the tables hold, and who pays for what is printed.      *)
(***************************************************************************)
EXTENDS Tables, Sums_proofs, SequenceTheorems

-----------------------------------------------------------------------------
(* Sets.                                                                   *)

(* A finite set of integers that is not empty has a greatest element.      *)
LEMMA MaxIsGreatest ==
  ASSUME NEW S, IsFiniteSet(S), S # {}, S \subseteq Int
  PROVE  Max(S) \in S /\ \A y \in S : Max(S) >= y
<1> DEFINE Above(x) == {y \in S : y >= x}
           L == {Above(x) : x \in S}
<1>1. L \subseteq SUBSET S /\ L # {}
  OBVIOUS
<1>2. PICK T \in L : \A U \in SUBSET T : U # T => U \notin L
  <2> HIDE DEF L
  <2>1. QED
    BY <1>1, SmallestMember
<1>3. PICK m \in S : T = Above(m)
  OBVIOUS
<1>4. ASSUME NEW y \in S, ~(m >= y) PROVE FALSE
  <2>1. m \in Int /\ y \in Int /\ y > m
    BY <1>4
  <2>2. Above(y) \subseteq T
    <3>1. \A z \in S : z >= y => z >= m
      BY <2>1
    <3>2. QED
      BY <1>3, <3>1
  <2>3. m \in T /\ m \notin Above(y)
    BY <1>3, <2>1
  <2>4. Above(y) \in L
    OBVIOUS
  <2> HIDE DEF Above, L
  <2>5. QED
    BY <1>2, <2>2, <2>3, <2>4
<1>5. \E x \in S : \A y \in S : x >= y
  BY <1>4
<1>6. QED
  BY <1>5 DEF Max

-----------------------------------------------------------------------------
(* What a process may still do, by what it is: which commands delete, who  *)
(* adds users, which of those that delete can take users or jobs away.     *)

Fields   == {"state", "todo", "out", "own", "gone", "shared"}
Deleters == {"delusers", "delprinters", "delgroups", "delquotas", "delgquotas", "delcodes"}
Deleting == Deleters \cup {"quit", "leave"}

Members  == {"groupsmembers", "printergroupsmembers"}

(* The tables that say what was printed, and who deletes from them.        *)
Counted  == {"userpquota", "jobhistory"}
Takers   == {"delusers", "delprinters", "delquotas"}

AddedBy(do, t) ==
  /\ t = "users" => do = "adduser"
  /\ t = "printers" => do = "addprinter"
  /\ t = "groups" => do = "addgroup"
  /\ t = "billingcodes" => do = "addcode"
  /\ t = "userpquota" => do = "addquota"
  /\ t = "grouppquota" => do = "addgquota"
  /\ t = "groupsmembers" => do = "enter"
  /\ t = "printergroupsmembers" => do = "join"
  /\ t = "jobhistory" => do = "job"
  /\ do \in {"pay", "refund"} => t = "payments"

MayDo(do, s) ==
  \/ /\ s.op = "insert" /\ do \notin Deleting
     /\ s.table \in TableNames /\ IsRow(s.row) /\ AddedBy(do, s.table)
     /\ s.table = "userpquota" => s.row.num = 0
  \/ /\ s.op = "update" /\ do \notin Deleting
     /\ do \in {"job", "refund", "pay"} /\ s.key[1] \in {"users", "userpquota", "billingcodes", "jobhistory"}
     /\ do = "pay" => s.key[1] = "users"
     /\ s.how \in {"add", "above", "save", "refunded"} /\ s.num \in Int
  \/ /\ s.op = "delete" /\ do \in Deleting /\ s.table \in TableNames
     /\ s.table = "users" => do = "delusers"
     /\ do \notin Deleters => s.table \in Members
     /\ s.table \in Counted => do \in Takers
  \/ /\ s.op = "record" /\ do = "job"
     /\ DOMAIN s = {"op", "row", "last"} /\ IsRow(s.row) /\ ~s.row.refunded
     /\ s.last \in {None, Unread} \/ s.last[1] = "jobhistory"
  \/ /\ s.op \in {"refund", "payback"} /\ do = "refund"
     /\ DOMAIN s = {"op", "key", "user", "printer", "code", "num", "price"}
     /\ s.key[1] = "jobhistory" /\ s.num \in Int /\ s.price \in Int
  \/ s.op = "pages" /\ do = "refund" /\ s.num \in Int
  \/ s.op = "commit" /\ do = "refund"
  \/ s.op = "extract" /\ do = "dump"

Planned(do, t) == t \in Seq(Range(t)) /\ \A s \in Range(t) : MayDo(do, s)

LEMMA PlannedBy ==
  ASSUME NEW S, NEW t \in Seq(S), NEW do, \A s \in S : MayDo(do, s)
  PROVE  Planned(do, t)
BY OnlyWhatItHas DEF Planned

LEMMA NothingPlanned == ASSUME NEW do PROVE Planned(do, <<>>)
BY DEF Planned, Range

LEMMA HeadIsPlanned ==
  ASSUME NEW do, NEW t, Planned(do, t), t # <<>>
  PROVE  Head(t) \in Range(t) /\ MayDo(do, Head(t))
BY HeadTailProperties DEF Planned

LEMMA TailIsPlanned ==
  ASSUME NEW do, NEW t, Planned(do, t), t # <<>>
  PROVE  Planned(do, Tail(t)) /\ Range(Tail(t)) \subseteq Range(t)
<1>1. Tail(t) \in Seq(Range(t))
  BY HeadTailProperties DEF Planned
<1>2. Range(Tail(t)) \subseteq Range(t)
  BY <1>1, OnlyWhatItHas
<1>3. QED
  BY <1>1, <1>2, PlannedBy DEF Planned

LEMMA BothArePlanned ==
  ASSUME NEW do, NEW t, NEW u, Planned(do, t), Planned(do, u)
  PROVE  Planned(do, t \o u)
<1> DEFINE S == Range(t) \cup Range(u)
<1>1. t \in Seq(S) /\ u \in Seq(S)
  <2>1. Range(t) \subseteq S /\ Range(u) \subseteq S
    OBVIOUS
  <2> HIDE DEF S
  <2>2. QED
    BY <2>1, SeqMonotonic DEF Planned
<1>2. t \o u \in Seq(S)
  <2> HIDE DEF S
  <2>1. QED
    BY <1>1, ConcatProperties
<1>3. \A s \in S : MayDo(do, s)
  BY DEF Planned
<1>4. QED
  <2> HIDE DEF S
  <2>1. QED
    BY <1>2, <1>3, PlannedBy

(* The steps that add what is missing of a finite set of rows.             *)
LEMMA MissingIsPlanned ==
  ASSUME NEW d, NEW t \in TableNames, NEW rows, IsFiniteSet(rows), \A r \in rows : IsRow(r),
         NEW do, do \notin Deleting, AddedBy(do, t), t = "userpquota" => \A r \in rows : r.num = 0
  PROVE  Planned(do, Missing(d, t, rows))
<1> DEFINE new == {x \in rows : \A k \in Rows(d, t) : UniqueKey(t, d[k]) # UniqueKey(t, x)}
           f == [r \in new |-> Insert(t, r)]
           S == {Insert(t, r) : r \in new}
<1>1. IsFiniteSet(new)
  BY FS_Subset
<1>2. IsFiniteSet({f[r] : r \in new})
  <2>1. DOMAIN f = new
    OBVIOUS
  <2> HIDE DEF f, new
  <2>2. QED
    BY <1>1, <2>1, ImageIsFinite
<1>3. S = {f[r] : r \in new}
  OBVIOUS
<1>4. \A s \in S : MayDo(do, s)
  BY DEF MayDo, Insert
<1>5. SetToSeq(S) \in Seq(S)
  <2> HIDE DEF S, f, new
  <2>1. QED
    BY <1>2, <1>3, SetToSeqIsSeq
<1>6. Missing(d, t, rows) = SetToSeq(S)
  BY DEF Missing
<1> HIDE DEF S
<1>7. QED
  BY <1>4, <1>5, <1>6, PlannedBy

(* Rows by names, and by pairs, are finitely many.                         *)
LEMMA NamedRowsAreRows ==
  ASSUME NEW names, IsFiniteSet(names), NEW n \in Int
  PROVE  /\ IsFiniteSet({NamedRow(x, n) : x \in names})
         /\ \A r \in {NamedRow(x, n) : x \in names} : IsRow(r)
<1> DEFINE f == [x \in names |-> NamedRow(x, n)]
<1>1. DOMAIN f = names
  OBVIOUS
<1>2. {NamedRow(x, n) : x \in names} = {f[x] : x \in names}
  OBVIOUS
<1>3. IsFiniteSet({f[x] : x \in names})
  <2> HIDE DEF f
  <2>1. QED
    BY <1>1, ImageIsFinite
<1>4. \A x : IsRow(NamedRow(x, n))
  BY DEF NamedRow, Row, IsRow
<1>5. QED
  <2> HIDE DEF f
  <2>1. QED
    BY <1>2, <1>3, <1>4

(* The rows that are added for all of some users, printers and groups.     *)
QuotaRows(S, T)  == {PQuotaRow(u, p) : u \in S, p \in T}
GroupRows(S, T)  == {Row(None, None, p, g, 0, None) : p \in S, g \in T}
MemberRows(S, T) == {Row(None, u, None, g, 0, None) : u \in S, g \in T}

LEMMA PairRowsAreRows ==
  ASSUME NEW S, NEW T, IsFiniteSet(S), IsFiniteSet(T)
  PROVE  /\ IsFiniteSet(QuotaRows(S, T)) /\ \A r \in QuotaRows(S, T) : IsRow(r) /\ r.num = 0
         /\ IsFiniteSet(GroupRows(S, T)) /\ \A r \in GroupRows(S, T) : IsRow(r)
         /\ IsFiniteSet(MemberRows(S, T)) /\ \A r \in MemberRows(S, T) : IsRow(r)
<1>1. \A u, p, g : IsRow(PQuotaRow(u, p)) /\ IsRow(Row(None, u, p, g, 0, None))
  BY DEF PQuotaRow, Row, IsRow
<1>2. IsFiniteSet({PQuotaRow(u, p) : u \in S, p \in T})
  <2> DEFINE R == {PQuotaRow(u, p) : u \in S, p \in T}
             f == [z \in S \X T |-> PQuotaRow(z[1], z[2])]
  <2>1. \A x \in S, y \in T : <<x, y>> \in S \X T /\ f[<<x, y>>] = PQuotaRow(x, y)
    OBVIOUS
  <2>2. DOMAIN f = S \X T
    OBVIOUS
  <2>3. \A r \in R : \E x \in S, y \in T : r = f[<<x, y>>]
    <3>1. \A r \in R : \E x \in S, y \in T : r = PQuotaRow(x, y)
      OBVIOUS
    <3> HIDE DEF R, f
    <3>2. QED
      BY <2>1, <3>1
  <2> HIDE DEF f, R
  <2>4. IsFiniteSet({f[z] : z \in S \X T})
    <3>1. IsFiniteSet(S \X T)
      BY FS_Product
    <3>2. QED
      BY <2>2, <3>1, ImageIsFinite
  <2>5. R \in SUBSET {f[z] : z \in S \X T}
    BY <2>1, <2>3
  <2>6. IsFiniteSet(R)
    BY <2>4, <2>5, FS_Subset
  <2>7. QED
    BY <2>6 DEF R
<1>3. IsFiniteSet({Row(None, None, p, g, 0, None) : p \in S, g \in T})
  <2> DEFINE R == {Row(None, None, p, g, 0, None) : p \in S, g \in T}
             f == [z \in S \X T |-> Row(None, None, z[1], z[2], 0, None)]
  <2>1. \A x \in S, y \in T : <<x, y>> \in S \X T /\ f[<<x, y>>] = Row(None, None, x, y, 0, None)
    OBVIOUS
  <2>2. DOMAIN f = S \X T
    OBVIOUS
  <2>3. \A r \in R : \E x \in S, y \in T : r = f[<<x, y>>]
    <3>1. \A r \in R : \E x \in S, y \in T : r = Row(None, None, x, y, 0, None)
      OBVIOUS
    <3> HIDE DEF R, f
    <3>2. QED
      BY <2>1, <3>1
  <2> HIDE DEF f, R
  <2>4. IsFiniteSet({f[z] : z \in S \X T})
    <3>1. IsFiniteSet(S \X T)
      BY FS_Product
    <3>2. QED
      BY <2>2, <3>1, ImageIsFinite
  <2>5. R \in SUBSET {f[z] : z \in S \X T}
    BY <2>1, <2>3
  <2>6. IsFiniteSet(R)
    BY <2>4, <2>5, FS_Subset
  <2>7. QED
    BY <2>6 DEF R
<1>4. IsFiniteSet({Row(None, u, None, g, 0, None) : u \in S, g \in T})
  <2> DEFINE R == {Row(None, u, None, g, 0, None) : u \in S, g \in T}
             f == [z \in S \X T |-> Row(None, z[1], None, z[2], 0, None)]
  <2>1. \A x \in S, y \in T : <<x, y>> \in S \X T /\ f[<<x, y>>] = Row(None, x, None, y, 0, None)
    OBVIOUS
  <2>2. DOMAIN f = S \X T
    OBVIOUS
  <2>3. \A r \in R : \E x \in S, y \in T : r = f[<<x, y>>]
    <3>1. \A r \in R : \E x \in S, y \in T : r = Row(None, x, None, y, 0, None)
      OBVIOUS
    <3> HIDE DEF R, f
    <3>2. QED
      BY <2>1, <3>1
  <2> HIDE DEF f, R
  <2>4. IsFiniteSet({f[z] : z \in S \X T})
    <3>1. IsFiniteSet(S \X T)
      BY FS_Product
    <3>2. QED
      BY <2>2, <3>1, ImageIsFinite
  <2>5. R \in SUBSET {f[z] : z \in S \X T}
    BY <2>1, <2>3
  <2>6. IsFiniteSet(R)
    BY <2>4, <2>5, FS_Subset
  <2>7. QED
    BY <2>6 DEF R
<1>5. QED
  <2>1. \A r \in QuotaRows(S, T) : r.num = 0
    <3>1. \A x, y : PQuotaRow(x, y).num = 0
      BY DEF PQuotaRow, Row
    <3>2. QED
      BY <3>1 DEF QuotaRows
  <2>2. /\ IsFiniteSet(QuotaRows(S, T)) /\ \A r \in QuotaRows(S, T) : IsRow(r)
        /\ IsFiniteSet(GroupRows(S, T)) /\ \A r \in GroupRows(S, T) : IsRow(r)
        /\ IsFiniteSet(MemberRows(S, T)) /\ \A r \in MemberRows(S, T) : IsRow(r)
    BY <1>1, <1>2, <1>3, <1>4 DEF QuotaRows, GroupRows, MemberRows
  <2>3. QED
    BY <2>1, <2>2

-----------------------------------------------------------------------------
(* The steps a process starts with.                                        *)

Tidy(d) == IsFiniteSet(DOMAIN d) /\ \A k \in DOMAIN d : k \in TableNames \X Nat /\ IsRow(d[k])

LEMMA SomeRowsAreFinite ==
  ASSUME NEW d, Tidy(d), NEW X \in SUBSET DOMAIN d
  PROVE  IsFiniteSet(X) /\ IsFiniteSet({k[2] : k \in X}) /\ {k[2] : k \in X} \subseteq Nat
<1> DEFINE f == [k \in X |-> k[2]]
<1>1. IsFiniteSet(X)
  BY FS_Subset DEF Tidy
<1>2. DOMAIN f = X /\ {f[k] : k \in X} = {k[2] : k \in X}
  OBVIOUS
<1>3. IsFiniteSet({f[k] : k \in X})
  <2> HIDE DEF f
  <2>1. QED
    BY <1>1, <1>2, ImageIsFinite
<1>4. \A k \in X : k[2] \in Nat
  BY DEF Tidy
<1>5. QED
  <2> HIDE DEF f
  <2>1. QED
    BY <1>1, <1>2, <1>3, <1>4

LEMMA IdsAreThere ==
  ASSUME NEW d, Tidy(d), NEW t, NEW names
  PROVE  /\ IsFiniteSet(Ids(d, t, names))
         /\ \A i \in Ids(d, t, names) : <<t, i>> \in DOMAIN d /\ d[<<t, i>>].name \in names
<1> DEFINE X == {x \in Rows(d, t) : d[x].name \in names}
<1>1. X \in SUBSET DOMAIN d
  BY DEF Rows
<1>2. IsFiniteSet(Ids(d, t, names))
  <2>1. Ids(d, t, names) = {k[2] : k \in X}
    BY DEF Ids
  <2> HIDE DEF X
  <2>2. QED
    BY <1>1, <2>1, SomeRowsAreFinite
<1>3. ASSUME NEW i \in Ids(d, t, names) PROVE <<t, i>> \in DOMAIN d /\ d[<<t, i>>].name \in names
  <2>1. PICK k \in X : i = k[2]
    BY DEF Ids
  <2>2. k \in DOMAIN d /\ k[1] = t /\ d[k].name \in names
    BY <2>1 DEF Rows
  <2>3. k = <<t, i>>
    BY <2>1, <2>2 DEF Tidy
  <2>4. QED
    BY <2>2, <2>3
<1>4. QED
  BY <1>2, <1>3

(* Steps that insert nothing but payments of some users.                   *)
Pays(s, us) == s.op # "record" /\ (s.op = "insert" => s.table = "payments" /\ s.row.user \in us)

LEMMA PayIsPlanned ==
  ASSUME NEW d, Tidy(d), NEW names, NEW n \in Int, NEW us, us = Ids(d, "users", names)
  PROVE  /\ Planned("pay", FlattenSeq([i \in 1 .. Cardinality(us) |-> Pay(d, SetToSeq(us)[i], n)]))
         /\ \A s \in Range(FlattenSeq([i \in 1 .. Cardinality(us) |-> Pay(d, SetToSeq(us)[i], n)])) : Pays(s, us)
<1> DEFINE Noted(u) == Insert("payments", Row(None, u, None, None, n, None))
           Paid(u) == Save(<<"users", u>>, d[<<"users", u>>].num + n)
           S == {Noted(u) : u \in us} \cup {Paid(u) : u \in us}
           t == [i \in 1 .. Cardinality(us) |-> Pay(d, SetToSeq(us)[i], n)]
<1>1. IsFiniteSet(us) /\ \A u \in us : <<"users", u>> \in DOMAIN d
  BY IdsAreThere
<1>2. ASSUME NEW u \in us PROVE MayDo("pay", Noted(u)) /\ MayDo("pay", Paid(u))
  <2>1. d[<<"users", u>>].num \in Int
    BY <1>1 DEF Tidy, IsRow
  <2>2. IsRow(Row(None, u, None, None, n, None))
    BY DEF Row, IsRow
  <2>3. MayDo("pay", Noted(u))
    BY <2>2 DEF MayDo, Insert, Deleting, Deleters, TableNames, AddedBy
  <2>4. d[<<"users", u>>].num + n \in Int
    BY <2>1
  <2>5. MayDo("pay", Paid(u))
    BY <2>4 DEF MayDo, Save, Deleting, Deleters
  <2>6. QED
    BY <2>3, <2>5
<1>10. ASSUME NEW u \in us PROVE Pays(Noted(u), us) /\ Pays(Paid(u), us)
  BY DEF Pays, Insert, Save, Row
<1>3. ASSUME NEW u \in us PROVE Pay(d, u, n) \in Seq(S)
  <2>1. Noted(u) \in S /\ Paid(u) \in S
    OBVIOUS
  <2>2. Pay(d, u, n) = <<Noted(u), Paid(u)>>
    BY DEF Pay
  <2> HIDE DEF S, Noted, Paid
  <2>3. QED
    BY <2>1, <2>2
<1>4. Cardinality(us) \in Nat /\ \A i \in 1 .. Cardinality(us) : SetToSeq(us)[i] \in us
  <2>1. SetToSeq(us) \in Seq(us) /\ Len(SetToSeq(us)) = Cardinality(us)
    BY <1>1, SetToSeqIsSeq
  <2>2. QED
    BY <1>1, <2>1, ElementOfSeq, FS_CardinalityType
<1>5. \A s \in S : MayDo("pay", s) /\ Pays(s, us)
  <2> HIDE DEF Noted, Paid
  <2>1. QED
    BY <1>2, <1>10
<1> HIDE DEF S
<1>6. t \in Seq(Seq(S))
  <2>1. \A i \in 1 .. Cardinality(us) : Pay(d, SetToSeq(us)[i], n) \in Seq(S)
    BY <1>3, <1>4
  <2>2. QED
    BY <1>4, <2>1
<1> HIDE DEF t
<1>7. FlattenSeq(t) \in Seq(S)
  BY <1>6, FlattenIsSeq
<1>8. Planned("pay", FlattenSeq(t)) /\ \A s \in Range(FlattenSeq(t)) : Pays(s, us)
  BY <1>5, <1>7, PlannedBy, OnlyWhatItHas
<1>9. QED
  BY <1>8 DEF t

LEMMA RefundsArePlanned ==
  ASSUME NEW d, Tidy(d), NEW us, NEW ps
  PROVE  Planned("refund", Refunds(d, us, ps)) /\ \A s \in Range(Refunds(d, us, ps)) : Pays(s, {})
<1> DEFINE X == {k \in Having(d, "jobhistory", us, ps) : ~d[k].refunded /\ d[k].num # 0}
           jobs == SetToSeq(X)
           t == [i \in DOMAIN jobs |-> RefundJob(d, jobs[i])]
           S == {RefundJob(d, k) : k \in X}
<1>1. X \in SUBSET DOMAIN d
  BY DEF Having, Rows
<1>2. jobs \in Seq(X)
  <2> HIDE DEF X
  <2>1. QED
    BY <1>1, SomeRowsAreFinite, SetToSeqIsSeq
<1>3. ASSUME NEW k \in X PROVE MayDo("refund", RefundJob(d, k)) /\ Pays(RefundJob(d, k), {})
  <2>1. d[k].num \in Int /\ d[k].price \in Int /\ k[1] = "jobhistory"
    BY <1>1 DEF Tidy, IsRow, Having, Rows
  <2>2. PICK s : s = RefundJob(d, k)
    OBVIOUS
  <2>3. /\ s.op = "refund" /\ s.num = d[k].num /\ s.price = d[k].price /\ s.key = k
        /\ DOMAIN s = {"op", "key", "user", "printer", "code", "num", "price"}
    BY <2>2 DEF RefundJob
  <2>4. QED
    BY <2>1, <2>2, <2>3 DEF MayDo, Pays
<1>4. t \in Seq(S)
  <2> HIDE DEF jobs
  <2>1. DOMAIN jobs = 1 .. Len(jobs) /\ Len(jobs) \in Nat /\ \A i \in DOMAIN jobs : jobs[i] \in X
    BY <1>2
  <2>2. \A i \in 1 .. Len(jobs) : RefundJob(d, jobs[i]) \in S
    BY <2>1
  <2> HIDE DEF S, X
  <2>3. QED
    BY <2>1, <2>2
<1>5. Refunds(d, us, ps) = t
  BY DEF Refunds
<1>6. \A s \in S : MayDo("refund", s) /\ Pays(s, {})
  BY <1>3
<1> HIDE DEF S, t
<1>7. QED
  BY <1>4, <1>5, <1>6, PlannedBy, OnlyWhatItHas

(* The last job is a row of the history, or none.                          *)
LEMMA LastJobIsThere ==
  ASSUME NEW d, Tidy(d), NEW p, LastJob(d, p) # None
  PROVE  LastJob(d, p) \in DOMAIN d /\ LastJob(d, p)[1] = "jobhistory"
<1> DEFINE X == {x \in Rows(d, "jobhistory") : d[x].printer = p}
           jobs == {k[2] : k \in X}
<1>1. X \in SUBSET DOMAIN d
  BY DEF Rows
<1>2. jobs # {} /\ LastJob(d, p) = <<"jobhistory", Max(jobs)>>
  BY DEF LastJob
<1>3. IsFiniteSet(jobs) /\ jobs \subseteq Int
  <2> HIDE DEF X
  <2>1. IsFiniteSet(jobs) /\ jobs \subseteq Nat
    BY <1>1, SomeRowsAreFinite
  <2>2. QED
    BY <2>1
<1>4. Max(jobs) \in jobs
  <2> HIDE DEF jobs
  <2>1. QED
    BY <1>2, <1>3, MaxIsGreatest
<1>5. PICK k \in X : k[2] = Max(jobs)
  BY <1>4
<1>6. k \in DOMAIN d /\ k[1] = "jobhistory" /\ k \in TableNames \X Nat
  BY DEF Rows, Tidy
<1>7. k = <<"jobhistory", Max(jobs)>>
  BY <1>5, <1>6
<1>8. QED
  BY <1>2, <1>6, <1>7

(* A list of steps each of which may be done.                              *)
LEMMA SeqIsPlanned ==
  ASSUME NEW do, NEW S, \A s \in S : MayDo(do, s), NEW t \in Seq(S)
  PROVE  Planned(do, t) /\ \A s \in Range(t) : s \in S
BY PlannedBy, OnlyWhatItHas

(* A sequence and another have the elements of both.                       *)
LEMMA BothRanges ==
  ASSUME NEW t, NEW u, NEW S, t \in Seq(S), u \in Seq(S)
  PROVE  t \o u \in Seq(S) /\ Range(t \o u) = Range(t) \cup Range(u)
<1> DEFINE w == t \o u
<1>1. /\ w \in Seq(S) /\ Len(t) \in Nat /\ Len(u) \in Nat /\ Len(w) = Len(t) + Len(u)
      /\ \A i \in 1 .. Len(w) : w[i] = IF i <= Len(t) THEN t[i] ELSE u[i - Len(t)]
  BY ConcatProperties
<1>2. DOMAIN w = 1 .. Len(w) /\ DOMAIN t = 1 .. Len(t) /\ DOMAIN u = 1 .. Len(u)
  <2> HIDE DEF w
  <2>1. QED
    BY <1>1
<1> HIDE DEF w
<1>3. ASSUME NEW i \in DOMAIN w PROVE w[i] \in Range(t) \cup Range(u)
  <2>1. CASE i <= Len(t)
    <3>1. i \in DOMAIN t /\ w[i] = t[i]
      BY <1>1, <1>2, <2>1
    <3>2. QED
      BY <3>1 DEF Range
  <2>2. CASE ~(i <= Len(t))
    <3>1. i - Len(t) \in DOMAIN u /\ w[i] = u[i - Len(t)]
      BY <1>1, <1>2, <2>2
    <3>2. QED
      BY <3>1 DEF Range
  <2>3. QED
    BY <2>1, <2>2
<1>4. ASSUME NEW i \in DOMAIN t PROVE t[i] \in Range(w)
  <2>1. i \in DOMAIN w /\ w[i] = t[i]
    BY <1>1, <1>2
  <2>2. QED
    BY <2>1 DEF Range
<1>5. ASSUME NEW i \in DOMAIN u PROVE u[i] \in Range(w)
  <2>1. i + Len(t) \in DOMAIN w /\ w[i + Len(t)] = u[i]
    BY <1>1, <1>2
  <2>2. QED
    BY <2>1 DEF Range
<1>6. Range(w) = Range(t) \cup Range(u)
  <2>1. Range(w) \subseteq Range(t) \cup Range(u)
    BY <1>3 DEF Range
  <2>2. Range(t) \subseteq Range(w) /\ Range(u) \subseteq Range(w)
    BY <1>4, <1>5 DEF Range
  <2>3. QED
    BY <2>1, <2>2
<1>7. QED
  BY <1>1, <1>6 DEF w

(* The updates of a billing code are of rows that are there.               *)
CodeSteps(d, n) == {Increase(k, n) : k \in Rows(d, "billingcodes")}

LEMMA CodesHaveSteps ==
  ASSUME NEW d, Tidy(d), NEW s, NEW n
  PROVE  ForCode(d, s, n) \in Seq(CodeSteps(d, n))
<1> DEFINE I == CodesOf(d, s)
           f == [i \in I |-> Increase(<<"billingcodes", i>>, n)]
           S == {Increase(<<"billingcodes", id>>, n) : id \in I}
<1>1. IsFiniteSet(I) /\ \A i \in I : <<"billingcodes", i>> \in Rows(d, "billingcodes")
  BY IdsAreThere, FS_EmptySet DEF CodesOf, Rows
<1> HIDE DEF I
<1>2. DOMAIN f = I /\ S = {f[i] : i \in I}
  OBVIOUS
<1>3. IsFiniteSet(S)
  <2> HIDE DEF f, S
  <2>1. QED
    BY <1>1, <1>2, ImageIsFinite
<1>4. S \subseteq CodeSteps(d, n)
  BY <1>1 DEF CodeSteps
<1>5. ForCode(d, s, n) = SetToSeq(S)
  BY DEF ForCode, I
<1> HIDE DEF S
<1>6. SetToSeq(S) \in Seq(S)
  BY <1>3, SetToSeqIsSeq
<1>7. QED
  BY <1>4, <1>5, <1>6, SeqMonotonic

(* A job has nothing to do, or it charges one of its users: it takes back  *)
(* the count of denials of his entry q, pays, counts on q and on his other *)
(* entries; then it records what it printed and sees to its billing code.  *)
(* What it records as counted is what it counts on q.                      *)
AboveSteps(d, u, n) == {CountAbove(k, n) : k \in {x \in Rows(d, "userpquota") : d[x].user = u}}
ResetSteps(q, t) == t \in {<<>>, <<LeftAsItWas(q)>>}
MoneySteps(u, t) == t = <<>> \/ \E x \in Int : t = <<Increase(<<"users", u>>, x)>>
UsageSteps(d, u, q, n, t) ==
  \E m, above : /\ MoneySteps(u, m) /\ above \in Seq(AboveSteps(d, u, n))
               /\ t = m \o (<<Increase(q, n)>> \o above)
ChargeSteps(d, u, q, row, t) ==
  (t = <<>> /\ row.num = row.aside) \/ (UsageSteps(d, u, q, row.num, t) /\ row.aside = 0)
JobParts(p, d, us, t, u, q, row, l, reset, charge, code) ==
    /\ u \in us /\ q \in Rows(d, "userpquota") /\ d[q].user = u /\ row.user = u /\ row.printer = d[q].printer
    /\ IsRow(row) /\ ~row.refunded /\ row.job = p
    /\ l \in {None, Unread} \/ (l \in DOMAIN d /\ l[1] = "jobhistory")
    /\ ResetSteps(q, reset) /\ ChargeSteps(d, u, q, row, charge)
    /\ charge # <<>> => reset # <<>> /\ row.num # 0
    /\ code \in Seq(CodeSteps(d, row.num)) /\ (code = <<>> \/ code = ForCode(d, cmd[p], row.num))
    /\ t = reset \o (charge \o (<<Record(row, l)>> \o code))
JobSteps(p, d, us, t) ==
  \E u, q, row, l, reset, charge, code : JobParts(p, d, us, t, u, q, row, l, reset, charge, code)

LEMMA UsageHasSteps ==
  ASSUME NEW d, Tidy(d), NEW q \in Rows(d, "userpquota"), NEW n, NEW price \in Int
  PROVE  UsageSteps(d, d[q].user, q, n, IncreasePagesUsage(d, q, n, price))
<1> DEFINE u == d[q].user
           X == Having(d, "userpquota", {u}, ParentPrinters(d, d[q].printer))
           parents == SetToSeq(X)
           above == [i \in DOMAIN parents |-> CountAbove(parents[i], n)]
           m == IF price = 0 THEN <<>> ELSE <<Increase(<<"users", u>>, 0 - price)>>
<1>1. X \in SUBSET DOMAIN d
  BY DEF Having, Rows
<1>2. ASSUME NEW k \in X PROVE k \in Rows(d, "userpquota") /\ d[k].user = u
  <2> HIDE DEF u
  <2>1. k \in Rows(d, "userpquota") /\ Selects(In("user", {u}), k, d[k])
    BY DEF Having
  <2>2. QED
    BY <2>1 DEF Selects, In
<1>3. parents \in Seq(X)
  <2> HIDE DEF X
  <2>1. QED
    BY <1>1, SomeRowsAreFinite, SetToSeqIsSeq
<1>4. above \in Seq(AboveSteps(d, u, n))
  <2>1. \A k \in X : CountAbove(k, n) \in AboveSteps(d, u, n)
    BY <1>2 DEF AboveSteps
  <2> HIDE DEF X, u, parents
  <2>2. DOMAIN parents = 1 .. Len(parents) /\ Len(parents) \in Nat /\ \A i \in DOMAIN parents : parents[i] \in X
    BY <1>3
  <2>3. QED
    BY <2>1, <2>2
<1>5. MoneySteps(u, m)
  <2> HIDE DEF u
  <2>1. QED
    BY DEF MoneySteps
<1>6. IncreasePagesUsage(d, q, n, price) = (m \o <<Increase(q, n)>>) \o above
  BY DEF IncreasePagesUsage
<1>7. m \in Seq({Increase(<<"users", u>>, 0 - price)}) 
  OBVIOUS
<1> HIDE DEF m, above, u
<1>8. (m \o <<Increase(q, n)>>) \o above = m \o (<<Increase(q, n)>> \o above)
  <2> DEFINE S == {Increase(<<"users", u>>, 0 - price), Increase(q, n)} \cup AboveSteps(d, u, n)
  <2>1. m \in Seq(S) /\ <<Increase(q, n)>> \in Seq(S) /\ above \in Seq(S)
    <3>1. {Increase(<<"users", u>>, 0 - price)} \subseteq S /\ Increase(q, n) \in S /\ AboveSteps(d, u, n) \subseteq S
      OBVIOUS
    <3> HIDE DEF S
    <3>2. QED
      BY <1>4, <1>7, <3>1, SeqMonotonic
  <2> HIDE DEF S
  <2>2. QED
    BY <2>1, ConcatAssociative
<1>9. QED
  BY <1>4, <1>5, <1>6, <1>8 DEF u, UsageSteps

(* All the steps of a job, whichever part they belong to.                  *)
JobStepSet(d, u, q, row, l) ==
  {LeftAsItWas(q), Increase(q, row.num), Record(row, l)} \cup AboveSteps(d, u, row.num) \cup CodeSteps(d, row.num)
  \cup {Increase(<<"users", u>>, x) : x \in Int}

LEMMA JobPartsAreSeqs ==
  ASSUME NEW d, NEW u, NEW q, NEW row, NEW l, NEW reset, NEW charge, NEW code,
         ResetSteps(q, reset), ChargeSteps(d, u, q, row, charge), code \in Seq(CodeSteps(d, row.num))
  PROVE  \E S : /\ S = JobStepSet(d, u, q, row, l)
                /\ reset \in Seq(S) /\ charge \in Seq(S) /\ <<Record(row, l)>> \in Seq(S) /\ code \in Seq(S)
<1> DEFINE S == JobStepSet(d, u, q, row, l)
<1>1. /\ LeftAsItWas(q) \in S /\ Increase(q, row.num) \in S /\ Record(row, l) \in S
      /\ AboveSteps(d, u, row.num) \subseteq S /\ CodeSteps(d, row.num) \subseteq S
      /\ \A x \in Int : Increase(<<"users", u>>, x) \in S
  BY DEF JobStepSet
<1> HIDE DEF S
<1>2. reset \in Seq(S)
  <2>1. <<LeftAsItWas(q)>> \in Seq(S) /\ <<>> \in Seq(S)
    BY <1>1
  <2>2. QED
    BY <2>1 DEF ResetSteps
<1>3. charge \in Seq(S)
  <2>1. CASE charge = <<>>
    BY <2>1
  <2>2. CASE charge # <<>>
    <3>1. PICK m, above : /\ MoneySteps(u, m) /\ above \in Seq(AboveSteps(d, u, row.num))
                          /\ charge = m \o (<<Increase(q, row.num)>> \o above)
      BY <2>2 DEF ChargeSteps, UsageSteps
    <3>2. m \in Seq(S)
      <4>1. \A x \in Int : <<Increase(<<"users", u>>, x)>> \in Seq(S)
        BY <1>1
      <4>2. <<>> \in Seq(S)
        OBVIOUS
      <4>3. QED
        BY <3>1, <4>1, <4>2 DEF MoneySteps
    <3>3. <<Increase(q, row.num)>> \in Seq(S) /\ above \in Seq(S)
      BY <1>1, <3>1, SeqMonotonic
    <3>4. QED
      BY <3>1, <3>2, <3>3, ConcatProperties
  <2>3. QED
    BY <2>1, <2>2
<1>4. <<Record(row, l)>> \in Seq(S) /\ code \in Seq(S)
  BY <1>1, SeqMonotonic
<1>5. QED
  BY <1>2, <1>3, <1>4 DEF S

LEMMA JobHasSteps ==
  ASSUME NEW d, Tidy(d), NEW us, NEW ps, NEW p, IsCommand(cmd[p])
  PROVE  PrintJob(d, p, us, ps) = <<>> \/ JobSteps(p, d, us, PrintJob(d, p, us, ps))
<1> DEFINE c == cmd[p]
           X == Having(d, "userpquota", us, ps)
           entries == SetToSeq(X)
           q == entries[1]
           u == d[q].user
           pr == d[q].printer
           denied == c.denied \/ NoSuchCode(d, c)
           n == IF denied THEN 0 ELSE c.n
           price == IF denied \/ ~c.counted THEN 0 ELSE c.price
           row == JobRow(c.code, u, pr, n, price, IF c.counted THEN 0 ELSE n, p)
           l == IF conf.early THEN LastJob(d, pr) ELSE Unread
           reset == IF denied THEN <<>> ELSE <<LeftAsItWas(q)>>
           charge == IF c.counted /\ n # 0 THEN IncreasePagesUsage(d, q, n, price) ELSE <<>>
           code == IF n = 0 THEN <<>> ELSE ForCode(d, c, n)
           t == PrintJob(d, p, us, ps)
<1>1. CASE entries = <<>>
  BY <1>1 DEF PrintJob
<1>2. CASE entries # <<>>
  <2>1. X \in SUBSET DOMAIN d
    BY DEF Having, Rows
  <2>2. entries \in Seq(X)
    <3> HIDE DEF X
    <3>1. QED
      BY <2>1, SomeRowsAreFinite, SetToSeqIsSeq
  <2>3. q \in X
    <3> HIDE DEF X, entries
    <3>1. QED
      BY <1>2, <2>2
  <2>4. q \in Rows(d, "userpquota") /\ Selects(In("user", us), q, d[q])
        /\ u = d[q].user /\ pr = d[q].printer
    <3> HIDE DEF q
    <3>1. QED
      BY <2>3 DEF Having
  <2>5. u \in us
    <3>1. PICK w \in In("user", us) : \A f \in DOMAIN w : (IF f = "id" THEN q[2] ELSE d[q][f]) = w[f]
      BY <2>4 DEF Selects
    <3>2. PICK i \in us : w = [f \in {"user"} |-> i]
      BY DEF In
    <3>3. d[q]["user"] = i
      <4> HIDE DEF q
      <4>1. QED
        BY <3>1, <3>2
    <3>4. QED
      BY <3>3
  <2>6. l \in {None, Unread} \/ (l \in DOMAIN d /\ l[1] = "jobhistory")
    <3> HIDE DEF pr
    <3>1. QED
      BY LastJobIsThere
  <2>7. t = ((reset \o charge) \o <<Record(row, l)>>) \o code
    BY <1>2 DEF PrintJob
  <2>8. c.n \in Int /\ c.price \in Int
    BY DEF IsCommand
  <2>9. n \in Int /\ price \in Int
    BY <2>8
  <2>10. row.user = u /\ row.printer = pr /\ IsRow(row) /\ ~row.refunded /\ row.job = p /\ row.num = n
         /\ row.aside = IF c.counted THEN 0 ELSE n
    <3> HIDE DEF n, price, u, pr
    <3>1. QED
      BY <2>9 DEF JobRow, Row, IsRow
  <2>11. ResetSteps(q, reset)
    <3> HIDE DEF q, denied
    <3>1. QED
      BY DEF ResetSteps
  <2>12. ChargeSteps(d, u, q, row, charge)
    <3>1. CASE c.counted /\ n # 0
      <4>1. charge = IncreasePagesUsage(d, q, n, price) /\ row.num = n /\ row.aside = 0
        BY <2>10, <3>1
      <4> HIDE DEF n, price, row, charge, q
      <4>2. UsageSteps(d, d[q].user, q, n, IncreasePagesUsage(d, q, n, price))
        BY <2>4, <2>9, UsageHasSteps
      <4>3. u = d[q].user
        BY <2>4
      <4>4. QED
        BY <4>1, <4>2, <4>3 DEF ChargeSteps
    <3>2. CASE ~(c.counted /\ n # 0)
      <4>1. charge = <<>> /\ row.num = row.aside
        <5> HIDE DEF n, row
        <5>1. QED
          BY <2>10, <3>2
      <4> HIDE DEF row, charge, q, u
      <4>2. QED
        BY <4>1 DEF ChargeSteps
    <3>3. QED
      BY <3>1, <3>2
  <2>13. code \in Seq(CodeSteps(d, row.num))
    <3>1. row.num = n
      BY <2>10
    <3> HIDE DEF n, row
    <3>2. ForCode(d, c, n) \in Seq(CodeSteps(d, n))
      BY CodesHaveSteps
    <3>3. QED
      BY <3>1, <3>2
  <2>13a. code = <<>> \/ code = ForCode(d, cmd[p], row.num)
    <3>1. row.num = n
      BY <2>10
    <3> HIDE DEF n, row
    <3>2. QED
      BY <3>1
  <2>13b. charge # <<>> => reset # <<>> /\ row.num # 0
    <3>1. charge # <<>> => n # 0
      <4> HIDE DEF n, q, price
      <4>1. QED
        OBVIOUS
    <3>2. n # 0 => ~denied
      OBVIOUS
    <3>3. ~denied => reset # <<>>
      <4> HIDE DEF denied, q
      <4>1. QED
        OBVIOUS
    <3>4. row.num = n
      BY <2>10
    <3> HIDE DEF n, row, reset, charge, denied
    <3>5. QED
      BY <3>1, <3>2, <3>3, <3>4
  <2> HIDE DEF q, u, pr, l, t, row, reset, charge, code
  <2>14. \E S : reset \in Seq(S) /\ charge \in Seq(S) /\ <<Record(row, l)>> \in Seq(S) /\ code \in Seq(S)
    BY <2>11, <2>12, <2>13, JobPartsAreSeqs
  <2>15. t = reset \o (charge \o (<<Record(row, l)>> \o code))
    <3>1. PICK S : reset \in Seq(S) /\ charge \in Seq(S) /\ <<Record(row, l)>> \in Seq(S) /\ code \in Seq(S)
      BY <2>14
    <3>2. charge \o <<Record(row, l)>> \in Seq(S) /\ reset \o charge \in Seq(S)
      BY <3>1, ConcatProperties
    <3>3. (reset \o charge) \o <<Record(row, l)>> = reset \o (charge \o <<Record(row, l)>>)
      BY <3>1, ConcatAssociative
    <3>4. ((reset \o charge) \o <<Record(row, l)>>) \o code = reset \o ((charge \o <<Record(row, l)>>) \o code)
      BY <3>1, <3>2, <3>3, ConcatAssociative
    <3>5. (charge \o <<Record(row, l)>>) \o code = charge \o (<<Record(row, l)>> \o code)
      BY <3>1, ConcatAssociative
    <3>6. QED
      BY <2>7, <3>4, <3>5
  <2>16. JobSteps(p, d, us, t)
    BY <2>4, <2>5, <2>6, <2>10, <2>11, <2>12, <2>13, <2>13a, <2>13b, <2>15 DEF JobSteps, JobParts
  <2>17. QED
    BY <2>16 DEF t
<1>3. QED
  BY <1>1, <1>2

LEMMA JobIsPlanned ==
  ASSUME NEW d, Tidy(d), NEW p, NEW us, NEW t, t = <<>> \/ JobSteps(p, d, us, t)
  PROVE  Planned("job", t)
<1>1. CASE t = <<>>
  BY <1>1, NothingPlanned
<1>2. CASE JobSteps(p, d, us, t)
  <2>1. PICK u, q, row, l, reset, charge, code : JobParts(p, d, us, t, u, q, row, l, reset, charge, code)
    BY <1>2 DEF JobSteps
  <2>2. PICK S : /\ S = JobStepSet(d, u, q, row, l)
                 /\ reset \in Seq(S) /\ charge \in Seq(S) /\ <<Record(row, l)>> \in Seq(S) /\ code \in Seq(S)
    BY <2>1, JobPartsAreSeqs DEF JobParts
  <2>3. row.num \in Int /\ q[1] = "userpquota"
    BY <2>1 DEF JobParts, IsRow, Rows
  <2>4. ASSUME NEW s \in S PROVE MayDo("job", s)
    <3>1. MayDo("job", LeftAsItWas(q)) /\ MayDo("job", Increase(q, row.num))
      BY <2>3 DEF MayDo, LeftAsItWas, Increase, Deleting, Deleters
    <3>2. MayDo("job", Record(row, l))
      BY <2>1 DEF JobParts, MayDo, Record
    <3>3. s \in AboveSteps(d, u, row.num) \cup CodeSteps(d, row.num) => MayDo("job", s)
      BY <2>3 DEF AboveSteps, CodeSteps, Rows, MayDo, CountAbove, Increase, Deleting, Deleters
    <3>4. \A x \in Int : MayDo("job", Increase(<<"users", u>>, x))
      BY DEF MayDo, Increase, Deleting, Deleters
    <3>5. QED
      BY <2>2, <3>1, <3>2, <3>3, <3>4 DEF JobStepSet
  <2>5. t \in Seq(S)
    BY <2>1, <2>2, ConcatProperties DEF JobParts
  <2>6. QED
    BY <2>4, <2>5, PlannedBy
<1>3. QED
  BY <1>1, <1>2

LEMMA ListsArePlanned ==
  ASSUME NEW do, NEW a, MayDo(do, a), NEW b, MayDo(do, b), NEW c, MayDo(do, c),
         NEW d, MayDo(do, d), NEW e, MayDo(do, e)
  PROVE  Planned(do, <<a>>) /\ Planned(do, <<a, b>>) /\ Planned(do, <<a, b, c>>)
         /\ Planned(do, <<a, b, c, d>>) /\ Planned(do, <<a, b, c, d, e>>)
<1> DEFINE S == {a, b, c, d, e}
<1>1. a \in S /\ b \in S /\ c \in S /\ d \in S /\ e \in S /\ \A s \in S : MayDo(do, s)
  OBVIOUS
<1> HIDE DEF S
<1>2. <<a>> \in Seq(S) /\ <<a, b>> \in Seq(S) /\ <<a, b, c>> \in Seq(S)
      /\ <<a, b, c, d>> \in Seq(S) /\ <<a, b, c, d, e>> \in Seq(S)
  BY <1>1
<1>3. QED
  BY <1>1, <1>2, PlannedBy

LEMMA MayDelete ==
  ASSUME NEW do \in Deleting, NEW x \in TableNames, NEW w,
         x = "users" => do = "delusers", do \notin Deleters => x \in Members, x \in Counted => do \in Takers
  PROVE  MayDo(do, Delete(x, w))
BY DEF MayDo, Delete

LEMMA DeletionsArePlanned ==
  ASSUME NEW a, NEW b
  PROVE  /\ Planned("delusers", DeleteUsers(a))
         /\ Planned("delprinters", DeletePrinters(a))
         /\ Planned("delgroups", DeleteGroups(a))
         /\ Planned("delquotas", DeleteUserPQuotas(a, b))
         /\ Planned("delgquotas", DeleteGroupPQuotas(a, b))
         /\ Planned("delcodes", DeleteBillingCodes(a))
         /\ Planned("quit", DelUsersFromGroups(a, b))
         /\ Planned("leave", RemovePrintersFromGroups(a, b))
<1>1. Planned("delusers", DeleteUsers(a))
  <2>1. \A w : /\ MayDo("delusers", Delete("payments", w)) /\ MayDo("delusers", Delete("groupsmembers", w))
               /\ MayDo("delusers", Delete("jobhistory", w)) /\ MayDo("delusers", Delete("userpquota", w))
               /\ MayDo("delusers", Delete("users", w))
    BY MayDelete DEF Deleting, Deleters, Members, TableNames, Counted, Takers
  <2>2. QED
    BY <2>1, ListsArePlanned DEF DeleteUsers
<1>2. Planned("delprinters", DeletePrinters(a))
  <2>1. \A w : /\ MayDo("delprinters", Delete("printergroupsmembers", w)) /\ MayDo("delprinters", Delete("jobhistory", w))
               /\ MayDo("delprinters", Delete("grouppquota", w)) /\ MayDo("delprinters", Delete("userpquota", w))
               /\ MayDo("delprinters", Delete("printers", w))
    BY MayDelete DEF Deleting, Deleters, Members, TableNames, Counted, Takers
  <2>2. QED
    BY <2>1, ListsArePlanned DEF DeletePrinters
<1>3. Planned("delgroups", DeleteGroups(a))
  <2>1. \A w : /\ MayDo("delgroups", Delete("groupsmembers", w)) /\ MayDo("delgroups", Delete("grouppquota", w))
               /\ MayDo("delgroups", Delete("groups", w))
    BY MayDelete DEF Deleting, Deleters, Members, TableNames, Counted, Takers
  <2>2. QED
    BY <2>1, ListsArePlanned DEF DeleteGroups
<1>4. Planned("delquotas", DeleteUserPQuotas(a, b))
  <2>1. \A w : MayDo("delquotas", Delete("jobhistory", w)) /\ MayDo("delquotas", Delete("userpquota", w))
    BY MayDelete DEF Deleting, Deleters, Members, TableNames, Counted, Takers
  <2>2. PICK w : DeleteUserPQuotas(a, b) = <<Delete("jobhistory", w), Delete("userpquota", w)>>
    BY DEF DeleteUserPQuotas
  <2>3. QED
    BY <2>1, <2>2, ListsArePlanned
<1>5. /\ Planned("delgquotas", DeleteGroupPQuotas(a, b)) /\ Planned("delcodes", DeleteBillingCodes(a))
      /\ Planned("quit", DelUsersFromGroups(a, b)) /\ Planned("leave", RemovePrintersFromGroups(a, b))
  <2>1. \A w : /\ MayDo("delgquotas", Delete("grouppquota", w)) /\ MayDo("delcodes", Delete("billingcodes", w))
               /\ MayDo("quit", Delete("groupsmembers", w)) /\ MayDo("leave", Delete("printergroupsmembers", w))
    BY MayDelete DEF Deleting, Deleters, Members, TableNames, Counted, Takers
  <2>2. PICK w : DeleteGroupPQuotas(a, b) = <<Delete("grouppquota", w)>>
    BY DEF DeleteGroupPQuotas
  <2>3. PICK x : DeleteBillingCodes(a) = <<Delete("billingcodes", x)>>
    BY DEF DeleteBillingCodes
  <2>4. PICK y : DelUsersFromGroups(a, b) = <<Delete("groupsmembers", y)>>
    BY DEF DelUsersFromGroups
  <2>5. PICK z : RemovePrintersFromGroups(a, b) = <<Delete("printergroupsmembers", z)>>
    BY DEF RemovePrintersFromGroups
  <2>6. /\ Planned("delgquotas", <<Delete("grouppquota", w)>>) /\ Planned("delcodes", <<Delete("billingcodes", x)>>)
        /\ Planned("quit", <<Delete("groupsmembers", y)>>) /\ Planned("leave", <<Delete("printergroupsmembers", z)>>)
    BY <2>1, ListsArePlanned
  <2>7. QED
    BY <2>2, <2>3, <2>4, <2>5, <2>6
<1>6. QED
  BY <1>1, <1>2, <1>3, <1>4, <1>5

LEMMA DumpIsPlanned == Planned("dump", Dump)
<1> DEFINE S == {Extract(DataTypes[i]) : i \in DOMAIN DataTypes}
<1>1. DOMAIN DataTypes = 1 .. 10
  BY DEF DataTypes
<1>2. Dump \in Seq(S)
  BY <1>1 DEF Dump
<1>3. \A s \in S : MayDo("dump", s)
  BY DEF MayDo, Extract
<1>4. QED
  BY <1>2, <1>3, PlannedBy

Commands ==
  {"job", "refund", "pay", "adduser", "addprinter", "addgroup", "addcode", "addquota", "addgquota", "enter",
   "quit", "join", "leave", "delusers", "delprinters", "delgroups", "delquotas", "delgquotas", "delcodes", "dump"}

(* Whatever a process is, it starts with steps that it may do.             *)
LEMMA ScriptIsPlanned ==
  ASSUME NEW p \in Procs, IsCommand(cmd[p]), NEW d, Tidy(d)
  PROVE  Planned(cmd[p].do, Script(p, d))
<1> DEFINE c == cmd[p]
           us == Ids(d, "users", c.users)
           ps == Ids(d, "printers", c.printers)
           gs == Ids(d, "groups", c.groups)
           pgs == Ids(d, "printers", c.groups)
<1>1. /\ IsFiniteSet(c.users) /\ IsFiniteSet(c.printers) /\ IsFiniteSet(c.groups) /\ c.n \in Int
      /\ IsFiniteSet(us) /\ IsFiniteSet(ps) /\ IsFiniteSet(gs) /\ IsFiniteSet(pgs)
  BY IdsAreThere DEF IsCommand
<1>2. CASE c.do \notin Commands
  BY <1>2, NothingPlanned DEF Script, Commands
<1>3. CASE c.do = "job"
  <2>1. Script(p, d) = PrintJob(d, p, us, ps)
    BY <1>3 DEF Script
  <2> HIDE DEF us, ps
  <2>2. QED
    BY <1>1, <1>3, <2>1, JobHasSteps, JobIsPlanned
<1>4. CASE c.do = "refund"
  <2>1. Script(p, d) = Refunds(d, us, ps)
    BY <1>4 DEF Script
  <2> HIDE DEF us, ps
  <2>2. QED
    BY <1>4, <2>1, RefundsArePlanned
<1>5. CASE c.do = "pay"
  <2>1. Script(p, d) = FlattenSeq([i \in 1 .. Cardinality(us) |-> Pay(d, SetToSeq(us)[i], c.n)])
    BY <1>5 DEF Script
  <2>2. us = Ids(d, "users", c.users)
    OBVIOUS
  <2> HIDE DEF us
  <2>3. Planned("pay", FlattenSeq([i \in 1 .. Cardinality(us) |-> Pay(d, SetToSeq(us)[i], c.n)]))
    BY <1>1, <2>2, PayIsPlanned
  <2>4. QED
    BY <1>5, <2>1, <2>3
<1>6. CASE c.do = "adduser"
  <2> DEFINE R == {NamedRow(x, c.n) : x \in c.users}
  <2>1. Script(p, d) = Missing(d, "users", R)
    BY <1>6 DEF Script, AddUsers
  <2>2. IsFiniteSet(R) /\ \A r \in R : IsRow(r)
    BY <1>1, NamedRowsAreRows
  <2> HIDE DEF R
  <2>3. "users" \in TableNames /\ "adduser" \notin Deleting /\ AddedBy("adduser", "users")
    BY DEF TableNames, Deleting, Deleters, AddedBy
  <2>4. Planned("adduser", Missing(d, "users", R))
    BY <2>2, <2>3, MissingIsPlanned
  <2>5. QED
    BY <1>6, <2>1, <2>4
<1>7. CASE c.do = "addprinter"
  <2> DEFINE R == {NamedRow(x, 0) : x \in c.printers}
  <2>1. Script(p, d) = Missing(d, "printers", R)
    BY <1>7 DEF Script, AddPrinters
  <2>2. IsFiniteSet(R) /\ \A r \in R : IsRow(r)
    BY <1>1, NamedRowsAreRows
  <2> HIDE DEF R
  <2>3. "printers" \in TableNames /\ "addprinter" \notin Deleting /\ AddedBy("addprinter", "printers")
    BY DEF TableNames, Deleting, Deleters, AddedBy
  <2>4. Planned("addprinter", Missing(d, "printers", R))
    BY <2>2, <2>3, MissingIsPlanned
  <2>5. QED
    BY <1>7, <2>1, <2>4
<1>8. CASE c.do = "addgroup"
  <2> DEFINE R == {NamedRow(x, 0) : x \in c.groups}
  <2>6. IsFiniteSet(c.groups)
    BY <1>1
  <2>1. Script(p, d) = Missing(d, "groups", R)
    BY <1>8 DEF Script, AddGroups
  <2>2. IsFiniteSet(R) /\ \A r \in R : IsRow(r)
    BY <2>6, NamedRowsAreRows
  <2> HIDE DEF R
  <2>3. "groups" \in TableNames /\ "addgroup" \notin Deleting /\ AddedBy("addgroup", "groups")
    BY DEF TableNames, Deleting, Deleters, AddedBy
  <2>4. Planned("addgroup", Missing(d, "groups", R))
    BY <2>2, <2>3, MissingIsPlanned
  <2>5. QED
    BY <1>8, <2>1, <2>4
<1>9. CASE c.do = "addcode"
  <2> DEFINE R == {NamedRow(x, 0) : x \in c.groups}
  <2>6. IsFiniteSet(c.groups)
    BY <1>1
  <2>1. Script(p, d) = Missing(d, "billingcodes", R)
    BY <1>9 DEF Script, AddBillingCodes
  <2>2. IsFiniteSet(R) /\ \A r \in R : IsRow(r)
    BY <2>6, NamedRowsAreRows
  <2> HIDE DEF R
  <2>3. "billingcodes" \in TableNames /\ "addcode" \notin Deleting /\ AddedBy("addcode", "billingcodes")
    BY DEF TableNames, Deleting, Deleters, AddedBy
  <2>4. Planned("addcode", Missing(d, "billingcodes", R))
    BY <2>2, <2>3, MissingIsPlanned
  <2>5. QED
    BY <1>9, <2>1, <2>4
<1>10. CASE c.do = "addquota"
  <2> DEFINE R == QuotaRows(us, ps)
  <2>1. Script(p, d) = Missing(d, "userpquota", R)
    BY <1>10 DEF Script, AddUserPQuotas, QuotaRows
  <2> HIDE DEF us, ps
  <2>2. IsFiniteSet(R) /\ \A r \in R : IsRow(r) /\ r.num = 0
    BY <1>1, PairRowsAreRows
  <2> HIDE DEF R
  <2>3. "userpquota" \in TableNames /\ "addquota" \notin Deleting /\ AddedBy("addquota", "userpquota")
    BY DEF TableNames, Deleting, Deleters, AddedBy
  <2>4. Planned("addquota", Missing(d, "userpquota", R))
    BY <2>2, <2>3, MissingIsPlanned
  <2>5. QED
    BY <1>10, <2>1, <2>4
<1>11. CASE c.do = "addgquota"
  <2> DEFINE R == GroupRows(ps, gs)
  <2>1. Script(p, d) = Missing(d, "grouppquota", R)
    BY <1>11 DEF Script, AddGroupPQuotas, GroupRows
  <2> HIDE DEF gs, ps
  <2>2. IsFiniteSet(R) /\ \A r \in R : IsRow(r)
    BY <1>1, PairRowsAreRows
  <2> HIDE DEF R
  <2>3. "grouppquota" \in TableNames /\ "addgquota" \notin Deleting /\ AddedBy("addgquota", "grouppquota")
    BY DEF TableNames, Deleting, Deleters, AddedBy
  <2>4. Planned("addgquota", Missing(d, "grouppquota", R))
    BY <2>2, <2>3, MissingIsPlanned
  <2>5. QED
    BY <1>11, <2>1, <2>4
<1>12. CASE c.do = "enter"
  <2> DEFINE R == MemberRows(us, gs)
  <2>1. Script(p, d) = Missing(d, "groupsmembers", R)
    BY <1>12 DEF Script, AddUsersToGroups, MemberRows
  <2> HIDE DEF us, gs
  <2>2. IsFiniteSet(R) /\ \A r \in R : IsRow(r)
    BY <1>1, PairRowsAreRows
  <2> HIDE DEF R
  <2>3. "groupsmembers" \in TableNames /\ "enter" \notin Deleting /\ AddedBy("enter", "groupsmembers")
    BY DEF TableNames, Deleting, Deleters, AddedBy
  <2>4. Planned("enter", Missing(d, "groupsmembers", R))
    BY <2>2, <2>3, MissingIsPlanned
  <2>5. QED
    BY <1>12, <2>1, <2>4
<1>13. CASE c.do = "join"
  <2> DEFINE R == GroupRows(ps, pgs)
  <2>1. Script(p, d) = Missing(d, "printergroupsmembers", R)
    BY <1>13 DEF Script, WritePrintersToGroups, GroupRows
  <2> HIDE DEF ps, pgs
  <2>2. IsFiniteSet(R) /\ \A r \in R : IsRow(r)
    BY <1>1, PairRowsAreRows
  <2> HIDE DEF R
  <2>3. "printergroupsmembers" \in TableNames /\ "join" \notin Deleting /\ AddedBy("join", "printergroupsmembers")
    BY DEF TableNames, Deleting, Deleters, AddedBy
  <2>4. Planned("join", Missing(d, "printergroupsmembers", R))
    BY <2>2, <2>3, MissingIsPlanned
  <2>5. QED
    BY <1>13, <2>1, <2>4
<1>14. CASE c.do \in Deleting
  <2> HIDE DEF us, ps, gs
  <2>1. \/ c.do = "quit" /\ Script(p, d) = DelUsersFromGroups(us, gs)
        \/ c.do = "leave" /\ Script(p, d) = RemovePrintersFromGroups(ps, pgs)
        \/ c.do = "delusers" /\ Script(p, d) = DeleteUsers(us)
        \/ c.do = "delprinters" /\ Script(p, d) = DeletePrinters(ps)
        \/ c.do = "delgroups" /\ Script(p, d) = DeleteGroups(gs)
        \/ c.do = "delquotas" /\ Script(p, d) = DeleteUserPQuotas(us, ps)
        \/ c.do = "delgquotas" /\ Script(p, d) = DeleteGroupPQuotas(gs, ps)
        \/ c.do = "delcodes" /\ Script(p, d) = DeleteBillingCodes(Ids(d, "billingcodes", c.groups))
    BY <1>14 DEF Script, Deleting, Deleters, us, ps, gs
  <2>2. QED
    BY <2>1, DeletionsArePlanned
<1>15. CASE c.do = "dump"
  BY <1>15, DumpIsPlanned DEF Script
<1>16. QED
  BY <1>2, <1>3, <1>4, <1>5, <1>6, <1>7, <1>8, <1>9, <1>10, <1>11, <1>12, <1>13, <1>14, <1>15
     DEF Commands, Deleting, Deleters

-----------------------------------------------------------------------------
(* Types: rows and keys are what they should be, no process both writes    *)
(* and deletes rows, one that is not at work has written nothing, and what *)
(* is left to do is what the process may do.                               *)

IsKey(k) == k \in TableNames \X Nat /\ k[2] \in 1 .. seq[k[1]]

ProcOK(p) ==
  /\ DOMAIN proc[p] = Fields
  /\ proc[p].state \in {"ready", "running", "done", "failed"}
  /\ IsFiniteSet(DOMAIN proc[p].own)
  /\ \A k \in DOMAIN proc[p].own : IsKey(k) /\ IsRow(proc[p].own[k])
  /\ \A k \in proc[p].gone : /\ IsKey(k)
                             /\ k[1] = "users" => cmd[p].do = "delusers"
                             /\ cmd[p].do \notin Deleters => k[1] \in Members
                             /\ k[1] \in Counted => cmd[p].do \in Takers
  /\ IF cmd[p].do \in Deleting THEN DOMAIN proc[p].own = {} ELSE proc[p].gone = {}
  /\ proc[p].state # "running" => DOMAIN proc[p].own = {} /\ proc[p].gone = {} /\ proc[p].shared = {}
  /\ Planned(cmd[p].do, proc[p].todo)

TypeInv ==
  /\ conf \in ConfType
  /\ DOMAIN proc = Procs /\ DOMAIN beside = Procs
  /\ \A p \in Procs : IsCommand(cmd[p])
  /\ seq \in [TableNames -> Nat]
  /\ IsFiniteSet(DOMAIN db) /\ \A k \in DOMAIN db : IsKey(k) /\ IsRow(db[k])
  /\ \A p \in Procs : ProcOK(p)

LEMMA TypeImpliesTypeOK == ASSUME TypeInv PROVE TypeOK
<1>1. ASSUME NEW k \in DOMAIN db PROVE k[1] \in TableNames /\ k[2] \in 1 .. seq[k[1]] /\ db[k].num \in Int
  BY DEF TypeInv, IsKey, IsRow
<1>2. ASSUME NEW p \in Procs
      PROVE  /\ proc[p].state \in {"ready", "running", "done", "failed"}
             /\ proc[p].state # "running" => Written(p) = {} /\ proc[p].shared = {}
             /\ DOMAIN proc[p].own \cap proc[p].gone = {}
  <2>1. ProcOK(p)
    BY DEF TypeInv
  <2>2. DOMAIN proc[p].own = {} \/ proc[p].gone = {}
    BY <2>1 DEF ProcOK
  <2>3. proc[p].state # "running" => DOMAIN proc[p].own = {} /\ proc[p].gone = {} /\ proc[p].shared = {}
    BY <2>1 DEF ProcOK
  <2>4. proc[p].state \in {"ready", "running", "done", "failed"}
    BY <2>1 DEF ProcOK
  <2>5. QED
    BY <2>2, <2>3, <2>4 DEF Written
<1>3. QED
  BY <1>1, <1>2 DEF TypeOK, TypeInv

(* What a process sees: its own rows and, of the others, those it has not  *)
(* deleted.                                                                *)
LEMMA ViewIs ==
  ASSUME NEW p
  PROVE  /\ DOMAIN View(p) = DOMAIN proc[p].own \cup (DOMAIN db \ proc[p].gone)
         /\ \A k \in DOMAIN View(p) :
              View(p)[k] = IF k \in DOMAIN proc[p].own THEN proc[p].own[k] ELSE db[k]
BY DEF View, Over, Restrict

LEMMA DbIsTidy == ASSUME TypeInv PROVE Tidy(db)
BY DEF TypeInv, Tidy, IsKey

LEMMA ViewIsTidy ==
  ASSUME TypeInv, NEW p \in Procs
  PROVE  Tidy(View(p)) /\ \A k \in DOMAIN View(p) : IsKey(k) /\ IsRow(View(p)[k])
<1> DEFINE own == proc[p].own
<1>1. /\ IsFiniteSet(DOMAIN db) /\ \A k \in DOMAIN db : IsKey(k) /\ IsRow(db[k])
      /\ IsFiniteSet(DOMAIN own) /\ \A k \in DOMAIN own : IsKey(k) /\ IsRow(own[k])
  BY DEF TypeInv, ProcOK
<1>2. IsFiniteSet(DOMAIN db \ proc[p].gone)
  BY <1>1, FS_Subset
<1>3. IsFiniteSet(DOMAIN View(p))
  <2>1. IsFiniteSet(DOMAIN own \cup (DOMAIN db \ proc[p].gone))
    BY <1>1, <1>2, FS_Union
  <2>2. QED
    BY <2>1, ViewIs
<1>4. \A k \in DOMAIN View(p) : IsKey(k) /\ IsRow(View(p)[k])
  BY <1>1, ViewIs
<1>5. QED
  BY <1>3, <1>4 DEF Tidy, IsKey

LEMMA OnlyOneBecomes ==
  ASSUME NEW p \in Procs, DOMAIN proc = Procs, NEW r, Becomes(p, r)
  PROVE  /\ proc'[p] = r /\ DOMAIN proc' = Procs
         /\ \A q \in Procs : q # p => proc'[q] = proc[q]
BY DEF Becomes

LEMMA StepMayBeDone ==
  ASSUME TypeInv, NEW p \in Procs, proc[p].todo # <<>>
  PROVE  /\ MayDo(cmd[p].do, Step(p)) /\ Step(p) \in Range(proc[p].todo)
         /\ Planned(cmd[p].do, Tail(proc[p].todo))
BY HeadIsPlanned, TailIsPlanned DEF TypeInv, ProcOK, Step

(* A process that another's step leaves alone.                             *)
LEMMA OthersAreKept ==
  ASSUME NEW q \in Procs, ProcOK(q), proc'[q] = proc[q], cmd' = cmd, \A k \in Written(q) : IsKey(k)'
  PROVE  ProcOK(q)'
BY DEF ProcOK, Written

(* ... and one that ends, or rolls back, or commits.                       *)
LEMMA ClosedIsOK ==
  ASSUME NEW p \in Procs, DOMAIN proc[p] = Fields, NEW r, proc'[p] = Closed(r), DOMAIN r = Fields,
         r.state \in {"running", "done", "failed"}, Planned(cmd[p].do, r.todo), cmd' = cmd
  PROVE  ProcOK(p)'
<1>1. /\ DOMAIN Closed(r) = Fields /\ Closed(r).own = <<>> /\ Closed(r).gone = {} /\ Closed(r).shared = {}
      /\ Closed(r).state = r.state /\ Closed(r).todo = r.todo
  BY DEF Closed, Fields
<1>2. DOMAIN <<>> = {} /\ IsFiniteSet({})
  BY FS_EmptySet
<1>3. QED
  BY <1>1, <1>2 DEF ProcOK

(* The highest identifier of some rows.                                    *)
LEMMA HighestIs ==
  ASSUME NEW d, Tidy(d), NEW t
  PROVE  LET h == Max({0} \cup {k[2] : k \in Rows(d, t)})
         IN  h \in Nat /\ \A k \in Rows(d, t) : k[2] <= h
<1> DEFINE X == Rows(d, t)
           S == {0} \cup {k[2] : k \in X}
<1>1. X \in SUBSET DOMAIN d
  BY DEF Rows
<1>2. IsFiniteSet({k[2] : k \in X}) /\ {k[2] : k \in X} \subseteq Nat
  BY <1>1, SomeRowsAreFinite
<1>3. IsFiniteSet(S) /\ S \subseteq Nat /\ S # {}
  <2>1. IsFiniteSet({0}) /\ IsFiniteSet({k[2] : k \in X})
    BY <1>2, FS_Singleton
  <2> HIDE DEF X
  <2>2. IsFiniteSet({0} \cup {k[2] : k \in X})
    BY <2>1, FS_Union
  <2>3. QED
    BY <1>2, <2>2
<1>4. Max(S) \in S /\ \A y \in S : Max(S) >= y
  <2> HIDE DEF S
  <2>1. S \subseteq Int
    BY <1>3
  <2>2. QED
    BY <1>3, <2>1, MaxIsGreatest
<1>5. ASSUME NEW k \in X PROVE k[2] <= Max(S)
  <2>1. k[2] \in S /\ k[2] \in Nat
    BY <1>2
  <2> HIDE DEF S
  <2>2. Max(S) \in Nat
    BY <1>3, <1>4
  <2>3. QED
    BY <1>4, <2>1, <2>2
<1>6. Max(S) \in Nat
  <2> HIDE DEF S
  <2>1. QED
    BY <1>3, <1>4
<1>7. QED
  BY <1>5, <1>6

LEMMA TypeInit == ASSUME Init PROVE TypeInv
<1>1. PICK s \in Scenarios : conf = s.conf /\ cmd = s.cmd /\ db = s.db
  BY DEF Init
<1>2. /\ conf \in ConfType /\ \A p \in Procs : IsCommand(cmd[p])
      /\ IsFiniteSet(DOMAIN db) /\ \A k \in DOMAIN db : k \in TableNames \X (Nat \ {0}) /\ IsRow(db[k])
  BY <1>1, TablesAssumption DEF IsDatabase
<1>3. Tidy(db)
  BY <1>2 DEF Tidy
<1> DEFINE h(t) == Max({0} \cup {k[2] : k \in Rows(db, t)})
<1>4. \A t : h(t) \in Nat /\ \A k \in Rows(db, t) : k[2] <= h(t)
  BY <1>3, HighestIs
<1>5. seq = [t \in TableNames |-> h(t)]
  BY DEF Init
<1> HIDE DEF h
<1>6. seq \in [TableNames -> Nat]
  BY <1>4, <1>5
<1>7. ASSUME NEW k \in DOMAIN db PROVE IsKey(k)
  <2>1. k[1] \in TableNames /\ k[2] \in Nat \ {0} /\ k \in TableNames \X Nat /\ k \in Rows(db, k[1])
    BY <1>2 DEF Rows
  <2>2. seq[k[1]] \in Nat /\ k[2] <= seq[k[1]]
    BY <1>4, <1>5, <2>1
  <2>3. QED
    BY <2>1, <2>2 DEF IsKey
<1>8. ASSUME NEW p \in Procs PROVE ProcOK(p)
  <2>1. proc[p] = Idle \/ proc[p] = [Idle EXCEPT !.state = "done"]
    BY DEF Init
  <2>2. /\ DOMAIN proc[p] = Fields /\ proc[p].state \in {"ready", "done"}
        /\ proc[p].own = <<>> /\ proc[p].gone = {} /\ proc[p].shared = {} /\ proc[p].todo = <<>>
    BY <2>1 DEF Idle, Fields
  <2>3. DOMAIN <<>> = {} /\ IsFiniteSet({})
    BY FS_EmptySet
  <2>4. Planned(cmd[p].do, <<>>)
    BY NothingPlanned
  <2>5. QED
    BY <2>2, <2>3, <2>4 DEF ProcOK
<1>9. DOMAIN proc = Procs /\ DOMAIN beside = Procs
  BY DEF Init
<1>10. QED
  BY <1>2, <1>6, <1>7, <1>8, <1>9 DEF TypeInv

(* A step of p that changes p alone, and perhaps the rows that are         *)
(* committed: what has to be shown.                                        *)
LEMMA TypeKept ==
  ASSUME TypeInv, NEW p \in Procs, UNCHANGED <<conf, cmd>>, DOMAIN proc' = Procs, DOMAIN beside' = Procs,
         \A q \in Procs : q # p => proc'[q] = proc[q] /\ \A k \in Written(q) : IsKey(k)',
         seq' \in [TableNames -> Nat],
         IsFiniteSet(DOMAIN db'), \A k \in DOMAIN db' : IsKey(k)' /\ IsRow(db'[k]),
         ProcOK(p)'
  PROVE  TypeInv'
<1>1. \A q \in Procs : ProcOK(q)'
  <2> SUFFICES ASSUME NEW q \in Procs, q # p PROVE ProcOK(q)'
    OBVIOUS
  <2>1. ProcOK(q) /\ proc'[q] = proc[q] /\ cmd' = cmd /\ \A k \in Written(q) : IsKey(k)'
    BY DEF TypeInv
  <2>2. QED
    BY <2>1, OthersAreKept
<1>2. QED
  BY <1>1 DEF TypeInv

LEMMA KeysAreKept ==
  ASSUME TypeInv, seq' = seq
  PROVE  /\ seq' \in [TableNames -> Nat] /\ \A k : IsKey(k) => IsKey(k)'
         /\ \A q \in Procs : \A k \in Written(q) : IsKey(k)'
<1>1. \A k : IsKey(k) => IsKey(k)'
  BY DEF IsKey
<1>2. \A q \in Procs : \A k \in Written(q) : IsKey(k)
  BY DEF TypeInv, ProcOK, Written
<1>3. QED
  BY <1>1, <1>2 DEF TypeInv

LEMMA TypeOfTodo ==
  ASSUME TypeInv, NEW p \in Procs, NEW r, Becomes(p, r), UNCHANGED <<conf, cmd, db, seq, beside>>,
         DOMAIN r = Fields, r.state = "running", r.own = proc[p].own, r.gone = proc[p].gone,
         Planned(cmd[p].do, r.todo)
  PROVE  TypeInv'
<1>1. DOMAIN proc = Procs /\ DOMAIN beside = Procs /\ ProcOK(p)
  BY DEF TypeInv
<1>2. proc'[p] = r /\ DOMAIN proc' = Procs /\ \A q \in Procs : q # p => proc'[q] = proc[q]
  BY <1>1, OnlyOneBecomes
<1>3. /\ seq' \in [TableNames -> Nat] /\ \A k : IsKey(k) => IsKey(k)'
      /\ \A q \in Procs : \A k \in Written(q) : IsKey(k)'
  BY KeysAreKept
<1>4. ProcOK(p)'
  BY <1>1, <1>2, <1>3 DEF ProcOK
<1>5. IsFiniteSet(DOMAIN db') /\ \A k \in DOMAIN db' : IsKey(k)' /\ IsRow(db'[k])
  BY <1>3 DEF TypeInv
<1>6. QED
  BY <1>1, <1>2, <1>3, <1>4, <1>5, TypeKept

LEMMA TypeRollBack ==
  ASSUME TypeInv, NEW p \in Procs, RollBack(p), UNCHANGED <<conf, cmd, db, seq, beside>>
  PROVE  TypeInv'
<1> DEFINE r == [proc[p] EXCEPT !.state = "failed"]
<1>1. DOMAIN proc = Procs /\ DOMAIN beside = Procs /\ ProcOK(p)
  BY DEF TypeInv
<1>2. proc'[p] = Closed(r) /\ DOMAIN proc' = Procs /\ \A q \in Procs : q # p => proc'[q] = proc[q]
  BY <1>1, OnlyOneBecomes DEF RollBack
<1>3. /\ seq' \in [TableNames -> Nat] /\ \A k : IsKey(k) => IsKey(k)'
      /\ \A q \in Procs : \A k \in Written(q) : IsKey(k)'
  BY KeysAreKept
<1>4. DOMAIN proc[p] = Fields /\ DOMAIN r = Fields /\ r.state = "failed" /\ r.todo = proc[p].todo /\ Planned(cmd[p].do, r.todo)
  BY <1>1 DEF ProcOK, Fields
<1> HIDE DEF r
<1>5. ProcOK(p)'
  BY <1>2, <1>4, ClosedIsOK
<1>6. IsFiniteSet(DOMAIN db') /\ \A k \in DOMAIN db' : IsKey(k)' /\ IsRow(db'[k])
  BY <1>3 DEF TypeInv
<1>7. QED
  BY <1>1, <1>2, <1>3, <1>5, <1>6, TypeKept

LEMMA TypeStart ==
  ASSUME TypeInv, NEW p \in Procs, Start(p)
  PROVE  TypeInv'
<1> DEFINE r == [Idle EXCEPT !.state = "running", !.todo = Script(p, db)]
<1>1. DOMAIN proc = Procs /\ DOMAIN beside = Procs /\ ProcOK(p) /\ IsCommand(cmd[p])
  BY DEF TypeInv
<1>2. /\ Becomes(p, r) /\ UNCHANGED <<conf, cmd, db, seq>>
      /\ DOMAIN beside' = Procs
  BY DEF Start
<1>3. DOMAIN r = Fields /\ r.state = "running" /\ r.own = <<>> /\ r.gone = {} /\ r.todo = Script(p, db)
  BY DEF Idle, Fields
<1> HIDE DEF r
<1>4. proc'[p] = r /\ DOMAIN proc' = Procs /\ \A q \in Procs : q # p => proc'[q] = proc[q]
  BY <1>1, <1>2, OnlyOneBecomes
<1>5. /\ seq' \in [TableNames -> Nat] /\ \A k : IsKey(k) => IsKey(k)'
      /\ \A q \in Procs : \A k \in Written(q) : IsKey(k)'
  BY <1>2, KeysAreKept
<1>6. Planned(cmd[p].do, Script(p, db))
  BY <1>1, DbIsTidy, ScriptIsPlanned
<1>7. DOMAIN <<>> = {} /\ IsFiniteSet({})
  BY FS_EmptySet
<1>8. ProcOK(p)'
  BY <1>2, <1>3, <1>4, <1>6, <1>7 DEF ProcOK
<1>9. IsFiniteSet(DOMAIN db') /\ \A k \in DOMAIN db' : IsKey(k)' /\ IsRow(db'[k])
  BY <1>2, <1>5 DEF TypeInv
<1>10. QED
  BY <1>1, <1>2, <1>4, <1>5, <1>8, <1>9, TypeKept

(* The steps of one refund, and those of its pages.                        *)
LEMMA RefundIsPlanned ==
  ASSUME NEW s, s.num \in Int, s.price \in Int, s.key[1] = "jobhistory", NEW us
  PROVE  Planned("refund", RefundSteps(s, us))
<1> DEFINE u == CHOOSE x \in us : TRUE
           a == Increase(<<"users", u>>, s.price)
           b == Insert("payments", Row(None, u, None, None, 0 - s.price, None))
           c == RefundPages(u, s.printer, s.num)
           d == Refunded(s.key)
           e == Commit
<1>1. MayDo("refund", a) /\ MayDo("refund", d) /\ MayDo("refund", e)
  BY DEF MayDo, Increase, Refunded, Commit, Deleting, Deleters
<1>2. MayDo("refund", b)
  <2>1. IsRow(Row(None, u, None, None, 0 - s.price, None))
    BY DEF Row, IsRow
  <2>2. QED
    BY <2>1 DEF MayDo, Insert, Deleting, Deleters, TableNames, AddedBy
<1>3. MayDo("refund", c)
  BY DEF MayDo, RefundPages
<1>4. RefundSteps(s, us) = <<d, e>> \/ RefundSteps(s, us) = <<a, b, c, d, e>>
  BY DEF RefundSteps
<1> HIDE DEF a, b, c, d, e
<1>5. QED
  BY <1>1, <1>2, <1>3, <1>4, ListsArePlanned

PagesSteps(p) ==
  LET quotas == Having(View(p), "userpquota", {Step(p).user}, Ids(View(p), "printers", {Step(p).printer}))
  IN IF quotas = {} THEN <<>> ELSE <<Increase(CHOOSE x \in quotas : TRUE, 0 - Step(p).num)>>

LEMMA PagesAreIncreases ==
  ASSUME NEW p \in Procs
  PROVE  \/ PagesSteps(p) = <<>>
         \/ \E k \in DOMAIN View(p) : k[1] = "userpquota" /\ PagesSteps(p) = <<Increase(k, 0 - Step(p).num)>>
<1> DEFINE X == Having(View(p), "userpquota", {Step(p).user}, Ids(View(p), "printers", {Step(p).printer}))
           k == CHOOSE x \in X : TRUE
<1>1. \A x \in X : x \in DOMAIN View(p) /\ x[1] = "userpquota"
  BY DEF Having, Rows
<1>2. PagesSteps(p) = IF X = {} THEN <<>> ELSE <<Increase(k, 0 - Step(p).num)>>
  BY DEF PagesSteps
<1>3. X # {} => k \in X
  OBVIOUS
<1> HIDE DEF X, k
<1>4. QED
  BY <1>1, <1>2, <1>3

LEMMA TypeOfMore ==
  ASSUME TypeInv, NEW p \in Procs, proc[p].state = "running", NEW t, NEW u, cmd[p].do = "refund",
         Planned("refund", t), Planned("refund", u),
         Becomes(p, [proc[p] EXCEPT !.todo = t \o u]), UNCHANGED <<conf, cmd, db, seq, beside>>
  PROVE  TypeInv'
<1> DEFINE v == t \o u
           r == [proc[p] EXCEPT !.todo = v]
<1>1. Planned("refund", v)
  BY BothArePlanned
<1>2. DOMAIN proc[p] = Fields
  BY DEF TypeInv, ProcOK
<1> HIDE DEF v
<1>3. /\ DOMAIN r = Fields /\ r.state = "running" /\ r.own = proc[p].own /\ r.gone = proc[p].gone /\ r.todo = v
  BY <1>2 DEF Fields
<1>4. Becomes(p, r)
  BY DEF v
<1> HIDE DEF r
<1>5. QED
  BY <1>1, <1>3, <1>4, TypeOfTodo

LEMMA TypeExpandRefund ==
  ASSUME TypeInv, NEW p \in Procs, ExpandRefund(p)
  PROVE  TypeInv'
<1> DEFINE s == Step(p)
           code == ForCode(View(p), s, 0 - s.num)
           t == Tail(proc[p].todo)
<1>1. /\ proc[p].state = "running" /\ proc[p].todo # <<>> /\ s.op = "refund"
      /\ UNCHANGED <<conf, cmd, db, seq, beside>>
      /\ Becomes(p, [proc[p] EXCEPT !.todo = (code \o <<PayBack(s)>>) \o t])
  BY DEF ExpandRefund, At, Running
<1>2. MayDo(cmd[p].do, s) /\ Planned(cmd[p].do, t)
  BY <1>1, StepMayBeDone
<1>3. cmd[p].do = "refund" /\ s.num \in Int
  BY <1>1, <1>2 DEF MayDo
<1>4. MayDo("refund", PayBack(s))
  BY <1>1, <1>2, <1>3 DEF MayDo, PayBack
<1>5. Planned("refund", code)
  <2>1. Tidy(View(p))
    BY ViewIsTidy
  <2>2. code \in Seq(CodeSteps(View(p), 0 - s.num))
    BY <2>1, CodesHaveSteps
  <2>3. \A x \in CodeSteps(View(p), 0 - s.num) : MayDo("refund", x)
    BY <1>3 DEF CodeSteps, Rows, MayDo, Increase, Deleting, Deleters
  <2>4. QED
    BY <2>2, <2>3, PlannedBy
<1>6. Planned("refund", code \o <<PayBack(s)>>)
  BY <1>4, <1>5, ListsArePlanned, BothArePlanned
<1> HIDE DEF s, code, t
<1>7. QED
  BY <1>1, <1>2, <1>3, <1>6, TypeOfMore

LEMMA TypePayUser ==
  ASSUME TypeInv, NEW p \in Procs, PayUser(p)
  PROVE  TypeInv'
<1> DEFINE us == Ids(View(p), "users", {Step(p).user})
<1>1. /\ proc[p].state = "running" /\ proc[p].todo # <<>> /\ Step(p).op = "payback"
      /\ Becomes(p, [proc[p] EXCEPT !.todo = RefundSteps(Step(p), us) \o Tail(proc[p].todo)])
      /\ UNCHANGED <<conf, cmd, db, seq, beside>>
  BY DEF PayUser, At, Running
<1> HIDE DEF us
<1>2. MayDo(cmd[p].do, Step(p)) /\ Planned(cmd[p].do, Tail(proc[p].todo))
  BY <1>1, StepMayBeDone
<1>3. cmd[p].do = "refund" /\ Step(p).num \in Int /\ Step(p).price \in Int /\ Step(p).key[1] = "jobhistory"
  BY <1>1, <1>2 DEF MayDo
<1>4. Planned("refund", RefundSteps(Step(p), us))
  BY <1>3, RefundIsPlanned
<1>5. QED
  BY <1>1, <1>2, <1>3, <1>4, TypeOfMore

LEMMA TypeFindPages ==
  ASSUME TypeInv, NEW p \in Procs, FindPages(p)
  PROVE  TypeInv'
<1>1. /\ proc[p].state = "running" /\ proc[p].todo # <<>> /\ Step(p).op = "pages"
      /\ Becomes(p, [proc[p] EXCEPT !.todo = PagesSteps(p) \o Tail(proc[p].todo)])
      /\ UNCHANGED <<conf, cmd, db, seq, beside>>
  BY DEF FindPages, At, Running, PagesSteps
<1>2. MayDo(cmd[p].do, Step(p)) /\ Planned(cmd[p].do, Tail(proc[p].todo))
  BY <1>1, StepMayBeDone
<1>3. cmd[p].do = "refund" /\ Step(p).num \in Int
  BY <1>1, <1>2 DEF MayDo
<1>4. Planned("refund", PagesSteps(p))
  <2>1. \A k : k[1] = "userpquota" => MayDo("refund", Increase(k, 0 - Step(p).num))
    BY <1>3 DEF MayDo, Increase, Deleting, Deleters
  <2>2. QED
    BY <2>1, PagesAreIncreases, ListsArePlanned, NothingPlanned
<1>5. QED
  BY <1>1, <1>2, <1>3, <1>4, TypeOfMore

LEMMA TypeLookAtLast ==
  ASSUME TypeInv, NEW p \in Procs, LookAtLast(p)
  PROVE  TypeInv'
<1> DEFINE s == [Step(p) EXCEPT !.last = LastJob(View(p), Step(p).row.printer)]
           t == <<s>> \o Tail(proc[p].todo)
           r == [proc[p] EXCEPT !.todo = t]
<1>1. /\ proc[p].state = "running" /\ proc[p].todo # <<>> /\ Step(p).op = "record"
      /\ Becomes(p, r) /\ UNCHANGED <<conf, cmd, db, seq, beside>>
  BY DEF LookAtLast, At, Running
<1>2. MayDo(cmd[p].do, Step(p)) /\ Planned(cmd[p].do, Tail(proc[p].todo))
  BY <1>1, StepMayBeDone
<1>3. cmd[p].do = "job" /\ DOMAIN Step(p) = {"op", "row", "last"} /\ IsRow(Step(p).row) /\ ~Step(p).row.refunded
  BY <1>1, <1>2 DEF MayDo
<1>4. MayDo("job", s)
  <2>1. /\ DOMAIN s = {"op", "row", "last"} /\ s.row = Step(p).row /\ s.op = "record"
        /\ s.last = LastJob(View(p), Step(p).row.printer)
    BY <1>1, <1>3
  <2>2. s.last \in {None, Unread} \/ s.last[1] = "jobhistory"
    BY <2>1, ViewIsTidy, LastJobIsThere
  <2> HIDE DEF s
  <2>3. QED
    BY <1>3, <2>1, <2>2 DEF MayDo
<1> HIDE DEF s
<1>5. Planned("job", t)
  BY <1>2, <1>3, <1>4, ListsArePlanned, BothArePlanned
<1>6. DOMAIN proc[p] = Fields
  BY DEF TypeInv, ProcOK
<1> HIDE DEF t
<1>7. /\ DOMAIN r = Fields /\ r.state = "running" /\ r.own = proc[p].own /\ r.gone = proc[p].gone /\ r.todo = t
  BY <1>1, <1>6 DEF Fields
<1> HIDE DEF r
<1>8. QED
  BY <1>1, <1>3, <1>5, <1>7, TypeOfTodo

LEMMA TypeExtractTable ==
  ASSUME TypeInv, NEW p \in Procs, ExtractTable(p)
  PROVE  TypeInv'
<1>1. PICK o : /\ proc[p].state = "running" /\ proc[p].todo # <<>>
               /\ Becomes(p, [proc[p] EXCEPT !.out = o, !.todo = Tail(proc[p].todo)])
               /\ UNCHANGED <<conf, cmd, db, seq, beside>>
  BY DEF ExtractTable, At, Running
<1> DEFINE r == [proc[p] EXCEPT !.out = o, !.todo = Tail(proc[p].todo)]
<1>2. Planned(cmd[p].do, Tail(proc[p].todo))
  BY <1>1, StepMayBeDone
<1>3. DOMAIN proc[p] = Fields
  BY DEF TypeInv, ProcOK
<1>4. /\ DOMAIN r = Fields /\ r.state = "running" /\ r.own = proc[p].own /\ r.gone = proc[p].gone
      /\ r.todo = Tail(proc[p].todo)
  BY <1>1, <1>3 DEF Fields
<1>5. Becomes(p, r)
  BY <1>1
<1> HIDE DEF r
<1>6. QED
  BY <1>1, <1>2, <1>4, <1>5, TypeOfTodo

(* A process writes rows: those that it replaces, and one that is new.     *)
LEMMA TypeWrote ==
  ASSUME TypeInv, NEW p \in Procs, Running(p), proc[p].todo # <<>>, cmd[p].do \notin Deleting,
         NEW rows, Wrote(p, rows), UNCHANGED <<conf, cmd, db, beside>>,
         seq' \in [TableNames -> Nat],
         \A k \in Written(p) \cup DOMAIN db : IsKey(k)',
         \A q \in Procs : q # p => \A k \in Written(q) : IsKey(k)',
         IsFiniteSet(DOMAIN rows), \A k \in DOMAIN rows : IsKey(k)' /\ IsRow(rows[k])
  PROVE  TypeInv'
<1> DEFINE own == Over(rows, proc[p].own)
           r == [proc[p] EXCEPT !.own = own, !.shared = proc[p].shared \cup RefersTo(p), !.todo = Tail(proc[p].todo)]
<1>1. DOMAIN proc = Procs /\ DOMAIN beside = Procs /\ ProcOK(p)
  BY DEF TypeInv
<1>2. DOMAIN proc[p] = Fields /\ proc[p].gone = {} /\ IsFiniteSet(DOMAIN proc[p].own)
      /\ \A k \in DOMAIN proc[p].own : IsRow(proc[p].own[k])
  BY <1>1 DEF ProcOK
<1>3. Becomes(p, r)
  BY DEF Wrote
<1>4. DOMAIN own = DOMAIN rows \cup DOMAIN proc[p].own
      /\ \A k \in DOMAIN own : own[k] = IF k \in DOMAIN rows THEN rows[k] ELSE proc[p].own[k]
  BY DEF Over
<1> HIDE DEF own
<1>5. /\ DOMAIN r = Fields /\ r.state = "running" /\ r.own = own /\ r.gone = {}
      /\ r.todo = Tail(proc[p].todo)
  BY <1>2 DEF Fields, Running
<1> HIDE DEF r
<1>6. proc'[p] = r /\ DOMAIN proc' = Procs /\ \A q \in Procs : q # p => proc'[q] = proc[q]
  BY <1>1, <1>3, OnlyOneBecomes
<1>7. IsFiniteSet(DOMAIN own)
  <2>1. IsFiniteSet(DOMAIN rows \cup DOMAIN proc[p].own)
    BY <1>2, FS_Union
  <2>2. QED
    BY <1>4, <2>1
<1>8. \A k \in DOMAIN own : IsKey(k)' /\ IsRow(own[k])
  BY <1>2, <1>4 DEF Written
<1>9. Planned(cmd[p].do, Tail(proc[p].todo))
  BY StepMayBeDone
<1>10. ProcOK(p)'
  BY <1>5, <1>6, <1>7, <1>8, <1>9 DEF ProcOK
<1>11. IsFiniteSet(DOMAIN db') /\ \A k \in DOMAIN db' : IsKey(k)' /\ IsRow(db'[k])
  BY DEF TypeInv
<1>12. QED
  BY <1>1, <1>6, <1>10, <1>11, TypeKept

LEMMA TypeUpdate ==
  ASSUME TypeInv, NEW p \in Procs, Update(p), UNCHANGED <<conf, cmd, db, beside>>
  PROVE  TypeInv'
<1> DEFINE s == Step(p)
           rows == [k \in Touched(p) |->
                     LET r == View(p)[k]
                     IN CASE s.how = "add"      -> [r EXCEPT !.num = @ + s.num]
                          [] s.how = "above"    -> [r EXCEPT !.num = @ + s.num, !.aside = @ + s.num]
                          [] s.how = "save"     -> [r EXCEPT !.num = s.num]
                          [] s.how = "refunded" -> [r EXCEPT !.refunded = TRUE]]
<1>1. /\ Running(p) /\ proc[p].todo # <<>> /\ s.op = "update" /\ Wrote(p, rows) /\ seq' = seq
  BY DEF Update, At
<1>2. MayDo(cmd[p].do, s)
  BY <1>1, StepMayBeDone
<1>3. cmd[p].do \notin Deleting /\ s.how \in {"add", "above", "save", "refunded"} /\ s.num \in Int
  BY <1>1, <1>2 DEF MayDo
<1>4. Touched(p) = {s.key} \cap DOMAIN View(p)
  BY <1>1 DEF Touched
<1>5. IsFiniteSet(Touched(p))
  BY <1>4, FS_Singleton, FS_Subset
<1>6. ASSUME NEW k \in Touched(p) PROVE IsKey(k) /\ IsRow(rows[k])
  <2> DEFINE r == View(p)[k]
  <2>1. IsKey(k) /\ IsRow(r)
    BY <1>4, ViewIsTidy
  <2>2. \/ rows[k] = [r EXCEPT !.num = @ + s.num]
        \/ rows[k] = [r EXCEPT !.num = @ + s.num, !.aside = @ + s.num]
        \/ rows[k] = [r EXCEPT !.num = s.num]
        \/ rows[k] = [r EXCEPT !.refunded = TRUE]
    BY <1>3
  <2> HIDE DEF rows, r
  <2>3. r.num \in Int /\ r.aside \in Int /\ r.num + s.num \in Int /\ r.aside + s.num \in Int /\ s.num \in Int
    BY <1>3, <2>1 DEF IsRow
  <2>4. /\ DOMAIN rows[k] = DOMAIN r /\ rows[k].price = r.price
        /\ rows[k].num \in {r.num, r.num + s.num, s.num} /\ rows[k].aside \in {r.aside, r.aside + s.num}
    BY <2>1, <2>2 DEF IsRow
  <2>5. QED
    BY <2>1, <2>3, <2>4 DEF IsRow
<1>7. /\ seq' \in [TableNames -> Nat] /\ \A k : IsKey(k) => IsKey(k)'
      /\ \A q \in Procs : \A k \in Written(q) : IsKey(k)'
  BY <1>1, KeysAreKept
<1>8. \A k \in DOMAIN db : IsKey(k)'
  BY <1>7 DEF TypeInv
<1>9. DOMAIN rows = Touched(p)
  OBVIOUS
<1> HIDE DEF rows
<1>10. QED
  BY <1>1, <1>3, <1>5, <1>6, <1>7, <1>8, <1>9, TypeWrote

(* The identifier of a new row is above those of its table that there are, *)
(* whoever wrote them.                                                     *)
LEMMA NewIdIsNew ==
  ASSUME TypeInv, NEW p \in Procs, Running(p), proc[p].todo # <<>>, Step(p).op \in {"insert", "record"},
         Blockers(p) = {}, NEW t, t = NewTable(p), NEW n, n = NextId(p, t)
  PROVE  /\ t \in TableNames /\ n \in Nat /\ n >= 1
         /\ \A k \in DOMAIN View(p) : k[1] = t => k[2] < n
         /\ \A q \in Procs : q # p => \A k \in Written(q) : k[1] = t => k[2] < n
<1>1. MayDo(cmd[p].do, Step(p))
  BY StepMayBeDone
<1>2. t \in TableNames
  <2>1. CASE Step(p).op = "insert"
    BY <1>1, <2>1 DEF MayDo, NewTable
  <2>2. CASE Step(p).op = "record"
    BY <2>2 DEF NewTable, TableNames
  <2>3. QED
    BY <2>1, <2>2
<1>3. \A k \in DOMAIN View(p) : IsKey(k)
  BY ViewIsTidy
<1>4. \A q \in Procs : \A k \in Written(q) : IsKey(k)
  BY DEF TypeInv, ProcOK, Written
<1>5. CASE conf.engine = "sqlite"
  <2> DEFINE h == Max({0} \cup {k[2] : k \in Rows(View(p), t)})
  <2>1. h \in Nat /\ \A k \in Rows(View(p), t) : k[2] <= h
    BY ViewIsTidy, HighestIs
  <2>2. n = h + 1
    BY <1>5 DEF NextId, HighestPlusOne
  <2> HIDE DEF h
  <2>3. ASSUME NEW k \in DOMAIN View(p), k[1] = t PROVE k[2] < n
    <3>1. k \in Rows(View(p), t) /\ k[2] \in Nat
      BY <1>3, <2>3 DEF Rows, IsKey
    <3>2. QED
      BY <2>1, <2>2, <3>1
  <2>4. Step(p).op \in Writes
    BY DEF Writes
  <2>5. \A q \in Procs : q # p => Written(q) = {}
    BY <1>5, <2>4 DEF Blockers
  <2>6. n \in Nat /\ n >= 1
    BY <2>1, <2>2
  <2>7. QED
    BY <1>2, <2>3, <2>5, <2>6
<1>6. CASE conf.engine # "sqlite"
  <2>1. n = seq[t] + 1 /\ seq[t] \in Nat
    BY <1>2, <1>6 DEF NextId, TypeInv
  <2>2. ASSUME NEW k, IsKey(k), k[1] = t PROVE k[2] < n
    BY <2>1, <2>2 DEF IsKey
  <2>3. n \in Nat /\ n >= 1
    BY <2>1
  <2>4. QED
    BY <1>2, <1>3, <1>4, <2>2, <2>3
<1>7. QED
  BY <1>5, <1>6

LEMMA NewRowIsRow ==
  ASSUME TypeInv, NEW p \in Procs, Running(p), proc[p].todo # <<>>, Step(p).op \in {"insert", "record"}
  PROVE  IsRow(NewRow(p)) /\ cmd[p].do \notin Deleting
<1>1. MayDo(cmd[p].do, Step(p))
  BY StepMayBeDone
<1>2. QED
  BY <1>1 DEF MayDo, NewRow, Deleting, Deleters

LEMMA TypeAddRow ==
  ASSUME TypeInv, NEW p \in Procs, Running(p), proc[p].todo # <<>>, Step(p).op \in {"insert", "record"},
         Blockers(p) = {}, AddRow(p), UNCHANGED <<conf, cmd, db, beside>>
  PROVE  TypeInv'
<1>1. PICK t, n, k : t = NewTable(p) /\ n = NextId(p, t) /\ k = <<t, n>>
  OBVIOUS
<1> DEFINE rows == [x \in {k} |-> NewRow(p)]
<1>2. /\ t \in TableNames /\ n \in Nat /\ n >= 1
      /\ \A x \in DOMAIN View(p) : x[1] = t => x[2] < n
      /\ \A q \in Procs : q # p => \A x \in Written(q) : x[1] = t => x[2] < n
  BY <1>1, NewIdIsNew
<1>3. Wrote(p, rows) /\ seq' = [seq EXCEPT ![t] = n]
  BY <1>1 DEF AddRow
<1>4. IsRow(NewRow(p)) /\ cmd[p].do \notin Deleting
  BY NewRowIsRow
<1>5. seq' \in [TableNames -> Nat]
  BY <1>2, <1>3 DEF TypeInv
<1>6. ASSUME NEW x, IsKey(x), x[1] = t => x[2] < n PROVE IsKey(x)'
  <2>1. CASE x[1] = t
    BY <1>2, <1>3, <1>6, <2>1 DEF IsKey, TypeInv
  <2>2. CASE x[1] # t
    BY <1>3, <1>6, <2>2 DEF IsKey, TypeInv
  <2>3. QED
    BY <2>1, <2>2
<1>7. ProcOK(p)
  BY DEF TypeInv
<1>8. proc[p].gone = {}
  BY <1>4, <1>7 DEF ProcOK
<1>9. \A x \in Written(p) \cup DOMAIN db : x \in DOMAIN View(p)
  BY <1>8, ViewIs DEF Written
<1>10. \A x \in Written(p) \cup DOMAIN db : IsKey(x)'
  BY <1>2, <1>6, <1>9, ViewIsTidy
<1>11. \A q \in Procs : q # p => \A x \in Written(q) : IsKey(x)'
  <2>1. \A q \in Procs : \A x \in Written(q) : IsKey(x)
    BY DEF TypeInv, ProcOK, Written
  <2>2. QED
    BY <1>2, <1>6, <2>1
<1>12. IsKey(k)'
  <2>1. seq'[t] = n
    BY <1>2, <1>3 DEF TypeInv
  <2>2. QED
    BY <1>2, <1>1, <2>1 DEF IsKey
<1>13. IsFiniteSet(DOMAIN rows) /\ \A x \in DOMAIN rows : IsKey(x)' /\ IsRow(rows[x])
  <2>1. DOMAIN rows = {k} /\ rows[k] = NewRow(p)
    OBVIOUS
  <2> HIDE DEF rows
  <2>2. QED
    BY <1>4, <1>12, <2>1, FS_Singleton
<1> HIDE DEF rows
<1>14. QED
  BY <1>3, <1>4, <1>5, <1>10, <1>11, <1>13, TypeWrote

LEMMA TypeInsertRow ==
  ASSUME TypeInv, NEW p \in Procs, InsertRow(p), Blockers(p) = {}, UNCHANGED <<conf, cmd, db, beside>>
  PROVE  TypeInv'
BY TypeAddRow DEF InsertRow, At

LEMMA TypeWriteJobNew ==
  ASSUME TypeInv, NEW p \in Procs, WriteJobNew(p), Blockers(p) = {}, UNCHANGED <<conf, cmd, db, beside>>
  PROVE  TypeInv'
<1>1. Running(p) /\ proc[p].todo # <<>> /\ Step(p).op = "record"
  BY DEF WriteJobNew, At
<1>2. CASE Anew(p)
  BY <1>1, <1>2, TypeAddRow DEF WriteJobNew
<1>3. CASE ~Anew(p)
  <2> DEFINE rows == [k \in Touched(p) |-> NewRow(p)]
  <2>1. Wrote(p, rows) /\ seq' = seq
    BY <1>3 DEF WriteJobNew
  <2>2. IsRow(NewRow(p)) /\ cmd[p].do \notin Deleting
    BY <1>1, NewRowIsRow
  <2>3. Touched(p) \subseteq {Step(p).last} \cap DOMAIN View(p)
    BY <1>1 DEF Touched, Rows
  <2>4. IsFiniteSet(Touched(p))
    BY <2>3, FS_Singleton, FS_Subset
  <2>5. /\ seq' \in [TableNames -> Nat] /\ \A k : IsKey(k) => IsKey(k)'
        /\ \A q \in Procs : \A k \in Written(q) : IsKey(k)'
    BY <2>1, KeysAreKept
  <2>6. \A k \in DOMAIN db : IsKey(k)'
    BY <2>5 DEF TypeInv
  <2>7. DOMAIN rows = Touched(p) /\ \A k \in DOMAIN rows : IsKey(k)' /\ IsRow(rows[k])
    BY <2>2, <2>3, <2>5, ViewIsTidy
  <2> HIDE DEF rows
  <2>8. QED
    BY <1>1, <2>1, <2>2, <2>4, <2>5, <2>6, <2>7, TypeWrote
<1>4. QED
  BY <1>2, <1>3

LEMMA TypeDeleteRows ==
  ASSUME TypeInv, NEW p \in Procs, DeleteRows(p), UNCHANGED <<conf, cmd, db, beside>>
  PROVE  TypeInv'
<1> DEFINE own == Restrict(proc[p].own, DOMAIN proc[p].own \ Touched(p))
           gone == proc[p].gone \cup Touched(p)
           r == [proc[p] EXCEPT !.own = own, !.gone = gone, !.todo = Tail(proc[p].todo)]
<1>1. /\ Running(p) /\ proc[p].todo # <<>> /\ Step(p).op = "delete" /\ seq' = seq
      /\ Becomes(p, r)
  BY DEF DeleteRows, At
<1>2. MayDo(cmd[p].do, Step(p)) /\ Planned(cmd[p].do, Tail(proc[p].todo))
  BY <1>1, StepMayBeDone
<1>3. /\ cmd[p].do \in Deleting
      /\ Step(p).table = "users" => cmd[p].do = "delusers"
      /\ cmd[p].do \notin Deleters => Step(p).table \in Members
      /\ Step(p).table \in Counted => cmd[p].do \in Takers
  BY <1>1, <1>2 DEF MayDo
<1>4. ASSUME NEW k \in Touched(p)
      PROVE  /\ IsKey(k)
             /\ k[1] = "users" => cmd[p].do = "delusers"
             /\ cmd[p].do \notin Deleters => k[1] \in Members
             /\ k[1] \in Counted => cmd[p].do \in Takers
  <2>1. k \in DOMAIN View(p) /\ k[1] = Step(p).table
    BY <1>1 DEF Touched, Rows
  <2>2. QED
    BY <1>3, <2>1, ViewIsTidy
<1>5. DOMAIN proc = Procs /\ DOMAIN beside = Procs /\ ProcOK(p)
  BY DEF TypeInv
<1>6. DOMAIN proc[p] = Fields /\ DOMAIN proc[p].own = {}
  BY <1>3, <1>5 DEF ProcOK
<1>7. DOMAIN own = {}
  BY <1>6 DEF Restrict
<1>8. \A k \in gone : /\ IsKey(k)
                      /\ k[1] = "users" => cmd[p].do = "delusers"
                      /\ cmd[p].do \notin Deleters => k[1] \in Members
                      /\ k[1] \in Counted => cmd[p].do \in Takers
  <2>1. \A k \in proc[p].gone : /\ IsKey(k)
                                /\ k[1] = "users" => cmd[p].do = "delusers"
                                /\ cmd[p].do \notin Deleters => k[1] \in Members
                                /\ k[1] \in Counted => cmd[p].do \in Takers
    BY <1>5 DEF ProcOK
  <2>2. QED
    BY <1>4, <2>1
<1> HIDE DEF own, gone
<1>9. /\ DOMAIN r = Fields /\ r.state = "running" /\ r.own = own /\ r.gone = gone
      /\ r.todo = Tail(proc[p].todo)
  BY <1>1, <1>6 DEF Fields, Running
<1> HIDE DEF r
<1>10. proc'[p] = r /\ DOMAIN proc' = Procs /\ \A q \in Procs : q # p => proc'[q] = proc[q]
  BY <1>1, <1>5, OnlyOneBecomes
<1>11. /\ seq' \in [TableNames -> Nat] /\ \A k : IsKey(k) => IsKey(k)'
       /\ \A q \in Procs : \A k \in Written(q) : IsKey(k)'
  BY <1>1, KeysAreKept
<1>12. IsFiniteSet({})
  BY FS_EmptySet
<1>13. ProcOK(p)'
  BY <1>2, <1>3, <1>7, <1>8, <1>9, <1>10, <1>11, <1>12 DEF ProcOK
<1>14. IsFiniteSet(DOMAIN db') /\ \A k \in DOMAIN db' : IsKey(k)' /\ IsRow(db'[k])
  BY <1>11 DEF TypeInv
<1>15. QED
  BY <1>5, <1>10, <1>11, <1>13, <1>14, TypeKept

LEMMA TypeCommit ==
  ASSUME TypeInv, NEW p \in Procs, CommitWork(p)
  PROVE  TypeInv'
<1> DEFINE r == IF proc[p].todo = <<>> THEN [proc[p] EXCEPT !.state = "done"]
                ELSE [proc[p] EXCEPT !.todo = Tail(proc[p].todo)]
<1>1. /\ proc[p].state = "running" /\ db' = View(p) /\ Becomes(p, Closed(r))
      /\ UNCHANGED <<conf, cmd, seq, beside>>
  BY DEF CommitWork, At, Running
<1>2. DOMAIN proc = Procs /\ DOMAIN beside = Procs /\ ProcOK(p)
  BY DEF TypeInv
<1>3. DOMAIN proc[p] = Fields /\ Planned(cmd[p].do, proc[p].todo)
  BY <1>2 DEF ProcOK
<1>4. proc[p].todo # <<>> => Planned(cmd[p].do, Tail(proc[p].todo))
  BY StepMayBeDone
<1>5. DOMAIN r = Fields /\ r.state \in {"running", "done", "failed"} /\ Planned(cmd[p].do, r.todo)
  BY <1>1, <1>3, <1>4 DEF Fields
<1> HIDE DEF r
<1>6. proc'[p] = Closed(r) /\ DOMAIN proc' = Procs /\ \A q \in Procs : q # p => proc'[q] = proc[q]
  BY <1>1, <1>2, OnlyOneBecomes
<1>7. /\ seq' \in [TableNames -> Nat] /\ \A k : IsKey(k) => IsKey(k)'
      /\ \A q \in Procs : \A k \in Written(q) : IsKey(k)'
  BY <1>1, KeysAreKept
<1>8. ProcOK(p)'
  BY <1>1, <1>3, <1>5, <1>6, ClosedIsOK
<1>9. IsFiniteSet(DOMAIN db') /\ \A k \in DOMAIN db' : IsKey(k)' /\ IsRow(db'[k])
  BY <1>1, <1>7, ViewIsTidy DEF Tidy
<1>10. QED
  BY <1>1, <1>2, <1>6, <1>7, <1>8, <1>9, TypeKept

LEMMA TypeExecute ==
  ASSUME TypeInv, NEW p \in Procs, Execute(p)
  PROVE  TypeInv'
<1>1. Blockers(p) = {} /\ UNCHANGED <<conf, cmd, db, beside>>
      /\ (Update(p) \/ InsertRow(p) \/ WriteJobNew(p) \/ DeleteRows(p))
  BY DEF Execute, Statement
<1>2. QED
  BY <1>1, TypeUpdate, TypeInsertRow, TypeWriteJobNew, TypeDeleteRows

LEMMA TypeNext ==
  ASSUME TypeInv, [Next]_vars
  PROVE  TypeInv'
<1>1. CASE UNCHANGED vars
  <2>1. UNCHANGED <<conf, cmd, db, seq, proc, beside>>
    BY <1>1 DEF vars
  <2>2. \A k : IsKey(k)' <=> IsKey(k)
    BY <2>1 DEF IsKey
  <2>3. \A p : ProcOK(p)' <=> ProcOK(p)
    BY <2>1, <2>2 DEF ProcOK
  <2>4. QED
    BY <2>1, <2>2, <2>3 DEF TypeInv
<1>2. ASSUME NEW p \in Procs, Work(p) \/ GiveUp(p) PROVE TypeInv'
  <2>1. CASE Start(p)
    BY <2>1, TypeStart
  <2>2. CASE ExpandRefund(p)
    BY <2>2, TypeExpandRefund
  <2>11. CASE PayUser(p)
    BY <2>11, TypePayUser
  <2>10. CASE FindPages(p)
    BY <2>10, TypeFindPages
  <2>3. CASE LookAtLast(p)
    BY <2>3, TypeLookAtLast
  <2>4. CASE ExtractTable(p)
    BY <2>4, TypeExtractTable
  <2>5. CASE Execute(p)
    BY <2>5, TypeExecute
  <2>6. CASE Refused(p)
    BY <2>6, TypeRollBack DEF Refused
  <2>7. CASE CommitWork(p)
    BY <2>7, TypeCommit
  <2>8. CASE GiveUp(p)
    BY <2>8, TypeRollBack DEF GiveUp
  <2>9. QED
    BY <1>2, <2>1, <2>2, <2>3, <2>4, <2>5, <2>6, <2>7, <2>8, <2>10, <2>11 DEF Work
<1>3. QED
  BY <1>1, <1>2 DEF Next, AllOver

LEMMA TypeAlways == Spec => []TypeInv
<1>1. Init => TypeInv
  BY TypeInit
<1>2. TypeInv /\ [Next]_vars => TypeInv'
  BY TypeNext
<1>3. QED
  BY <1>1, <1>2, PTL DEF Spec

(* TypeOK, for any number of jobs and commands: whatever is added, changed *)
(* and deleted beside one another, rows keep their shape and identifiers   *)
(* within what was given out, and who is not at work holds nothing.        *)
THEOREM TablesKeepTheirTypes == Spec => []TypeOK
<1>1. TypeInv => TypeOK
  BY TypeImpliesTypeOK
<1>2. QED
  BY <1>1, TypeAlways, PTL

-----------------------------------------------------------------------------
(* What a step changes.                                                    *)

LEMMA WroteIs ==
  ASSUME TypeInv, NEW p \in Procs, NEW rows, Wrote(p, rows)
  PROVE  /\ DOMAIN proc'[p].own = DOMAIN rows \cup DOMAIN proc[p].own
         /\ \A k \in DOMAIN proc'[p].own :
              proc'[p].own[k] = IF k \in DOMAIN rows THEN rows[k] ELSE proc[p].own[k]
         /\ proc'[p].gone = proc[p].gone /\ proc'[p].state = proc[p].state
         /\ proc'[p].todo = Tail(proc[p].todo) /\ proc'[p].shared = proc[p].shared \cup RefersTo(p)
         /\ \A q \in Procs : q # p => proc'[q] = proc[q]
<1> DEFINE own == Over(rows, proc[p].own)
           r == [proc[p] EXCEPT !.own = own, !.shared = proc[p].shared \cup RefersTo(p), !.todo = Tail(proc[p].todo)]
<1>1. DOMAIN proc = Procs /\ DOMAIN proc[p] = Fields
  BY DEF TypeInv, ProcOK
<1>2. Becomes(p, r)
  BY DEF Wrote
<1>3. DOMAIN own = DOMAIN rows \cup DOMAIN proc[p].own
      /\ \A k \in DOMAIN own : own[k] = IF k \in DOMAIN rows THEN rows[k] ELSE proc[p].own[k]
  BY DEF Over
<1> HIDE DEF own
<1>4. /\ r.own = own /\ r.gone = proc[p].gone /\ r.state = proc[p].state /\ r.todo = Tail(proc[p].todo)
      /\ r.shared = proc[p].shared \cup RefersTo(p)
  BY <1>1 DEF Fields
<1> HIDE DEF r
<1>5. proc'[p] = r /\ \A q \in Procs : q # p => proc'[q] = proc[q]
  BY <1>1, <1>2, OnlyOneBecomes
<1>6. QED
  BY <1>3, <1>4, <1>5

(* The statements: an update, a row that replaces another, a new row, or a *)
(* deletion.                                                               *)
Kept(r, s) ==
  r.name = s.name /\ r.job = s.job /\ r.user = s.user /\ r.printer = s.printer /\ r.group = s.group

LEMMA UpdateIs ==
  ASSUME TypeInv, NEW p \in Procs, Update(p)
  PROVE  /\ Running(p) /\ proc[p].todo # <<>> /\ Step(p).op = "update" /\ seq' = seq
         /\ Touched(p) = {Step(p).key} \cap DOMAIN View(p)
         /\ \E rows : /\ Wrote(p, rows) /\ DOMAIN rows = Touched(p)
                      /\ \A k \in DOMAIN rows : Kept(rows[k], View(p)[k])
<1> DEFINE s == Step(p)
           rows == [k \in Touched(p) |->
                     LET r == View(p)[k]
                     IN CASE s.how = "add"      -> [r EXCEPT !.num = @ + s.num]
                          [] s.how = "above"    -> [r EXCEPT !.num = @ + s.num, !.aside = @ + s.num]
                          [] s.how = "save"     -> [r EXCEPT !.num = s.num]
                          [] s.how = "refunded" -> [r EXCEPT !.refunded = TRUE]]
<1>1. /\ Running(p) /\ proc[p].todo # <<>> /\ s.op = "update" /\ Wrote(p, rows) /\ seq' = seq
  BY DEF Update, At
<1>2. MayDo(cmd[p].do, s)
  BY <1>1, StepMayBeDone
<1>3. s.how \in {"add", "above", "save", "refunded"}
  BY <1>1, <1>2 DEF MayDo
<1>4. Touched(p) = {s.key} \cap DOMAIN View(p)
  BY <1>1 DEF Touched
<1>5. ASSUME NEW k \in Touched(p) PROVE Kept(rows[k], View(p)[k])
  <2> DEFINE r == View(p)[k]
  <2>1. DOMAIN r = {"name", "user", "printer", "group", "num", "price", "aside", "job", "refunded"}
    BY <1>4, ViewIsTidy DEF IsRow
  <2>2. \/ rows[k] = [r EXCEPT !.num = @ + s.num]
        \/ rows[k] = [r EXCEPT !.num = @ + s.num, !.aside = @ + s.num]
        \/ rows[k] = [r EXCEPT !.num = s.num]
        \/ rows[k] = [r EXCEPT !.refunded = TRUE]
    BY <1>3
  <2> HIDE DEF rows, r
  <2>3. Kept(rows[k], r)
    BY <2>1, <2>2 DEF Kept
  <2>4. QED
    BY <2>3 DEF r
<1>6. DOMAIN rows = Touched(p)
  OBVIOUS
<1> HIDE DEF rows
<1>7. QED
  BY <1>1, <1>4, <1>5, <1>6

LEMMA AddRowIs ==
  ASSUME TypeInv, NEW p \in Procs, AddRow(p), Running(p), proc[p].todo # <<>>,
         Step(p).op \in {"insert", "record"}, Blockers(p) = {}
  PROVE  \E n, k :
           /\ n \in Nat /\ k = <<NewTable(p), n>> /\ k \notin DOMAIN View(p)
           /\ \A q \in Procs : q # p => k \notin Written(q)
           /\ Wrote(p, [x \in {k} |-> NewRow(p)])
           /\ seq' = [seq EXCEPT ![k[1]] = n]
           /\ k[1] \in TableNames /\ (conf.engine # "sqlite" => n = seq[k[1]] + 1)
<1>1. PICK t, n, k : t = NewTable(p) /\ n = NextId(p, t) /\ k = <<t, n>>
  OBVIOUS
<1>2. /\ t \in TableNames /\ n \in Nat
      /\ \A x \in DOMAIN View(p) : x[1] = t => x[2] < n
      /\ \A q \in Procs : q # p => \A x \in Written(q) : x[1] = t => x[2] < n
  BY <1>1, NewIdIsNew
<1>3. k[1] = t /\ k[2] = n /\ ~(k[2] < n)
  BY <1>1, <1>2
<1>4. Wrote(p, [x \in {k} |-> NewRow(p)]) /\ seq' = [seq EXCEPT ![k[1]] = n]
  BY <1>1 DEF AddRow
<1>5. conf.engine # "sqlite" => n = seq[k[1]] + 1
  BY <1>1, <1>3 DEF NextId
<1>6. QED
  BY <1>1, <1>2, <1>3, <1>4, <1>5

LEMMA DeleteIs ==
  ASSUME TypeInv, NEW p \in Procs, DeleteRows(p)
  PROVE  /\ Running(p) /\ proc[p].todo # <<>> /\ Step(p).op = "delete" /\ seq' = seq
         /\ DOMAIN proc'[p].own = {} /\ proc'[p].gone = proc[p].gone \cup Touched(p)
         /\ proc'[p].state = "running" /\ proc'[p].todo = Tail(proc[p].todo) /\ proc'[p].shared = proc[p].shared
         /\ \A q \in Procs : q # p => proc'[q] = proc[q]
<1> DEFINE own == Restrict(proc[p].own, DOMAIN proc[p].own \ Touched(p))
           r == [proc[p] EXCEPT !.own = own, !.gone = proc[p].gone \cup Touched(p), !.todo = Tail(proc[p].todo)]
<1>1. /\ Running(p) /\ proc[p].todo # <<>> /\ Step(p).op = "delete" /\ seq' = seq /\ Becomes(p, r)
  BY DEF DeleteRows, At
<1>2. MayDo(cmd[p].do, Step(p))
  BY <1>1, StepMayBeDone
<1>3. cmd[p].do \in Deleting
  BY <1>1, <1>2 DEF MayDo
<1>4. DOMAIN proc = Procs /\ DOMAIN proc[p] = Fields /\ DOMAIN proc[p].own = {}
  BY <1>3 DEF TypeInv, ProcOK
<1>5. DOMAIN own = {}
  BY <1>4 DEF Restrict
<1> HIDE DEF own
<1>6. /\ r.own = own /\ r.gone = proc[p].gone \cup Touched(p) /\ r.state = "running"
      /\ r.todo = Tail(proc[p].todo) /\ r.shared = proc[p].shared
  BY <1>1, <1>4 DEF Fields, Running
<1> HIDE DEF r
<1>7. proc'[p] = r /\ \A q \in Procs : q # p => proc'[q] = proc[q]
  BY <1>1, <1>4, OnlyOneBecomes
<1>8. QED
  BY <1>1, <1>5, <1>6, <1>7

LEMMA CommitIs ==
  ASSUME TypeInv, NEW p \in Procs, CommitWork(p)
  PROVE  /\ Running(p) /\ db' = View(p) /\ UNCHANGED <<conf, cmd, seq, beside>>
         /\ DOMAIN proc'[p].own = {} /\ proc'[p].gone = {} /\ proc'[p].shared = {}
         /\ proc[p].todo # <<>> => proc'[p].todo = Tail(proc[p].todo)
         /\ IF proc[p].todo = <<>> THEN proc'[p].state = "done" ELSE Step(p).op = "commit" /\ proc'[p].state = "running"
         /\ \A q \in Procs : q # p => proc'[q] = proc[q]
<1> DEFINE r == IF proc[p].todo = <<>> THEN [proc[p] EXCEPT !.state = "done"]
                ELSE [proc[p] EXCEPT !.todo = Tail(proc[p].todo)]
<1>1. /\ proc[p].state = "running" /\ db' = View(p) /\ Becomes(p, Closed(r))
      /\ UNCHANGED <<conf, cmd, seq, beside>>
      /\ proc[p].todo # <<>> => Step(p).op = "commit"
  BY DEF CommitWork, At, Running
<1>2. DOMAIN proc = Procs /\ DOMAIN proc[p] = Fields
  BY DEF TypeInv, ProcOK
<1>3. /\ DOMAIN r = Fields /\ r.state = IF proc[p].todo = <<>> THEN "done" ELSE "running"
      /\ proc[p].todo # <<>> => r.todo = Tail(proc[p].todo)
  BY <1>1, <1>2 DEF Fields
<1> HIDE DEF r
<1>4. /\ Closed(r).own = <<>> /\ Closed(r).gone = {} /\ Closed(r).state = r.state
      /\ Closed(r).shared = {} /\ Closed(r).todo = r.todo
  BY <1>3 DEF Closed, Fields
<1>5. proc'[p] = Closed(r) /\ \A q \in Procs : q # p => proc'[q] = proc[q]
  BY <1>1, <1>2, OnlyOneBecomes
<1>6. DOMAIN <<>> = {}
  OBVIOUS
<1>7. QED
  BY <1>1, <1>3, <1>4, <1>5, <1>6 DEF Running

LEMMA RollBackIs ==
  ASSUME TypeInv, NEW p \in Procs, RollBack(p)
  PROVE  /\ DOMAIN proc'[p].own = {} /\ proc'[p].gone = {} /\ proc'[p].state = "failed" /\ proc'[p].shared = {}
         /\ \A q \in Procs : q # p => proc'[q] = proc[q]
<1> DEFINE r == [proc[p] EXCEPT !.state = "failed"]
<1>1. DOMAIN proc = Procs /\ DOMAIN proc[p] = Fields /\ Becomes(p, Closed(r))
  BY DEF TypeInv, ProcOK, RollBack
<1>2. DOMAIN r = Fields /\ r.state = "failed"
  BY <1>1 DEF Fields
<1> HIDE DEF r
<1>3. Closed(r).own = <<>> /\ Closed(r).gone = {} /\ Closed(r).state = r.state /\ Closed(r).shared = {}
  BY <1>2 DEF Closed, Fields
<1>4. proc'[p] = Closed(r) /\ \A q \in Procs : q # p => proc'[q] = proc[q]
  BY <1>1, OnlyOneBecomes
<1>5. DOMAIN <<>> = {}
  OBVIOUS
<1>6. QED
  BY <1>2, <1>3, <1>4, <1>5

LEMMA StartIs ==
  ASSUME TypeInv, NEW p \in Procs, Start(p)
  PROVE  /\ proc[p].state = "ready" /\ UNCHANGED <<conf, cmd, db, seq>>
         /\ proc'[p].own = <<>> /\ proc'[p].gone = {} /\ proc'[p].state = "running" /\ proc'[p].shared = {}
         /\ proc'[p].todo = Script(p, db)
         /\ \A q \in Procs : q # p => proc'[q] = proc[q]
         /\ beside' = [q \in Procs |-> IF q = p THEN {x \in Procs : Running(x)}
                                       ELSE IF Running(q) THEN beside[q] \cup {p} ELSE beside[q]]
<1> DEFINE r == [Idle EXCEPT !.state = "running", !.todo = Script(p, db)]
<1>1. Becomes(p, r) /\ proc[p].state = "ready" /\ UNCHANGED <<conf, cmd, db, seq>>
  BY DEF Start
<1>2. beside' = [q \in Procs |-> IF q = p THEN {x \in Procs : Running(x)}
                                 ELSE IF Running(q) THEN beside[q] \cup {p} ELSE beside[q]]
  BY DEF Start
<1>3. r.own = <<>> /\ r.gone = {} /\ r.state = "running" /\ r.todo = Script(p, db) /\ r.shared = {}
  BY DEF Idle
<1> HIDE DEF r
<1>4. proc'[p] = r /\ \A q \in Procs : q # p => proc'[q] = proc[q]
  BY <1>1, OnlyOneBecomes DEF TypeInv
<1>5. QED
  BY <1>1, <1>2, <1>3, <1>4

(* The steps that only read, or change what is left to do.                 *)
LEMMA ReadingIs ==
  ASSUME TypeInv, NEW p \in Procs, ExpandRefund(p) \/ PayUser(p) \/ FindPages(p) \/ LookAtLast(p) \/ ExtractTable(p)
  PROVE  /\ Running(p) /\ proc[p].todo # <<>> /\ UNCHANGED <<conf, cmd, db, seq, beside>>
         /\ proc'[p].own = proc[p].own /\ proc'[p].gone = proc[p].gone /\ proc'[p].state = "running"
         /\ proc'[p].shared = proc[p].shared
         /\ \A q \in Procs : q # p => proc'[q] = proc[q]
<1>1. PICK o, t : /\ proc[p].state = "running" /\ proc[p].todo # <<>>
                  /\ \/ Becomes(p, [proc[p] EXCEPT !.out = o, !.todo = t])
                     \/ Becomes(p, [proc[p] EXCEPT !.todo = t])
                  /\ UNCHANGED <<conf, cmd, db, seq, beside>>
  <2>1. CASE ExpandRefund(p)
    BY <2>1 DEF ExpandRefund, At, Running
  <2>6. CASE PayUser(p)
    BY <2>6 DEF PayUser, At, Running
  <2>5. CASE FindPages(p)
    BY <2>5 DEF FindPages, At, Running
  <2>2. CASE LookAtLast(p)
    BY <2>2 DEF LookAtLast, At, Running
  <2>3. CASE ExtractTable(p)
    BY <2>3 DEF ExtractTable, At, Running
  <2>4. QED
    BY <2>1, <2>2, <2>3, <2>5, <2>6
<1>2. DOMAIN proc = Procs /\ DOMAIN proc[p] = Fields
  BY DEF TypeInv, ProcOK
<1>3. PICK r : Becomes(p, r) /\ (r = [proc[p] EXCEPT !.out = o, !.todo = t] \/ r = [proc[p] EXCEPT !.todo = t])
  BY <1>1
<1>4. r.own = proc[p].own /\ r.gone = proc[p].gone /\ r.state = "running" /\ r.shared = proc[p].shared
  BY <1>1, <1>2, <1>3 DEF Fields
<1>5. proc'[p] = r /\ \A q \in Procs : q # p => proc'[q] = proc[q]
  BY <1>2, <1>3, OnlyOneBecomes
<1>6. QED
  BY <1>1, <1>4, <1>5 DEF Running

-----------------------------------------------------------------------------
(* Locks: no two transactions have written the same row, and on SQLite     *)
(* only one has written at all; who runs at the same time is beside the    *)
(* other.                                                                  *)

Apart(p, q) ==
  IF conf.engine = "sqlite" THEN Written(p) = {} \/ Written(q) = {} ELSE Written(p) \cap Written(q) = {}

LockInv ==
  \A p, q \in Procs : p # q => Apart(p, q) /\ (Running(p) /\ Running(q) => q \in beside[p])

LEMMA LockInit == ASSUME Init PROVE LockInv
<1>1. ASSUME NEW p \in Procs PROVE Written(p) = {} /\ ~Running(p)
  <2>1. proc[p] = Idle \/ proc[p] = [Idle EXCEPT !.state = "done"]
    BY DEF Init
  <2>2. proc[p].own = <<>> /\ proc[p].gone = {} /\ proc[p].state \in {"ready", "done"}
    BY <2>1 DEF Idle
  <2>3. DOMAIN <<>> = {}
    OBVIOUS
  <2>4. QED
    BY <2>2, <2>3 DEF Written, Running
<1>2. QED
  BY <1>1 DEF LockInv, Apart

(* A statement adds rows that nobody else has written.                     *)
LEMMA LocksGrow ==
  ASSUME TypeInv, LockInv, NEW p \in Procs, Running(p), proc[p].todo # <<>>, Step(p).op \in Writes,
         Blockers(p) = {}, UNCHANGED <<conf, beside>>,
         \A q \in Procs : q # p => proc'[q] = proc[q],
         proc'[p].state = "running",
         NEW X, Written(p)' \subseteq Written(p) \cup X, \A q \in Procs : q # p => X \cap Written(q) = {}
  PROVE  LockInv'
<1>1. \A q \in Procs : q # p => Written(q)' = Written(q) /\ Running(q)' = Running(q)
  BY DEF Written, Running
<1>2. Running(p)'
  BY DEF Running
<1>3. CASE conf.engine = "sqlite"
  <2>1. \A q \in Procs : q # p => Written(q) = {}
    BY <1>3 DEF Blockers
  <2>2. QED
    BY <1>1, <1>2, <1>3, <2>1 DEF LockInv, Apart
<1>4. CASE conf.engine # "sqlite"
  <2> SUFFICES ASSUME NEW x \in Procs, NEW y \in Procs, x # y
               PROVE  Apart(x, y)' /\ (Running(x)' /\ Running(y)' => y \in beside[x])
    BY DEF LockInv
  <2>1. Written(x) \cap Written(y) = {} /\ (Running(x) /\ Running(y) => y \in beside[x])
    BY <1>4 DEF LockInv, Apart
  <2>2. Running(x)' /\ Running(y)' => y \in beside[x]
    BY <1>1, <1>2, <2>1
  <2>3. Written(x)' \cap Written(y)' = {}
    <3>1. CASE x = p
      BY <1>1, <2>1, <3>1
    <3>2. CASE y = p
      BY <1>1, <2>1, <3>2
    <3>3. CASE x # p /\ y # p
      BY <1>1, <2>1, <3>3
    <3>4. QED
      BY <3>1, <3>2, <3>3
  <2>4. QED
    BY <1>4, <2>2, <2>3 DEF Apart
<1>5. QED
  BY <1>3, <1>4

(* What a statement touches, nobody else has written.                      *)
LEMMA TouchedIsFree ==
  ASSUME NEW p \in Procs, Running(p), proc[p].todo # <<>>, Step(p).op \in Writes, Blockers(p) = {}
  PROVE  \A q \in Procs : q # p => Touched(p) \cap Written(q) = {}
<1>1. CASE conf.engine = "sqlite"
  BY <1>1 DEF Blockers
<1>2. CASE conf.engine # "sqlite"
  BY <1>2 DEF Blockers
<1>3. QED
  BY <1>1, <1>2

LEMMA LockExecute ==
  ASSUME TypeInv, LockInv, NEW p \in Procs, Execute(p)
  PROVE  LockInv'
<1>1. Blockers(p) = {} /\ UNCHANGED <<conf, cmd, db, beside>>
      /\ (Update(p) \/ InsertRow(p) \/ WriteJobNew(p) \/ DeleteRows(p))
  BY DEF Execute, Statement
<1>2. Running(p) /\ proc[p].todo # <<>> /\ Step(p).op \in Writes
  BY <1>1 DEF Update, InsertRow, WriteJobNew, DeleteRows, At, Writes
<1>3. \A q \in Procs : q # p => Touched(p) \cap Written(q) = {}
  BY <1>1, <1>2, TouchedIsFree
<1>4. ASSUME NEW rows, Wrote(p, rows), \A q \in Procs : q # p => DOMAIN rows \cap Written(q) = {}
      PROVE  LockInv'
  <2>1. /\ DOMAIN proc'[p].own = DOMAIN rows \cup DOMAIN proc[p].own
        /\ proc'[p].gone = proc[p].gone /\ proc'[p].state = "running"
        /\ \A q \in Procs : q # p => proc'[q] = proc[q]
    BY <1>2, <1>4, WroteIs DEF Running
  <2>2. Written(p)' \subseteq Written(p) \cup DOMAIN rows
    BY <2>1 DEF Written
  <2>3. QED
    BY <1>1, <1>2, <1>4, <2>1, <2>2, LocksGrow
<1>5. ASSUME AddRow(p), Step(p).op \in {"insert", "record"} PROVE LockInv'
  <2>1. PICK k : Wrote(p, [x \in {k} |-> NewRow(p)]) /\ \A q \in Procs : q # p => k \notin Written(q)
    BY <1>1, <1>2, <1>5, AddRowIs
  <2> DEFINE rows == [x \in {k} |-> NewRow(p)]
  <2>2. DOMAIN rows = {k}
    OBVIOUS
  <2>3. Wrote(p, rows)
    BY <2>1
  <2> HIDE DEF rows
  <2>4. QED
    BY <1>4, <2>1, <2>2, <2>3
<1>6. CASE Update(p)
  <2>1. PICK rows : Wrote(p, rows) /\ DOMAIN rows = Touched(p)
    BY <1>6, UpdateIs
  <2>2. QED
    BY <1>3, <1>4, <2>1
<1>7. CASE InsertRow(p)
  BY <1>5, <1>7 DEF InsertRow, At
<1>8. CASE WriteJobNew(p)
  <2>1. CASE Anew(p)
    BY <1>5, <1>8, <2>1 DEF WriteJobNew, At
  <2>2. CASE ~Anew(p)
    <3> DEFINE rows == [k \in Touched(p) |-> NewRow(p)]
    <3>1. Wrote(p, rows) /\ DOMAIN rows = Touched(p)
      BY <1>8, <2>2 DEF WriteJobNew
    <3> HIDE DEF rows
    <3>2. QED
      BY <1>3, <1>4, <3>1
  <2>3. QED
    BY <2>1, <2>2
<1>9. CASE DeleteRows(p)
  <2>1. /\ DOMAIN proc'[p].own = {} /\ proc'[p].gone = proc[p].gone \cup Touched(p)
        /\ proc'[p].state = "running" /\ \A q \in Procs : q # p => proc'[q] = proc[q]
    BY <1>9, DeleteIs
  <2>2. Written(p)' \subseteq Written(p) \cup Touched(p)
    BY <2>1 DEF Written
  <2>3. QED
    BY <1>1, <1>2, <1>3, <2>1, <2>2, LocksGrow
<1>10. QED
  BY <1>1, <1>6, <1>7, <1>8, <1>9

(* Transactions that end or do not grow leave the others apart.            *)
LEMMA LocksStay ==
  ASSUME LockInv, NEW p \in Procs, conf' = conf,
         \A q \in Procs : q # p => proc'[q] = proc[q],
         Written(p)' \subseteq Written(p),
         \A q \in Procs : q # p =>
           /\ Running(p)' /\ Running(q) => q \in beside'[p] /\ p \in beside'[q]
           /\ beside[q] \subseteq beside'[q]
  PROVE  LockInv'
<1>1. \A q \in Procs : q # p => Written(q)' = Written(q) /\ Running(q)' = Running(q)
  BY DEF Written, Running
<1>2. \A q \in Procs : Written(q)' \subseteq Written(q)
  BY <1>1
<1>3. ASSUME NEW x \in Procs, NEW y \in Procs, x # y
      PROVE  Apart(x, y)' /\ (Running(x)' /\ Running(y)' => y \in beside'[x])
  <2>1. Apart(x, y)'
    BY <1>2, <1>3 DEF LockInv, Apart
  <2>2. CASE x = p \/ y = p
    BY <1>1, <1>3, <2>1, <2>2
  <2>3. CASE x # p /\ y # p
    BY <1>1, <1>3, <2>1, <2>3 DEF LockInv
  <2>4. QED
    BY <2>2, <2>3
<1>4. QED
  BY <1>3 DEF LockInv

LEMMA LockNext ==
  ASSUME TypeInv, LockInv, [Next]_vars
  PROVE  LockInv'
<1>1. CASE UNCHANGED vars
  BY <1>1 DEF vars, LockInv, Apart, Written, Running
<1>2. ASSUME NEW p \in Procs, Work(p) \/ GiveUp(p) PROVE LockInv'
  <2>1. CASE Start(p)
    <3>1. /\ proc[p].state = "ready" /\ conf' = conf
          /\ proc'[p].own = <<>> /\ proc'[p].gone = {}
          /\ \A q \in Procs : q # p => proc'[q] = proc[q]
          /\ beside' = [q \in Procs |-> IF q = p THEN {x \in Procs : Running(x)}
                                        ELSE IF Running(q) THEN beside[q] \cup {p} ELSE beside[q]]
      BY <2>1, StartIs
    <3>2. DOMAIN <<>> = {}
      OBVIOUS
    <3>3. Written(p)' \subseteq Written(p)
      BY <3>1, <3>2 DEF Written
    <3>4. \A q \in Procs : q # p => /\ Running(q) => q \in beside'[p] /\ p \in beside'[q]
                                    /\ beside[q] \subseteq beside'[q]
      BY <3>1
    <3>5. QED
      BY <3>1, <3>3, <3>4, LocksStay
  <2>2. CASE ExpandRefund(p) \/ PayUser(p) \/ FindPages(p) \/ LookAtLast(p) \/ ExtractTable(p)
    <3>1. /\ Running(p) /\ conf' = conf /\ beside' = beside
          /\ proc'[p].own = proc[p].own /\ proc'[p].gone = proc[p].gone
          /\ \A q \in Procs : q # p => proc'[q] = proc[q]
      BY <2>2, ReadingIs
    <3>2. Written(p)' \subseteq Written(p)
      BY <3>1 DEF Written
    <3>3. \A q \in Procs : q # p => (Running(q) => q \in beside[p] /\ p \in beside[q])
      BY <3>1 DEF LockInv
    <3>4. QED
      BY <3>1, <3>2, <3>3, LocksStay
  <2>3. CASE Execute(p)
    BY <2>3, LockExecute
  <2>4. CASE Refused(p) \/ GiveUp(p)
    <3>1. RollBack(p) /\ conf' = conf /\ beside' = beside
      BY <2>4 DEF Refused, GiveUp
    <3>2. /\ DOMAIN proc'[p].own = {} /\ proc'[p].gone = {} /\ proc'[p].state = "failed"
          /\ \A q \in Procs : q # p => proc'[q] = proc[q]
      BY <3>1, RollBackIs
    <3>3. Written(p)' \subseteq Written(p) /\ ~Running(p)'
      BY <3>2 DEF Written, Running
    <3>4. QED
      BY <3>1, <3>2, <3>3, LocksStay
  <2>5. CASE CommitWork(p)
    <3>1. /\ Running(p) /\ conf' = conf /\ beside' = beside
          /\ DOMAIN proc'[p].own = {} /\ proc'[p].gone = {}
          /\ \A q \in Procs : q # p => proc'[q] = proc[q]
      BY <2>5, CommitIs
    <3>2. Written(p)' \subseteq Written(p)
      BY <3>1 DEF Written
    <3>3. \A q \in Procs : q # p => (Running(q) => q \in beside[p] /\ p \in beside[q])
      BY <3>1 DEF LockInv
    <3>4. QED
      BY <3>1, <3>2, <3>3, LocksStay
  <2>6. QED
    BY <1>2, <2>1, <2>2, <2>3, <2>4, <2>5 DEF Work
<1>3. QED
  BY <1>1, <1>2 DEF Next, AllOver

-----------------------------------------------------------------------------
(* Names: a user's row that a process has changed has the name it has for  *)
(* the others; a row they do not see is that of an user being added.       *)

NameInv ==
  \A p \in Procs : \A k \in DOMAIN proc[p].own :
    k[1] = "users" => IF k \in DOMAIN db THEN proc[p].own[k].name = db[k].name ELSE cmd[p].do = "adduser"

LEMMA NameInit == ASSUME Init PROVE NameInv
<1>1. ASSUME NEW p \in Procs PROVE DOMAIN proc[p].own = {}
  <2>1. proc[p] = Idle \/ proc[p] = [Idle EXCEPT !.state = "done"]
    BY DEF Init
  <2>2. proc[p].own = <<>>
    BY <2>1 DEF Idle
  <2>3. DOMAIN <<>> = {}
    OBVIOUS
  <2>4. QED
    BY <2>2, <2>3
<1>2. QED
  BY <1>1 DEF NameInv

(* A commit leaves the rows alone that another process has written.        *)
LEMMA CommitKeeps ==
  ASSUME TypeInv, LockInv, NEW p \in Procs, CommitWork(p), NEW q \in Procs, q # p, NEW k \in Written(q)
  PROVE  /\ k \in DOMAIN db' <=> k \in DOMAIN db
         /\ k \in DOMAIN db => db'[k] = db[k]
<1>1. k \notin Written(p)
  BY DEF LockInv, Apart
<1>2. db' = View(p)
  BY CommitIs
<1>3. k \notin DOMAIN proc[p].own /\ k \notin proc[p].gone
  BY <1>1 DEF Written
<1>4. QED
  BY <1>2, <1>3, ViewIs

(* What the other processes see of the step of one.                        *)
LEMMA OthersSee ==
  ASSUME TypeInv, LockInv, NEW p \in Procs, Work(p) \/ GiveUp(p)
  PROVE  /\ UNCHANGED <<conf, cmd>>
         /\ \A q \in Procs : q # p => proc'[q] = proc[q]
         /\ db' = db \/ CommitWork(p)
         /\ ~Start(p) => beside' = beside /\ Running(p)
<1>1. CASE Start(p)
  BY <1>1, StartIs
<1>2. CASE ExpandRefund(p) \/ PayUser(p) \/ FindPages(p) \/ LookAtLast(p) \/ ExtractTable(p)
  BY <1>2, ReadingIs
<1>3. CASE Execute(p)
  <2>1. UNCHANGED <<conf, cmd, db, beside>> /\ (Update(p) \/ InsertRow(p) \/ WriteJobNew(p) \/ DeleteRows(p))
    BY <1>3 DEF Execute, Statement
  <2>2. \E r : Becomes(p, r)
    BY <2>1 DEF Update, InsertRow, WriteJobNew, DeleteRows, AddRow, Wrote
  <2>3. \A q \in Procs : q # p => proc'[q] = proc[q]
    BY <2>2, OnlyOneBecomes DEF TypeInv
  <2>4. Running(p)
    BY <2>1 DEF Update, InsertRow, WriteJobNew, DeleteRows, At
  <2>5. QED
    BY <2>1, <2>3, <2>4
<1>4. CASE Refused(p)
  <2>1. UNCHANGED <<conf, cmd, db, beside>> /\ RollBack(p) /\ Running(p)
    BY <1>4 DEF Refused, Raises, At
  <2>2. QED
    BY <2>1, RollBackIs
<1>5. CASE GiveUp(p)
  <2>1. UNCHANGED <<conf, cmd, db, beside>> /\ RollBack(p) /\ Blockers(p) # {}
    <3>1. Deadlocked(p) => Blockers(p) # {}
      BY DEF Deadlocked
    <3>2. QED
      BY <1>5, <3>1 DEF GiveUp
  <2>2. Running(p)
    BY <2>1 DEF Blockers
  <2>3. QED
    BY <2>1, <2>2, RollBackIs
<1>6. CASE CommitWork(p)
  BY <1>6, CommitIs
<1>7. QED
  BY <1>1, <1>2, <1>3, <1>4, <1>5, <1>6 DEF Work

(* A job's record that takes the place of another.                         *)
LEMMA ReplacedIs ==
  ASSUME TypeInv, NEW p \in Procs, WriteJobNew(p), ~Anew(p)
  PROVE  /\ Running(p) /\ proc[p].todo # <<>> /\ Step(p).op = "record" /\ seq' = seq
         /\ conf.disablehistory /\ Step(p).last[1] = "jobhistory"
         /\ Touched(p) = {Step(p).last} \cap DOMAIN View(p)
         /\ Wrote(p, [k \in Touched(p) |-> NewRow(p)])
<1>1. /\ Running(p) /\ proc[p].todo # <<>> /\ Step(p).op = "record" /\ seq' = seq
      /\ Step(p).last # Unread /\ Wrote(p, [k \in Touched(p) |-> NewRow(p)])
  BY DEF WriteJobNew, At
<1>2. conf.disablehistory /\ Step(p).last # None
  BY DEF Anew
<1>3. MayDo(cmd[p].do, Step(p))
  BY <1>1, StepMayBeDone
<1>4. Step(p).last[1] = "jobhistory"
  BY <1>1, <1>2, <1>3 DEF MayDo
<1>5. Touched(p) = {Step(p).last} \cap DOMAIN View(p)
  BY <1>1, <1>4 DEF Touched, Rows
<1>6. QED
  BY <1>1, <1>2, <1>4, <1>5

(* What a statement writes of users: the rows it updates keep their names, *)
(* others are added.                                                       *)
LEMMA NameExecute ==
  ASSUME TypeInv, NameInv, NEW p \in Procs, Execute(p), NEW k \in DOMAIN proc'[p].own, k[1] = "users"
  PROVE  IF k \in DOMAIN db THEN proc'[p].own[k].name = db[k].name ELSE cmd[p].do = "adduser"
<1>1. Blockers(p) = {} /\ (Update(p) \/ InsertRow(p) \/ WriteJobNew(p) \/ DeleteRows(p))
  BY DEF Execute, Statement
<1> DEFINE Good(x, r) == IF x \in DOMAIN db THEN r.name = db[x].name ELSE cmd[p].do = "adduser"
<1>2. \A x \in DOMAIN proc[p].own : x[1] = "users" => Good(x, proc[p].own[x])
  BY DEF NameInv
<1>3. ASSUME NEW rows, Wrote(p, rows), \A x \in DOMAIN rows : x[1] = "users" => Good(x, rows[x])
      PROVE  Good(k, proc'[p].own[k])
  <2>1. /\ DOMAIN proc'[p].own = DOMAIN rows \cup DOMAIN proc[p].own
        /\ proc'[p].own[k] = IF k \in DOMAIN rows THEN rows[k] ELSE proc[p].own[k]
    BY <1>3, WroteIs
  <2> HIDE DEF Good
  <2>2. QED
    BY <1>2, <1>3, <2>1
<1>4. CASE Update(p)
  <2>1. PICK rows : /\ Wrote(p, rows) /\ DOMAIN rows \subseteq DOMAIN View(p)
                    /\ \A x \in DOMAIN rows : rows[x].name = View(p)[x].name
    BY <1>4, UpdateIs DEF Kept
  <2>2. ASSUME NEW x \in DOMAIN rows, x[1] = "users" PROVE Good(x, rows[x])
    <3>1. x \in DOMAIN View(p) /\ rows[x].name = View(p)[x].name
      BY <2>1, <2>2
    <3>2. CASE x \in DOMAIN proc[p].own
      <4>1. View(p)[x] = proc[p].own[x]
        BY <3>1, <3>2, ViewIs
      <4>2. QED
        BY <1>2, <2>2, <3>1, <3>2, <4>1
    <3>3. CASE x \notin DOMAIN proc[p].own
      <4>1. View(p)[x] = db[x] /\ x \in DOMAIN db
        BY <3>1, <3>3, ViewIs
      <4>2. QED
        BY <3>1, <4>1
    <3>4. QED
      BY <3>2, <3>3
  <2>3. QED
    BY <1>3, <2>1, <2>2
<1>5. ASSUME AddRow(p), At(p, "insert") \/ At(p, "record") PROVE Good(k, proc'[p].own[k])
  <2>1. Running(p) /\ proc[p].todo # <<>> /\ Step(p).op \in {"insert", "record"}
    BY <1>5 DEF At
  <2>2. PICK n, x : /\ x = <<NewTable(p), n>> /\ x \notin DOMAIN View(p)
                    /\ Wrote(p, [y \in {x} |-> NewRow(p)])
    BY <1>1, <1>5, <2>1, AddRowIs
  <2>3. MayDo(cmd[p].do, Step(p))
    BY <2>1, StepMayBeDone
  <2>4. x[1] = "users" => cmd[p].do = "adduser"
    BY <2>1, <2>2, <2>3 DEF MayDo, NewTable, AddedBy
  <2>5. proc[p].gone = {}
    BY <2>1, NewRowIsRow DEF TypeInv, ProcOK
  <2>6. x \notin DOMAIN db
    BY <2>2, <2>5, ViewIs
  <2> DEFINE rows == [y \in {x} |-> NewRow(p)]
  <2>7. Wrote(p, rows) /\ \A y \in DOMAIN rows : y[1] = "users" => Good(y, rows[y])
    BY <2>2, <2>4, <2>6
  <2> HIDE DEF rows, Good
  <2>8. QED
    BY <1>3, <2>7
<1>6. CASE InsertRow(p)
  BY <1>5, <1>6 DEF InsertRow
<1>7. CASE WriteJobNew(p)
  <2>1. CASE Anew(p)
    BY <1>5, <1>7, <2>1 DEF WriteJobNew
  <2>2. CASE ~Anew(p)
    <3> DEFINE rows == [x \in Touched(p) |-> NewRow(p)]
    <3>1. Wrote(p, rows) /\ \A x \in Touched(p) : x[1] = "jobhistory"
      BY <1>7, <2>2, ReplacedIs
    <3>2. DOMAIN rows = Touched(p)
      OBVIOUS
    <3> HIDE DEF rows
    <3>3. \A x \in DOMAIN rows : x[1] # "users"
      BY <3>1, <3>2
    <3>4. QED
      BY <1>3, <3>1, <3>3
  <2>3. QED
    BY <2>1, <2>2
<1>8. CASE DeleteRows(p)
  BY <1>8, DeleteIs
<1>9. QED
  BY <1>1, <1>4, <1>6, <1>7, <1>8

LEMMA NameNext ==
  ASSUME TypeInv, LockInv, NameInv, [Next]_vars
  PROVE  NameInv'
<1>1. CASE UNCHANGED vars
  BY <1>1 DEF vars, NameInv
<1>2. ASSUME NEW p \in Procs, Work(p) \/ GiveUp(p) PROVE NameInv'
  <2>1. /\ UNCHANGED <<conf, cmd>>
        /\ \A q \in Procs : q # p => proc'[q] = proc[q]
        /\ db' = db \/ CommitWork(p)
    BY <1>2, OthersSee
  <2>2. ASSUME NEW q \in Procs, q # p, NEW k \in DOMAIN proc[q].own, k[1] = "users"
        PROVE  IF k \in DOMAIN db' THEN proc[q].own[k].name = db'[k].name ELSE cmd[q].do = "adduser"
    <3>1. /\ k \in DOMAIN db' <=> k \in DOMAIN db
          /\ k \in DOMAIN db => db'[k] = db[k]
      <4>1. k \in Written(q)
        BY DEF Written
      <4>2. QED
        BY <2>1, <2>2, <4>1, CommitKeeps
    <3>2. IF k \in DOMAIN db THEN proc[q].own[k].name = db[k].name ELSE cmd[q].do = "adduser"
      BY <2>2 DEF NameInv
    <3>3. QED
      BY <3>1, <3>2
  <2>3. ASSUME NEW k \in DOMAIN proc'[p].own, k[1] = "users"
        PROVE  IF k \in DOMAIN db' THEN proc'[p].own[k].name = db'[k].name ELSE cmd[p].do = "adduser"
    <3>1. CASE Execute(p)
      <4>1. db' = db
        BY <3>1 DEF Execute
      <4>2. QED
        BY <2>3, <3>1, <4>1, NameExecute
    <3>2. CASE ExpandRefund(p) \/ PayUser(p) \/ FindPages(p) \/ LookAtLast(p) \/ ExtractTable(p)
      BY <2>3, <3>2, ReadingIs DEF NameInv
    <3>3. CASE Start(p) \/ CommitWork(p) \/ Refused(p) \/ GiveUp(p)
      <4>1. DOMAIN proc'[p].own = {}
        <5>1. DOMAIN <<>> = {}
          OBVIOUS
        <5>2. CASE Start(p)
          BY <5>1, <5>2, StartIs
        <5>3. CASE CommitWork(p)
          BY <5>3, CommitIs
        <5>4. CASE Refused(p) \/ GiveUp(p)
          BY <5>4, RollBackIs DEF Refused, GiveUp
        <5>5. QED
          BY <3>3, <5>2, <5>3, <5>4
      <4>2. QED
        BY <2>3, <4>1
    <3>4. QED
      BY <1>2, <3>1, <3>2, <3>3 DEF Work
  <2>4. QED
    <3>1. ASSUME NEW q \in Procs, NEW k \in DOMAIN proc'[q].own, k[1] = "users"
          PROVE  IF k \in DOMAIN db' THEN proc'[q].own[k].name = db'[k].name ELSE cmd'[q].do = "adduser"
      <4>1. CASE q = p
        BY <2>1, <2>3, <3>1, <4>1
      <4>2. CASE q # p
        BY <2>1, <2>2, <3>1, <4>2
      <4>3. QED
        BY <4>1, <4>2
    <3>2. QED
      BY <3>1 DEF NameInv
<1>3. QED
  BY <1>1, <1>2 DEF Next, AllOver

-----------------------------------------------------------------------------
(* Jobs: the row a job will charge is that of one of its users, or has     *)
(* been deleted beside it, and only SQLite gives its identifier again; the *)
(* row it will replace in the history is there, or has been deleted; and   *)
(* what it has written has its record, or is going to.                     *)

Swapped(p) == /\ conf.engine = "sqlite"
              /\ \E q, r \in Procs : Ran(p, q, "delusers") /\ Ran(p, r, "adduser")
Paying(p, k) == k \in DOMAIN db /\ db[k].name \in cmd[p].users
Vanished(p, k) ==
  /\ k \notin DOMAIN db /\ \E q \in Procs : Ran(p, q, "delusers")
  /\ conf.engine # "sqlite" => k[2] \in 1 .. seq["users"] /\ \A q \in Procs : k \notin DOMAIN proc[q].own
Payer(p, k) == Paying(p, k) \/ Vanished(p, k) \/ Swapped(p)

Lost(p) == \E q \in beside[p] : cmd[q].do \in Deleters
JobStep(p, s) ==
  /\ s.op \in {"update", "record"}
  /\ s.op = "update" /\ s.key[1] = "users" => Payer(p, s.key)
  /\ s.op = "record" => s.row.job = p
  /\ s.op = "record" /\ s.last \notin {None, Unread} => s.last \in DOMAIN View(p) \/ Lost(p)
Records(t) == \E s \in Range(t) : s.op = "record"
Recorded(p) ==
  \/ \E k \in DOMAIN proc[p].own : k[1] = "jobhistory" /\ proc[p].own[k].job = p
  \/ conf.disablehistory /\ Lost(p)

PaysWell(p) ==
  \A k \in DOMAIN proc[p].own : k[1] = "users" => proc[p].own[k].name \in cmd[p].users \/ Swapped(p)
AtWork(p) ==
  /\ \A s \in Range(proc[p].todo) : JobStep(p, s)
  /\ Records(proc[p].todo) \/ (proc[p].todo = <<>> /\ proc[p].own = <<>>) \/ Recorded(p)
JobInv == \A p \in Procs : cmd[p].do = "job" => PaysWell(p) /\ (Running(p) => AtWork(p))

LEMMA JobInit == ASSUME Init PROVE JobInv
<1>1. ASSUME NEW p \in Procs PROVE DOMAIN proc[p].own = {} /\ ~Running(p)
  <2>1. proc[p] = Idle \/ proc[p] = [Idle EXCEPT !.state = "done"]
    BY DEF Init
  <2>2. proc[p].own = <<>> /\ proc[p].state # "running"
    BY <2>1 DEF Idle
  <2>3. DOMAIN <<>> = {}
    OBVIOUS
  <2>4. QED
    BY <2>2, <2>3 DEF Running
<1>2. QED
  BY <1>1 DEF JobInv, PaysWell

(* Who runs beside a process is never forgotten.                           *)
LEMMA BesideGrows ==
  ASSUME TypeInv, LockInv, NEW r \in Procs, Work(r) \/ GiveUp(r), NEW p \in Procs, Running(p)
  PROVE  /\ beside[p] \subseteq beside'[p]
         /\ Running(r) /\ r # p => r \in beside[p]
<1>1. CASE Start(r)
  <2>1. /\ proc[r].state = "ready"
        /\ beside' = [q \in Procs |-> IF q = r THEN {x \in Procs : Running(x)}
                                      ELSE IF Running(q) THEN beside[q] \cup {r} ELSE beside[q]]
    BY <1>1, StartIs
  <2>2. QED
    BY <2>1 DEF Running
<1>2. CASE ~Start(r)
  <2>1. beside' = beside
    BY <1>2, OthersSee
  <2>2. QED
    BY <2>1 DEF LockInv
<1>3. QED
  BY <1>1, <1>2

(* What a statement writes was there, or, on PostgreSQL, has an identifier *)
(* that was never used.                                                    *)
LEMMA FreshOrThere ==
  ASSUME TypeInv, LockInv, NEW p \in Procs, Work(p) \/ GiveUp(p), conf.engine # "sqlite"
  PROVE  /\ \A t \in TableNames : seq[t] <= seq'[t]
         /\ \A k \in DOMAIN proc'[p].own : k \in DOMAIN View(p) \/ k[2] \notin 1 .. seq[k[1]]
<1> DEFINE Grows == \A t \in TableNames : seq[t] <= seq'[t]
           Old(k) == k \in DOMAIN View(p) \/ k[2] \notin 1 .. seq[k[1]]
           Fine == Grows /\ \A k \in DOMAIN proc'[p].own : Old(k)
<1>1. seq \in [TableNames -> Nat]
  BY DEF TypeInv
<1>2. seq' = seq => Grows
  BY <1>1
<1>3. \A k \in DOMAIN proc[p].own : Old(k)
  BY ViewIs
<1> HIDE DEF Grows, Old
<1>4. CASE Start(p)
  <2>1. seq' = seq /\ proc'[p].own = <<>>
    BY <1>4, StartIs
  <2>2. DOMAIN <<>> = {}
    OBVIOUS
  <2>3. QED
    BY <1>2, <2>1, <2>2 DEF Grows, Old
<1>5. CASE ExpandRefund(p) \/ PayUser(p) \/ FindPages(p) \/ LookAtLast(p) \/ ExtractTable(p)
  <2>1. Fine
    BY <1>2, <1>3, <1>5, ReadingIs
  <2>2. QED
    BY <2>1 DEF Grows, Old
<1>6. CASE Refused(p) \/ GiveUp(p)
  <2>1. seq' = seq /\ DOMAIN proc'[p].own = {}
    BY <1>6, RollBackIs DEF Refused, GiveUp
  <2>2. QED
    BY <1>2, <2>1 DEF Grows, Old
<1>7. CASE CommitWork(p)
  <2>1. seq' = seq /\ DOMAIN proc'[p].own = {}
    BY <1>7, CommitIs
  <2>2. QED
    BY <1>2, <2>1 DEF Grows, Old
<1>8. CASE Execute(p)
  <2>1. Blockers(p) = {} /\ (Update(p) \/ InsertRow(p) \/ WriteJobNew(p) \/ DeleteRows(p))
    BY <1>8 DEF Execute, Statement
  <2>2. ASSUME NEW rows, Wrote(p, rows), \A k \in DOMAIN rows : Old(k), Grows PROVE Fine
    BY <1>3, <2>2, WroteIs
  <2>3. ASSUME Update(p) PROVE Fine
    <3>1. PICK rows : Wrote(p, rows) /\ DOMAIN rows \subseteq DOMAIN View(p) /\ seq' = seq
      BY <2>3, UpdateIs
    <3>2. \A k \in DOMAIN rows : Old(k)
      BY <3>1 DEF Old
    <3>3. QED
      BY <1>2, <2>2, <3>1, <3>2
  <2>4. ASSUME AddRow(p), At(p, "insert") \/ At(p, "record") PROVE Fine
    <3>1. Running(p) /\ proc[p].todo # <<>> /\ Step(p).op \in {"insert", "record"}
      BY <2>4 DEF At
    <3>2. PICK n, k : /\ n \in Nat /\ k = <<NewTable(p), n>> /\ Wrote(p, [x \in {k} |-> NewRow(p)])
                              /\ seq' = [seq EXCEPT ![k[1]] = n]
                              /\ k[1] \in TableNames /\ n = seq[k[1]] + 1
      BY <2>1, <2>4, <3>1, AddRowIs
    <3>3. Grows
      BY <1>1, <3>2 DEF Grows
    <3>4. Old(k)
      <4>1. k[2] = n /\ seq[k[1]] \in Nat
        BY <1>1, <3>2
      <4>2. QED
        BY <3>2, <4>1 DEF Old
    <3> DEFINE rows == [x \in {k} |-> NewRow(p)]
    <3>5. Wrote(p, rows) /\ \A x \in DOMAIN rows : Old(x)
      BY <3>2, <3>4
    <3> HIDE DEF rows
    <3>6. QED
      BY <2>2, <3>3, <3>5
  <2>5. ASSUME InsertRow(p) PROVE Fine
    BY <2>4, <2>5 DEF InsertRow
  <2>6. ASSUME WriteJobNew(p), Anew(p) PROVE Fine
    BY <2>4, <2>6 DEF WriteJobNew
  <2>7. ASSUME WriteJobNew(p), ~Anew(p) PROVE Fine
    <3> DEFINE rows == [k \in Touched(p) |-> NewRow(p)]
    <3>1. seq' = seq /\ Wrote(p, rows) /\ Touched(p) \subseteq DOMAIN View(p)
      BY <2>7, ReplacedIs
    <3>2. DOMAIN rows = Touched(p)
      OBVIOUS
    <3> HIDE DEF rows
    <3>3. \A k \in DOMAIN rows : Old(k)
      BY <3>1, <3>2 DEF Old
    <3>4. QED
      BY <1>2, <2>2, <3>1, <3>3
  <2>8. ASSUME DeleteRows(p) PROVE Fine
    <3>1. seq' = seq /\ DOMAIN proc'[p].own = {}
      BY <2>8, DeleteIs
    <3>2. QED
      BY <1>2, <3>1
  <2>9. Fine
    BY <2>1, <2>3, <2>5, <2>6, <2>7, <2>8
  <2>10. QED
    BY <2>9 DEF Grows, Old
<1>9. QED
  BY <1>4, <1>5, <1>6, <1>7, <1>8 DEF Work

(* Whatever happens, the row a job is to charge stays that of its user, or *)
(* is gone for good, or SQLite gave its identifier to another.             *)
LEMMA PayerStays ==
  ASSUME TypeInv, LockInv, NameInv, NEW r \in Procs, Work(r) \/ GiveUp(r),
         NEW p \in Procs, cmd[p].do = "job", Running(p), NEW k, k[1] = "users", Payer(p, k)
  PROVE  Payer(p, k)'
<1>1. /\ UNCHANGED <<conf, cmd>>
      /\ \A q \in Procs : q # r => proc'[q] = proc[q]
      /\ db' = db \/ CommitWork(r)
  BY OthersSee
<1>2. \A q, do : Ran(p, q, do) => Ran(p, q, do)'
  BY <1>1, BesideGrows DEF Ran
<1>3. Running(r) /\ r # p => r \in beside[p]
  BY BesideGrows
<1>4. CASE Swapped(p)
  <2>1. Swapped(p)'
    BY <1>1, <1>2, <1>4 DEF Swapped
  <2>2. QED
    BY <2>1 DEF Payer
<1>5. CASE Paying(p, k)
  <2>1. CASE db' = db
    BY <1>1, <1>5, <2>1 DEF Payer, Paying
  <2>2. CASE CommitWork(r)
    <3>1. /\ Running(r) /\ db' = View(r) /\ seq' = seq
          /\ DOMAIN proc'[r].own = {}
      BY <2>2, CommitIs
    <3>2. CASE k \in DOMAIN proc[r].own
      <4>1. k \in DOMAIN db' /\ db'[k] = proc[r].own[k]
        BY <3>1, <3>2, ViewIs
      <4>2. proc[r].own[k].name = db[k].name
        BY <1>5, <3>2 DEF NameInv, Paying
      <4>3. QED
        BY <1>1, <1>5, <4>1, <4>2 DEF Payer, Paying
    <3>3. CASE k \notin DOMAIN proc[r].own /\ k \notin proc[r].gone
      <4>1. k \in DOMAIN db' /\ db'[k] = db[k]
        BY <1>5, <3>1, <3>3, ViewIs DEF Paying
      <4>2. QED
        BY <1>1, <1>5, <4>1 DEF Payer, Paying
    <3>4. CASE k \notin DOMAIN proc[r].own /\ k \in proc[r].gone
      <4>1. cmd[r].do = "delusers" /\ r # p
        BY <3>4 DEF TypeInv, ProcOK
      <4>2. Ran(p, r, "delusers")
        BY <1>3, <3>1, <4>1 DEF Ran
      <4>3. k \notin DOMAIN db'
        BY <3>1, <3>4, ViewIs
      <4>4. k[2] \in 1 .. seq["users"]
        BY <1>5 DEF TypeInv, Paying, IsKey
      <4>5. conf.engine # "sqlite" => \A q \in Procs : k \notin DOMAIN proc'[q].own
        <5> SUFFICES ASSUME conf.engine # "sqlite", NEW q \in Procs PROVE k \notin DOMAIN proc'[q].own
          OBVIOUS
        <5>1. CASE q = r
          BY <3>1, <5>1
        <5>2. CASE q # r
          <6>1. Written(q) \cap Written(r) = {} /\ k \in Written(r)
            BY <3>4, <5>2 DEF LockInv, Apart, Written
          <6>2. QED
            BY <1>1, <5>2, <6>1 DEF Written
        <5>3. QED
          BY <5>1, <5>2
      <4>6. Vanished(p, k)'
        BY <1>1, <1>2, <3>1, <4>2, <4>3, <4>4, <4>5 DEF Vanished
      <4>7. QED
        BY <4>6 DEF Payer
    <3>5. QED
      BY <3>2, <3>3, <3>4
  <2>3. QED
    BY <1>1, <2>1, <2>2
<1>6. CASE Vanished(p, k)
  <2>1. k \notin DOMAIN db /\ \E q \in Procs : Ran(p, q, "delusers")
    BY <1>6 DEF Vanished
  <2>2. CASE conf.engine = "sqlite"
    <3>1. CASE k \in DOMAIN db'
      <4>1. CommitWork(r)
        BY <1>1, <2>1, <3>1
      <4>2. Running(r) /\ db' = View(r)
        BY <4>1, CommitIs
      <4>3. k \in DOMAIN proc[r].own
        BY <2>1, <3>1, <4>2, ViewIs
      <4>4. cmd[r].do = "adduser" /\ r # p
        BY <2>1, <4>3 DEF NameInv
      <4>5. Ran(p, r, "adduser")
        BY <1>3, <4>2, <4>4 DEF Ran
      <4>6. Swapped(p)'
        BY <1>1, <1>2, <2>1, <2>2, <4>5 DEF Swapped
      <4>7. QED
        BY <4>6 DEF Payer
    <3>2. CASE k \notin DOMAIN db'
      <4>1. Vanished(p, k)'
        BY <1>1, <1>2, <2>1, <2>2, <3>2 DEF Vanished
      <4>2. QED
        BY <4>1 DEF Payer
    <3>3. QED
      BY <3>1, <3>2
  <2>3. CASE conf.engine # "sqlite"
    <3>1. k[2] \in 1 .. seq["users"] /\ \A q \in Procs : k \notin DOMAIN proc[q].own
      BY <1>6, <2>3 DEF Vanished
    <3>2. k \notin DOMAIN View(r)
      BY <2>1, <3>1, ViewIs
    <3>3. k \notin DOMAIN db'
      BY <1>1, <2>1, <3>2, CommitIs
    <3>4. k \notin DOMAIN proc'[r].own
      BY <2>3, <3>1, <3>2, FreshOrThere
    <3>5. \A q \in Procs : k \notin DOMAIN proc'[q].own
      BY <1>1, <3>1, <3>4
    <3>6. k[2] \in 1 .. seq'["users"]
      <4>1. seq["users"] <= seq'["users"]
        BY <2>3, FreshOrThere DEF TableNames
      <4>2. seq["users"] \in Nat /\ seq'["users"] \in Nat
        BY TypeNext DEF TypeInv, TableNames, Next
      <4>3. QED
        BY <3>1, <4>1, <4>2
    <3>7. Vanished(p, k)'
      BY <1>1, <1>2, <2>1, <3>3, <3>5, <3>6 DEF Vanished
    <3>8. QED
      BY <3>7 DEF Payer
  <2>4. QED
    BY <2>2, <2>3
<1>7. QED
  BY <1>4, <1>5, <1>6 DEF Payer

(* ... and so does the record it will replace.                             *)
LEMMA LastStays ==
  ASSUME TypeInv, LockInv, NEW r \in Procs, Work(r) \/ GiveUp(r),
         NEW p \in Procs, cmd[p].do = "job", Running(p),
         DOMAIN proc[p].own \subseteq DOMAIN proc'[p].own, proc'[p].gone = {}, r = p => db' = db,
         NEW k, k[1] = "jobhistory", k \in DOMAIN View(p) \/ Lost(p)
  PROVE  k \in DOMAIN View(p)' \/ Lost(p)'
<1>1. UNCHANGED <<conf, cmd>> /\ (db' = db \/ CommitWork(r))
  BY OthersSee
<1>2. Lost(p) => Lost(p)'
  BY <1>1, BesideGrows DEF Lost
<1>3. DOMAIN View(p)' = DOMAIN proc'[p].own \cup DOMAIN db'
  BY DEF View, Over, Restrict
<1>4. CASE k \in DOMAIN proc[p].own
  BY <1>3, <1>4
<1>5. CASE k \in DOMAIN db
  <2>1. CASE db' = db
    BY <1>3, <1>5, <2>1
  <2>2. CASE CommitWork(r) /\ r # p
    <3>1. Running(r) /\ db' = View(r)
      BY <2>2, CommitIs
    <3>2. CASE k \notin proc[r].gone
      BY <1>3, <1>5, <3>1, <3>2, ViewIs
    <3>3. CASE k \in proc[r].gone
      <4>1. cmd[r].do \in Deleters
        BY <3>3 DEF TypeInv, ProcOK, Members
      <4>2. r \in beside[p]
        BY <2>2, <3>1, BesideGrows
      <4>3. QED
        BY <1>2, <4>1, <4>2 DEF Lost
    <3>4. QED
      BY <3>2, <3>3
  <2>3. QED
    BY <1>1, <2>1, <2>2
<1>6. k \in DOMAIN View(p) => k \in DOMAIN proc[p].own \/ k \in DOMAIN db
  BY ViewIs
<1>7. QED
  BY <1>2, <1>4, <1>5, <1>6

LEMMA StepsStay ==
  ASSUME TypeInv, LockInv, NameInv, NEW r \in Procs, Work(r) \/ GiveUp(r),
         NEW p \in Procs, cmd[p].do = "job", Running(p),
         DOMAIN proc[p].own \subseteq DOMAIN proc'[p].own, proc'[p].gone = {}, r = p => db' = db,
         NEW s \in Range(proc[p].todo), JobStep(p, s)
  PROVE  JobStep(p, s)'
<1>1. MayDo("job", s)
  BY DEF TypeInv, ProcOK, Planned
<1>2. s.op = "update" /\ s.key[1] = "users" => Payer(p, s.key)'
  BY PayerStays DEF JobStep
<1>3. ASSUME s.op = "record", s.last \notin {None, Unread} PROVE s.last \in DOMAIN View(p)' \/ Lost(p)'
  <2>1. s.last[1] = "jobhistory"
    BY <1>1, <1>3 DEF MayDo
  <2>2. PICK k : k = s.last
    OBVIOUS
  <2>3. k \in DOMAIN View(p) \/ Lost(p)
    BY <1>3, <2>2 DEF JobStep
  <2>4. k \in DOMAIN View(p)' \/ Lost(p)'
    BY <2>1, <2>2, <2>3, LastStays
  <2>5. QED
    BY <2>2, <2>4
<1>4. QED
  BY <1>2, <1>3 DEF JobStep

(* The step of another process.                                            *)
LEMMA JobOthers ==
  ASSUME TypeInv, LockInv, NameInv, JobInv, NEW r \in Procs, Work(r) \/ GiveUp(r),
         NEW p \in Procs, p # r, cmd[p].do = "job"
  PROVE  PaysWell(p)' /\ (Running(p)' => AtWork(p)')
<1>1. UNCHANGED <<conf, cmd>> /\ proc'[p] = proc[p]
  BY OthersSee
<1>2. ASSUME Running(p) PROVE PaysWell(p)' /\ AtWork(p)'
  <2>1. PaysWell(p) /\ AtWork(p)
    BY <1>2 DEF JobInv
  <2>2. beside[p] \subseteq beside'[p]
    BY <1>2, BesideGrows
  <2>3. Swapped(p) => Swapped(p)'
    BY <1>1, <2>2 DEF Swapped, Ran
  <2>4. PaysWell(p)'
    BY <1>1, <2>1, <2>3 DEF PaysWell
  <2>5. proc[p].gone = {}
    BY DEF TypeInv, ProcOK, Deleting, Deleters
  <2>6. \A s \in Range(proc[p].todo) : JobStep(p, s)'
    <3> SUFFICES ASSUME NEW s \in Range(proc[p].todo) PROVE JobStep(p, s)'
      OBVIOUS
    <3>1. JobStep(p, s)
      BY <2>1 DEF AtWork
    <3>2. QED
      BY <1>1, <1>2, <2>5, <3>1, StepsStay
  <2>7. Recorded(p) => Recorded(p)'
    BY <1>1, <2>2 DEF Recorded, Lost
  <2>8. AtWork(p)'
    BY <1>1, <2>1, <2>6, <2>7 DEF AtWork
  <2>9. QED
    BY <2>4, <2>8
<1>3. ASSUME ~Running(p) PROVE PaysWell(p)' /\ ~Running(p)'
  <2>1. DOMAIN proc[p].own = {}
    BY <1>3 DEF TypeInv, ProcOK, Running
  <2>2. QED
    BY <1>1, <1>3, <2>1 DEF PaysWell, Running
<1>4. QED
  BY <1>2, <1>3

(* A sequence is its head and the rest.                                    *)
LEMMA HeadAndTail ==
  ASSUME NEW do, NEW t, Planned(do, t), t # <<>>
  PROVE  Range(t) = {Head(t)} \cup Range(Tail(t))
<1>1. t \in Seq(Range(t)) /\ Head(t) = t[1] /\ Len(t) \in Nat /\ Len(t) >= 1 /\ DOMAIN t = 1 .. Len(t)
  BY EmptySeq DEF Range, Planned
<1>2. Tail(t) \in Seq(Range(t)) /\ Len(Tail(t)) = Len(t) - 1 /\ \A i \in 1 .. Len(Tail(t)) : Tail(t)[i] = t[i + 1]
  BY <1>1, HeadTailProperties
<1>3. ASSUME NEW i \in DOMAIN t PROVE t[i] = Head(t) \/ t[i] \in Range(Tail(t))
  <2>1. CASE i = 1
    BY <1>1, <2>1
  <2>2. CASE i # 1
    <3>1. i - 1 \in 1 .. Len(Tail(t)) /\ Tail(t)[i - 1] = t[i]
      <4>1. i - 1 \in 1 .. Len(Tail(t)) /\ (i - 1) + 1 = i
        BY <1>1, <1>2, <2>2
      <4>2. QED
        BY <1>2, <4>1
    <3>2. DOMAIN Tail(t) = 1 .. Len(Tail(t))
      BY <1>2
    <3>3. QED
      BY <3>1, <3>2 DEF Range
  <2>3. QED
    BY <2>1, <2>2
<1>4. Range(t) \subseteq {Head(t)} \cup Range(Tail(t))
  BY <1>3 DEF Range
<1>5. QED
  BY <1>4, HeadIsPlanned, TailIsPlanned

(* The start of a job.                                                     *)
LEMMA JobStarts ==
  ASSUME TypeInv, NEW p \in Procs, cmd[p].do = "job", Start(p)
  PROVE  PaysWell(p)' /\ AtWork(p)'
<1> DEFINE c == cmd[p]
           us == Ids(db, "users", c.users)
           ps == Ids(db, "printers", c.printers)
<1>1. /\ UNCHANGED <<conf, cmd, db, seq>> /\ proc'[p].own = <<>> /\ proc'[p].gone = {}
      /\ proc'[p].todo = Script(p, db)
  BY StartIs
<1>2. PICK t : t = Script(p, db)
  OBVIOUS
<1>3. DOMAIN <<>> = {}
  OBVIOUS
<1>4. DOMAIN View(p)' = DOMAIN db
  BY <1>1, <1>3 DEF View, Over, Restrict
<1>5. IsCommand(c) /\ t = PrintJob(db, p, us, ps)
  BY <1>2 DEF Script, TypeInv
<1>6. ASSUME NEW u \in us PROVE Payer(p, <<"users", u>>)'
  <2>1. <<"users", u>> \in DOMAIN db /\ db[<<"users", u>>].name \in c.users
    BY DbIsTidy, IdsAreThere
  <2>2. QED
    BY <1>1, <2>1 DEF Payer, Paying
<1>7. PaysWell(p)'
  BY <1>1, <1>3 DEF PaysWell
<1>8. CASE t = <<>>
  <2>1. Range(t) = {}
    BY <1>8 DEF Range
  <2>2. QED
    BY <1>1, <1>2, <1>7, <1>8, <2>1 DEF AtWork
<1>9. CASE JobSteps(p, db, us, t)
  <2>0. PICK u, q, row, l, reset, charge, code : JobParts(p, db, us, t, u, q, row, l, reset, charge, code)
    BY <1>9 DEF JobSteps
  <2>1. /\ u \in us /\ q \in Rows(db, "userpquota") /\ row.job = p
        /\ l \in {None, Unread} \/ (l \in DOMAIN db /\ l[1] = "jobhistory")
        /\ ResetSteps(q, reset) /\ ChargeSteps(db, u, q, row, charge)
        /\ code \in Seq(CodeSteps(db, row.num))
        /\ t = reset \o (charge \o (<<Record(row, l)>> \o code))
    <3> HIDE DEF us
    <3>1. QED
      BY <2>0 DEF JobParts
  <2>2. PICK S : /\ S = JobStepSet(db, u, q, row, l)
                 /\ reset \in Seq(S) /\ charge \in Seq(S) /\ <<Record(row, l)>> \in Seq(S) /\ code \in Seq(S)
    BY <2>1, JobPartsAreSeqs
  <2>3. ASSUME NEW s \in S PROVE JobStep(p, s)'
    <3>1. q[1] # "users"
      BY <2>1 DEF Rows
    <3>2. CASE s = Record(row, l)
      <4>1. s.op = "record" /\ s.row = row /\ s.last = l
        BY <3>2 DEF Record
      <4>2. QED
        BY <1>4, <2>1, <4>1 DEF JobStep
    <3>3. CASE s \in {LeftAsItWas(q), Increase(q, row.num)} \cup AboveSteps(db, u, row.num) \cup CodeSteps(db, row.num)
      <4>1. s.op = "update" /\ s.key[1] # "users"
        BY <3>1, <3>3 DEF LeftAsItWas, Increase, CountAbove, AboveSteps, CodeSteps, Rows
      <4>2. QED
        BY <4>1 DEF JobStep
    <3>4. ASSUME NEW x \in Int, s = Increase(<<"users", u>>, x) PROVE JobStep(p, s)'
      <4>1. s.op = "update" /\ s.key = <<"users", u>>
        BY <3>4 DEF Increase
      <4>2. Payer(p, <<"users", u>>)'
        <5> HIDE DEF us
        <5>1. QED
          BY <1>6, <2>1
      <4>3. QED
        BY <4>1, <4>2 DEF JobStep
    <3>5. QED
      BY <2>2, <3>2, <3>3, <3>4 DEF JobStepSet
  <2>4. t \in Seq(S) /\ Records(t)
    <3>1. PICK a : a = <<Record(row, l)>> /\ a \in Seq(S) /\ Record(row, l) \in Range(a)
      <4>1. Record(row, l) \in Range(<<Record(row, l)>>)
        BY DEF Range
      <4>2. QED
        BY <2>2, <4>1
    <3>0. reset \in Seq(S) /\ charge \in Seq(S) /\ code \in Seq(S)
      BY <2>2
    <3>2. PICK b : b = a \o code /\ b \in Seq(S) /\ Range(a) \subseteq Range(b)
      <4>1. a \in Seq(S) /\ code \in Seq(S)
        BY <3>0, <3>1
      <4>2. a \o code \in Seq(S) /\ Range(a \o code) = Range(a) \cup Range(code)
        BY <4>1, BothRanges
      <4>3. QED
        BY <4>2, Zenon
    <3>3. PICK c1 : c1 = charge \o b /\ c1 \in Seq(S) /\ Range(b) \subseteq Range(c1)
      <4>1. charge \in Seq(S) /\ b \in Seq(S)
        BY <3>0, <3>2
      <4>2. charge \o b \in Seq(S) /\ Range(charge \o b) = Range(charge) \cup Range(b)
        BY <4>1, BothRanges
      <4>3. QED
        BY <4>2, Zenon
    <3>4. t = reset \o c1 /\ t \in Seq(S) /\ Range(c1) \subseteq Range(t)
      <4>0. reset \in Seq(S) /\ c1 \in Seq(S)
        BY <3>0, <3>3
      <4>1. reset \o c1 \in Seq(S) /\ Range(reset \o c1) = Range(reset) \cup Range(c1)
        BY <4>0, BothRanges
      <4>2. t = reset \o c1
        BY <2>1, <3>1, <3>2, <3>3
      <4>3. QED
        BY <4>1, <4>2
    <3>5. Record(row, l) \in Range(t) /\ Record(row, l).op = "record"
      BY <3>1, <3>2, <3>3, <3>4 DEF Record
    <3>6. QED
      BY <3>4, <3>5 DEF Records
  <2>5. \A s \in Range(t) : JobStep(p, s)'
    BY <2>3, <2>4, OnlyWhatItHas
  <2>6. AtWork(p)'
    <3>1. proc'[p].todo = t
      BY <1>1, <1>2
    <3>2. QED
      BY <2>4, <2>5, <3>1 DEF AtWork
  <2>7. QED
    BY <1>7, <2>6
<1>10. QED
  <2> HIDE DEF us, ps
  <2>1. t = <<>> \/ JobSteps(p, db, us, t)
    BY <1>5, DbIsTidy, JobHasSteps
  <2>2. QED
    BY <1>8, <1>9, <2>1

(* The statements of a job: a charge, the look at the last job, the record.*)
LEMMA JobUpdates ==
  ASSUME TypeInv, LockInv, NameInv, JobInv, NEW p \in Procs, cmd[p].do = "job", Execute(p), Update(p)
  PROVE  PaysWell(p)' /\ AtWork(p)'
<1> DEFINE s == Step(p)
<1>1. PICK rows : /\ Running(p) /\ proc[p].todo # <<>> /\ s.op = "update"
                  /\ Touched(p) = {s.key} \cap DOMAIN View(p)
                  /\ Wrote(p, rows) /\ DOMAIN rows = Touched(p)
                  /\ \A k \in DOMAIN rows : rows[k].name = View(p)[k].name /\ rows[k].job = View(p)[k].job
  BY UpdateIs DEF Kept
<1>2. UNCHANGED <<conf, cmd, db, beside>>
  BY DEF Execute
<1>3. /\ DOMAIN proc'[p].own = DOMAIN rows \cup DOMAIN proc[p].own
      /\ \A k \in DOMAIN proc'[p].own :
           proc'[p].own[k] = IF k \in DOMAIN rows THEN rows[k] ELSE proc[p].own[k]
      /\ proc'[p].gone = proc[p].gone /\ proc'[p].todo = Tail(proc[p].todo)
  BY <1>1, WroteIs
<1>4. PaysWell(p) /\ AtWork(p)
  BY <1>1 DEF JobInv
<1>5. s \in Range(proc[p].todo) /\ Range(Tail(proc[p].todo)) \subseteq Range(proc[p].todo)
  BY <1>1, HeadIsPlanned, TailIsPlanned DEF TypeInv, ProcOK, Step
<1>6. Records(Tail(proc[p].todo)) \/ Recorded(p)
  <2>1. Range(proc[p].todo) = {s} \cup Range(Tail(proc[p].todo))
    BY <1>1, HeadAndTail DEF TypeInv, ProcOK, Step
  <2>2. QED
    BY <1>1, <1>4, <2>1 DEF AtWork, Records
<1>7. proc[p].gone = {}
  BY DEF TypeInv, ProcOK, Deleting, Deleters
<1>8. \A x \in Range(Tail(proc[p].todo)) : JobStep(p, x)'
  <2> SUFFICES ASSUME NEW x \in Range(proc[p].todo) PROVE JobStep(p, x)'
    BY <1>5
  <2>1. JobStep(p, x)
    BY <1>4 DEF AtWork
  <2>2. Work(p)
    BY DEF Work
  <2>3. QED
    BY <1>1, <1>2, <1>3, <1>7, <2>1, <2>2, StepsStay
<1>9. ASSUME NEW k \in DOMAIN proc'[p].own, k[1] = "users"
      PROVE  proc'[p].own[k].name \in cmd[p].users \/ Swapped(p)
  <2>1. CASE k \in DOMAIN proc[p].own
    <3>1. proc[p].own[k].name \in cmd[p].users \/ Swapped(p)
      BY <1>4, <1>9, <2>1 DEF PaysWell
    <3>2. k \in DOMAIN rows => rows[k].name = proc[p].own[k].name
      BY <1>1, <2>1, ViewIs
    <3>3. QED
      BY <1>3, <1>9, <3>1, <3>2
  <2>2. CASE k \notin DOMAIN proc[p].own
    <3>1. k \in DOMAIN rows /\ k = s.key /\ k \in DOMAIN View(p)
      BY <1>1, <1>3, <1>9, <2>2
    <3>2. View(p)[k] = db[k] /\ k \in DOMAIN db
      BY <2>2, <3>1, ViewIs
    <3>3. Payer(p, k)
      BY <1>1, <1>4, <1>5, <1>9, <3>1 DEF AtWork, JobStep
    <3>4. Paying(p, k) \/ Swapped(p)
      BY <3>2, <3>3 DEF Payer, Vanished
    <3>5. proc'[p].own[k].name = db[k].name
      BY <1>1, <1>3, <1>9, <3>1, <3>2
    <3>6. QED
      BY <3>4, <3>5 DEF Paying
  <2>3. QED
    BY <2>1, <2>2
<1>10. Swapped(p) => Swapped(p)'
  BY <1>2 DEF Swapped, Ran
<1>11. PaysWell(p)'
  BY <1>2, <1>9, <1>10 DEF PaysWell
<1>12. Recorded(p) => Recorded(p)'
  <2>1. ASSUME NEW k \in DOMAIN proc[p].own, k[1] = "jobhistory", proc[p].own[k].job = p
        PROVE  k \in DOMAIN proc'[p].own /\ proc'[p].own[k].job = p
    <3>1. k \in DOMAIN rows => rows[k].job = proc[p].own[k].job
      BY <1>1, <2>1, ViewIs
    <3>2. QED
      BY <1>3, <2>1, <3>1
  <2>2. QED
    BY <1>2, <2>1 DEF Recorded, Lost
<1>13. AtWork(p)'
  BY <1>3, <1>6, <1>8, <1>12 DEF AtWork
<1>14. QED
  BY <1>11, <1>13

LEMMA JobLooks ==
  ASSUME TypeInv, LockInv, NameInv, JobInv, NEW p \in Procs, cmd[p].do = "job", LookAtLast(p)
  PROVE  PaysWell(p)' /\ AtWork(p)'
<1>1. PICK s : s = [Step(p) EXCEPT !.last = LastJob(View(p), Step(p).row.printer)]
  OBVIOUS
<1>2. PICK t : t = proc[p].todo
  OBVIOUS
<1>3. /\ Running(p) /\ t # <<>> /\ Step(p).op = "record" /\ UNCHANGED <<conf, cmd, db, seq, beside>>
      /\ Becomes(p, [proc[p] EXCEPT !.todo = <<s>> \o Tail(t)])
  BY <1>1, <1>2 DEF LookAtLast, At
<1>4. PaysWell(p) /\ AtWork(p)
  BY <1>3 DEF JobInv
<1>5. Range(t) = {Step(p)} \cup Range(Tail(t)) /\ Planned("job", Tail(t))
  BY <1>2, <1>3, HeadAndTail, TailIsPlanned DEF TypeInv, ProcOK, Step
<1>6. MayDo("job", Step(p))
  BY <1>2, <1>3, StepMayBeDone
<1>7. s.op = "record" /\ s.row = Step(p).row /\ s.last = LastJob(View(p), Step(p).row.printer)
  BY <1>1, <1>3, <1>6 DEF MayDo
<1>8. PICK w : w = <<s>> \o Tail(t) /\ Range(w) = {s} \cup Range(Tail(t))
  <2>1. <<s>> \in Seq({s} \cup Range(Tail(t))) /\ Range(<<s>>) = {s}
    BY DEF Range
  <2>2. Tail(t) \in Seq({s} \cup Range(Tail(t)))
    BY <1>5, SeqMonotonic DEF Planned
  <2>3. QED
    BY <2>1, <2>2, BothRanges
<1>9. DOMAIN proc = Procs /\ DOMAIN proc[p] = Fields
  BY DEF TypeInv, ProcOK
<1>10. PICK r : r = [proc[p] EXCEPT !.todo = w]
  OBVIOUS
<1>11. r.todo = w /\ r.own = proc[p].own /\ r.gone = proc[p].gone
  BY <1>9, <1>10 DEF Fields
<1>12. proc'[p].todo = w /\ proc'[p].own = proc[p].own /\ proc'[p].gone = proc[p].gone
  BY <1>3, <1>8, <1>9, <1>10, <1>11, OnlyOneBecomes
<1>13. PaysWell(p)'
  BY <1>3, <1>4, <1>12 DEF PaysWell, Swapped, Ran
<1>14. DOMAIN View(p)' = DOMAIN View(p)
  BY <1>3, <1>12 DEF View
<1>15. JobStep(p, s)'
  <2>1. s.last # None => s.last \in DOMAIN View(p)
    BY <1>7, ViewIsTidy, LastJobIsThere
  <2>2. s.row.job = p
    BY <1>3, <1>4, <1>2, <1>5, <1>7 DEF AtWork, JobStep
  <2>3. QED
    BY <1>7, <1>14, <2>1, <2>2 DEF JobStep
<1>16. ASSUME NEW x \in Range(Tail(t)) PROVE JobStep(p, x)'
  <2>1. JobStep(p, x)
    BY <1>2, <1>4, <1>5 DEF AtWork
  <2>2. x \in Range(proc[p].todo)
    BY <1>2, <1>5
  <2>3. Work(p) /\ proc'[p].gone = {}
    BY <1>12 DEF Work, TypeInv, ProcOK, Deleting, Deleters
  <2>4. QED
    BY <1>3, <1>12, <2>1, <2>2, <2>3, StepsStay
<1>17. AtWork(p)'
  <2>1. \A x \in Range(w) : JobStep(p, x)'
    BY <1>8, <1>15, <1>16
  <2>2. Records(w)
    BY <1>7, <1>8 DEF Records
  <2>3. QED
    BY <1>12, <2>1, <2>2 DEF AtWork
<1>18. QED
  BY <1>13, <1>17

LEMMA JobRecords ==
  ASSUME TypeInv, LockInv, NameInv, JobInv, NEW p \in Procs, cmd[p].do = "job", Execute(p), WriteJobNew(p)
  PROVE  PaysWell(p)' /\ AtWork(p)'
<1> DEFINE s == Step(p)
<1>1. /\ Running(p) /\ proc[p].todo # <<>> /\ s.op = "record" /\ s.last # Unread
      /\ UNCHANGED <<conf, cmd, db, beside>> /\ Blockers(p) = {}
  BY DEF Execute, WriteJobNew, At
<1>2. PaysWell(p) /\ AtWork(p)
  BY <1>1 DEF JobInv
<1>3. s \in Range(proc[p].todo) /\ Range(Tail(proc[p].todo)) \subseteq Range(proc[p].todo)
  BY <1>1, HeadIsPlanned, TailIsPlanned DEF TypeInv, ProcOK, Step
<1>4. NewRow(p).job = p
  BY <1>1, <1>2, <1>3 DEF NewRow, AtWork, JobStep
<1>5. PICK rows : /\ Wrote(p, rows) /\ \A k \in DOMAIN rows : k[1] = "jobhistory" /\ rows[k] = NewRow(p)
                  /\ DOMAIN rows # {} \/ (conf.disablehistory /\ Lost(p))
  <2>1. CASE Anew(p)
    <3>1. AddRow(p)
      BY <2>1 DEF WriteJobNew
    <3>2. PICK n, k : k = <<NewTable(p), n>> /\ Wrote(p, [x \in {k} |-> NewRow(p)])
      BY <1>1, <3>1, AddRowIs
    <3>3. k[1] = "jobhistory"
      BY <1>1, <3>2 DEF NewTable
    <3> DEFINE rows == [x \in {k} |-> NewRow(p)]
    <3>4. DOMAIN rows = {k} /\ rows[k] = NewRow(p)
      OBVIOUS
    <3>5. Wrote(p, rows)
      BY <3>2
    <3> HIDE DEF rows
    <3>6. QED
      BY <3>3, <3>4, <3>5
  <2>2. CASE ~Anew(p)
    <3> DEFINE rows == [k \in Touched(p) |-> NewRow(p)]
    <3>1. /\ Wrote(p, rows) /\ Touched(p) = {s.last} \cap DOMAIN View(p)
          /\ conf.disablehistory /\ s.last[1] = "jobhistory" /\ s.last # None
      BY <2>2, ReplacedIs DEF Anew
    <3>2. DOMAIN rows = Touched(p) /\ \A k \in Touched(p) : rows[k] = NewRow(p)
      OBVIOUS
    <3>3. s \in Range(proc[p].todo)
      BY <1>1, StepMayBeDone
    <3>4. s.last \in DOMAIN View(p) \/ Lost(p)
      BY <1>1, <1>2, <3>1, <3>3 DEF AtWork, JobStep
    <3> HIDE DEF rows
    <3>5. DOMAIN rows # {} \/ Lost(p)
      BY <3>1, <3>2, <3>4
    <3>6. QED
      BY <3>1, <3>2, <3>5
  <2>3. QED
    BY <2>1, <2>2
<1>6. /\ DOMAIN proc'[p].own = DOMAIN rows \cup DOMAIN proc[p].own
      /\ \A k \in DOMAIN proc'[p].own :
           proc'[p].own[k] = IF k \in DOMAIN rows THEN rows[k] ELSE proc[p].own[k]
      /\ proc'[p].gone = proc[p].gone /\ proc'[p].todo = Tail(proc[p].todo)
  <2>1. Wrote(p, rows)
    BY <1>5
  <2>2. QED
    BY <2>1, WroteIs
<1>7. PaysWell(p)'
  <2>1. Swapped(p) => Swapped(p)'
    BY <1>1 DEF Swapped, Ran
  <2>2. ASSUME NEW k \in DOMAIN proc'[p].own, k[1] = "users"
        PROVE  proc'[p].own[k].name \in cmd[p].users \/ Swapped(p)
    <3>1. k \notin DOMAIN rows
      BY <1>5, <2>2
    <3>2. QED
      BY <1>2, <1>6, <2>2, <3>1 DEF PaysWell
  <2>3. QED
    BY <1>1, <2>1, <2>2 DEF PaysWell
<1>8. Recorded(p)'
  <2>1. CASE DOMAIN rows # {}
    <3>1. PICK k \in DOMAIN rows : TRUE
      BY <2>1
    <3>2. k \in DOMAIN proc'[p].own /\ k[1] = "jobhistory" /\ proc'[p].own[k].job = p
      BY <1>4, <1>5, <1>6
    <3>3. QED
      BY <3>2 DEF Recorded
  <2>2. CASE conf.disablehistory /\ Lost(p)
    BY <1>1, <2>2 DEF Recorded, Lost
  <2>3. QED
    BY <1>5, <2>1, <2>2
<1>9. \A x \in Range(Tail(proc[p].todo)) : JobStep(p, x)'
  <2> SUFFICES ASSUME NEW x \in Range(proc[p].todo) PROVE JobStep(p, x)'
    BY <1>3
  <2>1. JobStep(p, x)
    BY <1>2 DEF AtWork
  <2>2. Work(p) /\ proc'[p].gone = {}
    BY <1>6 DEF Work, TypeInv, ProcOK, Deleting, Deleters
  <2>3. QED
    BY <1>1, <1>6, <2>1, <2>2, StepsStay
<1>10. AtWork(p)'
  BY <1>6, <1>8, <1>9 DEF AtWork
<1>11. QED
  BY <1>7, <1>10

(* Every step of the job itself.                                           *)
LEMMA JobOwn ==
  ASSUME TypeInv, LockInv, NameInv, JobInv, NEW p \in Procs, cmd[p].do = "job", Work(p) \/ GiveUp(p)
  PROVE  PaysWell(p)' /\ (Running(p)' => AtWork(p)')
<1>1. CASE Start(p)
  BY <1>1, JobStarts
<1>2. CASE LookAtLast(p)
  BY <1>2, JobLooks
<1>3. ASSUME Running(p), proc[p].todo # <<>> PROVE Step(p).op \in {"update", "record"}
  <2>1. Step(p) \in Range(proc[p].todo)
    BY <1>3, HeadIsPlanned DEF TypeInv, ProcOK, Step
  <2>2. QED
    BY <1>3, <2>1 DEF JobInv, AtWork, JobStep
<1>4. /\ ~ExpandRefund(p) /\ ~PayUser(p) /\ ~FindPages(p) /\ ~ExtractTable(p)
      /\ ~InsertRow(p) /\ ~DeleteRows(p) /\ ~At(p, "commit")
  BY <1>3 DEF ExpandRefund, PayUser, FindPages, ExtractTable, InsertRow, DeleteRows, At
<1>5. CASE Execute(p)
  BY <1>4, <1>5, JobUpdates, JobRecords DEF Execute, Statement
<1>6. CASE CommitWork(p) \/ Refused(p) \/ GiveUp(p)
  <2>1. DOMAIN proc'[p].own = {} /\ ~Running(p)'
    <3>1. CASE CommitWork(p)
      <4>1. DOMAIN proc'[p].own = {} /\ (proc[p].todo = <<>> => proc'[p].state = "done")
        BY <3>1, CommitIs
      <4>2. proc[p].todo = <<>>
        BY <1>4, <3>1 DEF CommitWork
      <4>3. QED
        BY <4>1, <4>2 DEF Running
    <3>2. CASE Refused(p) \/ GiveUp(p)
      BY <3>2, RollBackIs DEF Refused, GiveUp, Running
    <3>3. QED
      BY <1>6, <3>1, <3>2
  <2>2. QED
    BY <2>1 DEF PaysWell
<1>7. QED
  BY <1>1, <1>2, <1>4, <1>5, <1>6 DEF Work

LEMMA JobNext ==
  ASSUME TypeInv, LockInv, NameInv, JobInv, [Next]_vars
  PROVE  JobInv'
<1>1. CASE UNCHANGED vars
  <2>1. UNCHANGED <<conf, cmd, db, seq, proc, beside>>
    BY <1>1 DEF vars
  <2>2. ASSUME NEW p \in Procs PROVE (PaysWell(p) => PaysWell(p)') /\ (Recorded(p) => Recorded(p)') /\ Running(p)' = Running(p)
    BY <2>1 DEF PaysWell, Recorded, Lost, Swapped, Ran, Running
  <2>3. ASSUME NEW p \in Procs, NEW s, JobStep(p, s) PROVE JobStep(p, s)'
    <3>1. Payer(p, s.key) => Payer(p, s.key)'
      BY <2>1 DEF Payer, Paying, Vanished, Swapped, Ran
    <3>2. View(p)' = View(p) /\ Lost(p)' = Lost(p)
      BY <2>1 DEF View, Lost
    <3>3. QED
      BY <2>3, <3>1, <3>2 DEF JobStep
  <2>4. ASSUME NEW p \in Procs, AtWork(p) PROVE AtWork(p)'
    BY <2>1, <2>2, <2>3, <2>4 DEF AtWork
  <2>5. QED
    BY <2>1, <2>2, <2>4 DEF JobInv
<1>2. ASSUME NEW r \in Procs, Work(r) \/ GiveUp(r) PROVE JobInv'
  <2>1. cmd' = cmd
    BY <1>2, OthersSee
  <2>2. ASSUME NEW p \in Procs, cmd[p].do = "job"
        PROVE  PaysWell(p)' /\ (Running(p)' => AtWork(p)')
    BY <1>2, <2>2, JobOwn, JobOthers
  <2>3. QED
    BY <2>1, <2>2 DEF JobInv
<1>3. QED
  BY <1>1, <1>2 DEF Next, AllOver

LEMMA TablesAlways == Spec => [](TypeInv /\ LockInv /\ NameInv /\ JobInv)
<1>1. Init => TypeInv /\ LockInv /\ NameInv /\ JobInv
  BY TypeInit, LockInit, NameInit, JobInit
<1>2. TypeInv /\ LockInv /\ NameInv /\ JobInv /\ [Next]_vars
        => TypeInv' /\ LockInv' /\ NameInv' /\ JobInv'
  BY TypeNext, LockNext, NameNext, JobNext
<1>3. QED
  BY <1>1, <1>2, PTL DEF Spec

(* What a job charges it charges to one of the users it is printed for;    *)
(* another pays only on SQLite, after its user was deleted and another     *)
(* added while it printed.                                                 *)
THEOREM JobsChargeTheirUser == Spec => []ChargesReachTheirUser
<1>1. JobInv => ChargesReachTheirUser
  BY DEF JobInv, PaysWell, Swapped, ChargesReachTheirUser
<1>2. QED
  BY <1>1, TablesAlways, PTL

(* No transaction that charges a job is committed without the row of the   *)
(* history; with disablehistory, unless that row was deleted meanwhile.    *)
THEOREM JobsAreRecorded == Spec => ChargedIsRecorded
<1> DEFINE ChargedStep == \A p \in Procs :
             cmd[p].do = "job" /\ proc[p].state = "running" /\ proc'[p].state = "done" /\ proc[p].own # <<>> =>
               \/ \E k \in DOMAIN db' : k[1] = "jobhistory" /\ db'[k].job = p
               \/ conf.disablehistory /\ \E q \in beside[p] : Deletes(q)
<1>1. TypeInv /\ LockInv /\ NameInv /\ JobInv /\ [Next]_vars => [ChargedStep]_vars
  <2> SUFFICES ASSUME TypeInv, LockInv, JobInv, NEW r \in Procs, Work(r) \/ GiveUp(r),
                      NEW p \in Procs, cmd[p].do = "job", proc[p].state = "running",
                      proc'[p].state = "done", proc[p].own # <<>>
               PROVE  \/ \E k \in DOMAIN db' : k[1] = "jobhistory" /\ db'[k].job = p
                      \/ conf.disablehistory /\ \E q \in beside[p] : Deletes(q)
    BY DEF Next, AllOver
  <2>1. r = p
    BY OthersSee
  <2>2. CommitWork(p)
    <3>1. CASE Start(p)
      BY <3>1, StartIs
    <3>2. CASE ExpandRefund(p) \/ PayUser(p) \/ FindPages(p) \/ LookAtLast(p) \/ ExtractTable(p)
      BY <3>2, ReadingIs
    <3>3. CASE Refused(p) \/ GiveUp(p)
      BY <3>3, RollBackIs DEF Refused, GiveUp
    <3>4. CASE Execute(p)
      <4>1. CASE DeleteRows(p)
        BY <4>1, DeleteIs
      <4>2. CASE ~DeleteRows(p)
        <5>1. \E rows : Wrote(p, rows)
          BY <3>4, <4>2 DEF Execute, Statement, Update, InsertRow, WriteJobNew, AddRow
        <5>2. proc'[p].state = proc[p].state
          BY <5>1, WroteIs
        <5>3. QED
          BY <5>2
      <4>3. QED
        BY <4>1, <4>2
    <3>5. QED
      BY <2>1, <3>1, <3>2, <3>3, <3>4 DEF Work
  <2>3. proc[p].todo = <<>> /\ db' = View(p)
    BY <2>2, CommitIs
  <2>4. Recorded(p)
    <3>1. Range(<<>>) = {}
      BY DEF Range
    <3>2. QED
      BY <2>3, <3>1 DEF JobInv, AtWork, Running, Records
  <2>5. CASE conf.disablehistory /\ Lost(p)
    BY <2>5 DEF Lost, Deletes, Deleters
  <2>6. ASSUME NEW k \in DOMAIN proc[p].own, k[1] = "jobhistory", proc[p].own[k].job = p
        PROVE  \E x \in DOMAIN db' : x[1] = "jobhistory" /\ db'[x].job = p
    <3>1. k \in DOMAIN db' /\ db'[k] = proc[p].own[k]
      BY <2>3, <2>6, ViewIs
    <3>2. QED
      BY <2>6, <3>1
  <2>7. QED
    BY <2>4, <2>5, <2>6 DEF Recorded
<1>2. [][ChargedStep]_vars => ChargedIsRecorded
  BY DEF ChargedIsRecorded
<1> HIDE DEF ChargedStep
<1>3. QED
  BY <1>1, <1>2, TablesAlways, PTL DEF Spec

=============================================================================
