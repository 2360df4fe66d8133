------------------------- MODULE AccountingTx_proofs --------------------------
(***************************************************************************)
(* The transactions of AccountingTx: what their programs add to each row,  *)
(* which rows they hold, that jobs alone do not deadlock, and that their   *)
(* statements together are the steps of Ledger.                            *)
(***************************************************************************)
EXTENDS AccountingTx, FiniteSetTheorems, SequenceTheorems, TLAPS

-----------------------------------------------------------------------------
(* Rows and statements.                                                    *)

(* Each kind of row has a name of its own. *)
LEMMA RowsAreDistinct ==
  /\ \A u, v : Balance(u) = Balance(v) => u = v
  /\ \A u, p, v, q : Quota(u, p) = Quota(v, q) => u = v /\ p = q
  /\ \A c, d : Bill(c) = Bill(d) => c = d
  /\ \A j, k : History(j) = History(k) => j = k
  /\ \A u, v, p : Balance(u) # Quota(v, p)
  /\ \A u, c : Balance(u) # Bill(c)
  /\ \A u, j : Balance(u) # History(j)
  /\ \A u, p, c : Quota(u, p) # Bill(c)
  /\ \A u, p, j : Quota(u, p) # History(j)
  /\ \A c, j : Bill(c) # History(j)
  BY DEF Balance, Quota, Bill, History

(* What the assumption says of one job. *)
LEMMA JobFacts ==
  ASSUME NEW j \in Charges
  PROVE  /\ Job[j].user \in Users /\ Job[j].printer \in Printers
         /\ Job[j].parents \subseteq Printers /\ Job[j].printer \notin Job[j].parents
         /\ IsFiniteSet(Job[j].parents)
         /\ Job[j].size \in Nat /\ Job[j].price \in Int /\ Job[j].counted \in BOOLEAN
         /\ Job[j].code \in Codes \cup {None} /\ None \notin Codes
         /\ Own(j) \in Rows /\ Purse(j) \in Rows /\ History(j) \in Rows
<1>1. /\ Job[j].user \in Users /\ Job[j].printer \in Printers
      /\ Job[j].parents \subseteq Printers /\ Job[j].printer \notin Job[j].parents
      /\ Job[j].size \in Nat /\ Job[j].price \in Int /\ Job[j].counted \in BOOLEAN
      /\ Job[j].code \in Codes \cup {None} /\ None \notin Codes
  BY TxAssumption
<1>2. IsFiniteSet(Job[j].parents)
  BY <1>1, FS_Subset, TxAssumption
<1>3. Own(j) \in Rows /\ Purse(j) \in Rows /\ History(j) \in Rows
  BY <1>1 DEF Own, Purse, Rows
<1> QED
  BY <1>1, <1>2, <1>3

(* An order of the groups names each of them once. *)
LEMMA OrderOfParents ==
  ASSUME NEW S, IsFiniteSet(S), NEW ps \in SetToSeqs(S)
  PROVE  /\ Len(ps) \in Nat /\ DOMAIN ps = 1 .. Len(ps) /\ ps \in Seq(S)
         /\ \A i \in 1 .. Len(ps) : ps[i] \in S
         /\ \A i, k \in 1 .. Len(ps) : ps[i] = ps[k] => i = k
         /\ \A p \in S : \E i \in 1 .. Len(ps) : ps[i] = p
<1> DEFINE n == Cardinality(S)
<1>1. n \in Nat
  BY FS_CardinalityType
<1>2. ps \in [1 .. n -> S] /\ \A i, k \in 1 .. n : i # k => ps[i] # ps[k]
  BY DEF SetToSeqs
<1>3. ps \in Seq(S) /\ Len(ps) = n
  BY <1>1, <1>2
<1>4. Cardinality(1 .. n) = n
  BY <1>1, FS_Interval
<1>5. ps \in Injection(1 .. n, S)
  BY <1>2 DEF Injection, IsInjective
<1>6. ps \in Surjection(1 .. n, S)
  BY <1>4, <1>5, FS_Injection
<1>7. \A p \in S : \E i \in 1 .. n : ps[i] = p
  BY <1>6 DEF Surjection
<1> QED
  BY <1>1, <1>2, <1>3, <1>7

-----------------------------------------------------------------------------
(* The programs, statement by statement.                                   *)

Statements == [row : Rows, by : Int]

Counts(j)      == Job[j].counted /\ Job[j].size # 0
OwnPages(j)    == IF Job[j].price # 0 THEN 3 ELSE 2
HistoryAt(j, n) == IF Counts(j) THEN OwnPages(j) + n + 1 ELSE 2

LEMMA ConsumeShape ==
  ASSUME NEW j \in Charges
  PROVE  /\ Consume(j) \in Seq(Statements)
         /\ Len(Consume(j)) = OwnPages(j) - 2
         /\ Job[j].price # 0 => Consume(j)[1] = Update(Purse(j), -Job[j].price)
<1>1. Update(Purse(j), -Job[j].price) \in Statements
  BY JobFacts DEF Update, Statements
<1>2. CASE Job[j].price # 0
  BY <1>1, <1>2 DEF Consume, When, OwnPages
<1>3. CASE Job[j].price = 0
  BY <1>3 DEF Consume, When, OwnPages
<1> QED
  BY <1>2, <1>3

LEMMA CountPagesShape ==
  ASSUME NEW j \in Charges, NEW ps \in SetToSeqs(Job[j].parents)
  PROVE  /\ CountPages(j, ps) \in Seq(Statements)
         /\ Len(CountPages(j, ps)) = Len(ps) + 1
         /\ CountPages(j, ps)[1] = Update(Own(j), Job[j].size)
         /\ \A i \in 1 .. Len(ps) :
              CountPages(j, ps)[i + 1] = Update(Quota(Job[j].user, ps[i]), Job[j].size)
<1> DEFINE n == Len(ps)
           F(i) == Update(IF i = 1 THEN Own(j) ELSE Quota(Job[j].user, ps[i - 1]), Job[j].size)
<1>1. n \in Nat /\ \A i \in 1 .. n : ps[i] \in Job[j].parents
  BY JobFacts, OrderOfParents
<1>2. ASSUME NEW i \in 1 .. n + 1 PROVE F(i) \in Statements
  <2>1. (IF i = 1 THEN Own(j) ELSE Quota(Job[j].user, ps[i - 1])) \in Rows
    <3>1. CASE i = 1
      BY <3>1, JobFacts
    <3>2. CASE i # 1
      <4>1. i - 1 \in 1 .. n
        BY <1>1, <3>2
      <4>2. ps[i - 1] \in Printers
        BY <1>1, <4>1, JobFacts
      <4> QED
        BY <3>2, <4>2, JobFacts DEF Rows
    <3> QED
      BY <3>1, <3>2
  <2> QED
    BY <2>1, JobFacts DEF Update, Statements
<1>3. CountPages(j, ps) = [i \in 1 .. n + 1 |-> F(i)]
  BY DEF CountPages
<1>4. CountPages(j, ps) \in Seq(Statements) /\ Len(CountPages(j, ps)) = n + 1
  BY <1>1, <1>2, <1>3
<1>5. CountPages(j, ps)[1] = Update(Own(j), Job[j].size)
  BY <1>1, <1>3
<1>6. ASSUME NEW i \in 1 .. n
      PROVE  CountPages(j, ps)[i + 1] = Update(Quota(Job[j].user, ps[i]), Job[j].size)
  <2>1. i + 1 \in 1 .. n + 1 /\ i + 1 # 1 /\ (i + 1) - 1 = i
    BY <1>1
  <2> QED
    BY <1>3, <2>1
<1> QED
  BY <1>4, <1>5, <1>6

Increase(j, ps) == When(Job[j].counted /\ Job[j].size # 0, IncreasePagesUsage(j, ps))

LEMMA IncreaseShape ==
  ASSUME NEW j \in Charges, NEW ps \in SetToSeqs(Job[j].parents)
  PROVE  /\ Increase(j, ps) \in Seq(Statements)
         /\ Len(Increase(j, ps)) = HistoryAt(j, Len(ps)) - 2
         /\ Counts(j) =>
              /\ Job[j].price # 0 => Increase(j, ps)[1] = Update(Purse(j), -Job[j].price)
              /\ Increase(j, ps)[OwnPages(j) - 1] = Update(Own(j), Job[j].size)
              /\ \A i \in 1 .. Len(ps) :
                   Increase(j, ps)[i + OwnPages(j) - 1]
                     = Update(Quota(Job[j].user, ps[i]), Job[j].size)
<1> DEFINE C == Consume(j)
           P == CountPages(j, ps)
           o == OwnPages(j)
           n == Len(ps)
<1>1. n \in Nat /\ o \in {2, 3} /\ (Job[j].price # 0 => o = 3)
  BY JobFacts, OrderOfParents DEF OwnPages
<1>2. C \in Seq(Statements) /\ Len(C) = o - 2
      /\ (Job[j].price # 0 => C[1] = Update(Purse(j), -Job[j].price))
  BY ConsumeShape
<1>3. P \in Seq(Statements) /\ Len(P) = n + 1 /\ P[1] = Update(Own(j), Job[j].size)
      /\ \A i \in 1 .. n : P[i + 1] = Update(Quota(Job[j].user, ps[i]), Job[j].size)
  BY CountPagesShape
<1> HIDE DEF C, P, o, n
<1>4. /\ C \o P \in Seq(Statements)
      /\ Len(C \o P) = o + n - 1
      /\ \A i \in 1 .. o + n - 1 : (C \o P)[i] = IF i <= o - 2 THEN C[i] ELSE P[i - (o - 2)]
  BY <1>1, <1>2, <1>3, ConcatProperties
<1>5. CASE Counts(j)
  <2>1. Increase(j, ps) = C \o P
    BY <1>5 DEF Increase, Counts, When, IncreasePagesUsage, C, P
  <2>2. HistoryAt(j, n) = o + n + 1
    BY <1>5 DEF HistoryAt, o
  <2>3. Job[j].price # 0 => (C \o P)[1] = Update(Purse(j), -Job[j].price)
    BY <1>1, <1>2, <1>4
  <2>4. (C \o P)[o - 1] = Update(Own(j), Job[j].size)
    <3>1. o - 1 \in 1 .. o + n - 1 /\ ~(o - 1 <= o - 2) /\ (o - 1) - (o - 2) = 1
      BY <1>1
    <3> QED
      BY <1>3, <1>4, <3>1
  <2>5. ASSUME NEW i \in 1 .. n
        PROVE  (C \o P)[i + o - 1] = Update(Quota(Job[j].user, ps[i]), Job[j].size)
    <3>1. i + o - 1 \in 1 .. o + n - 1 /\ ~(i + o - 1 <= o - 2) /\ (i + o - 1) - (o - 2) = i + 1
      BY <1>1
    <3> QED
      BY <1>3, <1>4, <3>1
  <2>6. Len(C \o P) = HistoryAt(j, n) - 2
    BY <1>1, <1>4, <2>2
  <2> QED
    BY <1>4, <2>1, <2>3, <2>4, <2>5, <2>6 DEF o, n
<1>6. CASE ~Counts(j)
  BY <1>6 DEF Increase, Counts, When, HistoryAt
<1> QED
  BY <1>5, <1>6

(* The billing code of a job is charged when it has one and a size. *)
BillOf(j) == When(Job[j].code # None /\ Job[j].size # 0,
                  <<Update(Bill(Job[j].code), Job[j].size)>>)

LEMMA ChargeShape ==
  ASSUME NEW j \in Charges, NEW ps \in SetToSeqs(Job[j].parents)
  PROVE  /\ ChargeStatements(j, ps) \in Seq(Statements)
         /\ Len(ChargeStatements(j, ps)) = HistoryAt(j, Len(ps)) + Len(BillOf(j))
         /\ ChargeStatements(j, ps)[1] = Update(Own(j), 0)
         /\ Counts(j) =>
              /\ Job[j].price # 0 =>
                   ChargeStatements(j, ps)[2] = Update(Purse(j), -Job[j].price)
              /\ ChargeStatements(j, ps)[OwnPages(j)] = Update(Own(j), Job[j].size)
              /\ \A i \in 1 .. Len(ps) :
                   ChargeStatements(j, ps)[i + OwnPages(j)]
                     = Update(Quota(Job[j].user, ps[i]), Job[j].size)
         /\ ChargeStatements(j, ps)[HistoryAt(j, Len(ps))] = Update(History(j), 0)
         /\ IF Job[j].code # None /\ Job[j].size # 0
            THEN /\ Len(BillOf(j)) = 1
                 /\ ChargeStatements(j, ps)[HistoryAt(j, Len(ps)) + 1]
                      = Update(Bill(Job[j].code), Job[j].size)
            ELSE Len(BillOf(j)) = 0
<1> DEFINE A == <<Update(Own(j), 0)>>
           X == Increase(j, ps)
           H == <<Update(History(j), 0)>>
           Y == BillOf(j)
           n == Len(ps)
           o == OwnPages(j)
           h == HistoryAt(j, n)
<1>1. n \in Nat /\ o \in {2, 3} /\ (Job[j].price # 0 => o = 3) /\ h \in Nat /\ h >= 2
      /\ (Counts(j) => h = o + n + 1)
  BY JobFacts, OrderOfParents DEF OwnPages, HistoryAt
<1>2. A \in Seq(Statements) /\ Len(A) = 1 /\ A[1] = Update(Own(j), 0)
      /\ H \in Seq(Statements) /\ Len(H) = 1 /\ H[1] = Update(History(j), 0)
  <2>1. Update(Own(j), 0) \in Statements /\ Update(History(j), 0) \in Statements
    BY JobFacts DEF Update, Statements
  <2> QED
    BY <2>1
<1>3. Y \in Seq(Statements) /\ (IF Job[j].code # None /\ Job[j].size # 0
                               THEN Len(Y) = 1 /\ Y[1] = Update(Bill(Job[j].code), Job[j].size)
                               ELSE Len(Y) = 0)
  <2>1. CASE Job[j].code # None /\ Job[j].size # 0
    <3>1. Update(Bill(Job[j].code), Job[j].size) \in Statements
      BY <2>1, JobFacts DEF Update, Statements, Rows
    <3> QED
      BY <2>1, <3>1 DEF BillOf, When
  <2>2. CASE ~(Job[j].code # None /\ Job[j].size # 0)
    BY <2>2 DEF BillOf, When
  <2> QED
    BY <2>1, <2>2
<1>4. X \in Seq(Statements) /\ Len(X) = h - 2
      /\ (Counts(j) =>
            /\ Job[j].price # 0 => X[1] = Update(Purse(j), -Job[j].price)
            /\ X[o - 1] = Update(Own(j), Job[j].size)
            /\ \A i \in 1 .. n : X[i + o - 1] = Update(Quota(Job[j].user, ps[i]), Job[j].size))
  BY IncreaseShape
<1>5. ChargeStatements(j, ps) = ((A \o X) \o H) \o Y
  BY DEF ChargeStatements, Increase, BillOf
<1> HIDE DEF A, X, H, Y, n, o, h
<1>6. /\ A \o X \in Seq(Statements) /\ Len(A \o X) = h - 1
      /\ (A \o X)[1] = A[1]
      /\ \A i \in 1 .. h - 2 : (A \o X)[i + 1] = X[i]
  <2>1. /\ A \o X \in Seq(Statements) /\ Len(A \o X) = Len(A) + Len(X)
        /\ \A i \in 1 .. Len(A) + Len(X) :
             (A \o X)[i] = IF i <= Len(A) THEN A[i] ELSE X[i - Len(A)]
    BY <1>2, <1>4, ConcatProperties
  <2>2. 1 \in 1 .. 1 + (h - 2)
    BY <1>1
  <2>3. ASSUME NEW i \in 1 .. h - 2 PROVE i + 1 \in 1 .. 1 + (h - 2) /\ ~(i + 1 <= 1) /\ (i + 1) - 1 = i
    BY <1>1
  <2> QED
    BY <1>1, <1>2, <1>4, <2>1, <2>2, <2>3
<1>7. /\ (A \o X) \o H \in Seq(Statements) /\ Len((A \o X) \o H) = h
      /\ \A i \in 1 .. h - 1 : ((A \o X) \o H)[i] = (A \o X)[i]
      /\ ((A \o X) \o H)[h] = H[1]
  <2>1. /\ (A \o X) \o H \in Seq(Statements)
        /\ Len((A \o X) \o H) = Len(A \o X) + Len(H)
        /\ \A i \in 1 .. Len(A \o X) + Len(H) :
             ((A \o X) \o H)[i] = IF i <= Len(A \o X) THEN (A \o X)[i] ELSE H[i - Len(A \o X)]
    BY <1>2, <1>6, ConcatProperties
  <2>2. Len((A \o X) \o H) = h
    BY <1>1, <1>2, <1>6, <2>1
  <2>3. \A i \in 1 .. h - 1 : i \in 1 .. (h - 1) + 1 /\ i <= h - 1
    BY <1>1
  <2>4. \A i \in 1 .. h - 1 : ((A \o X) \o H)[i] = (A \o X)[i]
    BY <1>2, <1>6, <2>1, <2>3
  <2>5. h \in 1 .. (h - 1) + 1 /\ ~(h <= h - 1) /\ h - (h - 1) = 1
    BY <1>1
  <2>6. ((A \o X) \o H)[h] = H[1]
    BY <1>2, <1>6, <2>1, <2>5
  <2> QED
    BY <2>1, <2>2, <2>4, <2>6
<1>8. /\ ((A \o X) \o H) \o Y \in Seq(Statements)
      /\ Len(((A \o X) \o H) \o Y) = h + Len(Y)
      /\ \A i \in 1 .. h : (((A \o X) \o H) \o Y)[i] = ((A \o X) \o H)[i]
      /\ \A i \in 1 .. Len(Y) : (((A \o X) \o H) \o Y)[h + i] = Y[i]
  <2> DEFINE B == (A \o X) \o H
  <2>1. /\ B \o Y \in Seq(Statements)
        /\ Len(B \o Y) = Len(B) + Len(Y)
        /\ \A i \in 1 .. Len(B) + Len(Y) :
             (B \o Y)[i] = IF i <= Len(B) THEN B[i] ELSE Y[i - Len(B)]
    BY <1>3, <1>7, ConcatProperties
  <2>2. Len(B) = h /\ Len(Y) \in Nat
    BY <1>3, <1>7
  <2> HIDE DEF B
  <2>3. \A i \in 1 .. h : (B \o Y)[i] = B[i]
    BY <1>1, <2>1, <2>2
  <2>4. \A i \in 1 .. Len(Y) : (B \o Y)[h + i] = Y[i]
    BY <1>1, <2>1, <2>2
  <2>5. Len(B \o Y) = h + Len(Y)
    BY <2>1, <2>2
  <2> QED
    BY <2>1, <2>3, <2>4, <2>5 DEF B
<1> DEFINE AX   == A \o X
           B    == AX \o H
           prog == B \o Y
<1>9. /\ AX[1] = A[1]
      /\ \A i \in 1 .. h - 2 : AX[i + 1] = X[i]
      /\ \A i \in 1 .. h - 1 : B[i] = AX[i]
      /\ B[h] = H[1]
      /\ prog \in Seq(Statements) /\ Len(prog) = h + Len(Y)
      /\ \A i \in 1 .. h : prog[i] = B[i]
      /\ \A i \in 1 .. Len(Y) : prog[h + i] = Y[i]
  BY <1>6, <1>7, <1>8
<1>16. prog = ChargeStatements(j, ps)
  BY <1>5
<1> HIDE DEF AX, B, prog
<1>10. prog[1] = Update(Own(j), 0)
  BY <1>1, <1>2, <1>9
<1>11. prog[h] = Update(History(j), 0)
  BY <1>1, <1>2, <1>9
<1>12. \A i \in 1 .. h - 2 : prog[i + 1] = X[i]
  BY <1>1, <1>9
<1>13. ASSUME Counts(j)
       PROVE  /\ Job[j].price # 0 => prog[2] = Update(Purse(j), -Job[j].price)
              /\ prog[o] = Update(Own(j), Job[j].size)
              /\ \A i \in 1 .. n : prog[i + o] = Update(Quota(Job[j].user, ps[i]), Job[j].size)
  <2>1. h = o + n + 1
    BY <1>1, <1>13
  <2>2. Job[j].price # 0 => prog[2] = X[1]
    BY <1>1, <1>12, <2>1
  <2>3. prog[o] = X[o - 1]
    BY <1>1, <1>12, <2>1
  <2>4. ASSUME NEW i \in 1 .. n PROVE prog[i + o] = X[i + o - 1]
    <3>1. i + o - 1 \in 1 .. h - 2 /\ (i + o - 1) + 1 = i + o
      BY <1>1, <2>1
    <3> QED
      BY <1>12, <3>1
  <2>5. ASSUME NEW i \in 1 .. n
        PROVE  prog[i + o] = Update(Quota(Job[j].user, ps[i]), Job[j].size)
    BY <1>4, <1>13, <2>4
  <2>6. Job[j].price # 0 => prog[2] = Update(Purse(j), -Job[j].price)
    BY <1>4, <1>13, <2>2
  <2>7. prog[o] = Update(Own(j), Job[j].size)
    BY <1>4, <1>13, <2>3
  <2> QED
    BY <2>5, <2>6, <2>7
<1>14. ASSUME Job[j].code # None /\ Job[j].size # 0
       PROVE  prog[h + 1] = Update(Bill(Job[j].code), Job[j].size)
  <2>1. Len(Y) = 1 /\ Y[1] = Update(Bill(Job[j].code), Job[j].size)
    BY <1>3, <1>14
  <2>2. 1 \in 1 .. Len(Y)
    BY <2>1
  <2> QED
    BY <1>9, <2>1, <2>2
<1>17. prog \in Seq(Statements) /\ Len(prog) = h + Len(Y)
  BY <1>9
<1>18. IF Job[j].code # None /\ Job[j].size # 0
       THEN Len(Y) = 1 /\ prog[h + 1] = Update(Bill(Job[j].code), Job[j].size)
       ELSE Len(Y) = 0
  BY <1>3, <1>14
<1>19. Y = BillOf(j) /\ h = HistoryAt(j, Len(ps)) /\ o = OwnPages(j) /\ n = Len(ps)
  BY DEF Y, h, o, n
<1>20. /\ ChargeStatements(j, ps) \in Seq(Statements)
       /\ Len(ChargeStatements(j, ps)) = HistoryAt(j, Len(ps)) + Len(BillOf(j))
       /\ ChargeStatements(j, ps)[1] = Update(Own(j), 0)
       /\ ChargeStatements(j, ps)[HistoryAt(j, Len(ps))] = Update(History(j), 0)
  BY <1>10, <1>11, <1>16, <1>17, <1>19
<1>21. Counts(j) =>
         /\ Job[j].price # 0 => ChargeStatements(j, ps)[2] = Update(Purse(j), -Job[j].price)
         /\ ChargeStatements(j, ps)[OwnPages(j)] = Update(Own(j), Job[j].size)
         /\ \A i \in 1 .. Len(ps) :
              ChargeStatements(j, ps)[i + OwnPages(j)]
                = Update(Quota(Job[j].user, ps[i]), Job[j].size)
  BY <1>13, <1>16, <1>19
<1> QED
  BY <1>16, <1>18, <1>19, <1>20, <1>21

(* Every statement of a job is one of these. *)
LEMMA ChargeLines ==
  ASSUME NEW j \in Charges, NEW ps \in SetToSeqs(Job[j].parents),
         NEW i \in 1 .. Len(ChargeStatements(j, ps))
  PROVE  \/ i = 1 /\ ChargeStatements(j, ps)[i] = Update(Own(j), 0)
         \/ /\ Counts(j) /\ Job[j].price # 0 /\ i = 2
            /\ ChargeStatements(j, ps)[i] = Update(Purse(j), -Job[j].price)
         \/ /\ Counts(j) /\ i = OwnPages(j)
            /\ ChargeStatements(j, ps)[i] = Update(Own(j), Job[j].size)
         \/ \E k \in 1 .. Len(ps) :
              /\ Counts(j) /\ i = k + OwnPages(j)
              /\ ChargeStatements(j, ps)[i] = Update(Quota(Job[j].user, ps[k]), Job[j].size)
         \/ i = HistoryAt(j, Len(ps)) /\ ChargeStatements(j, ps)[i] = Update(History(j), 0)
         \/ /\ Job[j].code # None /\ Job[j].size # 0 /\ i = HistoryAt(j, Len(ps)) + 1
            /\ ChargeStatements(j, ps)[i] = Update(Bill(Job[j].code), Job[j].size)
<1> DEFINE n == Len(ps)
           o == OwnPages(j)
           h == HistoryAt(j, n)
           b == Len(BillOf(j))
           prog == ChargeStatements(j, ps)
<1>1. n \in Nat /\ (o = IF Job[j].price # 0 THEN 3 ELSE 2)
      /\ (h = IF Counts(j) THEN o + n + 1 ELSE 2)
      /\ (b = IF Job[j].code # None /\ Job[j].size # 0 THEN 1 ELSE 0)
  BY JobFacts, OrderOfParents, ChargeShape DEF OwnPages, HistoryAt
<1>2. i \in Int /\ 1 <= i /\ i <= h + b
  <2>1. Len(prog) = h + b
    BY ChargeShape
  <2>2. i \in 1 .. Len(prog)
    OBVIOUS
  <2> HIDE DEF n, o, h, b, prog
  <2>3. h + b \in Nat
    BY <1>1
  <2> QED
    BY <2>1, <2>2, <2>3
<1>3. /\ prog[1] = Update(Own(j), 0)
      /\ Counts(j) =>
           /\ Job[j].price # 0 => prog[2] = Update(Purse(j), -Job[j].price)
           /\ prog[o] = Update(Own(j), Job[j].size)
           /\ \A k \in 1 .. n : prog[k + o] = Update(Quota(Job[j].user, ps[k]), Job[j].size)
      /\ prog[h] = Update(History(j), 0)
      /\ Job[j].code # None /\ Job[j].size # 0 =>
           prog[h + 1] = Update(Bill(Job[j].code), Job[j].size)
  BY ChargeShape
<1> HIDE DEF n, o, h, b, prog
<1>4. \/ i = 1
      \/ Counts(j) /\ Job[j].price # 0 /\ i = 2
      \/ Counts(j) /\ i = o
      \/ Counts(j) /\ i - o \in 1 .. n
      \/ i = h
      \/ Job[j].code # None /\ Job[j].size # 0 /\ i = h + 1
  BY <1>1, <1>2
<1>5. CASE Counts(j) /\ i - o \in 1 .. n
  <2>1. i = (i - o) + o
    BY <1>1, <1>2
  <2>2. prog[(i - o) + o] = Update(Quota(Job[j].user, ps[i - o]), Job[j].size)
    BY <1>3, <1>5
  <2> QED
    BY <1>5, <2>1, <2>2 DEF n, o, prog
<1> QED
  BY <1>3, <1>4, <1>5 DEF n, o, h, prog

(* What a job adds to each row. *)
LEMMA ChargeEffectOf ==
  ASSUME NEW j \in Charges
  PROVE  /\ ChargeEffect(j, Own(j)) = IF Counts(j) THEN Job[j].size ELSE 0
         /\ ChargeEffect(j, Purse(j)) = IF Counts(j) THEN -Job[j].price ELSE 0
         /\ \A p \in Job[j].parents :
              ChargeEffect(j, Quota(Job[j].user, p)) = IF Counts(j) THEN Job[j].size ELSE 0
         /\ ChargeEffect(j, History(j)) = 0
         /\ ChargeEffect(j, Bill(Job[j].code)) = Job[j].size
         /\ \A r : ChargeEffect(j, r) # 0 =>
              \/ r = Purse(j) /\ Counts(j) /\ Job[j].price # 0
              \/ r = Own(j) /\ Counts(j)
              \/ Counts(j) /\ \E p \in Job[j].parents : r = Quota(Job[j].user, p)
              \/ r = Bill(Job[j].code) /\ Job[j].size # 0
<1> DEFINE quotas == {Quota(Job[j].user, p) : p \in {Job[j].printer} \cup Job[j].parents}
           G1(r) == r = Purse(j) /\ Counts(j)
           G2(r) == r \in quotas /\ Job[j].counted
           G3(r) == r = Bill(Job[j].code)
<1>1. \A r : /\ G1(r) => ~G2(r) /\ ~G3(r)
             /\ G2(r) => ~G3(r)
  BY RowsAreDistinct DEF Purse
<1>2. \A r : ChargeEffect(j, r) = CASE G1(r) -> -Job[j].price
                                    [] G2(r) -> Job[j].size
                                    [] G3(r) -> Job[j].size
                                    [] OTHER -> 0
  BY DEF ChargeEffect, Counts
<1> HIDE DEF G1, G2, G3
<1>3. \A r : ChargeEffect(j, r) = IF G1(r) THEN -Job[j].price
                                  ELSE IF G2(r) \/ G3(r) THEN Job[j].size ELSE 0
  BY <1>1, <1>2
<1>4. Own(j) \in quotas /\ (\A p \in Job[j].parents : Quota(Job[j].user, p) \in quotas)
  BY DEF Own
<1>5. /\ Purse(j) \notin quotas /\ Purse(j) # Bill(Job[j].code)
      /\ History(j) \notin quotas /\ History(j) # Purse(j) /\ History(j) # Bill(Job[j].code)
      /\ Bill(Job[j].code) \notin quotas
  BY RowsAreDistinct DEF Purse
<1>6. Job[j].size \in Nat /\ Job[j].price \in Int /\ -Job[j].price \in Int
      /\ (Job[j].price # 0 <=> -Job[j].price # 0)
  BY JobFacts
<1>7. Counts(j) <=> Job[j].counted /\ Job[j].size # 0
  BY DEF Counts
<1>8. ASSUME NEW r \in quotas
      PROVE  ChargeEffect(j, r) = IF Counts(j) THEN Job[j].size ELSE 0
  <2>1. r # Purse(j) /\ r # Bill(Job[j].code)
    BY <1>5
  <2> QED
    BY <1>3, <1>6, <1>7, <2>1 DEF G1, G2, G3
<1>9. ChargeEffect(j, Purse(j)) = IF Counts(j) THEN -Job[j].price ELSE 0
  BY <1>3, <1>5 DEF G1, G2, G3
<1>10. ChargeEffect(j, History(j)) = 0
  BY <1>3, <1>5 DEF G1, G2, G3
<1>11. ChargeEffect(j, Bill(Job[j].code)) = Job[j].size
  BY <1>3, <1>5 DEF G1, G2, G3
<1>12. ASSUME NEW r, ChargeEffect(j, r) # 0
       PROVE  \/ r = Purse(j) /\ Counts(j) /\ Job[j].price # 0
              \/ r = Own(j) /\ Counts(j)
              \/ Counts(j) /\ \E p \in Job[j].parents : r = Quota(Job[j].user, p)
              \/ r = Bill(Job[j].code) /\ Job[j].size # 0
  <2>1. CASE G1(r)
    BY <1>3, <1>6, <1>12, <2>1 DEF G1
  <2>2. CASE ~G1(r) /\ G2(r)
    BY <1>3, <1>7, <1>12, <2>2 DEF G2, Own
  <2>3. CASE ~G1(r) /\ G3(r)
    BY <1>3, <1>12, <2>3 DEF G3
  <2> QED
    BY <1>3, <1>12, <2>1, <2>2, <2>3
<1> QED
  BY <1>4, <1>8, <1>9, <1>10, <1>11, <1>12

-----------------------------------------------------------------------------
(* What a program adds to a row.                                           *)

(* The first k statements add n to row r, the others of them 0. *)
AddsUpTo(prog, k, r, n) ==
  /\ \A i \in 1 .. k : prog[i].row = r => prog[i].by \in {0, n}
  /\ n # 0 => \E i \in 1 .. k : prog[i].row = r /\ prog[i].by = n

(* No two statements change the same row. *)
OneChange(prog) ==
  \A i, k \in 1 .. Len(prog) :
    prog[i].row = prog[k].row /\ prog[i].by # 0 /\ prog[k].by # 0 => i = k

LEMMA AddsOnlyOneAmount ==
  ASSUME NEW prog, NEW k, NEW r, NEW m, NEW n, AddsUpTo(prog, k, r, m), AddsUpTo(prog, k, r, n)
  PROVE  m = n
  BY DEF AddsUpTo

LEMMA NextStatementAdds ==
  ASSUME NEW prog \in Seq(Statements), OneChange(prog), NEW k \in 1 .. Len(prog),
         NEW r \in Rows, NEW n \in Int, AddsUpTo(prog, k - 1, r, n)
  PROVE  AddsUpTo(prog, k, r, IF prog[k].row = r THEN n + prog[k].by ELSE n)
<1>1. k \in Int /\ 1 <= k /\ k \in 1 .. Len(prog) /\ prog[k].by \in Int
      /\ (\A i \in 1 .. k - 1 : i \in 1 .. k /\ i \in 1 .. Len(prog) /\ i # k)
      /\ (\A i \in 1 .. k : i = k \/ i \in 1 .. k - 1)
  <2>1. Len(prog) \in Nat /\ prog[k] \in Statements
    OBVIOUS
  <2> QED
    BY <2>1 DEF Statements
<1>2. k \in 1 .. k
  BY <1>1
<1>3. CASE prog[k].row # r
  BY <1>1, <1>3 DEF AddsUpTo
<1>4. CASE prog[k].row = r /\ prog[k].by = 0
  <2>1. n + prog[k].by = n
    BY <1>4
  <2> QED
    BY <1>1, <1>4, <2>1 DEF AddsUpTo
<1>5. CASE prog[k].row = r /\ prog[k].by # 0
  <2>1. n = 0
    BY <1>1, <1>5 DEF AddsUpTo, OneChange
  <2>2. n + prog[k].by = prog[k].by
    BY <1>1, <2>1
  <2>3. \A i \in 1 .. k - 1 : prog[i].row = r => prog[i].by = 0
    BY <2>1 DEF AddsUpTo
  <2> QED
    BY <1>1, <1>2, <1>5, <2>2, <2>3 DEF AddsUpTo
<1> QED
  BY <1>3, <1>4, <1>5

LEMMA UpdateFields == \A r, b : Update(r, b).row = r /\ Update(r, b).by = b
  BY DEF Update

LEMMA ChargeChangesOnce ==
  ASSUME NEW j \in Charges, NEW ps \in SetToSeqs(Job[j].parents)
  PROVE  OneChange(ChargeStatements(j, ps))
<1> DEFINE prog == ChargeStatements(j, ps)
           n == Len(ps)
           o == OwnPages(j)
           h == HistoryAt(j, n)
           PurseLine(i) == i = 2 /\ prog[i].row = Purse(j)
           OwnLine(i)   == i = o /\ prog[i].row = Own(j)
           GroupLine(i, k) == i = k + o /\ prog[i].row = Quota(Job[j].user, ps[k])
           BillLine(i)  == i = h + 1 /\ prog[i].row = Bill(Job[j].code)
<1>1. ASSUME NEW i \in 1 .. Len(prog), prog[i].by # 0
      PROVE  PurseLine(i) \/ OwnLine(i) \/ BillLine(i) \/ \E k \in 1 .. n : GroupLine(i, k)
  <2> HIDE DEF prog
  <2>1. \/ i = 1 /\ prog[i] = Update(Own(j), 0)
        \/ /\ Counts(j) /\ Job[j].price # 0 /\ i = 2
           /\ prog[i] = Update(Purse(j), -Job[j].price)
        \/ /\ Counts(j) /\ i = o
           /\ prog[i] = Update(Own(j), Job[j].size)
        \/ \E k \in 1 .. n :
             /\ Counts(j) /\ i = k + o
             /\ prog[i] = Update(Quota(Job[j].user, ps[k]), Job[j].size)
        \/ i = h /\ prog[i] = Update(History(j), 0)
        \/ /\ Job[j].code # None /\ Job[j].size # 0 /\ i = h + 1
           /\ prog[i] = Update(Bill(Job[j].code), Job[j].size)
    BY ChargeLines DEF prog
  <2> HIDE DEF n, o, h
  <2> QED
    BY <1>1, <2>1, UpdateFields
<1>2. \A k, l \in 1 .. n : ps[k] = ps[l] => k = l
  BY JobFacts, OrderOfParents
<1>3. \A k \in 1 .. n : ps[k] \in Job[j].parents
  BY JobFacts, OrderOfParents
<1>4. \A k \in 1 .. n : Quota(Job[j].user, ps[k]) # Own(j)
  BY <1>3, JobFacts, RowsAreDistinct DEF Own
<1>5. /\ Own(j) # Purse(j) /\ Own(j) # Bill(Job[j].code) /\ Purse(j) # Bill(Job[j].code)
      /\ \A k \in 1 .. n : /\ Quota(Job[j].user, ps[k]) # Purse(j)
                           /\ Quota(Job[j].user, ps[k]) # Bill(Job[j].code)
  BY RowsAreDistinct DEF Own, Purse
<1>6. \A k, l \in 1 .. n : Quota(Job[j].user, ps[k]) = Quota(Job[j].user, ps[l]) => k = l
  BY <1>2, RowsAreDistinct
<1>7. ASSUME NEW i \in 1 .. Len(prog), NEW k \in 1 .. Len(prog),
             prog[i].row = prog[k].row, prog[i].by # 0, prog[k].by # 0
      PROVE  i = k
  <2>1. PurseLine(i) \/ OwnLine(i) \/ BillLine(i) \/ \E l \in 1 .. n : GroupLine(i, l)
    BY <1>1, <1>7
  <2>2. PurseLine(k) \/ OwnLine(k) \/ BillLine(k) \/ \E l \in 1 .. n : GroupLine(k, l)
    BY <1>1, <1>7
  <2> HIDE DEF prog, n, o, h
  <2> QED
    BY <1>4, <1>5, <1>6, <1>7, <2>1, <2>2
<1> QED
  BY <1>7 DEF OneChange

LEMMA ChargeAddsItsEffect ==
  ASSUME NEW j \in Charges, NEW ps \in SetToSeqs(Job[j].parents), NEW r \in Rows
  PROVE  /\ ChargeEffect(j, r) \in Int
         /\ AddsUpTo(ChargeStatements(j, ps), Len(ChargeStatements(j, ps)), r, ChargeEffect(j, r))
<1> DEFINE prog == ChargeStatements(j, ps)
           E(q) == ChargeEffect(j, q)
           n == Len(ps)
           o == OwnPages(j)
           h == HistoryAt(j, n)
           b == Len(BillOf(j))
<1>1. /\ E(Own(j)) = IF Counts(j) THEN Job[j].size ELSE 0
      /\ E(Purse(j)) = IF Counts(j) THEN -Job[j].price ELSE 0
      /\ \A p \in Job[j].parents : E(Quota(Job[j].user, p)) = IF Counts(j) THEN Job[j].size ELSE 0
      /\ E(History(j)) = 0
      /\ E(Bill(Job[j].code)) = Job[j].size
      /\ \A q : E(q) # 0 =>
           \/ q = Purse(j) /\ Counts(j) /\ Job[j].price # 0
           \/ q = Own(j) /\ Counts(j)
           \/ Counts(j) /\ \E p \in Job[j].parents : q = Quota(Job[j].user, p)
           \/ q = Bill(Job[j].code) /\ Job[j].size # 0
  BY ChargeEffectOf
<1>2. /\ n \in Nat
      /\ \A k \in 1 .. n : ps[k] \in Job[j].parents
      /\ \A p \in Job[j].parents : \E k \in 1 .. n : ps[k] = p
  BY JobFacts, OrderOfParents
<1>3. /\ Job[j].size \in Nat /\ -Job[j].price \in Int /\ (Job[j].price # 0 => -Job[j].price # 0)
      /\ (r = Bill(Job[j].code) => Job[j].code # None)
  <2>1. Job[j].size \in Nat /\ Job[j].price \in Int /\ None \notin Codes
    BY JobFacts
  <2>2. r = Bill(Job[j].code) => Job[j].code \in Codes
    BY RowsAreDistinct DEF Rows
  <2> QED
    BY <2>1, <2>2
<1>4. /\ o = IF Job[j].price # 0 THEN 3 ELSE 2
      /\ h = IF Counts(j) THEN o + n + 1 ELSE 2
      /\ b = IF Job[j].code # None /\ Job[j].size # 0 THEN 1 ELSE 0
      /\ Len(prog) = h + b
  BY ChargeShape DEF OwnPages, HistoryAt
<1>5. /\ prog[1] = Update(Own(j), 0)
      /\ Counts(j) =>
           /\ Job[j].price # 0 => prog[2] = Update(Purse(j), -Job[j].price)
           /\ prog[o] = Update(Own(j), Job[j].size)
           /\ \A k \in 1 .. n : prog[k + o] = Update(Quota(Job[j].user, ps[k]), Job[j].size)
      /\ Job[j].code # None /\ Job[j].size # 0 =>
           prog[h + 1] = Update(Bill(Job[j].code), Job[j].size)
  BY ChargeShape
<1>6. ASSUME NEW i \in 1 .. Len(prog), prog[i].row = r
      PROVE  prog[i].by \in {0, E(r)}
  <2> HIDE DEF prog
  <2>1. \/ i = 1 /\ prog[i] = Update(Own(j), 0)
        \/ /\ Counts(j) /\ Job[j].price # 0 /\ i = 2
           /\ prog[i] = Update(Purse(j), -Job[j].price)
        \/ /\ Counts(j) /\ i = o
           /\ prog[i] = Update(Own(j), Job[j].size)
        \/ \E k \in 1 .. n :
             /\ Counts(j) /\ i = k + o
             /\ prog[i] = Update(Quota(Job[j].user, ps[k]), Job[j].size)
        \/ i = h /\ prog[i] = Update(History(j), 0)
        \/ /\ Job[j].code # None /\ Job[j].size # 0 /\ i = h + 1
           /\ prog[i] = Update(Bill(Job[j].code), Job[j].size)
    BY ChargeLines DEF prog
  <2> HIDE DEF n, o, h, E
  <2> QED
    BY <1>1, <1>2, <1>6, <2>1, UpdateFields
<1> HIDE DEF prog, n, o, h, b, E
<1>7. E(r) \in Int
  BY <1>1, <1>3
<1>8. ASSUME E(r) # 0
      PROVE  \E i \in 1 .. Len(prog) : prog[i].row = r /\ prog[i].by = E(r)
  <2>1. CASE r = Purse(j) /\ Counts(j) /\ Job[j].price # 0
    <3>1. 2 \in 1 .. Len(prog)
      BY <1>2, <1>4, <2>1
    <3> QED
      BY <1>1, <1>5, <2>1, <3>1, UpdateFields
  <2>2. CASE r = Own(j) /\ Counts(j)
    <3>1. o \in 1 .. Len(prog)
      BY <1>2, <1>4, <2>2
    <3> QED
      BY <1>1, <1>5, <2>2, <3>1, UpdateFields
  <2>3. CASE Counts(j) /\ \E p \in Job[j].parents : r = Quota(Job[j].user, p)
    <3>1. PICK k \in 1 .. n : r = Quota(Job[j].user, ps[k])
      BY <1>2, <2>3
    <3>2. k + o \in 1 .. Len(prog)
      BY <1>2, <1>4, <2>3
    <3>3. prog[k + o] = Update(Quota(Job[j].user, ps[k]), Job[j].size)
      BY <1>5, <2>3
    <3>4. E(r) = Job[j].size
      BY <1>1, <1>2, <2>3, <3>1
    <3> QED
      BY <3>1, <3>2, <3>3, <3>4, UpdateFields
  <2>4. CASE r = Bill(Job[j].code) /\ Job[j].size # 0
    <3>1. h + 1 \in 1 .. Len(prog)
      BY <1>2, <1>3, <1>4, <2>4
    <3> QED
      BY <1>1, <1>3, <1>5, <2>4, <3>1, UpdateFields
  <2> QED
    BY <1>1, <1>8, <2>1, <2>2, <2>3, <2>4
<1> QED
  BY <1>6, <1>7, <1>8 DEF AddsUpTo, prog, E

LEMMA RefundShape ==
  ASSUME NEW j \in Charges
  PROVE  /\ RefundStatements(j) \in Seq(Statements)
         /\ IF Job[j].code # None
            THEN /\ Len(RefundStatements(j)) = 4
                 /\ RefundStatements(j)[1] = Update(Bill(Job[j].code), -Job[j].size)
                 /\ RefundStatements(j)[2] = Update(Purse(j), Job[j].price)
                 /\ RefundStatements(j)[3] = Update(Own(j), -Job[j].size)
                 /\ RefundStatements(j)[4] = Update(History(j), 0)
            ELSE /\ Len(RefundStatements(j)) = 3
                 /\ RefundStatements(j)[1] = Update(Purse(j), Job[j].price)
                 /\ RefundStatements(j)[2] = Update(Own(j), -Job[j].size)
                 /\ RefundStatements(j)[3] = Update(History(j), 0)
<1>1. /\ Update(Purse(j), Job[j].price) \in Statements
      /\ Update(Own(j), -Job[j].size) \in Statements
      /\ Update(History(j), 0) \in Statements
      /\ (Job[j].code # None => Update(Bill(Job[j].code), -Job[j].size) \in Statements)
  <2>1. Job[j].code # None => Bill(Job[j].code) \in Rows
    BY JobFacts DEF Rows
  <2>2. -Job[j].size \in Int
    BY JobFacts
  <2> QED
    BY <2>1, <2>2, JobFacts DEF Update, Statements
<1> DEFINE price   == Update(Purse(j), Job[j].price)
           pages   == Update(Own(j), -Job[j].size)
           history == Update(History(j), 0)
           bill    == Update(Bill(Job[j].code), -Job[j].size)
<1> HIDE DEF price, pages, history, bill
<1>2. CASE Job[j].code # None
  <2>1. RefundStatements(j) = <<bill>> \o <<price, pages, history>>
    BY <1>2 DEF RefundStatements, When, price, pages, history, bill
  <2>2. /\ price \in Statements /\ pages \in Statements
        /\ history \in Statements /\ bill \in Statements
    BY <1>1, <1>2 DEF price, pages, history, bill
  <2>3. /\ RefundStatements(j) \in Seq(Statements) /\ Len(RefundStatements(j)) = 4
        /\ RefundStatements(j)[1] = bill /\ RefundStatements(j)[2] = price
        /\ RefundStatements(j)[3] = pages /\ RefundStatements(j)[4] = history
    BY <2>1, <2>2
  <2> QED
    BY <1>2, <2>3 DEF price, pages, history, bill
<1>3. CASE Job[j].code = None
  <2>1. RefundStatements(j) = <<>> \o <<price, pages, history>>
    BY <1>3 DEF RefundStatements, When, price, pages, history
  <2>2. price \in Statements /\ pages \in Statements /\ history \in Statements
    BY <1>1 DEF price, pages, history
  <2>3. /\ RefundStatements(j) \in Seq(Statements) /\ Len(RefundStatements(j)) = 3
        /\ RefundStatements(j)[1] = price
        /\ RefundStatements(j)[2] = pages /\ RefundStatements(j)[3] = history
    BY <2>1, <2>2
  <2> QED
    BY <1>3, <2>3 DEF price, pages, history
<1> QED
  BY <1>2, <1>3

LEMMA RefundEffectOf ==
  ASSUME NEW j \in Charges
  PROVE  /\ RefundEffect(j, Purse(j)) = Job[j].price
         /\ RefundEffect(j, Own(j)) = -Job[j].size
         /\ RefundEffect(j, Bill(Job[j].code)) = -Job[j].size
         /\ RefundEffect(j, History(j)) = 0
         /\ \A r : RefundEffect(j, r) # 0 => r \in {Purse(j), Own(j), Bill(Job[j].code)}
<1>1. /\ Purse(j) # Own(j) /\ Purse(j) # Bill(Job[j].code) /\ Own(j) # Bill(Job[j].code)
      /\ History(j) \notin {Purse(j), Own(j), Bill(Job[j].code)}
  BY RowsAreDistinct DEF Own, Purse
<1>2. \A r : RefundEffect(j, r) = IF r = Purse(j) THEN Job[j].price
                                  ELSE IF r = Own(j) \/ r = Bill(Job[j].code)
                                       THEN -Job[j].size ELSE 0
  BY <1>1 DEF RefundEffect
<1> QED
  BY <1>1, <1>2

LEMMA RefundAddsItsEffect ==
  ASSUME NEW j \in Charges, NEW r \in Rows
  PROVE  /\ RefundEffect(j, r) \in Int
         /\ AddsUpTo(RefundStatements(j), Len(RefundStatements(j)), r, RefundEffect(j, r))
         /\ OneChange(RefundStatements(j))
<1> DEFINE prog == RefundStatements(j)
           E(q) == RefundEffect(j, q)
<1>1. /\ Job[j].price \in Int /\ -Job[j].size \in Int
      /\ (r = Bill(Job[j].code) => Job[j].code # None)
  <2>1. Job[j].size \in Nat /\ Job[j].price \in Int /\ None \notin Codes
    BY JobFacts
  <2>2. r = Bill(Job[j].code) => Job[j].code \in Codes
    BY RowsAreDistinct DEF Rows
  <2> QED
    BY <2>1, <2>2
<1>2. /\ Purse(j) # Own(j) /\ Purse(j) # Bill(Job[j].code) /\ Own(j) # Bill(Job[j].code)
      /\ History(j) \notin {Purse(j), Own(j), Bill(Job[j].code)}
  BY RowsAreDistinct DEF Own, Purse
<1>3. /\ E(Purse(j)) = Job[j].price
      /\ E(Own(j)) = -Job[j].size
      /\ E(Bill(Job[j].code)) = -Job[j].size
      /\ E(History(j)) = 0
      /\ \A q : E(q) # 0 => q \in {Purse(j), Own(j), Bill(Job[j].code)}
  BY RefundEffectOf
<1> HIDE DEF E
<1>4. E(r) \in Int
  BY <1>1, <1>3
<1>5. CASE Job[j].code # None
  <2>2. Len(prog) = 4 /\ 1 .. 4 = {1, 2, 3, 4}
    BY <1>5, RefundShape
  <2>3. /\ prog[1].row = Bill(Job[j].code) /\ prog[1].by = -Job[j].size
        /\ prog[2].row = Purse(j) /\ prog[2].by = Job[j].price
        /\ prog[3].row = Own(j) /\ prog[3].by = -Job[j].size
        /\ prog[4].row = History(j) /\ prog[4].by = 0
    BY <1>5, RefundShape, UpdateFields
  <2> HIDE DEF prog
  <2>4. OneChange(prog)
    BY <1>2, <2>2, <2>3 DEF OneChange
  <2>5. AddsUpTo(prog, Len(prog), r, E(r))
    BY <1>3, <2>2, <2>3 DEF AddsUpTo
  <2> QED
    BY <1>4, <2>4, <2>5 DEF prog, E
<1>6. CASE Job[j].code = None
  <2>2. Len(prog) = 3 /\ 1 .. 3 = {1, 2, 3}
    BY <1>6, RefundShape
  <2>3. /\ prog[1].row = Purse(j) /\ prog[1].by = Job[j].price
        /\ prog[2].row = Own(j) /\ prog[2].by = -Job[j].size
        /\ prog[3].row = History(j) /\ prog[3].by = 0
    BY <1>6, RefundShape, UpdateFields
  <2> HIDE DEF prog
  <2>4. OneChange(prog)
    BY <1>2, <2>2, <2>3 DEF OneChange
  <2>5. AddsUpTo(prog, Len(prog), r, E(r))
    BY <1>1, <1>3, <1>6, <2>2, <2>3 DEF AddsUpTo
  <2> QED
    BY <1>4, <2>4, <2>5 DEF prog, E
<1> QED
  BY <1>5, <1>6

-----------------------------------------------------------------------------
(* Programs and their rows.                                                *)

LEMMA ProgramsByKind ==
  /\ \A t \in Charges : Programs(t) = {ChargeStatements(t, ps) : ps \in SetToSeqs(Job[t].parents)}
  /\ \A t \in Refunds : Programs(t) = {RefundStatements(Refunded[t])}
  /\ \A t \in Saves   : Programs(t) = {Changes[t]}
<1>1. \A t : /\ t \in Charges => t \notin Refunds /\ t \notin Saves
             /\ t \in Refunds => t \notin Charges /\ t \notin Saves
             /\ t \in Saves => t \notin Charges /\ t \notin Refunds
  BY TxAssumption
<1> QED
  BY <1>1 DEF Programs

LEMMA ProgramFacts ==
  ASSUME NEW t \in Transactions, NEW prog \in Programs(t)
  PROVE  /\ prog \in Seq(Statements)
         /\ \A i \in 1 .. Len(prog) : prog[i].row \in RowsOf(t)
<1>1. prog \in Seq(Statements)
  <2>1. CASE t \in Charges
    BY <2>1, ProgramsByKind, ChargeShape
  <2>2. CASE t \in Refunds
    BY <2>2, ProgramsByKind, RefundShape, TxAssumption
  <2>3. CASE t \in Saves
    <3>1. Changes[t] \in Seq(Statements)
      <4>1. Changes \in [Saves -> Seq(Statements)]
        BY TxAssumption DEF Statements
      <4> QED
        BY <2>3, <4>1
    <3> QED
      BY <2>3, <3>1, ProgramsByKind
  <2> QED
    BY <2>1, <2>2, <2>3 DEF Transactions
<1>2. DOMAIN prog = 1 .. Len(prog)
  BY <1>1
<1>3. \A i \in 1 .. Len(prog) : prog[i] \in ToSet(prog)
  BY <1>2 DEF ToSet
<1>4. \A i \in 1 .. Len(prog) : prog[i] \in UNION {ToSet(p) : p \in Programs(t)}
  BY <1>3
<1> QED
  BY <1>1, <1>4 DEF RowsOf

LEMMA RowsOfAreRows ==
  ASSUME NEW t \in Transactions
  PROVE  RowsOf(t) \subseteq Rows
<1>1. ASSUME NEW prog \in Programs(t), NEW s \in ToSet(prog)
      PROVE  s.row \in Rows
  <2>1. prog \in Seq(Statements)
    BY ProgramFacts
  <2>2. s \in Statements
    BY <2>1 DEF ToSet
  <2> QED
    BY <2>2 DEF Statements
<1> QED
  BY <1>1 DEF RowsOf

(* What a job or a refund adds, in the abstract specification. *)
TxEffect(t, r) == IF t \in Charges THEN ChargeEffect(t, r) ELSE RefundEffect(Refunded[t], r)

LEMMA AdderPrograms ==
  ASSUME NEW t \in Charges \cup Refunds, NEW prog \in Programs(t)
  PROVE  /\ OneChange(prog)
         /\ \A r \in Rows : /\ TxEffect(t, r) \in Int
                            /\ AddsUpTo(prog, Len(prog), r, TxEffect(t, r))
<1>1. CASE t \in Charges
  <2>1. PICK ps \in SetToSeqs(Job[t].parents) : prog = ChargeStatements(t, ps)
    BY <1>1, ProgramsByKind
  <2> QED
    BY <1>1, <2>1, ChargeChangesOnce, ChargeAddsItsEffect DEF TxEffect
<1>2. CASE t \in Refunds
  <2>1. prog = RefundStatements(Refunded[t]) /\ t \notin Charges /\ Refunded[t] \in Charges
    BY <1>2, ProgramsByKind, TxAssumption
  <2>2. Rows # {}
    BY <2>1, JobFacts
  <2> QED
    BY <2>1, <2>2, RefundAddsItsEffect DEF TxEffect
<1> QED
  BY <1>1, <1>2

-----------------------------------------------------------------------------
(* The invariant.                                                          *)

Phases == {"idle", "read", "skipped", "open", "committed", "rolledback"}

TypeInv ==
  /\ amount \in [Rows -> Int]
  /\ written \in [Rows -> Int]
  /\ holder \in [Rows -> Transactions \cup {None}]
  /\ status \in [Transactions -> Phases]
  /\ seen = [t \in Transactions |-> seen[t]]
  /\ program \in [Transactions -> Seq(Statements)]
  /\ pos \in [Transactions -> Nat]

(* An open transaction runs one of its programs on what it read before. *)
ProgramInv ==
  \A t \in Transactions :
    /\ status[t] \in {"read", "open"} => seen[t] \in [RowsOf(t) -> Int]
    /\ IF status[t] = "open"
       THEN program[t] \in Programs(t) /\ pos[t] \in 1 .. Len(program[t]) + 1
       ELSE pos[t] = 1

(* It has updated row r. *)
Updated(t, r) == status[t] = "open" /\ \E i \in 1 .. pos[t] - 1 : program[t][i].row = r

(* It holds the rows it has updated, and no other. *)
HolderInv == \A t \in Transactions, r \in Rows : holder[r] = t <=> Updated(t, r)

(* A row that nobody holds has no other version than the committed one. *)
FreeInv == \A r \in Rows : holder[r] = None => written[r] = amount[r]

(* What a job or a refund has written differs from what is committed by    *)
(* what its statements added.                                              *)
Added(t, r) == IF holder[r] = t THEN written[r] - amount[r] ELSE 0
AddedInv ==
  \A t \in Charges \cup Refunds, r \in Rows :
    status[t] = "open" => AddsUpTo(program[t], pos[t] - 1, r, Added(t, r))

TxInv == TypeInv /\ ProgramInv /\ HolderInv /\ FreeInv /\ AddedInv

LEMMA InitInvariant == Init => TxInv
<1> SUFFICES ASSUME Init PROVE TxInv
  OBVIOUS
<1>1. \A t \in Transactions : status[t] = "idle" /\ pos[t] = 1 /\ program[t] = <<>>
  BY DEF Init
<1>2. TypeInv
  <2>1. InitialAmount \in [Rows -> Int]
    BY TxAssumption
  <2> QED
    BY <2>1 DEF Init, TypeInv, Phases
<1>3. ProgramInv
  BY <1>1 DEF ProgramInv
<1>4. HolderInv
  <2>1. \A t \in Transactions : t # None
    BY TxAssumption
  <2> QED
    BY <1>1, <2>1 DEF HolderInv, Updated, Init
<1>5. FreeInv
  BY DEF FreeInv, Init
<1>6. AddedInv
  BY <1>1 DEF AddedInv, Transactions
<1> QED
  BY <1>2, <1>3, <1>4, <1>5, <1>6 DEF TxInv

(* Reading and beginning leave the rows alone. *)
LEMMA ReadInvariant ==
  ASSUME TxInv, NEW t \in Transactions, Read(t)
  PROVE  TxInv'
<1> USE DEF TxInv
<1>1. /\ status[t] = "idle" /\ status'[t] \in {"read", "skipped"}
      /\ status' \in [Transactions -> Phases]
      /\ \A u \in Transactions \ {t} : status'[u] = status[u] /\ seen'[u] = seen[u]
      /\ seen' = [u \in Transactions |-> seen'[u]]
      /\ status'[t] = "read" => seen'[t] = [r \in RowsOf(t) |-> amount[r]]
      /\ UNCHANGED <<amount, written, holder, program, pos>>
  <2>1. CASE t \in Refunds => Refundable(Refunded[t])
    <3>1. status' = [status EXCEPT ![t] = "read"]
          /\ seen' = [seen EXCEPT ![t] = [r \in RowsOf(t) |-> amount[r]]]
      BY <2>1 DEF Read
    <3> QED
      BY <3>1 DEF Read, TypeInv, Phases
  <2>2. CASE ~(t \in Refunds => Refundable(Refunded[t]))
    <3>1. status' = [status EXCEPT ![t] = "skipped"] /\ seen' = seen
      BY <2>2 DEF Read
    <3> QED
      BY <3>1 DEF Read, TypeInv, Phases
  <2> QED
    BY <2>1, <2>2
<1>2. TypeInv'
  BY <1>1 DEF TypeInv
<1>3. ProgramInv'
  <2>1. ASSUME NEW u \in Transactions, u # t
        PROVE  /\ status'[u] \in {"read", "open"} => seen'[u] \in [RowsOf(u) -> Int]
               /\ IF status'[u] = "open"
                  THEN program'[u] \in Programs(u) /\ pos'[u] \in 1 .. Len(program'[u]) + 1
                  ELSE pos'[u] = 1
    BY <1>1, <2>1 DEF ProgramInv
  <2>2. status'[t] = "read" => seen'[t] \in [RowsOf(t) -> Int]
    BY <1>1, RowsOfAreRows DEF TypeInv
  <2>3. status'[t] # "open" /\ pos'[t] = 1
    BY <1>1 DEF ProgramInv
  <2> QED
    BY <1>1, <2>1, <2>2, <2>3 DEF ProgramInv
<1>4. \A u \in Transactions, r \in Rows : Updated(u, r)' <=> Updated(u, r)
  BY <1>1 DEF Updated
<1>5. HolderInv'
  BY <1>1, <1>4 DEF HolderInv
<1>6. FreeInv'
  BY <1>1 DEF FreeInv
<1>7. AddedInv'
  <2>1. \A u \in Transactions : status'[u] = "open" => status[u] = "open"
    BY <1>1
  <2>2. \A u \in Transactions, r \in Rows : Added(u, r)' = Added(u, r)
    BY <1>1 DEF Added
  <2> QED
    BY <1>1, <2>1, <2>2 DEF AddedInv, Transactions
<1> QED
  BY <1>2, <1>3, <1>5, <1>6, <1>7

LEMMA BeginInvariant ==
  ASSUME TxInv, NEW t \in Transactions, Begin(t)
  PROVE  TxInv'
<1> USE DEF TxInv
<1>1. PICK prog \in Programs(t) : program' = [program EXCEPT ![t] = prog]
  BY DEF Begin
<1>2. prog \in Seq(Statements)
  BY ProgramFacts
<1>3. /\ status[t] = "read" /\ status'[t] = "open"
      /\ status' \in [Transactions -> Phases]
      /\ program' \in [Transactions -> Seq(Statements)]
      /\ program'[t] = prog
      /\ \A u \in Transactions \ {t} : status'[u] = status[u] /\ program'[u] = program[u]
      /\ UNCHANGED <<amount, written, holder, seen, pos>>
  BY <1>1, <1>2 DEF Begin, TypeInv, Phases
<1>4. pos[t] = 1
  BY <1>3 DEF ProgramInv
<1>5. TypeInv'
  BY <1>3 DEF TypeInv
<1>6. ProgramInv'
  <2>1. ASSUME NEW u \in Transactions, u # t
        PROVE  /\ status'[u] \in {"read", "open"} => seen'[u] \in [RowsOf(u) -> Int]
               /\ IF status'[u] = "open"
                  THEN program'[u] \in Programs(u) /\ pos'[u] \in 1 .. Len(program'[u]) + 1
                  ELSE pos'[u] = 1
    BY <1>3, <2>1 DEF ProgramInv
  <2>2. seen'[t] \in [RowsOf(t) -> Int]
    BY <1>3 DEF ProgramInv
  <2>3. program'[t] \in Programs(t) /\ pos'[t] \in 1 .. Len(program'[t]) + 1
    BY <1>2, <1>3, <1>4
  <2> QED
    BY <1>3, <2>1, <2>2, <2>3 DEF ProgramInv
<1>7. ASSUME NEW u \in Transactions, NEW r \in Rows
      PROVE  Updated(u, r)' <=> Updated(u, r)
  <2>1. CASE u = t
    <3>1. ~\E i \in 1 .. pos[t] - 1 : program[t][i].row = r
      BY <1>4
    <3>2. ~\E i \in 1 .. pos'[t] - 1 : program'[t][i].row = r
      BY <1>3, <1>4
    <3> QED
      BY <2>1, <3>1, <3>2 DEF Updated
  <2>2. CASE u # t
    BY <1>3, <2>2 DEF Updated
  <2> QED
    BY <2>1, <2>2
<1>8. HolderInv'
  BY <1>3, <1>7 DEF HolderInv
<1>9. FreeInv'
  BY <1>3 DEF FreeInv
<1>10. AddedInv'
  <2> SUFFICES ASSUME NEW u \in Charges \cup Refunds, NEW r \in Rows, status'[u] = "open"
               PROVE  AddsUpTo(program'[u], pos'[u] - 1, r, Added(u, r)')
    BY DEF AddedInv
  <2>1. Added(u, r)' = Added(u, r) /\ u \in Transactions
    BY <1>3 DEF Added, Transactions
  <2>2. CASE u = t
    <3>1. holder[r] # t
      BY <1>3 DEF HolderInv, Updated
    <3>2. Added(u, r) = 0
      BY <2>2, <3>1 DEF Added
    <3>3. pos'[u] - 1 = 0
      BY <1>3, <1>4, <2>2
    <3> QED
      BY <2>1, <3>2, <3>3 DEF AddsUpTo
  <2>3. CASE u # t
    BY <1>3, <2>1, <2>3 DEF AddedInv
  <2> QED
    BY <2>2, <2>3
<1> QED
  BY <1>5, <1>6, <1>8, <1>9, <1>10

(* An update takes the row and writes its statement on it. *)
LEMMA ExecuteFacts ==
  ASSUME TxInv, NEW t \in Transactions, Execute(t)
  PROVE  /\ status[t] = "open" /\ program[t] \in Programs(t) /\ program[t] \in Seq(Statements)
         /\ pos[t] \in 1 .. Len(program[t])
         /\ Statement(t) = program[t][pos[t]]
         /\ Statement(t) \in Statements /\ Statement(t).row \in RowsOf(t)
         /\ Statement(t).row \in Rows /\ Statement(t).by \in Int
         /\ holder[Statement(t).row] \in {None, t}
         /\ NewValue(t, Statement(t)) \in Int
         /\ t \notin Saves => NewValue(t, Statement(t)) = written[Statement(t).row] + Statement(t).by
<1> USE DEF TxInv
<1>1. status[t] = "open" /\ pos[t] <= Len(program[t])
  BY DEF Execute, AtWork
<1>2. program[t] \in Programs(t) /\ pos[t] \in 1 .. Len(program[t]) + 1
      /\ seen[t] \in [RowsOf(t) -> Int]
  BY <1>1 DEF ProgramInv
<1>3. program[t] \in Seq(Statements)
  BY DEF TypeInv
<1>4. pos[t] \in 1 .. Len(program[t])
  BY <1>1, <1>2, <1>3
<1>5. Statement(t) = program[t][pos[t]] /\ Statement(t) \in Statements
  BY <1>3, <1>4 DEF Statement
<1>6. Statement(t).row \in RowsOf(t)
  BY <1>2, <1>4, <1>5, ProgramFacts
<1>7. Statement(t).row \in Rows /\ Statement(t).by \in Int
  BY <1>5 DEF Statements
<1>8. holder[Statement(t).row] \in {None, t}
  BY DEF Execute, Waiting
<1>9. written[Statement(t).row] \in Int /\ seen[t][Statement(t).row] \in Int
  BY <1>2, <1>6, <1>7 DEF TypeInv
<1>10. NewValue(t, Statement(t)) \in Int
       /\ (t \notin Saves => NewValue(t, Statement(t)) = written[Statement(t).row] + Statement(t).by)
  BY <1>7, <1>9 DEF NewValue, FromMemory, Increased
<1> QED
  BY <1>1, <1>2, <1>3, <1>4, <1>5, <1>6, <1>7, <1>8, <1>10

LEMMA ExecuteInvariant ==
  ASSUME TxInv, NEW t \in Transactions, Execute(t)
  PROVE  TxInv'
<1> USE DEF TxInv
<1> DEFINE s == Statement(t)
<1>1. /\ status[t] = "open" /\ program[t] \in Programs(t) /\ program[t] \in Seq(Statements)
      /\ pos[t] \in 1 .. Len(program[t])
      /\ s = program[t][pos[t]]
      /\ s.row \in Rows /\ s.by \in Int
      /\ holder[s.row] \in {None, t}
      /\ NewValue(t, s) \in Int
      /\ t \notin Saves => NewValue(t, s) = written[s.row] + s.by
  BY ExecuteFacts
<1>2. /\ holder' = [holder EXCEPT ![s.row] = t]
      /\ written' = [written EXCEPT ![s.row] = NewValue(t, s)]
      /\ pos' = [pos EXCEPT ![t] = @ + 1]
      /\ UNCHANGED <<amount, status, seen, program>>
  BY DEF Execute
<1>3. t # None /\ Len(program[t]) \in Nat
  BY <1>1, TxAssumption
<1> HIDE DEF s
<1>4. /\ holder' \in [Rows -> Transactions \cup {None}]
      /\ holder'[s.row] = t /\ \A r \in Rows \ {s.row} : holder'[r] = holder[r]
      /\ written' \in [Rows -> Int]
      /\ written'[s.row] = NewValue(t, s) /\ \A r \in Rows \ {s.row} : written'[r] = written[r]
      /\ pos' \in [Transactions -> Nat]
      /\ pos'[t] = pos[t] + 1 /\ \A u \in Transactions \ {t} : pos'[u] = pos[u]
  BY <1>1, <1>2 DEF TypeInv
<1>5. TypeInv'
  BY <1>2, <1>4 DEF TypeInv
<1>6. ProgramInv'
  <2>1. ASSUME NEW u \in Transactions, u # t
        PROVE  /\ status'[u] \in {"read", "open"} => seen'[u] \in [RowsOf(u) -> Int]
               /\ IF status'[u] = "open"
                  THEN program'[u] \in Programs(u) /\ pos'[u] \in 1 .. Len(program'[u]) + 1
                  ELSE pos'[u] = 1
    BY <1>2, <1>4, <2>1 DEF ProgramInv
  <2>2. seen'[t] \in [RowsOf(t) -> Int]
    BY <1>1, <1>2 DEF ProgramInv
  <2>3. program'[t] \in Programs(t) /\ pos'[t] \in 1 .. Len(program'[t]) + 1
    BY <1>1, <1>2, <1>3, <1>4
  <2> QED
    BY <1>1, <1>2, <2>1, <2>2, <2>3 DEF ProgramInv
<1>7. \A i \in 1 .. pos'[t] - 1 : i \in 1 .. pos[t] - 1 \/ i = pos[t]
  BY <1>1, <1>3, <1>4
<1>8. pos[t] \in 1 .. pos'[t] - 1 /\ \A i \in 1 .. pos[t] - 1 : i \in 1 .. pos'[t] - 1
  BY <1>1, <1>3, <1>4
<1>9. ASSUME NEW r \in Rows
      PROVE  Updated(t, r)' <=> Updated(t, r) \/ r = s.row
  BY <1>1, <1>2, <1>7, <1>8 DEF Updated
<1>10. ASSUME NEW u \in Transactions \ {t}, NEW r \in Rows
       PROVE  Updated(u, r)' <=> Updated(u, r)
  BY <1>2, <1>4 DEF Updated
<1>11. HolderInv'
  <2> SUFFICES ASSUME NEW u \in Transactions, NEW r \in Rows
               PROVE  holder'[r] = u <=> Updated(u, r)'
    BY DEF HolderInv
  <2>1. holder[r] = u <=> Updated(u, r)
    BY DEF HolderInv
  <2>2. CASE u = t
    BY <1>4, <1>9, <2>1, <2>2
  <2>3. CASE u # t /\ r # s.row
    BY <1>4, <1>10, <2>1, <2>3
  <2>4. CASE u # t /\ r = s.row
    <3>1. holder[r] # u
      BY <1>1, <2>4, TxAssumption
    <3> QED
      BY <1>4, <1>10, <2>1, <2>4, <3>1
  <2> QED
    BY <2>2, <2>3, <2>4
<1>12. FreeInv'
  BY <1>2, <1>3, <1>4 DEF FreeInv
<1>13. AddedInv'
  <2> SUFFICES ASSUME NEW u \in Charges \cup Refunds, NEW r \in Rows, status'[u] = "open"
               PROVE  AddsUpTo(program'[u], pos'[u] - 1, r, Added(u, r)')
    BY DEF AddedInv
  <2>1. u \in Transactions /\ u \notin Saves
    BY TxAssumption DEF Transactions
  <2>2. AddsUpTo(program[u], pos[u] - 1, r, Added(u, r))
    BY <1>2 DEF AddedInv
  <2>3. CASE u # t
    <3>1. Added(u, r)' = Added(u, r)
      <4>1. CASE r # s.row
        BY <1>2, <1>4, <4>1 DEF Added
      <4>2. CASE r = s.row
        <5>1. holder[r] # u /\ holder'[r] # u
          BY <1>1, <1>4, <2>1, <2>3, <4>2, TxAssumption
        <5> QED
          BY <5>1 DEF Added
      <4> QED
        BY <4>1, <4>2
    <3> QED
      BY <1>2, <1>4, <2>1, <2>2, <2>3, <3>1
  <2>4. CASE u = t
    <3>1. OneChange(program[t])
      BY <1>1, <2>4, AdderPrograms
    <3>2. Added(t, r) \in Int
      BY DEF Added, TypeInv
    <3>3. AddsUpTo(program[t], pos[t], r, IF s.row = r THEN Added(t, r) + s.by ELSE Added(t, r))
      BY <1>1, <2>2, <2>4, <3>1, <3>2, NextStatementAdds
    <3>4. Added(t, r)' = IF s.row = r THEN Added(t, r) + s.by ELSE Added(t, r)
      <4>1. CASE r # s.row
        BY <1>2, <1>4, <4>1 DEF Added
      <4>2. CASE r = s.row
        <5>1. Added(t, r)' = (written[r] + s.by) - amount[r]
          BY <1>1, <1>2, <1>4, <2>1, <2>4, <4>2 DEF Added
        <5>2. Added(t, r) = written[r] - amount[r]
          <6>1. CASE holder[r] = t
            BY <6>1 DEF Added
          <6>2. CASE holder[r] = None
            <7>1. written[r] = amount[r] /\ written[r] \in Int
              BY <6>2 DEF FreeInv, TypeInv
            <7> QED
              BY <1>3, <6>2, <7>1 DEF Added
          <6> QED
            BY <1>1, <4>2, <6>1, <6>2
        <5>3. written[r] \in Int /\ amount[r] \in Int
          BY DEF TypeInv
        <5> QED
          BY <1>1, <4>2, <5>1, <5>2, <5>3
      <4> QED
        BY <4>1, <4>2
    <3>5. pos'[t] - 1 = pos[t]
      BY <1>1, <1>3, <1>4
    <3> QED
      BY <1>2, <2>4, <3>3, <3>4, <3>5
  <2> QED
    BY <2>3, <2>4
<1> QED
  BY <1>5, <1>6, <1>11, <1>12, <1>13

(* At its end a transaction lets its rows go, with nothing written on them *)
(* but what is committed; the others keep theirs.                          *)
LEMMA EndInvariant ==
  ASSUME TxInv, NEW t \in Transactions, NEW how \in Phases \ {"open", "read"},
         End(t, how), holder' = HolderFreed(t),
         amount' \in [Rows -> Int], written' \in [Rows -> Int],
         \A r \in Rows : holder[r] = t => written'[r] = amount'[r],
         \A r \in Rows : holder[r] # t => written'[r] = written[r] /\ amount'[r] = amount[r]
  PROVE  TxInv'
<1> USE DEF TxInv
<1>1. /\ status[t] = "open" /\ status'[t] = how /\ status'[t] \notin {"open", "read"}
      /\ status' \in [Transactions -> Phases]
      /\ seen' = [u \in Transactions |-> seen'[u]]
      /\ program' \in [Transactions -> Seq(Statements)]
      /\ pos' \in [Transactions -> Nat] /\ pos'[t] = 1
      /\ \A u \in Transactions \ {t} : /\ status'[u] = status[u] /\ seen'[u] = seen[u]
                                       /\ program'[u] = program[u] /\ pos'[u] = pos[u]
  <2>1. status[t] = "open" /\ how \in Phases /\ how \notin {"open", "read"}
    BY DEF End
  <2>2. status' = [status EXCEPT ![t] = how] /\ status \in [Transactions -> Phases]
    BY DEF End, TypeInv
  <2>3. program' = [program EXCEPT ![t] = <<>>] /\ program \in [Transactions -> Seq(Statements)]
        /\ <<>> \in Seq(Statements)
    BY DEF End, TypeInv
  <2>4. pos' = [pos EXCEPT ![t] = 1] /\ pos \in [Transactions -> Nat]
    BY DEF End, TypeInv
  <2>5. seen' = [seen EXCEPT ![t] = <<>>] /\ seen = [u \in Transactions |-> seen[u]]
    BY DEF End, TypeInv
  <2>6. status'[t] = how /\ status' \in [Transactions -> Phases]
        /\ \A u \in Transactions \ {t} : status'[u] = status[u]
    BY <2>1, <2>2
  <2>7. program' \in [Transactions -> Seq(Statements)]
        /\ \A u \in Transactions \ {t} : program'[u] = program[u]
    BY <2>3
  <2>8. pos' \in [Transactions -> Nat] /\ pos'[t] = 1
        /\ \A u \in Transactions \ {t} : pos'[u] = pos[u]
    BY <2>4
  <2>9. seen' = [u \in Transactions |-> seen'[u]]
        /\ \A u \in Transactions \ {t} : seen'[u] = seen[u]
    BY <2>5
  <2> QED
    BY <2>1, <2>6, <2>7, <2>8, <2>9
<1>2. /\ holder' \in [Rows -> Transactions \cup {None}]
      /\ \A r \in Rows : holder'[r] = IF holder[r] = t THEN None ELSE holder[r]
  BY DEF HolderFreed, TypeInv
<1>3. t # None
  BY TxAssumption
<1>4. TypeInv'
  BY <1>1, <1>2 DEF TypeInv
<1>5. ProgramInv'
  <2>1. ASSUME NEW u \in Transactions, u # t
        PROVE  /\ status'[u] \in {"read", "open"} => seen'[u] \in [RowsOf(u) -> Int]
               /\ IF status'[u] = "open"
                  THEN program'[u] \in Programs(u) /\ pos'[u] \in 1 .. Len(program'[u]) + 1
                  ELSE pos'[u] = 1
    BY <1>1, <2>1 DEF ProgramInv
  <2> QED
    BY <1>1, <2>1 DEF ProgramInv
<1>6. HolderInv'
  <2> SUFFICES ASSUME NEW u \in Transactions, NEW r \in Rows
               PROVE  holder'[r] = u <=> Updated(u, r)'
    BY DEF HolderInv
  <2>1. holder[r] = u <=> Updated(u, r)
    BY DEF HolderInv
  <2>2. CASE u = t
    <3>1. ~Updated(u, r)'
      BY <1>1, <2>2 DEF Updated
    <3> QED
      BY <1>2, <1>3, <2>2, <3>1
  <2>3. CASE u # t
    <3>1. Updated(u, r)' <=> Updated(u, r)
      BY <1>1, <2>3 DEF Updated
    <3>2. u # None
      BY TxAssumption
    <3> QED
      BY <1>2, <2>1, <2>3, <3>1, <3>2
  <2> QED
    BY <2>2, <2>3
<1>7. FreeInv'
  BY <1>2 DEF FreeInv
<1>8. AddedInv'
  <2> SUFFICES ASSUME NEW u \in Charges \cup Refunds, NEW r \in Rows, status'[u] = "open"
               PROVE  AddsUpTo(program'[u], pos'[u] - 1, r, Added(u, r)')
    BY DEF AddedInv
  <2>1. u \in Transactions /\ u # t /\ u # None
    BY <1>1, TxAssumption DEF Transactions
  <2>2. AddsUpTo(program[u], pos[u] - 1, r, Added(u, r))
    BY <1>1, <2>1 DEF AddedInv
  <2>3. Added(u, r)' = Added(u, r)
    BY <1>2, <2>1 DEF Added
  <2> QED
    BY <1>1, <2>1, <2>2, <2>3
<1> QED
  BY <1>4, <1>5, <1>6, <1>7, <1>8

LEMMA CommitInvariant ==
  ASSUME TxInv, NEW t \in Transactions, Commit(t)
  PROVE  TxInv'
<1>1. "committed" \in Phases \ {"open", "read"}
  BY DEF Phases
<1>2. End(t, "committed") /\ holder' = HolderFreed(t)
  BY DEF Commit
<1>3. amount' \in [Rows -> Int] /\ written' \in [Rows -> Int]
      /\ (\A r \in Rows : holder[r] = t => written'[r] = amount'[r])
      /\ (\A r \in Rows : holder[r] # t => written'[r] = written[r] /\ amount'[r] = amount[r])
  BY DEF Commit, TxInv, TypeInv
<1> QED
  BY <1>1, <1>2, <1>3, EndInvariant

LEMMA RollbackInvariant ==
  ASSUME TxInv, NEW t \in Transactions, Rollback(t)
  PROVE  TxInv'
<1>1. "rolledback" \in Phases \ {"open", "read"}
  BY DEF Phases
<1>2. End(t, "rolledback") /\ holder' = HolderFreed(t)
  BY DEF Rollback, AfterRollback
<1>3. amount' \in [Rows -> Int] /\ written' \in [Rows -> Int]
      /\ (\A r \in Rows : holder[r] = t => written'[r] = amount'[r])
      /\ (\A r \in Rows : holder[r] # t => written'[r] = written[r] /\ amount'[r] = amount[r])
  BY DEF Rollback, TxInv, TypeInv
<1> QED
  BY <1>1, <1>2, <1>3, EndInvariant

LEMMA NextInvariant == TxInv /\ [Next]_vars => TxInv'
<1> SUFFICES ASSUME TxInv, [Next]_vars PROVE TxInv'
  OBVIOUS
<1>1. CASE UNCHANGED vars
  <2>1. /\ amount' = amount /\ written' = written /\ holder' = holder /\ status' = status
        /\ seen' = seen /\ program' = program /\ pos' = pos
    BY <1>1 DEF vars
  <2>2. TypeInv'
    BY <2>1 DEF TxInv, TypeInv
  <2>3. ProgramInv'
    BY <2>1 DEF TxInv, ProgramInv
  <2>4. HolderInv' /\ FreeInv'
    BY <2>1 DEF TxInv, HolderInv, Updated, FreeInv
  <2>5. AddedInv'
    BY <2>1 DEF TxInv, AddedInv, Added
  <2> QED
    BY <2>2, <2>3, <2>4, <2>5 DEF TxInv
<1>2. ASSUME NEW t \in Transactions, Read(t) PROVE TxInv'
  BY <1>2, ReadInvariant
<1>3. ASSUME NEW t \in Transactions, Begin(t) PROVE TxInv'
  BY <1>3, BeginInvariant
<1>4. ASSUME NEW t \in Transactions, Execute(t) PROVE TxInv'
  BY <1>4, ExecuteInvariant
<1>5. ASSUME NEW t \in Transactions, Commit(t) PROVE TxInv'
  BY <1>5, CommitInvariant
<1>6. ASSUME NEW t \in Transactions, Rollback(t) PROVE TxInv'
  BY <1>6, RollbackInvariant
<1> QED
  BY <1>1, <1>2, <1>3, <1>4, <1>5, <1>6 DEF Next, Goes, Victim, Break

(* However the statements mix, an open transaction runs one of its         *)
(* programs in order, holds exactly the rows it has updated, and what a    *)
(* job or a refund has written on them differs from what is committed by   *)
(* what its statements added.                                              *)
THEOREM TransactionsHoldTheirRows == Spec => []TxInv
<1>1. Init => TxInv
  BY InitInvariant
<1>2. TxInv /\ [Next]_vars => TxInv'
  BY NextInvariant
<1> QED
  BY <1>1, <1>2, PTL DEF Spec

-----------------------------------------------------------------------------
(* The steps of the ledger.                                                *)

Committed == {t \in Transactions : status[t] = "committed"}

LEMMA InitOfLedger == Init => L!Init
  BY DEF Init, L!Init

(* Only a commit shows. *)
LEMMA OtherStepsStutter ==
  ASSUME TxInv, NEW t \in Transactions,
         Read(t) \/ Begin(t) \/ Execute(t) \/ Rollback(t)
  PROVE  amount' = amount /\ Committed' = Committed
<1>1. status \in [Transactions -> Phases]
  BY DEF TxInv, TypeInv
<1>2. CASE Read(t)
  <2>1. status[t] = "idle" /\ amount' = amount
        /\ \E s \in {"read", "skipped"} : status' = [status EXCEPT ![t] = s]
    BY <1>2 DEF Read
  <2> QED
    BY <1>1, <2>1 DEF Committed
<1>3. CASE Begin(t)
  <2>1. status[t] = "read" /\ amount' = amount /\ status' = [status EXCEPT ![t] = "open"]
    BY <1>3 DEF Begin
  <2> QED
    BY <1>1, <2>1 DEF Committed
<1>4. CASE Execute(t)
  BY <1>4 DEF Execute, Committed
<1>5. CASE Rollback(t)
  <2>1. status[t] = "open" /\ amount' = amount /\ status' = [status EXCEPT ![t] = "rolledback"]
    BY <1>5 DEF Rollback, End
  <2> QED
    BY <1>1, <2>1 DEF Committed
<1> QED
  BY <1>2, <1>3, <1>4, <1>5

LEMMA CommitFacts ==
  ASSUME TxInv, NEW t \in Transactions, Commit(t)
  PROVE  /\ t \notin Committed /\ Committed' = Committed \cup {t}
         /\ amount' \in [Rows -> Int]
         /\ amount' = [r \in Rows |-> IF holder[r] = t THEN written[r] ELSE amount[r]]
         /\ status[t] = "open" /\ program[t] \in Programs(t)
         /\ program[t] \in Seq(Statements)
         /\ pos[t] = Len(program[t]) + 1 /\ pos[t] - 1 = Len(program[t])
<1>1. status[t] = "open" /\ status' = [status EXCEPT ![t] = "committed"]
  BY DEF Commit, End
<1>2. status \in [Transactions -> Phases]
  BY DEF TxInv, TypeInv
<1>3. t \notin Committed /\ Committed' = Committed \cup {t}
  BY <1>1, <1>2 DEF Committed
<1>4. amount' = [r \in Rows |-> IF holder[r] = t THEN written[r] ELSE amount[r]]
  BY DEF Commit
<1>5. amount' \in [Rows -> Int]
  BY <1>4 DEF TxInv, TypeInv
<1>6. program[t] \in Programs(t) /\ pos[t] \in 1 .. Len(program[t]) + 1
  BY <1>1 DEF TxInv, ProgramInv
<1>7. program[t] \in Seq(Statements)
  BY DEF TxInv, TypeInv
<1>8. pos[t] > Len(program[t]) /\ Len(program[t]) \in Nat
  BY <1>7 DEF Commit
<1>9. pos[t] = Len(program[t]) + 1 /\ pos[t] - 1 = Len(program[t])
  BY <1>6, <1>8
<1> QED
  BY <1>1, <1>3, <1>4, <1>5, <1>6, <1>7, <1>9

(* A job or a refund that commits adds its effect to every row. *)
LEMMA AdderCommits ==
  ASSUME TxInv, NEW t \in Charges \cup Refunds, Commit(t)
  PROVE  amount' = [r \in Rows |-> amount[r] + TxEffect(t, r)]
<1>1. t \in Transactions
  BY DEF Transactions
<1>2. /\ amount' = [r \in Rows |-> IF holder[r] = t THEN written[r] ELSE amount[r]]
      /\ status[t] = "open" /\ program[t] \in Programs(t)
      /\ pos[t] - 1 = Len(program[t])
  BY <1>1, CommitFacts
<1>3. ASSUME NEW r \in Rows
      PROVE  amount'[r] = amount[r] + TxEffect(t, r)
  <2>1. AddsUpTo(program[t], Len(program[t]), r, Added(t, r))
    BY <1>2 DEF TxInv, AddedInv
  <2>2. AddsUpTo(program[t], Len(program[t]), r, TxEffect(t, r)) /\ TxEffect(t, r) \in Int
    BY <1>2, AdderPrograms
  <2>3. Added(t, r) = TxEffect(t, r)
    BY <2>1, <2>2, AddsOnlyOneAmount
  <2>4. amount[r] \in Int /\ written[r] \in Int
    BY DEF TxInv, TypeInv
  <2>5. CASE holder[r] = t
    BY <1>2, <2>2, <2>3, <2>4, <2>5 DEF Added
  <2>6. CASE holder[r] # t
    BY <1>2, <2>2, <2>3, <2>4, <2>6 DEF Added
  <2> QED
    BY <2>5, <2>6
<1>4. amount' = [r \in Rows |-> amount'[r]]
  BY <1>2
<1> QED
  BY <1>3, <1>4

(* A save that commits touches no row that it is not about. *)
LEMMA SaveCommits ==
  ASSUME TxInv, NEW t \in Saves, Commit(t)
  PROVE  \A r \in Rows \ RowsOf(t) : amount'[r] = amount[r]
<1>1. t \in Transactions
  BY DEF Transactions
<1>2. /\ amount' = [r \in Rows |-> IF holder[r] = t THEN written[r] ELSE amount[r]]
      /\ program[t] \in Programs(t) /\ pos[t] - 1 = Len(program[t])
  BY <1>1, CommitFacts
<1>3. ASSUME NEW r \in Rows, holder[r] = t
      PROVE  r \in RowsOf(t)
  <2>1. PICK i \in 1 .. Len(program[t]) : program[t][i].row = r
    BY <1>1, <1>2, <1>3 DEF TxInv, HolderInv, Updated
  <2> QED
    BY <1>1, <1>2, <2>1, ProgramFacts
<1> QED
  BY <1>2, <1>3

LEMMA StepOfLedger == TxInv /\ [Next]_vars => [L!Next]_(L!vars)
<1> SUFFICES ASSUME TxInv, [Next]_vars PROVE [L!Next]_(L!vars)
  OBVIOUS
<1>1. amount' = amount /\ Committed' = Committed => UNCHANGED L!vars
  BY DEF L!vars, Committed
<1>2. CASE UNCHANGED vars
  <2>1. amount' = amount /\ Committed' = Committed
    BY <1>2 DEF vars, Committed
  <2> QED
    BY <1>1, <2>1
<1>3. ASSUME NEW t \in Transactions, Read(t) \/ Begin(t) \/ Execute(t) \/ Rollback(t)
      PROVE  UNCHANGED L!vars
  BY <1>1, <1>3, OtherStepsStutter
<1>4. ASSUME NEW t \in Transactions, Commit(t)
      PROVE  L!Next
  <2>1. L!Happens(t)
    BY <1>4, CommitFacts DEF L!Happens, Committed
  <2>2. CASE t \in Charges \cup Refunds
    <3>1. amount' = [r \in Rows |-> amount[r] + TxEffect(t, r)]
      BY <1>4, <2>2, AdderCommits
    <3>2. L!Add(t)
      BY <2>1, <3>1 DEF L!Add, TxEffect
    <3> QED
      BY <2>2, <3>2 DEF L!Next
  <2>3. CASE t \in Saves
    <3>1. amount' \in [Rows -> Int] /\ \A r \in Rows \ RowsOf(t) : amount'[r] = amount[r]
      BY <1>4, <2>3, CommitFacts, SaveCommits
    <3>2. L!Set(t)
      BY <2>1, <3>1 DEF L!Set
    <3> QED
      BY <2>3, <3>2 DEF L!Next
  <2> QED
    BY <2>2, <2>3 DEF Transactions
<1> QED
  BY <1>2, <1>3, <1>4 DEF Next, Goes, Victim, Break

(* However the statements of the transactions mix, and whichever are       *)
(* rolled back, each job and each refund adds exactly its effect to what   *)
(* the accounts hold when it commits, and a save changes its own rows.     *)
THEOREM TransactionsImplementLedger == Spec => ImplementsLedger
<1>1. Init => L!Init
  BY InitOfLedger
<1>2. TxInv /\ [Next]_vars => [L!Next]_(L!vars)
  BY StepOfLedger
<1> QED
  BY <1>1, <1>2, TransactionsHoldTheirRows, PTL DEF Spec, ImplementsLedger, L!Spec

-----------------------------------------------------------------------------
(* Circles of jobs.                                                        *)

(* The rows of an open job with a price, in the order of its program. *)
LEMMA OpenLines ==
  ASSUME TxInv, NEW t \in Charges, status[t] = "open", Job[t].price # 0,
         NEW i \in 1 .. Len(program[t])
  PROVE  /\ program[t][1].row = Own(t)
         /\ Counts(t) => program[t][2].row = Purse(t)
         /\ \/ i = 1 /\ program[t][i].row = Own(t)
            \/ Counts(t) /\ i = 2 /\ program[t][i].row = Purse(t)
            \/ Counts(t) /\ i = 3 /\ program[t][i].row = Own(t)
            \/ /\ Counts(t) /\ i > 3
               /\ \E p \in Job[t].parents : program[t][i].row = Quota(Job[t].user, p)
            \/ program[t][i].row = History(t)
            \/ /\ i = Len(program[t])
               /\ program[t][i].row = Bill(Job[t].code)
<1>1. t \in Transactions
  BY DEF Transactions
<1>2. PICK ps \in SetToSeqs(Job[t].parents) : program[t] = ChargeStatements(t, ps)
  BY <1>1, ProgramsByKind DEF TxInv, ProgramInv
<1> DEFINE prog == ChargeStatements(t, ps)
           n == Len(ps)
           h == HistoryAt(t, n)
<1>3. /\ n \in Nat /\ OwnPages(t) = 3
      /\ \A k \in 1 .. n : ps[k] \in Job[t].parents
  BY JobFacts, OrderOfParents DEF OwnPages
<1>4. /\ prog[1] = Update(Own(t), 0)
      /\ Counts(t) => prog[2] = Update(Purse(t), -Job[t].price)
      /\ Job[t].code # None /\ Job[t].size # 0 => Len(prog) = h + 1
  BY ChargeShape
<1>5. \/ i = 1 /\ prog[i] = Update(Own(t), 0)
      \/ /\ Counts(t) /\ Job[t].price # 0 /\ i = 2
         /\ prog[i] = Update(Purse(t), -Job[t].price)
      \/ /\ Counts(t) /\ i = OwnPages(t)
         /\ prog[i] = Update(Own(t), Job[t].size)
      \/ \E k \in 1 .. n :
           /\ Counts(t) /\ i = k + OwnPages(t)
           /\ prog[i] = Update(Quota(Job[t].user, ps[k]), Job[t].size)
      \/ i = h /\ prog[i] = Update(History(t), 0)
      \/ /\ Job[t].code # None /\ Job[t].size # 0 /\ i = h + 1
         /\ prog[i] = Update(Bill(Job[t].code), Job[t].size)
  BY <1>2, ChargeLines
<1> HIDE DEF prog, n, h
<1>6. /\ prog[1].row = Own(t)
      /\ Counts(t) => prog[2].row = Purse(t)
  BY <1>4, UpdateFields
<1>7. ASSUME NEW k \in 1 .. n, Counts(t), i = k + OwnPages(t),
             prog[i] = Update(Quota(Job[t].user, ps[k]), Job[t].size)
      PROVE  i > 3 /\ \E p \in Job[t].parents : prog[i].row = Quota(Job[t].user, p)
  <2>1. i > 3
    BY <1>3, <1>7
  <2> QED
    BY <1>3, <1>7, <2>1, UpdateFields
<1>8. \/ i = 1 /\ prog[i].row = Own(t)
      \/ Counts(t) /\ i = 2 /\ prog[i].row = Purse(t)
      \/ Counts(t) /\ i = 3 /\ prog[i].row = Own(t)
      \/ /\ Counts(t) /\ i > 3
         /\ \E p \in Job[t].parents : prog[i].row = Quota(Job[t].user, p)
      \/ prog[i].row = History(t)
      \/ i = Len(prog) /\ prog[i].row = Bill(Job[t].code)
  BY <1>3, <1>4, <1>5, <1>7, UpdateFields
<1> QED
  BY <1>2, <1>6, <1>8 DEF prog

(* What it holds: its own entry from its first statement on, its user's    *)
(* balance from the second.                                                *)
LEMMA OpenHolds ==
  ASSUME TxInv, NEW t \in Charges, status[t] = "open", Job[t].price # 0
  PROVE  /\ pos[t] > 1 => holder[Own(t)] = t
         /\ Counts(t) /\ pos[t] > 2 => holder[Purse(t)] = t
<1>1. t \in Transactions /\ Own(t) \in Rows /\ Purse(t) \in Rows
  BY JobFacts DEF Transactions
<1>2. pos[t] \in 1 .. Len(program[t]) + 1 /\ Len(program[t]) \in Nat
  BY <1>1 DEF TxInv, TypeInv, ProgramInv
<1>3. ASSUME pos[t] > 1 PROVE holder[Own(t)] = t
  <2>1. 1 \in 1 .. pos[t] - 1 /\ 1 \in 1 .. Len(program[t])
    BY <1>2, <1>3
  <2>2. program[t][1].row = Own(t)
    BY <2>1, OpenLines
  <2> QED
    BY <1>1, <2>1, <2>2 DEF TxInv, HolderInv, Updated
<1>4. ASSUME Counts(t), pos[t] > 2 PROVE holder[Purse(t)] = t
  <2>1. 2 \in 1 .. pos[t] - 1 /\ 2 \in 1 .. Len(program[t])
    BY <1>2, <1>4
  <2>2. program[t][2].row = Purse(t)
    BY <1>4, <2>1, OpenLines
  <2> QED
    BY <1>1, <2>1, <2>2 DEF TxInv, HolderInv, Updated
<1> QED
  BY <1>3, <1>4

(* Jobs that wait for each other: jobs with a price, none of them on the   *)
(* queue of a group of another's printer.                                  *)
QueueUp(S) ==
  /\ S \subseteq {t \in Charges : Waiting(t)}
  /\ \A t \in S : /\ Job[t].price # 0
                  /\ holder[Statement(t).row] \in S
                  /\ \A c \in S : Job[t].printer \notin Job[c].parents

(* A job among them, what it waits for, and the job that holds it. *)
LEMMA WaiterAndHolder ==
  ASSUME TxInv, NEW S, QueueUp(S), NEW t \in S
  PROVE  LET row == Statement(t).row
             u   == holder[row]
         IN  /\ t \in Charges /\ status[t] = "open" /\ Job[t].price # 0
             /\ pos[t] \in 1 .. Len(program[t]) /\ row = program[t][pos[t]].row
             /\ u \in S /\ u # t /\ u \in Charges /\ status[u] = "open" /\ Job[u].price # 0
             /\ pos[u] \in 1 .. Len(program[u])
             /\ row \in Rows
             /\ \E i \in 1 .. pos[u] - 1 : i \in 1 .. Len(program[u]) /\ program[u][i].row = row
<1> DEFINE row == Statement(t).row
           u   == holder[row]
<1>1. ASSUME NEW v \in S
      PROVE  /\ v \in Charges /\ v \in Transactions /\ status[v] = "open" /\ Job[v].price # 0
             /\ pos[v] \in 1 .. Len(program[v])
             /\ program[v] \in Seq(Statements)
             /\ Statement(v) = program[v][pos[v]]
             /\ holder[Statement(v).row] \in S \ {v}
  <2>1. /\ v \in Charges /\ v \in Transactions /\ Waiting(v) /\ Job[v].price # 0
        /\ holder[Statement(v).row] \in S
    BY DEF QueueUp, Transactions
  <2>2. status[v] = "open" /\ pos[v] <= Len(program[v]) /\ holder[Statement(v).row] # v
    BY <2>1 DEF Waiting, AtWork
  <2>3. pos[v] \in 1 .. Len(program[v]) + 1 /\ program[v] \in Seq(Statements)
    BY <2>1, <2>2 DEF TxInv, TypeInv, ProgramInv
  <2>4. pos[v] \in 1 .. Len(program[v])
    BY <2>2, <2>3
  <2> QED
    BY <2>1, <2>2, <2>3, <2>4 DEF Statement
<1>2. program[t][pos[t]] \in Statements
  BY <1>1
<1>3. row \in Rows
  BY <1>1, <1>2 DEF Statements
<1>4. u \in S \ {t}
  BY <1>1
<1>5. PICK i \in 1 .. pos[u] - 1 : program[u][i].row = row
  <2>1. u \in Transactions /\ holder[row] = u
    BY <1>1, <1>4
  <2> HIDE DEF row, u
  <2>2. Updated(u, row)
    BY <1>3, <2>1 DEF TxInv, HolderInv
  <2> QED
    BY <2>2 DEF Updated
<1>6. i \in 1 .. Len(program[u])
  <2>1. pos[u] \in 1 .. Len(program[u]) /\ Len(program[u]) \in Nat
    BY <1>1, <1>4
  <2> QED
    BY <1>5, <2>1
<1> HIDE DEF row, u
<1>7. \E k \in 1 .. pos[u] - 1 : k \in 1 .. Len(program[u]) /\ program[u][k].row = row
  BY <1>5, <1>6
<1>8. /\ t \in Charges /\ status[t] = "open" /\ Job[t].price # 0
      /\ pos[t] \in 1 .. Len(program[t]) /\ row = program[t][pos[t]].row
  BY <1>1 DEF row
<1>9. u \in S /\ u # t /\ u \in Charges /\ status[u] = "open" /\ Job[u].price # 0
      /\ pos[u] \in 1 .. Len(program[u])
  BY <1>1, <1>4
<1> QED
  BY <1>3, <1>7, <1>8, <1>9 DEF row, u

(* Such a job waits for its user's balance or for its own entry: the row   *)
(* of the history is its own, the one of a billing code is let go by a job *)
(* that has no other statement, and before the entry on a group the job    *)
(* has taken the balance.                                                  *)
LEMMA WaitsOnBalanceOrOwn ==
  ASSUME TxInv, NEW S, QueueUp(S), NEW t \in S
  PROVE  \/ Counts(t) /\ pos[t] = 2 /\ Statement(t).row = Purse(t)
         \/ pos[t] = 1 /\ Statement(t).row = Own(t)
<1> DEFINE row == Statement(t).row
           u   == holder[row]
<1>1. /\ t \in Charges /\ status[t] = "open" /\ Job[t].price # 0
      /\ pos[t] \in 1 .. Len(program[t]) /\ row = program[t][pos[t]].row
      /\ u \in S /\ u # t /\ u \in Charges /\ status[u] = "open" /\ Job[u].price # 0
      /\ pos[u] \in 1 .. Len(program[u])
      /\ row \in Rows
  BY WaiterAndHolder
<1>2. PICK i \in 1 .. pos[u] - 1 : i \in 1 .. Len(program[u]) /\ program[u][i].row = row
  BY WaiterAndHolder
<1>3. /\ pos[t] > 1 => holder[Own(t)] = t
      /\ Counts(t) /\ pos[t] > 2 => holder[Purse(t)] = t
      /\ Counts(u) /\ pos[u] > 2 => holder[Purse(u)] = u
  BY <1>1, OpenHolds
<1>4. \/ pos[t] = 1 /\ row = Own(t)
      \/ Counts(t) /\ pos[t] = 2 /\ row = Purse(t)
      \/ Counts(t) /\ pos[t] = 3 /\ row = Own(t)
      \/ Counts(t) /\ pos[t] > 3 /\ \E p \in Job[t].parents : row = Quota(Job[t].user, p)
      \/ row = History(t)
      \/ pos[t] = Len(program[t]) /\ row = Bill(Job[t].code)
  BY <1>1, OpenLines
<1>5. \/ row = Own(u)
      \/ Counts(u) /\ i = 2 /\ row = Purse(u)
      \/ Counts(u) /\ i > 3 /\ \E p \in Job[u].parents : row = Quota(Job[u].user, p)
      \/ row = History(u)
      \/ i = Len(program[u]) /\ row = Bill(Job[u].code)
  BY <1>1, <1>2, OpenLines
<1>6. i < Len(program[u]) /\ i < pos[u] /\ i \in Int /\ pos[u] \in Int /\ pos[t] \in Int
  <2>1. program[u] \in Seq(Statements)
    BY <1>1 DEF TxInv, TypeInv, Transactions
  <2>2. Len(program[u]) \in Nat
    BY <2>1
  <2> QED
    BY <1>1, <1>2, <2>2
<1>7. \A c \in S : Job[u].printer \notin Job[c].parents
  BY <1>1 DEF QueueUp
<1>8. u = holder[row]
  OBVIOUS
<1> HIDE DEF row, u
<1>9. row # History(t)
  BY <1>1, <1>5, RowsAreDistinct DEF Own, Purse
<1>10. row # Bill(Job[t].code)
  BY <1>5, <1>6, RowsAreDistinct DEF Own, Purse
<1>11. ASSUME Counts(t), pos[t] > 3, NEW p \in Job[t].parents, row = Quota(Job[t].user, p)
       PROVE  FALSE
  <2>1. row # Own(u)
    BY <1>7, <1>11, RowsAreDistinct DEF Own
  <2>2. row # Purse(u) /\ row # History(u) /\ row # Bill(Job[u].code)
    BY <1>11, RowsAreDistinct DEF Purse
  <2>3. Counts(u) /\ i > 3 /\ \E q \in Job[u].parents : row = Quota(Job[u].user, q)
    BY <1>5, <2>1, <2>2
  <2>4. Purse(u) = Purse(t)
    <3>1. PICK q \in Job[u].parents : row = Quota(Job[u].user, q)
      BY <2>3
    <3>2. Quota(Job[t].user, p) = Quota(Job[u].user, q)
      BY <1>11, <3>1
    <3>3. Job[t].user = Job[u].user
      BY <3>2, RowsAreDistinct
    <3> QED
      BY <3>3 DEF Purse
  <2>5. pos[u] > 2 /\ pos[t] > 2
    BY <1>6, <1>11, <2>3
  <2> QED
    BY <1>1, <1>3, <1>11, <2>3, <2>4, <2>5
<1>12. ~(Counts(t) /\ pos[t] = 3 /\ row = Own(t))
  BY <1>1, <1>3, <1>8
<1> QED
  BY <1>4, <1>9, <1>10, <1>11, <1>12 DEF row

(* So one that waits has done nothing yet, and one that holds the row has  *)
(* done one statement: none of them is both.                               *)
LEMMA NobodyQueuesUp ==
  ASSUME TxInv, NEW S, QueueUp(S)
  PROVE  S = {}
<1>1. ASSUME NEW t \in S
      PROVE  pos[t] = 1 /\ \E u \in S : pos[u] = 2
  <2> DEFINE row == Statement(t).row
             u   == holder[row]
  <2>1. /\ t \in Charges /\ u \in S /\ u # t /\ u \in Charges
        /\ status[u] = "open" /\ Job[u].price # 0
        /\ pos[u] \in 1 .. Len(program[u])
    BY WaiterAndHolder
  <2>2. PICK i \in 1 .. pos[u] - 1 : i \in 1 .. Len(program[u]) /\ program[u][i].row = row
    BY WaiterAndHolder
  <2> HIDE DEF row, u
  <2>3. \/ Counts(t) /\ pos[t] = 2 /\ row = Purse(t)
        \/ pos[t] = 1 /\ row = Own(t)
    BY WaitsOnBalanceOrOwn DEF row
  <2>4. pos[u] = 1 \/ pos[u] = 2
    BY <2>1, WaitsOnBalanceOrOwn
  <2>5. pos[u] = 2 /\ i = 1
    BY <2>2, <2>4
  <2>6. row = Own(u)
    BY <2>1, <2>2, <2>5, OpenLines
  <2>7. row # Purse(t)
    BY <2>6, RowsAreDistinct DEF Own, Purse
  <2> QED
    BY <2>1, <2>3, <2>5, <2>7
<1> QED
  BY <1>1

LEMMA NoCircleOfJobs == TxInv => DeadlockNeedsInversion
<1> SUFFICES ASSUME TxInv, NEW S \in Circles,
                    ~\E t \in S : \/ t \notin Charges
                                  \/ Job[t].price = 0
                                  \/ \E c \in S \cap Charges : Job[t].printer \in Job[c].parents
             PROVE  FALSE
  BY DEF DeadlockNeedsInversion
<1>1. S \subseteq {t \in Transactions : Waiting(t)} /\ Blocked(S)
  BY DEF Circles
<1>2. QueueUp(S)
  BY <1>1 DEF Blocked, QueueUp
<1> QED
  BY <1>1, <1>2, NobodyQueuesUp DEF Blocked

(* Jobs with a price never deadlock, whatever their printers and groups,   *)
(* unless one of them was sent to the queue of a group of another's        *)
(* printer: the balance is updated before the pages of the groups.         *)
THEOREM JobsDoNotDeadlock == Spec => []DeadlockNeedsInversion
  BY TransactionsHoldTheirRows, NoCircleOfJobs, PTL
=============================================================================
