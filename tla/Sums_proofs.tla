---------------------------- MODULE Sums_proofs ----------------------------
(***************************************************************************)
(* Sums over finite sets, as SumFunctionOnSet computes them: what it picks *)
(* first does not matter.  The library's induction theorems take a         *)
(* predicate; here a set of subsets stands for it, and a set of finite     *)
(* sets that is not empty has a smallest member.  And what the library's   *)
(* operators on finite sets and sequences return.                          *)
(***************************************************************************)
EXTENDS Integers, FiniteSets, SequencesExt, FiniteSetTheorems, WellFoundedInduction, SequenceTheorems, TLAPS

(* A set of subsets of a finite set that is not empty has a member that    *)
(* none of its proper subsets is in.                                       *)
LEMMA SmallestMember ==
  ASSUME NEW S, IsFiniteSet(S), NEW Q, Q \subseteq SUBSET S, Q # {}
  PROVE  \E T \in Q : \A U \in SUBSET T : U # T => U \notin Q
<1> DEFINE R == StrictSubsetOrdering(S)
<1>1. IsWellFoundedOn(R, SUBSET S)
  BY FS_StrictSubsetOrderingWellFounded, FS_FiniteSubsetsOfFinite
<1>2. PICK T \in Q : \A U \in Q : ~ (<<U, T>> \in R)
  <2> HIDE DEF R
  <2> QED
    BY <1>1, WFMin
<1>3. \A U \in SUBSET S : U \subseteq T /\ U # T => <<U, T>> \in R
  BY DEF StrictSubsetOrdering
<1>4. T \in SUBSET S /\ \A U \in SUBSET T : U \in SUBSET S
  OBVIOUS
<1>5. ASSUME NEW U \in SUBSET T, U # T PROVE U \notin Q
  <2>1. <<U, T>> \in R
    BY <1>3, <1>4, <1>5
  <2> HIDE DEF R
  <2>2. QED
    BY <1>2, <2>1
<1>6. QED
  BY <1>5

(* The element the sum picks first, and the equation of its partial sums.  *)
Picked(s) == CHOOSE y \in s : TRUE
Sums(f, T, it) ==
  \A s \in SUBSET T : it[s] = IF s = {} THEN 0 ELSE f[Picked(s)] + it[s \ {Picked(s)}]

LEMMA PickedIsIn == ASSUME NEW s, s # {} PROVE Picked(s) \in s /\ s \ {Picked(s)} \in SUBSET s /\ s \ {Picked(s)} # s
BY DEF Picked

LEMMA SumsAreUnique ==
  ASSUME NEW T, IsFiniteSet(T), NEW f, NEW g, NEW h, Sums(f, T, g), Sums(f, T, h)
  PROVE  \A s \in SUBSET T : g[s] = h[s]
<1> DEFINE Q == {s \in SUBSET T : g[s] # h[s]}
<1>1. SUFFICES ASSUME Q # {} PROVE FALSE
  OBVIOUS
<1>2. PICK s \in Q : \A u \in SUBSET s : u # s => u \notin Q
  <2>1. Q \subseteq SUBSET T
    OBVIOUS
  <2> HIDE DEF Q
  <2>2. QED
    BY <1>1, <2>1, SmallestMember
<1>3. s # {}
  BY DEF Sums
<1>4. s \ {Picked(s)} \in SUBSET s /\ s \ {Picked(s)} # s
  BY <1>3, PickedIsIn
<1>5. g[s \ {Picked(s)}] = h[s \ {Picked(s)}]
  BY <1>2, <1>4
<1>6. QED
  BY <1>3, <1>4, <1>5 DEF Sums

LEMMA SumsExist ==
  ASSUME NEW S, IsFiniteSet(S), NEW f
  PROVE  \E it : Sums(f, S, it)
<1> DEFINE Q == {T \in SUBSET S : ~ \E it : Sums(f, T, it)}
<1>1. SUFFICES ASSUME Q # {} PROVE FALSE
  OBVIOUS
<1>2. PICK T \in Q : \A U \in SUBSET T : U # T => U \notin Q
  <2>1. Q \subseteq SUBSET S
    OBVIOUS
  <2> HIDE DEF Q
  <2>2. QED
    BY <1>1, <2>1, SmallestMember
<1> DEFINE G(U) == CHOOSE g : Sums(f, U, g)
<1>3. ASSUME NEW U \in SUBSET T, U # T PROVE Sums(f, U, G(U))
  <2>1. U \notin Q
    BY <1>2, <1>3
  <2>2. U \in SUBSET S
    OBVIOUS
  <2>3. \E g : Sums(f, U, g)
    BY <2>1, <2>2
  <2>4. QED
    BY <2>3
<1>4. ASSUME NEW U \in SUBSET T, U # T, NEW u \in SUBSET U PROVE G(U)[u] = G(u)[u]
  <2> HIDE DEF G, Q
  <2>1. Sums(f, U, G(U))
    BY <1>3, <1>4
  <2>2. u \in SUBSET T /\ u # T
    BY <1>4
  <2>3. Sums(f, u, G(u))
    BY <1>3, <2>2
  <2>4. T \in SUBSET S
    BY DEF Q
  <2>5. IsFiniteSet(u)
    BY <2>2, <2>4, FS_Subset
  <2>6. Sums(f, u, G(U))
    BY <2>1, <1>4 DEF Sums
  <2>7. QED
    BY <2>3, <2>5, <2>6, SumsAreUnique
<1> DEFINE rest == T \ {Picked(T)}
           new == [s \in SUBSET T |->
                     IF s = {} THEN 0
                     ELSE f[Picked(s)] + G(s \ {Picked(s)})[s \ {Picked(s)}]]
<1>5. ASSUME NEW s \in SUBSET T, s # T PROVE new[s] = G(s)[s]
  <2> HIDE DEF G
  <2>1. Sums(f, s, G(s))
    BY <1>3, <1>5
  <2>2. CASE s = {}
    BY <2>1, <2>2 DEF Sums
  <2>3. CASE s # {}
    <3>1. G(s)[s \ {Picked(s)}] = G(s \ {Picked(s)})[s \ {Picked(s)}]
      BY <1>4, <1>5, <2>3, PickedIsIn
    <3>2. G(s)[s] = f[Picked(s)] + G(s)[s \ {Picked(s)}]
      BY <2>1, <2>3 DEF Sums
    <3>3. QED
      BY <2>3, <3>1, <3>2
  <2>4. QED
    BY <2>2, <2>3
<1>6. Sums(f, T, new)
  <2> SUFFICES ASSUME NEW s \in SUBSET T
               PROVE  new[s] = IF s = {} THEN 0 ELSE f[Picked(s)] + new[s \ {Picked(s)}]
    BY DEF Sums
  <2>1. CASE s = {}
    BY <2>1
  <2>2. CASE s # {}
    <3> DEFINE r == s \ {Picked(s)}
    <3>1. r \in SUBSET T /\ r # T
      BY <2>2, PickedIsIn
    <3>2. new[r] = G(r)[r]
      BY <1>5, <3>1
    <3>3. new[s] = f[Picked(s)] + G(r)[r]
      BY <2>2
    <3> HIDE DEF new, G
    <3>4. QED
      BY <2>2, <3>2, <3>3
  <2>3. QED
    BY <2>1, <2>2
<1>7. QED
  <2> HIDE DEF new
  <2>1. \E it : Sums(f, T, it)
    BY <1>6
  <2>2. QED
    BY <1>2, <2>1

(* The sum over a set: the equation of the library's recursive function.   *)
LEMMA SumEquation ==
  ASSUME NEW S, IsFiniteSet(S), NEW f
  PROVE  \E it : Sums(f, S, it) /\ SumFunctionOnSet(f, S) = it[S]
<1> DEFINE Body(it) == [s \in SUBSET S |-> IF s = {} THEN 0
                                           ELSE f[Picked(s)] + it[s \ {Picked(s)}]]
           iter == CHOOSE it : it = Body(it)
<1>1. SumFunctionOnSet(f, S) = iter[S]
  BY DEF SumFunctionOnSet, FoldFunctionOnSet, MapThenFoldSet, Picked
<1>2. PICK g : Sums(f, S, g)
  BY SumsExist
<1>3. [s \in SUBSET S |-> g[s]] = Body([s \in SUBSET S |-> g[s]])
  BY <1>2 DEF Sums
<1>4. \E it : it = Body(it)
  BY <1>3
<1>5. iter = Body(iter)
  <2> HIDE DEF Body
  <2>1. QED
    BY <1>4
<1>6. Sums(f, S, iter)
  <2> DEFINE it == iter
  <2>1. it = Body(it)
    BY <1>5
  <2> HIDE DEF it
  <2>2. Sums(f, S, it)
    BY <2>1 DEF Sums
  <2>3. QED
    BY <2>2 DEF it
<1>7. QED
  <2> HIDE DEF iter
  <2>1. QED
    BY <1>1, <1>6
-----------------------------------------------------------------------------
(* The laws of sums.                                                       *)

(* The sum over nothing, and the sum over a set from the element picked.   *)
LEMMA SumUnfolds ==
  ASSUME NEW S, IsFiniteSet(S), NEW f
  PROVE  SumFunctionOnSet(f, S) =
           IF S = {} THEN 0 ELSE f[Picked(S)] + SumFunctionOnSet(f, S \ {Picked(S)})
<1>1. PICK g : Sums(f, S, g) /\ SumFunctionOnSet(f, S) = g[S]
  BY SumEquation
<1>2. CASE S = {}
  BY <1>1, <1>2 DEF Sums
<1>3. CASE S # {}
  <2> DEFINE R == S \ {Picked(S)}
  <2>1. R \in SUBSET S
    OBVIOUS
  <2>2. IsFiniteSet(R)
    BY <2>1, FS_Subset
  <2> HIDE DEF R
  <2>3. PICK h : Sums(f, R, h) /\ SumFunctionOnSet(f, R) = h[R]
    BY <2>2, SumEquation
  <2>4. Sums(f, R, g)
    BY <1>1, <2>1 DEF Sums
  <2>5. g[R] = h[R]
    BY <2>2, <2>3, <2>4, SumsAreUnique
  <2>6. g[S] = f[Picked(S)] + g[R]
    BY <1>1, <1>3 DEF Sums, R
  <2>7. QED
    BY <1>1, <1>3, <2>3, <2>5, <2>6 DEF R
<1>4. QED
  BY <1>2, <1>3

(* Sums of integers are integers. *)
LEMMA SumType ==
  ASSUME NEW S, IsFiniteSet(S), NEW f, \A x \in S : f[x] \in Int
  PROVE  SumFunctionOnSet(f, S) \in Int
<1> DEFINE Q == {T \in SUBSET S : SumFunctionOnSet(f, T) \notin Int}
<1>1. SUFFICES ASSUME Q # {} PROVE FALSE
  OBVIOUS
<1>2. PICK T \in Q : \A U \in SUBSET T : U # T => U \notin Q
  <2>1. Q \subseteq SUBSET S
    OBVIOUS
  <2> HIDE DEF Q
  <2>2. QED
    BY <1>1, <2>1, SmallestMember
<1>3. T \in SUBSET S /\ SumFunctionOnSet(f, T) \notin Int
  OBVIOUS
<1>4. IsFiniteSet(T)
  BY <1>3, FS_Subset
<1>5. T # {} /\ SumFunctionOnSet(f, T) = f[Picked(T)] + SumFunctionOnSet(f, T \ {Picked(T)})
  BY <1>3, <1>4, SumUnfolds
<1>6. /\ Picked(T) \in T
      /\ T \ {Picked(T)} \in SUBSET T
      /\ T \ {Picked(T)} # T
  BY <1>5, PickedIsIn
<1>7. SumFunctionOnSet(f, T \ {Picked(T)}) \in Int
  BY <1>2, <1>3, <1>6
<1>8. f[Picked(T)] \in Int
  BY <1>3, <1>6
<1>9. QED
  BY <1>3, <1>5, <1>7, <1>8

(* Any element may be taken first. *)
LEMMA SumTakesAny ==
  ASSUME NEW S, IsFiniteSet(S), NEW f, \A y \in S : f[y] \in Int, NEW x \in S
  PROVE  SumFunctionOnSet(f, S) = f[x] + SumFunctionOnSet(f, S \ {x})
<1> DEFINE Sum(T) == SumFunctionOnSet(f, T)
           Q == {T \in SUBSET S : \E y \in T : Sum(T) # f[y] + Sum(T \ {y})}
<1>1. SUFFICES ASSUME Q # {} PROVE FALSE
  OBVIOUS
<1>2. PICK T \in Q : \A U \in SUBSET T : U # T => U \notin Q
  <2>1. Q \subseteq SUBSET S
    OBVIOUS
  <2> HIDE DEF Q
  <2>2. QED
    BY <1>1, <2>1, SmallestMember
<1>3. PICK y \in T : Sum(T) # f[y] + Sum(T \ {y})
  OBVIOUS
<1> DEFINE c == Picked(T)
<1>4. /\ T \in SUBSET S /\ T # {} /\ c \in T
      /\ \A z \in T : T \ {z} \in SUBSET T /\ T \ {z} # T /\ T \ {z} \in SUBSET S
  BY <1>3, PickedIsIn
<1>5. \A U \in SUBSET S : IsFiniteSet(U) /\ Sum(U) \in Int
  BY FS_Subset, SumType
<1>6. Sum(T) = f[c] + Sum(T \ {c})
  BY <1>4, <1>5, SumUnfolds
<1>7. y # c
  BY <1>3, <1>6
<1>8. Sum(T \ {c}) = f[y] + Sum((T \ {c}) \ {y})
  <2>1. T \ {c} \notin Q /\ y \in T \ {c} /\ T \ {c} \in SUBSET S
    BY <1>2, <1>3, <1>4, <1>7
  <2> HIDE DEF Sum, c
  <2>2. QED
    BY <2>1
<1>9. Sum(T \ {y}) = f[c] + Sum((T \ {y}) \ {c})
  <2>1. T \ {y} \notin Q /\ c \in T \ {y} /\ T \ {y} \in SUBSET S
    BY <1>2, <1>3, <1>4, <1>7
  <2> HIDE DEF Sum, c
  <2>2. QED
    BY <2>1
<1>10. (T \ {y}) \ {c} = (T \ {c}) \ {y} /\ (T \ {c}) \ {y} \in SUBSET S
  BY <1>4
<1>11. f[c] \in Int /\ f[y] \in Int /\ Sum((T \ {c}) \ {y}) \in Int
  BY <1>4, <1>5, <1>10
<1> DEFINE rest == Sum((T \ {c}) \ {y})
<1>12. Sum(T) = f[c] + (f[y] + rest) /\ Sum(T \ {y}) = f[c] + rest
  BY <1>6, <1>8, <1>9, <1>10
<1>13. f[c] + (f[y] + rest) = f[y] + (f[c] + rest)
  <2> HIDE DEF Sum, c, rest
  <2>1. rest \in Int /\ f[c] \in Int /\ f[y] \in Int
    BY <1>11 DEF rest
  <2>2. QED
    BY <2>1
<1>14. QED
  BY <1>3, <1>12, <1>13

(* A sum depends on the values of the function on the set only. *)
LEMMA SumAgrees ==
  ASSUME NEW S, IsFiniteSet(S), NEW f, NEW g, \A x \in S : f[x] = g[x]
  PROVE  SumFunctionOnSet(f, S) = SumFunctionOnSet(g, S)
<1> DEFINE Q == {T \in SUBSET S : SumFunctionOnSet(f, T) # SumFunctionOnSet(g, T)}
<1>1. SUFFICES ASSUME Q # {} PROVE FALSE
  OBVIOUS
<1>2. PICK T \in Q : \A U \in SUBSET T : U # T => U \notin Q
  <2>1. Q \subseteq SUBSET S
    OBVIOUS
  <2> HIDE DEF Q
  <2>2. QED
    BY <1>1, <2>1, SmallestMember
<1>3. T \in SUBSET S /\ SumFunctionOnSet(f, T) # SumFunctionOnSet(g, T)
  OBVIOUS
<1>4. IsFiniteSet(T)
  BY <1>3, FS_Subset
<1> DEFINE R == T \ {Picked(T)}
<1>5. /\ SumFunctionOnSet(f, T) = IF T = {} THEN 0 ELSE f[Picked(T)] + SumFunctionOnSet(f, R)
      /\ SumFunctionOnSet(g, T) = IF T = {} THEN 0 ELSE g[Picked(T)] + SumFunctionOnSet(g, R)
  BY <1>4, SumUnfolds
<1>6. T # {}
  BY <1>3, <1>5
<1>7. Picked(T) \in T /\ R \in SUBSET T /\ R # T
  BY <1>6, PickedIsIn
<1>8. SumFunctionOnSet(f, R) = SumFunctionOnSet(g, R)
  BY <1>2, <1>3, <1>7
<1>9. f[Picked(T)] = g[Picked(T)]
  BY <1>3, <1>7
<1>10. QED
  BY <1>3, <1>5, <1>6, <1>8, <1>9

(* When the value of one element changes, so does the sum, by as much. *)
LEMMA SumChanges ==
  ASSUME NEW S, IsFiniteSet(S), NEW f, NEW g, NEW x \in S,
         \A y \in S : f[y] \in Int /\ g[y] \in Int,
         \A y \in S : y # x => f[y] = g[y]
  PROVE  SumFunctionOnSet(g, S) = (SumFunctionOnSet(f, S) - f[x]) + g[x]
<1> DEFINE R == S \ {x}
<1>1. R \in SUBSET S /\ IsFiniteSet(R)
  BY FS_Subset
<1>2. SumFunctionOnSet(f, R) = SumFunctionOnSet(g, R)
  BY <1>1, SumAgrees
<1>3. SumFunctionOnSet(f, S) = f[x] + SumFunctionOnSet(f, R)
  BY SumTakesAny
<1>4. SumFunctionOnSet(g, S) = g[x] + SumFunctionOnSet(g, R)
  BY SumTakesAny
<1>5. SumFunctionOnSet(f, R) \in Int
  BY <1>1, SumType
<1>6. f[x] \in Int /\ g[x] \in Int
  OBVIOUS
<1> HIDE DEF R
<1>7. QED
  BY <1>2, <1>3, <1>4, <1>5, <1>6

(* A sum of nothing but zeros. *)
LEMMA SumOfZeros ==
  ASSUME NEW S, IsFiniteSet(S), NEW f, \A x \in S : f[x] = 0
  PROVE  SumFunctionOnSet(f, S) = 0
<1> DEFINE Q == {T \in SUBSET S : SumFunctionOnSet(f, T) # 0}
<1>1. SUFFICES ASSUME Q # {} PROVE FALSE
  OBVIOUS
<1>2. PICK T \in Q : \A U \in SUBSET T : U # T => U \notin Q
  <2>1. Q \subseteq SUBSET S
    OBVIOUS
  <2> HIDE DEF Q
  <2>2. QED
    BY <1>1, <2>1, SmallestMember
<1>3. T \in SUBSET S /\ SumFunctionOnSet(f, T) # 0
  OBVIOUS
<1>4. IsFiniteSet(T)
  BY <1>3, FS_Subset
<1> DEFINE R == T \ {Picked(T)}
<1>5. SumFunctionOnSet(f, T) = IF T = {} THEN 0 ELSE f[Picked(T)] + SumFunctionOnSet(f, R)
  BY <1>4, SumUnfolds
<1>6. T # {}
  BY <1>3, <1>5
<1>7. Picked(T) \in T /\ R \in SUBSET T /\ R # T
  BY <1>6, PickedIsIn
<1>8. SumFunctionOnSet(f, R) = 0 /\ f[Picked(T)] = 0
  BY <1>2, <1>3, <1>7
<1>9. QED
  BY <1>3, <1>5, <1>6, <1>8

-----------------------------------------------------------------------------
(* Finite sets and sequences.                                              *)

(* A set of natural numbers that is not empty has a least element.         *)
LEMMA LeastOfSome ==
  ASSUME NEW n \in Nat, NEW Q, Q \subseteq 1 .. n, Q # {}
  PROVE  \E m \in Q : \A i \in 1 .. n : i < m => i \notin Q
<1> DEFINE L == {1 .. i : i \in Q}
<1>1. IsFiniteSet(1 .. n)
  BY FS_Interval
<1>2. L \subseteq SUBSET (1 .. n) /\ L # {}
  <2>1. \A i \in Q : 1 .. i \subseteq 1 .. n
    OBVIOUS
  <2>2. QED
    BY <2>1
<1>3. PICK T \in L : \A U \in SUBSET T : U # T => U \notin L
  <2> HIDE DEF L
  <2>1. QED
    BY <1>1, <1>2, SmallestMember
<1>4. PICK m \in Q : T = 1 .. m
  OBVIOUS
<1>5. ASSUME NEW i \in 1 .. n, i < m PROVE i \notin Q
  <2>1. 1 .. i \in SUBSET T /\ m \in T /\ m \notin 1 .. i
    BY <1>4, <1>5
  <2>2. 1 .. i \notin L
    BY <1>3, <2>1
  <2>3. QED
    BY <2>2
<1>6. QED
  BY <1>5

(* What a function makes of a finite set is finite.                        *)
LEMMA ImageIsFinite ==
  ASSUME NEW S, IsFiniteSet(S), NEW f, DOMAIN f = S
  PROVE  IsFiniteSet({f[x] : x \in S})
<1> DEFINE g == [x \in S |-> f[x]]
           T == {f[x] : x \in S}
<1>1. g \in Surjection(S, T)
  BY DEF Surjection
<1> HIDE DEF g, T
<1>2. IsFiniteSet(T)
  BY <1>1, FS_Surjection
<1>3. QED
  BY <1>2 DEF T

LEMMA OnlyWhatItHas ==
  ASSUME NEW S, NEW t \in Seq(S)
  PROVE  t \in Seq(Range(t)) /\ Range(t) \subseteq S
<1>1. \A i \in 1 .. Len(t) : t[i] \in Range(t) /\ t[i] \in S
  BY ElementOfSeq DEF Range
<1>2. QED
  BY <1>1 DEF Range

LEMMA SetToSeqIsSeq ==
  ASSUME NEW S, IsFiniteSet(S)
  PROVE  /\ SetToSeq(S) \in Seq(S) /\ Len(SetToSeq(S)) = Cardinality(S)
         /\ S # {} => SetToSeq(S) # <<>>
<1> DEFINE n == Cardinality(S)
<1>1. n \in Nat /\ ExistsBijection(1 .. n, S)
  BY FS_CardinalityType
<1>2. PICK f \in [1 .. n -> S] : IsInjective(f)
  BY <1>1 DEF ExistsBijection, Bijection, Injection
<1>3. SetToSeq(S) \in [1 .. n -> S]
  <2> HIDE DEF n
  <2>1. QED
    BY <1>2 DEF SetToSeq, n
<1>4. S # {} => n # 0
  BY <1>1, FS_EmptySet
<1>5. QED
  BY <1>1, <1>3, <1>4

(* FlattenSeq of sequences of such elements, by the least index at which   *)
(* its recursive function would fail to be one.                            *)
FlattensTo(t, n, f) == f = [i \in 1 .. n |-> IF i = 1 THEN t[i] ELSE f[i - 1] \o t[i]]

LEMMA FlattenFolds ==
  ASSUME NEW t, NEW n \in Nat, n # 0, Len(t) = n
  PROVE  \E f : FlattensTo(t, n, f) /\ FlattenSeq(t) = f[n]
<1> DEFINE Q == {m \in 1 .. n : ~ \E f : FlattensTo(t, m, f)}
<1>1. ASSUME Q # {} PROVE FALSE
  <2>1. PICK m \in Q : \A i \in 1 .. n : i < m => i \notin Q
    <3>1. Q \subseteq 1 .. n
      OBVIOUS
    <3> HIDE DEF Q
    <3>2. QED
      BY <1>1, <3>1, LeastOfSome
  <2>2. m \in 1 .. n
    OBVIOUS
  <2>3. CASE m = 1
    <3>1. FlattensTo(t, 1, [i \in 1 .. 1 |-> t[1]])
      BY DEF FlattensTo
    <3>2. QED
      BY <2>3, <3>1
  <2>4. CASE m # 1
    <3>1. m - 1 \in 1 .. n /\ m - 1 < m
      BY <2>2, <2>4
    <3>2. PICK g : FlattensTo(t, m - 1, g)
      BY <2>1, <3>1
    <3> DEFINE h == [i \in 1 .. m |-> IF i = m THEN g[m - 1] \o t[m] ELSE g[i]]
    <3>3. ASSUME NEW i \in 1 .. m
          PROVE  h[i] = IF i = 1 THEN t[i] ELSE h[i - 1] \o t[i]
      <4>1. CASE i = m
        <5>1. m - 1 \in 1 .. m /\ m - 1 # m /\ m \in 1 .. m
          BY <2>2, <2>4, <4>1
        <5>2. h[m - 1] = g[m - 1] /\ h[m] = g[m - 1] \o t[m]
          BY <5>1
        <5> HIDE DEF h
        <5>3. h[m] = IF m = 1 THEN t[m] ELSE h[m - 1] \o t[m]
          BY <2>4, <5>2
        <5>4. QED
          BY <4>1, <5>3
      <4>2. CASE i # m
        <5>1. i \in 1 .. m - 1
          BY <2>2, <4>2
        <5>2. g[i] = IF i = 1 THEN t[i] ELSE g[i - 1] \o t[i]
          BY <3>2, <5>1 DEF FlattensTo
        <5>3. i # 1 => i - 1 \in 1 .. m /\ i - 1 # m
          BY <2>2
        <5>4. QED
          BY <4>2, <5>2, <5>3
      <4>3. QED
        BY <4>1, <4>2
    <3>4. h = [i \in 1 .. m |-> h[i]]
      OBVIOUS
    <3> HIDE DEF h
    <3>5. FlattensTo(t, m, h)
      <4>1. [i \in 1 .. m |-> h[i]] = [i \in 1 .. m |-> IF i = 1 THEN t[i] ELSE h[i - 1] \o t[i]]
        BY <3>3
      <4>2. QED
        BY <3>4, <4>1 DEF FlattensTo
    <3>6. QED
      BY <3>5
  <2>5. QED
    BY <2>3, <2>4
<1>2. QED
  <2> DEFINE it == CHOOSE f : FlattensTo(t, n, f)
  <2>1. n \in 1 .. n
    OBVIOUS
  <2>2. \E f : FlattensTo(t, n, f)
    BY <1>1, <2>1
  <2>3. FlattensTo(t, n, it)
    BY <2>2
  <2>4. FlattenSeq(t) = it[n]
    BY DEF FlattenSeq, FlattensTo
  <2>5. QED
    BY <2>3, <2>4

(* What holds of a first sequence, and goes on holding when another is     *)
(* added: C[m] are the sequences of which it holds after m of them.        *)
LEMMA FlattenKeeps ==
  ASSUME NEW t, NEW n \in Nat, n # 0, Len(t) = n, NEW C, t[1] \in C[1],
         \A m \in 2 .. n : \A x \in C[m - 1] : x \o t[m] \in C[m]
  PROVE  FlattenSeq(t) \in C[n]
<1>1. PICK f : FlattensTo(t, n, f) /\ FlattenSeq(t) = f[n]
  BY FlattenFolds
<1> DEFINE B == {m \in 1 .. n : f[m] \notin C[m]}
<1>2. ASSUME B # {} PROVE FALSE
  <2>1. PICK m \in B : \A i \in 1 .. n : i < m => i \notin B
    <3>1. B \subseteq 1 .. n
      OBVIOUS
    <3> HIDE DEF B
    <3>2. QED
      BY <1>2, <3>1, LeastOfSome
  <2>2. m \in 1 .. n /\ f[m] \notin C[m]
    OBVIOUS
  <2>3. f[m] = IF m = 1 THEN t[m] ELSE f[m - 1] \o t[m]
    BY <1>1, <2>2 DEF FlattensTo
  <2>4. CASE m = 1
    BY <2>2, <2>3, <2>4
  <2>5. CASE m # 1
    <3>1. m - 1 \in 1 .. n /\ m - 1 < m /\ m \in 2 .. n
      BY <2>2, <2>5
    <3>2. f[m - 1] \in C[m - 1]
      BY <2>1, <3>1
    <3>3. QED
      BY <2>2, <2>3, <2>5, <3>1, <3>2
  <2>6. QED
    BY <2>4, <2>5
<1>3. n \in 1 .. n
  OBVIOUS
<1>4. QED
  BY <1>1, <1>2, <1>3

LEMMA FlattenOfNone == ASSUME NEW t, Len(t) = 0 PROVE FlattenSeq(t) = <<>>
BY DEF FlattenSeq

LEMMA FlattenIsSeq ==
  ASSUME NEW S, NEW t \in Seq(Seq(S))
  PROVE  FlattenSeq(t) \in Seq(S)
<1> DEFINE n == Len(t)
           C == [m \in 1 .. n |-> Seq(S)]
<1>1. n \in Nat /\ \A i \in 1 .. n : t[i] \in Seq(S)
  BY ElementOfSeq, LenProperties
<1>2. CASE n = 0
  <2>1. FlattenSeq(t) = <<>>
    BY <1>2, FlattenOfNone
  <2>2. QED
    BY <2>1
<1>3. CASE n # 0
  <2>1. \A m \in 1 .. n : C[m] = Seq(S)
    OBVIOUS
  <2>2. 1 \in 1 .. n /\ n \in 1 .. n /\ \A m \in 2 .. n : m \in 1 .. n /\ m - 1 \in 1 .. n
    BY <1>1, <1>3
  <2>3. Len(t) = n
    OBVIOUS
  <2> HIDE DEF C, n
  <2>4. \A m \in 2 .. n : \A x \in C[m - 1] : x \o t[m] \in C[m]
    BY <1>1, <2>1, <2>2, ConcatProperties
  <2>5. t[1] \in C[1]
    BY <1>1, <2>1, <2>2
  <2>6. FlattenSeq(t) \in C[n]
    BY <1>1, <1>3, <2>3, <2>4, <2>5, FlattenKeeps
  <2>7. QED
    BY <2>1, <2>2, <2>6
<1>4. QED
  BY <1>2, <1>3

============================================================================
