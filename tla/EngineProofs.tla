---------------------------- MODULE EngineProofs ----------------------------
(***************************************************************************)
(* What module Engine computes, for every storage, every pair of risk      *)
(* limits and every book: the lemmas that the proofs about Exchange and    *)
(* Session rest on.                                                        *)
(*                                                                         *)
(* A match gives each maker, in priority, what the makers ahead of it left *)
(* of the incoming order; so it only reduces the book, and what is left of *)
(* the order can trade with nothing that remains (MatchFacts).  So every   *)
(* request leaves books that are uncrossed, within the limits and without  *)
(* duplicates (SoundEngine), is answered exactly when it is accepted,      *)
(* numbers its events without a gap, and does what its preview said.  What *)
(* a storage can hold enters through ReducibleStorage alone, which         *)
(* PoolsReducible shows of the storages of the code.                       *)
(***************************************************************************)
EXTENDS Engine, FiniteSetTheorems, TLAPS

-----------------------------------------------------------------------------
(* Sequences.                                                              *)

\* A sequence is a function on 1..Len, empty only when its length is 0.
LEMMA SeqFacts ==
  ASSUME NEW S, NEW s \in Seq(S)
  PROVE  /\ Len(s) \in Nat /\ s \in [1..Len(s) -> S] /\ DOMAIN s = 1..Len(s)
         /\ s = <<>> <=> Len(s) = 0
  BY SMT

\* Replacing one element leaves a sequence.
LEMMA PutFacts ==
  ASSUME NEW S, NEW s \in Seq(S), NEW x \in S, NEW i \in DOMAIN s
  PROVE  [s EXCEPT ![i] = x] \in Seq(S)
  BY SMT

\* What joining two sequences gives.
LEMMA JoinFacts ==
  ASSUME NEW S, NEW s \in Seq(S), NEW t \in Seq(S)
  PROVE  /\ s \o t \in Seq(S) /\ Len(s \o t) = Len(s) + Len(t)
         /\ \A i \in 1..(Len(s) + Len(t)) :
              (s \o t)[i] = IF i <= Len(s) THEN s[i] ELSE t[i - Len(s)]
  BY SMT

-----------------------------------------------------------------------------
(* Induction, in a first-order form: the property is a set.                *)

\* A set of subsets of a finite set has a minimal member.
LEMMA MinimalSubset ==
  ASSUME NEW S, IsFiniteSet(S), NEW Q, Q \subseteq SUBSET S, Q # {}
  PROVE  \E T \in Q : \A U \in Q : U \subseteq T => U = T
<1> DEFINE R == StrictSubsetOrdering(S)
<1>1. Q \subseteq FiniteSubsetsOf(S)
  BY FS_FiniteSubsetsOfFinite
<1>2. IsWellFoundedOn(R, FiniteSubsetsOf(S))
  BY Zenon, FS_StrictSubsetOrderingWellFounded
<1>3. \E T \in Q : \A U \in Q : ~(<<U, T>> \in R)
  <2> HIDE DEF R
  <2> QED  BY Zenon, <1>1, <1>2, WFMin
<1> QED  BY Zenon, <1>3 DEF StrictSubsetOrdering

\* A subset of S is in P when all its proper subsets are.
Hereditary(S, P) ==
  \A T \in SUBSET S : (\A U \in SUBSET T : U # T => U \in P) => T \in P

\* What passes from the proper subsets of a set to the set holds of every
\* subset of a finite set.
LEMMA SubsetInduction ==
  ASSUME NEW S, IsFiniteSet(S), NEW P, Hereditary(S, P)
  PROVE  SUBSET S \subseteq P
<1> DEFINE Bad == (SUBSET S) \ P
<1> SUFFICES ASSUME Bad # {} PROVE FALSE
  BY Zenon
<1>1. PICK T \in Bad : \A U \in Bad : U \subseteq T => U = T
  <2>1. Bad \subseteq SUBSET S
    BY Zenon
  <2>2. Bad # {}
    OBVIOUS
  <2> HIDE DEF Bad
  <2>3. \E T \in Bad : \A U \in Bad : U \subseteq T => U = T
    BY SMTT(30), <2>1, <2>2, MinimalSubset
  <2> QED  BY Zenon, <2>3
<1>2. \A U \in SUBSET T : U # T => U \in P
  BY SMTT(30), <1>1
<1> QED  BY Zenon, <1>1, <1>2 DEF Hereditary

\* What holds of 0 and passes from n to n + 1 holds of every natural number.
LEMMA NatSetInduction ==
  ASSUME NEW P, 0 \in P, \A n \in Nat : n \in P => n + 1 \in P
  PROVE  Nat \subseteq P
<1> DEFINE Bad == Nat \ P
<1> SUFFICES ASSUME Bad # {} PROVE FALSE
  OBVIOUS
<1>1. \E n \in Bad : \A m \in Bad : ~(<<m, n>> \in OpToRel(<, Nat))
  <2>1. Bad \subseteq Nat
    OBVIOUS
  <2> HIDE DEF Bad
  <2> QED  BY Zenon, <2>1, WFMin, NatLessThanWellFounded
<1>2. PICK n \in Bad : \A m \in Bad : ~(<<m, n>> \in OpToRel(<, Nat))
  BY Zenon, <1>1
<1>3. \A m \in Bad : ~(m < n)
  BY Zenon, <1>2 DEF OpToRel
<1>4. n # 0 /\ n \in Nat
  BY Zenon, <1>2
<1>5. n - 1 \in P
  BY SMTT(30), <1>3, <1>4
<1>6. n - 1 \in Nat /\ (n - 1) + 1 = n
  BY <1>4
<1> QED  BY Zenon, <1>2, <1>5, <1>6

-----------------------------------------------------------------------------
(* Sums over finite sets.                                                  *)

\* g tabulates the sums of f over the subsets of S, as SumFunctionOnSet does.
SumTable(f, S, g) ==
  g = [s \in SUBSET S |->
         IF s = {} THEN 0
         ELSE f[CHOOSE x \in s : TRUE] + g[s \ {CHOOSE x \in s : TRUE}]]

\* A table for S, cut down to the subsets of T, is a table for T.
LEMMA SumTableRestricts ==
  ASSUME NEW f, NEW S, NEW T \in SUBSET S, NEW g, SumTable(f, S, g),
         NEW h, h = [s \in SUBSET T |-> g[s]]
  PROVE  SumTable(f, T, h)
  BY DEF SumTable

\* There is only one table for a finite set.
LEMMA SumTableUnique ==
  ASSUME NEW f, NEW S, IsFiniteSet(S), NEW g, NEW h, SumTable(f, S, g), SumTable(f, S, h)
  PROVE  g = h
<1> DEFINE P == {s \in SUBSET S : g[s] = h[s]}
<1>1. ASSUME NEW T \in SUBSET S, \A U \in SUBSET T : U # T => U \in P
      PROVE  T \in P
  <2>1. CASE T = {}
    BY <2>1 DEF SumTable
  <2>2. CASE T # {}
    <3> DEFINE x == CHOOSE x \in T : TRUE
    <3>1. x \in T
      BY <2>2
    <3>2. T \ {x} \in P
      BY <1>1, <3>1
    <3>3. g[T] = f[x] + g[T \ {x}] /\ h[T] = f[x] + h[T \ {x}]
      BY <2>2 DEF SumTable
    <3> QED  BY <3>2, <3>3
  <2> QED  BY <2>1, <2>2
<1> HIDE DEF P
<1>2. SUBSET S \subseteq P
  BY Zenon, <1>1, SubsetInduction DEF Hereditary
<1>3. DOMAIN g = SUBSET S /\ DOMAIN h = SUBSET S /\ g = [s \in SUBSET S |-> g[s]] /\ h = [s \in SUBSET S |-> h[s]]
  BY DEF SumTable
<1> QED  BY Zenon, <1>2, <1>3 DEF P

\* There is a table for every finite set, by induction on its subsets.
LEMMA SumTableExists ==
  ASSUME NEW f, NEW S, IsFiniteSet(S)
  PROVE  \E g : SumTable(f, S, g)
<1> DEFINE P == {T \in SUBSET S : \E g : SumTable(f, T, g)}
<1>1. ASSUME NEW T \in SUBSET S, \A U \in SUBSET T : U # T => U \in P
      PROVE  T \in P
  <2> DEFINE x == CHOOSE x \in T : TRUE
             Table(U) == CHOOSE g : SumTable(f, U, g)
             g == [s \in SUBSET T |->
                     IF s = {} THEN 0
                     ELSE f[CHOOSE y \in s : TRUE]
                            + Table(s \ {CHOOSE y \in s : TRUE})[s \ {CHOOSE y \in s : TRUE}]]
  <2>1. ASSUME NEW s \in SUBSET T, s # T PROVE g[s] = Table(s)[s]
    <3>1. SumTable(f, s, Table(s))
      BY <1>1, <2>1
    <3>2. CASE s = {}
      BY Zenon, <3>1, <3>2 DEF SumTable
    <3>3. CASE s # {}
      <4> DEFINE y == CHOOSE y \in s : TRUE
                 rest == s \ {y}
                 h == [u \in SUBSET rest |-> Table(s)[u]]
      <4>1. y \in s
        BY <3>3
      <4>2. rest \in SUBSET T /\ rest # T /\ rest \in SUBSET s /\ rest # s
        BY <4>1
      <4>3. SumTable(f, rest, Table(rest))
        BY Zenon, <1>1, <4>2
      <4>4. IsFiniteSet(rest)
        BY FS_Subset, <4>2
      <4>5. Table(s)[s] = f[y] + Table(s)[rest]
        BY Zenon, <3>1, <3>3 DEF SumTable
      <4>6. g[s] = f[y] + Table(rest)[rest]
        BY <3>3
      <4>7. h[rest] = Table(s)[rest]
        OBVIOUS
      <4>8. h = [u \in SUBSET rest |-> Table(s)[u]]
        OBVIOUS
      <4> HIDE DEF y, Table, g, rest, h
      <4>9. SumTable(f, rest, h)
        BY Zenon, <3>1, <4>2, <4>8, SumTableRestricts
      <4>10. Table(rest) = h
        BY Zenon, <4>3, <4>4, <4>9, SumTableUnique
      <4> QED  BY <4>5, <4>6, <4>7, <4>10
    <3> QED  BY <3>2, <3>3
  <2>2. SumTable(f, T, g)
    <3>1. ASSUME NEW s \in SUBSET T, s # {}
          PROVE  g[s] = f[CHOOSE y \in s : TRUE] + g[s \ {CHOOSE y \in s : TRUE}]
      <4> DEFINE y == CHOOSE y \in s : TRUE
      <4>1. y \in s
        BY <3>1
      <4>2. s \ {y} \in SUBSET T /\ s \ {y} # T
        BY <4>1
      <4>3. g[s] = f[y] + Table(s \ {y})[s \ {y}]
        BY <3>1
      <4> HIDE DEF y, Table, g
      <4>4. g[s \ {y}] = Table(s \ {y})[s \ {y}]
        BY <4>2, <2>1
      <4> QED  BY <4>3, <4>4 DEF y
    <3>2. {} \in SUBSET T => g[{}] = 0
      OBVIOUS
    <3>3. g = [s \in SUBSET T |-> g[s]]
      OBVIOUS
    <3> HIDE DEF g
    <3> QED  BY Zenon, <3>1, <3>2, <3>3 DEF SumTable
  <2> HIDE DEF g
  <2> QED  BY <2>2
<1> HIDE DEF P
<1>2. S \in P
  BY Zenon, <1>1, SubsetInduction DEF Hereditary
<1> QED  BY <1>2 DEF P

\* One table gives the sums over all the subsets.
LEMMA SumOfTable ==
  \A f, S, g : \A T \in SUBSET S :
    IsFiniteSet(S) /\ SumTable(f, S, g) =>
      SumFunctionOnSet(f, T) = g[T]
\* SumFunctionOnSet is the entry for S of such a table.
<1>SumUnfold. ASSUME NEW f, NEW S
              PROVE  SumFunctionOnSet(f, S) = (CHOOSE g : SumTable(f, S, g))[S]
  BY <1>SumUnfold DEF SumFunctionOnSet, FoldFunctionOnSet, MapThenFoldSet, SumTable
<1> SUFFICES ASSUME NEW f, NEW S, IsFiniteSet(S), NEW g, SumTable(f, S, g), NEW T \in SUBSET S
             PROVE  SumFunctionOnSet(f, T) = g[T]
  OBVIOUS
<1> DEFINE Table(U) == CHOOSE t : SumTable(f, U, t)
           h == [s \in SUBSET T |-> g[s]]
<1>1. IsFiniteSet(T)
  BY FS_Subset
<1>2. SumTable(f, T, Table(T))
  BY Zenon, <1>1, SumTableExists
<1>3. h[T] = g[T] /\ h = [s \in SUBSET T |-> g[s]]
  OBVIOUS
<1>4. SumFunctionOnSet(f, T) = Table(T)[T]
  BY Zenon, <1>SumUnfold
<1> HIDE DEF h, Table
<1>5. SumTable(f, T, h)
  BY Zenon, <1>3, SumTableRestricts
<1>6. Table(T) = h
  BY Zenon, <1>1, <1>2, <1>5, SumTableUnique
<1> QED  BY Zenon, <1>3, <1>4, <1>6

\* The empty sum is zero.
LEMMA SumEmpty ==
  ASSUME NEW f
  PROVE  SumFunctionOnSet(f, {}) = 0
<1> DEFINE g == [s \in SUBSET {} |-> 0]
<1>1. SumTable(f, {}, g)
  BY DEF SumTable
<1>2. g[{}] = 0
  OBVIOUS
<1> HIDE DEF g
<1> QED  BY <1>1, <1>2, SumOfTable, FS_EmptySet

\* A sum is one of its terms and the sum of the others.
LEMMA SumChoice ==
  ASSUME NEW f, NEW S, IsFiniteSet(S), S # {}
  PROVE  \E x \in S : SumFunctionOnSet(f, S) = f[x] + SumFunctionOnSet(f, S \ {x})
<1>1. PICK g : SumTable(f, S, g)
  BY Zenon, SumTableExists
<1> DEFINE x == CHOOSE y \in S : TRUE
<1>2. x \in S
  OBVIOUS
<1>3. g[S] = f[x] + g[S \ {x}]
  BY <1>1 DEF SumTable
<1> HIDE DEF x
<1> DEFINE rest == S \ {x}
<1>4. rest \in SUBSET S /\ S \in SUBSET S
  BY Zenon
<1> HIDE DEF rest
<1>5. SumFunctionOnSet(f, S) = g[S]
  BY SMTT(30), <1>1, <1>4, SumOfTable
<1>6. SumFunctionOnSet(f, rest) = g[rest]
  BY SMTT(30), <1>1, <1>4, SumOfTable
<1> QED  BY Zenon, <1>2, <1>3, <1>5, <1>6 DEF rest

\* f has integer values on S.
Measures(f, S) == \A x \in S : f[x] \in Int

\* A sum of integers is an integer.
LEMMA SumType ==
  ASSUME NEW f, NEW S, IsFiniteSet(S), Measures(f, S)
  PROVE  SumFunctionOnSet(f, S) \in Int
<1> DEFINE P == {T \in SUBSET S : SumFunctionOnSet(f, T) \in Int}
<1>1. ASSUME NEW T \in SUBSET S, \A U \in SUBSET T : U # T => U \in P
      PROVE  T \in P
  <2>1. CASE T = {}
    BY <2>1, SumEmpty
  <2>2. CASE T # {}
    <3>1. IsFiniteSet(T)
      BY FS_Subset
    <3>2. PICK x \in T : SumFunctionOnSet(f, T) = f[x] + SumFunctionOnSet(f, T \ {x})
      BY Zenon, <2>2, <3>1, SumChoice
    <3>3. T \ {x} \in P
      BY <1>1, <3>2
    <3> QED  BY <3>2, <3>3 DEF Measures
  <2> QED  BY <2>1, <2>2
<1> HIDE DEF P
<1>2. S \in P
  BY Zenon, <1>1, SubsetInduction DEF Hereditary
<1> QED  BY <1>2 DEF P

\* Any of its terms can be taken out of a sum.
LEMMA SumRemove ==
  ASSUME NEW f, NEW S, IsFiniteSet(S), Measures(f, S), NEW y \in S
  PROVE  SumFunctionOnSet(f, S) = f[y] + SumFunctionOnSet(f, S \ {y})
<1> DEFINE P == {T \in SUBSET S : \A z \in T : SumFunctionOnSet(f, T)
                                            = f[z] + SumFunctionOnSet(f, T \ {z})}
<1>1. ASSUME NEW T \in SUBSET S, \A U \in SUBSET T : U # T => U \in P
      PROVE  T \in P
  <2> SUFFICES ASSUME NEW z \in T
               PROVE  SumFunctionOnSet(f, T) = f[z] + SumFunctionOnSet(f, T \ {z})
    OBVIOUS
  <2>1. IsFiniteSet(T)
    BY FS_Subset
  <2>2. PICK x \in T : SumFunctionOnSet(f, T) = f[x] + SumFunctionOnSet(f, T \ {x})
    BY Zenon, <2>1, SumChoice
  <2>3. CASE x = z
    BY <2>2, <2>3
  <2>4. CASE x # z
    <3> DEFINE rest == (T \ {x}) \ {z}
    <3>1. T \ {x} \in P /\ T \ {z} \in P
      BY <1>1, <2>2
    <3>2. z \in T \ {x} /\ x \in T \ {z} /\ (T \ {z}) \ {x} = rest
      BY <2>4
    <3>3. /\ SumFunctionOnSet(f, T \ {x}) = f[z] + SumFunctionOnSet(f, rest)
          /\ SumFunctionOnSet(f, T \ {z}) = f[x] + SumFunctionOnSet(f, rest)
      BY <3>1, <3>2
    <3>4. /\ f[x] \in Int /\ f[z] \in Int
          /\ SumFunctionOnSet(f, rest) \in Int
      <4>1. rest \in SUBSET S
        OBVIOUS
      <4>2. IsFiniteSet(rest) /\ Measures(f, rest)
        BY <4>1, FS_Subset DEF Measures
      <4> HIDE DEF rest
      <4> QED  BY <4>2, SumType DEF Measures
    <3> HIDE DEF rest
    <3> QED  BY <2>2, <3>3, <3>4
  <2> QED  BY <2>3, <2>4
<1> HIDE DEF P
<1>2. S \in P
  BY Zenon, <1>1, SubsetInduction DEF Hereditary
<1> QED  BY <1>2 DEF P

\* Functions that agree on a set have the same sum over it.
LEMMA SumEqual ==
  ASSUME NEW f, NEW g, NEW S, IsFiniteSet(S), Measures(f, S), \A x \in S : f[x] = g[x]
  PROVE  SumFunctionOnSet(f, S) = SumFunctionOnSet(g, S)
<1> DEFINE P == {T \in SUBSET S : SumFunctionOnSet(f, T) = SumFunctionOnSet(g, T)}
<1>1. ASSUME NEW T \in SUBSET S, \A U \in SUBSET T : U # T => U \in P
      PROVE  T \in P
  <2>1. CASE T = {}
    BY <2>1, SumEmpty
  <2>2. CASE T # {}
    <3>1. IsFiniteSet(T) /\ Measures(f, T) /\ Measures(g, T)
      BY FS_Subset DEF Measures
    <3>2. PICK x \in T : TRUE
      BY <2>2
    <3>3. T \ {x} \in P
      BY <1>1, <3>2
    <3>4. SumFunctionOnSet(f, T) = f[x] + SumFunctionOnSet(f, T \ {x})
      BY SMTT(30), <3>1, SumRemove
    <3>5. SumFunctionOnSet(g, T) = g[x] + SumFunctionOnSet(g, T \ {x})
      BY SMTT(30), <3>1, SumRemove
    <3> QED  BY <3>3, <3>4, <3>5
  <2> QED  BY <2>1, <2>2
<1> HIDE DEF P
<1>2. S \in P
  BY Zenon, <1>1, SubsetInduction DEF Hereditary
<1> QED  BY <1>2 DEF P

\* Taking members of a sum of naturals away does not increase it.
LEMMA SumMonotone ==
  ASSUME NEW f, NEW S, IsFiniteSet(S), \A x \in S : f[x] \in Nat, NEW T \in SUBSET S
  PROVE  /\ SumFunctionOnSet(f, T) \in Nat
         /\ SumFunctionOnSet(f, S) \in Nat
         /\ SumFunctionOnSet(f, T) <= SumFunctionOnSet(f, S)
<1> DEFINE P == {V \in SUBSET S : /\ SumFunctionOnSet(f, V) \in Nat
                                 /\ \A U \in SUBSET V :
                                      SumFunctionOnSet(f, U) <= SumFunctionOnSet(f, V)}
<1>1. ASSUME NEW V \in SUBSET S, \A U \in SUBSET V : U # V => U \in P
      PROVE  V \in P
  <2>1. CASE V = {}
    BY <2>1, SumEmpty
  <2>2. CASE V # {}
    <3>1. IsFiniteSet(V) /\ Measures(f, V)
      BY FS_Subset DEF Measures
    <3>2. \A x \in V : SumFunctionOnSet(f, V) = f[x] + SumFunctionOnSet(f, V \ {x})
      BY SMTT(30), <3>1, SumRemove
    <3>3. \A x \in V : V \ {x} \in P
      BY <1>1
    <3>4. SumFunctionOnSet(f, V) \in Nat
      <4>1. PICK x \in V : TRUE
        BY <2>2
      <4>2. SumFunctionOnSet(f, V) = f[x] + SumFunctionOnSet(f, V \ {x})
        BY <3>2
      <4>3. f[x] \in Nat /\ SumFunctionOnSet(f, V \ {x}) \in Nat
        BY <3>3
      <4> QED  BY <4>2, <4>3
    <3>5. ASSUME NEW U \in SUBSET V
          PROVE  SumFunctionOnSet(f, U) <= SumFunctionOnSet(f, V)
      <4>1. CASE U = V
        BY <3>4, <4>1
      <4>2. CASE U # V
        <5>1. PICK x \in V : x \notin U
          BY <4>2
        <5>2. U \in SUBSET (V \ {x}) /\ U \in P
          BY <1>1, <4>2, <5>1
        <5>3. SumFunctionOnSet(f, U) <= SumFunctionOnSet(f, V \ {x}) /\ SumFunctionOnSet(f, U) \in Nat
          BY <3>3, <5>2
        <5>4. f[x] \in Nat /\ SumFunctionOnSet(f, V \ {x}) \in Nat
          BY <3>3
        <5> QED  BY <3>2, <5>3, <5>4
      <4> QED  BY <4>1, <4>2
    <3> QED  BY <3>4, <3>5
  <2> QED  BY <2>1, <2>2
<1> HIDE DEF P
<1>2. SUBSET S \subseteq P
  BY Zenon, <1>1, SubsetInduction DEF Hereditary
<1> QED  BY <1>2 DEF P

-----------------------------------------------------------------------------
(* Ranks in a finite, strictly ordered set.                                *)

\* R is a strict total order of S.
StrictOrder(S, R) ==
  /\ \A x \in S : <<x, x>> \notin R
  /\ \A x, y, z \in S : <<x, y>> \in R /\ <<y, z>> \in R => <<x, z>> \in R
  /\ \A x, y \in S : x # y => <<x, y>> \in R \/ <<y, x>> \in R

\* The members of S that come before x.
Below(S, R, x) == {y \in S : <<y, x>> \in R}

\* A member of S has between none and all the others before it.
LEMMA RankBounds ==
  ASSUME NEW S, IsFiniteSet(S), NEW R, StrictOrder(S, R), NEW x \in S
  PROVE  /\ Cardinality(S) \in Nat
         /\ Cardinality(Below(S, R, x)) \in 0..(Cardinality(S) - 1)
<1>1. Below(S, R, x) \in SUBSET (S \ {x})
  BY DEF Below, StrictOrder
<1>2. IsFiniteSet(S \ {x}) /\ Cardinality(S \ {x}) = Cardinality(S) - 1
  BY FS_RemoveElement
<1>3. IsFiniteSet(Below(S, R, x)) /\ Cardinality(Below(S, R, x)) <= Cardinality(S \ {x})
  BY <1>1, <1>2, FS_Subset
<1>4. Cardinality(S) \in Nat /\ Cardinality(Below(S, R, x)) \in Nat
  BY <1>3, FS_CardinalityType
<1> QED  BY <1>2, <1>3, <1>4

\* What comes later has more before it.
LEMMA RankIncreases ==
  ASSUME NEW S, IsFiniteSet(S), NEW R, StrictOrder(S, R),
         NEW x \in S, NEW y \in S, <<x, y>> \in R
  PROVE  Cardinality(Below(S, R, x)) < Cardinality(Below(S, R, y))
<1>1. Below(S, R, x) \in SUBSET Below(S, R, y)
  BY DEF Below, StrictOrder
<1>2. x \in Below(S, R, y) /\ x \notin Below(S, R, x)
  BY DEF Below, StrictOrder
<1>3. IsFiniteSet(Below(S, R, y))
  BY Zenon, FS_Subset DEF Below
<1>4. /\ Cardinality(Below(S, R, x)) <= Cardinality(Below(S, R, y))
      /\ Cardinality(Below(S, R, x)) # Cardinality(Below(S, R, y))
  BY Zenon, <1>1, <1>2, <1>3, FS_Subset
<1>5. Cardinality(Below(S, R, x)) \in Int /\ Cardinality(Below(S, R, y)) \in Int
  BY RankBounds
<1> QED  BY <1>4, <1>5

\* at lists the members of S in the order R.
Lists(at, S, R) ==
  /\ at \in [1..Cardinality(S) -> S]
  /\ \A j, k \in 1..Cardinality(S) : j < k => <<at[j], at[k]>> \in R
  /\ \A x \in S : \E k \in 1..Cardinality(S) : at[k] = x

\* The order of numbers, on K.
Increasing(K) == {p \in K \X K : p[1] < p[2]}

\* b holds the elements of s at the positions in K, in their order.
Picked(b, s, K) ==
  \E at : /\ Lists(at, K, Increasing(K))
         /\ b = [k \in 1..Cardinality(K) |-> s[at[k]]]

\* Pick(s, K) holds the elements of s at the positions in K, in their order.
LEMMA PickLists ==
  \A s, K :
    IsFiniteSet(K) /\ K \subseteq Int =>
      Cardinality(K) \in Nat /\ Picked(Pick(s, K), s, K)
\* Every rank is taken: a count that increases along n members and stays
\* below n misses no value.
<1>RankOnto.
      ASSUME NEW S, IsFiniteSet(S), NEW R, StrictOrder(S, R), NEW k \in 1..Cardinality(S)
      PROVE  \E x \in S : Cardinality(Below(S, R, x)) = k - 1
  <2> USE <1>RankOnto
  <2> DEFINE n == Cardinality(S)
             Places == 0..(n - 1)
             rank == [x \in S |-> Cardinality(Below(S, R, x))]
  <2>1. n \in Nat
    BY FS_CardinalityType
  <2>2. rank \in [S -> Places]
    BY RankBounds
  <2>3. \A x, y \in S : rank[x] = rank[y] => x = y
    <3> SUFFICES ASSUME NEW x \in S, NEW y \in S, x # y
                 PROVE  rank[x] # rank[y]
      OBVIOUS
    <3>1. <<x, y>> \in R \/ <<y, x>> \in R
      BY DEF StrictOrder
    <3>2. Cardinality(Below(S, R, x)) \in Int /\ Cardinality(Below(S, R, y)) \in Int
      BY RankBounds
    <3>3. CASE <<x, y>> \in R
      BY <3>2, <3>3, RankIncreases
    <3>4. CASE <<y, x>> \in R
      BY <3>2, <3>4, RankIncreases
    <3> QED  BY <3>1, <3>3, <3>4
  <2>5. k - 1 \in Places
    BY <2>1
  <2> HIDE DEF rank, n
  <2>4. IsFiniteSet(Places) /\ Cardinality(Places) = n
    BY <2>1, FS_Interval
  <2> HIDE DEF Places
  <2>6. rank \in Injection(S, Places)
    BY <2>2, <2>3 DEF Injection, IsInjective
  <2>7. rank \in Surjection(S, Places)
    BY <2>4, <2>6, FS_Injection DEF n
  <2>8. \E x \in S : rank[x] = k - 1
    BY <2>5, <2>7 DEF Surjection
  <2> QED  BY <2>8 DEF rank
\* Putting every member at its rank lists the set in order.
<1>RankedLists. ASSUME NEW S, IsFiniteSet(S), NEW R, StrictOrder(S, R),
                       NEW at, at = [k \in 1..Cardinality(S) |-> at[k]],
                       \A k \in 1..Cardinality(S) :
                         at[k] \in S /\ Cardinality(Below(S, R, at[k])) = k - 1
                PROVE  Cardinality(S) \in Nat /\ Lists(at, S, R)
  <2> USE <1>RankedLists
  <2>1. Cardinality(S) \in Nat
    BY FS_CardinalityType
  <2>2. \A k \in 1..Cardinality(S) : at[k] \in S /\ Cardinality(Below(S, R, at[k])) = k - 1
    OBVIOUS
  <2>3. at \in [1..Cardinality(S) -> S]
    BY <2>2
  <2>4. ASSUME NEW j \in 1..Cardinality(S), NEW k \in 1..Cardinality(S), j < k
        PROVE  <<at[j], at[k]>> \in R
    <3>1. at[j] # at[k]
      BY <2>1, <2>2, <2>4
    <3>2. CASE <<at[k], at[j]>> \in R
      <4>1. Cardinality(Below(S, R, at[k])) < Cardinality(Below(S, R, at[j]))
        BY <2>2, <3>2, RankIncreases
      <4> QED  BY <2>1, <2>2, <2>4, <4>1
    <3> QED  BY Zenon, <2>2, <3>1, <3>2 DEF StrictOrder
  <2>5. ASSUME NEW x \in S
        PROVE  \E k \in 1..Cardinality(S) : at[k] = x
    <3> DEFINE k == Cardinality(Below(S, R, x)) + 1
    <3>1. k \in 1..Cardinality(S) /\ Cardinality(Below(S, R, x)) = k - 1
      BY RankBounds
    <3> HIDE DEF k
    <3>2. Cardinality(Below(S, R, at[k])) = Cardinality(Below(S, R, x)) /\ at[k] \in S
      BY <2>2, <3>1
    <3>3. ~(Cardinality(Below(S, R, x)) < Cardinality(Below(S, R, x)))
      <4>1. Cardinality(Below(S, R, x)) \in Int
        BY RankBounds
      <4> QED  BY <4>1
    <3>4. ~(<<at[k], x>> \in R)
      BY Zenon, <3>2, <3>3, RankIncreases
    <3>5. ~(<<x, at[k]>> \in R)
      BY Zenon, <3>2, <3>3, RankIncreases
    <3>6. at[k] = x
      BY Zenon, <3>2, <3>4, <3>5 DEF StrictOrder
    <3> QED  BY <3>1, <3>6
  <2> QED  BY <2>1, <2>3, <2>4, <2>5 DEF Lists
<1> SUFFICES ASSUME NEW s, NEW K, IsFiniteSet(K), K \subseteq Int
             PROVE  Cardinality(K) \in Nat /\ Picked(Pick(s, K), s, K)
  BY Zenon
<1> DEFINE R == Increasing(K)
           Nth(k) == CHOOSE x \in K : Cardinality({y \in K : y < x}) = k - 1
           at == [k \in 1..Cardinality(K) |-> Nth(k)]
<1>1. StrictOrder(K, R)
  BY DEF Increasing, StrictOrder
<1>2. \A x \in K : {y \in K : y < x} = Below(K, R, x)
  BY DEF Increasing, Below
<1>3. ASSUME NEW k \in 1..Cardinality(K)
      PROVE  Nth(k) \in K /\ Cardinality(Below(K, R, Nth(k))) = k - 1
  <2>1. \E x \in K : Cardinality(Below(K, R, x)) = k - 1
    <3> HIDE DEF R
    <3> QED  BY Zenon, <1>1, <1>RankOnto
  <2>2. \E x \in K : Cardinality({y \in K : y < x}) = k - 1
    BY Zenon, <1>2, <2>1
  <2>3. Nth(k) \in K /\ Cardinality({y \in K : y < Nth(k)}) = k - 1
    BY Zenon, <2>2
  <2> HIDE DEF Nth, R
  <2> QED  BY Zenon, <2>3, <1>2
<1>4. Pick(s, K) = [k \in 1..Cardinality(K) |-> s[at[k]]]
  BY DEF Pick, Ranked
<1> HIDE DEF Nth, R
<1>5. at = [k \in 1..Cardinality(K) |-> at[k]]
  OBVIOUS
<1>6. \A k \in 1..Cardinality(K) : at[k] \in K /\ Cardinality(Below(K, R, at[k])) = k - 1
  BY Zenon, <1>3
<1> HIDE DEF at
<1>7. Cardinality(K) \in Nat /\ Lists(at, K, R)
  BY Zenon, <1>1, <1>5, <1>6, <1>RankedLists
<1> QED  BY Zenon, <1>4, <1>7 DEF R, Picked

-----------------------------------------------------------------------------
(* Elements picked from a sequence by their positions.                     *)

\* The positions of a sequence are a finite set.
LEMMA IntervalFacts ==
  ASSUME NEW n \in Nat
  PROVE  IsFiniteSet(1..n) /\ Cardinality(1..n) = n
  BY FS_Interval

\* at lists the positions K of a sequence in increasing order.
Positions(at, n, K) ==
  /\ n \in Nat /\ K \subseteq Int
  /\ at \in [1..n -> K]
  /\ \A j, k \in 1..n : j < k => at[j] < at[k]
  /\ \A x \in K : \E k \in 1..n : at[k] = x

\* The elements of s at the positions listed.
ElementsAt(s, at, n) == [k \in 1..n |-> s[at[k]]]

\* Pick picks them.
LEMMA PickIs ==
  \A s, at, n, K :
    Positions(at, n, K) =>
      Pick(s, K) = ElementsAt(s, at, n)
\* A list of a set gives every member its rank.
<1>ListsRank.
      ASSUME NEW S, IsFiniteSet(S), NEW R, StrictOrder(S, R), NEW at, Lists(at, S, R),
             NEW k \in 1..Cardinality(S)
      PROVE  Cardinality(Below(S, R, at[k])) = k - 1
  <2> USE <1>ListsRank
  <2> DEFINE n == Cardinality(S)
             B == Below(S, R, at[k])
             f == [j \in 1..(k - 1) |-> at[j]]
  <2>1. n \in Nat /\ k \in 1..n /\ k - 1 \in Nat
    BY FS_CardinalityType
  <2>2. /\ at \in [1..n -> S]
        /\ \A i, j \in 1..n : i < j => <<at[i], at[j]>> \in R
        /\ \A x \in S : \E j \in 1..n : at[j] = x
    BY DEF Lists
  <2>3. \A i, j \in 1..n : <<at[i], at[j]>> \in R => i < j
    <3> SUFFICES ASSUME NEW i \in 1..n, NEW j \in 1..n, <<at[i], at[j]>> \in R, ~(i < j)
                 PROVE  FALSE
      OBVIOUS
    <3>1. at[i] \in S /\ at[j] \in S
      BY <2>2
    <3>2. j < i \/ i = j
      BY <2>1
    <3>3. CASE j < i
      <4>1. <<at[j], at[i]>> \in R
        BY <2>2, <3>3
      <4> QED  BY Zenon, <3>1, <4>1 DEF StrictOrder
    <3>4. CASE i = j
      BY Zenon, <3>1, <3>4 DEF StrictOrder
    <3> QED  BY <3>2, <3>3, <3>4
  <2> HIDE DEF n
  <2>4. f \in [1..(k - 1) -> B]
    <3> SUFFICES ASSUME NEW j \in 1..(k - 1) PROVE at[j] \in B
      OBVIOUS
    <3>1. j \in 1..n /\ j < k
      BY <2>1
    <3> QED  BY <2>1, <2>2, <3>1 DEF Below
  <2>5. \A i, j \in 1..(k - 1) : f[i] = f[j] => i = j
    <3> SUFFICES ASSUME NEW i \in 1..(k - 1), NEW j \in 1..(k - 1), i # j PROVE at[i] # at[j]
      OBVIOUS
    <3>1. i \in 1..n /\ j \in 1..n /\ (i < j \/ j < i)
      BY <2>1
    <3>2. at[i] \in S /\ at[j] \in S
      BY <2>2, <3>1
    <3> QED  BY Zenon, <2>2, <3>1, <3>2 DEF StrictOrder
  <2>6. \A x \in B : \E j \in 1..(k - 1) : f[j] = x
    <3> SUFFICES ASSUME NEW x \in B PROVE \E j \in 1..(k - 1) : at[j] = x
      OBVIOUS
    <3>1. x \in S /\ <<x, at[k]>> \in R
      BY DEF Below
    <3>2. PICK j \in 1..n : at[j] = x
      BY <2>2, <3>1
    <3>3. j < k
      BY <2>1, <2>3, <3>1, <3>2
    <3>4. j \in 1..(k - 1)
      BY <2>1, <3>3
    <3> QED  BY <3>2, <3>4
  <2> HIDE DEF f, B
  <2>7. f \in Bijection(1..(k - 1), B)
    BY <2>4, <2>5, <2>6 DEF Bijection, Injection, Surjection, IsInjective
  <2>8. IsFiniteSet(1..(k - 1)) /\ Cardinality(1..(k - 1)) = k - 1
    BY <2>1, IntervalFacts
  <2>9. Cardinality(B) = Cardinality(1..(k - 1))
    <3>1. ExistsBijection(1..(k - 1), B)
      BY Zenon, <2>7 DEF ExistsBijection
    <3> QED  BY Zenon, <2>8, <3>1, FS_Bijection
  <2> QED  BY <2>8, <2>9 DEF B
\* There is one list.
<1>ListsUnique. ASSUME NEW S, IsFiniteSet(S), NEW R, StrictOrder(S, R),
                       NEW a, Lists(a, S, R), NEW b, Lists(b, S, R)
                PROVE  a = b
  <2> USE <1>ListsUnique
  <2> DEFINE D == 1..Cardinality(S)
  <2>0. a \in [D -> S] /\ b \in [D -> S]
    BY Zenon DEF Lists
  <2> SUFFICES ASSUME NEW k \in D PROVE a[k] = b[k]
    <3> HIDE DEF D
    <3> QED  BY SMT, <2>0
  <2>1. a[k] \in S /\ b[k] \in S
    BY <2>0
  <2>2. Cardinality(Below(S, R, a[k])) = k - 1 /\ Cardinality(Below(S, R, b[k])) = k - 1
    BY Zenon, <1>ListsRank
  <2>3. ~(k - 1 < k - 1)
    <3>1. k \in Int
      BY FS_CardinalityType
    <3> QED  BY <3>1
  <2>4. ~(<<a[k], b[k]>> \in R) /\ ~(<<b[k], a[k]>> \in R)
    <3>1. ASSUME <<a[k], b[k]>> \in R PROVE FALSE
      BY Zenon, <2>1, <2>2, <2>3, <3>1, RankIncreases
    <3>2. ASSUME <<b[k], a[k]>> \in R PROVE FALSE
      BY Zenon, <2>1, <2>2, <2>3, <3>2, RankIncreases
    <3> QED  BY Zenon, <3>1, <3>2
  <2> QED  BY Zenon, <2>1, <2>4 DEF StrictOrder
\* There are as many positions as the list is long.
<1>PositionsCount. ASSUME NEW at, NEW n, NEW K, Positions(at, n, K)
                   PROVE  IsFiniteSet(K) /\ Cardinality(K) = n
  <2> USE <1>PositionsCount
  <2>1. \A i, j \in 1..n : at[i] = at[j] => i = j
    <3> SUFFICES ASSUME NEW i \in 1..n, NEW j \in 1..n, i # j PROVE at[i] # at[j]
      OBVIOUS
    <3>1. at[i] \in Int /\ at[j] \in Int
      BY Zenon DEF Positions
    <3>2. i < j \/ j < i
      BY DEF Positions
    <3> QED  BY <3>1, <3>2 DEF Positions
  <2>2. at \in Bijection(1..n, K)
    BY <2>1 DEF Bijection, Injection, Surjection, IsInjective, Positions
  <2>3. IsFiniteSet(1..n) /\ Cardinality(1..n) = n
    BY IntervalFacts DEF Positions
  <2>4. ExistsBijection(1..n, K)
    BY Zenon, <2>2 DEF ExistsBijection
  <2> QED  BY Zenon, <2>3, <2>4, FS_Bijection
<1> SUFFICES ASSUME NEW s, NEW at, NEW n, NEW K, Positions(at, n, K)
             PROVE  Pick(s, K) = ElementsAt(s, at, n)
  OBVIOUS
<1> DEFINE R == Increasing(K)
<1>1. IsFiniteSet(K) /\ Cardinality(K) = n /\ K \subseteq Int
  BY Zenon, <1>PositionsCount DEF Positions
<1>2. StrictOrder(K, R)
  BY <1>1 DEF Increasing, StrictOrder
<1>3. Lists(at, K, R)
  BY <1>1 DEF Lists, Positions, Increasing
<1>4. Picked(Pick(s, K), s, K)
  BY Zenon, <1>1, PickLists
<1>5. PICK b : Lists(b, K, R) /\ Pick(s, K) = [k \in 1..n |-> s[b[k]]]
  BY Zenon, <1>1, <1>4 DEF Picked
<1> HIDE DEF R
<1>6. b = at
  BY Zenon, <1>1, <1>2, <1>3, <1>5, <1>ListsUnique
<1> QED  BY Zenon, <1>5, <1>6 DEF ElementsAt

\* Every finite set of positions has such a list.
LEMMA PositionsExist ==
  ASSUME NEW K, IsFiniteSet(K), K \subseteq Int
  PROVE  \E at : Positions(at, Cardinality(K), K)
<1> DEFINE R == Increasing(K)
<1>1. Cardinality(K) \in Nat /\ Picked(Pick(<<>>, K), <<>>, K)
  BY Zenon, PickLists
<1>2. PICK at : Lists(at, K, R)
  BY Zenon, <1>1 DEF Picked
<1>3. Positions(at, Cardinality(K), K)
  BY Zenon, <1>1, <1>2 DEF Lists, Increasing, Positions
<1> QED  BY Zenon, <1>3

-----------------------------------------------------------------------------
(* Sequences of anything.                                                  *)

\* s is a sequence, of whatever elements.
IsSeq(s) == s \in Seq(Range(s))

\* The length, the domain and the entries of a sequence.
LEMMA SeqShape ==
  ASSUME NEW s, IsSeq(s)
  PROVE  /\ Len(s) \in Nat /\ DOMAIN s = 1..Len(s) /\ IsFiniteSet(DOMAIN s)
         /\ DOMAIN s \subseteq Int
         /\ s = [k \in 1..Len(s) |-> s[k]]
<1>1. Len(s) \in Nat /\ DOMAIN s = 1..Len(s) /\ s = [k \in 1..Len(s) |-> s[k]]
  BY SMT, SeqFacts DEF IsSeq
<1>2. IsFiniteSet(1..Len(s)) /\ 1..Len(s) \subseteq Int
  BY <1>1, IntervalFacts
<1> QED  BY Zenon, <1>1, <1>2

\* A function on 1..n is a sequence of length n.
LEMMA SeqIntro ==
  ASSUME NEW n \in Nat, NEW s, s = [k \in 1..n |-> s[k]]
  PROVE  IsSeq(s) /\ Len(s) = n
<1>1. DOMAIN s = 1..n
  BY Zenon
<1>2. \A k \in 1..n : s[k] \in Range(s)
  BY Zenon, <1>1 DEF Range
<1>3. s \in [1..n -> Range(s)]
  BY Zenon, <1>2
<1> DEFINE S == Range(s)
<1>4. s \in [1..n -> S]
  BY <1>3
<1> HIDE DEF S
<1>5. s \in Seq(S) /\ Len(s) = n
  BY <1>4
<1> QED  BY <1>5 DEF IsSeq, S

\* Sequences with the same length and the same entries are the same.
LEMMA SeqSame ==
  ASSUME NEW s, NEW t, IsSeq(s), IsSeq(t), Len(s) = Len(t), \A k \in 1..Len(s) : s[k] = t[k]
  PROVE  s = t
<1>1. s = [k \in 1..Len(s) |-> s[k]] /\ t = [k \in 1..Len(t) |-> t[k]]
  BY Zenon, SeqShape
<1> QED  BY Zenon, <1>1

\* u is s followed by t.
Joins(u, s, t) ==
  /\ IsSeq(u) /\ Len(u) = Len(s) + Len(t)
  /\ DOMAIN u = 1..(Len(s) + Len(t))
  /\ \A k \in 1..Len(s) : u[k] = s[k]
  /\ \A k \in 1..Len(t) : u[Len(s) + k] = t[k]

\* Concatenation joins two sequences.
LEMMA ConcatFacts ==
  ASSUME NEW s, NEW t, IsSeq(s), IsSeq(t)
  PROVE  Joins(s \o t, s, t)
<1> DEFINE S == Range(s) \cup Range(t)
           u == s \o t
           n == Len(s)
           m == Len(t)
<1>1. n \in Nat /\ m \in Nat
  BY Zenon, SeqShape
<1>2. s \in Seq(S) /\ t \in Seq(S)
  <2>1. /\ Range(s) \subseteq S /\ Range(t) \subseteq S
        /\ s \in Seq(Range(s)) /\ t \in Seq(Range(t))
    BY DEF IsSeq
  <2> HIDE DEF S
  <2> QED  BY <2>1
<1> HIDE DEF S
<1>3. /\ u \in Seq(S) /\ Len(u) = n + m
      /\ \A k \in 1..(n + m) : u[k] = IF k <= n THEN s[k] ELSE t[k - n]
  BY Zenon, <1>2, JoinFacts
<1> HIDE DEF u
<1>4. DOMAIN u = 1..(n + m) /\ u = [k \in 1..(n + m) |-> u[k]]
  BY SMT, <1>3, SeqFacts
<1> HIDE DEF n, m
<1>5. IsSeq(u) /\ n + m \in Nat
  <2>1. n + m \in Nat
    BY <1>1
  <2> QED  BY Zenon, <1>4, <2>1, SeqIntro
<1>6. \A k \in 1..n : u[k] = s[k]
  BY <1>1, <1>3
<1>7. \A k \in 1..m : u[n + k] = t[k]
  <2> SUFFICES ASSUME NEW k \in 1..m PROVE u[n + k] = t[k]
    OBVIOUS
  <2>1. n + k \in 1..(n + m) /\ ~(n + k <= n) /\ (n + k) - n = k
    BY <1>1
  <2> QED  BY <1>3, <2>1
<1>8. Joins(u, s, t)
  BY Zenon, <1>3, <1>4, <1>5, <1>6, <1>7 DEF Joins, n, m
<1> QED  BY Zenon, <1>8 DEF u

\* The sequence of one element.
LEMMA SingleFacts ==
  ASSUME NEW x
  PROVE  IsSeq(<<x>>) /\ Len(<<x>>) = 1 /\ <<x>>[1] = x /\ DOMAIN <<x>> = 1..1
<1> DEFINE s == <<x>>
<1>1. s = [k \in 1..1 |-> s[k]] /\ s[1] = x
  OBVIOUS
<1> HIDE DEF s
<1>2. 1 \in Nat
  OBVIOUS
<1>3. IsSeq(s) /\ Len(s) = 1
  BY Zenon, <1>1, <1>2, SeqIntro
<1>4. DOMAIN s = 1..1
  BY Zenon, <1>1
<1> QED  BY Zenon, <1>1, <1>3, <1>4 DEF s

\* The sequence of none.
LEMMA EmptyFacts == IsSeq(<<>>) /\ Len(<<>>) = 0 /\ DOMAIN <<>> = {}
  BY DEF IsSeq

\* Joining nothing changes nothing.
LEMMA ConcatEmpty ==
  ASSUME NEW s, IsSeq(s)
  PROVE  s \o <<>> = s /\ <<>> \o s = s
  BY DEF IsSeq

\* Three sequences are joined from the left or from the right.
LEMMA ConcatRegroups ==
  ASSUME NEW s, NEW t, NEW u, IsSeq(s), IsSeq(t), IsSeq(u)
  PROVE  (s \o t) \o u = s \o (t \o u)
<1> DEFINE S == Range(s) \cup (Range(t) \cup Range(u))
<1>1. s \in Seq(S) /\ t \in Seq(S) /\ u \in Seq(S)
  <2>1. /\ Range(s) \subseteq S /\ Range(t) \subseteq S /\ Range(u) \subseteq S
        /\ s \in Seq(Range(s)) /\ t \in Seq(Range(t)) /\ u \in Seq(Range(u))
    BY DEF IsSeq
  <2> HIDE DEF S
  <2> QED  BY <2>1
<1> HIDE DEF S
<1> QED  BY SMT, <1>1

-----------------------------------------------------------------------------
(* Picking from a concatenation.                                           *)

\* Pick gives a sequence with one entry for each position.
LEMMA PickSeq ==
  ASSUME NEW s, NEW K, IsFiniteSet(K), K \subseteq Int
  PROVE  IsSeq(Pick(s, K)) /\ Len(Pick(s, K)) = Cardinality(K)
<1> DEFINE n == Cardinality(K)
           p == Pick(s, K)
<1>1. n \in Nat
  BY FS_CardinalityType
<1>2. PICK at : Positions(at, n, K)
  BY Zenon, PositionsExist
<1>3. p = ElementsAt(s, at, n)
  BY Zenon, <1>2, PickIs
<1> HIDE DEF p, n
<1>4. p = [k \in 1..n |-> p[k]]
  BY <1>3 DEF ElementsAt
<1>5. IsSeq(p) /\ Len(p) = n
  BY Zenon, <1>1, <1>4, SeqIntro
<1> QED  BY Zenon, <1>5 DEF p, n

\* The positions M of s followed by t: K in the first part, L in the second.
Spans(M, s, K, t, L) ==
  K \subseteq DOMAIN s /\ L \subseteq DOMAIN t /\ M = K \cup {Len(s) + l : l \in L}

\* Picking from both parts.
PicksBoth(M, s, K, t, L) == Pick(s \o t, M) = Pick(s, K) \o Pick(t, L)

\* The elements of s that are in Q, in order.
Chosen(s, Q) == Pick(s, {k \in DOMAIN s : s[k] \in Q})

\* Choosing from two sequences joined is choosing from each and joining.
ChosenSplit(s, t, Q) == Chosen(s \o t, Q) = Chosen(s, Q) \o Chosen(t, Q)

\* It is, for any set of elements.
LEMMA PickMembers ==
  \A s, t, Q :
    IsSeq(s) /\ IsSeq(t) =>
      ChosenSplit(s, t, Q)
\* Picking from two sequences joined is picking from each and joining.
<1>PickConcat.
      ASSUME NEW s, NEW t, IsSeq(s), IsSeq(t), NEW K, NEW L, NEW M, Spans(M, s, K, t, L)
      PROVE  PicksBoth(M, s, K, t, L)
  <2> USE <1>PickConcat
  <2> DEFINE n == Len(s)
             p == Cardinality(K)
             q == Cardinality(L)
             u == s \o t
  <2>1. /\ n \in Nat /\ K \subseteq 1..n /\ IsFiniteSet(K) /\ IsFiniteSet(L)
        /\ K \subseteq Int /\ L \subseteq 1..Len(t) /\ L \subseteq Int /\ Len(t) \in Nat
    <3>1. IsFiniteSet(DOMAIN s) /\ IsFiniteSet(DOMAIN t)
      BY Zenon, SeqShape
    <3>2. K \in SUBSET DOMAIN s /\ L \in SUBSET DOMAIN t
      BY DEF Spans
    <3>3. IsFiniteSet(K) /\ IsFiniteSet(L)
      BY Zenon, <3>1, <3>2, FS_Subset
    <3> QED  BY Zenon, <3>2, <3>3, SeqShape
  <2>2. p \in Nat /\ q \in Nat
    BY <2>1, FS_CardinalityType
  <2>3. PICK a : Positions(a, p, K)
    BY Zenon, <2>1, PositionsExist
  <2>4. PICK b : Positions(b, q, L)
    BY Zenon, <2>1, PositionsExist
  <2>5. Pick(s, K) = ElementsAt(s, a, p) /\ Pick(t, L) = ElementsAt(t, b, q)
    BY Zenon, <2>3, <2>4, PickIs
  <2>6. /\ \A k \in 1..n : u[k] = s[k]
        /\ \A k \in 1..Len(t) : u[n + k] = t[k]
    <3>1. Joins(s \o t, s, t)
      BY Zenon, ConcatFacts
    <3> QED  BY Zenon, <3>1 DEF Joins, n, u
  <2>7. /\ IsSeq(Pick(s, K)) /\ Len(Pick(s, K)) = p
        /\ IsSeq(Pick(t, L)) /\ Len(Pick(t, L)) = q
    BY Zenon, <2>1, PickSeq
  <2> HIDE DEF n, p, q, u
  <2> DEFINE c == [k \in 1..(p + q) |-> IF k <= p THEN a[k] ELSE n + b[k - p]]
  <2>8. /\ a \in [1..p -> K] /\ \A j, k \in 1..p : j < k => a[j] < a[k]
        /\ \A x \in K : \E k \in 1..p : a[k] = x
        /\ b \in [1..q -> L] /\ \A j, k \in 1..q : j < k => b[j] < b[k]
        /\ \A x \in L : \E k \in 1..q : b[k] = x
    BY Zenon, <2>3, <2>4 DEF Positions
  <2>9. ASSUME NEW k \in 1..(p + q)
        PROVE  \/ k \in 1..p /\ c[k] = a[k] /\ a[k] \in K
               \/ k - p \in 1..q /\ ~(k <= p) /\ c[k] = n + b[k - p] /\ b[k - p] \in L
    <3>1. CASE k <= p
      <4>1. k \in 1..p
        BY <2>2, <3>1
      <4> QED  BY <2>8, <3>1, <4>1
    <3>2. CASE ~(k <= p)
      <4>1. k - p \in 1..q
        BY <2>2, <3>2
      <4> QED  BY <2>8, <3>2, <4>1
    <3> QED  BY <3>1, <3>2
  <2>10. \A l \in L : n + l \in M
    BY DEF n, Spans
  <2>11. M \subseteq Int
    BY <2>1 DEF n, Spans
  <2>12. K \subseteq M
    BY DEF Spans
  <2>13. \A x \in M : x \in K \/ \E l \in L : x = n + l
    BY DEF n, Spans
  <2>14. Positions(c, p + q, M)
    <3>1. p + q \in Nat
      BY <2>2
    <3>2. c \in [1..(p + q) -> M]
      BY <2>9, <2>10, <2>12
    <3>3. ASSUME NEW j \in 1..(p + q), NEW k \in 1..(p + q), j < k
          PROVE  c[j] < c[k]
      <4>1. CASE j \in 1..p /\ k \in 1..p
        BY <2>2, <2>8, <2>9, <3>3, <4>1
      <4>2. CASE j \in 1..p /\ k \notin 1..p
        <5>1. c[j] = a[j] /\ a[j] \in 1..n
          <6>1. j <= p /\ a[j] \in K
            BY <2>2, <2>8, <4>2
          <6> QED  BY Zenon, <2>1, <6>1
        <5>2. c[k] = n + b[k - p] /\ b[k - p] \in 1..Len(t)
          BY Zenon, <2>1, <2>2, <2>9, <4>2
        <5> QED  BY <2>1, <5>1, <5>2
      <4>3. CASE j \notin 1..p /\ k \notin 1..p
        <5>1. /\ c[j] = n + b[j - p] /\ b[j - p] \in 1..Len(t) /\ j - p \in 1..q
              /\ c[k] = n + b[k - p] /\ b[k - p] \in 1..Len(t) /\ k - p \in 1..q
          BY Zenon, <2>1, <2>2, <2>9, <4>3
        <5>2. j - p < k - p
          BY <2>2, <3>3
        <5>3. b[j - p] < b[k - p]
          BY <2>8, <5>1, <5>2
        <5> QED  BY <2>1, <5>1, <5>3
      <4>4. CASE j \notin 1..p /\ k \in 1..p
        BY <2>2, <3>3, <4>4
      <4> QED  BY <4>1, <4>2, <4>3, <4>4
    <3>4. ASSUME NEW x \in M PROVE \E k \in 1..(p + q) : c[k] = x
      <4>1. CASE x \in K
        <5>1. PICK k \in 1..p : a[k] = x
          BY <2>8, <4>1
        <5>2. k \in 1..(p + q) /\ k <= p
          BY <2>2
        <5> QED  BY <5>1, <5>2
      <4>2. CASE x \notin K
        <5>1. PICK l \in L : x = n + l
          BY <2>13, <4>2
        <5>2. PICK k \in 1..q : b[k] = l
          BY <2>8
        <5>3. p + k \in 1..(p + q) /\ ~(p + k <= p) /\ (p + k) - p = k
          BY <2>2
        <5>4. c[p + k] = x
          BY <5>1, <5>2, <5>3
        <5> QED  BY <5>3, <5>4
      <4> QED  BY <4>1, <4>2
    <3> HIDE DEF c
    <3> QED  BY <2>11, <3>1, <3>2, <3>3, <3>4 DEF Positions
  <2>15. Pick(u, M) = ElementsAt(u, c, p + q)
    <3> HIDE DEF c
    <3> QED  BY Zenon, <2>14, PickIs
  <2> DEFINE v == Pick(u, M)
             w == Pick(s, K) \o Pick(t, L)
  <2>16. /\ IsSeq(w) /\ Len(w) = p + q
         /\ \A k \in 1..p : w[k] = Pick(s, K)[k]
         /\ \A k \in 1..q : w[p + k] = Pick(t, L)[k]
    <3>1. Joins(w, Pick(s, K), Pick(t, L))
      BY Zenon, <2>7, ConcatFacts
    <3> HIDE DEF w
    <3> QED  BY Zenon, <2>7, <3>1 DEF Joins
  <2>17. IsSeq(v) /\ Len(v) = p + q
    <3>1. v = [k \in 1..(p + q) |-> v[k]]
      <4> DEFINE N == 1..(p + q)
      <4>1. v = [k \in N |-> u[c[k]]]
        BY Zenon, <2>15 DEF ElementsAt
      <4> HIDE DEF v, c, N
      <4>2. v = [k \in N |-> v[k]]
        BY SMT, <4>1
      <4> QED  BY Zenon, <4>2 DEF N
    <3>2. p + q \in Nat
      BY <2>2
    <3> HIDE DEF v
    <3> QED  BY Zenon, <3>1, <3>2, SeqIntro
  <2>18. ASSUME NEW k \in 1..(p + q) PROVE v[k] = w[k]
    <3>1. v[k] = u[c[k]]
      <4> HIDE DEF c
      <4> QED  BY <2>15 DEF ElementsAt
    <3>2. CASE k \in 1..p
      <4>1. c[k] = a[k] /\ a[k] \in 1..n
        <5>1. k <= p /\ a[k] \in K
          BY <2>2, <2>8, <3>2
        <5> QED  BY Zenon, <2>1, <5>1
      <4>2. u[a[k]] = s[a[k]] /\ Pick(s, K)[k] = s[a[k]]
        BY <2>5, <2>6, <3>2, <4>1 DEF ElementsAt
      <4> QED  BY <2>16, <3>1, <3>2, <4>1, <4>2
    <3>3. CASE k \notin 1..p
      <4>1. c[k] = n + b[k - p] /\ b[k - p] \in 1..Len(t) /\ k - p \in 1..q
        BY Zenon, <2>1, <2>9, <2>2, <3>3
      <4>2. u[n + b[k - p]] = t[b[k - p]] /\ Pick(t, L)[k - p] = t[b[k - p]]
        BY Zenon, <2>5, <2>6, <4>1 DEF ElementsAt
      <4>3. p + (k - p) = k
        BY <2>2
      <4>4. w[k] = Pick(t, L)[k - p]
        BY <2>16, <4>1, <4>3
      <4> QED  BY <3>1, <4>1, <4>2, <4>4
    <3> QED  BY Zenon, <3>2, <3>3
  <2> HIDE DEF v, w
  <2>19. v = w
    BY Zenon, <2>16, <2>17, <2>18, SeqSame
  <2> QED  BY Zenon, <2>19 DEF v, w, u, PicksBoth
<1> SUFFICES ASSUME NEW s, NEW t, IsSeq(s), IsSeq(t), NEW Q
             PROVE  ChosenSplit(s, t, Q)
  OBVIOUS
<1> DEFINE u == s \o t
           K == {k \in DOMAIN s : s[k] \in Q}
           L == {k \in DOMAIN t : t[k] \in Q}
           M == {k \in DOMAIN u : u[k] \in Q}
<1>1. /\ Len(s) \in Nat /\ Len(t) \in Nat /\ DOMAIN s = 1..Len(s) /\ DOMAIN t = 1..Len(t)
  BY Zenon, SeqShape
<1>2. /\ DOMAIN u = 1..(Len(s) + Len(t))
      /\ \A k \in 1..Len(s) : u[k] = s[k]
      /\ \A k \in 1..Len(t) : u[Len(s) + k] = t[k]
  <2>1. Joins(u, s, t)
    BY Zenon, ConcatFacts
  <2> QED  BY Zenon, <2>1 DEF Joins
<1> HIDE DEF u
<1>3. \A x \in M : x \in K \/ \E l \in L : x = Len(s) + l
  <2> SUFFICES ASSUME NEW x \in M, x \notin 1..Len(s) PROVE \E l \in L : x = Len(s) + l
    BY <1>1, <1>2
  <2>1. x - Len(s) \in 1..Len(t) /\ x = Len(s) + (x - Len(s))
    BY <1>1, <1>2
  <2> QED  BY <1>1, <1>2, <2>1
<1>4. \A k \in K : k \in M
  BY <1>1, <1>2
<1>5. \A l \in L : Len(s) + l \in M
  <2> SUFFICES ASSUME NEW l \in L PROVE Len(s) + l \in M
    OBVIOUS
  <2>1. Len(s) + l \in 1..(Len(s) + Len(t)) /\ u[Len(s) + l] = t[l]
    BY <1>1, <1>2
  <2> QED  BY <1>2, <2>1
<1>6. K \in SUBSET DOMAIN s /\ L \in SUBSET DOMAIN t
  OBVIOUS
<1> HIDE DEF K, L, M
<1>7. Spans(M, s, K, t, L)
  BY <1>3, <1>4, <1>5, <1>6 DEF Spans
<1>8. PicksBoth(M, s, K, t, L)
  BY Zenon, <1>7, <1>PickConcat
<1>9. Chosen(u, Q) = Pick(u, M) /\ Chosen(s, Q) = Pick(s, K) /\ Chosen(t, Q) = Pick(t, L)
  BY Zenon DEF Chosen, K, L, M
<1> QED  BY Zenon, <1>8, <1>9 DEF ChosenSplit, PicksBoth, u

-----------------------------------------------------------------------------
(* Sums over sequences.                                                    *)

\* One more summand.
LEMMA SumNext ==
  ASSUME NEW f, NEW n \in Nat, Measures(f, 1..(n + 1))
  PROVE  /\ SumFunctionOnSet(f, 1..(n + 1)) = SumFunctionOnSet(f, 1..n) + f[n + 1]
         /\ SumFunctionOnSet(f, 1..n) \in Int
<1> DEFINE S == 1..(n + 1)
           y == n + 1
           T == S \ {y}
<1>1. IsFiniteSet(S)
  <2>1. n + 1 \in Nat
    OBVIOUS
  <2> QED  BY <2>1, IntervalFacts
<1>2. y \in S /\ T = 1..n /\ Measures(f, S) /\ T \in SUBSET S
  BY DEF Measures
<1> HIDE DEF S, y
<1>3. SumFunctionOnSet(f, S) = f[y] + SumFunctionOnSet(f, T)
  BY SMTT(30), <1>1, <1>2, SumRemove
<1>4. IsFiniteSet(T) /\ Measures(f, T)
  BY <1>1, <1>2, FS_Subset DEF Measures
<1> HIDE DEF T
<1>5. SumFunctionOnSet(f, T) \in Int /\ f[y] \in Int
  BY <1>2, <1>4, SumType DEF Measures
<1>6. SumFunctionOnSet(f, S) = SumFunctionOnSet(f, T) + f[y]
  BY <1>3, <1>5
<1> QED  BY Zenon, <1>2, <1>5, <1>6 DEF S, y

\* The sum over two sequences joined is the sum of their sums.
LEMMA SumConcat ==
  ASSUME NEW n \in Nat, NEW m \in Nat, NEW f, NEW g, NEW h,
         Measures(h, 1..(n + m)),
         \A k \in 1..n : h[k] = f[k], \A k \in 1..m : h[n + k] = g[k]
  PROVE  SumFunctionOnSet(h, 1..(n + m)) =
           SumFunctionOnSet(f, 1..n) + SumFunctionOnSet(g, 1..m)
<1> DEFINE P == {j \in Nat : j <= m => SumFunctionOnSet(h, 1..(n + j)) =
                              SumFunctionOnSet(h, 1..n) + SumFunctionOnSet(g, 1..j)}
<1>1. Measures(h, 1..n) /\ Measures(g, 1..m) /\ IsFiniteSet(1..n)
  BY IntervalFacts DEF Measures
<1>2. SumFunctionOnSet(h, 1..n) \in Int
  BY <1>1, SumType
<1>3. 0 \in P
  <2>1. 1..0 = {} /\ n + 0 = n
    OBVIOUS
  <2>2. SumFunctionOnSet(g, 1..0) = 0
    BY Zenon, <2>1, SumEmpty
  <2> QED  BY <1>2, <2>1, <2>2
<1>4. ASSUME NEW j \in Nat, j \in P PROVE j + 1 \in P
  <2> SUFFICES ASSUME j + 1 <= m
               PROVE  SumFunctionOnSet(h, 1..(n + (j + 1))) =
                        SumFunctionOnSet(h, 1..n) + SumFunctionOnSet(g, 1..(j + 1))
    OBVIOUS
  <2>1. SumFunctionOnSet(h, 1..(n + j)) = SumFunctionOnSet(h, 1..n) + SumFunctionOnSet(g, 1..j)
    BY <1>4
  <2>2. /\ n + j \in Nat /\ n + (j + 1) = (n + j) + 1 /\ j + 1 \in 1..m
        /\ 1..((n + j) + 1) \subseteq 1..(n + m) /\ 1..(j + 1) \subseteq 1..m
    OBVIOUS
  <2>3. Measures(h, 1..((n + j) + 1)) /\ Measures(g, 1..(j + 1))
    BY Zenon, <1>1, <2>2 DEF Measures
  <2>4. SumFunctionOnSet(h, 1..((n + j) + 1)) = SumFunctionOnSet(h, 1..(n + j)) + h[(n + j) + 1]
    BY Zenon, <2>2, <2>3, SumNext
  <2>5. /\ SumFunctionOnSet(g, 1..(j + 1)) = SumFunctionOnSet(g, 1..j) + g[j + 1]
        /\ SumFunctionOnSet(g, 1..j) \in Int
    BY Zenon, <2>3, SumNext
  <2>6. h[(n + j) + 1] = g[j + 1] /\ g[j + 1] \in Int
    BY <1>1, <2>2 DEF Measures
  <2> QED  BY <1>2, <2>1, <2>2, <2>4, <2>5, <2>6
<1> HIDE DEF P
<1>5. m \in P
  BY SMTT(30), <1>3, <1>4, NatSetInduction
<1>6. SumFunctionOnSet(h, 1..(n + m)) = SumFunctionOnSet(h, 1..n) + SumFunctionOnSet(g, 1..m)
  BY <1>5 DEF P
<1>7. SumFunctionOnSet(h, 1..n) = SumFunctionOnSet(f, 1..n)
  BY Zenon, <1>1, SumEqual
<1> QED  BY Zenon, <1>6, <1>7

\* The sum of n equal terms.
LEMMA SumConstant ==
  ASSUME NEW n \in Nat, NEW x \in Int, NEW f, \A k \in 1..n : f[k] = x
  PROVE  SumFunctionOnSet(f, 1..n) = n * x
<1> DEFINE P == {j \in Nat : j <= n => SumFunctionOnSet(f, 1..j) = j * x}
<1>1. Measures(f, 1..n)
  BY DEF Measures
<1>2. 0 \in P
  <2>1. 1..0 = {} /\ 0 * x = 0
    OBVIOUS
  <2>2. SumFunctionOnSet(f, 1..0) = 0
    BY Zenon, <2>1, SumEmpty
  <2> QED  BY <2>1, <2>2
<1>3. ASSUME NEW j \in Nat, j \in P PROVE j + 1 \in P
  <2> SUFFICES ASSUME j + 1 <= n
               PROVE  SumFunctionOnSet(f, 1..(j + 1)) = (j + 1) * x
    OBVIOUS
  <2>1. SumFunctionOnSet(f, 1..j) = j * x
    BY <1>3
  <2>2. j + 1 \in 1..n /\ 1..(j + 1) \subseteq 1..n
    OBVIOUS
  <2>3. Measures(f, 1..(j + 1))
    BY Zenon, <1>1, <2>2 DEF Measures
  <2>4. SumFunctionOnSet(f, 1..(j + 1)) = SumFunctionOnSet(f, 1..j) + f[j + 1]
    BY Zenon, <2>3, SumNext
  <2>5. (j + 1) * x = j * x + x
    OBVIOUS
  <2> QED  BY <2>1, <2>2, <2>4, <2>5
<1> HIDE DEF P
<1>4. n \in P
  BY SMTT(30), <1>2, <1>3, NatSetInduction
<1> QED  BY <1>4 DEF P

-----------------------------------------------------------------------------
(* All or nothing picked; sequences transformed element by element.        *)

\* No positions, no elements.
LEMMA PickNone ==
  ASSUME NEW s
  PROVE  Pick(s, {}) = <<>>
<1> DEFINE p == Pick(s, {})
<1>1. IsFiniteSet({}) /\ Cardinality({}) = 0
  BY FS_EmptySet
<1>2. {} \subseteq Int
  OBVIOUS
<1>3. IsSeq(p) /\ Len(p) = 0
  BY Zenon, <1>1, <1>2, PickSeq
<1> HIDE DEF p
<1>4. p = <<>>
  BY SMT, <1>3 DEF IsSeq
<1> QED  BY <1>4 DEF p

\* All positions, the whole sequence.
LEMMA PickAll ==
  ASSUME NEW s, IsSeq(s)
  PROVE  Pick(s, DOMAIN s) = s
<1> DEFINE n == Len(s)
           at == [k \in 1..n |-> k]
<1>1. n \in Nat /\ DOMAIN s = 1..n /\ s = [k \in 1..n |-> s[k]]
  BY Zenon, SeqShape
<1> HIDE DEF n
<1>2. Positions(at, n, 1..n)
  BY <1>1 DEF Positions
<1>3. \A k \in 1..n : at[k] = k
  OBVIOUS
<1> HIDE DEF at
<1>4. Pick(s, 1..n) = ElementsAt(s, at, n)
  BY Zenon, <1>2, PickIs
<1>5. ElementsAt(s, at, n) = s
  BY SMT, <1>1, <1>3 DEF ElementsAt
<1> QED  BY Zenon, <1>1, <1>4, <1>5

-----------------------------------------------------------------------------
(* Matching: the orders that trade, and what they receive.                 *)

\* The orders a book can hold, with identifiers in I.
Orders(I) == [id : I, side : Sides, price : Int, qty : Nat]

\* The fields of the orders of a book.
LEMMA BookFacts ==
  ASSUME NEW I, NEW book \in Seq(Orders(I))
  PROVE  /\ Len(book) \in Nat /\ DOMAIN book = 1..Len(book) /\ IsFiniteSet(DOMAIN book)
         /\ \A i \in DOMAIN book : /\ book[i] \in Orders(I)
                                  /\ book[i].id \in I /\ book[i].side \in Sides
                                  /\ book[i].price \in Int /\ book[i].qty \in Nat
<1>1. Len(book) \in Nat /\ DOMAIN book = 1..Len(book) /\ \A i \in DOMAIN book : book[i] \in Orders(I)
  BY SMT, SeqFacts
<1>2. IsFiniteSet(DOMAIN book)
  BY <1>1, FS_Interval
<1> QED  BY <1>1, <1>2 DEF Orders

\* Price-time priority among the orders at the positions in S.
Priority(book, S) == {p \in S \X S : Precedes(book, p[1], p[2])}

\* The makers of an incoming order are orders of the other side, strictly
\* ordered by priority.
LEMMA MakersFacts ==
  \A I : \A book \in Seq(Orders(I)), side \in Sides : \A market, limit :
    LET makers == Makers(book, side, market, limit)
    IN  /\ makers \in SUBSET DOMAIN book /\ IsFiniteSet(makers)
        /\ \A i \in makers : book[i].side = Opposite(side)
        /\ StrictOrder(makers, Priority(book, makers))
\* Orders of one side are strictly ordered by price and arrival.
<1>PriorityStrict.
      ASSUME NEW I, NEW book \in Seq(Orders(I)), NEW S \in SUBSET DOMAIN book, NEW side \in Sides,
             \A i \in S : book[i].side = side
      PROVE  StrictOrder(S, Priority(book, S))
  <2> USE <1>PriorityStrict
  <2>1. S \subseteq Int
    BY BookFacts
  <2>2. \A i \in S : book[i].price \in Int /\ book[i].side = side
    BY BookFacts
  <2>3. \A i, j \in S : <<i, j>> \in Priority(book, S) <=> Precedes(book, i, j)
    BY DEF Priority
  <2>4. \A i, j \in S : Precedes(book, i, j) <=>
                          \/ Better(side, book[i].price, book[j].price)
                          \/ book[i].price = book[j].price /\ i < j
    BY <2>2 DEF Precedes
  <2>5. \A i \in S : ~Precedes(book, i, i)
    BY <2>1, <2>2, <2>4 DEF Better
  <2>6. \A i, j, k \in S : Precedes(book, i, j) /\ Precedes(book, j, k) => Precedes(book, i, k)
    BY <2>1, <2>2, <2>4 DEF Better
  <2>7. \A i, j \in S : i # j => Precedes(book, i, j) \/ Precedes(book, j, i)
    BY <2>1, <2>2, <2>4 DEF Better
  <2> QED  BY Zenon, <2>3, <2>5, <2>6, <2>7 DEF StrictOrder
<1> TAKE I
<1> TAKE book \in Seq(Orders(I)), side \in Sides
<1> TAKE market, limit
<1> DEFINE makers == Makers(book, side, market, limit)
<1>1. makers \in SUBSET DOMAIN book /\ \A i \in makers : book[i].side = Opposite(side)
  BY DEF Makers
<1> HIDE DEF makers
<1>2. IsFiniteSet(makers)
  BY <1>1, BookFacts, FS_Subset
<1>3. Opposite(side) \in Sides
  BY DEF Opposite, Sides
<1>4. StrictOrder(makers, Priority(book, makers))
  BY <1>1, <1>3, <1>PriorityStrict
<1> QED  BY <1>1, <1>2, <1>4 DEF makers

\* What the orders rest, and what lies ahead of maker i.
Quantities(book) == [i \in DOMAIN book |-> book[i].qty]
Ahead(book, makers, i) ==
  SumFunctionOnSet(Quantities(book), Below(makers, Priority(book, makers), i))

\* What lies ahead of a maker is a quantity.
LEMMA AheadType ==
  ASSUME NEW I, NEW book \in Seq(Orders(I)), NEW makers \in SUBSET DOMAIN book, NEW i
  PROVE  Ahead(book, makers, i) \in Nat
<1> DEFINE S == Below(makers, Priority(book, makers), i)
           qty == Quantities(book)
<1>1. S \in SUBSET DOMAIN book
  BY DEF Below
<1>2. \A x \in DOMAIN book : qty[x] \in Nat
  BY BookFacts DEF Quantities
<1>3. IsFiniteSet(DOMAIN book)
  BY BookFacts
<1> HIDE DEF S, qty
<1>4. SumFunctionOnSet(qty, S) \in Nat
  BY Zenon, <1>1, <1>2, <1>3, SumMonotone
<1> QED  BY <1>4 DEF Ahead, S, qty

\* The share of each order of the book, by what lies ahead of it.
LEMMA SharesUnfold ==
  ASSUME NEW I, NEW book \in Seq(Orders(I)), NEW makers \in SUBSET DOMAIN book, NEW quantity,
         NEW share, share = Shares(book, makers, quantity)
  PROVE  /\ DOMAIN share = DOMAIN book /\ share = [i \in DOMAIN book |-> share[i]]
         /\ \A i \in DOMAIN book :
              share[i] = IF i \in makers THEN Share(book, quantity, i, Ahead(book, makers, i))
                                         ELSE 0
<1>1. ASSUME NEW i \in makers
      PROVE  {j \in makers : Precedes(book, j, i)} = Below(makers, Priority(book, makers), i)
  BY DEF Below, Priority
<1> DEFINE A(i) == SumFunctionOnSet(Quantities(book), {j \in makers : Precedes(book, j, i)})
<1>2. share = [i \in DOMAIN book |-> IF i \in makers THEN Share(book, quantity, i, A(i)) ELSE 0]
  BY Zenon DEF Shares, Quantities
<1>3. \A i \in makers : A(i) = Ahead(book, makers, i)
  BY Zenon, <1>1 DEF Ahead
<1> HIDE DEF A
<1>4. DOMAIN share = DOMAIN book /\ share = [i \in DOMAIN book |-> share[i]]
  BY <1>2
<1>5. \A i \in DOMAIN book : share[i] = IF i \in makers THEN Share(book, quantity, i, A(i)) ELSE 0
  BY <1>2
<1> QED  BY Zenon, <1>3, <1>4, <1>5

\* A maker receives at most what it rests, and only makers receive anything.
LEMMA ShareBounds ==
  ASSUME NEW I, NEW book \in Seq(Orders(I)), NEW makers \in SUBSET DOMAIN book,
         NEW quantity \in Nat, NEW share, share = Shares(book, makers, quantity)
  PROVE  /\ share \in [DOMAIN book -> Nat]
         /\ \A i \in DOMAIN book : share[i] <= book[i].qty
         /\ \A i \in DOMAIN book : i \notin makers => share[i] = 0
<1>1. /\ DOMAIN share = DOMAIN book /\ share = [i \in DOMAIN book |-> share[i]]
      /\ \A i \in DOMAIN book :
           share[i] = IF i \in makers THEN Share(book, quantity, i, Ahead(book, makers, i))
                                      ELSE 0
  BY SharesUnfold
<1>2. \A i \in DOMAIN book : book[i].qty \in Nat /\ Ahead(book, makers, i) \in Nat
  BY BookFacts, AheadType
<1>3. ASSUME NEW i \in DOMAIN book
      PROVE  share[i] \in Nat /\ share[i] <= book[i].qty /\ (i \notin makers => share[i] = 0)
  BY <1>1, <1>2 DEF Share, Least
<1> QED  BY <1>1, <1>3

\* As long as something of the incoming order is left, every maker has been filled.
LEMMA RemainderMeansFilled ==
  ASSUME NEW I, NEW book \in Seq(Orders(I)), NEW makers \in SUBSET DOMAIN book,
         StrictOrder(makers, Priority(book, makers)),
         NEW quantity \in Nat, NEW share, share = Shares(book, makers, quantity),
         NEW m \in makers, share[m] # book[m].qty
  PROVE  SumFunction(share) >= quantity
<1> DEFINE R == Priority(book, makers)
           B(i) == Below(makers, R, i)
           Bad == {i \in makers : share[i] # book[i].qty}
           Q == {B(i) : i \in Bad}
           qty == Quantities(book)
<1>1. IsFiniteSet(DOMAIN book) /\ IsFiniteSet(makers)
  BY BookFacts, FS_Subset
<1>2. PICK i \in Bad : \A j \in Bad : B(j) \subseteq B(i) => B(j) = B(i)
  <2>1. Q \subseteq SUBSET makers /\ Q # {}
    BY Zenon DEF Below
  <2> HIDE DEF Q
  <2>2. PICK T \in Q : \A U \in Q : U \subseteq T => U = T
    BY SMTT(30), <1>1, <2>1, MinimalSubset
  <2> HIDE DEF B, Bad
  <2>3. PICK i \in Bad : T = B(i)
    BY Zenon, <2>2 DEF Q
  <2>4. \A j \in Bad : B(j) \in Q
    BY Zenon DEF Q
  <2>5. \A j \in Bad : B(j) \subseteq B(i) => B(j) = B(i)
    BY Zenon, <2>2, <2>3, <2>4
  <2> QED  BY Zenon, <2>5
<1>3. \A j \in B(i) : j \in makers /\ <<j, i>> \in R
  BY DEF Below
<1>4. ASSUME NEW j \in B(i) PROVE share[j] = book[j].qty
  <2>1. B(j) \subseteq B(i) /\ j \notin B(j)
    BY <1>2, <1>3 DEF Below, StrictOrder
  <2>2. j \notin Bad
    BY Zenon, <1>2, <2>1
  <2> QED  BY Zenon, <1>3, <2>2
<1>5. /\ B(i) \in SUBSET DOMAIN book /\ i \in DOMAIN book /\ i \notin B(i)
      /\ B(i) \cup {i} \in SUBSET DOMAIN book /\ (B(i) \cup {i}) \ {i} = B(i)
  BY ZenonT(60), <1>2, <1>3 DEF StrictOrder
<1> DEFINE S == B(i)
           Si == B(i) \cup {i}
<1>6. /\ \A x \in DOMAIN book : share[x] \in Nat /\ qty[x] = book[x].qty /\ qty[x] \in Nat
      /\ DOMAIN share = DOMAIN book
      /\ share[i] = Share(book, quantity, i, Ahead(book, makers, i))
  BY <1>2, ShareBounds, SharesUnfold, BookFacts DEF Quantities
<1>7. /\ \A x \in S : share[x] = qty[x] /\ S \in SUBSET DOMAIN book
      /\ Si \in SUBSET DOMAIN book /\ i \in Si /\ Si \ {i} = S
  BY <1>4, <1>5, <1>6
<1>8. Ahead(book, makers, i) = SumFunctionOnSet(qty, S)
  BY Zenon DEF Ahead
<1>9. SumFunction(share) = SumFunctionOnSet(share, DOMAIN book)
  BY Zenon, <1>6 DEF SumFunction
<1>10. share[i] # book[i].qty /\ book[i].qty \in Nat
  BY <1>2, BookFacts
<1> HIDE DEF Q, Bad, S, Si, R, qty
<1>11. SumFunctionOnSet(share, S) = Ahead(book, makers, i)
  <2>1. IsFiniteSet(S) /\ Measures(qty, S) /\ Measures(share, S)
    BY <1>1, <1>6, <1>7, FS_Subset DEF Measures
  <2> QED  BY <1>7, <1>8, <2>1, SumEqual
<1>12. SumFunctionOnSet(share, Si) = share[i] + SumFunctionOnSet(share, S)
  <2>1. IsFiniteSet(Si) /\ Measures(share, Si)
    BY <1>1, <1>6, <1>7, FS_Subset DEF Measures
  <2> QED  BY <1>7, <2>1, SumRemove
<1>13. /\ SumFunctionOnSet(share, Si) <= SumFunctionOnSet(share, DOMAIN book)
       /\ SumFunctionOnSet(share, DOMAIN book) \in Nat
  BY Zenon, <1>1, <1>6, <1>7, SumMonotone
<1>14. Ahead(book, makers, i) \in Nat
  BY AheadType
<1> QED  BY <1>6, <1>9, <1>10, <1>11, <1>12, <1>13, <1>14 DEF Share, Least

-----------------------------------------------------------------------------
(* Books with orders taken away or reduced.                                *)

\* Order p is order o with some of its quantity gone.
Remains(p, o) ==
  /\ p.id = o.id /\ p.side = o.side /\ p.price = o.price
  /\ 0 < p.qty /\ p.qty <= o.qty

\* Book b is book a after cancels, fills and reductions: the orders left are orders
\* of a, in the same order.
Reduced(b, a) ==
  \E at \in [DOMAIN b -> DOMAIN a] :
    /\ \A j, k \in DOMAIN b : j < k => at[j] < at[k]
    /\ \A k \in DOMAIN b : Remains(b[k], a[at[k]])

\* Taking less than all from an order leaves an order with something to
\* trade.
LEMMA OrderReduced ==
  ASSUME NEW I, NEW o \in Orders(I), NEW q \in Nat, q < o.qty
  PROVE  /\ [o EXCEPT !.qty = @ - q] \in Orders(I)
         /\ Remains([o EXCEPT !.qty = @ - q], o)
<1> DEFINE p == [o EXCEPT !.qty = @ - q]
<1>1. /\ o.id \in I /\ o.side \in Sides /\ o.price \in Int /\ o.qty \in Nat
      /\ o = [id |-> o.id, side |-> o.side, price |-> o.price, qty |-> o.qty]
  BY DEF Orders
<1>2. p = [id |-> o.id, side |-> o.side, price |-> o.price, qty |-> o.qty - q]
  BY <1>1
<1>3. o.qty - q \in Nat /\ 0 < o.qty - q /\ o.qty - q <= o.qty
  BY <1>1
<1> HIDE DEF p
<1>4. p \in Orders(I)
  BY <1>1, <1>2, <1>3 DEF Orders
<1>5. Remains(p, o)
  BY <1>2, <1>3 DEF Remains
<1> QED  BY <1>4, <1>5 DEF p

\* What is left of the orders of the book at the positions in K.
Leaves(I, book, left, K) ==
  \A i \in K : left[i] \in Orders(I) /\ Remains(left[i], book[i])

\* Keeping some orders, in their order and with something left of each,
\* reduces the book.
LEMMA PickReduced ==
  ASSUME NEW I, NEW book \in Seq(Orders(I)), NEW K \in SUBSET DOMAIN book, NEW left,
         Leaves(I, book, left, K)
  PROVE  /\ Pick(left, K) \in Seq(Orders(I))
         /\ Reduced(Pick(left, K), book)
         /\ \A k \in DOMAIN Pick(left, K) : \E i \in K : Pick(left, K)[k] = left[i]
<1> DEFINE b == Pick(left, K)
           n == Cardinality(K)
<1>1. K \subseteq Int /\ IsFiniteSet(K)
  BY BookFacts, FS_Subset
<1>2. n \in Nat /\ Picked(b, left, K)
  BY Zenon, <1>1, PickLists
<1>3. PICK at : Lists(at, K, Increasing(K)) /\ b = [k \in 1..n |-> left[at[k]]]
  BY Zenon, <1>2 DEF Picked
<1>4. /\ at \in [1..n -> K]
      /\ \A j, k \in 1..n : j < k => at[j] < at[k]
  BY Zenon, <1>3 DEF Lists, Increasing
<1> HIDE DEF b, n
<1>5. DOMAIN b = 1..n /\ \A k \in 1..n : b[k] = left[at[k]] /\ at[k] \in K
  BY <1>3, <1>4
<1>6. b \in Seq(Orders(I))
  <2>1. \A k \in 1..n : b[k] \in Orders(I)
    BY SMTT(30), <1>5 DEF Leaves
  <2>2. b \in [1..n -> Orders(I)]
    BY <1>3, <1>5, <2>1
  <2> QED  BY <1>2, <2>2
<1>7. Reduced(b, book)
  <2>1. at \in [DOMAIN b -> DOMAIN book]
    BY <1>4, <1>5
  <2>2. \A k \in DOMAIN b : Remains(b[k], book[at[k]])
    BY SMTT(30), <1>5 DEF Leaves
  <2> QED  BY Zenon, <1>4, <1>5, <2>1, <2>2 DEF Reduced
<1>8. \A k \in DOMAIN b : \E i \in K : b[k] = left[i]
  BY <1>5
<1> QED  BY <1>6, <1>7, <1>8 DEF b

\* Canceling an order reduces the book and takes its identifier out of it.
LEMMA WithoutFacts ==
  ASSUME NEW I, NEW book \in Seq(Orders(I)), \A i \in DOMAIN book : book[i].qty > 0, NEW id
  PROVE  /\ Without(book, id) \in Seq(Orders(I))
         /\ Reduced(Without(book, id), book)
         /\ ~IsResting(Without(book, id), id)
<1> DEFINE K == {i \in DOMAIN book : book[i].id # id}
<1>1. K \in SUBSET DOMAIN book /\ \A i \in K : book[i].id # id
  OBVIOUS
<1>2. Leaves(I, book, book, K)
  BY BookFacts DEF Remains, Leaves
<1>3. Without(book, id) = Pick(book, K)
  BY DEF Without
<1> HIDE DEF K
<1>4. /\ Pick(book, K) \in Seq(Orders(I)) /\ Reduced(Pick(book, K), book)
      /\ \A k \in DOMAIN Pick(book, K) : \E i \in K : Pick(book, K)[k] = book[i]
  BY <1>1, <1>2, PickReduced
<1>5. \A k \in DOMAIN Pick(book, K) : Pick(book, K)[k].id # id
  BY Zenon, <1>1, <1>4
<1> QED  BY Zenon, <1>3, <1>4, <1>5 DEF IsResting

\* The length of the trades is the number of makers that receive something.
LEMMA TradesFacts ==
  ASSUME NEW I, NEW book \in Seq(Orders(I)), NEW id, NEW quantity, NEW share
  PROVE  LET trades == Fill(book, id, quantity, share).trades
         IN  Len(trades) \in Nat /\ DOMAIN trades = 1..Len(trades)
<1> DEFINE filled == {i \in DOMAIN book : share[i] > 0}
           at == Ranked(filled, LAMBDA i, j : Precedes(book, i, j))
           trades == Trades(book, id, share, at)
           n == Cardinality(filled)
<1>1. Fill(book, id, quantity, share).trades = trades
  BY DEF Fill
<1>2. n \in Nat
  <2>1. IsFiniteSet(filled)
    BY BookFacts, FS_Subset
  <2> QED  BY <2>1, FS_CardinalityType
<1>3. DOMAIN at = 1..n
  BY DEF Ranked
<1> HIDE DEF n, at
<1>4. DOMAIN trades = 1..n /\ trades = [k \in 1..n |-> trades[k]]
  BY <1>3 DEF Trades
<1> HIDE DEF trades
<1>5. trades \in Seq({trades[k] : k \in 1..n}) /\ Len(trades) = n
  BY <1>2, <1>4
<1> QED  BY <1>1, <1>2, <1>4, <1>5

\* A match reduces the book, leaves at most what came in, and when something
\* is left of the incoming order nothing is left that it could trade with.
LEMMA MatchFacts ==
  ASSUME NEW I, NEW book \in Seq(Orders(I)), \A i \in DOMAIN book : book[i].qty > 0,
         NEW id, NEW side \in Sides, NEW market, NEW limit, NEW quantity \in Nat
  PROVE  LET m == Match(book, id, side, market, limit, quantity)
         IN  /\ Len(m.trades) \in Nat /\ DOMAIN m.trades = 1..Len(m.trades)
             /\ m.book \in Seq(Orders(I)) /\ Reduced(m.book, book)
             /\ m.remainder \in Int /\ m.remainder <= quantity
             /\ m.remainder > 0 =>
                  \A k \in DOMAIN m.book :
                    ~(/\ m.book[k].side = Opposite(side)
                      /\ CanMatch(side, market, limit, m.book[k].price))
<1> DEFINE makers == Makers(book, side, market, limit)
           share == Shares(book, makers, quantity)
           m == Match(book, id, side, market, limit, quantity)
           left == [i \in DOMAIN book |-> [book[i] EXCEPT !.qty = @ - share[i]]]
           K == {i \in DOMAIN book : book[i].qty > share[i]}
<1>1. /\ makers \in SUBSET DOMAIN book /\ IsFiniteSet(makers)
      /\ StrictOrder(makers, Priority(book, makers))
  BY MakersFacts
<1>2. /\ m = Fill(book, id, quantity, share)
      /\ m.book = Pick(left, K)
      /\ m.remainder = quantity - SumFunction(share)
  BY SMTT(30) DEF Match, Fill
<1>3. ASSUME NEW i \in DOMAIN book
      PROVE  i \in makers <=> /\ book[i].side = Opposite(side)
                              /\ CanMatch(side, market, limit, book[i].price)
  BY DEF Makers
<1> HIDE DEF makers
<1>4. /\ share \in [DOMAIN book -> Nat]
      /\ \A i \in DOMAIN book : share[i] <= book[i].qty
  BY <1>1, ShareBounds
<1>5. ASSUME NEW j \in makers, share[j] # book[j].qty PROVE SumFunction(share) >= quantity
  BY <1>1, <1>5, RemainderMeansFilled
<1> HIDE DEF share, m
<1>6. Len(m.trades) \in Nat /\ DOMAIN m.trades = 1..Len(m.trades)
  BY <1>2, TradesFacts
<1>7. ASSUME NEW i \in K
      PROVE  left[i] \in Orders(I) /\ Remains(left[i], book[i])
  <2>1. /\ book[i] \in Orders(I) /\ book[i].qty \in Nat
        /\ share[i] \in Nat /\ share[i] <= book[i].qty /\ share[i] < book[i].qty
    BY <1>4, BookFacts
  <2>2. left[i] = [book[i] EXCEPT !.qty = @ - share[i]]
    BY Zenon
  <2> QED  BY Zenon, <2>1, <2>2, OrderReduced
<1>8. /\ m.book \in Seq(Orders(I)) /\ Reduced(m.book, book)
      /\ \A k \in DOMAIN m.book : \E i \in K : m.book[k] = left[i]
  <2>1. K \in SUBSET DOMAIN book
    OBVIOUS
  <2> HIDE DEF K, left
  <2>2. /\ Pick(left, K) \in Seq(Orders(I)) /\ Reduced(Pick(left, K), book)
        /\ \A k \in DOMAIN Pick(left, K) : \E i \in K : Pick(left, K)[k] = left[i]
    <3>1. Leaves(I, book, left, K)
      BY Zenon, <1>7 DEF Leaves
    <3> QED  BY <2>1, <3>1, PickReduced
  <2> QED  BY Zenon, <1>2, <2>2
<1>9. SumFunction(share) \in Nat
  <2>1. IsFiniteSet(DOMAIN book) /\ DOMAIN share = DOMAIN book
    BY <1>4, BookFacts
  <2>2. SumFunctionOnSet(share, DOMAIN book) \in Nat
    BY <1>4, <2>1, SumMonotone
  <2> QED  BY <2>1, <2>2 DEF SumFunction
<1>10. m.remainder \in Int /\ m.remainder <= quantity
  BY <1>2, <1>9
<1>11. ASSUME m.remainder > 0, NEW k \in DOMAIN m.book
       PROVE  ~(/\ m.book[k].side = Opposite(side)
                /\ CanMatch(side, market, limit, m.book[k].price))
  <2>1. PICK i \in K : m.book[k] = left[i]
    BY <1>8
  <2>2. m.book[k].side = book[i].side /\ m.book[k].price = book[i].price
    BY Zenon, <1>7, <2>1 DEF Remains
  <2>3. share[i] # book[i].qty /\ i \in DOMAIN book
    BY SMTT(30), <1>4, BookFacts
  <2>4. ~(SumFunction(share) >= quantity)
    BY <1>2, <1>9, <1>11
  <2>5. i \notin makers
    BY <1>5, <2>3, <2>4
  <2> HIDE DEF left, K
  <2> QED  BY Zenon, <1>3, <2>2, <2>3, <2>5
<1> QED  BY <1>6, <1>8, <1>10, <1>11 DEF m

-----------------------------------------------------------------------------
(* Sound books: what risk checks and matching together keep of a book.     *)

\* A product grows with its factor.
LEMMA ProductMonotone ==
  ASSUME NEW p \in Nat, NEW a \in Nat, NEW b \in Nat, a <= b
  PROVE  p * a <= p * b
<1>1. p * (b - a) >= 0
  BY b - a \in Nat
<1>2. p * b = p * a + p * (b - a)
  OBVIOUS
<1> QED  BY SMTT(30), <1>1, <1>2

\* The order is within the limits of the risk checks.
WithinLimits(o) ==
  /\ o.price > 0 /\ o.qty > 0
  /\ o.qty <= MaxOrderQuantity
  /\ o.price * o.qty <= MaxNotional

\* No identifier rests twice.
DistinctIds(book) == \A i, j \in DOMAIN book : book[i].id = book[j].id => i = j

\* Every bid is below every ask.
NotCrossed(book) ==
  \A i, j \in DOMAIN book :
    book[i].side = "Buy" /\ book[j].side = "Sell" => book[i].price < book[j].price

\* A book of orders within the limits, without duplicates and not crossed.
Sound(I, book) ==
  /\ book \in Seq(Orders(I))
  /\ \A i \in DOMAIN book : WithinLimits(book[i])
  /\ DistinctIds(book)
  /\ NotCrossed(book)

\* A reduced book is as sound as the book was.
LEMMA ReducedSound ==
  \A I, a : \A b \in Seq(Orders(I)) :
    Sound(I, a) /\ Reduced(b, a) =>
      Sound(I, b)
\* What is left of an order within the limits is within them.
<1>RemainsWithin.
      ASSUME NEW I, NEW o \in Orders(I), NEW p \in Orders(I), Remains(p, o), WithinLimits(o)
      PROVE  WithinLimits(p)
  <2> USE <1>RemainsWithin
  <2>1. /\ o.price \in Nat /\ o.qty \in Nat /\ p.qty \in Nat /\ p.price = o.price
        /\ p.qty <= o.qty /\ 0 < p.qty /\ o.price > 0
    BY DEF Remains, WithinLimits, Orders
  <2>2. o.price * p.qty <= o.price * o.qty
    BY <2>1, ProductMonotone
  <2>3. o.price * p.qty \in Int /\ o.price * o.qty \in Int
    BY <2>1
  <2> QED  BY <2>1, <2>2, <2>3, LimitsAssumption DEF WithinLimits
<1> SUFFICES ASSUME NEW I, NEW a, Sound(I, a), NEW b \in Seq(Orders(I)), Reduced(b, a)
             PROVE  Sound(I, b)
  OBVIOUS
<1>1. PICK at \in [DOMAIN b -> DOMAIN a] :
        /\ \A j, k \in DOMAIN b : j < k => at[j] < at[k]
        /\ \A k \in DOMAIN b : Remains(b[k], a[at[k]])
  BY DEF Reduced
<1>2. /\ DOMAIN b \subseteq Int /\ DOMAIN a \subseteq Int
      /\ \A k \in DOMAIN b : b[k] \in Orders(I)
      /\ \A k \in DOMAIN a : a[k] \in Orders(I)
  BY SMTT(30), BookFacts DEF Sound
<1>3. \A k \in DOMAIN b : /\ at[k] \in DOMAIN a
                          /\ b[k].id = a[at[k]].id /\ b[k].side = a[at[k]].side
                          /\ b[k].price = a[at[k]].price
  BY SMTT(30), <1>1 DEF Remains
<1>4. \A k \in DOMAIN b : WithinLimits(b[k])
  <2> SUFFICES ASSUME NEW k \in DOMAIN b PROVE WithinLimits(b[k])
    OBVIOUS
  <2>1. a[at[k]] \in Orders(I) /\ b[k] \in Orders(I) /\ Remains(b[k], a[at[k]])
    BY <1>1, <1>2, <1>3
  <2>2. WithinLimits(a[at[k]])
    BY <1>3 DEF Sound
  <2> QED  BY <2>1, <2>2, <1>RemainsWithin
<1>5. DistinctIds(b)
  <2> SUFFICES ASSUME NEW i \in DOMAIN b, NEW j \in DOMAIN b, b[i].id = b[j].id
               PROVE  i = j
    BY DEF DistinctIds
  <2>1. at[i] = at[j]
    BY SMTT(30), <1>3 DEF Sound, DistinctIds
  <2>2. i \in Int /\ j \in Int /\ at[i] \in Int
    BY <1>2, <1>3
  <2>3. ~(i < j) /\ ~(j < i)
    BY <1>1, <2>1, <2>2
  <2> QED  BY <2>2, <2>3
<1>6. NotCrossed(b)
  BY SMTT(30), <1>3 DEF Sound, NotCrossed
<1> QED  BY <1>4, <1>5, <1>6 DEF Sound

-----------------------------------------------------------------------------
(* The outcome of a request on a sound book.                               *)

\* A result whose book is sound and whose trades are a sequence.
SoundResult(I, r) ==
  /\ Sound(I, r.book)
  /\ Len(r.trades) \in Nat /\ DOMAIN r.trades = 1..Len(r.trades)

\* The orders of a sound book all have something to trade.
LEMMA SoundQuantities ==
  ASSUME NEW I, NEW book, Sound(I, book)
  PROVE  /\ book \in Seq(Orders(I))
         /\ \A i \in DOMAIN book : book[i].qty > 0
  BY DEF Sound, WithinLimits

\* A limit order that passes the checks leaves a sound book: it is matched
\* until it no longer crosses, and only then does its remainder rest.
LEMMA LimitSound ==
  \A I, book : \A id \in I, side \in Sides, price \in Int, quantity \in Nat : \A tif :
    (/\ Sound(I, book)
     /\ ~IsResting(book, id)
     /\ check_limit_values(price, quantity) = "None") =>
      SoundResult(I, LimitResult(book, id, side, price, quantity, tif))
\* What Append leaves.
<1>AppendFacts. ASSUME NEW S, NEW s \in Seq(S), NEW x \in S
                PROVE  /\ Append(s, x) \in Seq(S) /\ Len(Append(s, x)) = Len(s) + 1
                       /\ \A i \in 1..Len(s) : Append(s, x)[i] = s[i]
                       /\ Append(s, x)[Len(s) + 1] = x
  BY SMT, <1>AppendFacts
\* The notional check divides so as not to overflow; it bounds the product.
<1>NotionalBounded.
      ASSUME NEW p \in Nat \ {0}, NEW q \in Nat, NEW n \in Nat, q <= n \div p
      PROVE  p * q <= n
  <2> USE <1>NotionalBounded
  <2>1. n \div p \in Nat /\ p * (n \div p) <= n
    BY SMT
  <2>2. p * q <= p * (n \div p)
    BY <2>1, ProductMonotone
  <2>3. p * q \in Int /\ p * (n \div p) \in Int
    BY <2>1
  <2> QED  BY <2>1, <2>2, <2>3
\* A reduced book has no new identifiers.
<1>ReducedResting. ASSUME NEW b, NEW a, Reduced(b, a), NEW id, IsResting(b, id)
                   PROVE  IsResting(a, id)
  BY <1>ReducedResting DEF Reduced, Remains, IsResting
\* A new order behind a book it does not cross.
<1>AppendSound.
      ASSUME NEW I, NEW book, Sound(I, book), NEW o \in Orders(I), WithinLimits(o),
             ~IsResting(book, o.id),
             \A k \in DOMAIN book :
               ~(/\ book[k].side = Opposite(o.side)
                 /\ CanMatch(o.side, FALSE, o.price, book[k].price))
      PROVE  Sound(I, Append(book, o))
  <2> USE <1>AppendSound
  <2> DEFINE b == Append(book, o)
             n == Len(book)
  <2>1. /\ book \in Seq(Orders(I)) /\ n \in Nat /\ DOMAIN book = 1..n
        /\ \A k \in 1..n : book[k].price \in Int /\ book[k].side \in Sides
    BY SMTT(30), BookFacts DEF Sound
  <2>2. /\ b \in Seq(Orders(I)) /\ DOMAIN b = 1..(n + 1)
        /\ \A k \in 1..n : b[k] = book[k]
        /\ b[n + 1] = o
    BY SMT, <2>1, <1>AppendFacts, SeqFacts
  <2> HIDE DEF b, n
  <2>3. \A k \in DOMAIN b : k \in 1..n \/ k = n + 1
    BY <2>1, <2>2
  <2>4. \A k \in DOMAIN b : WithinLimits(b[k])
    BY <2>1, <2>2, <2>3 DEF Sound
  <2>5. DistinctIds(b)
    BY <2>1, <2>2, <2>3 DEF Sound, DistinctIds, IsResting
  <2>6. o.price \in Int /\ o.side \in Sides
    BY DEF Orders
  <2>7. NotCrossed(b)
    <3> SUFFICES ASSUME NEW i \in DOMAIN b, NEW j \in DOMAIN b,
                        b[i].side = "Buy", b[j].side = "Sell"
                 PROVE  b[i].price < b[j].price
      BY DEF NotCrossed
    <3>1. CASE i \in 1..n /\ j \in 1..n
      BY <2>1, <2>2, <3>1 DEF Sound, NotCrossed
    <3>2. CASE i = n + 1 /\ j \in 1..n
      BY <2>1, <2>2, <2>6, <3>2 DEF CanMatch, Opposite
    <3>3. CASE i \in 1..n /\ j = n + 1
      BY <2>1, <2>2, <2>6, <3>3 DEF CanMatch, Opposite
    <3>4. CASE i = n + 1 /\ j = n + 1
      BY <2>2, <3>4
    <3> QED  BY <2>3, <3>1, <3>2, <3>3, <3>4
  <2> QED  BY Zenon, <2>2, <2>4, <2>5, <2>7 DEF Sound, b
\* What check_limit and check_limit_values let through.
<1>LimitChecked.
      ASSUME NEW price \in Int, NEW quantity \in Nat, check_limit_values(price, quantity) = "None"
      PROVE  /\ price > 0 /\ quantity > 0 /\ quantity <= MaxOrderQuantity
             /\ price * quantity <= MaxNotional
  <2> USE <1>LimitChecked
  <2>1. /\ ~(price <= 0) /\ quantity # 0 /\ ~(quantity > MaxOrderQuantity)
        /\ ~(quantity > MaxNotional \div price)
    BY DEF check_limit_values
  <2>2. price \in Nat \ {0} /\ MaxNotional \div price \in Int
    BY <2>1, LimitsAssumption
  <2>3. quantity <= MaxNotional \div price
    BY <2>1, <2>2
  <2>4. price * quantity <= MaxNotional
    BY <2>2, <2>3, LimitsAssumption, <1>NotionalBounded
  <2> QED  BY <2>1, <2>4, LimitsAssumption
<1> SUFFICES ASSUME NEW I, NEW book, Sound(I, book), NEW id \in I, ~IsResting(book, id),
                    NEW side \in Sides, NEW price \in Int, NEW quantity \in Nat, NEW tif,
                    check_limit_values(price, quantity) = "None"
             PROVE  SoundResult(I, LimitResult(book, id, side, price, quantity, tif))
  OBVIOUS
<1> DEFINE m == Match(book, id, side, FALSE, price, quantity)
           r == LimitResult(book, id, side, price, quantity, tif)
           o == [id |-> id, side |-> side, price |-> price, qty |-> m.remainder]
<1>1. /\ r.trades = m.trades
      /\ r.book = IF m.remainder > 0 /\ tif = "GTC" THEN Append(m.book, o) ELSE m.book
  BY DEF LimitResult, Rest
<1>2. /\ Len(m.trades) \in Nat /\ DOMAIN m.trades = 1..Len(m.trades)
      /\ m.book \in Seq(Orders(I)) /\ Reduced(m.book, book)
      /\ m.remainder \in Int /\ m.remainder <= quantity
      /\ m.remainder > 0 =>
           \A k \in DOMAIN m.book :
             ~(m.book[k].side = Opposite(side) /\ CanMatch(side, FALSE, price, m.book[k].price))
  BY Zenon, SoundQuantities, MatchFacts
<1> HIDE DEF m, r
<1>3. Sound(I, m.book) /\ ~IsResting(m.book, id)
  BY SMTT(30), <1>2, ReducedSound, <1>ReducedResting
<1>4. CASE m.remainder > 0 /\ tif = "GTC"
  <2>1. /\ price > 0 /\ quantity > 0 /\ quantity <= MaxOrderQuantity
        /\ price * quantity <= MaxNotional
    BY <1>LimitChecked
  <2>2. m.remainder \in Nat /\ price \in Nat /\ m.remainder <= MaxOrderQuantity
    BY <1>2, <1>4, <2>1, LimitsAssumption
  <2>3. price * m.remainder <= MaxNotional
    <3>1. price * m.remainder <= price * quantity
      BY <1>2, <2>2, ProductMonotone
    <3>2. price * m.remainder \in Int /\ price * quantity \in Int
      BY <2>2
    <3> QED  BY <2>1, <3>1, <3>2, LimitsAssumption
  <2>4. /\ o \in Orders(I)
        /\ o.id = id /\ o.side = side /\ o.price = price /\ o.qty = m.remainder
    BY <2>2 DEF Orders
  <2>5. WithinLimits(o)
    BY <1>4, <2>1, <2>2, <2>3, <2>4 DEF WithinLimits
  <2> HIDE DEF o
  <2>6. Sound(I, Append(m.book, o))
    BY Zenon, <1>2, <1>3, <1>4, <2>4, <2>5, <1>AppendSound
  <2> QED  BY Zenon, <1>1, <1>2, <1>4, <2>6 DEF SoundResult, r
<1>5. CASE ~(m.remainder > 0 /\ tif = "GTC")
  BY Zenon, <1>1, <1>2, <1>3, <1>5 DEF SoundResult, r
<1> QED  BY Zenon, <1>4, <1>5

\* A market order reduces the book and rests nothing.
LEMMA MarketSound ==
  ASSUME NEW I, NEW book, Sound(I, book), NEW id, NEW side \in Sides, NEW quantity \in Nat
  PROVE  LET r == MarketResult(book, id, side, quantity)
         IN  /\ SoundResult(I, r) /\ Reduced(r.book, book)
             /\ r.trades = Match(book, id, side, TRUE, 0, quantity).trades
<1> DEFINE m == Match(book, id, side, TRUE, 0, quantity)
           r == MarketResult(book, id, side, quantity)
<1>1. r.trades = m.trades /\ r.book = m.book
  BY DEF MarketResult, Rest
<1>2. /\ Len(m.trades) \in Nat /\ DOMAIN m.trades = 1..Len(m.trades)
      /\ m.book \in Seq(Orders(I)) /\ Reduced(m.book, book)
  <2>1. book \in Seq(Orders(I)) /\ \A i \in DOMAIN book : book[i].qty > 0
    BY SoundQuantities
  <2>2. /\ Len(m.trades) \in Nat /\ DOMAIN m.trades = 1..Len(m.trades)
        /\ m.book \in Seq(Orders(I)) /\ Reduced(m.book, book)
        /\ m.remainder \in Int /\ m.remainder <= quantity
        /\ m.remainder > 0 =>
             \A k \in DOMAIN m.book :
               ~(m.book[k].side = Opposite(side) /\ CanMatch(side, TRUE, 0, m.book[k].price))
    BY Zenon, <2>1, MatchFacts
  <2> QED  BY Zenon, <2>2
<1> HIDE DEF m, r
<1>3. Sound(I, m.book)
  BY <1>2, ReducedSound
<1> QED  BY Zenon, <1>1, <1>2, <1>3 DEF SoundResult, r, m

\* A cancel reduces the book and trades nothing.
LEMMA CancelSound ==
  ASSUME NEW I, NEW book, Sound(I, book), NEW id
  PROVE  LET r == NothingTraded(Without(book, id))
         IN  SoundResult(I, r) /\ Reduced(r.book, book) /\ r.trades = <<>>
<1>1. Without(book, id) \in Seq(Orders(I)) /\ Reduced(Without(book, id), book)
  BY SoundQuantities, WithoutFacts
<1>2. Sound(I, Without(book, id))
  BY <1>1, ReducedSound
<1> QED  BY <1>1, <1>2 DEF SoundResult, NothingTraded

-----------------------------------------------------------------------------
(* Engines.                                                                *)

\* An engine all of whose books are sound.
SoundEngine(I, e) ==
  /\ e = [names |-> e.names, books |-> e.books, seq |-> e.seq]
  /\ e.seq \in Nat
  /\ e.books \in Seq(Seq(Orders(I)))
  /\ \A s \in DOMAIN e.books : Sound(I, e.books[s])

\* The events of an outcome continue the engine's numbering.
Numbered(e, o) ==
  /\ Len(o.events) \in Nat /\ DOMAIN o.events = 1..Len(o.events)
  /\ \A k \in DOMAIN o.events : o.events[k].seq = e.seq + k
  /\ o.engine.seq = e.seq + Len(o.events)

\* The events tell of a result: an opening event, then its trades.
Tells(o, kind, result) ==
  /\ Len(o.events) = 1 + Len(result.trades)
  /\ o.events[1].kind = kind
  /\ \A k \in DOMAIN result.trades : /\ o.events[k + 1].kind = "trade"
                                     /\ o.events[k + 1].trade = result.trades[k]

\* One book of the engine is replaced.
Replaces(o, e, symbol, book) ==
  /\ DOMAIN o.engine.books = DOMAIN e.books
  /\ o.engine.books[symbol] = book
  /\ \A s \in DOMAIN e.books : s # symbol => o.engine.books[s] = e.books[s]

\* What emitting the events of a result does to the engine and to its
\* numbering.
LEMMA EmitFacts ==
  ASSUME NEW I, NEW e, SoundEngine(I, e), NEW symbol \in DOMAIN e.books, NEW kind, NEW id,
         NEW result, SoundResult(I, result)
  PROVE  LET o == Emit(e, symbol, kind, id, result)
         IN  /\ SoundEngine(I, o.engine) /\ Numbered(e, o) /\ Tells(o, kind, result)
             /\ Replaces(o, e, symbol, result.book)
<1> DEFINE o == Emit(e, symbol, kind, id, result)
           n == Len(result.trades)
           opening == [kind |-> kind, seq |-> e.seq + 1, symbol |-> symbol, id |-> id]
           T(k) == [kind |-> "trade", seq |-> e.seq + 1 + k, symbol |-> symbol,
                    trade |-> result.trades[k]]
           tail == [k \in DOMAIN result.trades |-> T(k)]
           S == {opening} \cup {T(k) : k \in 1..n}
<1>1. n \in Nat /\ DOMAIN result.trades = 1..n /\ Sound(I, result.book) /\ e.seq \in Nat
  BY DEF SoundResult, SoundEngine
<1>2. /\ o.events = <<opening>> \o tail
      /\ o.engine = [e EXCEPT !.books[symbol] = result.book, !.seq = @ + 1 + n]
  BY DEF Emit
<1> HIDE DEF o, n
<1>3. SoundEngine(I, o.engine) /\ Replaces(o, e, symbol, result.book) /\ o.engine.seq = e.seq + 1 + n
  <2>1. o.engine = [names |-> e.names, books |-> [e.books EXCEPT ![symbol] = result.book],
                    seq |-> e.seq + 1 + n]
    BY Zenon, <1>2 DEF SoundEngine
  <2>2. [e.books EXCEPT ![symbol] = result.book] \in Seq(Seq(Orders(I)))
    <3>1. result.book \in Seq(Orders(I)) /\ e.books \in Seq(Seq(Orders(I)))
      BY <1>1 DEF Sound, SoundEngine
    <3> QED  BY Zenon, <3>1, PutFacts
  <2>3. /\ DOMAIN o.engine.books = DOMAIN e.books
        /\ \A s \in DOMAIN e.books :
             o.engine.books[s] = IF s = symbol THEN result.book ELSE e.books[s]
    BY SMTT(30), <2>1
  <2>4. Replaces(o, e, symbol, result.book)
    BY <2>3 DEF Replaces
  <2>5. \A s \in DOMAIN o.engine.books : Sound(I, o.engine.books[s])
    BY Zenon, <1>1, <2>3 DEF SoundEngine
  <2> QED  BY <1>1, <2>1, <2>2, <2>4, <2>5 DEF SoundEngine
<1>4. /\ tail \in Seq(S) /\ Len(tail) = n /\ DOMAIN tail = 1..n
      /\ <<opening>> \in Seq(S) /\ Len(<<opening>>) = 1
      /\ \A k \in 1..n : tail[k] = T(k)
  BY <1>1
<1>5. /\ opening.kind = kind /\ opening.seq = e.seq + 1
      /\ \A k \in 1..n : /\ T(k).kind = "trade" /\ T(k).seq = e.seq + 1 + k
                         /\ T(k).trade = result.trades[k]
  OBVIOUS
<1> HIDE DEF tail, opening, T, S
<1>6. /\ o.events \in Seq(S) /\ Len(o.events) = 1 + n
      /\ o.events[1] = opening
      /\ \A k \in 1..n : o.events[k + 1] = T(k)
  <2> DEFINE head == <<opening>>
             all == head \o tail
  <2>1. head \in Seq(S) /\ Len(head) = 1 /\ head[1] = opening /\ o.events = all
    BY <1>2, <1>4
  <2> HIDE DEF head
  <2>2. /\ all \in Seq(S) /\ Len(all) = 1 + n
        /\ \A i \in 1..(1 + n) : all[i] = IF i <= 1 THEN head[i] ELSE tail[i - 1]
    <3>1. /\ all \in Seq(S) /\ Len(all) = Len(head) + Len(tail)
          /\ \A i \in 1..(Len(head) + Len(tail)) :
               all[i] = IF i <= Len(head) THEN head[i] ELSE tail[i - Len(head)]
      BY Zenon, <1>4, <2>1, JoinFacts
    <3> HIDE DEF all
    <3> QED  BY <1>4, <2>1, <3>1
  <2> HIDE DEF all
  <2>3. \A k \in 1..n : k + 1 \in 1..(1 + n) /\ ~(k + 1 <= 1) /\ (k + 1) - 1 = k
    BY <1>1
  <2>4. \A k \in 1..n : all[k + 1] = T(k)
    BY <1>4, <2>2, <2>3
  <2>5. all[1] = opening
    BY <1>1, <2>1, <2>2
  <2> QED  BY <2>1, <2>2, <2>4, <2>5
<1>7. DOMAIN o.events = 1..(1 + n)
  BY SMT, <1>1, <1>6, SeqFacts
<1>8. Tells(o, kind, result)
  BY <1>1, <1>5, <1>6 DEF Tells, n
<1>9. \A k \in DOMAIN o.events : o.events[k].seq = e.seq + k
  <2> SUFFICES ASSUME NEW k \in 1..(1 + n) PROVE o.events[k].seq = e.seq + k
    BY <1>7
  <2>1. CASE k = 1
    BY <1>5, <1>6, <2>1
  <2>2. CASE k # 1
    <3>1. k - 1 \in 1..n /\ (k - 1) + 1 = k
      BY <1>1, <2>2
    <3>2. o.events[k] = T(k - 1) /\ T(k - 1).seq = e.seq + 1 + (k - 1)
      BY <1>5, <1>6, <3>1
    <3> QED  BY <1>1, <3>2
  <2> QED  BY <2>1, <2>2
<1>10. Numbered(e, o)
  <2>1. o.engine.seq = e.seq + Len(o.events) /\ Len(o.events) \in Nat
    <3>1. o.engine.seq = e.seq + 1 + n /\ Len(o.events) = 1 + n
      BY Zenon, <1>3, <1>6
    <3> QED  BY <1>1, <3>1
  <2> QED  BY Zenon, <1>6, <1>7, <1>9, <2>1 DEF Numbered
<1> QED  BY <1>3, <1>8, <1>10 DEF o

-----------------------------------------------------------------------------
(* The storage behind the books.                                           *)

\* What a storage holds it also holds with orders reduced or gone.
ReducibleStorage(I) ==
  /\ Storable(<<>>)
  /\ \A a, b \in Seq(Orders(I)) : Storable(a) /\ Reduced(b, a) => Storable(b)

\* Every book of the engine is one its storage can hold.
AllStorable(e) == \A s \in DOMAIN e.books : Storable(e.books[s])

-----------------------------------------------------------------------------
(* Requests through the gateway.                                           *)

\* What every request leaves behind, answered or not.
Served(I, e, o) ==
  /\ SoundEngine(I, o.engine)
  /\ Numbered(e, o)
  /\ ReducibleStorage(I) /\ AllStorable(e) => AllStorable(o.engine)

\* An accepted request is answered by events, a refused one by none.
Answers(I, e, r) ==
  /\ Served(I, e, r)
  /\ r.accepted \in BOOLEAN
  /\ r.accepted <=> r.events # <<>>

\* A refused request leaves the engine and says nothing.
LEMMA RejectAnswers ==
  ASSUME NEW I, NEW e, SoundEngine(I, e), NEW reason
  PROVE  Answers(I, e, Reject(e, reason)) /\ Reject(e, reason).accepted = FALSE
<1> DEFINE r == Reject(e, reason)
<1>1. r.engine = e /\ r.events = <<>> /\ r.accepted = FALSE
  BY DEF Reject
<1>2. e.seq \in Nat
  BY DEF SoundEngine
<1> HIDE DEF r
<1>3. Numbered(e, r)
  BY <1>1, <1>2 DEF Numbered
<1> QED  BY Zenon, <1>1, <1>3 DEF Answers, Served, r

\* An accepted request is answered by the event that opens its result.
LEMMA EmitAnswers ==
  ASSUME NEW I, NEW e, SoundEngine(I, e), NEW symbol \in DOMAIN e.books, NEW kind, NEW id,
         NEW result, SoundResult(I, result),
         ReducibleStorage(I) /\ AllStorable(e) => Storable(result.book)
  PROVE  LET r == Accept(Emit(e, symbol, kind, id, result))
         IN  Answers(I, e, r) /\ r.accepted = TRUE /\ Tells(r, kind, result)
<1> DEFINE o == Emit(e, symbol, kind, id, result)
           r == Accept(o)
<1>1. /\ SoundEngine(I, o.engine) /\ Numbered(e, o) /\ Tells(o, kind, result)
      /\ Replaces(o, e, symbol, result.book)
  BY Zenon, EmitFacts
<1>2. r.engine = o.engine /\ r.events = o.events /\ r.accepted = TRUE
  BY DEF Accept
<1> HIDE DEF o, r
<1>3. Numbered(e, r)
  BY Zenon, <1>1, <1>2 DEF Numbered
<1>4. Tells(r, kind, result)
  BY Zenon, <1>1, <1>2 DEF Tells
<1>5. r.events # <<>>
  <2>1. Len(r.events) = 1 + Len(result.trades) /\ Len(result.trades) \in Nat
    BY Zenon, <1>4 DEF Tells, SoundResult
  <2>2. r.events = <<>> => Len(r.events) = 0
    OBVIOUS
  <2> QED  BY <2>1, <2>2
<1>6. ReducibleStorage(I) /\ AllStorable(e) => AllStorable(r.engine)
  BY Zenon, <1>1, <1>2 DEF AllStorable, Replaces
<1> QED  BY Zenon, <1>1, <1>2, <1>3, <1>4, <1>5, <1>6 DEF Answers, Served, o, r

\* The book a request on the engine is about.
LEMMA SoundBooks ==
  ASSUME NEW I, NEW e, SoundEngine(I, e), NEW symbol, has_symbol(e, symbol)
  PROVE  symbol \in DOMAIN e.books /\ Sound(I, e.books[symbol])
  BY DEF SoundEngine, has_symbol

\* The checks of gw_new_limit.
LimitRefused(e, symbol, id, side, price, quantity, tif) ==
  \/ ~has_symbol(e, symbol)
  \/ EngineContains(e, symbol, id)
  \/ check_limit(side, price, quantity) # "None"
  \/ ~can_store_limit(e, symbol, id, side, price, quantity, tif)

\* The checks of gw_new_market.
MarketRefused(e, symbol, id, side, quantity) ==
  \/ ~has_symbol(e, symbol)
  \/ EngineContains(e, symbol, id)
  \/ check_market(side, quantity) # "None"

\* The answer to a new order: refused, or a match told by its events.
OrderAnswered(I, e, symbol, r, refused, result, match) ==
  /\ Answers(I, e, r)
  /\ r.accepted <=> ~refused
  /\ r.accepted => /\ has_symbol(e, symbol)
                   /\ SoundResult(I, result) /\ Tells(r, "accepted", result)
                   /\ result.trades = match.trades

\* A new limit order is answered exactly when no check of gw_new_limit
\* refuses it, with the trades of its match.
LEMMA LimitAnswers ==
  ASSUME NEW I, NEW e, SoundEngine(I, e), NEW symbol, NEW id \in I, NEW side,
         NEW price \in Int, NEW quantity \in Nat, NEW tif
  PROVE  OrderAnswered(I, e, symbol, gw_new_limit(e, symbol, id, side, price, quantity, tif),
                       LimitRefused(e, symbol, id, side, price, quantity, tif),
                       LimitResult(e.books[symbol], id, side, price, quantity, tif),
                       Match(e.books[symbol], id, side, FALSE, price, quantity))
<1> DEFINE r == gw_new_limit(e, symbol, id, side, price, quantity, tif)
           refused == LimitRefused(e, symbol, id, side, price, quantity, tif)
           result == LimitResult(e.books[symbol], id, side, price, quantity, tif)
           match == Match(e.books[symbol], id, side, FALSE, price, quantity)
<1>1. ASSUME refused PROVE OrderAnswered(I, e, symbol, r, refused, result, match)
  <2>1. \E reason : r = Reject(e, reason)
    BY <1>1 DEF gw_new_limit, LimitRefused
  <2>2. Answers(I, e, r) /\ r.accepted = FALSE
    BY Zenon, <2>1, RejectAnswers
  <2> HIDE DEF r, refused, result, match
  <2> QED  BY Zenon, <1>1, <2>2 DEF OrderAnswered
<1>2. ASSUME ~refused PROVE OrderAnswered(I, e, symbol, r, refused, result, match)
  <2>1. r = Accept(Emit(e, symbol, "accepted", id, result))
    BY <1>2 DEF gw_new_limit, new_limit, LimitRefused
  <2>2. symbol \in DOMAIN e.books /\ Sound(I, e.books[symbol])
    BY <1>2, SoundBooks DEF LimitRefused
  <2>3. /\ ~IsResting(e.books[symbol], id) /\ side \in Sides
        /\ check_limit_values(price, quantity) = "None" /\ Storable(result.book)
    BY <1>2 DEF LimitRefused, EngineContains, check_limit, can_store_limit
  <2>4. /\ SoundResult(I, result)
        /\ result.trades = Match(e.books[symbol], id, side, FALSE, price, quantity).trades
    <3> DEFINE book == e.books[symbol]
    <3>1. /\ Sound(I, book) /\ ~IsResting(book, id) /\ side \in Sides
          /\ check_limit_values(price, quantity) = "None"
      BY Zenon, <2>2, <2>3
    <3> HIDE DEF book
    <3>2. SoundResult(I, LimitResult(book, id, side, price, quantity, tif))
      BY Zenon, <3>1, LimitSound
    <3>3. result.trades = Match(e.books[symbol], id, side, FALSE, price, quantity).trades
      BY DEF LimitResult, Rest
    <3> QED  BY Zenon, <3>2, <3>3 DEF book
  <2> HIDE DEF result
  <2>5. Answers(I, e, r) /\ r.accepted = TRUE /\ Tells(r, "accepted", result)
    BY Zenon, <2>1, <2>2, <2>3, <2>4, EmitAnswers
  <2>7. has_symbol(e, symbol)
    BY <2>2 DEF has_symbol
  <2> HIDE DEF r, refused, match
  <2>8. result.trades = match.trades
    BY Zenon, <2>4 DEF match
  <2> QED  BY Zenon, <1>2, <2>4, <2>5, <2>7, <2>8 DEF OrderAnswered
<1> QED  BY Zenon, <1>1, <1>2 DEF r, refused, result, match

\* A new market order is answered exactly when no check of gw_new_market
\* refuses it, with the trades of its match.
LEMMA MarketAnswers ==
  ASSUME NEW I, NEW e, SoundEngine(I, e), NEW symbol, NEW id, NEW side, NEW quantity \in Nat
  PROVE  OrderAnswered(I, e, symbol, gw_new_market(e, symbol, id, side, quantity),
                       MarketRefused(e, symbol, id, side, quantity),
                       MarketResult(e.books[symbol], id, side, quantity),
                       Match(e.books[symbol], id, side, TRUE, 0, quantity))
<1> DEFINE r == gw_new_market(e, symbol, id, side, quantity)
           refused == MarketRefused(e, symbol, id, side, quantity)
           result == MarketResult(e.books[symbol], id, side, quantity)
           match == Match(e.books[symbol], id, side, TRUE, 0, quantity)
<1>1. ASSUME refused PROVE OrderAnswered(I, e, symbol, r, refused, result, match)
  <2>1. \E reason : r = Reject(e, reason)
    BY <1>1 DEF gw_new_market, MarketRefused
  <2>2. Answers(I, e, r) /\ r.accepted = FALSE
    BY Zenon, <2>1, RejectAnswers
  <2> HIDE DEF r, refused, result, match
  <2> QED  BY Zenon, <1>1, <2>2 DEF OrderAnswered
<1>2. ASSUME ~refused PROVE OrderAnswered(I, e, symbol, r, refused, result, match)
  <2>1. r = Accept(Emit(e, symbol, "accepted", id, result))
    BY <1>2 DEF gw_new_market, new_market, MarketRefused
  <2>2. symbol \in DOMAIN e.books /\ Sound(I, e.books[symbol])
    BY <1>2, SoundBooks DEF MarketRefused
  <2>3. side \in Sides
    BY <1>2 DEF MarketRefused, check_market
  <2>4. /\ SoundResult(I, result) /\ Reduced(result.book, e.books[symbol])
        /\ result.trades = Match(e.books[symbol], id, side, TRUE, 0, quantity).trades
    <3> DEFINE book == e.books[symbol]
    <3>1. Sound(I, book)
      BY Zenon, <2>2
    <3> HIDE DEF book
    <3>2. /\ SoundResult(I, MarketResult(book, id, side, quantity))
          /\ Reduced(MarketResult(book, id, side, quantity).book, book)
          /\ MarketResult(book, id, side, quantity).trades =
               Match(book, id, side, TRUE, 0, quantity).trades
      BY Zenon, <2>3, <3>1, MarketSound
    <3> QED  BY Zenon, <3>2 DEF book
  <2> HIDE DEF result
  <2>5. ReducibleStorage(I) /\ AllStorable(e) => Storable(result.book)
    BY Zenon, <2>2, <2>4 DEF ReducibleStorage, AllStorable, SoundResult, Sound
  <2>6. Answers(I, e, r) /\ r.accepted = TRUE /\ Tells(r, "accepted", result)
    BY Zenon, <2>1, <2>2, <2>4, <2>5, EmitAnswers
  <2>7. has_symbol(e, symbol)
    BY <2>2 DEF has_symbol
  <2> HIDE DEF r, refused, match
  <2>8. result.trades = match.trades
    BY Zenon, <2>4 DEF match
  <2> QED  BY Zenon, <1>2, <2>4, <2>6, <2>7, <2>8 DEF OrderAnswered
<1> QED  BY Zenon, <1>1, <1>2 DEF r, refused, result, match

\* A cancel is answered, without trades, exactly when it is accepted.
LEMMA CancelAnswers ==
  ASSUME NEW I, NEW e, SoundEngine(I, e), NEW symbol, NEW id
  PROVE  LET r == gw_cancel(e, symbol, id)
         IN  Answers(I, e, r) /\ (r.accepted => Tells(r, "canceled", [trades |-> <<>>]))
<1> DEFINE r == gw_cancel(e, symbol, id)
           result == NothingTraded(Without(e.books[symbol], id))
<1>1. CASE ~EngineContains(e, symbol, id)
  <2>1. \E reason : r = Reject(e, reason)
    BY <1>1 DEF gw_cancel, EngineContains
  <2>2. Answers(I, e, r) /\ r.accepted = FALSE
    BY Zenon, <2>1, RejectAnswers
  <2> QED  BY Zenon, <2>2
<1>2. CASE EngineContains(e, symbol, id)
  <2>1. r = Accept(Emit(e, symbol, "canceled", id, result))
    BY <1>2 DEF gw_cancel, cancel, EngineContains
  <2>2. symbol \in DOMAIN e.books /\ Sound(I, e.books[symbol])
    BY <1>2, SoundBooks DEF EngineContains
  <2>3. SoundResult(I, result) /\ Reduced(result.book, e.books[symbol]) /\ result.trades = <<>>
    <3> DEFINE book == e.books[symbol]
    <3>1. Sound(I, book)
      BY Zenon, <2>2
    <3> HIDE DEF book
    <3>2. /\ SoundResult(I, NothingTraded(Without(book, id)))
          /\ Reduced(NothingTraded(Without(book, id)).book, book)
          /\ NothingTraded(Without(book, id)).trades = <<>>
      BY Zenon, <3>1, CancelSound
    <3> QED  BY Zenon, <3>2 DEF book
  <2> HIDE DEF result
  <2>4. ReducibleStorage(I) /\ AllStorable(e) => Storable(result.book)
    BY Zenon, <2>2, <2>3 DEF ReducibleStorage, AllStorable, SoundResult, Sound
  <2>5. Answers(I, e, r) /\ r.accepted = TRUE /\ Tells(r, "canceled", result)
    BY Zenon, <2>1, <2>2, <2>3, <2>4, EmitAnswers
  <2> HIDE DEF r
  <2>6. Tells(r, "canceled", [trades |-> <<>>])
    <3>1. [trades |-> <<>>].trades = result.trades
      BY <2>3
    <3> HIDE DEF result
    <3> QED  BY ZenonT(60), <2>5, <3>1 DEF Tells
  <2> QED  BY Zenon, <2>5, <2>6 DEF r
<1> QED  BY Zenon, <1>1, <1>2

\* Registering a symbol adds an empty book and gives out no number.
LEMMA RegisterServed ==
  ASSUME NEW I, NEW e, SoundEngine(I, e), NEW name
  PROVE  LET r == Accept(NoEvents(register_symbol(e, name)))
         IN  Served(I, e, r) /\ r.accepted = TRUE /\ r.events = <<>>
<1> DEFINE new == register_symbol(e, name)
           r == Accept(NoEvents(new))
<1>1. r.engine = new /\ r.events = <<>> /\ r.accepted = TRUE
  BY DEF Accept, NoEvents
<1>2. /\ SoundEngine(I, new) /\ new.seq = e.seq
      /\ ReducibleStorage(I) /\ AllStorable(e) => AllStorable(new)
  <2>1. CASE name \in Range(e.names)
    BY <2>1 DEF register_symbol
  <2>2. CASE name \notin Range(e.names)
    <3> DEFINE n == Len(e.books)
               b == Append(e.books, <<>>)
    <3>1. new = [names |-> Append(e.names, name), books |-> b, seq |-> e.seq]
      BY Zenon, <2>2 DEF register_symbol, SoundEngine
    <3>2. /\ e.books \in Seq(Seq(Orders(I))) /\ n \in Nat /\ DOMAIN e.books = 1..n
          /\ <<>> \in Seq(Orders(I)) /\ e.seq \in Nat
      BY DEF SoundEngine
    <3>3. /\ b \in Seq(Seq(Orders(I))) /\ DOMAIN b = 1..(n + 1)
          /\ \A s \in 1..n : b[s] = e.books[s]
          /\ b[n + 1] = <<>>
      BY <3>2
    <3>4. new.names = Append(e.names, name) /\ new.books = b /\ new.seq = e.seq
      BY <3>1
    <3> HIDE DEF b, n, new
    <3>5. \A s \in DOMAIN b : (s \in DOMAIN e.books /\ b[s] = e.books[s]) \/ b[s] = <<>>
      BY SMTT(90), <3>2, <3>3
    <3>6. Sound(I, <<>>)
      BY DEF Sound, DistinctIds, NotCrossed
    <3>7. SoundEngine(I, new)
      <4>1. \A s \in DOMAIN new.books : Sound(I, new.books[s])
        BY Zenon, <3>4, <3>5, <3>6 DEF SoundEngine
      <4> QED  BY <3>1, <3>2, <3>3, <3>4, <4>1 DEF SoundEngine
    <3>8. ReducibleStorage(I) /\ AllStorable(e) => AllStorable(new)
      BY Zenon, <3>4, <3>5 DEF ReducibleStorage, AllStorable
    <3> QED  BY <3>4, <3>7, <3>8
  <2> QED  BY <2>1, <2>2
<1>3. e.seq \in Nat
  BY DEF SoundEngine
<1> HIDE DEF r, new
<1>4. Numbered(e, r)
  BY <1>1, <1>2, <1>3 DEF Numbered
<1> QED  BY Zenon, <1>1, <1>2, <1>4 DEF Served, r, new

\* apply_command: the engine stays sound, its numbering has no gap, and events answer
\* exactly the accepted requests.
LEMMA ApplyAnswers ==
  \A I, e, c :
    SoundEngine(I, e) /\ IsCommand(c) /\ (c.op = "limit" => c.id \in I) =>
      (LET r == apply_command(e, c)
       IN  /\ Served(I, e, r)
           /\ r.accepted \in BOOLEAN
           /\ ReducibleStorage(I) /\ AllStorable(e) =>
                (r.events = <<>> <=> (c.op = "register" \/ ~r.accepted)))
\* Reducing an order in place reduces the book.
<1>ReduceInPlace.
      ASSUME NEW I, NEW book, Sound(I, book), NEW id, NEW q \in Nat, q > 0,
             \A i \in DOMAIN book : book[i].id = id => q <= book[i].qty
      PROVE  LET b == [i \in DOMAIN book |->
                         IF book[i].id = id THEN [book[i] EXCEPT !.qty = q] ELSE book[i]]
             IN  b \in Seq(Orders(I)) /\ Reduced(b, book)
  <2> USE <1>ReduceInPlace
  <2> DEFINE b == [i \in DOMAIN book |->
                     IF book[i].id = id THEN [book[i] EXCEPT !.qty = q] ELSE book[i]]
             at == [i \in DOMAIN book |-> i]
  <2>1. /\ book \in Seq(Orders(I)) /\ Len(book) \in Nat /\ DOMAIN book = 1..Len(book)
        /\ \A i \in DOMAIN book : book[i] \in Orders(I) /\ book[i].qty > 0 /\ book[i].qty \in Nat
    BY SoundQuantities, BookFacts
  <2>2. ASSUME NEW i \in DOMAIN book PROVE b[i] \in Orders(I) /\ Remains(b[i], book[i])
    <3> DEFINE o == book[i]
               p == [o EXCEPT !.qty = q]
    <3>1. /\ o.id \in I /\ o.side \in Sides /\ o.price \in Int /\ o.qty \in Nat
          /\ o = [id |-> o.id, side |-> o.side, price |-> o.price, qty |-> o.qty]
          /\ o \in Orders(I) /\ o.qty > 0
      BY <2>1 DEF Orders
    <3>2. o.id = id => q <= o.qty
      OBVIOUS
    <3>3. b[i] = IF o.id = id THEN p ELSE o
      OBVIOUS
    <3> HIDE DEF o, b
    <3>4. p = [id |-> o.id, side |-> o.side, price |-> o.price, qty |-> q]
      BY <3>1
    <3> HIDE DEF p
    <3>5. p \in Orders(I)
      BY <3>1, <3>4 DEF Orders
    <3>6. o.id = id => Remains(p, o)
      BY <3>1, <3>2, <3>4 DEF Remains
    <3>7. Remains(o, o)
      BY <3>1 DEF Remains
    <3> QED  BY SMTT(30), <3>1, <3>3, <3>5, <3>6, <3>7 DEF o
  <2>3. DOMAIN b = DOMAIN book /\ b = [i \in DOMAIN book |-> b[i]]
    OBVIOUS
  <2> HIDE DEF b
  <2>4. b \in Seq(Orders(I))
    BY <2>1, <2>2, <2>3
  <2>5. /\ at \in [DOMAIN b -> DOMAIN book]
        /\ \A j, k \in DOMAIN b : j < k => at[j] < at[k]
        /\ \A k \in DOMAIN b : at[k] = k
    BY <2>3
  <2> HIDE DEF at
  <2>6. Reduced(b, book)
    BY <2>2, <2>3, <2>5 DEF Reduced
  <2> QED  BY <2>4, <2>6 DEF b
\* A modify that passes the checks leaves a sound book, whether it reduces
\* the order in place or cancels and replaces it.
<1>ModifySound. ASSUME NEW I, NEW book, Sound(I, book), NEW id, IsResting(book, id),
                       NEW price \in Int, NEW quantity \in Nat,
                       quantity # 0 => check_limit_values(price, quantity) = "None"
                PROVE  LET r == ModifyResult(book, id, price, quantity)
                       IN  /\ SoundResult(I, r)
                           /\ quantity = 0 => Reduced(r.book, book)
  <2> USE <1>ModifySound
  <2> DEFINE old == OrderOf(book, id)
             r == ModifyResult(book, id, price, quantity)
  <2>1. r = Modified(book, old, price, quantity)
    BY DEF ModifyResult
  <2>2. \E i \in DOMAIN book : book[i].id = id /\ old = book[i]
    BY Zenon DEF IsResting, OrderOf
  <2> HIDE DEF old, r
  <2>3. /\ old.id = id /\ old \in Orders(I) /\ old.id \in I /\ old.side \in Sides
        /\ old.qty \in Nat
    BY <2>2, SoundQuantities, BookFacts
  <2>4. CASE quantity = 0
    <3>1. r = NothingTraded(Without(book, id))
      BY <2>1, <2>3, <2>4 DEF Modified, NothingTraded
    <3> QED  BY <3>1, CancelSound DEF r
  <2>5. CASE quantity # 0 /\ price = old.price /\ quantity <= old.qty
    <3> DEFINE b == [i \in DOMAIN book |->
                       IF book[i].id = id THEN [book[i] EXCEPT !.qty = quantity] ELSE book[i]]
    <3>1. r = [trades |-> <<>>, book |-> b]
      BY <2>1, <2>3, <2>5 DEF Modified
    <3>2. \A i \in DOMAIN book : book[i].id = id => quantity <= book[i].qty
      BY <2>2, <2>5 DEF Sound, DistinctIds
    <3>3. b \in Seq(Orders(I)) /\ Reduced(b, book)
      <4>1. quantity > 0
        BY <2>5
      <4> QED  BY Zenon, <3>2, <4>1, <1>ReduceInPlace
    <3> HIDE DEF b
    <3>4. Sound(I, b)
      BY <3>3, ReducedSound
    <3>5. SoundResult(I, r)
      BY <3>1, <3>4 DEF SoundResult
    <3> QED  BY <2>5, <3>5 DEF r
  <2>6. CASE quantity # 0 /\ ~(price = old.price /\ quantity <= old.qty)
    <3> DEFINE rest == Without(book, id)
    <3>1. r = LimitResult(rest, id, old.side, price, quantity, "GTC")
      BY <2>1, <2>3, <2>6 DEF Modified
    <3>2. rest \in Seq(Orders(I)) /\ Reduced(rest, book) /\ ~IsResting(rest, id)
      BY SoundQuantities, WithoutFacts
    <3> HIDE DEF rest
    <3>3. Sound(I, rest)
      BY <3>2, ReducedSound
    <3>4. SoundResult(I, r)
      BY Zenon, <2>3, <2>6, <3>1, <3>2, <3>3, LimitSound
    <3> QED  BY <2>6, <3>4 DEF r
  <2> QED  BY SMTT(30), <2>4, <2>5, <2>6
\* What the gateway accepts and the engine then ignores.
<1>IgnoredServed. ASSUME NEW I, NEW e, SoundEngine(I, e)
                  PROVE  LET r == Accept(NoEvents(e))
                         IN  Served(I, e, r) /\ r.accepted = TRUE
  <2> USE <1>IgnoredServed
  <2> DEFINE r == Accept(NoEvents(e))
  <2>1. r.engine = e /\ r.events = <<>> /\ r.accepted = TRUE
    BY DEF Accept, NoEvents
  <2>2. e.seq \in Nat
    BY DEF SoundEngine
  <2> HIDE DEF r
  <2>3. Numbered(e, r)
    BY <2>1, <2>2 DEF Numbered
  <2> QED  BY Zenon, <2>1, <2>3 DEF Served, r
\* A modify keeps the engine sound; an accepted one is answered when the
\* storage can hold what it replaces.
<1>ModifyAnswers.
      ASSUME NEW I, NEW e, SoundEngine(I, e), NEW symbol, NEW id, NEW price \in Int,
             NEW quantity \in Nat
      PROVE  LET r == gw_modify(e, symbol, id, price, quantity)
             IN  /\ Served(I, e, r) /\ r.accepted \in BOOLEAN
                 /\ ReducibleStorage(I) /\ AllStorable(e) => Answers(I, e, r)
  <2> USE <1>ModifyAnswers
  <2> DEFINE r == gw_modify(e, symbol, id, price, quantity)
             result == ModifyResult(e.books[symbol], id, price, quantity)
             passed == /\ EngineContains(e, symbol, id)
                       /\ quantity # 0 => /\ check_limit_values(price, quantity) = "None"
                                          /\ can_apply_modify(e, symbol, id, price, quantity)
  <2>1. CASE ~passed
    <3>1. \E reason : r = Reject(e, reason)
      BY <2>1 DEF gw_modify, EngineContains
    <3>2. Answers(I, e, r)
      BY Zenon, <3>1, RejectAnswers
    <3> QED  BY Zenon, <3>2 DEF Answers
  <2>2. CASE passed
    <3>1. symbol \in DOMAIN e.books /\ Sound(I, e.books[symbol]) /\ IsResting(e.books[symbol], id)
      BY <2>2, SoundBooks DEF EngineContains
    <3>2. SoundResult(I, result) /\ (quantity = 0 => Reduced(result.book, e.books[symbol]))
      <4> DEFINE book == e.books[symbol]
      <4>1. /\ Sound(I, book) /\ IsResting(book, id)
            /\ quantity # 0 => check_limit_values(price, quantity) = "None"
        BY Zenon, <2>2, <3>1
      <4> HIDE DEF book
      <4>2. /\ SoundResult(I, ModifyResult(book, id, price, quantity))
            /\ quantity = 0 => Reduced(ModifyResult(book, id, price, quantity).book, book)
        BY Zenon, <4>1, <1>ModifySound
      <4> QED  BY Zenon, <4>2 DEF book
    <3>3. CASE can_apply_modify(e, symbol, id, price, quantity)
      <4>1. r = Accept(Emit(e, symbol, "modified", id, result)) /\ Storable(result.book)
        BY <2>2, <3>1, <3>3 DEF gw_modify, modify, EngineContains, can_apply_modify
      <4> HIDE DEF result
      <4>2. Answers(I, e, r)
        BY Zenon, <3>1, <3>2, <4>1, EmitAnswers
      <4> QED  BY Zenon, <4>2 DEF Answers
    <3>4. CASE ~can_apply_modify(e, symbol, id, price, quantity)
      <4>1. r = Accept(NoEvents(e)) /\ quantity = 0 /\ ~Storable(result.book)
        BY <2>2, <3>1, <3>4 DEF gw_modify, modify, EngineContains, can_apply_modify
      <4> HIDE DEF result
      <4>2. Served(I, e, r) /\ r.accepted = TRUE
        BY Zenon, <4>1, <1>IgnoredServed
      <4>3. ~(ReducibleStorage(I) /\ AllStorable(e))
        BY Zenon, <3>1, <3>2, <4>1 DEF ReducibleStorage, AllStorable, SoundResult, Sound
      <4> QED  BY Zenon, <4>2, <4>3
    <3> QED  BY Zenon, <3>3, <3>4
  <2> QED  BY Zenon, <2>1, <2>2
<1> TAKE I, e, c
<1> HAVE SoundEngine(I, e) /\ IsCommand(c) /\ (c.op = "limit" => c.id \in I)
<1> DEFINE r == apply_command(e, c)
<1>1. CASE c.op = "register"
  <2>1. r = Accept(NoEvents(register_symbol(e, c.name)))
    BY <1>1 DEF apply_command
  <2>2. Served(I, e, r) /\ r.accepted = TRUE /\ r.events = <<>>
    <3> DEFINE n == c.name
    <3>1. r = Accept(NoEvents(register_symbol(e, n)))
      BY Zenon, <2>1
    <3> HIDE DEF n, r
    <3>2. /\ Served(I, e, Accept(NoEvents(register_symbol(e, n))))
          /\ Accept(NoEvents(register_symbol(e, n))).accepted = TRUE
          /\ Accept(NoEvents(register_symbol(e, n))).events = <<>>
      BY Zenon, RegisterServed
    <3> QED  BY Zenon, <3>1, <3>2
  <2> QED  BY Zenon, <1>1, <2>2
<1>2. CASE c.op # "register"
  <2>1. /\ Served(I, e, r) /\ r.accepted \in BOOLEAN
        /\ ReducibleStorage(I) /\ AllStorable(e) => Answers(I, e, r)
    <3>1. CASE c.op = "limit"
      <4>1. r = gw_new_limit(e, c.symbol, c.id, c.side, c.price, c.qty, c.tif)
        BY <3>1 DEF apply_command
      <4>2. c.id \in I /\ c.price \in Int /\ c.qty \in Nat
        BY <3>1 DEF IsCommand
      <4>3. OrderAnswered(I, e, c.symbol, r,
                          LimitRefused(e, c.symbol, c.id, c.side, c.price, c.qty, c.tif),
                          LimitResult(e.books[c.symbol], c.id, c.side, c.price, c.qty, c.tif),
                          Match(e.books[c.symbol], c.id, c.side, FALSE, c.price, c.qty))
        BY Zenon, <4>1, <4>2, LimitAnswers
      <4> QED  BY Zenon, <4>3 DEF OrderAnswered, Answers
    <3>2. CASE c.op = "market"
      <4>1. r = gw_new_market(e, c.symbol, c.id, c.side, c.qty)
        BY <3>2 DEF apply_command
      <4>2. c.qty \in Nat
        BY <3>2 DEF IsCommand
      <4>3. OrderAnswered(I, e, c.symbol, r,
                          MarketRefused(e, c.symbol, c.id, c.side, c.qty),
                          MarketResult(e.books[c.symbol], c.id, c.side, c.qty),
                          Match(e.books[c.symbol], c.id, c.side, TRUE, 0, c.qty))
        BY Zenon, <4>1, <4>2, MarketAnswers
      <4> QED  BY Zenon, <4>3 DEF OrderAnswered, Answers
    <3>3. CASE c.op = "cancel"
      <4>1. r = gw_cancel(e, c.symbol, c.id)
        BY <3>3 DEF apply_command
      <4>2. Answers(I, e, r)
        BY Zenon, <4>1, CancelAnswers
      <4> QED  BY Zenon, <4>2 DEF Answers
    <3>4. CASE c.op = "modify"
      <4>1. r = gw_modify(e, c.symbol, c.id, c.price, c.qty)
        BY <3>4 DEF apply_command
      <4>2. c.price \in Int /\ c.qty \in Nat
        BY <3>4 DEF IsCommand
      <4> DEFINE m == gw_modify(e, c.symbol, c.id, c.price, c.qty)
      <4>3. /\ Served(I, e, m) /\ m.accepted \in BOOLEAN
            /\ ReducibleStorage(I) /\ AllStorable(e) => Answers(I, e, m)
        BY Zenon, <4>2, <1>ModifyAnswers
      <4> QED  BY Zenon, <4>1, <4>3
    <3> QED  BY <1>2, <3>1, <3>2, <3>3, <3>4 DEF IsCommand
  <2> HIDE DEF r
  <2> QED  BY ZenonT(60), <1>2, <2>1 DEF Answers, r
<1> QED  BY Zenon, <1>1, <1>2

-----------------------------------------------------------------------------
(* Previews.                                                               *)

\* The number of trades among some events.
TradeCount(events) == Cardinality({k \in DOMAIN events : events[k].kind = "trade"})

\* No events, no trades.
LEMMA NoTrades == TradeCount(<<>>) = 0
<1>1. {k \in DOMAIN <<>> : <<>>[k].kind = "trade"} = {}
  OBVIOUS
<1> QED  BY Zenon, <1>1, FS_EmptySet DEF TradeCount

\* What a preview says of the answer to a new order.
Previews(p, r) ==
  /\ p.accepted = r.accepted
  /\ p.fill_count = TradeCount(r.events)

\* What the checks of a preview and its count of fills amount to.
Forecasts(p, r, match) ==
  /\ p.accepted \in BOOLEAN
  /\ p.accepted <=> r.accepted
  /\ p.fill_count = IF p.accepted THEN Len(match.trades) ELSE 0

\* A preview that forecasts the checks and the match previews the answer.
LEMMA AnsweredAsPreviewed ==
  \A I, e, symbol, r, refused, result, match, p :
    (/\ OrderAnswered(I, e, symbol, r, refused, result, match)
     /\ Forecasts(p, r, match)) =>
      Previews(p, r)
\* The events of a result hold as many trades as it has.
<1>TellsCount.
      ASSUME NEW e, NEW o, Numbered(e, o), NEW kind, kind # "trade", NEW I, NEW result,
             SoundResult(I, result), Tells(o, kind, result)
      PROVE  TradeCount(o.events) = Len(result.trades)
  <2> USE <1>TellsCount
  <2> DEFINE n == Len(result.trades)
  <2>1. /\ n \in Nat /\ DOMAIN result.trades = 1..n /\ DOMAIN o.events = 1..(1 + n)
        /\ o.events[1].kind # "trade"
        /\ \A k \in 1..n : o.events[k + 1].kind = "trade"
    BY Zenon DEF SoundResult, Numbered, Tells
  <2> HIDE DEF n
  <2>2. \A k \in 2..(1 + n) : o.events[k].kind = "trade"
    <3> SUFFICES ASSUME NEW k \in 2..(1 + n) PROVE o.events[k].kind = "trade"
      OBVIOUS
    <3>1. k - 1 \in 1..n /\ (k - 1) + 1 = k
      BY <2>1
    <3> QED  BY Zenon, <2>1, <3>1
  <2>3. {k \in DOMAIN o.events : o.events[k].kind = "trade"} = 2..(1 + n)
    BY <2>1, <2>2
  <2>4. Cardinality(2..(1 + n)) = n
    <3>1. 2 \in Int /\ 1 + n \in Int
      BY <2>1
    <3>2. Cardinality(2..(1 + n)) = IF 2 > 1 + n THEN 0 ELSE (1 + n) - 2 + 1
      BY <3>1, FS_Interval
    <3> QED  BY <2>1, <3>2
  <2> QED  BY Zenon, <2>3, <2>4 DEF TradeCount, n
<1> SUFFICES ASSUME NEW I, NEW e, NEW symbol, NEW r, NEW refused, NEW result, NEW match,
                    OrderAnswered(I, e, symbol, r, refused, result, match),
                    NEW p, Forecasts(p, r, match)
             PROVE  Previews(p, r)
  OBVIOUS
<1>1. Answers(I, e, r)
  BY Zenon DEF OrderAnswered
<1>2. Numbered(e, r) /\ r.accepted \in BOOLEAN /\ (r.accepted <=> r.events # <<>>)
  BY Zenon, <1>1 DEF Answers, Served
<1>3. CASE ~r.accepted
  <2>1. r.events = <<>> /\ r.accepted = FALSE /\ p.accepted = FALSE /\ p.fill_count = 0
    BY Zenon, <1>2, <1>3 DEF Forecasts
  <2> QED  BY Zenon, <2>1, NoTrades DEF Previews
<1>4. CASE r.accepted
  <2>1. /\ SoundResult(I, result) /\ Tells(r, "accepted", result)
        /\ result.trades = match.trades
    BY Zenon, <1>4 DEF OrderAnswered
  <2>2. "accepted" # "trade"
    OBVIOUS
  <2>3. TradeCount(r.events) = Len(match.trades)
    BY Zenon, <1>2, <2>1, <2>2, <1>TellsCount
  <2>4. r.accepted = TRUE /\ p.accepted = TRUE /\ p.fill_count = Len(match.trades)
    BY Zenon, <1>2, <1>4 DEF Forecasts
  <2> QED  BY Zenon, <2>3, <2>4 DEF Previews
<1> QED  BY Zenon, <1>3, <1>4

\* The preview of a limit order gives the verdict and the number of fills the
\* order then gets.
LEMMA LimitPreviewed ==
  ASSUME NEW I, NEW e, SoundEngine(I, e), NEW symbol, NEW id \in I, NEW side,
         NEW price \in Int, NEW quantity \in Nat, NEW tif
  PROVE  Previews(preview_new_order(e, symbol, id, side, price, quantity, FALSE, tif),
                  gw_new_limit(e, symbol, id, side, price, quantity, tif))
<1> DEFINE p == preview_new_order(e, symbol, id, side, price, quantity, FALSE, tif)
           r == gw_new_limit(e, symbol, id, side, price, quantity, tif)
           refused == LimitRefused(e, symbol, id, side, price, quantity, tif)
           result == LimitResult(e.books[symbol], id, side, price, quantity, tif)
           match == Match(e.books[symbol], id, side, FALSE, price, quantity)
<1>1. OrderAnswered(I, e, symbol, r, refused, result, match)
  BY Zenon, LimitAnswers
<1>2. p.accepted \in BOOLEAN /\ (p.accepted <=> ~refused)
  BY Zenon DEF preview_new_order, LimitRefused
<1>3. p.fill_count = IF refused THEN 0 ELSE Len(match.trades)
  BY Zenon DEF preview_new_order, fill_count, LimitRefused
<1> HIDE DEF p, r, refused, result, match
<1>4. p.accepted \in BOOLEAN /\ (p.accepted <=> r.accepted)
  BY Zenon, <1>1, <1>2 DEF OrderAnswered
<1>5. Forecasts(p, r, match)
  BY Zenon, <1>2, <1>3, <1>4 DEF Forecasts
<1>6. Previews(p, r)
  BY Zenon, <1>1, <1>5, AnsweredAsPreviewed
<1> QED  BY Zenon, <1>6 DEF p, r

\* The preview of a market order gives the verdict and the number of fills
\* the order then gets.
LEMMA MarketPreviewed ==
  ASSUME NEW I, NEW e, SoundEngine(I, e), NEW symbol, NEW id, NEW side,
         NEW quantity \in Nat, NEW tif
  PROVE  Previews(preview_new_order(e, symbol, id, side, 0, quantity, TRUE, tif),
                  gw_new_market(e, symbol, id, side, quantity))
<1> DEFINE p == preview_new_order(e, symbol, id, side, 0, quantity, TRUE, tif)
           r == gw_new_market(e, symbol, id, side, quantity)
           refused == MarketRefused(e, symbol, id, side, quantity)
           result == MarketResult(e.books[symbol], id, side, quantity)
           match == Match(e.books[symbol], id, side, TRUE, 0, quantity)
<1>1. OrderAnswered(I, e, symbol, r, refused, result, match)
  BY Zenon, MarketAnswers
<1>2. p.accepted \in BOOLEAN /\ (p.accepted <=> ~refused)
  BY Zenon DEF preview_new_order, MarketRefused
<1>3. p.fill_count = IF refused THEN 0 ELSE Len(match.trades)
  BY Zenon DEF preview_new_order, fill_count, MarketRefused
<1> HIDE DEF p, r, refused, result, match
<1>4. p.accepted \in BOOLEAN /\ (p.accepted <=> r.accepted)
  BY Zenon, <1>1, <1>2 DEF OrderAnswered
<1>5. Forecasts(p, r, match)
  BY Zenon, <1>2, <1>3, <1>4 DEF Forecasts
<1>6. Previews(p, r)
  BY Zenon, <1>1, <1>5, AnsweredAsPreviewed
<1> QED  BY Zenon, <1>6 DEF p, r

-----------------------------------------------------------------------------
(* The storages of the code are reducible.                                 *)

\* A reduced book has no more orders and no other prices: a pool of orders and a band
\* of prices that hold a book hold what is left of it.
LEMMA ReducedFits ==
  ASSUME NEW I, NEW a \in Seq(Orders(I)), NEW b \in Seq(Orders(I)), Reduced(b, a),
         NEW capacity \in Nat, NEW band
  PROVE  /\ Len(a) <= capacity => Len(b) <= capacity
         /\ (\A i \in DOMAIN a : a[i].price \in band) => \A i \in DOMAIN b : b[i].price \in band
<1>1. PICK at \in [DOMAIN b -> DOMAIN a] :
        /\ \A j, k \in DOMAIN b : j < k => at[j] < at[k]
        /\ \A k \in DOMAIN b : Remains(b[k], a[at[k]])
  BY DEF Reduced
<1>2. /\ Len(a) \in Nat /\ DOMAIN a = 1..Len(a)
      /\ Len(b) \in Nat /\ DOMAIN b = 1..Len(b)
  OBVIOUS
<1>3. \A j, k \in DOMAIN b : j # k => at[j] # at[k]
  <2> SUFFICES ASSUME NEW j \in DOMAIN b, NEW k \in DOMAIN b, j # k PROVE at[j] # at[k]
    OBVIOUS
  <2>1. j \in Int /\ k \in Int /\ at[j] \in Int /\ at[k] \in Int
    BY <1>1, <1>2
  <2>2. j < k \/ k < j
    BY <2>1
  <2> QED  BY SMTT(30), <1>1, <2>1, <2>2
<1>4. at \in Injection(DOMAIN b, DOMAIN a)
  BY <1>1, <1>3 DEF Injection, IsInjective
<1>5. ASSUME NEW n \in Nat PROVE IsFiniteSet(1..n) /\ Cardinality(1..n) = n
  BY FS_Interval
<1>6. /\ IsFiniteSet(DOMAIN a) /\ Cardinality(DOMAIN a) = Len(a)
      /\ Cardinality(DOMAIN b) = Len(b)
  BY Zenon, <1>2, <1>5
<1>7. Len(b) <= Len(a)
  <2>1. Cardinality(DOMAIN b) <= Cardinality(DOMAIN a)
    BY Zenon, <1>4, <1>6, FS_Injection
  <2> QED  BY Zenon, <1>6, <2>1
<1>8. \A k \in DOMAIN b : b[k].price = a[at[k]].price /\ at[k] \in DOMAIN a
  BY <1>1 DEF Remains
<1> QED  BY <1>2, <1>7, <1>8

\* What a storage with a pool of orders and a band of prices holds it also holds with
\* orders reduced or gone, whatever the capacity and the band: kIntrusivePoolCapacity
\* alone for the intrusive storage, the prices kMinPrice..kMaxPrice alone for the
\* contiguous one, neither for the baseline.
THEOREM PoolsReducible ==
  ASSUME NEW I, NEW capacity \in Nat, NEW band, NEW pooled \in BOOLEAN, NEW banded \in BOOLEAN,
         \A book : Storable(book) <=>
           /\ pooled => Len(book) <= capacity
           /\ banded => \A i \in DOMAIN book : book[i].price \in band
  PROVE  ReducibleStorage(I)
<1>1. Storable(<<>>)
  <2>1. Len(<<>>) <= capacity /\ DOMAIN <<>> = {}
    OBVIOUS
  <2> QED  BY Zenon, <2>1
<1>2. ASSUME NEW a \in Seq(Orders(I)), NEW b \in Seq(Orders(I)), Storable(a), Reduced(b, a)
      PROVE  Storable(b)
  <2>1. /\ Len(a) <= capacity => Len(b) <= capacity
        /\ (\A i \in DOMAIN a : a[i].price \in band) => \A i \in DOMAIN b : b[i].price \in band
    BY Zenon, <1>2, ReducedFits
  <2> QED  BY Zenon, <1>2, <2>1
<1> QED  BY Zenon, <1>1, <1>2 DEF ReducibleStorage
=============================================================================
