---------------------------- MODULE PlacesProofs -----------------------------
(***************************************************************************)
(* Lemmas about Places: the ranks of a finite set of places are the        *)
(* numbers from 1 to its size, each the rank of one place, and what the    *)
(* sequence of the set in ascending order is when a last place joins it or *)
(* the first one leaves.  And about sequences built value by value: what   *)
(* holds of a fold at every value holds of what it ends with.  And about   *)
(* sequences taken apart: their heads, fronts and the sides of a cut.      *)
(***************************************************************************)
EXTENDS Places, SequencesExt, SequenceTheorems, FiniteSetTheorems, FunctionTheorems,
        WellFoundedInduction, TLAPS

(* Of n places, those in S are ranked 1, 2, ... and every rank is taken.   *)
LEMMA RankIsOneToOne ==
  ASSUME NEW n \in Nat, NEW S \in SUBSET (1..n)
  PROVE  /\ IsFiniteSet(S) /\ Cardinality(S) \in Nat
         /\ \A c \in S : Rank(S, c) \in 1..Cardinality(S)
         /\ \A c, d \in S : Rank(S, c) = Rank(S, d) => c = d
         /\ \A i \in 1..Cardinality(S) : \E c \in S : Rank(S, c) = i
<1> DEFINE N == Cardinality(S)
           UpTo(c) == {d \in S : d <= c}
<1>1. IsFiniteSet(S) /\ N \in Nat
  <2>1. IsFiniteSet(1..n)
    BY FS_Interval
  <2> QED BY <2>1, FS_Subset, FS_CardinalityType
<1>2. ASSUME NEW c \in S
      PROVE  IsFiniteSet(UpTo(c)) /\ Rank(S, c) \in 1..N
  <2>1. IsFiniteSet(UpTo(c)) /\ Cardinality(UpTo(c)) <= N
    BY <1>1, FS_Subset
  <2>2. Cardinality(UpTo(c)) \in Nat
    BY <2>1, FS_CardinalityType
  <2>3. c \in UpTo(c)
    OBVIOUS
  <2>4. Cardinality(UpTo(c)) # 0
    BY <2>1, <2>3, FS_EmptySet
  <2> QED BY <1>1, <2>1, <2>2, <2>4 DEF Rank
<1>3. ASSUME NEW c \in S, NEW d \in S, c < d
      PROVE  Rank(S, c) # Rank(S, d)
  <2>0. \A e \in S : e \in Int
    OBVIOUS
  <2>1. UpTo(c) \in SUBSET UpTo(d) /\ d \in UpTo(d) /\ d \notin UpTo(c)
    <3>1. \A e \in S : e <= c => e <= d
      BY <1>3, <2>0
    <3>2. d <= d /\ ~(d <= c)
      BY <1>3, <2>0
    <3> QED BY <3>1, <3>2
  <2>2. UpTo(c) # UpTo(d)
    BY <2>1
  <2>3. Cardinality(UpTo(d)) # Cardinality(UpTo(c))
    BY <1>2, <2>1, <2>2, FS_Subset
  <2> QED BY <2>3 DEF Rank
<1>4. \A c, d \in S : Rank(S, c) = Rank(S, d) => c = d
  <2>1. \A c, d \in S : c = d \/ c < d \/ d < c
    OBVIOUS
  <2> QED BY <1>3, <2>1
<1> DEFINE f == [c \in S |-> Rank(S, c)]
<1>5. f \in Injection(S, 1..N)
  BY <1>2, <1>4 DEF Injection, IsInjective
<1>6. IsFiniteSet(1..N) /\ Cardinality(1..N) = N
  BY <1>1, FS_Interval
<1>7. f \in Surjection(S, 1..N)
  BY <1>5, <1>6, FS_Injection
<1>8. \A i \in 1..N : \E c \in S : f[c] = i
  BY <1>7 DEF Surjection
<1>9. \A i \in 1..N : \E c \in S : Rank(S, c) = i
  BY <1>8
<1> QED BY <1>1, <1>2, <1>4, <1>9

(* The ascending sequence of S lists each of its places at its rank.       *)
LEMMA AscendingIs ==
  ASSUME NEW n \in Nat, NEW S \in SUBSET (1..n)
  PROVE  /\ Ascending(S) \in [1..Cardinality(S) -> S]
         /\ Ascending(S) \in Seq(S) /\ Len(Ascending(S)) = Cardinality(S)
         /\ \A i \in 1..Cardinality(S) : Rank(S, Ascending(S)[i]) = i
         /\ \A c \in S : Ascending(S)[Rank(S, c)] = c
<1> DEFINE N == Cardinality(S)
<1>1. /\ N \in Nat
      /\ \A c \in S : Rank(S, c) \in 1..N
      /\ \A c, d \in S : Rank(S, c) = Rank(S, d) => c = d
      /\ \A i \in 1..N : \E c \in S : Rank(S, c) = i
  BY RankIsOneToOne
<1>2. \A i \in 1..N : Ascending(S)[i] \in S /\ Rank(S, Ascending(S)[i]) = i
  BY <1>1 DEF Ascending
<1>3. Ascending(S) \in [1..N -> S]
  BY <1>2 DEF Ascending
<1>4. Ascending(S) \in Seq(S) /\ Len(Ascending(S)) = N
  <2> HIDE DEF N
  <2>1. Ascending(S) \in Seq(S)
    BY <1>1, <1>3, SeqDef
  <2> QED BY <1>1, <1>3, <2>1, LenProperties
<1> QED BY <1>1, <1>2, <1>3, <1>4

(* No place, no sequence.                                                  *)
LEMMA AscendingEmpty == Ascending({}) = <<>>
  BY FS_EmptySet DEF Ascending

(* What is selected of a sequence are values of it.                        *)
LEMMA SelectedIs ==
  ASSUME NEW B, NEW seq \in Seq(B), NEW S \in SUBSET DOMAIN seq
  PROVE  Selected(seq, S) \in Seq({seq[i] : i \in S})
<1> DEFINE n == Len(seq)
           places == Ascending(S)
<1>1. n \in Nat /\ DOMAIN seq = 1..n
  BY LenProperties
<1>2. Selected(seq, S) = [k \in DOMAIN places |-> seq[places[k]]]
  BY DEF Selected
<1>3. places \in Seq(S)
  BY <1>1, AscendingIs
<1> HIDE DEF places
<1>4. Len(places) \in Nat /\ DOMAIN places = 1..Len(places)
      /\ \A k \in 1..Len(places) : places[k] \in S
  BY <1>3, LenProperties
<1>5. [k \in DOMAIN places |-> seq[places[k]]] \in [1..Len(places) -> {seq[i] : i \in S}]
  BY <1>4
<1>6. [k \in DOMAIN places |-> seq[places[k]]] \in Seq({seq[i] : i \in S})
  BY <1>4, <1>5
<1> QED BY <1>2, <1>6

(* A place behind all others comes last.                                   *)
LEMMA AscendingAppend ==
  ASSUME NEW n \in Nat, NEW S \in SUBSET (1..n)
  PROVE  Ascending(S \cup {n + 1}) = Append(Ascending(S), n + 1)
<1> DEFINE N == Cardinality(S)
           x == n + 1
           T == S \cup {x}
<1>1. IsFiniteSet(S) /\ N \in Nat /\ x \notin S /\ T \in SUBSET (1..x) /\ x \in Nat
  BY RankIsOneToOne
<1>2. Cardinality(T) = N + 1
  BY <1>1, FS_AddElement
<1>3. \A c \in S : Rank(T, c) = Rank(S, c)
  <2> SUFFICES ASSUME NEW c \in S PROVE Rank(T, c) = Rank(S, c)
    OBVIOUS
  <2>1. {d \in T : d <= c} = {d \in S : d <= c}
    OBVIOUS
  <2> QED BY <2>1 DEF Rank
<1>4. Rank(T, x) = N + 1
  <2>1. \A d \in T : d <= x
    BY <1>1
  <2> HIDE DEF x, T
  <2>2. {d \in T : d <= x} = T
    BY <2>1
  <2> QED BY <1>2, <2>2 DEF Rank
<1> HIDE DEF x, T
<1>5. /\ Ascending(S) \in Seq(S) /\ Len(Ascending(S)) = N
      /\ \A i \in 1..N : Ascending(S)[i] \in S /\ Rank(S, Ascending(S)[i]) = i
  BY AscendingIs
<1>6. /\ Ascending(T) \in [1..(N + 1) -> T]
      /\ \A c \in T : Ascending(T)[Rank(T, c)] = c
  BY <1>1, <1>2, AscendingIs
<1>7. /\ x \in T /\ \A c \in S : c \in T
  BY DEF T
<1>8. Ascending(T)[N + 1] = x /\ \A i \in 1..N : Ascending(T)[i] = Ascending(S)[i]
  BY <1>3, <1>4, <1>5, <1>6, <1>7
<1>9. /\ Append(Ascending(S), x) \in Seq(S \cup {x})
      /\ Len(Append(Ascending(S), x)) = N + 1
      /\ \A i \in 1..N : Append(Ascending(S), x)[i] = Ascending(S)[i]
      /\ Append(Ascending(S), x)[N + 1] = x
  <2>1. Ascending(S) \in Seq(S \cup {x})
    BY <1>5, SeqMonotonic
  <2> QED BY <1>1, <1>5, <2>1, AppendProperties
<1>10. Append(Ascending(S), x) = [i \in 1..(N + 1) |-> Append(Ascending(S), x)[i]]
  BY <1>9, LenProperties
<1>11. \A i \in 1..(N + 1) : i \in 1..N \/ i = N + 1
  BY <1>1
<1>12. \A i \in 1..(N + 1) : Ascending(T)[i] = Append(Ascending(S), x)[i]
  BY <1>8, <1>9, <1>11
<1>13. Ascending(T) = Append(Ascending(S), x)
  BY <1>6, <1>10, <1>12
<1> QED BY <1>13 DEF T, x

(* Without its least place the sequence is the rest of it.                 *)
LEMMA AscendingTail ==
  ASSUME NEW n \in Nat, NEW S \in SUBSET (1..n), NEW h \in S, \A d \in S : h <= d
  PROVE  /\ Ascending(S) # <<>> /\ Head(Ascending(S)) = h
         /\ Tail(Ascending(S)) = Ascending(S \ {h})
<1> DEFINE N == Cardinality(S)
           T == S \ {h}
<1>1. IsFiniteSet(S) /\ N \in Nat /\ N # 0 /\ T \in SUBSET (1..n) /\ h \in Nat
  BY RankIsOneToOne, FS_EmptySet
<1>2. Cardinality(T) = N - 1
  BY <1>1, FS_RemoveElement
<1>3. Rank(S, h) = 1
  <2>1. \A d \in S : d <= h <=> d = h
    BY <1>1
  <2>2. {d \in S : d <= h} = {h}
    BY <2>1
  <2> QED BY <2>2, FS_Singleton DEF Rank
<1>4. \A c \in T : Rank(T, c) = Rank(S, c) - 1
  <2> SUFFICES ASSUME NEW c \in T PROVE Rank(T, c) = Rank(S, c) - 1
    OBVIOUS
  <2>1. /\ {d \in T : d <= c} = {d \in S : d <= c} \ {h}
        /\ h \in {d \in S : d <= c}
        /\ {d \in S : d <= c} \in SUBSET S
    OBVIOUS
  <2> DEFINE U == {d \in S : d <= c}
  <2>2. IsFiniteSet(U)
    BY <1>1, <2>1, FS_Subset
  <2>3. Cardinality(U \ {h}) = Cardinality(U) - 1
    BY <2>1, <2>2, FS_RemoveElement
  <2> QED BY <2>1, <2>3 DEF Rank
<1> HIDE DEF T
<1>5. /\ Ascending(S) \in [1..N -> S] /\ Ascending(S) \in Seq(S) /\ Len(Ascending(S)) = N
      /\ \A i \in 1..N : Rank(S, Ascending(S)[i]) = i
      /\ \A c \in S : Ascending(S)[Rank(S, c)] = c
  BY AscendingIs
<1>6. /\ Ascending(T) \in [1..(N - 1) -> T]
      /\ \A c \in T : Ascending(T)[Rank(T, c)] = c
  BY <1>1, <1>2, AscendingIs
<1>7. Ascending(S)[1] = h
  BY <1>3, <1>5
<1>8. Ascending(S) # <<>> /\ Head(Ascending(S)) = h
  <2>1. Ascending(S) # <<>>
    BY <1>1, <1>5
  <2> QED BY <1>5, <1>7, <2>1, HeadTailProperties
<1>9. /\ Tail(Ascending(S)) \in Seq(S) /\ Len(Tail(Ascending(S))) = N - 1
      /\ \A i \in 1..(N - 1) : Tail(Ascending(S))[i] = Ascending(S)[i + 1]
  BY <1>5, <1>8, HeadTailProperties
<1>10. \A i \in 1..(N - 1) : Ascending(T)[i] = Ascending(S)[i + 1]
  <2> SUFFICES ASSUME NEW i \in 1..(N - 1) PROVE Ascending(T)[i] = Ascending(S)[i + 1]
    OBVIOUS
  <2> DEFINE c == Ascending(S)[i + 1]
  <2>1. i + 1 \in 1..N /\ i + 1 # 1
    BY <1>1
  <2>2. c \in S /\ Rank(S, c) = i + 1
    BY <1>5, <2>1
  <2>3. c \in T
    BY <1>3, <2>1, <2>2 DEF T
  <2>4. Rank(T, c) = i
    BY <1>4, <2>2, <2>3
  <2> QED BY <1>6, <2>3, <2>4
<1>11. Tail(Ascending(S)) = [i \in 1..(N - 1) |-> Tail(Ascending(S))[i]]
  BY <1>9, LenProperties
<1>12. Tail(Ascending(S)) = Ascending(T)
  BY <1>6, <1>9, <1>10, <1>11
<1> QED BY <1>8, <1>12 DEF T

-----------------------------------------------------------------------------
(* A finite set in a strict total order: each of its elements once.        *)
LEMMA InOrderIs ==
  ASSUME NEW S, IsFiniteSet(S), NEW before,
         \A x \in S : <<x, x>> \notin before,
         \A x, y \in S : x # y => <<x, y>> \in before \/ <<y, x>> \in before,
         \A x, y, z \in S :
           <<x, y>> \in before /\ <<y, z>> \in before => <<x, z>> \in before
  PROVE  /\ Cardinality(S) \in Nat
         /\ InOrder(S, before) \in Seq(S) /\ Len(InOrder(S, before)) = Cardinality(S)
         /\ DOMAIN InOrder(S, before) = 1..Cardinality(S)
         /\ \A i, j \in 1..Cardinality(S) :
              InOrder(S, before)[i] = InOrder(S, before)[j] => i = j
         /\ \A x \in S : \E i \in 1..Cardinality(S) : InOrder(S, before)[i] = x
<1> DEFINE N == Cardinality(S)
           UpTo(x) == {y \in S : y = x \/ <<y, x>> \in before}
           P(x) == Position(S, before, x)
<1>1. N \in Nat
  BY FS_CardinalityType
<1>2. ASSUME NEW x \in S
      PROVE  IsFiniteSet(UpTo(x)) /\ P(x) \in 1..N
  <2>1. IsFiniteSet(UpTo(x)) /\ Cardinality(UpTo(x)) <= N
    BY FS_Subset
  <2>2. Cardinality(UpTo(x)) \in Nat
    BY <2>1, FS_CardinalityType
  <2>3. x \in UpTo(x)
    OBVIOUS
  <2>4. Cardinality(UpTo(x)) # 0
    BY <2>1, <2>3, FS_EmptySet
  <2> QED BY <1>1, <2>1, <2>2, <2>4 DEF Position
<1>3. ASSUME NEW x \in S, NEW y \in S, <<x, y>> \in before
      PROVE  P(x) # P(y)
  <2>1. UpTo(x) \in SUBSET UpTo(y) /\ y \in UpTo(y) /\ y \notin UpTo(x)
    BY <1>3
  <2>2. UpTo(x) # UpTo(y)
    BY <2>1
  <2>3. Cardinality(UpTo(y)) # Cardinality(UpTo(x))
    BY <1>2, <2>1, <2>2, FS_Subset
  <2> QED BY <2>3 DEF Position
<1>4. \A x, y \in S : P(x) = P(y) => x = y
  BY <1>3
<1> DEFINE f == [x \in S |-> P(x)]
<1>5. f \in Injection(S, 1..N)
  BY <1>2, <1>4 DEF Injection, IsInjective
<1>6. IsFiniteSet(1..N) /\ Cardinality(1..N) = N
  BY <1>1, FS_Interval
<1>7. f \in Surjection(S, 1..N)
  BY <1>5, <1>6, FS_Injection
<1>8. \A i \in 1..N : \E x \in S : P(x) = i
  BY <1>7 DEF Surjection
<1> HIDE DEF P
<1>9. \A i \in 1..N : InOrder(S, before)[i] \in S /\ P(InOrder(S, before)[i]) = i
  BY <1>8 DEF InOrder, P
<1>10. InOrder(S, before) \in [1..N -> S]
  BY <1>9 DEF InOrder
<1>11. InOrder(S, before) \in Seq(S) /\ Len(InOrder(S, before)) = N
  <2> HIDE DEF N
  <2>1. InOrder(S, before) \in Seq(S)
    BY <1>1, <1>10, SeqDef
  <2> QED BY <1>1, <1>10, <2>1, LenProperties
<1>12. \A x \in S : P(x) \in 1..N /\ InOrder(S, before)[P(x)] = x
  BY <1>2, <1>4, <1>9 DEF P
<1> QED BY <1>1, <1>9, <1>10, <1>11, <1>12

-----------------------------------------------------------------------------
(* A nonempty set of numbers has a least one.                              *)
LEMMA LeastNat ==
  ASSUME NEW S \in SUBSET Nat, S # {}
  PROVE  \E m \in S : \A k \in S : m <= k
<1>1. PICK m \in S : \A k \in S : ~(<<k, m>> \in OpToRel(<, Nat))
  BY WFMin, NatLessThanWellFounded
<1>2. \A k \in S : ~(k < m)
  BY <1>1 DEF OpToRel
<1>3. \A k \in S : k \in Nat
  OBVIOUS
<1> QED
  BY <1>2, <1>3

(* A finite set of integers has a largest and a smallest member.           *)
LEMMA ExtremesExist ==
  ASSUME NEW V \in SUBSET Int, IsFiniteSet(V), V # {}
  PROVE  Max(V) \in V /\ Min(V) \in V /\ \A v \in V : Min(V) <= v /\ v <= Max(V)
<1> DEFINE Bounded(W) == \E lo, hi \in W : \A w \in W : lo <= w /\ w <= hi
           Of(n) == {W \in SUBSET V : W # {} /\ ~Bounded(W) /\ Cardinality(W) = n}
           bad == {n \in Nat : Of(n) # {}}
<1>1. \A W \in SUBSET V : IsFiniteSet(W) /\ Cardinality(W) \in Nat
  BY FS_Subset, FS_CardinalityType
<1>2. ASSUME bad # {}
      PROVE  FALSE
  <2>1. PICK n \in bad : \A k \in bad : n <= k
    <3> HIDE DEF Of
    <3> QED
      BY <1>2, LeastNat
  <2>2. PICK W \in SUBSET V : W # {} /\ ~Bounded(W) /\ Cardinality(W) = n
    OBVIOUS
  <2>3. PICK w \in W : TRUE
    BY <2>2
  <2> DEFINE U == W \ {w}
  <2>4. U \in SUBSET V /\ Cardinality(U) = n - 1 /\ n - 1 \in Nat
    <3>1. IsFiniteSet(W)
      BY <1>1
    <3>2. Cardinality(U) = n - 1
      BY <2>2, <2>3, <3>1, FS_RemoveElement
    <3>3. U \in SUBSET V
      OBVIOUS
    <3> QED
      BY <1>1, <3>2, <3>3
  <2>5. CASE U = {}
    <3>1. W = {w} /\ w \in Int
      BY <2>3, <2>5
    <3>2. Bounded(W)
      BY <3>1
    <3> QED
      BY <2>2, <3>2
  <2>6. CASE U # {}
    <3>1. Bounded(U)
      <4>1. n - 1 \notin bad
        <5>1. n \in Int /\ n - 1 \in Int
          BY <2>4
        <5> HIDE DEF bad
        <5> QED
          BY <2>1, <5>1
      <4> QED
        BY <2>4, <2>6, <4>1
    <3>2. PICK lo, hi \in U : \A u \in U : lo <= u /\ u <= hi
      BY <3>1
    <3>3. \A u \in W : u \in Int
      OBVIOUS
    <3>4. PICK low \in {lo, w} : low <= lo /\ low <= w
      BY <3>2, <3>3, <2>3
    <3>5. PICK high \in {hi, w} : hi <= high /\ w <= high
      BY <3>2, <3>3, <2>3
    <3>6. \A u \in W : low <= u /\ u <= high
      <4> SUFFICES ASSUME NEW u \in W PROVE low <= u /\ u <= high
        OBVIOUS
      <4>1. low \in Int /\ high \in Int /\ lo \in Int /\ hi \in Int /\ u \in Int
        BY <3>2, <3>3, <3>4, <3>5, <2>3
      <4>2. CASE u = w
        BY <3>4, <3>5, <4>2
      <4>3. CASE u \in U
        BY <3>2, <3>4, <3>5, <4>1, <4>3
      <4> QED
        BY <4>2, <4>3
    <3>7. low \in W /\ high \in W
      BY <2>3, <3>2, <3>4, <3>5
    <3>8. Bounded(W)
      BY <3>6, <3>7
    <3> QED
      BY <2>2, <3>8
  <2> QED
    BY <2>5, <2>6
<1>3. Bounded(V)
  BY <1>1, <1>2
<1> HIDE DEF bad
<1>4. PICK lo, hi \in V : \A v \in V : lo <= v /\ v <= hi
  BY <1>3
<1>5. Max(V) \in V /\ \A v \in V : Max(V) >= v
  <2>1. \E x \in V : \A y \in V : x >= y
    BY <1>4
  <2> QED
    BY <2>1 DEF Max
<1>6. Min(V) \in V /\ \A v \in V : Min(V) <= v
  <2>1. \E x \in V : \A y \in V : x =< y
    BY <1>4
  <2> QED
    BY <2>1 DEF Min
<1> QED
  BY <1>5, <1>6

(* Induction, over a set of numbers. *)
LEMMA EveryNat ==
  ASSUME NEW S, 0 \in S, \A n \in Nat : n \in S => n + 1 \in S
  PROVE  \A n \in Nat : n \in S
<1> DEFINE bad == Nat \ S
<1>1. ASSUME bad # {} PROVE FALSE
  <2>1. bad \in SUBSET Nat
    OBVIOUS
  <2>2. PICK m \in bad : \A k \in bad : m <= k
    <3> HIDE DEF bad
    <3> QED BY <1>1, <2>1, LeastNat
  <2>3. m # 0 /\ m \in Nat
    OBVIOUS
  <2>4. m - 1 \in Nat /\ m - 1 \notin bad /\ m - 1 + 1 = m
    <3>1. m - 1 \in Nat /\ ~(m <= m - 1) /\ m - 1 + 1 = m
      BY <2>3
    <3> HIDE DEF bad
    <3> QED BY <2>2, <3>1
  <2> QED BY <2>4
<1> QED BY <1>1

(* The last of the first i numbers, and the rest of them.                  *)
LEMMA UpToIs ==
  ASSUME NEW i \in Nat \ {0}
  PROVE  Max(1..i) = i /\ (1..i) \ {i} = 1..(i - 1) /\ 1..i # {}
<1>1. i \in 1..i /\ \A y \in 1..i : i >= y
  OBVIOUS
<1>2. \A x \in 1..i : (\A y \in 1..i : x >= y) => x = i
  BY <1>1
<1>3. Max(1..i) = i
  BY <1>1, <1>2 DEF Max
<1> QED BY <1>1, <1>3

(* The largest of some of n numbers is one of them.                        *)
LEMMA MaxIsIn ==
  ASSUME NEW n \in Nat, NEW s \in SUBSET (1..n), s # {}
  PROVE  Max(s) \in s
<1>1. IsFiniteSet(s)
  BY RankIsOneToOne
<1>2. s \in SUBSET Int
  OBVIOUS
<1> QED BY <1>1, <1>2, ExtremesExist

(* What FoldLeft recurses on, and that it has a solution. *)
FoldsBy(it, base, n, step) ==
  \A s \in SUBSET (1..n) :
    it[s] = IF s = {} THEN base ELSE step[<<Max(s), it[s \ {Max(s)}]>>]

(* A fold over the subsets of n numbers, largest last, has a value.        *)
LEMMA FoldExists ==
  ASSUME NEW X, NEW base \in X, NEW n \in Nat, NEW step \in [(1..n) \X X -> X]
  PROVE  \E it \in [SUBSET (1..n) -> X] : FoldsBy(it, base, n, step)
<1> DEFINE Solves(it, m) ==
             \A s \in SUBSET (1..m) :
               it[s] = IF s = {} THEN base ELSE step[<<Max(s), it[s \ {Max(s)}]>>]
           good == {m \in Nat : m <= n => \E it \in [SUBSET (1..m) -> X] : Solves(it, m)}
<1>1. 0 \in good
  <2> DEFINE it == [s \in SUBSET (1..0) |-> base]
  <2>1. \A s \in SUBSET (1..0) : s = {}
    OBVIOUS
  <2>2. it \in [SUBSET (1..0) -> X] /\ Solves(it, 0)
    BY <2>1
  <2> QED BY <2>2
<1>2. ASSUME NEW m \in Nat, m \in good PROVE m + 1 \in good
  <2> SUFFICES ASSUME m + 1 <= n
               PROVE  \E it \in [SUBSET (1..(m + 1)) -> X] : Solves(it, m + 1)
    <3> HIDE DEF Solves
    <3>1. m + 1 \in Nat
      OBVIOUS
    <3> QED BY <3>1
  <2>1. PICK it \in [SUBSET (1..m) -> X] : Solves(it, m)
    <3>1. m <= n
      OBVIOUS
    <3> QED BY <1>2, <3>1
  <2> DEFINE x == m + 1
             more == [s \in SUBSET (1..x) |->
                        IF x \in s THEN step[<<x, it[s \ {x}]>>] ELSE it[s]]
  <2>2. x \in 1..n /\ \A s \in SUBSET (1..x) : s \ {x} \in SUBSET (1..m)
    OBVIOUS
  <2>3. \A s \in SUBSET (1..x) : x \notin s => s \in SUBSET (1..m)
    OBVIOUS
  <2>4. \A s \in SUBSET (1..x) : more[s] \in X
    <3> SUFFICES ASSUME NEW s \in SUBSET (1..x) PROVE more[s] \in X
      OBVIOUS
    <3>1. CASE x \in s
      <4>1. it[s \ {x}] \in X
        BY <2>2
      <4>2. <<x, it[s \ {x}]>> \in (1..n) \X X
        BY <2>2, <4>1
      <4> QED BY <3>1, <4>2
    <3>2. CASE x \notin s
      BY <2>3, <3>2
    <3> QED BY <3>1, <3>2
  <2>5. more \in [SUBSET (1..x) -> X]
    BY <2>4
  <2>6. ASSUME NEW s \in SUBSET (1..x)
        PROVE  more[s] = IF s = {} THEN base ELSE step[<<Max(s), more[s \ {Max(s)}]>>]
    <3>1. CASE x \in s
      <4>1. \A y \in s : x >= y
        OBVIOUS
      <4>2. \A z \in s : (\A y \in s : z >= y) => z = x
        BY <3>1, <4>1
      <4>3. Max(s) = x
        BY <3>1, <4>1, <4>2 DEF Max
      <4>4. more[s \ {x}] = it[s \ {x}]
        BY <2>2
      <4> QED BY <3>1, <4>3, <4>4
    <3>2. CASE x \notin s
      <4>1. s \in SUBSET (1..m) /\ more[s] = it[s]
        BY <2>3, <3>2
      <4>2. more[s \ {Max(s)}] = it[s \ {Max(s)}]
        BY <3>2
      <4>3. it[s] = IF s = {} THEN base ELSE step[<<Max(s), it[s \ {Max(s)}]>>]
        BY <2>1, <4>1
      <4> QED BY <4>1, <4>2, <4>3
    <3> QED BY <3>1, <3>2
  <2> HIDE DEF more
  <2> QED BY <2>5, <2>6
<1>3. n \in good
  <2>1. \A m \in Nat : m \in good => m + 1 \in good
    BY <1>2
  <2> HIDE DEF good
  <2> QED BY <1>1, <2>1, EveryNat
<1>4. n <= n
  OBVIOUS
<1>5. \E it \in [SUBSET (1..n) -> X] : Solves(it, n)
  <2> HIDE DEF Solves
  <2> QED BY <1>3, <1>4
<1> QED BY <1>5 DEF FoldsBy

(* Whatever solves it goes along the places one by one. *)
Runs(run, h, base, n, step) ==
  /\ h[0] = base /\ h[n] = run[1..n]
  /\ \A i \in 1..n : h[i] = step[<<i, h[i - 1]>>]

(* What a fold takes its values from may be any function that steps so.    *)
Follows(run, X, base, n, step) ==
  /\ run[{}] = base
  /\ \A s \in SUBSET (1..n) : s # {} /\ run[s \ {Max(s)}] \in X
       => run[s] = step[<<Max(s), run[s \ {Max(s)}]>>]

(* Such a fold goes through a value for each of the n numbers.             *)
LEMMA FoldRuns ==
  ASSUME NEW X, NEW base \in X, NEW n \in Nat, NEW step \in [(1..n) \X X -> X],
         NEW run, Follows(run, X, base, n, step)
  PROVE  \E h \in [0..n -> X] : Runs(run, h, base, n, step)
<1> USE DEF Follows
<1>1. 1..0 = {}
  OBVIOUS
<1>2. ASSUME NEW i \in Nat, i + 1 <= n, run[1..i] \in X
      PROVE  run[1..(i + 1)] = step[<<i + 1, run[1..i]>>] /\ run[1..(i + 1)] \in X
  <2>1. Max(1..(i + 1)) = i + 1 /\ (1..(i + 1)) \ {i + 1} = 1..i /\ 1..(i + 1) # {}
    <3>1. i + 1 \in Nat \ {0} /\ i + 1 - 1 = i
      OBVIOUS
    <3> QED BY <3>1, UpToIs
  <2>2. 1..(i + 1) \in SUBSET (1..n) /\ i + 1 \in 1..n
    BY <1>2
  <2> QED BY <1>2, <2>1, <2>2
<1> DEFINE good == {i \in Nat : i <= n => run[1..i] \in X}
<1>3. \A i \in Nat : i \in good
  <2>1. 0 \in good
    BY <1>1
  <2>2. \A i \in Nat : i \in good => i + 1 \in good
    <3> SUFFICES ASSUME NEW i \in Nat, i \in good, i + 1 <= n PROVE run[1..(i + 1)] \in X
      OBVIOUS
    <3>1. i <= n
      OBVIOUS
    <3> QED BY <1>2, <3>1
  <2> HIDE DEF good
  <2> QED BY <2>1, <2>2, EveryNat
<1> DEFINE h == [i \in 0..n |-> run[1..i]]
<1>4. h \in [0..n -> X]
  BY <1>3
<1>5. ASSUME NEW i \in 1..n PROVE h[i] = step[<<i, h[i - 1]>>]
  <2>1. i - 1 \in Nat /\ i - 1 + 1 = i /\ i - 1 <= n /\ i \in 0..n /\ i - 1 \in 0..n
    OBVIOUS
  <2>2. run[1..(i - 1)] \in X
    BY <1>3, <2>1
  <2>3. run[1..(i - 1 + 1)] = step[<<i - 1 + 1, run[1..(i - 1)]>>]
    BY <1>2, <2>1, <2>2
  <2> QED BY <2>1, <2>3
<1>6. h[0] = base /\ h[n] = run[1..n]
  BY <1>1
<1> HIDE DEF h
<1> QED BY <1>4, <1>5, <1>6 DEF Runs

(* What holds of a fold step by step: Inv[i] is where it may be after i of  *)
(* the n values.                                                           *)
LEMMA FoldKeeps ==
  ASSUME NEW X, NEW base \in X, NEW n \in Nat, NEW step \in [(1..n) \X X -> X],
         NEW run, Follows(run, X, base, n, step),
         NEW Inv \in [0..n -> SUBSET X], base \in Inv[0],
         \A j \in 1..n : \A x \in Inv[j - 1] : step[<<j, x>>] \in Inv[j]
  PROVE  run[1..n] \in Inv[n]
<1>1. PICK h \in [0..n -> X] : Runs(run, h, base, n, step)
  BY FoldRuns
<1> DEFINE good == {i \in Nat : i <= n => h[i] \in Inv[i]}
<1>2. \A i \in Nat : i \in good
  <2>1. 0 \in good
    BY <1>1 DEF Runs
  <2>2. \A i \in Nat : i \in good => i + 1 \in good
    <3> SUFFICES ASSUME NEW i \in Nat, i \in good, i + 1 <= n PROVE h[i + 1] \in Inv[i + 1]
      OBVIOUS
    <3> DEFINE j == i + 1
    <3>1. j \in 1..n /\ j - 1 = i /\ h[i] \in Inv[i]
      OBVIOUS
    <3> HIDE DEF j
    <3>2. h[j] = step[<<j, h[j - 1]>>]
      BY <1>1, <3>1 DEF Runs
    <3>3. h[j] \in Inv[j]
      BY <3>1, <3>2
    <3> QED BY <3>3 DEF j
  <2> HIDE DEF good
  <2> QED BY <2>1, <2>2, EveryNat
<1>3. n \in good /\ n <= n
  <2> HIDE DEF good
  <2> QED BY <1>2
<1> QED BY <1>1, <1>3 DEF Runs

(* One more value is one more step.                                        *)
IsStep(step, X, n) == step \in [(1..n) \X X -> X]
Continues(longer, step, X, n) ==
  \A j \in 1..n : \A x \in X : longer[<<j, x>>] = step[<<j, x>>]
EndsBy(more, m, longer, x) == more[1..m] = longer[<<m, x>>]

LEMMA FoldAppend ==
  ASSUME NEW X, NEW base \in X, NEW n \in Nat, NEW m \in Nat, m = n + 1,
         NEW step, IsStep(step, X, n), NEW longer, IsStep(longer, X, m),
         Continues(longer, step, X, n), NEW run, Follows(run, X, base, n, step),
         NEW more, Follows(more, X, base, m, longer)
  PROVE  EndsBy(more, m, longer, run[1..n])
<1>0. step \in [(1..n) \X X -> X] /\ longer \in [(1..m) \X X -> X]
  BY DEF IsStep
<1>1. PICK h \in [0..n -> X] : Runs(run, h, base, n, step)
  BY <1>0, FoldRuns
<1>2. PICK g \in [0..m -> X] : Runs(more, g, base, m, longer)
  BY <1>0, FoldRuns
<1> DEFINE good == {i \in Nat : i <= n => g[i] = h[i]}
<1>3. \A i \in Nat : i \in good
  <2>1. 0 \in good
    BY <1>1, <1>2 DEF Runs
  <2>2. \A i \in Nat : i \in good => i + 1 \in good
    <3> SUFFICES ASSUME NEW i \in Nat, i \in good, i + 1 <= n PROVE g[i + 1] = h[i + 1]
      OBVIOUS
    <3> DEFINE j == i + 1
    <3>1. j \in 1..n /\ j \in 1..m /\ j - 1 = i /\ g[i] = h[i] /\ h[i] \in X
      BY <1>1
    <3> HIDE DEF j
    <3>2. h[j] = step[<<j, h[i]>>] /\ g[j] = longer[<<j, g[i]>>]
      BY <1>1, <1>2, <3>1 DEF Runs
    <3>3. g[j] = h[j]
      BY <3>1, <3>2 DEF Continues
    <3> QED BY <3>3 DEF j
  <2> HIDE DEF good
  <2> QED BY <2>1, <2>2, EveryNat
<1>4. n \in good /\ n <= n /\ m \in 1..m /\ m - 1 = n /\ n \in 0..n
  <2> HIDE DEF good
  <2> QED BY <1>3
<1> QED BY <1>1, <1>2, <1>4 DEF Runs, EndsBy

(* Sequences put one after the other. *)
Joins(h, seqs) ==
  /\ FlattenSeq(seqs) = h[Len(seqs)] /\ h[0] = <<>>
  /\ \A i \in 1..Len(seqs) : h[i] = h[i - 1] \o seqs[i]

(* Sequences are put together one at a time.                               *)
LEMMA FlattenRuns ==
  ASSUME NEW S, NEW seqs \in Seq(Seq(S))
  PROVE  \E h \in [0..Len(seqs) -> Seq(S)] : Joins(h, seqs)
<1> DEFINE n == Len(seqs)
           Flat1(f) == f = [i \in 1..n |-> IF i = 1 THEN seqs[i] ELSE f[i - 1] \o seqs[i]]
           flatten == CHOOSE f : Flat1(f)
           step == [p \in (1..n) \X Seq(S) |-> p[2] \o seqs[p[1]]]
<1>1. n \in Nat /\ DOMAIN seqs = 1..n /\ \A i \in 1..n : seqs[i] \in Seq(S)
  BY LenProperties
<1>2. <<>> \in Seq(S) /\ step \in [(1..n) \X Seq(S) -> Seq(S)]
  BY <1>1, ConcatProperties, EmptySeq
<1>3. PICK it \in [SUBSET (1..n) -> Seq(S)] : FoldsBy(it, <<>>, n, step)
  <2> HIDE DEF step, n
  <2> QED BY <1>1, <1>2, FoldExists
<1>4. Follows(it, Seq(S), <<>>, n, step)
  <2> HIDE DEF step, n
  <2> QED BY <1>3 DEF FoldsBy, Follows
<1>5. PICK h \in [0..n -> Seq(S)] : Runs(it, h, <<>>, n, step)
  <2> HIDE DEF step, n
  <2> QED BY <1>1, <1>2, <1>4, FoldRuns
<1>6. \A i \in 1..n : h[i - 1] \in Seq(S) /\ h[i] = h[i - 1] \o seqs[i]
  <2>1. \A i \in 1..n : i - 1 \in 0..n
    BY <1>1
  <2>2. \A i \in 1..n : <<i, h[i - 1]>> \in (1..n) \X Seq(S)
    BY <1>5, <2>1
  <2> QED BY <1>5, <2>2 DEF Runs
<1>7. h[0] = <<>>
  BY <1>5 DEF Runs
<1>8. CASE n = 0
  <2>1. seqs = <<>> /\ FlattenSeq(seqs) = seqs
    BY <1>8, EmptySeq DEF FlattenSeq
  <2>2. Joins(h, seqs)
    BY <1>6, <1>7, <1>8, <2>1 DEF Joins
  <2> QED BY <2>2
<1>9. CASE n # 0
  <2> DEFINE f == [i \in 1..n |-> h[i]]
  <2>1. Flat1(f)
    <3>1. ASSUME NEW i \in 1..n
          PROVE  f[i] = IF i = 1 THEN seqs[i] ELSE f[i - 1] \o seqs[i]
      <4>1. CASE i = 1
        <5>1. 1 \in 1..n /\ 1 - 1 = 0
          BY <4>1
        <5>2. h[1] = h[1 - 1] \o seqs[1] /\ seqs[1] \in Seq(S)
          BY <1>1, <1>6, <5>1
        <5> QED BY <1>7, <4>1, <5>1, <5>2, ConcatEmptySeq
      <4>2. CASE i # 1
        <5>1. i - 1 \in 1..n
          BY <4>2
        <5> QED BY <1>6, <4>2, <5>1
      <4> QED BY <4>1, <4>2
    <3> QED BY <3>1
  <2>2. Flat1(flatten)
    <3> HIDE DEF Flat1
    <3> QED BY <2>1
  <2>9. \A i \in 1..n : i # 1 => flatten[i] = flatten[i - 1] \o seqs[i]
    BY <2>2
  <2>3. FlattenSeq(seqs) = flatten[n]
    BY <1>9 DEF FlattenSeq
  <2> HIDE DEF flatten
  <2> DEFINE good == {i \in Nat : i + 1 <= n => flatten[i + 1] = h[i + 1]}
  <2>4. \A i \in Nat : i \in good
    <3>1. 0 \in good
      <4>1. 1 \in 1..n
        BY <1>1, <1>9
      <4>2. flatten[1] = seqs[1]
        BY <2>2, <4>1
      <4>3. h[1] = h[1 - 1] \o seqs[1] /\ seqs[1] \in Seq(S) /\ 1 - 1 = 0
        BY <1>1, <1>6, <4>1
      <4>4. <<>> \o seqs[1] = seqs[1]
        BY <4>3, ConcatEmptySeq
      <4>5. h[1 - 1] = <<>>
        BY <1>7
      <4>6. flatten[0 + 1] = h[0 + 1]
        BY <4>2, <4>3, <4>4, <4>5
      <4> QED BY <4>6
    <3>2. \A i \in Nat : i \in good => i + 1 \in good
      <4> SUFFICES ASSUME NEW i \in Nat, i \in good, i + 1 + 1 <= n
                   PROVE  flatten[i + 1 + 1] = h[i + 1 + 1]
        OBVIOUS
      <4> DEFINE j == i + 2
      <4>1. j \in 1..n /\ i + 1 <= n /\ j # 1 /\ j - 1 = i + 1 /\ i + 1 + 1 = j
        BY <1>1
      <4> HIDE DEF j
      <4>2. flatten[j] = flatten[j - 1] \o seqs[j] /\ h[j] = h[j - 1] \o seqs[j]
        BY <1>6, <2>9, <4>1
      <4>3. flatten[i + 1] = h[i + 1]
        BY <4>1
      <4> QED BY <4>1, <4>2, <4>3
    <3> HIDE DEF good
    <3> QED BY <3>1, <3>2, EveryNat
  <2>5. n - 1 \in Nat /\ n - 1 + 1 = n /\ n <= n
    BY <1>1, <1>9
  <2>6. flatten[n] = h[n]
    BY <2>4, <2>5
  <2>7. Joins(h, seqs)
    BY <1>6, <1>7, <2>3, <2>6 DEF Joins
  <2> QED BY <2>7
<1> QED BY <1>8, <1>9

(* FlattenSeq, sequence by sequence.                                       *)
LEMMA FlattenIs ==
  ASSUME NEW S, NEW seqs \in Seq(Seq(S))
  PROVE  /\ FlattenSeq(seqs) \in Seq(S) /\ FlattenSeq(<<>>) = <<>>
         /\ \A t \in Seq(S) : FlattenSeq(Append(seqs, t)) = FlattenSeq(seqs) \o t
<1> DEFINE n == Len(seqs)
<1>1. n \in Nat /\ n \in 0..n
  BY LenProperties
<1>2. PICK h \in [0..n -> Seq(S)] : Joins(h, seqs)
  BY FlattenRuns
<1>6. \A i \in 1..n : h[i] = h[i - 1] \o seqs[i]
  BY <1>2 DEF Joins
<1>7. FlattenSeq(seqs) \in Seq(S)
  BY <1>1, <1>2 DEF Joins
<1>4. FlattenSeq(<<>>) = <<>>
  BY EmptySeq, LenProperties DEF FlattenSeq
<1>5. ASSUME NEW t \in Seq(S)
      PROVE  FlattenSeq(Append(seqs, t)) = FlattenSeq(seqs) \o t
  <2> DEFINE more == Append(seqs, t)
  <2>1. more \in Seq(Seq(S)) /\ Len(more) = n + 1
        /\ more[n + 1] = t /\ \A i \in 1..n : more[i] = seqs[i]
    BY <1>5, AppendProperties
  <2> HIDE DEF more
  <2>2. PICK g \in [0..Len(more) -> Seq(S)] : Joins(g, more)
    BY <2>1, FlattenRuns
  <2>9. \A i \in 1..(n + 1) : g[i] = g[i - 1] \o more[i]
    BY <2>1, <2>2 DEF Joins
  <2> DEFINE good == {i \in Nat : i <= n => g[i] = h[i]}
  <2>3. \A i \in Nat : i \in good
    <3>1. 0 \in good
      BY <1>2, <2>2 DEF Joins
    <3>2. \A i \in Nat : i \in good => i + 1 \in good
      <4> SUFFICES ASSUME NEW i \in Nat, i \in good, i + 1 <= n PROVE g[i + 1] = h[i + 1]
        OBVIOUS
      <4> DEFINE j == i + 1
      <4>1. j \in 1..n /\ j \in 1..(n + 1) /\ j - 1 = i /\ i <= n
        BY <1>1
      <4> HIDE DEF j
      <4>2. g[j] = g[j - 1] \o seqs[j] /\ h[j] = h[j - 1] \o seqs[j]
        BY <1>6, <2>1, <2>9, <4>1
      <4> QED BY <4>1, <4>2 DEF j
    <3> HIDE DEF good
    <3> QED BY <3>1, <3>2, EveryNat
  <2> DEFINE x == n + 1
  <2>4. n \in good /\ n <= n /\ x \in 1..(n + 1) /\ x - 1 = n /\ Len(more) = x /\ more[x] = t
    <3> HIDE DEF good
    <3> QED BY <1>1, <2>1, <2>3
  <2> HIDE DEF x
  <2>5. g[x] = g[x - 1] \o t /\ FlattenSeq(more) = g[x]
    BY <2>2, <2>4, <2>9 DEF Joins
  <2>6. FlattenSeq(seqs) = h[n]
    BY <1>2 DEF Joins
  <2> QED BY <2>4, <2>5, <2>6 DEF more
<1> QED BY <1>4, <1>5, <1>7

(* A sequence is its front and its last value.                             *)
LEMMA FrontLastIs ==
  ASSUME NEW S, NEW s \in Seq(S), s # <<>>
  PROVE  Front(s) \in Seq(S) /\ Last(s) \in S /\ s = Append(Front(s), Last(s))
<1>1. PICK t \in Seq(S), e \in S : s = Append(t, e)
  BY SequenceEmptyOrAppend
<1>2. /\ Len(t) \in Nat /\ Len(s) = Len(t) + 1 /\ s[Len(t) + 1] = e
      /\ \A i \in 1..Len(t) : s[i] = t[i]
  BY <1>1, AppendProperties, LenProperties
<1>3. Last(s) = e
  BY <1>2 DEF Last
<1>4. Front(s) = SubSeq(s, 1, Len(t)) /\ \A i \in 1..Len(t) : s[i] \in S
  <2>1. \A i \in 1..Len(t) : t[i] \in S
    BY LenProperties
  <2> QED BY <1>2, <2>1 DEF Front
<1>5. /\ Front(s) \in Seq(S) /\ Len(Front(s)) = Len(t)
      /\ \A i \in 1..Len(t) : Front(s)[i] = t[i]
  <2>1. Len(t) - 1 + 1 = Len(t) /\ (Len(t) < 1 => Len(t) = 0)
    BY <1>2
  <2> QED BY <1>2, <1>4, <2>1, SubSeqProperties
<1>6. Front(s) = t
  BY <1>5, SeqEqual
<1> QED BY <1>1, <1>3, <1>6

(* Two values, put one after the other.                                    *)
LEMMA PairIs ==
  ASSUME NEW T, NEW a \in T, NEW b \in T
  PROVE  /\ <<a>> \o <<b>> = <<a, b>> /\ Append(<<a>>, b) = <<a, b>>
         /\ <<a>> \in Seq(T) /\ <<a, b>> \in Seq(T)
<1> DEFINE one == <<a>>
           two == <<a, b>>
<1>1. one \in Seq(T) /\ Len(one) = 1 /\ one[1] = a
  OBVIOUS
<1>2. two \in Seq(T) /\ Len(two) = 2 /\ two[1] = a /\ two[2] = b
  OBVIOUS
<1> HIDE DEF one, two
<1>3. Append(one, b) \in Seq(T) /\ Len(Append(one, b)) = 2
      /\ Append(one, b)[2] = b /\ Append(one, b)[1] = one[1]
  <2>1. /\ Append(one, b) \in Seq(T) /\ Len(Append(one, b)) = Len(one) + 1
        /\ Append(one, b)[Len(one) + 1] = b
        /\ \A i \in 1..Len(one) : Append(one, b)[i] = one[i]
    BY <1>1, AppendProperties
  <2>2. 1 \in 1..Len(one) /\ Len(one) + 1 = 2
    BY <1>1
  <2> QED BY <2>1, <2>2
<1>4. \A i \in 1..2 : i = 1 \/ i = 2
  OBVIOUS
<1>5. \A i \in 1..Len(two) : Append(one, b)[i] = two[i]
  BY <1>1, <1>2, <1>3, <1>4
<1>6. Append(one, b) = two
  BY <1>2, <1>3, <1>5, SeqEqual
<1>7. Append(one, b) = one \o <<b>>
  BY <1>1, AppendIsConcat
<1> QED BY <1>1, <1>2, <1>6, <1>7 DEF one, two

(* A sequence is reached from nothing, one value at a time.                *)
LEMMA OneByOne ==
  ASSUME NEW S, NEW s \in Seq(S)
  PROVE  /\ SubSeq(s, 1, 0) = <<>> /\ SubSeq(s, 1, Len(s)) = s
         /\ \A i \in 1..Len(s) : SubSeq(s, 1, i - 1) \in Seq(S) /\ s[i] \in S
                                 /\ SubSeq(s, 1, i) = Append(SubSeq(s, 1, i - 1), s[i])
<1>1. SubSeq(s, 1, 0) = <<>> /\ SubSeq(s, 1, Len(s)) = s
  BY SubSeqEmpty, SubSeqFull
<1>2. ASSUME NEW i \in 1..Len(s)
      PROVE  SubSeq(s, 1, i - 1) \in Seq(S) /\ s[i] \in S
             /\ SubSeq(s, 1, i) = Append(SubSeq(s, 1, i - 1), s[i])
  <2>1. Len(s) \in Nat /\ \A j \in 1..Len(s) : s[j] \in S
    BY LenProperties
  <2>2. 1 \in 1..Len(s) /\ i \in 1..Len(s) /\ i - 1 \in Int
    BY <2>1
  <2>3. SubSeq(s, 1, i - 1) \in Seq(S)
    BY <2>1, <2>2, SubSeqProperties
  <2>4. SubSeq(s, 1, i) = SubSeq(s, 1, i - 1) \o <<s[i]>>
    BY <2>2, SubSeqRecursiveSecond
  <2> QED BY <2>1, <2>3, <2>4, AppendIsConcat
<1> QED BY <1>1, <1>2

(* FlattenSeq of two sequences of sequences.                               *)
LEMMA FlattenConcat ==
  ASSUME NEW S, NEW u \in Seq(Seq(S)), NEW v \in Seq(Seq(S))
  PROVE  FlattenSeq(u \o v) = FlattenSeq(u) \o FlattenSeq(v)
<1> DEFINE n == Len(v)
           Same(i) == FlattenSeq(u \o SubSeq(v, 1, i))
                        = FlattenSeq(u) \o FlattenSeq(SubSeq(v, 1, i))
           good == {i \in Nat : i <= n => Same(i)}
<1>1. n \in Nat /\ FlattenSeq(u) \in Seq(S) /\ FlattenSeq(<<>>) = <<>>
  BY LenProperties, FlattenIs
<1>2. \A i \in Nat : i \in good
  <2>1. 0 \in good
    <3>1. u \o <<>> = u /\ FlattenSeq(u) \o <<>> = FlattenSeq(u)
      BY <1>1, ConcatEmptySeq
    <3> QED BY <1>1, <3>1, OneByOne
  <2>2. \A i \in Nat : i \in good => i + 1 \in good
    <3> HIDE DEF Same
    <3> SUFFICES ASSUME NEW i \in Nat, i \in good, i + 1 <= n PROVE Same(i + 1)
      OBVIOUS
    <3> DEFINE j == i + 1
               w == SubSeq(v, 1, i)
               x == v[j]
    <3>1. j \in 1..n /\ j - 1 = i /\ FlattenSeq(u \o w) = FlattenSeq(u) \o FlattenSeq(w)
      BY <1>1 DEF Same
    <3> HIDE DEF j
    <3>2. w \in Seq(Seq(S)) /\ x \in Seq(S) /\ SubSeq(v, 1, j) = Append(w, x)
      BY <3>1, OneByOne
    <3> HIDE DEF w, x
    <3>3. u \o Append(w, x) = Append(u \o w, x)
      <4>1. u \o w \in Seq(Seq(S)) /\ <<x>> \in Seq(Seq(S))
        BY <3>2, ConcatProperties
      <4>2. Append(w, x) = w \o <<x>> /\ Append(u \o w, x) = (u \o w) \o <<x>>
        BY <3>2, <4>1, AppendIsConcat
      <4>3. (u \o w) \o <<x>> = u \o (w \o <<x>>)
        <5> DEFINE T == Seq(S)
                   z == <<x>>
        <5>1. u \in Seq(T) /\ w \in Seq(T) /\ z \in Seq(T)
          BY <3>2, <4>1
        <5> HIDE DEF T, z
        <5>2. (u \o w) \o z = u \o (w \o z)
          BY <5>1, ConcatAssociative
        <5> QED BY <5>2 DEF z
      <4> QED BY <4>2, <4>3
    <3>4. FlattenSeq(Append(u \o w, x)) = FlattenSeq(u \o w) \o x
      <4>1. u \o w \in Seq(Seq(S))
        BY <3>2, ConcatProperties
      <4> QED BY <3>2, <4>1, FlattenIs
    <3>5. FlattenSeq(Append(w, x)) = FlattenSeq(w) \o x /\ FlattenSeq(w) \in Seq(S)
      BY <3>2, FlattenIs
    <3>6. (FlattenSeq(u) \o FlattenSeq(w)) \o x = FlattenSeq(u) \o (FlattenSeq(w) \o x)
      <4> DEFINE fu == FlattenSeq(u)
                 fw == FlattenSeq(w)
      <4>1. fu \in Seq(S) /\ fw \in Seq(S) /\ x \in Seq(S)
        BY <1>1, <3>2, <3>5
      <4> HIDE DEF fu, fw, n, good
      <4>2. \A p, q, r \in Seq(S) : (p \o q) \o r = p \o (q \o r)
        BY ConcatAssociative
      <4>3. (fu \o fw) \o x = fu \o (fw \o x)
        BY <4>1, <4>2
      <4> QED BY <4>3 DEF fu, fw
    <3>7. Same(j)
      BY <3>1, <3>2, <3>3, <3>4, <3>5, <3>6 DEF Same
    <3> QED BY <3>7 DEF j
  <2> HIDE DEF good
  <2> QED BY <2>1, <2>2, EveryNat
<1>3. n \in good /\ n <= n
  <2> HIDE DEF good
  <2> QED BY <1>1, <1>2
<1> QED BY <1>3, OneByOne

(* Induction, over the sequences of a set. *)
LEMMA EverySeq ==
  ASSUME NEW S, NEW G, <<>> \in G, \A s \in Seq(S) : \A e \in S : s \in G => Append(s, e) \in G
  PROVE  \A s \in Seq(S) : s \in G
<1> SUFFICES ASSUME NEW s \in Seq(S) PROVE s \in G
  OBVIOUS
<1> DEFINE n == Len(s)
           good == {i \in Nat : i <= n => SubSeq(s, 1, i) \in G}
<1>1. n \in Nat
  BY LenProperties
<1>2. \A i \in Nat : i \in good
  <2>1. 0 \in good
    BY OneByOne
  <2>2. \A i \in Nat : i \in good => i + 1 \in good
    <3> SUFFICES ASSUME NEW i \in Nat, i \in good, i + 1 <= n PROVE SubSeq(s, 1, i + 1) \in G
      OBVIOUS
    <3> DEFINE j == i + 1
    <3>1. j \in 1..n /\ j - 1 = i /\ SubSeq(s, 1, i) \in G
      BY <1>1
    <3> HIDE DEF j
    <3>2. SubSeq(s, 1, i) \in Seq(S) /\ s[j] \in S /\ SubSeq(s, 1, j) = Append(SubSeq(s, 1, i), s[j])
      BY <3>1, OneByOne
    <3>3. SubSeq(s, 1, j) \in G
      BY <3>1, <3>2
    <3> QED BY <3>3 DEF j
  <2> HIDE DEF good
  <2> QED BY <2>1, <2>2, EveryNat
<1>3. n \in good /\ n <= n
  <2> HIDE DEF good
  <2> QED BY <1>1, <1>2
<1> QED BY <1>3, OneByOne

(* A sequence, cut after i values or around one of them.                   *)
LEMMA CutAt ==
  ASSUME NEW S, NEW s \in Seq(S)
  PROVE  /\ \A i \in 0..Len(s) : /\ SubSeq(s, 1, i) \in Seq(S) /\ Len(SubSeq(s, 1, i)) = i
                                 /\ SubSeq(s, i + 1, Len(s)) \in Seq(S)
                                 /\ Len(SubSeq(s, i + 1, Len(s))) = Len(s) - i
                                 /\ SubSeq(s, 1, i) \o SubSeq(s, i + 1, Len(s)) = s
         /\ \A i \in 1..Len(s) : SubSeq(s, 1, i - 1) \o (<<s[i]>> \o SubSeq(s, i + 1, Len(s))) = s
<1> DEFINE n == Len(s)
<1>1. n \in Nat /\ \A i \in 1..n : s[i] \in S
  BY LenProperties
<1>2. ASSUME NEW i \in 0..n
      PROVE  /\ SubSeq(s, 1, i) \in Seq(S) /\ Len(SubSeq(s, 1, i)) = i
             /\ SubSeq(s, i + 1, n) \in Seq(S) /\ Len(SubSeq(s, i + 1, n)) = n - i
             /\ SubSeq(s, 1, i) \o SubSeq(s, i + 1, n) = s
  <2>1. SubSeq(s, 1, i) \in Seq(S) /\ Len(SubSeq(s, 1, i)) = i
    <3>1. (IF 1 <= i THEN i - 1 + 1 ELSE 0) = i /\ \A k \in 1..i : s[k] \in S
      BY <1>1
    <3> QED BY <1>1, <3>1, SubSeqProperties
  <2>2. SubSeq(s, i + 1, n) \in Seq(S) /\ Len(SubSeq(s, i + 1, n)) = n - i
    <3> DEFINE j == i + 1
    <3>1. /\ j \in Int /\ (IF j <= n THEN n - j + 1 ELSE 0) = n - i
          /\ \A k \in j..n : s[k] \in S
      BY <1>1
    <3> HIDE DEF j
    <3>2. SubSeq(s, j, n) \in Seq(S) /\ Len(SubSeq(s, j, n)) = n - i
      BY <1>1, <3>1, SubSeqProperties
    <3> QED BY <3>2 DEF j
  <2>3. SubSeq(s, 1, i) \o SubSeq(s, i + 1, n) = SubSeq(s, 1, n)
    <3>1. 1 \in 1..n + 1 /\ i \in 1 - 1..n /\ n \in i..n
      BY <1>1
    <3> QED BY <3>1, ConcatAdjacentSubSeq
  <2> QED BY <2>1, <2>2, <2>3, SubSeqFull
<1>3. ASSUME NEW i \in 1..n
      PROVE  SubSeq(s, 1, i - 1) \o (<<s[i]>> \o SubSeq(s, i + 1, n)) = s
  <2>1. i - 1 \in 0..n /\ i - 1 + 1 = i /\ n \in i..n
    BY <1>1
  <2>2. SubSeq(s, 1, i - 1) \o SubSeq(s, i - 1 + 1, n) = s
    BY <1>2, <2>1
  <2>3. SubSeq(s, i, n) = <<s[i]>> \o SubSeq(s, i + 1, n)
    BY <2>1, SubSeqRecursiveFirst
  <2> QED BY <2>1, <2>2, <2>3
<1> QED BY <1>2, <1>3

(* Without its last value it is a sequence, even if it has none.           *)
LEMMA FrontIs ==
  ASSUME NEW S, NEW s \in Seq(S)
  PROVE  Front(s) \in Seq(S)
<1>1. CASE s = <<>>
  <2>1. Len(s) = 0 /\ Len(s) - 1 < 1 /\ Len(s) - 1 \in Int
    BY <1>1
  <2>2. SubSeq(s, 1, Len(s) - 1) = <<>>
    BY <2>1, SubSeqEmpty
  <2> QED BY <2>2, EmptySeq DEF Front
<1>2. CASE s # <<>>
  BY <1>2, FrontLastIs
<1> QED BY <1>1, <1>2

(* A sequence that is not empty is its head, then its tail.                *)
LEMMA HeadTailAre ==
  ASSUME NEW T, NEW s \in Seq(T), s # <<>>
  PROVE  Head(s) \in T /\ Tail(s) \in Seq(T) /\ s = <<Head(s)>> \o Tail(s)
<1>1. Head(s) \in T /\ Tail(s) \in Seq(T)
  BY HeadTailProperties
<1>2. Len(s) \in Nat /\ Len(s) # 0
  BY LenProperties, EmptySeq
<1>3. SubSeq(s, 1, Len(s)) = <<s[1]>> \o SubSeq(s, 1 + 1, Len(s))
  <2>1. 1 \in 1..Len(s) /\ Len(s) \in 1..Len(s)
    BY <1>2
  <2> QED BY <2>1, SubSeqRecursiveFirst
<1>4. /\ SubSeq(s, 1, Len(s)) = s /\ Tail(s) = SubSeq(s, 2, Len(s)) /\ Head(s) = s[1]
      /\ 1 + 1 = 2
  BY SubSeqFull, TailIsSubSeq
<1> QED BY <1>1, <1>3, <1>4
=============================================================================
