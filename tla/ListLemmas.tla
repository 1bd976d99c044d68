----------------------------- MODULE ListLemmas -----------------------------
(***************************************************************************)
(* Facts about numbers, finite sets and lists without repetition that the  *)
(* proofs of several components need.                                      *)
(***************************************************************************)
EXTENDS Integers, Sequences, SequencesExt, FiniteSetTheorems, SequenceTheorems, TLAPS

-----------------------------------------------------------------------------
(* Least and greatest numbers *)

\* Any naturals have a least one.
LEMMA LeastNat ==
  ASSUME NEW T \in SUBSET Nat, T # {}
  PROVE  \E n \in T : \A m \in T : n <= m
<1>1. PICK n \in T : \A m \in T : <<m, n>> \notin OpToRel(<, Nat)
  BY NatLessThanWellFounded, WFMin
<1>2. \A i, j \in Nat : <<i, j>> \notin OpToRel(<, Nat) => j <= i
  BY SMT DEF OpToRel
<1> QED
  BY <1>1, <1>2

\* Finitely many integers have a greatest one.
LEMMA GreatestInt ==
  ASSUME NEW T \in SUBSET Int, T # {}, IsFiniteSet(T)
  PROVE  \E n \in T : \A m \in T : m <= n
<1> DEFINE Above(n) == {m \in T : m > n}
           Sizes == {Cardinality(Above(n)) : n \in T}
<1>1. \A n \in T : IsFiniteSet(Above(n)) /\ Cardinality(Above(n)) \in Nat
  <2> TAKE n \in T
  <2>1. Above(n) \in SUBSET T
    OBVIOUS
  <2> HIDE DEF Above
  <2> QED
    BY <2>1, FS_Subset, FS_CardinalityType
<1>2. PICK n \in T : \A m \in T : Cardinality(Above(n)) <= Cardinality(Above(m))
  <2>1. Sizes \in SUBSET Nat /\ Sizes # {}
    BY <1>1
  <2>2. PICK s \in Sizes : \A r \in Sizes : s <= r
    BY <2>1, LeastNat
  <2> HIDE DEF Above
  <2> QED
    BY <2>2
<1>3. \A i, j \in Int : ~(i <= j) => i > j /\ ~(i > i)
  OBVIOUS
<1>4. \A i, j, l \in Int : l > i /\ i > j => l > j
  OBVIOUS
<1>5. ASSUME NEW m \in T, ~(m <= n)
      PROVE  FALSE
  <2>1. n \in Int /\ m \in Int /\ \A l \in T : l \in Int
    OBVIOUS
  <2>2. m > n /\ ~(m > m) /\ \A l \in T : l > m => l > n
    BY <1>3, <1>4, <1>5, <2>1
  <2>3. Above(m) \in SUBSET Above(n) /\ m \in Above(n) /\ m \notin Above(m)
    BY <2>2, Zenon
  <2> HIDE DEF Above
  <2>4. Cardinality(Above(m)) <= Cardinality(Above(n)) /\ Cardinality(Above(m)) # Cardinality(Above(n))
    BY <1>1, <2>3, FS_Subset
  <2>5. Cardinality(Above(n)) <= Cardinality(Above(m))
    BY <1>2
  <2>6. Cardinality(Above(m)) \in Nat /\ Cardinality(Above(n)) \in Nat
    BY <1>1
  <2>7. \A i, j \in Nat : ~(i <= j /\ i # j /\ j <= i)
    OBVIOUS
  <2> QED
    BY <2>4, <2>5, <2>6, <2>7
<1> QED
  BY <1>5

-----------------------------------------------------------------------------
(* Lists, and lists without repetition *)

\* A function from 1..n is a list.
LEMMA IsASequence ==
  ASSUME NEW S, NEW n \in Nat, NEW s \in [1..n -> S]
  PROVE  s \in Seq(S)
BY SeqDef

\* A list counts its elements exactly if none is repeated.
LEMMA InjectiveCount ==
  ASSUME NEW S, NEW s \in Seq(S), IsInjective(s)
  PROVE  IsFiniteSet(ToSet(s)) /\ Cardinality(ToSet(s)) = Len(s)
<1>1. Len(s) \in Nat /\ s \in [1..Len(s) -> S] /\ DOMAIN s = 1..Len(s)
  BY LenProperties
<1>2. s \in Bijection(1..Len(s), ToSet(s))
  BY <1>1 DEF Bijection, Injection, Surjection, IsInjective, ToSet
<1>3. ExistsBijection(1..Len(s), ToSet(s))
  BY <1>2 DEF ExistsBijection
<1> QED
  BY <1>1, <1>3, FS_CountingElements, FS_NatBijection

\* Another element is added behind the others.
LEMMA InjectiveAppend ==
  ASSUME NEW S, NEW s \in Seq(S), NEW e, e \notin ToSet(s), IsInjective(s)
  PROVE  /\ Append(s, e) \in Seq(S \cup {e}) /\ IsInjective(Append(s, e))
         /\ ToSet(Append(s, e)) = ToSet(s) \cup {e} /\ Len(Append(s, e)) = Len(s) + 1
<1> DEFINE t == Append(s, e)
<1>1. s \in Seq(S \cup {e})
  BY SeqMonotonic, S \subseteq S \cup {e}
<1>2. /\ t \in Seq(S \cup {e}) /\ Len(t) = Len(s) + 1 /\ t[Len(s) + 1] = e
      /\ \A i \in 1..Len(s) : t[i] = s[i]
  BY <1>1, AppendProperties
<1>3. Len(s) \in Nat /\ DOMAIN s = 1..Len(s) /\ DOMAIN t = 1..(Len(s) + 1)
  BY <1>2, LenProperties
<1>4. \A i \in DOMAIN s : s[i] # e
  BY DEF ToSet
<1> HIDE DEF t
<1>5. IsInjective(t)
  BY <1>2, <1>3, <1>4 DEF IsInjective
<1>6. ToSet(t) = ToSet(s) \cup {e}
  <2>1. \A x \in ToSet(t) : x \in ToSet(s) \cup {e}
    BY <1>2, <1>3 DEF ToSet
  <2>2. e \in ToSet(t)
    BY <1>2, <1>3 DEF ToSet
  <2>3. \A x \in ToSet(s) : x \in ToSet(t)
    BY <1>2, <1>3 DEF ToSet
  <2> QED
    BY <2>1, <2>2, <2>3
<1> QED
  BY <1>2, <1>5, <1>6 DEF t

\* A list without one of its elements.
LEMMA RemovedAt ==
  ASSUME NEW S, NEW s \in Seq(S), NEW n \in Nat, n = Len(s), NEW k \in 1..n
  PROVE  LET t == RemoveAt(s, k)
         IN  /\ t \in Seq(S) /\ Len(t) = n - 1 /\ DOMAIN t = 1..(n - 1)
             /\ \A i \in 1..(n - 1) : t[i] = IF i < k THEN s[i] ELSE s[i + 1]
<1> DEFINE t == RemoveAt(s, k)
           a == SubSeq(s, 1, k - 1)  b == SubSeq(s, k + 1, n)
<1>1. n \in Nat /\ \A i \in 1..n : s[i] \in S
  BY LenProperties, ElementOfSeq
<1>2. a \in Seq(S) /\ Len(a) = k - 1 /\ \A i \in 1..(k - 1) : a[i] = s[i]
  <2>1. 1 \in Int /\ k - 1 \in Int /\ \A i \in 1..(k - 1) : s[i] \in S
    BY <1>1
  <2>2. /\ a \in Seq(S) /\ Len(a) = IF 1 <= k - 1 THEN k - 1 - 1 + 1 ELSE 0
        /\ \A i \in 1..k - 1 - 1 + 1 : a[i] = s[1 + i - 1]
    BY <2>1, SubSeqProperties
  <2>3. k - 1 = IF 1 <= k - 1 THEN k - 1 - 1 + 1 ELSE 0
    BY <1>1
  <2>4. ASSUME NEW i \in 1..(k - 1)
        PROVE  a[i] = s[i]
    <3>1. i \in 1..k - 1 - 1 + 1 /\ 1 + i - 1 = i
      BY <1>1
    <3> QED
      BY <2>2, <3>1
  <2> QED
    BY <2>2, <2>3, <2>4
<1>3. b \in Seq(S) /\ Len(b) = n - k /\ \A i \in 1..(n - k) : b[i] = s[k + i]
  <2>1. k + 1 \in Int /\ n \in Int /\ \A i \in (k + 1)..n : s[i] \in S
    BY <1>1
  <2>2. /\ b \in Seq(S) /\ Len(b) = IF k + 1 <= n THEN n - (k + 1) + 1 ELSE 0
        /\ \A i \in 1..n - (k + 1) + 1 : b[i] = s[k + 1 + i - 1]
    BY <2>1, SubSeqProperties
  <2>3. n - k = IF k + 1 <= n THEN n - (k + 1) + 1 ELSE 0
    BY <1>1
  <2>4. ASSUME NEW i \in 1..(n - k)
        PROVE  b[i] = s[k + i]
    <3>1. i \in 1..n - (k + 1) + 1 /\ k + 1 + i - 1 = k + i
      BY <1>1
    <3> QED
      BY <2>2, <3>1
  <2> QED
    BY <2>2, <2>3, <2>4
<1> HIDE DEF a, b
<1>4. /\ t \in Seq(S) /\ Len(t) = Len(a) + Len(b)
      /\ \A i \in 1..Len(a) + Len(b) : t[i] = IF i <= Len(a) THEN a[i] ELSE b[i - Len(a)]
  BY <1>2, <1>3, ConcatProperties DEF a, b, RemoveAt
<1>5. Len(a) + Len(b) = n - 1
  BY <1>1, <1>2, <1>3
<1>6. ASSUME NEW i \in 1..(n - 1)
      PROVE  t[i] = IF i < k THEN s[i] ELSE s[i + 1]
  <2>1. t[i] = IF i <= k - 1 THEN a[i] ELSE b[i - (k - 1)]
    BY <1>2, <1>4, <1>5
  <2>2. CASE i < k
    <3>1. i <= k - 1 /\ i \in 1..(k - 1)
      BY <1>1, <2>2
    <3> QED
      BY <1>2, <2>1, <2>2, <3>1
  <2>3. CASE ~(i < k)
    <3>1. /\ ~(i <= k - 1) /\ i - (k - 1) \in 1..(n - k)
          /\ k + (i - (k - 1)) = i + 1
      BY <1>1, <2>3
    <3> QED
      BY <1>3, <2>1, <2>3, <3>1
  <2> QED
    BY <2>2, <2>3
<1>7. DOMAIN t = 1..(n - 1)
  BY <1>4, <1>5, LenProperties
<1> QED
  BY <1>4, <1>5, <1>6, <1>7

\* One element is taken out, wherever it is.
LEMMA InjectiveRemoveAt ==
  ASSUME NEW S, NEW s \in Seq(S), IsInjective(s), NEW k \in 1..Len(s)
  PROVE  LET t == RemoveAt(s, k)
         IN  /\ t \in Seq(ToSet(s) \ {s[k]}) /\ IsInjective(t)
             /\ ToSet(t) = ToSet(s) \ {s[k]} /\ Len(t) = Len(s) - 1
<1> DEFINE t == RemoveAt(s, k)  n == Len(s)
<1>1. n \in Nat /\ n = Len(s) /\ DOMAIN s = 1..n /\ k \in 1..n
  BY LenProperties
<1>2. /\ t \in Seq(S) /\ Len(t) = n - 1 /\ DOMAIN t = 1..(n - 1)
      /\ \A i \in 1..(n - 1) : t[i] = IF i < k THEN s[i] ELSE s[i + 1]
  BY <1>1, RemovedAt
<1> HIDE DEF n, t
<1>3. IsInjective(t) /\ ToSet(t) = ToSet(s) \ {s[k]}
  <2> DEFINE from(i) == IF i < k THEN i ELSE i + 1
  <2>1. \A i \in 1..(n - 1) : from(i) \in 1..n /\ from(i) # k
    BY <1>1
  <2>2. \A i \in 1..(n - 1) : t[i] = s[from(i)]
    BY <1>2
  <2>3. \A i, j \in 1..(n - 1) : from(i) = from(j) => i = j
    BY <1>1
  <2>4. \A j \in 1..n : j # k => \E i \in 1..(n - 1) : from(i) = j
    <3> TAKE j \in 1..n
    <3>1. CASE j < k
      <4>1. j \in 1..(n - 1) /\ from(j) = j
        BY <1>1, <3>1
      <4> QED
        BY <4>1
    <3>2. CASE j > k
      <4>1. j - 1 \in 1..(n - 1) /\ from(j - 1) = j
        BY <1>1, <3>2
      <4> QED
        BY <4>1
    <3>3. j < k \/ j = k \/ j > k
      BY <1>1
    <3> QED
      BY <3>1, <3>2, <3>3
  <2> HIDE DEF from
  <2>5. \A i, j \in 1..n : s[i] = s[j] => i = j
    BY <1>1 DEF IsInjective
  <2>6. IsInjective(t)
    <3>1. \A i, j \in 1..(n - 1) : t[i] = t[j] => i = j
      BY <2>1, <2>2, <2>3, <2>5
    <3> QED
      BY <1>2, <3>1 DEF IsInjective
  <2>7. \A x \in ToSet(t) : x \in ToSet(s) \ {s[k]}
    <3> SUFFICES ASSUME NEW i \in 1..(n - 1)
                 PROVE  t[i] \in ToSet(s) \ {s[k]}
      BY <1>2 DEF ToSet
    <3> QED
      BY <1>1, <2>1, <2>2, <2>5 DEF ToSet
  <2>8. \A x \in ToSet(s) \ {s[k]} : x \in ToSet(t)
    <3> SUFFICES ASSUME NEW j \in 1..n, j # k
                 PROVE  s[j] \in ToSet(t)
      BY <1>1 DEF ToSet
    <3>1. PICK i \in 1..(n - 1) : from(i) = j
      BY <2>4
    <3> QED
      BY <1>2, <2>2, <3>1 DEF ToSet
  <2> QED
    BY <2>6, <2>7, <2>8
<1>4. t \in Seq(Range(t)) /\ Range(t) = ToSet(t)
  <2>1. t \in Seq(Range(t))
    BY <1>2, SeqOfRange
  <2>2. Range(t) = ToSet(t)
    BY DEF Range, ToSet
  <2> QED
    BY <2>1, <2>2
<1> QED
  BY <1>1, <1>2, <1>3, <1>4 DEF t

\* The first one goes.
LEMMA InjectiveTail ==
  ASSUME NEW S, NEW s \in Seq(S), s # <<>>, IsInjective(s)
  PROVE  /\ Tail(s) \in Seq(ToSet(s) \ {Head(s)}) /\ IsInjective(Tail(s))
         /\ ToSet(Tail(s)) = ToSet(s) \ {Head(s)} /\ Len(Tail(s)) = Len(s) - 1
<1>1. Len(s) \in Nat \ {0} /\ DOMAIN s = 1..Len(s) /\ Head(s) = s[1]
  BY LenProperties, EmptySeq
<1>2. Tail(s) = RemoveAt(s, 1)
  <2>1. SubSeq(s, 1, 0) = <<>>
    BY SubSeqEmpty
  <2>2. Tail(s) = SubSeq(s, 2, Len(s)) /\ Tail(s) \in Seq(S)
    BY TailIsSubSeq, HeadTailProperties
  <2>3. <<>> \o Tail(s) = Tail(s)
    BY <2>2, ConcatEmptySeq
  <2> QED
    BY <2>1, <2>2, <2>3 DEF RemoveAt
<1>3. 1 \in 1..Len(s)
  BY <1>1
<1> QED
  BY <1>1, <1>2, <1>3, InjectiveRemoveAt

LEMMA LeastOfOne == \A k \in Int : Min({k}) = k
<1> TAKE k \in Int
<1> DEFINE least(x) == x \in {k} /\ \A y \in {k} : x <= y
<1>1. least(k) /\ \A x : least(x) => x = k
  OBVIOUS
<1>2. Min({k}) = CHOOSE x : least(x)
  BY Zenon DEF Min
<1> HIDE DEF least
<1> QED
  BY <1>1, <1>2

\* One that is there once is taken out by its value.
LEMMA InjectiveRemoveFirst ==
  ASSUME NEW S, NEW s \in Seq(S), IsInjective(s), NEW e
  PROVE  LET t == RemoveFirst(s, e)
         IN  /\ t \in Seq(ToSet(s) \ {e}) /\ IsInjective(t) /\ ToSet(t) = ToSet(s) \ {e}
             /\ Len(t) = IF e \in ToSet(s) THEN Len(s) - 1 ELSE Len(s)
<1>1. DOMAIN s = 1..Len(s) /\ s \in Seq(ToSet(s)) /\ Len(s) \in Nat
  BY LenProperties, SeqOfRange DEF Range, ToSet
<1> DEFINE here == {i \in 1..Len(s) : s[i] = e}
<1>2. CASE e \in ToSet(s)
  <2>1. PICK k \in 1..Len(s) : s[k] = e
    BY <1>1, <1>2 DEF ToSet
  <2>2. here = {k} /\ Min({k}) = k
    <3>1. \A i \in 1..Len(s) : s[i] = e => i = k
      BY <1>1, <2>1 DEF IsInjective
    <3>2. k \in Int
      BY <1>1
    <3> QED
      BY <2>1, <3>1, <3>2, LeastOfOne
  <2>3. RemoveFirst(s, e) = RemoveAt(s, IF here # {} THEN Min(here) ELSE 0)
    BY <2>1, Zenon DEF RemoveFirst, SelectInSeq
  <2>4. RemoveFirst(s, e) = RemoveAt(s, k)
    BY <2>2, <2>3
  <2> QED
    BY <1>2, <2>1, <2>4, InjectiveRemoveAt
<1>3. CASE e \notin ToSet(s)
  <2>1. RemoveFirst(s, e) = s
    <3>1. ~ \E i \in 1..Len(s) : s[i] = e
      BY <1>1, <1>3 DEF ToSet
    <3> QED
      BY <3>1, Zenon DEF RemoveFirst
  <2>2. ToSet(s) \ {e} = ToSet(s)
    BY <1>3
  <2> QED
    BY <1>1, <1>3, <2>1, <2>2
<1> QED
  BY <1>2, <1>3

-----------------------------------------------------------------------------
(* Lists of lists *)

\* The lists joined so far: each is the one before it with one more list.
JoinedUpTo(ss, n, f) ==
  f = [i \in 1..n |-> IF i = 1 THEN ss[i] ELSE f[i - 1] \o ss[i]]

\* Where the elements of a joined list come from: no two from one place.
PlacesOf(ss, n, t, at) ==
  /\ at \in [1..Len(t) -> Nat \X Nat] /\ IsInjective(at)
  /\ \A k \in 1..Len(t) : /\ at[k][1] \in 1..n /\ at[k][2] \in 1..Len(ss[at[k][1]])
                          /\ t[k] = ss[at[k][1]][at[k][2]]

\* Lists can be joined one after the other.
LEMMA JoinsExist ==
  ASSUME NEW S, NEW ss \in Seq(Seq(S)), NEW n \in 1..Len(ss)
  PROVE  \E f : JoinedUpTo(ss, n, f) /\ \A i \in 1..n : f[i] \in Seq(S)
<1> DEFINE P(m) == \E f : JoinedUpTo(ss, m, f) /\ \A i \in 1..m : f[i] \in Seq(S)
           T == {m \in Nat : m \in 1..Len(ss) /\ ~P(m)}
<1>0. Len(ss) \in Nat /\ \A i \in 1..Len(ss) : ss[i] \in Seq(S)
  BY LenProperties, ElementOfSeq
<1>1. SUFFICES ASSUME T # {} PROVE FALSE
  <2>1. n \in Nat
    BY <1>0
  <2> HIDE DEF P
  <2>2. P(n)
    BY <1>1, <2>1
  <2> QED
    BY <2>2 DEF P
<1>2. PICK m \in T : \A l \in T : m <= l
  <2> HIDE DEF P
  <2> QED
    BY <1>1, LeastNat
<1>3. CASE m = 1
  <2>1. JoinedUpTo(ss, 1, [i \in 1..1 |-> ss[i]])
    BY DEF JoinedUpTo
  <2>2. 1 \in 1..Len(ss) /\ ss[1] \in Seq(S)
    BY <1>0, <1>2, <1>3
  <2>3. P(1)
    BY <2>1, <2>2
  <2> QED
    BY <1>2, <1>3, <2>3
<1>4. CASE m # 1
  <2>1. m - 1 \in Nat /\ m - 1 \in 1..Len(ss) /\ ~(m <= m - 1) /\ m \in 1..Len(ss)
    <3> HIDE DEF P
    <3> QED
      BY <1>0, <1>2, <1>4
  <2>2. P(m - 1)
    <3> HIDE DEF P
    <3> QED
      BY <1>2, <2>1
  <2>3. PICK f : JoinedUpTo(ss, m - 1, f) /\ \A i \in 1..m - 1 : f[i] \in Seq(S)
    BY <2>2
  <2> DEFINE g == [i \in 1..m |-> IF i = m THEN f[m - 1] \o ss[m] ELSE f[i]]
  <2>4. f[m - 1] \o ss[m] \in Seq(S)
    <3>1. f[m - 1] \in Seq(S) /\ ss[m] \in Seq(S)
      BY <1>0, <2>1, <2>3
    <3> QED
      BY <3>1, ConcatProperties
  <2>5. \A i \in 1..m : g[i] \in Seq(S)
    BY <2>1, <2>3, <2>4
  <2>6. \A i \in 1..m : g[i] = IF i = 1 THEN ss[i] ELSE g[i - 1] \o ss[i]
    <3> SUFFICES ASSUME NEW i \in 1..m PROVE g[i] = IF i = 1 THEN ss[i] ELSE g[i - 1] \o ss[i]
      OBVIOUS
    <3>1. CASE i = m
      <4>1. m - 1 \in 1..m /\ m - 1 # m
        BY <1>0, <1>4, <2>1
      <4>2. g[m - 1] = f[m - 1] /\ g[m] = f[m - 1] \o ss[m]
        BY <3>1, <4>1
      <4> QED
        BY <1>4, <3>1, <4>2
    <3>2. CASE i # m
      <4>1. i \in 1..m - 1 /\ i \in Int /\ (i # 1 => i - 1 \in 1..m /\ i - 1 # m)
        BY <2>1, <3>2
      <4>2. g[i] = f[i] /\ (i # 1 => g[i - 1] = f[i - 1])
        BY <3>2, <4>1
      <4>3. f[i] = IF i = 1 THEN ss[i] ELSE f[i - 1] \o ss[i]
        BY <2>3, <4>1 DEF JoinedUpTo
      <4> QED
        BY <4>2, <4>3
    <3> QED
      BY <3>1, <3>2
  <2>7. g = [i \in 1..m |-> g[i]]
    OBVIOUS
  <2>8. JoinedUpTo(ss, m, g)
    <3> HIDE DEF g
    <3> QED
      BY <2>6, <2>7 DEF JoinedUpTo
  <2>9. P(m)
    BY <2>5, <2>8
  <2> QED
    BY <1>2, <2>9
<1> QED
  BY <1>3, <1>4

\* FlattenSeq joins all of them.
LEMMA FlattenJoins ==
  ASSUME NEW S, NEW ss \in Seq(Seq(S)), Len(ss) # 0
  PROVE  \E f : /\ JoinedUpTo(ss, Len(ss), f) /\ \A i \in 1..Len(ss) : f[i] \in Seq(S)
                /\ FlattenSeq(ss) = f[Len(ss)]
<1> DEFINE flatten[i \in 1..Len(ss)] == IF i = 1 THEN ss[i] ELSE flatten[i - 1] \o ss[i]
<1>1. FlattenSeq(ss) = flatten[Len(ss)]
  BY DEF FlattenSeq
<1>2. flatten = CHOOSE f : f = [i \in 1..Len(ss) |-> IF i = 1 THEN ss[i] ELSE f[i - 1] \o ss[i]]
  OBVIOUS
<1> HIDE DEF flatten
<1>3. Len(ss) \in 1..Len(ss)
  BY LenProperties
<1>4. PICK h : JoinedUpTo(ss, Len(ss), h)
  BY <1>3, JoinsExist
<1>5. JoinedUpTo(ss, Len(ss), flatten)
  BY <1>2, <1>4 DEF JoinedUpTo
<1>6. \A i \in 1..Len(ss) : flatten[i] \in Seq(S)
  <2> DEFINE T == {m \in Nat : m \in 1..Len(ss) /\ flatten[m] \notin Seq(S)}
  <2>0. Len(ss) \in Nat /\ \A i \in 1..Len(ss) : ss[i] \in Seq(S)
    BY LenProperties, ElementOfSeq
  <2>1. SUFFICES ASSUME T # {} PROVE FALSE
    <3>1. \A i \in 1..Len(ss) : i \in Nat
      BY <2>0
    <3> QED
      BY <3>1
  <2>2. PICK m \in T : \A l \in T : m <= l
    BY <2>1, LeastNat
  <2>3. flatten[m] = IF m = 1 THEN ss[m] ELSE flatten[m - 1] \o ss[m]
    BY <1>5, <2>2 DEF JoinedUpTo
  <2>4. CASE m = 1
    BY <2>0, <2>2, <2>3, <2>4
  <2>5. CASE m # 1
    <3>1. m - 1 \in Nat /\ m - 1 \in 1..Len(ss) /\ ~(m <= m - 1) /\ m \in 1..Len(ss)
      BY <2>0, <2>2, <2>5
    <3>2. flatten[m - 1] \in Seq(S) /\ ss[m] \in Seq(S)
      BY <2>0, <2>2, <3>1
    <3>3. flatten[m - 1] \o ss[m] \in Seq(S)
      BY <3>2, ConcatProperties
    <3> QED
      BY <2>2, <2>3, <2>5, <3>3
  <2> QED
    BY <2>4, <2>5
<1> QED
  BY <1>1, <1>5, <1>6

\* One more list is joined.
LEMMA PlacesAppend ==
  ASSUME NEW S, NEW ss \in Seq(Seq(S)), NEW m \in 1..Len(ss), m # 1, NEW t \in Seq(S),
         NEW at, PlacesOf(ss, m - 1, t, at)
  PROVE  \E b : PlacesOf(ss, m, t \o ss[m], b)
<1> DEFINE n == Len(t)  w == ss[m]  u == t \o w
           b == [k \in 1..n + Len(w) |-> IF k <= n THEN at[k] ELSE <<m, k - n>>]
<1>1. w \in Seq(S) /\ Len(w) \in Nat /\ n \in Nat /\ m \in Nat
  BY LenProperties, ElementOfSeq
<1>2. /\ u \in Seq(S) /\ Len(u) = n + Len(w) /\ \A i \in 1..n : u[i] = t[i]
      /\ \A i \in 1..Len(w) : u[n + i] = w[i]
  BY <1>1, ConcatProperties
<1>3. /\ at \in [1..n -> Nat \X Nat] /\ IsInjective(at)
      /\ \A k \in 1..n : /\ at[k][1] \in 1..m - 1 /\ at[k][2] \in 1..Len(ss[at[k][1]])
                       /\ t[k] = ss[at[k][1]][at[k][2]]
  BY DEF PlacesOf
<1> HIDE DEF n, w, u
<1>4. \A k \in 1..n + Len(w) :
        (k <= n => k \in 1..n) /\ (~(k <= n) => k - n \in 1..Len(w) /\ k = n + (k - n) /\ k - n \in Nat)
  BY <1>1
<1>5. b \in [1..n + Len(w) -> Nat \X Nat]
  BY <1>1, <1>3, <1>4
<1>6. ASSUME NEW k \in 1..n + Len(w)
      PROVE  b[k][1] \in 1..m /\ b[k][2] \in 1..Len(ss[b[k][1]]) /\ u[k] = ss[b[k][1]][b[k][2]]
  <2>1. CASE k <= n
    <3>1. b[k] = at[k] /\ k \in 1..n
      BY <1>4, <2>1
    <3>2. at[k][1] \in 1..m - 1 => at[k][1] \in 1..m
      BY <1>1
    <3> HIDE DEF b
    <3> QED
      BY <1>2, <1>3, <3>1, <3>2
  <2>2. CASE ~(k <= n)
    <3>1. b[k][1] = m /\ b[k][2] = k - n /\ k - n \in 1..Len(w) /\ u[k] = w[k - n]
      BY <1>2, <1>4, <2>2
    <3>2. m \in 1..m
      BY <1>1
    <3> HIDE DEF b
    <3> QED
      BY <3>1, <3>2 DEF w
  <2> QED
    BY <2>1, <2>2
<1>7. IsInjective(b)
  <2> SUFFICES ASSUME NEW i \in 1..n + Len(w), NEW j \in 1..n + Len(w), b[i] = b[j]
               PROVE  i = j
    BY DEF IsInjective
  <2>0. m \notin 1..m - 1
    BY <1>1
  <2>1. CASE i <= n /\ j <= n
    BY <1>3, <1>4, <2>1 DEF IsInjective
  <2>2. CASE ~(i <= n) /\ ~(j <= n)
    <3>1. b[i][2] = i - n /\ b[j][2] = j - n
      BY <2>2
    <3> QED
      BY <1>1, <3>1
  <2>3. ASSUME NEW k \in 1..n + Len(w), NEW l \in 1..n + Len(w), k <= n, ~(l <= n) PROVE b[k] # b[l]
    <3>1. b[k] = at[k] /\ b[l][1] = m /\ at[k][1] \in 1..m - 1
      BY <1>3, <1>4, <2>3
    <3> QED
      BY <2>0, <3>1
  <2> QED
    BY <2>1, <2>2, <2>3
<1> HIDE DEF b
<1>8. PlacesOf(ss, m, u, b)
  BY <1>2, <1>5, <1>6, <1>7 DEF PlacesOf
<1> QED
  BY <1>8 DEF u, w

\* Every element of FlattenSeq comes from a place of its own in the lists.
LEMMA FlattenPlaces ==
  ASSUME NEW S, NEW ss \in Seq(Seq(S))
  PROVE  FlattenSeq(ss) \in Seq(S) /\ \E at : PlacesOf(ss, Len(ss), FlattenSeq(ss), at)
<1>0. Len(ss) \in Nat /\ \A i \in 1..Len(ss) : ss[i] \in Seq(S)
  BY LenProperties, ElementOfSeq
<1>1. CASE Len(ss) = 0
  <2>1. ss = <<>> /\ FlattenSeq(ss) = <<>>
    BY <1>1, EmptySeq DEF FlattenSeq
  <2>2. <<>> \in Seq(S) /\ Len(<<>>) = 0
    BY EmptySeq
  <2>3. PlacesOf(ss, 0, <<>>, [k \in 1..0 |-> <<0, 0>>])
    BY <2>2 DEF PlacesOf, IsInjective
  <2> QED
    BY <1>1, <2>1, <2>2, <2>3
<1>2. CASE Len(ss) # 0
  <2>1. PICK f : /\ JoinedUpTo(ss, Len(ss), f) /\ \A i \in 1..Len(ss) : f[i] \in Seq(S)
                 /\ FlattenSeq(ss) = f[Len(ss)]
    BY <1>2, FlattenJoins
  <2> DEFINE P(m) == \E at : PlacesOf(ss, m, f[m], at)
             T == {m \in Nat : m \in 1..Len(ss) /\ ~P(m)}
  <2>2. ASSUME T # {} PROVE FALSE
    <3>1. PICK m \in T : \A l \in T : m <= l
      <4> HIDE DEF P
      <4> QED
        BY <2>2, LeastNat
    <3>2. m \in Nat /\ m \in 1..Len(ss) /\ f[m] = IF m = 1 THEN ss[m] ELSE f[m - 1] \o ss[m]
      BY <2>1, <3>1 DEF JoinedUpTo
    <3>3. CASE m = 1
      <4>1. f[1] = ss[1] /\ ss[1] \in Seq(S) /\ 1 \in 1..Len(ss)
        BY <1>0, <3>2, <3>3
      <4> DEFINE b == [k \in 1..Len(ss[1]) |-> <<1, k>>]
      <4>2. Len(ss[1]) \in Nat
        BY <4>1, LenProperties
      <4>3. b \in [1..Len(ss[1]) -> Nat \X Nat]
        BY <4>2
      <4>4. IsInjective(b)
        BY DEF IsInjective
      <4>5. \A k \in 1..Len(ss[1]) : b[k][1] = 1 /\ b[k][2] = k
        OBVIOUS
      <4> HIDE DEF b
      <4>6. PlacesOf(ss, 1, ss[1], b)
        BY <4>3, <4>4, <4>5 DEF PlacesOf
      <4> QED
        BY <3>1, <3>3, <4>1, <4>6
    <3>4. CASE m # 1
      <4>1. m - 1 \in Nat /\ m - 1 \in 1..Len(ss) /\ ~(m <= m - 1)
        BY <1>0, <3>2, <3>4
      <4>2. P(m - 1)
        <5> HIDE DEF P
        <5> QED
          BY <3>1, <4>1
      <4>3. PICK at : PlacesOf(ss, m - 1, f[m - 1], at)
        BY <4>2
      <4>4. f[m - 1] \in Seq(S)
        BY <2>1, <4>1
      <4>5. \E b : PlacesOf(ss, m, f[m - 1] \o ss[m], b)
        BY <3>2, <3>4, <4>3, <4>4, PlacesAppend
      <4> QED
        BY <3>1, <3>2, <3>4, <4>5
    <3> QED
      BY <3>3, <3>4
  <2>3. Len(ss) \in 1..Len(ss) /\ Len(ss) \in Nat
    BY <1>0, <1>2
  <2>4. P(Len(ss))
    <3> HIDE DEF P
    <3> QED
      BY <2>2, <2>3
  <2> QED
    BY <2>1, <2>3, <2>4
<1> QED
  BY <1>1, <1>2
-----------------------------------------------------------------------------
(* Sums over finite sets *)

\* The sum of the values that f has over a set, as MapThenSumSet computes it.
SumOver(f, S) == MapThenSumSet(LAMBDA x : f[x], S)

\* One step of that computation: what is left to add is summed already.
AnyOf(s) == CHOOSE x \in s : TRUE
SumStep(f, g, s) == IF s = {} THEN 0 ELSE f[AnyOf(s)] + g[s \ {AnyOf(s)}]
IsSum(f, g, S) == g = [s \in SUBSET S |-> SumStep(f, g, s)]
SumTable(f, S) == CHOOSE g : IsSum(f, g, S)

LEMMA SumOverTable == ASSUME NEW f, NEW S PROVE SumOver(f, S) = SumTable(f, S)[S]
BY DEF SumOver, MapThenSumSet, MapThenFoldSet, SumTable, IsSum, SumStep, AnyOf

LEMMA AnyOfIn == \A s : s # {} => AnyOf(s) \in s
BY DEF AnyOf

\* The computation is well-defined on finite sets.
SubsetsUpto(S, n) == {s \in SUBSET S : Cardinality(s) <= n}
PartialSum(f, g, S, n) == g = [s \in SubsetsUpto(S, n) |-> SumStep(f, g, s)]

LEMMA PartialSums ==
  ASSUME NEW f, NEW S, IsFiniteSet(S)
  PROVE  \A n \in Nat : \E g : PartialSum(f, g, S, n)
<1> DEFINE Bad == {n \in Nat : ~ \E g : PartialSum(f, g, S, n)}
<1>0. \A s \in SUBSET S : /\ Cardinality(s) \in Nat
                          /\ Cardinality(s) = 0 <=> s = {}
                          /\ \A x \in s : Cardinality(s \ {x}) = Cardinality(s) - 1
  <2> TAKE s \in SUBSET S
  <2>1. IsFiniteSet(s)
    BY FS_Subset
  <2> QED
    BY <2>1, FS_EmptySet, FS_CardinalityType, FS_RemoveElement
<1>1. SUFFICES ASSUME Bad # {} PROVE FALSE
  OBVIOUS
<1>2. PICK n \in Bad : \A m \in Bad : n <= m
  BY <1>1, LeastNat
<1>3. CASE n = 0
  <2> DEFINE g == [s \in SubsetsUpto(S, 0) |-> 0]
  <2>1. \A s \in SubsetsUpto(S, 0) : s = {}
    BY <1>0 DEF SubsetsUpto
  <2>2. \A s \in SubsetsUpto(S, 0) : SumStep(f, g, s) = 0
    BY <2>1 DEF SumStep
  <2>3. g = [s \in SubsetsUpto(S, 0) |-> SumStep(f, g, s)]
    BY <2>2
  <2>4. PartialSum(f, g, S, 0)
    BY <2>3, Zenon DEF PartialSum
  <2> QED
    BY <1>3, <2>4
<1>4. CASE n # 0
  <2>1. n \in Nat /\ n - 1 \in Nat /\ n - 1 \notin Bad
    BY <1>2, <1>4
  <2>2. PICK h : PartialSum(f, h, S, n - 1)
    BY <2>1
  <2> DEFINE g == [s \in SubsetsUpto(S, n) |-> SumStep(f, h, s)]
  <2>3. \A s \in SubsetsUpto(S, n) : s # {} => s \ {AnyOf(s)} \in SubsetsUpto(S, n - 1) /\ s \ {AnyOf(s)} \in SubsetsUpto(S, n)
    BY <1>0, <2>1, AnyOfIn DEF SubsetsUpto
  <2>4. \A s \in SubsetsUpto(S, n - 1) : s \in SubsetsUpto(S, n)
    BY <1>0, <2>1 DEF SubsetsUpto
  <2>5. \A s \in SubsetsUpto(S, n - 1) : h[s] = SumStep(f, h, s) /\ g[s] = h[s]
    BY <2>2, <2>4 DEF PartialSum
  <2>6. \A s \in SubsetsUpto(S, n) : SumStep(f, h, s) = SumStep(f, g, s)
    BY <2>3, <2>5, Zenon DEF SumStep
  <2>7. PartialSum(f, g, S, n)
    BY <2>6 DEF PartialSum
  <2> QED
    BY <1>2, <2>7
<1> QED
  BY <1>3, <1>4

LEMMA SumExists ==
  ASSUME NEW f, NEW S, IsFiniteSet(S)
  PROVE  IsSum(f, SumTable(f, S), S)
<1>1. Cardinality(S) \in Nat
  BY FS_CardinalityType
<1>2. PICK g : PartialSum(f, g, S, Cardinality(S))
  BY <1>1, PartialSums
<1>3. SubsetsUpto(S, Cardinality(S)) = SUBSET S
  BY FS_Subset, Zenon DEF SubsetsUpto
<1>4. IsSum(f, g, S)
  BY <1>2, <1>3, Zenon DEF IsSum, PartialSum
<1> QED
  BY <1>4, Zenon DEF SumTable

\* Computations that are given the same values agree.
LEMMA SumAgrees ==
  ASSUME NEW e, NEW f, NEW g, NEW h, NEW S, NEW T, NEW R, R \subseteq S, R \subseteq T, IsFiniteSet(R),
         IsSum(e, g, S), IsSum(f, h, T), \A x \in R : e[x] = f[x]
  PROVE  g[R] = h[R]
<1> DEFINE Bad == {n \in Nat : \E t \in SUBSET R : Cardinality(t) = n /\ g[t] # h[t]}
<1>1. SUFFICES ASSUME Bad # {} PROVE FALSE
  <2>1. Cardinality(R) \in Nat
    BY FS_CardinalityType
  <2> QED
    BY <2>1
<1>2. PICK n \in Bad : \A m \in Bad : n <= m
  BY <1>1, LeastNat
<1>3. PICK t \in SUBSET R : Cardinality(t) = n /\ g[t] # h[t]
  BY <1>2
<1>4. g[t] = SumStep(e, g, t) /\ h[t] = SumStep(f, h, t)
  BY DEF IsSum
<1>5. t # {} /\ AnyOf(t) \in t
  BY <1>3, <1>4, AnyOfIn DEF SumStep
<1> DEFINE u == t \ {AnyOf(t)}
<1>6. IsFiniteSet(t)
  BY FS_Subset
<1>7. Cardinality(u) = n - 1 /\ Cardinality(u) \in Nat
  BY <1>3, <1>5, <1>6, FS_RemoveElement, FS_CardinalityType
<1>8. Cardinality(u) \notin Bad
  <2>1. n \in Nat /\ ~(n <= n - 1)
    BY <1>2
  <2> QED
    BY <1>2, <1>7, <2>1, Zenon
<1>9. g[u] = h[u]
  BY <1>7, <1>8
<1> QED
  BY <1>3, <1>4, <1>5, <1>9, Zenon DEF SumStep

\* Sums depend only on the values that are added.
LEMMA SumSame ==
  ASSUME NEW e, NEW f, NEW S, IsFiniteSet(S), \A x \in S : e[x] = f[x]
  PROVE  SumOver(e, S) = SumOver(f, S)
<1>1. IsSum(e, SumTable(e, S), S) /\ IsSum(f, SumTable(f, S), S) /\ S \subseteq S
  BY SumExists
<1>2. SumTable(e, S)[S] = SumTable(f, S)[S]
  BY <1>1, SumAgrees
<1> QED
  BY <1>2, SumOverTable

LEMMA SumEmpty == ASSUME NEW f PROVE SumOver(f, {}) = 0
<1>1. IsSum(f, SumTable(f, {}), {})
  BY FS_EmptySet, SumExists
<1> QED
  BY <1>1, SumOverTable DEF IsSum, SumStep

LEMMA SumAny ==
  ASSUME NEW f, NEW S, IsFiniteSet(S), S # {}
  PROVE  SumOver(f, S) = f[AnyOf(S)] + SumOver(f, S \ {AnyOf(S)})
<1> DEFINE T == S \ {AnyOf(S)}
<1>1. IsFiniteSet(T)
  BY FS_RemoveElement
<1>2. IsSum(f, SumTable(f, S), S) /\ IsSum(f, SumTable(f, T), T)
  BY <1>1, SumExists
<1>3. SumTable(f, S)[T] = SumTable(f, T)[T]
  <2>1. T \subseteq S /\ T \subseteq T
    OBVIOUS
  <2>2. PICK e : e = f
    OBVIOUS
  <2> HIDE DEF T
  <2>3. IsSum(e, SumTable(f, S), S) /\ \A x \in T : e[x] = f[x]
    BY <1>2, <2>2, Zenon
  <2> QED
    BY <1>1, <1>2, <2>1, <2>3, SumAgrees
<1>4. SumTable(f, S)[S] = f[AnyOf(S)] + SumTable(f, S)[T]
  BY <1>2 DEF IsSum, SumStep
<1> QED
  BY <1>3, <1>4, SumOverTable

\* What every finite set of naturals adds up to is a natural.
LEMMA SumNat ==
  ASSUME NEW f, NEW S, IsFiniteSet(S), \A x \in S : f[x] \in Nat
  PROVE  SumOver(f, S) \in Nat
<1> DEFINE Bad == {n \in Nat : \E t \in SUBSET S : Cardinality(t) = n /\ SumOver(f, t) \notin Nat}
<1>1. SUFFICES ASSUME Bad # {} PROVE FALSE
  <2>1. Cardinality(S) \in Nat
    BY FS_CardinalityType
  <2> QED
    BY <2>1
<1>2. PICK n \in Bad : \A m \in Bad : n <= m
  BY <1>1, LeastNat
<1>3. PICK t \in SUBSET S : Cardinality(t) = n /\ SumOver(f, t) \notin Nat
  BY <1>2
<1>4. t # {} /\ AnyOf(t) \in t
  BY <1>3, SumEmpty, AnyOfIn
<1> DEFINE u == t \ {AnyOf(t)}
<1>5. IsFiniteSet(t)
  BY FS_Subset
<1>6. Cardinality(u) = n - 1 /\ Cardinality(u) \in Nat
  BY <1>3, <1>4, <1>5, FS_RemoveElement, FS_CardinalityType
<1>7. Cardinality(u) \notin Bad
  <2>1. n \in Nat /\ ~(n <= n - 1)
    BY <1>2
  <2> QED
    BY <1>2, <1>6, <2>1, Zenon
<1>8. SumOver(f, u) \in Nat
  BY <1>6, <1>7
<1>9. SumOver(f, t) = f[AnyOf(t)] + SumOver(f, u)
  BY <1>4, <1>5, SumAny
<1> QED
  BY <1>3, <1>4, <1>8, <1>9

\* Any element may be added last.
LEMMA SumRemove ==
  ASSUME NEW f, NEW S, IsFiniteSet(S), NEW x \in S, \A y \in S : f[y] \in Nat
  PROVE  SumOver(f, S) = f[x] + SumOver(f, S \ {x})
<1> DEFINE Bad == {n \in Nat : \E t \in SUBSET S : \E y \in t :
                     Cardinality(t) = n /\ SumOver(f, t) # f[y] + SumOver(f, t \ {y})}
<1>1. SUFFICES ASSUME Bad # {} PROVE FALSE
  <2>1. Cardinality(S) \in Nat
    BY FS_CardinalityType
  <2> QED
    BY <2>1
<1>2. PICK n \in Bad : \A m \in Bad : n <= m
  BY <1>1, LeastNat
<1>a. PICK t \in SUBSET S : \E y \in t : Cardinality(t) = n /\ SumOver(f, t) # f[y] + SumOver(f, t \ {y})
  BY <1>2
<1>3. PICK y \in t : Cardinality(t) = n /\ SumOver(f, t) # f[y] + SumOver(f, t \ {y})
  BY <1>a
<1>4. IsFiniteSet(t) /\ t # {}
  BY <1>3, FS_Subset
<1> DEFINE z == AnyOf(t)
           u == t \ {z}
           v == t \ {y}
           w == u \ {y}
<1>5. z \in t
  BY <1>4, AnyOfIn
<1>6. SumOver(f, t) = f[z] + SumOver(f, u)
  BY <1>4, SumAny
<1>7. z # y
  BY <1>3, <1>6
<1>8. /\ IsFiniteSet(u) /\ IsFiniteSet(v) /\ IsFiniteSet(w)
      /\ Cardinality(u) = n - 1 /\ Cardinality(v) = n - 1 /\ n - 1 \in Nat
  <2>1. IsFiniteSet(u) /\ Cardinality(u) = n - 1
    BY <1>3, <1>4, <1>5, FS_RemoveElement
  <2>2. IsFiniteSet(v) /\ Cardinality(v) = n - 1
    BY <1>3, <1>4, FS_RemoveElement
  <2> HIDE DEF u, v
  <2> QED
    BY <2>1, <2>2, FS_RemoveElement, FS_CardinalityType
<1>9. n - 1 \notin Bad
  <2>1. n \in Nat /\ ~(n <= n - 1)
    BY <1>2
  <2> QED
    BY <1>2, <2>1, Zenon
<1>10. u \in SUBSET S /\ v \in SUBSET S /\ w \in SUBSET S /\ y \in u /\ z \in v /\ v \ {z} = w
  BY <1>3, <1>5, <1>7
<1> HIDE DEF z, u, v, w
<1>11. SumOver(f, u) = f[y] + SumOver(f, w) /\ SumOver(f, v) = f[z] + SumOver(f, w)
  <2>1. \A s \in SUBSET S : \A r \in s : Cardinality(s) = n - 1 => SumOver(f, s) = f[r] + SumOver(f, s \ {r})
    BY <1>8, <1>9
  <2>2. SumOver(f, u) = f[y] + SumOver(f, u \ {y}) /\ SumOver(f, v) = f[z] + SumOver(f, v \ {z})
    BY <1>8, <1>10, <2>1, Zenon
  <2> QED
    BY <1>10, <2>2 DEF w
<1>12. f[y] \in Nat /\ f[z] \in Nat /\ SumOver(f, w) \in Nat
  BY <1>5, <1>8, <1>10, SumNat
<1>13. SumOver(f, t) # f[y] + SumOver(f, v)
  BY <1>3 DEF v
<1> QED
  BY <1>6, <1>11, <1>12, <1>13

LEMMA SumAdd ==
  ASSUME NEW f, NEW S, IsFiniteSet(S), NEW x, x \notin S, \A y \in S \cup {x} : f[y] \in Nat
  PROVE  SumOver(f, S \cup {x}) = f[x] + SumOver(f, S)
<1>1. IsFiniteSet(S \cup {x}) /\ (S \cup {x}) \ {x} = S
  BY FS_AddElement
<1> QED
  BY <1>1, SumRemove

\* A change of one of the values.
LEMMA SumChange ==
  ASSUME NEW e, NEW f, NEW S, IsFiniteSet(S), NEW x \in S, NEW k \in Int,
         \A y \in S : e[y] \in Nat /\ f[y] \in Nat, \A y \in S \ {x} : f[y] = e[y],
         f[x] = e[x] + k
  PROVE  SumOver(f, S) = SumOver(e, S) + k
<1> DEFINE T == S \ {x}
<1>1. IsFiniteSet(T)
  BY FS_RemoveElement
<1>2. SumOver(f, T) = SumOver(e, T)
  BY <1>1, SumSame
<1>3. SumOver(f, T) \in Nat
  BY <1>1, SumNat
<1>4. SumOver(e, S) = e[x] + SumOver(e, T) /\ SumOver(f, S) = f[x] + SumOver(f, T)
  BY SumRemove
<1> HIDE DEF T
<1> QED
  BY <1>2, <1>3, <1>4

\* Each value is at most the sum.
LEMMA SumContains ==
  ASSUME NEW f, NEW S, IsFiniteSet(S), \A y \in S : f[y] \in Nat, NEW x \in S
  PROVE  f[x] <= SumOver(f, S)
<1>1. IsFiniteSet(S \ {x})
  BY FS_RemoveElement
<1>2. SumOver(f, S \ {x}) \in Nat
  BY <1>1, SumNat
<1> QED
  BY <1>2, SumRemove

\* Values of at most m.
LEMMA SumBound ==
  ASSUME NEW f, NEW S, IsFiniteSet(S), NEW m \in Nat, \A y \in S : f[y] \in 0..m
  PROVE  SumOver(f, S) <= Cardinality(S) * m
<1> DEFINE Bad == {n \in Nat : \E t \in SUBSET S : Cardinality(t) = n /\ ~(SumOver(f, t) <= n * m)}
<1>1. SUFFICES ASSUME Bad # {} PROVE FALSE
  <2>1. Cardinality(S) \in Nat
    BY FS_CardinalityType
  <2> QED
    BY <2>1
<1>2. PICK n \in Bad : \A l \in Bad : n <= l
  BY <1>1, LeastNat
<1>3. PICK t \in SUBSET S : Cardinality(t) = n /\ ~(SumOver(f, t) <= n * m)
  BY <1>2
<1>4. t # {} /\ AnyOf(t) \in t
  <2>1. t = {} => n = 0 /\ SumOver(f, t) = 0
    BY <1>3, SumEmpty, FS_EmptySet
  <2>2. 0 * m = 0 /\ 0 <= 0
    OBVIOUS
  <2> QED
    BY <1>3, <2>1, <2>2, AnyOfIn
<1> DEFINE u == t \ {AnyOf(t)}
<1>5. IsFiniteSet(t)
  BY FS_Subset
<1>6. Cardinality(u) = n - 1 /\ Cardinality(u) \in Nat /\ IsFiniteSet(u)
  BY <1>3, <1>4, <1>5, FS_RemoveElement, FS_CardinalityType
<1>7. Cardinality(u) \notin Bad
  <2>1. n \in Nat /\ ~(n <= n - 1)
    BY <1>2
  <2> QED
    BY <1>2, <1>6, <2>1, Zenon
<1>8. SumOver(f, u) <= (n - 1) * m
  BY <1>6, <1>7
<1>9. SumOver(f, t) = f[AnyOf(t)] + SumOver(f, u)
  BY <1>4, <1>5, SumAny
<1>10. SumOver(f, u) \in Nat /\ f[AnyOf(t)] \in 0..m
  BY <1>4, <1>6, SumNat
<1>11. (n - 1) * m = n * m - m /\ n * m \in Nat
  BY <1>2
<1> QED
  BY <1>3, <1>8, <1>9, <1>10, <1>11

\* Smaller values, smaller sums.
LEMMA SumBelow ==
  ASSUME NEW e, NEW f, NEW S, IsFiniteSet(S),
         \A y \in S : e[y] \in Nat /\ f[y] \in Nat /\ e[y] <= f[y]
  PROVE  SumOver(e, S) <= SumOver(f, S)
<1> DEFINE Bad == {n \in Nat : \E t \in SUBSET S : Cardinality(t) = n /\ ~(SumOver(e, t) <= SumOver(f, t))}
<1>1. SUFFICES ASSUME Bad # {} PROVE FALSE
  <2>1. Cardinality(S) \in Nat
    BY FS_CardinalityType
  <2>2. S \in SUBSET S
    OBVIOUS
  <2> QED
    BY <2>1, <2>2
<1>2. PICK n \in Bad : \A k \in Bad : n <= k
  BY <1>1, LeastNat
<1>3. PICK t \in SUBSET S : Cardinality(t) = n /\ ~(SumOver(e, t) <= SumOver(f, t))
  BY <1>2
<1>4. IsFiniteSet(t) /\ n \in Nat
  BY <1>2, FS_Subset
<1>5. t # {}
  <2>1. SumOver(e, {}) = 0 /\ SumOver(f, {}) = 0
    BY SumEmpty
  <2> QED
    BY <1>3, <2>1
<1>6. PICK x \in t : TRUE
  BY <1>5
<1> DEFINE u == t \ {x}
<1>7. IsFiniteSet(u) /\ Cardinality(u) = n - 1 /\ u \in SUBSET S
  BY <1>3, <1>4, FS_RemoveElement
<1>8. n - 1 \in Nat
  <2> HIDE DEF u
  <2>1. Cardinality(u) \in Nat
    BY <1>7, FS_CardinalityType
  <2> QED
    BY <1>7, <2>1
<1>9. n - 1 \notin Bad
  <2>1. ~(n <= n - 1)
    BY <1>4
  <2> QED
    BY <1>2, <2>1, Zenon
<1>10. SumOver(e, u) <= SumOver(f, u)
  <2> HIDE DEF u
  <2> QED
    BY <1>7, <1>8, <1>9
<1>11. \A y \in t : e[y] \in Nat /\ f[y] \in Nat
  OBVIOUS
<1>12. SumOver(e, t) = e[x] + SumOver(e, u)
  BY <1>4, <1>11, SumRemove
<1>13. SumOver(f, t) = f[x] + SumOver(f, u)
  BY <1>4, <1>11, SumRemove
<1>14. \A y \in u : e[y] \in Nat /\ f[y] \in Nat
  OBVIOUS
<1> HIDE DEF u
<1>15. SumOver(e, u) \in Nat /\ SumOver(f, u) \in Nat
  BY <1>7, <1>14, SumNat
<1>16. e[x] \in Nat /\ f[x] \in Nat /\ e[x] <= f[x]
  BY <1>6
<1> QED
  BY <1>3, <1>10, <1>12, <1>13, <1>15, <1>16

\* The sum of a function, as the counters are added up.
LEMMA SumOfFunction == ASSUME NEW f PROVE SumFunction(f) = SumOver(f, DOMAIN f)
BY DEF SumFunction, SumFunctionOnSet, FoldFunctionOnSet, SumOver, MapThenSumSet, MapThenFoldSet

-----------------------------------------------------------------------------
(* Sizes, bounds and elements *)

\* Sets that differ in at most one element.
LEMMA OneDiffers ==
  ASSUME NEW L, IsFiniteSet(L), NEW S \in SUBSET L, NEW T \in SUBSET L, NEW w \in L,
         S \ {w} = T \ {w}
  PROVE  /\ Cardinality(S) \in Nat /\ Cardinality(T) \in Nat
         /\ (w \in S <=> w \in T) => Cardinality(T) = Cardinality(S)
         /\ w \notin S /\ w \in T => Cardinality(T) = Cardinality(S) + 1
         /\ w \in S /\ w \notin T => Cardinality(T) = Cardinality(S) - 1
<1>1. IsFiniteSet(S) /\ IsFiniteSet(T)
  BY FS_Subset
<1>2. Cardinality(S) \in Nat /\ Cardinality(T) \in Nat
  BY <1>1, FS_CardinalityType
<1>3. (w \in S <=> w \in T) => S = T
  OBVIOUS
<1>4. w \notin S /\ w \in T => T \ {w} = S
  OBVIOUS
<1>5. w \in S /\ w \notin T => S \ {w} = T
  OBVIOUS
<1>6. w \in T => Cardinality(T \ {w}) = Cardinality(T) - 1
  BY <1>1, FS_RemoveElement
<1>7. w \in S => Cardinality(S \ {w}) = Cardinality(S) - 1
  BY <1>1, FS_RemoveElement
<1>8. (w \in S <=> w \in T) => Cardinality(T) = Cardinality(S)
  BY <1>3
<1>9. w \notin S /\ w \in T => Cardinality(S) = Cardinality(T) - 1
  BY <1>4, <1>6
<1>10. w \in S /\ w \notin T => Cardinality(T) = Cardinality(S) - 1
  BY <1>5, <1>7
<1>11. w \notin S /\ w \in T => Cardinality(T) = Cardinality(S) + 1
  BY <1>2, <1>9
<1> QED
  BY <1>2, <1>8, <1>10, <1>11

\* Disjoint sets with at least m elements each.
LEMMA UnionCount ==
  ASSUME NEW I, IsFiniteSet(I), NEW T, NEW m \in Nat,
         \A i \in I : IsFiniteSet(T[i]) /\ Cardinality(T[i]) >= m,
         \A i, j \in I : i # j => T[i] \cap T[j] = {}
  PROVE  /\ IsFiniteSet(UNION {T[i] : i \in I})
         /\ Cardinality(UNION {T[i] : i \in I}) >= Cardinality(I) * m
<1> DEFINE All(t) == UNION {T[i] : i \in t}
           Fits(t) == IsFiniteSet(All(t)) /\ Cardinality(All(t)) >= Cardinality(t) * m
           Bad == {n \in Nat : \E t \in SUBSET I : Cardinality(t) = n /\ ~Fits(t)}
<1>1. SUFFICES ASSUME Bad # {} PROVE FALSE
  <2>1. Cardinality(I) \in Nat
    BY FS_CardinalityType
  <2>2. I \in SUBSET I
    OBVIOUS
  <2> HIDE DEF Fits
  <2>3. Fits(I)
    BY <2>1, <2>2
  <2> QED
    BY <2>3 DEF Fits
<1>2. PICK n \in Bad : \A k \in Bad : n <= k
  BY <1>1, LeastNat
<1>3. PICK t \in SUBSET I : Cardinality(t) = n /\ ~Fits(t)
  BY <1>2
<1>4. IsFiniteSet(t) /\ n \in Nat
  BY <1>2, FS_Subset
<1>5. t # {}
  <2>1. ASSUME t = {} PROVE FALSE
    <3>1. All(t) = {} /\ n = 0
      BY <1>3, <2>1, FS_EmptySet
    <3>2. Cardinality({}) >= 0 * m /\ IsFiniteSet({}) /\ Cardinality({}) = 0
      BY FS_EmptySet
    <3> QED
      BY <1>3, <2>1, <3>1, <3>2
  <2> QED
    BY <2>1
<1>6. PICK i \in t : TRUE
  BY <1>5
<1> DEFINE u == t \ {i}
<1>7. Cardinality(u) = n - 1 /\ n - 1 \in Nat /\ u \in SUBSET I
  <2>1. IsFiniteSet(u) /\ Cardinality(u) = n - 1
    BY <1>3, <1>4, <1>6, FS_RemoveElement
  <2>2. u \in SUBSET I
    OBVIOUS
  <2> HIDE DEF u
  <2>3. Cardinality(u) \in Nat
    BY <2>1, FS_CardinalityType
  <2> QED
    BY <2>1, <2>2, <2>3
<1>8. n - 1 \notin Bad
  <2>1. ~(n <= n - 1)
    BY <1>4
  <2> QED
    BY <1>2, <2>1, Zenon
<1>9. Fits(u)
  BY <1>7, <1>8
<1>10. All(t) = All(u) \cup T[i] /\ All(u) \cap T[i] = {}
  OBVIOUS
<1>11. IsFiniteSet(T[i]) /\ Cardinality(T[i]) >= m /\ Cardinality(T[i]) \in Nat
  BY FS_CardinalityType
<1>12. IsFiniteSet(All(u)) /\ Cardinality(All(u)) >= (n - 1) * m /\ Cardinality(All(u)) \in Nat
  BY <1>7, <1>9, FS_CardinalityType
<1> HIDE DEF All, u
<1>13. Cardinality(All(t)) = Cardinality(All(u)) + Cardinality(T[i]) /\ IsFiniteSet(All(t))
  <2>1. PICK b : b = T[i]
    OBVIOUS
  <2>2. PICK a : a = All(u)
    OBVIOUS
  <2>3. /\ IsFiniteSet(a \cup b)
        /\ Cardinality(a \cup b) = Cardinality(a) + Cardinality(b) - Cardinality(a \cap b)
    BY <1>11, <1>12, <2>1, <2>2, FS_Union
  <2>4. Cardinality(a \cap b) = 0
    BY <1>10, <2>1, <2>2, FS_EmptySet
  <2>5. Cardinality(a) \in Nat /\ Cardinality(b) \in Nat
    BY <1>11, <1>12, <2>1, <2>2
  <2>6. Cardinality(a \cup b) = Cardinality(a) + Cardinality(b)
    BY <2>3, <2>4, <2>5
  <2> QED
    BY <1>10, <2>1, <2>2, <2>3, <2>6
<1>14. n * m = (n - 1) * m + m /\ (n - 1) * m \in Nat
  BY <1>4, <1>7
<1> QED
  BY <1>3, <1>11, <1>12, <1>13, <1>14

\* A least element is the least.
LEMMA MinIs ==
  ASSUME NEW S, S \subseteq Int, NEW k \in S, \A y \in S : k <= y
  PROVE  Min(S) = k
<1> DEFINE least(x) == x \in S /\ \A y \in S : x <= y
<1>1. least(k) /\ \A x : least(x) => x = k
  <2>1. ASSUME NEW x, least(x) PROVE x = k
    <3>1. x \in S /\ x \in Int /\ k \in Int
      BY <2>1
    <3>2. x <= k /\ k <= x
      BY <2>1, <3>1
    <3> QED
      BY <3>1, <3>2
  <2> QED
    BY <2>1
<1>2. Min(S) = CHOOSE x : least(x)
  BY Zenon DEF Min
<1> HIDE DEF least
<1> QED
  BY <1>1, <1>2

\* The other way round.
LEMMA MaxIs ==
  ASSUME NEW S, S \subseteq Int, NEW k \in S, \A y \in S : k >= y
  PROVE  Max(S) = k
<1> DEFINE most(x) == x \in S /\ \A y \in S : x >= y
<1>1. most(k) /\ \A x : most(x) => x = k
  <2>1. ASSUME NEW x, most(x) PROVE x = k
    <3>1. x \in S /\ x \in Int /\ k \in Int
      BY <2>1
    <3>2. x >= k /\ k >= x
      BY <2>1, <3>1
    <3> QED
      BY <3>1, <3>2
  <2> QED
    BY <2>1
<1>2. Max(S) = CHOOSE x : most(x)
  BY Zenon DEF Max
<1> HIDE DEF most
<1> QED
  BY <1>1, <1>2

\* The least and the greatest once a greater one is added.
LEMMA OneMore ==
  ASSUME NEW n \in Nat, NEW S, S \subseteq 1..n
  PROVE  /\ Max(S \cup {n + 1}) = n + 1
         /\ S = {} => Min(S \cup {n + 1}) = n + 1
         /\ S # {} => Min(S \cup {n + 1}) = Min(S) /\ Min(S) \in S
<1> DEFINE T == S \cup {n + 1}
<1>1. T \subseteq Int /\ n + 1 \in T /\ \A y \in T : n + 1 >= y
  OBVIOUS
<1>2. Max(T) = n + 1
  <2> HIDE DEF T
  <2>1. PICK k : k = n + 1
    OBVIOUS
  <2>2. k \in T /\ \A y \in T : k >= y
    BY <1>1, <2>1
  <2>3. Max(T) = k
    BY <1>1, <2>2, MaxIs
  <2> QED
    BY <2>1, <2>3
<1>3. ASSUME S = {} PROVE Min(T) = n + 1
  <2>1. T = {n + 1}
    BY <1>3
  <2>2. Min({n + 1}) = n + 1
    BY LeastOfOne
  <2> QED
    BY <2>1, <2>2
<1>4. ASSUME S # {} PROVE Min(T) = Min(S) /\ Min(S) \in S
  <2>1. S \subseteq Nat
    OBVIOUS
  <2>2. PICK k \in S : \A y \in S : k <= y
    BY <1>4, <2>1, LeastNat
  <2>3. k \in T /\ \A y \in T : k <= y
    BY <2>2
  <2>4. S \subseteq Int
    BY <2>1
  <2>5. Min(S) = k
    BY <2>2, <2>4, MinIs
  <2> HIDE DEF T
  <2>6. Min(T) = k
    BY <1>1, <2>3, MinIs
  <2> QED
    BY <2>2, <2>5, <2>6
<1> QED
  BY <1>2, <1>3, <1>4

\* A sequence over a set is one over a larger set.
LEMMA Wider ==
  ASSUME NEW S, NEW T, S \subseteq T, NEW list \in Seq(S)
  PROVE  list \in Seq(T)
<1>1. \A i \in 1..Len(list) : list[i] \in T
  OBVIOUS
<1> QED
  BY <1>1, IsASequence

\* A list of three, then one of two.
LEMMA ThreeAndTwo ==
  ASSUME NEW Q, NEW a \in Seq(Q), NEW b \in Seq(Q), Len(a) = 3, Len(b) = 2
  PROVE  /\ DOMAIN (a \o b) = 1..5 /\ Len(a \o b) = 5
         /\ (a \o b)[1] = a[1] /\ (a \o b)[2] = a[2] /\ (a \o b)[3] = a[3]
         /\ (a \o b)[4] = b[1] /\ (a \o b)[5] = b[2]
<1>1. /\ a \o b \in Seq(Q) /\ Len(a \o b) = Len(a) + Len(b)
      /\ \A i \in 1 .. Len(a) + Len(b) : (a \o b)[i] = IF i <= Len(a) THEN a[i] ELSE b[i - Len(a)]
  BY ConcatProperties
<1>2. PICK c \in Seq(Q) : c = a \o b
  BY <1>1
<1>3. Len(c) = 5 /\ \A i \in 1..5 : c[i] = IF i <= 3 THEN a[i] ELSE b[i - 3]
  BY <1>1, <1>2
<1>4. DOMAIN c = 1..5
  BY <1>3
<1>5. c[1] = a[1] /\ c[2] = a[2] /\ c[3] = a[3] /\ c[4] = b[1] /\ c[5] = b[2]
  BY <1>3
<1> QED
  BY <1>2, <1>3, <1>4, <1>5

=============================================================================
