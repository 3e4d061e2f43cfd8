---------------------------- MODULE MemoryProofs ----------------------------
(***************************************************************************)
(* Proofs about Memory, for every size of the heap, of its pages, headers  *)
(* and requests, and every number of pages: the blocks tile the heap and   *)
(* are coalesced, callers keep what they were given, the page bitmap and   *)
(* its hint protect the pages in use, and the statistics are true.         *)
(***************************************************************************)
EXTENDS Memory, SequenceTheorems, FiniteSetTheorems, WellFoundedInduction, TLAPS

-----------------------------------------------------------------------------
(* Numbers *)

\* A non-empty set of numbers has a least one.
LEMMA LeastExists ==
    ASSUME NEW S \in SUBSET Nat, S # {}
    PROVE  Min(S) \in S /\ \A y \in S : Min(S) <= y
<1> DEFINE R == OpToRel(<, Nat)
<1>1. IsWellFoundedOn(R, Nat)
  BY NatLessThanWellFounded
<1> HIDE DEF R
<1>2. PICK x \in S : \A y \in S : <<y, x>> \notin R
  BY <1>1, WFMin
<1>3. \A y \in S : x <= y
  <2> SUFFICES ASSUME NEW y \in S, y < x PROVE FALSE
    OBVIOUS
  <2>1. y \in Nat /\ x \in Nat
    OBVIOUS
  <2>2. <<y, x>> \in R
    BY <2>1 DEF R, OpToRel
  <2> QED BY <1>2, <2>2
<1> QED BY <1>2, <1>3 DEF Min

\* Rounding up does not make smaller.
LEMMA RoundUpIs ==
    ASSUME NEW n \in Nat, NEW unit \in Nat \ {0}
    PROVE  RoundUp(n, unit) \in Nat /\ RoundUp(n, unit) >= n
<1> DEFINE q == (n + unit - 1) \div unit
<1>1. q \in Nat /\ unit * q <= n + unit - 1 /\ n + unit - 1 < unit * (q + 1)
  OBVIOUS
<1>2. RoundUp(n, unit) = q * unit
  BY DEF RoundUp
<1> HIDE DEF q
<1>3. unit * (q + 1) = q * unit + unit /\ q * unit \in Nat
  BY <1>1
<1> QED BY <1>1, <1>2, <1>3

\* The heap region has room for its headers, and its pages.
LEMMA Sizes ==
    /\ HeapMax \in Nat /\ HeapMax >= InitialPages * PageSize /\ InitialPages * PageSize >= PageSize
    /\ InitialPages * PageSize \in Nat /\ GrowPages * PageSize \in Nat /\ PageSize \in Nat \ {0}
<1>1. PageSize \in Nat \ {0}
  BY UnitAssumption
<1>2. /\ InitialPages \in Nat \ {0} /\ MaxPages \in Nat /\ GrowPages \in Nat /\ InitialPages <= MaxPages
  BY RegionAssumption
<1>3. \A a \in Nat, b \in Nat, c \in Nat \ {0} : a <= b => a * c <= b * c
  OBVIOUS
<1>4. \A a \in Nat, b \in Nat : a * b \in Nat
  OBVIOUS
<1>5. \A c \in Nat : 1 * c = c
  OBVIOUS
<1>6. InitialPages * PageSize <= MaxPages * PageSize
  BY <1>1, <1>2, <1>3
<1>7. 1 * PageSize <= InitialPages * PageSize
  BY <1>1, <1>2, <1>3
<1> QED BY <1>1, <1>2, <1>4, <1>5, <1>6, <1>7 DEF HeapMax

\* The first n units occupy pages of the region only.
LEMMA PagesInside ==
    ASSUME NEW n \in 0 .. HeapMax
    PROVE  HeapPages(n) \subseteq PageSet
<1>1. PageSize \in Nat \ {0} /\ MaxPages \in Nat /\ n \in Nat /\ n <= MaxPages * PageSize
  BY Sizes, RegionAssumption DEF HeapMax
<1> DEFINE q == n \div PageSize
<1>2. q \in Nat /\ PageSize * q <= n
  BY <1>1
<1> HIDE DEF q
<1>3. \A a \in Nat, b \in Nat, c \in Nat \ {0} : c * a <= b * c => a <= b
  OBVIOUS
<1>4. PageSize * q <= MaxPages * PageSize
  <2>1. PageSize * q \in Int /\ MaxPages * PageSize \in Int
    BY <1>1, <1>2
  <2> QED BY <1>1, <1>2, <2>1
<1>5. q <= MaxPages
  BY <1>1, <1>2, <1>3, <1>4
<1>6. HeapPages(n) = HeapBase .. HeapBase + q - 1
  BY DEF HeapPages, q
<1> QED BY <1>1, <1>2, <1>5, <1>6, RegionAssumption DEF PageSet

-----------------------------------------------------------------------------
(* Lists *)

\* u is s with e inserted behind position i.
Inserted(S, s, u, i, e) ==
    /\ u \in Seq(S)
    /\ Len(u) = Len(s) + 1
    /\ \A j \in 1 .. i : u[j] = s[j]
    /\ u[i + 1] = e
    /\ \A j \in i + 2 .. Len(s) + 1 : u[j] = s[j - 1]

LEMMA InsertAtIs ==
    ASSUME NEW S, NEW s \in Seq(S), NEW i \in 1 .. Len(s), NEW e \in S
    PROVE  Inserted(S, s, InsertAt(s, i + 1, e), i, e)
<1> DEFINE n == Len(s)
           a == SubSeq(s, 1, (i + 1) - 1)
           b == <<e>>
           c == SubSeq(s, i + 1, Len(s))
<1>1. n \in Nat /\ i \in 1 .. n /\ \A j \in 1 .. n : s[j] \in S
  BY LenProperties, ElementOfSeq
<1>2. a \in Seq(S) /\ Len(a) = i /\ \A j \in 1 .. i : a[j] = s[j]
  <2>1. (i + 1) - 1 = i /\ 1 \in Int /\ i \in Int /\ 1 <= i /\ i - 1 + 1 = i /\ \A j \in 1 .. i : s[j] \in S
    BY <1>1
  <2>2. /\ SubSeq(s, 1, i) \in Seq(S)
        /\ Len(SubSeq(s, 1, i)) = i - 1 + 1
        /\ \A j \in 1 .. i - 1 + 1 : SubSeq(s, 1, i)[j] = s[1 + j - 1]
    BY <2>1, SubSeqProperties
  <2>3. \A j \in 1 .. i : 1 + j - 1 = j
    OBVIOUS
  <2> QED BY <2>1, <2>2, <2>3
<1>3. b \in Seq(S) /\ Len(b) = 1 /\ b[1] = e
  OBVIOUS
<1>4. c \in Seq(S) /\ Len(c) = n - i /\ \A j \in 1 .. n - i : c[j] = s[i + j]
  <2>1. i + 1 \in Int /\ n \in Int /\ \A j \in i + 1 .. n : s[j] \in S
    BY <1>1
  <2> HIDE DEF n
  <2>2. /\ SubSeq(s, i + 1, n) \in Seq(S)
        /\ Len(SubSeq(s, i + 1, n)) = IF i + 1 <= n THEN n - (i + 1) + 1 ELSE 0
        /\ \A j \in 1 .. n - (i + 1) + 1 : SubSeq(s, i + 1, n)[j] = s[i + 1 + j - 1]
    BY <2>1, SubSeqProperties
  <2>3. /\ n - (i + 1) + 1 = n - i
        /\ (IF i + 1 <= n THEN n - (i + 1) + 1 ELSE 0) = n - i
        /\ \A j \in 1 .. n - i : i + 1 + j - 1 = i + j
    BY <1>1
  <2> QED BY <2>2, <2>3 DEF n
<1>5. InsertAt(s, i + 1, e) = a \o b \o c
  BY Zenon DEF InsertAt
<1> HIDE DEF n, a, b, c
<1>6. /\ a \o b \in Seq(S) /\ Len(a \o b) = i + 1
      /\ \A j \in 1 .. i + 1 : (a \o b)[j] = IF j <= i THEN a[j] ELSE b[j - i]
  <2>1. /\ a \o b \in Seq(S) /\ Len(a \o b) = Len(a) + Len(b)
        /\ \A j \in 1 .. Len(a) + Len(b) : (a \o b)[j] = IF j <= Len(a) THEN a[j] ELSE b[j - Len(a)]
    BY <1>2, <1>3, ConcatProperties
  <2>2. Len(a) + Len(b) = i + 1
    BY <1>2, <1>3
  <2> QED BY <1>2, <2>1, <2>2
<1>7. /\ (a \o b) \o c \in Seq(S) /\ Len((a \o b) \o c) = n + 1
      /\ \A j \in 1 .. n + 1 : ((a \o b) \o c)[j] = IF j <= i + 1 THEN (a \o b)[j] ELSE c[j - (i + 1)]
  <2>1. /\ (a \o b) \o c \in Seq(S) /\ Len((a \o b) \o c) = Len(a \o b) + Len(c)
        /\ \A j \in 1 .. Len(a \o b) + Len(c) : ((a \o b) \o c)[j] =
              IF j <= Len(a \o b) THEN (a \o b)[j] ELSE c[j - Len(a \o b)]
    BY <1>4, <1>6, ConcatProperties
  <2>2. Len(a \o b) + Len(c) = n + 1
    BY <1>1, <1>4, <1>6
  <2> QED BY <1>6, <2>1, <2>2
<1> DEFINE r == (a \o b) \o c
<1>8. \A j \in 1 .. i : r[j] = s[j]
  BY <1>1, <1>2, <1>6, <1>7
<1>9. r[i + 1] = e
  <2>1. i + 1 \in 1 .. n + 1 /\ i + 1 \in 1 .. i + 1 /\ i + 1 <= i + 1 /\ ~(i + 1 <= i) /\ i + 1 - i = 1
    BY <1>1
  <2> QED BY <1>3, <1>6, <1>7, <2>1
<1>10. \A j \in i + 2 .. n + 1 : r[j] = s[j - 1]
  <2> SUFFICES ASSUME NEW j \in i + 2 .. n + 1 PROVE r[j] = s[j - 1]
    OBVIOUS
  <2>1. j \in 1 .. n + 1 /\ ~(j <= i + 1) /\ j - (i + 1) \in 1 .. n - i /\ i + (j - (i + 1)) = j - 1
    BY <1>1
  <2> QED BY <1>4, <1>7, <2>1
<1> QED BY <1>5, <1>7, <1>8, <1>9, <1>10 DEF n, Inserted

LEMMA RemoveAtIs ==
    ASSUME NEW S, NEW s \in Seq(S), NEW i \in 1 .. Len(s)
    PROVE  /\ RemoveAt(s, i) \in Seq(S)
           /\ Len(RemoveAt(s, i)) = Len(s) - 1
           /\ \A j \in 1 .. i - 1 : RemoveAt(s, i)[j] = s[j]
           /\ \A j \in i .. Len(s) - 1 : RemoveAt(s, i)[j] = s[j + 1]
<1> DEFINE n == Len(s)
           a == SubSeq(s, 1, i - 1)
           c == SubSeq(s, i + 1, Len(s))
<1>1. n \in Nat /\ i \in 1 .. n /\ \A j \in 1 .. n : s[j] \in S
  BY LenProperties, ElementOfSeq
<1>2. a \in Seq(S) /\ Len(a) = i - 1 /\ \A j \in 1 .. i - 1 : a[j] = s[j]
  <2>1. i - 1 \in Int /\ 1 \in Int /\ \A j \in 1 .. i - 1 : s[j] \in S
    BY <1>1
  <2>2. /\ SubSeq(s, 1, i - 1) \in Seq(S)
        /\ Len(SubSeq(s, 1, i - 1)) = IF 1 <= i - 1 THEN (i - 1) - 1 + 1 ELSE 0
        /\ \A j \in 1 .. (i - 1) - 1 + 1 : SubSeq(s, 1, i - 1)[j] = s[1 + j - 1]
    BY <2>1, SubSeqProperties
  <2>3. /\ (i - 1) - 1 + 1 = i - 1
        /\ (IF 1 <= i - 1 THEN (i - 1) - 1 + 1 ELSE 0) = i - 1
        /\ \A j \in 1 .. i - 1 : 1 + j - 1 = j
    BY <1>1
  <2> QED BY <2>2, <2>3
<1>4. c \in Seq(S) /\ Len(c) = n - i /\ \A j \in 1 .. n - i : c[j] = s[i + j]
  <2>1. i + 1 \in Int /\ n \in Int /\ \A j \in i + 1 .. n : s[j] \in S
    BY <1>1
  <2> HIDE DEF n
  <2>2. /\ SubSeq(s, i + 1, n) \in Seq(S)
        /\ Len(SubSeq(s, i + 1, n)) = IF i + 1 <= n THEN n - (i + 1) + 1 ELSE 0
        /\ \A j \in 1 .. n - (i + 1) + 1 : SubSeq(s, i + 1, n)[j] = s[i + 1 + j - 1]
    BY <2>1, SubSeqProperties
  <2>3. /\ n - (i + 1) + 1 = n - i
        /\ (IF i + 1 <= n THEN n - (i + 1) + 1 ELSE 0) = n - i
        /\ \A j \in 1 .. n - i : i + 1 + j - 1 = i + j
    BY <1>1
  <2> QED BY <2>2, <2>3 DEF n
<1>5. RemoveAt(s, i) = a \o c
  BY DEF RemoveAt
<1> HIDE DEF n, a, c
<1>7. /\ a \o c \in Seq(S) /\ Len(a \o c) = n - 1
      /\ \A j \in 1 .. n - 1 : (a \o c)[j] = IF j <= i - 1 THEN a[j] ELSE c[j - (i - 1)]
  <2>1. /\ a \o c \in Seq(S) /\ Len(a \o c) = Len(a) + Len(c)
        /\ \A j \in 1 .. Len(a) + Len(c) : (a \o c)[j] = IF j <= Len(a) THEN a[j] ELSE c[j - Len(a)]
    BY <1>2, <1>4, ConcatProperties
  <2>2. Len(a) + Len(c) = n - 1
    BY <1>1, <1>2, <1>4
  <2> QED BY <1>2, <2>1, <2>2
<1>8. \A j \in 1 .. i - 1 : (a \o c)[j] = s[j]
  BY <1>1, <1>2, <1>7
<1>10. \A j \in i .. n - 1 : (a \o c)[j] = s[j + 1]
  <2> SUFFICES ASSUME NEW j \in i .. n - 1 PROVE (a \o c)[j] = s[j + 1]
    OBVIOUS
  <2>1. j \in 1 .. n - 1 /\ ~(j <= i - 1) /\ j - (i - 1) \in 1 .. n - i /\ i + (j - (i - 1)) = j + 1
    BY <1>1
  <2> QED BY <1>4, <1>7, <2>1
<1> QED BY <1>5, <1>7, <1>8, <1>10 DEF n

-----------------------------------------------------------------------------
(* Sums *)

\* Induction over the subsets of a finite set, for a set A of subsets: among
\* those that are not in A there would be a smallest.
LEMMA SubsetInduction ==
    ASSUME NEW S, IsFiniteSet(S), NEW A,
           \A T \in SUBSET S : (\A U \in SUBSET T : U # T => U \in A) => T \in A
    PROVE  S \in A
<1> DEFINE R == StrictSubsetOrdering(S)
           B == {T \in SUBSET S : T \notin A}
<1>1. SUFFICES ASSUME B # {} PROVE FALSE
  OBVIOUS
<1>2. IsWellFoundedOn(R, SUBSET S)
  BY FS_StrictSubsetOrderingWellFounded, FS_FiniteSubsetsOfFinite
<1>a. B \subseteq SUBSET S /\ B # {}
  BY <1>1
<1> HIDE DEF R, B
<1>3. PICK T \in B : \A U \in B : <<U, T>> \notin R
  BY <1>a, <1>2, WFMin
<1>4. ASSUME NEW U \in SUBSET T, U # T PROVE U \in A
  <2>1. <<U, T>> \in R
    BY <1>a, <1>4 DEF R, StrictSubsetOrdering
  <2> QED BY <1>3, <2>1 DEF B
<1> QED BY <1>3, <1>4 DEF B

\* g[T] is the sum of the weights w of the members of T, for every T within S:
\* whichever member is taken out, the rest weighs that much less.
IsSum(g, w, S) ==
    /\ g \in [SUBSET S -> Nat] /\ g[{}] = 0
    /\ \A T \in SUBSET S : \A x \in T : g[T] = w[x] + g[T \ {x}]

\* There is such a function.
LEMMA SumExists ==
    ASSUME NEW S, IsFiniteSet(S), NEW w \in [S -> Nat]
    PROVE  \E g : IsSum(g, w, S)
<1> DEFINE A == {T \in SUBSET S : \E g \in [SUBSET T -> Nat] : IsSum(g, w, T)}
<1>1. {} \in A
  <2> DEFINE g == [T \in SUBSET {} |-> 0]
  <2>1. g \in [SUBSET {} -> Nat] /\ g[{}] = 0
    OBVIOUS
  <2>2. \A T \in SUBSET {} : \A x \in T : g[T] = w[x] + g[T \ {x}]
    OBVIOUS
  <2> QED BY <2>1, <2>2 DEF IsSum
<1>2. ASSUME NEW T \in SUBSET S, NEW z \in S, T \in A, z \notin T PROVE T \cup {z} \in A
  <2>1. PICK g \in [SUBSET T -> Nat] : IsSum(g, w, T)
    BY <1>2
  <2> DEFINE X == T \cup {z}
             f == [U \in SUBSET X |-> IF z \in U THEN w[z] + g[U \ {z}] ELSE g[U]]
  <2>2. w[z] \in Nat /\ \A x \in X : w[x] \in Nat
    OBVIOUS
  <2>3. \A U \in SUBSET X : /\ z \in U => U \ {z} \in SUBSET T
                            /\ z \notin U => U \in SUBSET T
    OBVIOUS
  <2>4. \A U \in SUBSET T : g[U] \in Nat
    OBVIOUS
  <2>5. \A U \in SUBSET X : f[U] \in Nat
    BY <2>2, <2>3, <2>4
  <2>6. f \in [SUBSET X -> Nat]
    BY <2>5
  <2>7. f[{}] = 0
    BY <2>1 DEF IsSum
  <2>8. ASSUME NEW U \in SUBSET X, NEW x \in U PROVE f[U] = w[x] + f[U \ {x}]
    <3>0. \A V \in SUBSET X : f[V] = IF z \in V THEN w[z] + g[V \ {z}] ELSE g[V]
      OBVIOUS
    <3>a. U \ {x} \in SUBSET X
      OBVIOUS
    <3> HIDE DEF f
    <3>1. CASE x = z
      <4>1. f[U] = w[z] + g[U \ {z}] /\ f[U \ {x}] = g[U \ {z}]
        BY <3>0, <3>a, <3>1
      <4> QED BY <3>1, <4>1
    <3>2. CASE x # z /\ z \notin U
      <4>1. f[U] = g[U] /\ f[U \ {x}] = g[U \ {x}] /\ U \in SUBSET T
        BY <3>0, <3>a, <3>2, <2>3
      <4> QED BY <2>1, <4>1 DEF IsSum
    <3>3. CASE x # z /\ z \in U
      <4> DEFINE V == U \ {z}
      <4>1. f[U] = w[z] + g[V] /\ f[U \ {x}] = w[z] + g[(U \ {x}) \ {z}]
        BY <3>0, <3>a, <3>3
      <4>2. (U \ {x}) \ {z} = V \ {x} /\ V \in SUBSET T /\ x \in V /\ V \ {x} \in SUBSET T
        BY <2>3, <3>3
      <4> HIDE DEF V
      <4>3. g[V] = w[x] + g[V \ {x}]
        BY <2>1, <4>2 DEF IsSum
      <4>4. w[z] \in Nat /\ w[x] \in Nat /\ g[V \ {x}] \in Nat
        BY <2>2, <2>4, <4>2
      <4> DEFINE p == w[z]
                 q == w[x]
                 r == g[V \ {x}]
      <4>5. f[U] = p + (q + r) /\ f[U \ {x}] = p + r /\ p \in Nat /\ q \in Nat /\ r \in Nat
        BY <4>1, <4>2, <4>3, <4>4
      <4> HIDE DEF p, q, r
      <4>6. f[U] = q + f[U \ {x}]
        BY <4>5
      <4> QED BY <4>6 DEF q
    <3> QED BY <3>1, <3>2, <3>3
  <2> HIDE DEF f
  <2>9. IsSum(f, w, X)
    BY <2>6, <2>7, <2>8 DEF IsSum
  <2> QED BY <2>6, <2>9
<1> HIDE DEF A
<1>3. S \in A
  <2>1. ASSUME NEW T \in SUBSET S, \A U \in SUBSET T : U # T => U \in A PROVE T \in A
    <3>1. CASE T = {}
      BY <1>1, <3>1
    <3>2. CASE T # {}
      <4>1. PICK x : x \in T
        BY <3>2
      <4>2. T \ {x} \in A
        BY <2>1, <4>1
      <4>3. (T \ {x}) \cup {x} = T /\ T \ {x} \in SUBSET S /\ x \in S /\ x \notin T \ {x}
        BY <4>1
      <4> QED BY <1>2, <4>2, <4>3
    <3> QED BY <3>1, <3>2
  <2> QED BY <2>1, SubsetInduction
<1> QED BY <1>3 DEF A

\* A sum depends on the weights of its terms only.
LEMMA SumSame ==
    ASSUME NEW S, NEW w, NEW g, IsSum(g, w, S), NEW v, NEW f, IsSum(f, v, S),
           NEW T \in SUBSET S, IsFiniteSet(T), \A x \in T : w[x] = v[x]
    PROVE  g[T] = f[T]
<1> DEFINE A == {U \in SUBSET T : g[U] = f[U]}
<1>1. ASSUME NEW U \in SUBSET T, \A V \in SUBSET U : V # U => V \in A PROVE U \in A
  <2>1. CASE U = {}
    BY <2>1 DEF IsSum
  <2>2. CASE U # {}
    <3>1. PICK x : x \in U
      BY <2>2
    <3>2. U \ {x} \in A
      BY <1>1, <3>1
    <3>3. g[U] = w[x] + g[U \ {x}] /\ f[U] = v[x] + f[U \ {x}]
      BY <3>1 DEF IsSum
    <3> QED BY <3>1, <3>2, <3>3
  <2> QED BY <2>1, <2>2
<1> HIDE DEF A
<1>2. T \in A
  BY <1>1, SubsetInduction
<1> QED BY <1>2 DEF A

\* The element that a fold takes next
Chosen(s) == CHOOSE x \in s : TRUE

\* What the blocks at the positions T of list l occupy
TotalSize(m, l, T) == MapThenSumSet(LAMBDA i : m[l[i]].size, T)

\* The fold yields that sum.
LEMMA FoldIsSum ==
    ASSUME NEW T, IsFiniteSet(T), NEW l, NEW m, NEW w, \A i \in T : w[i] = m[l[i]].size,
           NEW g, IsSum(g, w, T)
    PROVE  TotalSize(m, l, T) = g[T]
<1> DEFINE Eqn(f) == f = [s \in SUBSET T |-> IF s = {} THEN 0 ELSE m[l[Chosen(s)]].size + f[s \ {Chosen(s)}]]
           iter == CHOOSE f : Eqn(f)
           h == [s \in SUBSET T |-> g[s]]
<1>1. \A s \in SUBSET T : s # {} => Chosen(s) \in s
  BY DEF Chosen
<1>2. Eqn(h)
  <2> DEFINE k == [s \in SUBSET T |-> IF s = {} THEN 0 ELSE m[l[Chosen(s)]].size + h[s \ {Chosen(s)}]]
  <2>1. ASSUME NEW s \in SUBSET T PROVE h[s] = k[s]
    <3>1. CASE s = {}
      BY <3>1 DEF IsSum
    <3>2. CASE s # {}
      <4>1. Chosen(s) \in s /\ s \in SUBSET T /\ s \ {Chosen(s)} \in SUBSET T
        BY <1>1, <3>2
      <4>2. g[s] = w[Chosen(s)] + g[s \ {Chosen(s)}]
        BY <4>1 DEF IsSum
      <4> QED BY <3>2, <4>1, <4>2
    <3> QED BY <3>1, <3>2
  <2> HIDE DEF Chosen
  <2> QED BY <2>1
<1>3. Eqn(iter)
  <2> HIDE DEF h, Eqn
  <2> QED BY <1>2
<1> DEFINE A == {s \in SUBSET T : iter[s] = g[s]}
<1> HIDE DEF iter
<1>4. \A s \in SUBSET T : iter[s] = IF s = {} THEN 0 ELSE m[l[Chosen(s)]].size + iter[s \ {Chosen(s)}]
  BY <1>3
<1> HIDE DEF Eqn
<1>5. T \in A
  <2>1. ASSUME NEW s \in SUBSET T, \A U \in SUBSET s : U # s => U \in A PROVE s \in A
    <3>1. CASE s = {}
      BY <1>4, <3>1 DEF IsSum
    <3>2. CASE s # {}
      <4> DEFINE c == Chosen(s)
      <4>1. c \in s /\ s \in SUBSET T
        BY <1>1, <3>2
      <4> HIDE DEF c
      <4>2. s \ {c} \in A
        BY <2>1, <4>1
      <4>3. g[s] = w[c] + g[s \ {c}]
        BY <4>1 DEF IsSum
      <4>4. iter[s] = w[c] + iter[s \ {c}]
        <5>1. iter[s] = m[l[c]].size + iter[s \ {c}]
          BY <1>4, <3>2 DEF c
        <5>2. w[c] = m[l[c]].size
          BY <4>1
        <5> QED BY <5>1, <5>2
      <4> QED BY <4>2, <4>3, <4>4
    <3> QED BY <3>1, <3>2
  <2> HIDE DEF A
  <2> QED BY <2>1, SubsetInduction
<1>6. TotalSize(m, l, T) = iter[T]
  BY DEF TotalSize, MapThenSumSet, MapThenFoldSet, iter, Eqn, Chosen
<1> QED BY <1>5, <1>6

-----------------------------------------------------------------------------
(* What is true of a heap h whose callers hold l *)

Heap == [list : Seq(Addr), mem : [Addr -> BlockHeader], committed : 1 .. HeapMax]

\* The blocks tile the region.  That they are in ascending order follows by
\* induction along the list; the invariant carries it instead.
Shape(h) ==
    /\ h \in Heap
    /\ Len(h.list) \in Nat \ {0}
    /\ h.list[1] = 0
    /\ \A i \in 1 .. Len(h.list) : h.mem[h.list[i]].magic
    /\ \A i \in 1 .. Len(h.list) - 1 : h.list[i + 1] = EndOf(h, h.list[i])
    /\ EndOf(h, h.list[Len(h.list)]) = h.committed
    /\ \A i, j \in 1 .. Len(h.list) : i < j => EndOf(h, h.list[i]) <= h.list[j]

\* The blocks in use are what callers hold, and no other header looks in use.
Held(h, l) ==
    /\ \A i \in 1 .. Len(h.list) : ~h.mem[h.list[i]].free <=> l[h.list[i]] > 0
    /\ \A a \in Addr : l[a] > 0 => /\ \E i \in 1 .. Len(h.list) : h.list[i] = a
                                   /\ h.mem[a].size >= l[a]
    /\ \A a \in Addr : h.mem[a].magic /\ ~h.mem[a].free => l[a] > 0

\* Neighbours are not both free, except possibly those at a position in X.
Apart(h, X) ==
    \A i \in 1 .. Len(h.list) - 1 : i \notin X =>
        ~(h.mem[h.list[i]].free /\ h.mem[h.list[i + 1]].free)

\* All of it
Good(h, l) == l \in [Addr -> Nat] /\ Shape(h) /\ Held(h, l) /\ Apart(h, {})

\* A block ends after it starts, its header alone taking room.
LEMMA EndAfter ==
    ASSUME NEW x \in Nat, NEW y \in Nat, NEW w \in Nat \ {0}, NEW e, e = x + w + y
    PROVE  e \in Nat /\ x < e /\ x <= e
OBVIOUS

\* Where the i-th block lies.
LEMMA BlockIs ==
    ASSUME NEW h, Shape(h), NEW i \in 1 .. Len(h.list)
    PROVE  /\ h.list \in Seq(Addr) /\ h.mem \in [Addr -> BlockHeader] /\ h.committed \in 1 .. HeapMax
           /\ h.list[i] \in Addr /\ h.list[i] \in Nat
           /\ h.mem[h.list[i]] \in BlockHeader /\ h.mem[h.list[i]].size \in Nat
           /\ EndOf(h, h.list[i]) = h.list[i] + Header + h.mem[h.list[i]].size
           /\ EndOf(h, h.list[i]) <= h.committed
           /\ h.committed <= HeapMax /\ h.committed \in Nat /\ HeapMax \in Nat /\ Header \in Nat \ {0}
           /\ h.mem[h.list[i]].free \in BOOLEAN /\ h.mem[h.list[i]].magic = TRUE
<1>1. h.list \in Seq(Addr) /\ h.mem \in [Addr -> BlockHeader] /\ h.committed \in 1 .. HeapMax
  BY DEF Shape, Heap
<1>2. \A j \in 1 .. Len(h.list) : h.list[j] \in Addr
  BY <1>1, ElementOfSeq
<1>3. \A j \in 1 .. Len(h.list) : h.mem[h.list[j]] \in BlockHeader
  BY <1>1, <1>2
<1>4. HeapMax \in Nat /\ Header \in Nat \ {0}
  BY Sizes, UnitAssumption
<1>5. \A j \in 1 .. Len(h.list) : h.list[j] \in Nat /\ h.mem[h.list[j]].size \in Nat
  BY <1>2, <1>3, <1>4 DEF Addr, BlockHeader
<1>6. \A j \in 1 .. Len(h.list) : EndOf(h, h.list[j]) = h.list[j] + Header + h.mem[h.list[j]].size
  BY DEF EndOf
<1>7. h.committed <= HeapMax /\ h.committed \in Nat
  BY <1>1, <1>4
<1>8. EndOf(h, h.list[i]) <= h.committed
  <2> DEFINE n == Len(h.list)
  <2>1. n \in 1 .. Len(h.list) /\ EndOf(h, h.list[n]) = h.committed
    BY DEF Shape
  <2>2. CASE i = n
    BY <2>1, <2>2, <1>7
  <2>3. CASE i # n
    <3>1. i < n
      BY <2>1, <2>3
    <3>2. EndOf(h, h.list[i]) <= h.list[n]
      BY <2>1, <3>1 DEF Shape
    <3>3. h.list[n] \in Nat /\ h.mem[h.list[n]].size \in Nat
      BY <1>5, <2>1
    <3>4. h.committed = h.list[n] + Header + h.mem[h.list[n]].size
      BY <1>6, <2>1
    <3>5. h.list[i] + Header + h.mem[h.list[i]].size \in Nat
      BY <1>4, <1>5
    <3>6. h.list[n] <= h.committed
      BY <1>4, <3>3, <3>4, EndAfter
    <3> QED BY <1>6, <1>7, <3>2, <3>3, <3>5, <3>6
  <2> QED BY <2>2, <2>3
<1>9. h.mem[h.list[i]].free \in BOOLEAN
  BY <1>3 DEF BlockHeader
<1>10. h.mem[h.list[i]].magic = TRUE
  BY <1>3 DEF BlockHeader, Shape
<1> QED BY <1>1, <1>2, <1>3, <1>4, <1>5, <1>6, <1>7, <1>8, <1>9, <1>10

\* Blocks do not overlap, and no other block starts within one.
LEMMA BlocksApart ==
    ASSUME NEW h, Shape(h), NEW i \in 1 .. Len(h.list), NEW j \in 1 .. Len(h.list)
    PROVE  /\ h.list[i] = h.list[j] => i = j
           /\ i < j => h.list[i] < h.list[j] /\ EndOf(h, h.list[i]) <= h.list[j]
           /\ ~(h.list[i] < h.list[j] /\ h.list[j] < EndOf(h, h.list[i]))
<1>1. /\ h.list[i] \in Nat /\ h.list[j] \in Nat
      /\ EndOf(h, h.list[i]) \in Nat /\ EndOf(h, h.list[i]) > h.list[i]
      /\ EndOf(h, h.list[j]) \in Nat /\ EndOf(h, h.list[j]) > h.list[j]
  <2>1. ASSUME NEW k \in 1 .. Len(h.list)
        PROVE  h.list[k] \in Nat /\ EndOf(h, h.list[k]) \in Nat /\ EndOf(h, h.list[k]) > h.list[k]
    <3>1. /\ h.list[k] \in Nat /\ h.mem[h.list[k]].size \in Nat /\ Header \in Nat \ {0}
          /\ EndOf(h, h.list[k]) = h.list[k] + Header + h.mem[h.list[k]].size
      BY BlockIs
    <3> HIDE DEF EndOf
    <3>2. EndOf(h, h.list[k]) \in Nat /\ h.list[k] < EndOf(h, h.list[k])
      BY <3>1, EndAfter
    <3> QED BY <3>1, <3>2
  <2> QED BY <2>1
<1>2. i < j => EndOf(h, h.list[i]) <= h.list[j]
  BY DEF Shape
<1>3. j < i => EndOf(h, h.list[j]) <= h.list[i]
  BY DEF Shape
<1>4. i < j \/ i = j \/ j < i
  BY DEF Shape
<1> QED BY <1>1, <1>2, <1>3, <1>4

\* Two neighbours that are free become one block.
Merges(h, g, i) ==
    /\ g \in Heap /\ g.list = RemoveAt(h.list, i + 1) /\ g.committed = h.committed
    /\ g.mem[h.list[i]].size = h.mem[h.list[i]].size + Header + h.mem[h.list[i + 1]].size
    /\ g.mem[h.list[i]].magic /\ g.mem[h.list[i]].free /\ g.mem[h.list[i + 1]].free
    /\ h.mem[h.list[i]].free /\ h.mem[h.list[i + 1]].free
    /\ \A c \in Addr \ {h.list[i], h.list[i + 1]} : g.mem[c] = h.mem[c]

\* What that does to the other blocks.
Merged(h, g, i) ==
    /\ Len(g.list) = Len(h.list) - 1
    /\ \A k \in 1 .. i : g.list[k] = h.list[k]
    /\ \A k \in i + 1 .. Len(h.list) - 1 : g.list[k] = h.list[k + 1]
    /\ \A k \in 1 .. Len(h.list) : k # i /\ k # i + 1 => g.mem[h.list[k]] = h.mem[h.list[k]]

LEMMA Merge ==
    ASSUME NEW h, NEW g, NEW l \in [Addr -> Nat], Shape(h), Held(h, l),
           NEW i \in 1 .. Len(h.list) - 1, Merges(h, g, i)
    PROVE  Shape(g) /\ Held(g, l) /\ Merged(h, g, i)
<1> USE DEF Merges
<1> DEFINE n == Len(h.list)
           s(k) == IF k <= i THEN k ELSE k + 1
           t(k) == IF k < i THEN k ELSE k + 1
           E(k) == EndOf(h, h.list[k])
<1>1. /\ n \in Nat \ {0} /\ i \in 1 .. n - 1 /\ i \in 1 .. n /\ i + 1 \in 1 .. n
  BY DEF Shape
<1>2. h.list \in Seq(Addr)
  BY DEF Shape, Heap
<1>3. /\ Len(g.list) = n - 1
      /\ \A k \in 1 .. i : g.list[k] = h.list[k]
      /\ \A k \in i + 1 .. n - 1 : g.list[k] = h.list[k + 1]
  <2> DEFINE p == i + 1
  <2>0. p \in 1 .. Len(h.list)
    BY <1>1
  <2> DEFINE o == h.list
  <2>a. o \in Seq(Addr) /\ p \in 1 .. Len(o)
    BY <1>2, <2>0
  <2> HIDE DEF p, o
  <2>1. /\ Len(RemoveAt(o, p)) = Len(o) - 1
        /\ \A j \in 1 .. p - 1 : RemoveAt(o, p)[j] = o[j]
        /\ \A j \in p .. Len(o) - 1 : RemoveAt(o, p)[j] = o[j + 1]
    BY ONLY <2>a, RemoveAtIs
  <2>2. (i + 1) - 1 = i
    OBVIOUS
  <2> QED BY <2>1, <2>2 DEF p, o
<1>4. \A k \in 1 .. n - 1 : /\ g.list[k] = h.list[s(k)] /\ s(k) \in 1 .. n /\ t(k) \in 1 .. n
                            /\ s(k) # i + 1 /\ (s(k) = i <=> k = i)
  BY <1>1, <1>3
<1>5. \A k \in 1 .. n : h.list[k] \in Addr
  BY BlockIs
<1>6. \A j, k \in 1 .. n : h.list[j] = h.list[k] => j = k
  BY BlocksApart
<1>7. \A k \in 1 .. n : k # i /\ k # i + 1 => g.mem[h.list[k]] = h.mem[h.list[k]]
  BY <1>1, <1>5, <1>6
<1>8. \A k \in 1 .. n - 1 : EndOf(g, g.list[k]) = E(t(k))
  <2> SUFFICES ASSUME NEW k \in 1 .. n - 1 PROVE EndOf(g, g.list[k]) = E(t(k))
    OBVIOUS
  <2>1. CASE k # i
    <3>1. s(k) = t(k) /\ s(k) # i /\ s(k) # i + 1 /\ s(k) \in 1 .. n
      BY <1>1, <1>4, <2>1
    <3> HIDE DEF s, t, n
    <3> QED BY <1>4, <1>7, <3>1 DEF EndOf
  <2>2. CASE k = i
    <3>1. g.list[k] = h.list[i] /\ t(k) = i + 1
      BY <1>1, <1>3, <2>2
    <3>2. h.list[i + 1] = h.list[i] + Header + h.mem[h.list[i]].size
      BY <1>1 DEF Shape, EndOf
    <3>3. /\ h.list[i] \in Nat /\ h.mem[h.list[i]].size \in Nat /\ h.mem[h.list[i + 1]].size \in Nat
          /\ Header \in Nat
      BY <1>1, BlockIs
    <3> DEFINE x == h.list[i]
               y == h.mem[h.list[i]].size
               z == h.mem[h.list[i + 1]].size
    <3>4. EndOf(g, g.list[k]) = x + Header + (y + Header + z)
      BY <3>1 DEF EndOf
    <3>5. E(t(k)) = (x + Header + y) + Header + z
      BY <3>1, <3>2 DEF EndOf
    <3>6. x \in Nat /\ y \in Nat /\ z \in Nat /\ Header \in Nat
      BY <3>3
    <3> HIDE DEF t, E, x, y, z
    <3>7. x + Header + (y + Header + z) = (x + Header + y) + Header + z
      BY <3>6
    <3> QED BY <3>4, <3>5, <3>7
  <2> QED BY <2>1, <2>2
<1>9. Shape(g)
  <2>1. Len(g.list) \in Nat \ {0}
    BY <1>1, <1>3
  <2>2. g.list[1] = 0
    BY <1>1, <1>3 DEF Shape
  <2>3. ASSUME NEW k \in 1 .. Len(g.list) PROVE g.mem[g.list[k]].magic
    <3>1. CASE k = i
      BY <1>1, <1>3, <3>1
    <3>2. CASE k # i
      <4>1. g.list[k] = h.list[s(k)] /\ s(k) \in 1 .. n /\ s(k) # i /\ s(k) # i + 1
        BY <1>3, <1>4, <3>2
      <4> HIDE DEF s
      <4>2. h.mem[h.list[s(k)]].magic
        BY <4>1 DEF Shape
      <4>3. g.mem[h.list[s(k)]] = h.mem[h.list[s(k)]]
        BY <1>7, <4>1
      <4> QED BY <4>1, <4>2, <4>3
    <3> QED BY <3>1, <3>2
  <2>4. ASSUME NEW k \in 1 .. Len(g.list) - 1 PROVE g.list[k + 1] = EndOf(g, g.list[k])
    <3>1. k \in 1 .. n - 1 /\ k + 1 \in 1 .. n - 1
      BY <1>1, <1>3
    <3>2. s(k + 1) = t(k) + 1 /\ t(k) \in 1 .. n - 1
      BY <1>1, <3>1, <1>4
    <3>3. h.list[t(k) + 1] = E(t(k))
      BY <3>2 DEF Shape
    <3>4. g.list[k + 1] = h.list[s(k + 1)]
      BY <1>4, <3>1
    <3> HIDE DEF s, t, E
    <3> QED BY <1>8, <3>1, <3>2, <3>3, <3>4
  <2>5. EndOf(g, g.list[Len(g.list)]) = g.committed
    <3>1. n - 1 \in 1 .. n - 1 /\ t(n - 1) = n
      BY <1>1
    <3>2. E(n) = h.committed
      BY DEF Shape
    <3> HIDE DEF t, E
    <3> QED BY <1>3, <1>8, <3>1, <3>2
  <2>6. ASSUME NEW j \in 1 .. Len(g.list), NEW k \in 1 .. Len(g.list), j < k
        PROVE  EndOf(g, g.list[j]) <= g.list[k]
    <3>1. j \in 1 .. n - 1 /\ k \in 1 .. n - 1
      BY <1>3
    <3>2. t(j) < s(k) /\ t(j) \in 1 .. n /\ s(k) \in 1 .. n
      BY <1>1, <1>4, <2>6, <3>1
    <3>3. E(t(j)) <= h.list[s(k)]
      BY <3>2 DEF Shape
    <3> HIDE DEF s, t, E
    <3> QED BY <1>4, <1>8, <3>1, <3>3
  <2> QED BY <2>1, <2>2, <2>3, <2>4, <2>5, <2>6 DEF Shape
<1>10. Held(g, l)
  <2>1. l[h.list[i]] \in Nat /\ l[h.list[i + 1]] \in Nat /\ ~(l[h.list[i]] > 0) /\ ~(l[h.list[i + 1]] > 0)
    BY <1>1, <1>5 DEF Held
  <2>2. ASSUME NEW k \in 1 .. Len(g.list)
        PROVE  ~g.mem[g.list[k]].free <=> l[g.list[k]] > 0
    <3>1. CASE k = i
      BY <1>1, <1>3, <2>1, <3>1
    <3>2. CASE k # i
      <4>1. g.list[k] = h.list[s(k)] /\ s(k) \in 1 .. n /\ s(k) # i /\ s(k) # i + 1
        BY <1>3, <1>4, <3>2
      <4> HIDE DEF s
      <4>2. ~h.mem[h.list[s(k)]].free <=> l[h.list[s(k)]] > 0
        BY <4>1 DEF Held
      <4>3. g.mem[h.list[s(k)]] = h.mem[h.list[s(k)]]
        BY <1>7, <4>1
      <4> QED BY <4>1, <4>2, <4>3
    <3> QED BY <3>1, <3>2
  <2>3. ASSUME NEW a \in Addr, l[a] > 0
        PROVE  (\E k \in 1 .. Len(g.list) : g.list[k] = a) /\ g.mem[a].size >= l[a]
    <3>1. PICK k \in 1 .. n : h.list[k] = a
      BY <2>3 DEF Held
    <3>2. k # i /\ k # i + 1
      BY <2>1, <2>3, <3>1
    <3>3. g.mem[a] = h.mem[a]
      BY <1>7, <3>1, <3>2
    <3>4. \E j \in 1 .. Len(g.list) : g.list[j] = a
      <4>1. CASE k <= i
        <5>1. k \in 1 .. i /\ k \in 1 .. Len(g.list)
          BY <1>1, <1>3, <4>1
        <5> QED BY <1>3, <3>1, <5>1
      <4>2. CASE ~(k <= i)
        <5>1. k - 1 \in i + 1 .. n - 1 /\ k - 1 \in 1 .. Len(g.list) /\ (k - 1) + 1 = k
          BY <1>1, <1>3, <3>2, <4>2
        <5>2. g.list[k - 1] = h.list[(k - 1) + 1]
          BY <1>3, <5>1
        <5> QED BY <3>1, <5>1, <5>2
      <4> QED BY <4>1, <4>2
    <3> QED BY <2>3, <3>3, <3>4 DEF Held
  <2>4. ASSUME NEW a \in Addr, g.mem[a].magic, ~g.mem[a].free PROVE l[a] > 0
    <3>1. a # h.list[i] /\ a # h.list[i + 1]
      BY <2>4
    <3> QED BY <2>4, <3>1 DEF Held
  <2> QED BY <2>2, <2>3, <2>4 DEF Held
<1> QED BY <1>3, <1>7, <1>9, <1>10 DEF Merged

\* The shape depends on nothing but the list and on magic and size of the
\* blocks that are linked.
LEMMA SameShape ==
    ASSUME NEW h, NEW g, Shape(h), g \in Heap, g.list = h.list, g.committed = h.committed,
           \A i \in 1 .. Len(h.list) : /\ g.mem[h.list[i]].size = h.mem[h.list[i]].size
                                       /\ g.mem[h.list[i]].magic
    PROVE  Shape(g)
<1>1. \A i \in 1 .. Len(h.list) : EndOf(g, h.list[i]) = EndOf(h, h.list[i])
  BY DEF EndOf
<1>2. Len(h.list) \in Nat \ {0}
  BY DEF Shape
<1>3. \A i \in 1 .. Len(h.list) - 1 : i \in 1 .. Len(h.list)
  BY <1>2
<1>4. Len(h.list) \in 1 .. Len(h.list)
  BY <1>2
<1> QED BY <1>1, <1>2, <1>3, <1>4 DEF Shape

\* block->free = true, when its caller gives it back
LEMMA Mark ==
    ASSUME NEW h, NEW l \in [Addr -> Nat], Shape(h), Held(h, l), Apart(h, {}), NEW i \in 1 .. Len(h.list)
    PROVE  LET g == Marked(h, i)
               k == [l EXCEPT ![h.list[i]] = 0]
           IN  /\ Shape(g) /\ Held(g, k) /\ Apart(g, {i - 1, i}) /\ k \in [Addr -> Nat]
               /\ g.list = h.list /\ g.committed = h.committed /\ g.mem[h.list[i]].free = TRUE
<1> DEFINE g == Marked(h, i)
           a == h.list[i]
           k == [l EXCEPT ![a] = 0]
<1>1. /\ h \in Heap /\ h.list \in Seq(Addr) /\ h.mem \in [Addr -> BlockHeader] /\ a \in Addr
      /\ h.mem[a] \in BlockHeader
  BY BlockIs DEF Shape
<1>2. [h.mem[a] EXCEPT !.free = TRUE] \in BlockHeader
  BY <1>1 DEF BlockHeader
<1>3. g = [h EXCEPT !.mem = [h.mem EXCEPT ![a] = [h.mem[a] EXCEPT !.free = TRUE]]]
  BY <1>1 DEF Marked, Heap
<1>4. /\ g \in Heap /\ g.list = h.list /\ g.committed = h.committed
      /\ g.mem = [h.mem EXCEPT ![a] = [h.mem[a] EXCEPT !.free = TRUE]]
  BY <1>1, <1>2, <1>3 DEF Heap
<1>5. /\ \A c \in Addr \ {a} : g.mem[c] = h.mem[c]
      /\ g.mem[a].free = TRUE /\ g.mem[a].size = h.mem[a].size /\ g.mem[a].magic = h.mem[a].magic
  <2>1. g.mem[a] = [h.mem[a] EXCEPT !.free = TRUE] /\ \A c \in Addr \ {a} : g.mem[c] = h.mem[c]
    BY <1>1, <1>4
  <2> QED BY <1>1, <2>1 DEF BlockHeader
<1>6. \A j \in 1 .. Len(h.list) : h.list[j] \in Addr /\ (h.list[j] = a => j = i)
  BY BlockIs, BlocksApart
<1>7. k \in [Addr -> Nat] /\ k[a] = 0 /\ \A c \in Addr \ {a} : k[c] = l[c]
  BY <1>1
<1> HIDE DEF g, k, a
<1>8. \A j \in 1 .. Len(h.list) : g.mem[h.list[j]].size = h.mem[h.list[j]].size /\ g.mem[h.list[j]].magic
  <2> SUFFICES ASSUME NEW j \in 1 .. Len(h.list)
               PROVE  g.mem[h.list[j]].size = h.mem[h.list[j]].size /\ g.mem[h.list[j]].magic
    OBVIOUS
  <2>1. h.mem[h.list[j]].magic
    BY DEF Shape
  <2>2. CASE h.list[j] = a
    BY <2>1, <2>2, <1>5
  <2>3. CASE h.list[j] # a
    BY <2>1, <2>3, <1>5, <1>6
  <2> QED BY <2>2, <2>3
<1>9. Shape(g)
  BY <1>4, <1>8, SameShape
<1>10. Held(g, k)
  <2>1. ASSUME NEW j \in 1 .. Len(g.list) PROVE ~g.mem[g.list[j]].free <=> k[g.list[j]] > 0
    <3>1. g.list[j] = h.list[j] /\ j \in 1 .. Len(h.list) /\ h.list[j] \in Addr
      BY <1>4, <1>6, <2>1
    <3>2. CASE h.list[j] = a
      BY <3>1, <3>2, <1>5, <1>7
    <3>3. CASE h.list[j] # a
      <4>1. ~h.mem[h.list[j]].free <=> l[h.list[j]] > 0
        BY <3>1 DEF Held
      <4>2. g.mem[h.list[j]] = h.mem[h.list[j]] /\ k[h.list[j]] = l[h.list[j]]
        BY <3>1, <3>3, <1>5, <1>7
      <4> QED BY <3>1, <4>1, <4>2
    <3> QED BY <3>2, <3>3
  <2>2. ASSUME NEW c \in Addr, k[c] > 0
        PROVE  (\E j \in 1 .. Len(g.list) : g.list[j] = c) /\ g.mem[c].size >= k[c]
    <3>1. c # a
      BY <1>7, <2>2
    <3>2. k[c] = l[c] /\ g.mem[c] = h.mem[c]
      BY <3>1, <1>5, <1>7
    <3> QED BY <3>2, <2>2, <1>4 DEF Held
  <2>3. ASSUME NEW c \in Addr, g.mem[c].magic, ~g.mem[c].free PROVE k[c] > 0
    <3>1. c # a
      BY <1>5, <2>3
    <3>2. k[c] = l[c] /\ g.mem[c] = h.mem[c]
      BY <3>1, <1>5, <1>7
    <3> QED BY <3>2, <2>3 DEF Held
  <2> QED BY <2>1, <2>2, <2>3 DEF Held
<1>11. Apart(g, {i - 1, i})
  <2> SUFFICES ASSUME NEW j \in 1 .. Len(h.list) - 1, j # i - 1, j # i
               PROVE  ~(g.mem[h.list[j]].free /\ g.mem[h.list[j + 1]].free)
    BY <1>4 DEF Apart
  <2>1. j \in 1 .. Len(h.list) /\ j + 1 \in 1 .. Len(h.list) /\ j + 1 # i
    BY DEF Shape
  <2>2. h.list[j] # a /\ h.list[j + 1] # a /\ h.list[j] \in Addr /\ h.list[j + 1] \in Addr
    BY <1>6, <2>1
  <2>3. g.mem[h.list[j]] = h.mem[h.list[j]] /\ g.mem[h.list[j + 1]] = h.mem[h.list[j + 1]]
    BY <1>5, <2>2
  <2> QED BY <2>3 DEF Apart
<1> QED BY <1>4, <1>5, <1>7, <1>9, <1>10, <1>11 DEF g, k, a

LEMMA JoinSizes ==
    ASSUME NEW a \in Nat, NEW x \in Nat, NEW y \in Nat, NEW w \in Nat, NEW c \in Nat, NEW m \in Nat,
           (a + w + x) + w + y <= c, c <= m
    PROVE  ((a + w + x) + w + y) - a - w = x + w + y /\ x + w + y \in 0 .. m
OBVIOUS

\* kfree's merge with the next block: afterwards only the pair with the
\* block before may be free.
LEMMA JoinNext ==
    ASSUME NEW h, NEW l \in [Addr -> Nat], Shape(h), Held(h, l), NEW i \in 1 .. Len(h.list),
           Apart(h, {i - 1, i}), h.mem[h.list[i]].free = TRUE
    PROVE  LET g == JoinedNext(h, i)
           IN  /\ Shape(g) /\ Held(g, l) /\ Apart(g, {i - 1}) /\ i \in 1 .. Len(g.list)
               /\ g.list[i] = h.list[i] /\ g.mem[h.list[i]].free = TRUE
               /\ g.committed = h.committed
<1> DEFINE n == Len(h.list)
           a == h.list[i]
           b == h.list[i + 1]
           g == JoinedNext(h, i)
<1>1. n \in Nat \ {0} /\ i \in 1 .. n /\ h \in Heap
  BY DEF Shape
<1>2. CASE ~(i < n /\ h.mem[b].magic /\ h.mem[b].free)
  <2>1. g = h
    BY <1>2 DEF JoinedNext
  <2>2. Apart(h, {i - 1})
    <3> SUFFICES ASSUME NEW j \in 1 .. n - 1, j # i - 1
                 PROVE  ~(h.mem[h.list[j]].free /\ h.mem[h.list[j + 1]].free)
      BY DEF Apart
    <3>1. CASE j # i
      BY <3>1 DEF Apart
    <3>2. CASE j = i
      <4>1. i < n /\ i + 1 \in 1 .. n
        BY <1>1, <3>2
      <4>2. h.mem[b].magic
        BY <4>1 DEF Shape
      <4> QED BY <1>2, <3>2, <4>1, <4>2
    <3> QED BY <3>1, <3>2
  <2> QED BY <2>1, <2>2, <1>1
<1>3. CASE i < n /\ h.mem[b].magic /\ h.mem[b].free
  <2>1. i \in 1 .. n - 1 /\ i + 1 \in 1 .. n
    BY <1>1, <1>3
  <2>2. /\ a \in Addr /\ a \in Nat /\ h.mem[a] \in BlockHeader /\ h.mem[a].size \in Nat
        /\ b \in Addr /\ h.mem[b] \in BlockHeader /\ h.mem[b].size \in Nat
        /\ h.mem \in [Addr -> BlockHeader] /\ h.list \in Seq(Addr) /\ Header \in Nat \ {0}
        /\ HeapMax \in Nat /\ h.committed <= HeapMax /\ h.committed \in Nat
        /\ EndOf(h, b) <= h.committed /\ EndOf(h, b) = b + Header + h.mem[b].size
        /\ h.mem[a].magic = TRUE
    BY <2>1, BlockIs
  <2>3. b = a + Header + h.mem[a].size
    BY <2>1 DEF Shape, EndOf
  <2>4. a # b
    BY <2>1, BlocksApart
  <2> DEFINE z == h.mem[a].size + Header + h.mem[b].size
  <2>5. EndOf(h, b) - a - Header = z /\ z \in 0 .. HeapMax
    <3>1. EndOf(h, b) = (a + Header + h.mem[a].size) + Header + h.mem[b].size
      BY <2>2, <2>3
    <3>2. (a + Header + h.mem[a].size) + Header + h.mem[b].size <= h.committed
      BY <2>2, <3>1
    <3>3. a \in Nat /\ h.mem[a].size \in Nat /\ h.mem[b].size \in Nat /\ Header \in Nat
      BY <2>2
    <3> HIDE DEF a, b
    <3>4. ((a + Header + h.mem[a].size) + Header + h.mem[b].size) - a - Header = z /\ z \in 0 .. HeapMax
      BY <2>2, <3>2, <3>3, JoinSizes
    <3> QED BY <3>1, <3>4
  <2> DEFINE ha == [h.mem[a] EXCEPT !.size = z]
             mem == [h.mem EXCEPT ![a] = ha, ![b] = Remnant]
  <2>6. g = [h EXCEPT !.list = RemoveAt(h.list, i + 1), !.mem = mem]
    <3>1. g = [h EXCEPT !.list = RemoveAt(h.list, i + 1),
                        !.mem = [h.mem EXCEPT ![a].size = @ + Header + h.mem[b].size, ![b] = Remnant]]
      BY <1>1, <1>3 DEF JoinedNext, Heap
    <3> QED BY <2>2, <2>5, <3>1
  <2>7. /\ ha \in BlockHeader /\ ha.size = z /\ ha.free = h.mem[a].free /\ ha.magic = h.mem[a].magic
        /\ Remnant \in BlockHeader /\ Remnant.free = TRUE
    <3>1. ha \in BlockHeader /\ ha.size = z /\ ha.free = h.mem[a].free /\ ha.magic = h.mem[a].magic
      BY <2>2, <2>5 DEF BlockHeader
    <3>2. 0 \in 0 .. HeapMax
      BY <2>2
    <3>3. Remnant \in BlockHeader /\ Remnant.free = TRUE
      BY <3>2 DEF BlockHeader, Remnant, BlockOf
    <3> QED BY <3>1, <3>3
  <2>8. RemoveAt(h.list, i + 1) \in Seq(Addr)
    BY <2>1, <2>2, RemoveAtIs
  <2> HIDE DEF ha, z
  <2>9. /\ mem \in [Addr -> BlockHeader] /\ mem[a] = ha /\ mem[b] = Remnant
        /\ \A c \in Addr \ {a, b} : mem[c] = h.mem[c]
    BY <2>2, <2>4, <2>7
  <2> HIDE DEF mem
  <2>10. g \in Heap /\ g.list = RemoveAt(h.list, i + 1) /\ g.mem = mem /\ g.committed = h.committed
    BY <1>1, <2>6, <2>8, <2>9 DEF Heap
  <2> HIDE DEF g
  <2>11. /\ Shape(g) /\ Held(g, l)
         /\ Len(g.list) = n - 1
         /\ \A k \in 1 .. i : g.list[k] = h.list[k]
         /\ \A k \in i + 1 .. n - 1 : g.list[k] = h.list[k + 1]
         /\ \A k \in 1 .. n : k # i /\ k # i + 1 => g.mem[h.list[k]] = h.mem[h.list[k]]
    <3>1. /\ g.mem[a].size = h.mem[a].size + Header + h.mem[b].size
          /\ g.mem[a].magic /\ g.mem[a].free /\ g.mem[b].free
          /\ h.mem[a].free /\ h.mem[b].free
      BY <1>3, <2>2, <2>7, <2>9, <2>10 DEF z
    <3>2. \A c \in Addr \ {a, b} : g.mem[c] = h.mem[c]
      BY <2>9, <2>10
    <3>3. Merges(h, g, i)
      BY <2>10, <3>1, <3>2 DEF Merges
    <3>4. Shape(g) /\ Held(g, l) /\ Merged(h, g, i)
      BY <2>1, <3>3, Merge
    <3> QED BY <3>4 DEF Merged
  <2>12. g.mem[a].free = TRUE
    BY <2>7, <2>9, <2>10
  <2>13. Apart(g, {i - 1})
    <3> SUFFICES ASSUME NEW j \in 1 .. n - 2, j # i - 1
                 PROVE  ~(g.mem[g.list[j]].free /\ g.mem[g.list[j + 1]].free)
      <4>1. Len(g.list) - 1 = n - 2
        BY <1>1, <2>11
      <4> QED BY <4>1 DEF Apart
    <3>1. CASE j < i - 1
      <4>1. /\ j \in 1 .. i /\ j + 1 \in 1 .. i /\ j \in 1 .. n /\ j + 1 \in 1 .. n
            /\ j # i /\ j # i + 1 /\ j + 1 # i /\ j + 1 # i + 1 /\ j \in 1 .. n - 1
        BY <1>1, <2>1, <3>1
      <4>2. g.list[j] = h.list[j] /\ g.list[j + 1] = h.list[j + 1]
        BY <2>11, <4>1
      <4>3. g.mem[h.list[j]] = h.mem[h.list[j]] /\ g.mem[h.list[j + 1]] = h.mem[h.list[j + 1]]
        BY <2>11, <4>1
      <4> QED BY <4>1, <4>2, <4>3 DEF Apart
    <3>2. CASE j >= i
      <4>1. /\ j + 1 \in i + 1 .. n - 1 /\ j + 2 \in 1 .. n /\ j + 2 # i /\ j + 2 # i + 1
            /\ j + 1 \in 1 .. n - 1 /\ j + 1 # i - 1 /\ j + 1 # i /\ (j + 1) + 1 = j + 2
        BY <1>1, <2>1, <3>2
      <4>2. g.list[j + 1] = h.list[j + 2]
        BY <2>11, <4>1
      <4>3. g.mem[h.list[j + 2]] = h.mem[h.list[j + 2]]
        BY <2>11, <4>1
      <4>4. ~(h.mem[h.list[j + 1]].free /\ h.mem[h.list[j + 2]].free)
        BY <4>1 DEF Apart
      <4>5. CASE j = i
        BY <1>3, <4>2, <4>3, <4>4, <4>5
      <4>6. CASE j # i
        <5>1. j \in i + 1 .. n - 1 /\ j + 1 \in 1 .. n /\ j + 1 # i /\ j + 1 # i + 1
          BY <1>1, <2>1, <3>2, <4>1, <4>6
        <5>2. g.list[j] = h.list[j + 1] /\ g.mem[h.list[j + 1]] = h.mem[h.list[j + 1]]
          BY <2>11, <5>1
        <5> QED BY <4>2, <4>3, <4>4, <5>2
      <4> QED BY <4>5, <4>6
    <3>3. j < i - 1 \/ j >= i
      BY <1>1, <2>1
    <3> QED BY <3>1, <3>2, <3>3
  <2>14. i \in 1 .. Len(g.list) /\ g.list[i] = a
    BY <2>1, <2>11
  <2> QED BY <2>10, <2>11, <2>12, <2>13, <2>14 DEF g
<1> QED BY <1>2, <1>3

\* kfree's merge with the block before: afterwards no two neighbours are free.
LEMMA JoinPrev ==
    ASSUME NEW h, NEW l \in [Addr -> Nat], Shape(h), Held(h, l), NEW i \in 1 .. Len(h.list),
           Apart(h, {i - 1}), h.mem[h.list[i]].free = TRUE
    PROVE  LET g == JoinedPrev(h, i)
           IN  Shape(g) /\ Held(g, l) /\ Apart(g, {}) /\ g.committed = h.committed
<1> DEFINE n == Len(h.list)
           a == h.list[i]
           p == h.list[i - 1]
           g == JoinedPrev(h, i)
<1>1. n \in Nat \ {0} /\ i \in 1 .. n /\ h \in Heap
  BY DEF Shape
<1>2. CASE ~(i > 1 /\ h.mem[p].magic /\ h.mem[p].free /\ EndOf(h, p) = a)
  <2>1. g = h
    BY <1>2 DEF JoinedPrev
  <2>2. Apart(h, {})
    <3> SUFFICES ASSUME NEW j \in 1 .. n - 1
                 PROVE  ~(h.mem[h.list[j]].free /\ h.mem[h.list[j + 1]].free)
      BY DEF Apart
    <3>1. CASE j # i - 1
      BY <3>1 DEF Apart
    <3>2. CASE j = i - 1
      <4>1. i > 1 /\ i - 1 \in 1 .. n /\ i - 1 \in 1 .. n - 1 /\ (i - 1) + 1 = i
        BY <1>1, <3>2
      <4>2. h.mem[p].magic /\ h.list[(i - 1) + 1] = EndOf(h, p)
        BY <4>1 DEF Shape
      <4> QED BY <1>2, <3>2, <4>1, <4>2
    <3> QED BY <3>1, <3>2
  <2> QED BY <2>1, <2>2, <1>1
<1>3. CASE i > 1 /\ h.mem[p].magic /\ h.mem[p].free /\ EndOf(h, p) = a
  <2>1. i - 1 \in 1 .. n - 1 /\ i - 1 \in 1 .. n /\ (i - 1) + 1 = i
    BY <1>1, <1>3
  <2>2. /\ p \in Addr /\ p \in Nat /\ h.mem[p] \in BlockHeader /\ h.mem[p].size \in Nat
        /\ a \in Addr /\ h.mem[a] \in BlockHeader /\ h.mem[a].size \in Nat
        /\ h.mem \in [Addr -> BlockHeader] /\ h.list \in Seq(Addr) /\ Header \in Nat \ {0}
        /\ HeapMax \in Nat /\ h.committed <= HeapMax /\ h.committed \in Nat
        /\ EndOf(h, a) <= h.committed /\ EndOf(h, a) = a + Header + h.mem[a].size
        /\ h.mem[p].magic = TRUE /\ h.mem[p].free \in BOOLEAN
    BY <1>1, <2>1, BlockIs
  <2>3. a = p + Header + h.mem[p].size
    BY <1>3 DEF EndOf
  <2>4. a # p
    <3>1. i - 1 # i
      BY <1>1
    <3> QED BY <1>1, <2>1, <3>1, BlocksApart
  <2> DEFINE z == h.mem[p].size + Header + h.mem[a].size
  <2>5. z \in 0 .. HeapMax
    <3>1. EndOf(h, a) = (p + Header + h.mem[p].size) + Header + h.mem[a].size
      BY <2>2, <2>3
    <3>2. (p + Header + h.mem[p].size) + Header + h.mem[a].size <= h.committed
      BY <2>2, <3>1
    <3>3. p \in Nat /\ h.mem[p].size \in Nat /\ h.mem[a].size \in Nat /\ Header \in Nat
      BY <2>2
    <3> HIDE DEF a, p
    <3> QED BY <2>2, <3>2, <3>3, JoinSizes
  <2> DEFINE hp == [h.mem[p] EXCEPT !.size = z]
             ha == [h.mem[a] EXCEPT !.size = 0]
             mem == [h.mem EXCEPT ![p] = hp, ![a] = ha]
  <2>6. g = [h EXCEPT !.list = RemoveAt(h.list, i), !.mem = mem]
    <3>1. g = [h EXCEPT !.list = RemoveAt(h.list, i),
                        !.mem = [h.mem EXCEPT ![p].size = @ + Header + h.mem[a].size, ![a].size = 0]]
      BY <1>1, <1>3 DEF JoinedPrev, Heap
    <3>2. [h.mem EXCEPT ![p].size = @ + Header + h.mem[a].size, ![a].size = 0] = mem
      BY <2>2, <2>4
    <3> QED BY <3>1, <3>2
  <2>7. /\ hp \in BlockHeader /\ hp.size = z /\ hp.free = h.mem[p].free /\ hp.magic = h.mem[p].magic
        /\ ha \in BlockHeader /\ ha.free = h.mem[a].free
    <3>1. hp \in BlockHeader /\ hp.size = z /\ hp.free = h.mem[p].free /\ hp.magic = h.mem[p].magic
      BY <2>2, <2>5 DEF BlockHeader
    <3>2. 0 \in 0 .. HeapMax
      BY <2>2
    <3>3. ha \in BlockHeader /\ ha.free = h.mem[a].free
      BY <2>2, <3>2 DEF BlockHeader
    <3> QED BY <3>1, <3>3
  <2>8. RemoveAt(h.list, i) \in Seq(Addr)
    BY <1>1, <2>2, RemoveAtIs
  <2> HIDE DEF ha, hp, z
  <2>9. /\ mem \in [Addr -> BlockHeader] /\ mem[a] = ha /\ mem[p] = hp
        /\ \A c \in Addr \ {a, p} : mem[c] = h.mem[c]
    BY <2>2, <2>4, <2>7
  <2> HIDE DEF mem
  <2>10. g \in Heap /\ g.list = RemoveAt(h.list, i) /\ g.mem = mem /\ g.committed = h.committed
    BY <1>1, <2>6, <2>8, <2>9 DEF Heap
  <2> HIDE DEF g
  <2> DEFINE m == i - 1
  <2>11. /\ Shape(g) /\ Held(g, l)
         /\ Len(g.list) = n - 1
         /\ \A k \in 1 .. m : g.list[k] = h.list[k]
         /\ \A k \in m + 1 .. n - 1 : g.list[k] = h.list[k + 1]
         /\ \A k \in 1 .. n : k # m /\ k # m + 1 => g.mem[h.list[k]] = h.mem[h.list[k]]
    <3>1. m \in 1 .. n - 1 /\ m + 1 = i
      BY <2>1
    <3> HIDE DEF m
    <3>2. /\ h.list[m] = p /\ h.list[m + 1] = a /\ g.list = RemoveAt(h.list, m + 1)
      BY <2>10, <3>1 DEF m
    <3>3. /\ g.mem[p].size = h.mem[p].size + Header + h.mem[a].size
          /\ g.mem[p].magic /\ g.mem[p].free /\ g.mem[a].free
          /\ h.mem[p].free /\ h.mem[a].free
      BY <1>3, <2>2, <2>7, <2>9, <2>10 DEF z
    <3>4. \A c \in Addr \ {p, a} : g.mem[c] = h.mem[c]
      BY <2>9, <2>10
    <3>5. Merges(h, g, m)
      BY <2>10, <3>1, <3>2, <3>3, <3>4 DEF Merges
    <3>6. Shape(g) /\ Held(g, l) /\ Merged(h, g, m)
      BY <3>1, <3>5, Merge
    <3> QED BY <3>6 DEF Merged
  <2>12. Apart(g, {})
    <3> SUFFICES ASSUME NEW j \in 1 .. n - 2
                 PROVE  ~(g.mem[g.list[j]].free /\ g.mem[g.list[j + 1]].free)
      <4>1. Len(g.list) - 1 = n - 2
        BY <1>1, <2>11
      <4> QED BY <4>1 DEF Apart
    <3>0. m \in 1 .. n - 1 /\ m + 1 = i /\ m \in Nat
      BY <2>1
    <3>00. h.mem[h.list[m]].free /\ h.mem[h.list[m + 1]].free
      BY <1>3, <3>0
    <3>a. Apart(h, {m})
      OBVIOUS
    <3> HIDE DEF m
    <3>1. CASE j < m
      <4>1. /\ j \in 1 .. m /\ j + 1 \in 1 .. m /\ j \in 1 .. n /\ j + 1 \in 1 .. n
            /\ j # m /\ j # m + 1 /\ j + 1 # m + 1 /\ j \in 1 .. n - 1
        BY <1>1, <3>0, <3>1
      <4>2. g.list[j] = h.list[j] /\ g.list[j + 1] = h.list[j + 1] /\ g.mem[h.list[j]] = h.mem[h.list[j]]
        BY <2>11, <4>1
      <4>3. ~(h.mem[h.list[j]].free /\ h.mem[h.list[j + 1]].free)
        BY <3>a, <4>1 DEF Apart
      <4>4. CASE j + 1 = m
        BY <3>00, <4>2, <4>3, <4>4
      <4>5. CASE j + 1 # m
        <5>1. g.mem[h.list[j + 1]] = h.mem[h.list[j + 1]]
          BY <2>11, <4>1, <4>5
        <5> QED BY <4>2, <4>3, <5>1
      <4> QED BY <4>4, <4>5
    <3>2. CASE j >= m
      <4>1. /\ j + 1 \in m + 1 .. n - 1 /\ j + 2 \in 1 .. n /\ j + 2 # m /\ j + 2 # m + 1
            /\ j + 1 \in 1 .. n - 1 /\ j + 1 # m /\ (j + 1) + 1 = j + 2
        BY <1>1, <3>0, <3>2
      <4>2. g.list[j + 1] = h.list[j + 2] /\ g.mem[h.list[j + 2]] = h.mem[h.list[j + 2]]
        BY <2>11, <4>1
      <4>3. ~(h.mem[h.list[j + 1]].free /\ h.mem[h.list[j + 2]].free)
        BY <3>a, <4>1 DEF Apart
      <4>4. CASE j = m
        BY <3>00, <4>2, <4>3, <4>4
      <4>5. CASE j # m
        <5>1. j \in m + 1 .. n - 1 /\ j + 1 \in 1 .. n /\ j + 1 # m /\ j + 1 # m + 1
          BY <1>1, <3>0, <3>2, <4>1, <4>5
        <5>2. g.list[j] = h.list[j + 1] /\ g.mem[h.list[j + 1]] = h.mem[h.list[j + 1]]
          BY <2>11, <5>1
        <5> QED BY <4>2, <4>3, <5>2
      <4> QED BY <4>4, <4>5
    <3>3. j < m \/ j >= m
      BY <1>1, <3>0
    <3> QED BY <3>1, <3>2, <3>3
  <2> QED BY <2>10, <2>11, <2>12 DEF g
<1> QED BY <1>2, <1>3

\* kfree as a whole
LEMMA Free ==
    ASSUME NEW h, NEW l, Good(h, l), NEW i \in 1 .. Len(h.list)
    PROVE  Good(Freed(h, i), [l EXCEPT ![h.list[i]] = 0]) /\ Freed(h, i).committed = h.committed
<1>0. l \in [Addr -> Nat] /\ Shape(h) /\ Held(h, l) /\ Apart(h, {})
  BY DEF Good
<1> USE <1>0
<1> DEFINE m == Marked(h, i)
           x == JoinedNext(m, i)
           g == JoinedPrev(x, i)
           k == [l EXCEPT ![h.list[i]] = 0]
<1>1. /\ Shape(m) /\ Held(m, k) /\ Apart(m, {i - 1, i}) /\ k \in [Addr -> Nat]
      /\ m.list = h.list /\ m.committed = h.committed /\ m.mem[h.list[i]].free = TRUE
  BY Mark
<1>2. Freed(h, i) = g
  BY DEF Freed
<1> HIDE DEF m, k
<1>3. i \in 1 .. Len(m.list) /\ m.mem[m.list[i]].free = TRUE
  BY <1>1
<1>4. /\ Shape(x) /\ Held(x, k) /\ Apart(x, {i - 1}) /\ i \in 1 .. Len(x.list)
      /\ x.list[i] = m.list[i] /\ x.mem[m.list[i]].free = TRUE /\ x.committed = m.committed
  BY <1>1, <1>3, JoinNext
<1> HIDE DEF x
<1>5. x.mem[x.list[i]].free = TRUE
  BY <1>4
<1>6. Shape(g) /\ Held(g, k) /\ Apart(g, {}) /\ g.committed = x.committed
  BY <1>1, <1>4, <1>5, JoinPrev
<1> HIDE DEF g
<1> QED BY <1>1, <1>2, <1>4, <1>6 DEF k, Good

\* The caller writes within its own block only, where no header is linked.
LEMMA Write ==
    ASSUME NEW h, NEW l, Good(h, l), NEW i \in 1 .. Len(h.list), NEW fills \in BOOLEAN
    PROVE  LET g == Written(h, h.list[i], fills)
           IN  Good(g, l) /\ g.committed = h.committed
<1>0. l \in [Addr -> Nat] /\ Shape(h) /\ Held(h, l) /\ Apart(h, {})
  BY DEF Good
<1> USE <1>0
<1> DEFINE a == h.list[i]
           E == EndOf(h, a)
           In(b) == fills /\ b > a /\ b < E
           mem == [b \in Addr |-> IF In(b) THEN NoHeader ELSE h.mem[b]]
           g == Written(h, a, fills)
<1>1. /\ h \in Heap /\ h.list \in Seq(Addr) /\ h.mem \in [Addr -> BlockHeader]
      /\ HeapMax \in Nat /\ Len(h.list) \in Nat
  BY BlockIs DEF Shape
<1>2. g = [h EXCEPT !.mem = mem]
  BY <1>1 DEF Written, Heap
<1>3. NoHeader \in BlockHeader /\ NoHeader.magic = FALSE
  <2>1. 0 \in 0 .. HeapMax
    BY <1>1
  <2> QED BY <2>1 DEF NoHeader, BlockHeader
<1>4. mem \in [Addr -> BlockHeader]
  BY <1>1, <1>3
<1>5. g \in Heap /\ g.list = h.list /\ g.mem = mem /\ g.committed = h.committed
  BY <1>1, <1>2, <1>4 DEF Heap
<1>6. \A j \in 1 .. Len(h.list) : h.list[j] \in Addr /\ ~In(h.list[j])
  <2> SUFFICES ASSUME NEW j \in 1 .. Len(h.list) PROVE h.list[j] \in Addr /\ ~In(h.list[j])
    OBVIOUS
  <2>1. ~(a < h.list[j] /\ h.list[j] < E)
    BY BlocksApart
  <2>2. h.list[j] \in Addr /\ h.list[j] \in Nat /\ a \in Nat
    BY BlockIs
  <2> QED BY <2>1, <2>2
<1>7. \A j \in 1 .. Len(h.list) : g.mem[h.list[j]] = h.mem[h.list[j]]
  BY <1>5, <1>6
<1>8. \A c \in Addr : g.mem[c].magic => g.mem[c] = h.mem[c]
  <2> HIDE DEF In
  <2> SUFFICES ASSUME NEW c \in Addr, g.mem[c].magic PROVE g.mem[c] = h.mem[c]
    OBVIOUS
  <2> QED BY <1>3, <1>5
<1> HIDE DEF g, mem, In, E, a
<1>9. Shape(g)
  <2>1. \A j \in 1 .. Len(h.list) : g.mem[h.list[j]].size = h.mem[h.list[j]].size /\ g.mem[h.list[j]].magic
    BY <1>7 DEF Shape
  <2> QED BY <1>5, <2>1, SameShape
<1>10. Held(g, l)
  <2>1. \A j \in 1 .. Len(g.list) : ~g.mem[g.list[j]].free <=> l[g.list[j]] > 0
    BY <1>5, <1>7 DEF Held
  <2>2. ASSUME NEW c \in Addr, l[c] > 0
        PROVE  (\E j \in 1 .. Len(g.list) : g.list[j] = c) /\ g.mem[c].size >= l[c]
    <3>1. PICK j \in 1 .. Len(h.list) : h.list[j] = c
      BY <2>2 DEF Held
    <3>2. g.mem[c] = h.mem[c]
      BY <1>7, <3>1
    <3>3. h.mem[c].size >= l[c]
      BY <2>2 DEF Held
    <3> QED BY <1>5, <3>1, <3>2, <3>3
  <2>3. \A c \in Addr : g.mem[c].magic /\ ~g.mem[c].free => l[c] > 0
    BY <1>8 DEF Held
  <2> QED BY <2>1, <2>2, <2>3 DEF Held
<1>11. Apart(g, {})
  <2> SUFFICES ASSUME NEW j \in 1 .. Len(h.list) - 1
               PROVE  ~(g.mem[h.list[j]].free /\ g.mem[h.list[j + 1]].free)
    BY <1>5 DEF Apart
  <2>1. j \in 1 .. Len(h.list) /\ j + 1 \in 1 .. Len(h.list)
    BY <1>1
  <2>2. ~(h.mem[h.list[j]].free /\ h.mem[h.list[j + 1]].free)
    BY DEF Apart
  <2> QED BY <1>7, <2>1, <2>2
<1> QED BY <1>5, <1>9, <1>10, <1>11 DEF g, a, Good

\* The i-th block, which is free, is cut in two: a block in use and what is
\* left over, with a header at r.
Splits(h, g, i, r) ==
    /\ g \in Heap /\ g.list = InsertAt(h.list, i + 1, r) /\ g.committed = h.committed
    /\ r \in Addr /\ g.mem[h.list[i]].size \in Nat /\ g.mem[r].size \in Nat
    /\ r = h.list[i] + Header + g.mem[h.list[i]].size
    /\ EndOf(h, h.list[i]) = r + Header + g.mem[r].size
    /\ g.mem[h.list[i]].magic /\ g.mem[h.list[i]].free = FALSE
    /\ g.mem[r].magic /\ g.mem[r].free = TRUE /\ h.mem[h.list[i]].free = TRUE
    /\ \A c \in Addr \ {h.list[i], r} : g.mem[c] = h.mem[c]

LEMMA Split ==
    ASSUME NEW h, NEW g, NEW l \in [Addr -> Nat], Shape(h), Held(h, l), Apart(h, {}),
           NEW i \in 1 .. Len(h.list), NEW r, Splits(h, g, i, r),
           NEW req \in Nat \ {0}, req <= g.mem[h.list[i]].size
    PROVE  Good(g, [l EXCEPT ![h.list[i]] = req]) /\ i \in 1 .. Len(g.list) /\ g.list[i] = h.list[i]
<1> DEFINE n == Len(h.list)
           a == h.list[i]
           s(k) == IF k <= i THEN k ELSE k - 1
           t(k) == IF k < i THEN k ELSE k - 1
           E(k) == EndOf(h, h.list[k])
           q == [l EXCEPT ![a] = req]
<1>a. g \in Heap /\ g.list = InsertAt(h.list, i + 1, r) /\ g.committed = h.committed
  BY DEF Splits
<1>b. /\ g.mem[a].size \in Nat /\ g.mem[r].size \in Nat
      /\ r = a + Header + g.mem[a].size /\ E(i) = r + Header + g.mem[r].size
  BY DEF Splits
<1>c. /\ g.mem[a].magic /\ g.mem[a].free = FALSE
      /\ g.mem[r].magic /\ g.mem[r].free = TRUE /\ h.mem[a].free = TRUE
  BY DEF Splits
<1>d. \A c \in Addr \ {a, r} : g.mem[c] = h.mem[c]
  BY DEF Splits
<1>1. n \in Nat \ {0} /\ i \in 1 .. n /\ h.list \in Seq(Addr) /\ r \in Addr
  BY DEF Shape, Heap, Splits
<1>2. /\ Len(g.list) = n + 1
      /\ \A k \in 1 .. i : g.list[k] = h.list[k]
      /\ g.list[i + 1] = r
      /\ \A k \in i + 2 .. n + 1 : g.list[k] = h.list[k - 1]
  <2>1. Inserted(Addr, h.list, InsertAt(h.list, i + 1, r), i, r)
    BY <1>1, InsertAtIs
  <2> QED BY <1>a, <2>1 DEF Inserted
<1>3. \A k \in 1 .. n : h.list[k] \in Addr /\ h.list[k] \in Nat /\ E(k) \in Nat /\ E(k) > h.list[k]
  <2> SUFFICES ASSUME NEW k \in 1 .. n
               PROVE  h.list[k] \in Addr /\ h.list[k] \in Nat /\ E(k) \in Nat /\ E(k) > h.list[k]
    OBVIOUS
  <2>1. /\ h.list[k] \in Addr /\ h.list[k] \in Nat /\ h.mem[h.list[k]].size \in Nat /\ Header \in Nat \ {0}
        /\ EndOf(h, h.list[k]) = h.list[k] + Header + h.mem[h.list[k]].size
    BY BlockIs
  <2> HIDE DEF EndOf
  <2>2. EndOf(h, h.list[k]) \in Nat /\ h.list[k] < EndOf(h, h.list[k])
    BY <2>1, EndAfter
  <2> QED BY <2>1, <2>2
<1>4. a \in Addr /\ a \in Nat /\ a < r /\ r < E(i) /\ r \in Nat
  <2>1. Header \in Nat \ {0}
    BY UnitAssumption
  <2> DEFINE x == g.mem[a].size
             y == g.mem[r].size
  <2>2. r = a + Header + x /\ E(i) = r + Header + y /\ x \in Nat /\ y \in Nat /\ a \in Nat /\ a \in Addr
    BY <1>1, <1>3, <1>b
  <2> HIDE DEF a, E, x, y
  <2>3. r \in Nat /\ a < r
    BY <2>1, <2>2, EndAfter
  <2>4. r < E(i)
    BY <2>1, <2>2, <2>3, EndAfter
  <2> QED BY <2>2, <2>3, <2>4
<1>5. \A k \in 1 .. n : h.list[k] # r /\ (h.list[k] = a => k = i)
  <2> SUFFICES ASSUME NEW k \in 1 .. n PROVE h.list[k] # r /\ (h.list[k] = a => k = i)
    OBVIOUS
  <2>1. ~(h.list[i] < h.list[k] /\ h.list[k] < EndOf(h, h.list[i])) /\ (h.list[i] = h.list[k] => i = k)
    BY BlocksApart
  <2> QED BY <1>4, <2>1
<1>6. \A k \in 1 .. n : k # i => g.mem[h.list[k]] = h.mem[h.list[k]]
  BY <1>3, <1>5, <1>d
<1>7. \A k \in 1 .. n + 1 : k # i + 1 => /\ g.list[k] = h.list[s(k)] /\ s(k) \in 1 .. n
                                         /\ (s(k) = i <=> k = i)
  <2> SUFFICES ASSUME NEW k \in 1 .. n + 1, k # i + 1
               PROVE  g.list[k] = h.list[s(k)] /\ s(k) \in 1 .. n /\ (s(k) = i <=> k = i)
    OBVIOUS
  <2>1. CASE k <= i
    <3>1. k \in 1 .. i /\ s(k) = k /\ k \in 1 .. n
      BY <1>1, <2>1
    <3> HIDE DEF s
    <3> QED BY <1>2, <3>1
  <2>2. CASE ~(k <= i)
    <3>0. s(k) = k - 1
      BY <2>2
    <3> HIDE DEF n, s
    <3>1. k \in i + 2 .. n + 1 /\ k - 1 \in 1 .. n /\ k # i /\ k - 1 # i
      BY <1>1, <2>2
    <3> QED BY <1>2, <3>0, <3>1 DEF n
  <2> QED BY <2>1, <2>2
<1>8. \A k \in 1 .. n + 1 : k # i => EndOf(g, g.list[k]) = E(t(k)) /\ t(k) \in 1 .. n
  <2> SUFFICES ASSUME NEW k \in 1 .. n + 1, k # i PROVE EndOf(g, g.list[k]) = E(t(k)) /\ t(k) \in 1 .. n
    OBVIOUS
  <2>1. CASE k = i + 1
    <3>1. g.list[k] = r /\ t(k) = i
      BY <1>1, <1>2, <2>1
    <3> HIDE DEF t
    <3> QED BY <1>1, <1>b, <3>1 DEF EndOf
  <2>2. CASE k # i + 1
    <3>1. s(k) = t(k) /\ s(k) # i /\ s(k) \in 1 .. n /\ g.list[k] = h.list[s(k)]
      BY <1>1, <1>7, <2>2
    <3> HIDE DEF s, t, n
    <3> QED BY <1>6, <3>1 DEF EndOf
  <2> QED BY <2>1, <2>2
<1>9. EndOf(g, g.list[i]) = r /\ g.list[i] = a
  <2>1. g.list[i] = a
    BY <1>1, <1>2
  <2> QED BY <1>b, <2>1 DEF EndOf
<1>10. i \in 1 .. n + 1 /\ i + 1 \in 1 .. n + 1 /\ i # i + 1 /\ n + 1 \in Nat \ {0}
  BY <1>1
<1>11. Shape(g)
  <2>1. Len(g.list) \in Nat \ {0} /\ g.list[1] = 0
    <3>1. 1 \in 1 .. i
      BY <1>1
    <3> QED BY <1>2, <1>10, <3>1 DEF Shape
  <2>2. ASSUME NEW k \in 1 .. n + 1 PROVE g.mem[g.list[k]].magic
    <3>1. CASE k = i
      BY <1>9, <1>c, <3>1
    <3>2. CASE k = i + 1
      BY <1>2, <1>c, <3>2
    <3>3. CASE k # i /\ k # i + 1
      <4>1. g.list[k] = h.list[s(k)] /\ s(k) \in 1 .. n /\ s(k) # i
        BY <1>7, <3>3
      <4> HIDE DEF s
      <4> QED BY <1>6, <4>1 DEF Shape
    <3> QED BY <3>1, <3>2, <3>3
  <2>3. ASSUME NEW k \in 1 .. n PROVE g.list[k + 1] = EndOf(g, g.list[k])
    <3>1. k \in 1 .. n + 1 /\ k + 1 \in 1 .. n + 1
      BY <1>1
    <3>2. CASE k = i
      BY <1>2, <1>9, <3>2
    <3>3. CASE k # i
      <4>1. s(k + 1) = t(k) + 1 /\ t(k) \in 1 .. n - 1 /\ k + 1 # i + 1
        <5>1. CASE k < i
          <6>1. t(k) = k /\ s(k + 1) = k + 1 /\ k \in 1 .. n - 1
            BY <1>1, <5>1
          <6> QED BY <6>1, <3>3
        <5>2. CASE k > i
          <6>1. ~(k < i) /\ ~(k + 1 <= i) /\ (k + 1) - 1 = k
            BY <1>1, <5>2
          <6>2. t(k) = k - 1 /\ s(k + 1) = k
            BY <6>1
          <6> HIDE DEF s, t, n
          <6>3. k - 1 \in 1 .. n - 1 /\ (k - 1) + 1 = k /\ k + 1 # i + 1
            BY <1>1, <5>2
          <6> QED BY <6>2, <6>3
        <5> QED BY <1>1, <3>3, <5>1, <5>2
      <4>2. g.list[k + 1] = h.list[s(k + 1)]
        BY <1>7, <3>1, <4>1
      <4>3. h.list[t(k) + 1] = E(t(k))
        BY <4>1 DEF Shape
      <4>4. EndOf(g, g.list[k]) = E(t(k))
        BY <1>8, <3>1, <3>3
      <4> HIDE DEF s, t, E
      <4> QED BY <4>1, <4>2, <4>3, <4>4
    <3> QED BY <3>2, <3>3
  <2>4. EndOf(g, g.list[n + 1]) = g.committed
    <3>1. n + 1 \in 1 .. n + 1 /\ n + 1 # i /\ t(n + 1) = n
      BY <1>1
    <3>2. E(n) = h.committed
      BY DEF Shape
    <3> HIDE DEF t, E
    <3> QED BY <1>8, <1>a, <3>1, <3>2
  <2>5. ASSUME NEW j \in 1 .. n + 1, NEW k \in 1 .. n + 1, j < k PROVE EndOf(g, g.list[j]) <= g.list[k]
    <3>0. \A x, y \in 1 .. n : x < y => E(x) <= h.list[y]
      BY DEF Shape
    <3>1. CASE j = i /\ k = i + 1
      BY <1>2, <1>4, <1>9, <3>1
    <3>2. CASE j = i /\ k # i + 1
      <4>1. i < s(k) /\ s(k) \in 1 .. n /\ g.list[k] = h.list[s(k)]
        <5>1. s(k) \in 1 .. n /\ g.list[k] = h.list[s(k)]
          BY <1>7, <3>2
        <5>2. i < s(k)
          BY <1>1, <2>5, <3>2
        <5> QED BY <5>1, <5>2
      <4>2. E(i) <= h.list[s(k)] /\ E(i) \in Nat /\ h.list[s(k)] \in Nat
        BY <1>1, <1>3, <3>0, <4>1
      <4> HIDE DEF s, E
      <4> QED BY <1>4, <1>9, <3>2, <4>1, <4>2
    <3>3. CASE j # i /\ k = i + 1
      <4>1. j < i /\ t(j) = j /\ j \in 1 .. n
        BY <1>1, <2>5, <3>3
      <4>2. E(j) <= a /\ E(j) \in Nat
        BY <1>1, <1>3, <3>0, <4>1
      <4>3. EndOf(g, g.list[j]) = E(j)
        BY <1>8, <3>3, <4>1
      <4> HIDE DEF E, a
      <4> QED BY <1>2, <1>4, <3>3, <4>2, <4>3
    <3>4. CASE j # i /\ k # i + 1
      <4>1. t(j) < s(k) /\ t(j) \in 1 .. n /\ s(k) \in 1 .. n /\ g.list[k] = h.list[s(k)]
        BY <1>1, <1>7, <1>8, <2>5, <3>4
      <4>2. EndOf(g, g.list[j]) = E(t(j))
        BY <1>8, <3>4
      <4> HIDE DEF s, t, E
      <4> QED BY <3>0, <4>1, <4>2
    <3> QED BY <3>1, <3>2, <3>3, <3>4
  <2>6. Len(g.list) - 1 = n
    BY <1>1, <1>2
  <2> HIDE DEF n
  <2> QED BY <1>a, <1>2, <2>1, <2>2, <2>3, <2>4, <2>5, <2>6 DEF Shape
<1>12. q \in [Addr -> Nat] /\ q[a] = req /\ \A c \in Addr \ {a} : q[c] = l[c]
  BY <1>4
<1> HIDE DEF q
<1>13. l[r] = 0 /\ q[r] = 0
  <2>1. ~(l[r] > 0)
    BY <1>1, <1>5 DEF Held
  <2> QED BY <1>1, <1>4, <1>12, <2>1
<1>14. Held(g, q)
  <2>1. ASSUME NEW k \in 1 .. n + 1 PROVE ~g.mem[g.list[k]].free <=> q[g.list[k]] > 0
    <3>1. CASE k = i
      BY <1>9, <1>12, <1>c, <3>1
    <3>2. CASE k = i + 1
      BY <1>2, <1>13, <1>c, <3>2
    <3>3. CASE k # i /\ k # i + 1
      <4>1. g.list[k] = h.list[s(k)] /\ s(k) \in 1 .. n /\ s(k) # i
        BY <1>7, <3>3
      <4> HIDE DEF s
      <4>2. h.list[s(k)] \in Addr \ {a} /\ g.mem[h.list[s(k)]] = h.mem[h.list[s(k)]]
        BY <1>3, <1>5, <1>6, <4>1
      <4>3. ~h.mem[h.list[s(k)]].free <=> l[h.list[s(k)]] > 0
        BY <4>1 DEF Held
      <4> QED BY ONLY <1>12, <4>1, <4>2, <4>3
    <3> QED BY <3>1, <3>2, <3>3
  <2>2. ASSUME NEW c \in Addr, q[c] > 0
        PROVE  (\E k \in 1 .. n + 1 : g.list[k] = c) /\ g.mem[c].size >= q[c]
    <3>1. CASE c = a
      BY <1>9, <1>10, <1>12, <3>1
    <3>2. CASE c # a
      <4>1. q[c] = l[c] /\ c # r
        BY <1>12, <1>13, <2>2, <3>2
      <4>2. PICK k \in 1 .. n : h.list[k] = c
        BY <2>2, <4>1 DEF Held
      <4>3. g.mem[c] = h.mem[c] /\ h.mem[c].size >= l[c]
        BY <1>d, <2>2, <3>2, <4>1 DEF Held
      <4>4. \E j \in 1 .. n + 1 : g.list[j] = c
        <5>1. CASE k < i
          <6>1. k \in 1 .. i /\ k \in 1 .. n + 1
            BY <1>1, <5>1
          <6> QED BY <1>2, <4>2, <6>1
        <5>2. CASE k > i
          <6>1. k + 1 \in i + 2 .. n + 1 /\ k + 1 \in 1 .. n + 1 /\ (k + 1) - 1 = k
            BY <1>1, <5>2
          <6>2. g.list[k + 1] = h.list[(k + 1) - 1]
            BY <1>2, <6>1
          <6> QED BY <4>2, <6>1, <6>2
        <5>3. k # i
          BY <3>2, <4>2
        <5> QED BY <1>1, <5>1, <5>2, <5>3
      <4> QED BY <4>1, <4>3, <4>4
    <3> QED BY <3>1, <3>2
  <2>3. ASSUME NEW c \in Addr, g.mem[c].magic, ~g.mem[c].free PROVE q[c] > 0
    <3>1. CASE c = a
      BY <1>12, <3>1
    <3>2. CASE c # a
      <4>1. c # r
        BY <1>c, <2>3
      <4>2. g.mem[c] = h.mem[c] /\ q[c] = l[c]
        BY <1>12, <1>d, <3>2, <4>1
      <4> QED BY <2>3, <4>2 DEF Held
    <3> QED BY <3>1, <3>2
  <2> HIDE DEF n
  <2> QED BY <1>2, <2>1, <2>2, <2>3 DEF Held
<1>15. Apart(g, {})
  <2> SUFFICES ASSUME NEW j \in 1 .. n PROVE ~(g.mem[g.list[j]].free /\ g.mem[g.list[j + 1]].free)
    <3>1. Len(g.list) - 1 = n
      BY <1>1, <1>2
    <3> QED BY <3>1 DEF Apart
  <2>0. \A k \in 1 .. n - 1 : ~(h.mem[h.list[k]].free /\ h.mem[h.list[k + 1]].free)
    BY DEF Apart
  <2>1. CASE j = i
    BY <1>9, <1>c, <2>1
  <2>2. CASE j + 1 = i
    BY <1>9, <1>c, <2>2
  <2>3. CASE j < i /\ j + 1 # i
    <3>0. n \in Nat \ {0} /\ i \in 1 .. n
      BY <1>1
    <3> HIDE DEF n
    <3>1. /\ j \in 1 .. i /\ j + 1 \in 1 .. i /\ j \in 1 .. n /\ j + 1 \in 1 .. n /\ j \in 1 .. n - 1
          /\ j # i
      BY <2>3, <3>0
    <3>2. g.list[j] = h.list[j] /\ g.list[j + 1] = h.list[j + 1]
      BY <1>2, <3>1
    <3>3. g.mem[h.list[j]] = h.mem[h.list[j]] /\ g.mem[h.list[j + 1]] = h.mem[h.list[j + 1]]
      BY <1>6, <2>3, <3>1
    <3> QED BY <2>0, <3>1, <3>2, <3>3
  <2>4. CASE j > i
    <3>1. /\ j + 1 \in i + 2 .. n + 1 /\ (j + 1) - 1 = j /\ j - 1 \in 1 .. n - 1 /\ (j - 1) + 1 = j
          /\ j # i /\ j - 1 \in 1 .. n
      BY <1>1, <2>4
    <3>2. g.list[j + 1] = h.list[j] /\ g.mem[h.list[j]] = h.mem[h.list[j]]
      <4>1. g.list[j + 1] = h.list[(j + 1) - 1]
        BY <1>2, <3>1
      <4> QED BY <1>6, <3>1, <4>1
    <3>3. ~(h.mem[h.list[j - 1]].free /\ h.mem[h.list[j]].free)
      BY <2>0, <3>1
    <3>4. CASE j = i + 1
      <4>1. j - 1 = i
        BY <1>1, <3>4
      <4> QED BY <1>c, <3>2, <3>3, <4>1
    <3>5. CASE j # i + 1
      <4>1. j \in i + 2 .. n + 1 /\ j - 1 # i
        BY <1>1, <2>4, <3>5
      <4>2. g.list[j] = h.list[j - 1] /\ g.mem[h.list[j - 1]] = h.mem[h.list[j - 1]]
        BY <1>2, <1>6, <3>1, <4>1
      <4> QED BY <3>2, <3>3, <4>2
    <3> QED BY <3>4, <3>5
  <2> QED BY <1>1, <2>1, <2>2, <2>3, <2>4
<1>16. Good(g, q) /\ i \in 1 .. Len(g.list) /\ g.list[i] = h.list[i]
  BY <1>2, <1>9, <1>10, <1>11, <1>12, <1>14, <1>15 DEF Good
<1> QED BY <1>16 DEF q

LEMMA SplitSizes ==
    ASSUME NEW a \in Nat, NEW x \in Nat, NEW w \in Nat \ {0}, NEW m \in Nat \ {0}, NEW z \in Nat,
           NEW c \in Nat, NEW max \in Nat, x >= z + w + m, a + w + x <= c, c <= max
    PROVE  /\ a + w + z \in 0 .. max - 1 /\ x - z - w \in 0 .. max /\ z \in 0 .. max
           /\ a + w + x = (a + w + z) + w + (x - z - w) /\ a # a + w + z
OBVIOUS

\* kmalloc hands out the i-th block, which is free and large enough.
LEMMA Take ==
    ASSUME NEW h, NEW l, Good(h, l), NEW i \in 1 .. Len(h.list),
           NEW size \in Nat, NEW req \in Nat \ {0}, req <= size,
           h.mem[h.list[i]].free = TRUE, h.mem[h.list[i]].size >= size
    PROVE  LET g == Taken(h, i, size)
           IN  /\ Good(g, [l EXCEPT ![h.list[i]] = req])
               /\ i \in 1 .. Len(g.list) /\ g.list[i] = h.list[i] /\ g.committed = h.committed
<1>0. l \in [Addr -> Nat] /\ Shape(h) /\ Held(h, l) /\ Apart(h, {})
  BY DEF Good
<1> USE <1>0
<1> DEFINE a == h.list[i]
           r == a + Header + size
           g == Taken(h, i, size)
           x == h.mem[a].size
           q == [l EXCEPT ![a] = req]
<1>1. /\ h \in Heap /\ h.list \in Seq(Addr) /\ h.mem \in [Addr -> BlockHeader]
      /\ a \in Addr /\ a \in Nat /\ h.mem[a] \in BlockHeader /\ x \in Nat /\ Header \in Nat \ {0}
      /\ EndOf(h, a) = a + Header + x /\ EndOf(h, a) <= h.committed
      /\ h.committed <= HeapMax /\ h.committed \in Nat /\ HeapMax \in Nat
      /\ h.mem[a].magic = TRUE
  BY BlockIs DEF Shape
<1>2. q \in [Addr -> Nat] /\ q[a] = req /\ \A c \in Addr \ {a} : q[c] = l[c]
  BY <1>1
<1>3. CASE x >= size + Header + MinSplit
  <2>1. /\ r \in 0 .. HeapMax - 1 /\ x - size - Header \in 0 .. HeapMax /\ size \in 0 .. HeapMax
        /\ a + Header + x = r + Header + (x - size - Header) /\ a # r
    <3>1. MinSplit \in Nat \ {0} /\ Header \in Nat \ {0}
      BY UnitAssumption
    <3> DEFINE c == h.committed
    <3>2. a + Header + x <= c /\ c \in Nat /\ c <= HeapMax /\ a \in Nat /\ x \in Nat /\ HeapMax \in Nat
      BY <1>1
    <3> HIDE DEF a, x, c
    <3>3. x >= size + Header + MinSplit
      BY <1>3
    <3> QED BY <3>1, <3>2, <3>3, SplitSizes
  <2> DEFINE y == x - size - Header
             ba == BlockOf(size, FALSE)
             br == BlockOf(y, TRUE)
             mem == [h.mem EXCEPT ![a] = ba, ![r] = br]
  <2>2. g = [h EXCEPT !.list = InsertAt(h.list, i + 1, r), !.mem = mem]
    BY <1>1, <1>3 DEF Taken, Heap
  <2> HIDE DEF y
  <2>3. /\ ba \in BlockHeader /\ ba.size = size /\ ba.free = FALSE /\ ba.magic = TRUE
        /\ br \in BlockHeader /\ br.size = y /\ br.free = TRUE /\ br.magic = TRUE
    BY <2>1 DEF BlockOf, BlockHeader, y
  <2> HIDE DEF ba, br
  <2>4. r \in Addr
    BY <2>1 DEF Addr
  <2> HIDE DEF r
  <2>5. /\ mem \in [Addr -> BlockHeader] /\ mem[a] = ba /\ mem[r] = br
        /\ \A c \in Addr \ {a, r} : mem[c] = h.mem[c]
    BY <1>1, <2>1, <2>3, <2>4
  <2>6. InsertAt(h.list, i + 1, r) \in Seq(Addr)
    <3>1. Inserted(Addr, h.list, InsertAt(h.list, i + 1, r), i, r)
      BY <1>1, <2>4, InsertAtIs
    <3> QED BY <3>1 DEF Inserted
  <2> HIDE DEF mem
  <2>7. g \in Heap /\ g.list = InsertAt(h.list, i + 1, r) /\ g.mem = mem /\ g.committed = h.committed
    BY <1>1, <2>2, <2>5, <2>6 DEF Heap
  <2> HIDE DEF g
  <2>8. g.mem[a] = ba /\ g.mem[r] = br /\ \A c \in Addr \ {a, r} : g.mem[c] = h.mem[c]
    BY <2>5, <2>7
  <2>9. /\ g.mem[a].size \in Nat /\ g.mem[r].size \in Nat
        /\ r = a + Header + g.mem[a].size /\ EndOf(h, a) = r + Header + g.mem[r].size
    <3>1. g.mem[a].size = size /\ g.mem[r].size = y
      BY <2>3, <2>8
    <3>2. y \in 0 .. HeapMax /\ a + Header + x = r + Header + y
      BY <2>1 DEF y
    <3>3. HeapMax \in Nat
      BY <1>1
    <3>4. y \in Nat
      BY <3>2, <3>3
    <3> QED BY <1>1, <3>1, <3>2, <3>4 DEF r
  <2>10. Splits(h, g, i, r)
    BY <2>3, <2>4, <2>7, <2>8, <2>9 DEF Splits
  <2>11. req <= g.mem[h.list[i]].size
    BY <2>3, <2>8
  <2>12. /\ Shape(g) /\ Held(g, q) /\ Apart(g, {}) /\ i \in 1 .. Len(g.list) /\ g.list[i] = h.list[i]
    <3>1. q = [l EXCEPT ![h.list[i]] = req]
      OBVIOUS
    <3> HIDE DEF q, a, x, r
    <3>2. Good(g, [l EXCEPT ![h.list[i]] = req]) /\ i \in 1 .. Len(g.list) /\ g.list[i] = h.list[i]
      <4>1. /\ l \in [Addr -> Nat] /\ Shape(h) /\ Held(h, l) /\ Apart(h, {})
            /\ i \in 1 .. Len(h.list) /\ Splits(h, g, i, r)
            /\ req \in Nat \ {0} /\ req <= g.mem[h.list[i]].size
        BY <2>10, <2>11
      <4> QED BY ONLY <4>1, Split, ZenonT(30)
    <3> QED BY <3>1, <3>2 DEF Good
  <2> QED BY <1>2, <2>7, <2>12 DEF g, Good
<1>4. CASE ~(x >= size + Header + MinSplit)
  <2>1. g = [h EXCEPT !.mem = [h.mem EXCEPT ![a] = [h.mem[a] EXCEPT !.free = FALSE]]]
    BY <1>1, <1>4 DEF Taken, Heap
  <2> DEFINE ba == [h.mem[a] EXCEPT !.free = FALSE]
  <2>2. ba \in BlockHeader /\ ba.size = x /\ ba.free = FALSE /\ ba.magic = TRUE
    BY <1>1 DEF BlockHeader
  <2>3. g = [h EXCEPT !.mem = [h.mem EXCEPT ![a] = ba]]
    BY <2>1
  <2> HIDE DEF ba
  <2>4. /\ g \in Heap /\ g.list = h.list /\ g.committed = h.committed /\ g.mem = [h.mem EXCEPT ![a] = ba]
    <3>1. [h.mem EXCEPT ![a] = ba] \in [Addr -> BlockHeader]
      BY <1>1, <2>2
    <3> QED BY <1>1, <2>3, <3>1 DEF Heap
  <2>5. g.mem[a] = ba /\ \A c \in Addr \ {a} : g.mem[c] = h.mem[c]
    BY <1>1, <2>4
  <2>6. \A j \in 1 .. Len(h.list) : h.list[j] \in Addr /\ (h.list[j] = a => j = i)
    BY BlockIs, BlocksApart
  <2> HIDE DEF g, q
  <2>7. Shape(g)
    <3>1. ASSUME NEW j \in 1 .. Len(h.list)
          PROVE  g.mem[h.list[j]].size = h.mem[h.list[j]].size /\ g.mem[h.list[j]].magic
      <4>1. CASE h.list[j] = a
        BY <2>2, <2>5, <4>1
      <4>2. CASE h.list[j] # a
        BY <2>5, <2>6, <4>2 DEF Shape
      <4> QED BY <4>1, <4>2
    <3> HIDE DEF a, x
    <3> QED BY <2>4, <3>1, SameShape
  <2>8. Held(g, q)
    <3>1. ASSUME NEW j \in 1 .. Len(h.list) PROVE ~g.mem[h.list[j]].free <=> q[h.list[j]] > 0
      <4>1. CASE h.list[j] = a
        BY <1>2, <2>2, <2>5, <4>1
      <4>2. CASE h.list[j] # a
        <5>1. g.mem[h.list[j]] = h.mem[h.list[j]] /\ q[h.list[j]] = l[h.list[j]]
          BY <1>2, <2>5, <2>6, <4>2
        <5> QED BY <5>1 DEF Held
      <4> QED BY <4>1, <4>2
    <3>2. ASSUME NEW c \in Addr, q[c] > 0
          PROVE  (\E j \in 1 .. Len(h.list) : h.list[j] = c) /\ g.mem[c].size >= q[c]
      <4>1. CASE c = a
        <5>1. x >= size /\ x \in Nat
          BY <1>1
        <5> HIDE DEF x
        <5>2. x >= req
          BY <5>1
        <5> QED BY <1>2, <2>2, <2>5, <4>1, <5>2
      <4>2. CASE c # a
        <5>1. g.mem[c] = h.mem[c] /\ q[c] = l[c]
          BY <1>2, <2>5, <4>2
        <5> QED BY <3>2, <5>1 DEF Held
      <4> QED BY <4>1, <4>2
    <3>3. ASSUME NEW c \in Addr, g.mem[c].magic, ~g.mem[c].free PROVE q[c] > 0
      <4>1. CASE c = a
        BY <1>2, <4>1
      <4>2. CASE c # a
        <5>1. g.mem[c] = h.mem[c] /\ q[c] = l[c]
          BY <1>2, <2>5, <4>2
        <5> QED BY <3>3, <5>1 DEF Held
      <4> QED BY <4>1, <4>2
    <3> QED BY <2>4, <3>1, <3>2, <3>3 DEF Held
  <2>9. Apart(g, {})
    <3> SUFFICES ASSUME NEW j \in 1 .. Len(h.list) - 1
                 PROVE  ~(g.mem[h.list[j]].free /\ g.mem[h.list[j + 1]].free)
      BY <2>4 DEF Apart
    <3>1. j \in 1 .. Len(h.list) /\ j + 1 \in 1 .. Len(h.list)
      BY DEF Shape
    <3>2. ~(h.mem[h.list[j]].free /\ h.mem[h.list[j + 1]].free)
      BY DEF Apart
    <3>3. \A k \in 1 .. Len(h.list) : g.mem[h.list[k]].free => h.mem[h.list[k]].free
      <4> SUFFICES ASSUME NEW k \in 1 .. Len(h.list), g.mem[h.list[k]].free PROVE h.mem[h.list[k]].free
        OBVIOUS
      <4>1. h.list[k] # a
        BY <2>2, <2>5
      <4> QED BY <2>5, <2>6, <4>1
    <3> QED BY <3>1, <3>2, <3>3
  <2> QED BY <1>2, <2>4, <2>7, <2>8, <2>9 DEF g, q, Good
<1> QED BY <1>3, <1>4

\* The search finds a block that is free and large enough.
LEMMA Fits ==
    ASSUME NEW h, NEW l, Good(h, l), NEW size \in Nat, FirstFit(h, size) # 0
    PROVE  /\ FirstFit(h, size) \in 1 .. Len(h.list)
           /\ h.mem[h.list[FirstFit(h, size)]].free = TRUE
           /\ h.mem[h.list[FirstFit(h, size)]].size >= size
<1> DEFINE I == {i \in 1 .. Len(h.list) : h.mem[h.list[i]].free /\ h.mem[h.list[i]].size >= size}
<1>1. FirstFit(h, size) = IF I # {} THEN Min(I) ELSE 0
  BY DEF FirstFit, SelectInSeq
<1>2. I # {} /\ FirstFit(h, size) = Min(I)
  BY <1>1
<1>3. I \in SUBSET Nat
  BY DEF Good, Shape
<1>4. Min(I) \in I
  <2> HIDE DEF I
  <2> QED BY <1>2, <1>3, LeastExists
<1>5. FirstFit(h, size) \in I
  BY <1>2, <1>4
<1>6. \A i \in 1 .. Len(h.list) : h.mem[h.list[i]].free \in BOOLEAN
  BY BlockIs DEF Good
<1> QED BY <1>5, <1>6

-----------------------------------------------------------------------------
(* Growth *)

LEMMA GrowthIs ==
    ASSUME NEW h, Shape(h), NEW size \in Nat, CanGrow(h, size)
    PROVE  /\ GrowBy(h, size) \in Nat /\ GrowBy(h, size) >= Header + MinSplit
           /\ h.committed + GrowBy(h, size) <= HeapMax
<1> DEFINE room == HeapMax - h.committed
           want == IF GrowPages * PageSize < size + Header
                   THEN RoundUp(size + Header, PageSize) ELSE GrowPages * PageSize
<1>1. h.committed \in 1 .. HeapMax
  BY DEF Shape, Heap
<1>2. HeapMax \in Nat /\ PageSize \in Nat \ {0} /\ GrowPages * PageSize \in Nat /\ Header \in Nat
  BY Sizes, UnitAssumption
<1>3. want \in Nat
  <2>1. size + Header \in Nat
    BY <1>2
  <2>2. RoundUp(size + Header, PageSize) \in Nat
    BY <1>2, <2>1, RoundUpIs
  <2> QED BY <1>2, <2>2
<1>4. GrowBy(h, size) = IF want > room THEN room ELSE want
  BY DEF GrowBy
<1>5. GrowBy(h, size) >= Header + MinSplit
  BY DEF CanGrow
<1> DEFINE c == h.committed
           d == GrowBy(h, size)
<1>6. c \in 1 .. HeapMax /\ (d = room \/ (d = want /\ ~(want > room)))
  BY <1>1, <1>4
<1>7. room = HeapMax - c
  OBVIOUS
<1> HIDE DEF want, room, c, d
<1>8. d \in Nat /\ c + d <= HeapMax
  BY <1>2, <1>3, <1>6, <1>7
<1> QED BY <1>5, <1>8 DEF c, d

LEMMA GrowSizes ==
    ASSUME NEW a \in Nat, NEW x \in Nat, NEW w \in Nat \ {0}, NEW m \in Nat \ {0}, NEW c \in Nat, NEW d \in Nat,
           NEW max \in Nat, d >= w + m, c + d <= max, a + w + x = c
    PROVE  /\ x + d \in 0 .. max /\ a + w + (x + d) = c + d /\ c \in 0 .. max - 1 /\ c + d \in 1 .. max
           /\ d - w \in 0 .. max /\ c + w + (d - w) = c + d
OBVIOUS

\* heap_grow, whether or not the new space joins the last block
LEMMA Grow ==
    ASSUME NEW h, NEW l, Good(h, l), NEW size \in Nat, CanGrow(h, size)
    PROVE  /\ Good(Grown(h, size), l)
           /\ Grown(h, size).committed = h.committed + GrowBy(h, size)
<1>0. l \in [Addr -> Nat] /\ Shape(h) /\ Held(h, l) /\ Apart(h, {})
  BY DEF Good
<1> USE <1>0
<1> DEFINE n == Len(h.list)
           d == GrowBy(h, size)
           c == h.committed
           a == h.list[n]
           x == h.mem[a].size
           g == Grown(h, size)
<1>1. n \in Nat \ {0} /\ n \in 1 .. n /\ EndOf(h, a) = c
  BY DEF Shape
<1>2. /\ h \in Heap /\ h.list \in Seq(Addr) /\ h.mem \in [Addr -> BlockHeader] /\ c \in Nat
      /\ a \in Addr /\ a \in Nat /\ h.mem[a] \in BlockHeader /\ x \in Nat /\ Header \in Nat \ {0}
      /\ EndOf(h, a) = a + Header + x /\ HeapMax \in Nat /\ h.mem[a].magic = TRUE
      /\ h.mem[a].free \in BOOLEAN
  <2>1. h \in Heap /\ n \in 1 .. Len(h.list)
    BY <1>1 DEF Shape
  <2> HIDE DEF n
  <2> QED BY <2>1, BlockIs
<1>3. /\ x + d \in 0 .. HeapMax /\ a + Header + (x + d) = c + d
      /\ c \in 0 .. HeapMax - 1 /\ c + d \in 1 .. HeapMax
      /\ d - Header \in 0 .. HeapMax /\ c + Header + (d - Header) = c + d
  <2>1. MinSplit \in Nat \ {0} /\ Header \in Nat \ {0}
    BY UnitAssumption
  <2>2. d \in Nat /\ d >= Header + MinSplit /\ c + d <= HeapMax
    BY GrowthIs
  <2>3. a \in Nat /\ x \in Nat /\ c \in Nat /\ a + Header + x = c /\ HeapMax \in Nat
    BY <1>1, <1>2
  <2> HIDE DEF a, x, c, d
  <2> QED BY <2>1, <2>2, <2>3, GrowSizes
<1>4. c \in Addr
  BY <1>3 DEF Addr
<1>5. \A k \in 1 .. n : h.list[k] \in Addr /\ h.list[k] # c /\ h.list[k] < c /\ EndOf(h, h.list[k]) <= c
  <2> SUFFICES ASSUME NEW k \in 1 .. n
               PROVE  h.list[k] \in Addr /\ h.list[k] # c /\ h.list[k] < c /\ EndOf(h, h.list[k]) <= c
    OBVIOUS
  <2> DEFINE y == h.mem[h.list[k]].size
             b == h.list[k]
  <2>1. /\ b \in Addr /\ b \in Nat /\ y \in Nat /\ Header \in Nat \ {0}
        /\ EndOf(h, b) = b + Header + y /\ EndOf(h, b) <= c /\ c \in Nat
    BY BlockIs
  <2> HIDE DEF b, y, c
  <2>2. b < c
    BY <2>1
  <2> QED BY <2>1, <2>2 DEF b
<1>6. l[c] = 0
  <2>1. ~(l[c] > 0)
    BY <1>4, <1>5 DEF Held
  <2> QED BY <1>4, <2>1
<1>7. \A k \in 1 .. n : h.list[k] = a => k = n
  BY <1>1, BlocksApart
<1>8. CASE h.mem[a].free
  <2> DEFINE ba == [h.mem[a] EXCEPT !.size = x + d]
             mem == [h.mem EXCEPT ![a] = ba, ![c] = Remnant]
  <2>1. g = [list |-> h.list, mem |-> mem, committed |-> c + d]
    <3>1. g = [list |-> h.list, mem |-> [h.mem EXCEPT ![a].size = @ + d, ![c] = Remnant], committed |-> c + d]
      BY <1>1, <1>8 DEF Grown
    <3>2. [h.mem EXCEPT ![a].size = @ + d, ![c] = Remnant] = mem
      BY <1>2
    <3> QED BY <3>1, <3>2
  <2>2. ba \in BlockHeader /\ ba.size = x + d /\ ba.free = TRUE /\ ba.magic = TRUE
    BY <1>2, <1>3, <1>8 DEF BlockHeader
  <2>3. Remnant \in BlockHeader /\ Remnant.free = TRUE
    <3>1. 0 \in 0 .. HeapMax
      BY <1>2
    <3> QED BY <3>1 DEF Remnant, BlockOf, BlockHeader
  <2> HIDE DEF ba
  <2>4. /\ mem \in [Addr -> BlockHeader] /\ mem[a] = ba /\ mem[c] = Remnant
        /\ \A b \in Addr \ {a, c} : mem[b] = h.mem[b]
    BY <1>1, <1>2, <1>4, <1>5, <2>2, <2>3
  <2> HIDE DEF mem
  <2>5. /\ g \in Heap /\ g.list = h.list /\ g.committed = c + d /\ g.mem[a] = ba /\ g.mem[c] = Remnant
        /\ \A b \in Addr \ {a, c} : g.mem[b] = h.mem[b]
    <3>1. c + d \in 1 .. HeapMax
      BY <1>3
    <3>2. [list |-> h.list, mem |-> mem, committed |-> c + d] \in Heap
      <4> HIDE DEF c, d
      <4> QED BY <1>2, <2>4, <3>1 DEF Heap
    <3> HIDE DEF g
    <3> QED BY <2>1, <2>4, <3>2
  <2> HIDE DEF g
  <2>6. \A k \in 1 .. n : k # n => g.mem[h.list[k]] = h.mem[h.list[k]]
    BY <1>5, <1>7, <2>5
  <2>7. EndOf(g, a) = c + d
    <3>1. EndOf(g, a) = a + Header + (x + d)
      BY <2>2, <2>5 DEF EndOf
    <3> QED BY <1>3, <3>1
  <2>8. \A k \in 1 .. n : k # n => EndOf(g, h.list[k]) = EndOf(h, h.list[k])
    BY <2>6 DEF EndOf
  <2>9. Shape(g)
    <3>1. \A k \in 1 .. n : g.mem[h.list[k]].magic
      BY <2>2, <2>5, <2>6 DEF Shape
    <3>2. \A k \in 1 .. n - 1 : h.list[k + 1] = EndOf(g, h.list[k])
      <4>1. \A k \in 1 .. n - 1 : k \in 1 .. n /\ k # n
        BY <1>1
      <4>2. \A k \in 1 .. n - 1 : h.list[k + 1] = EndOf(h, h.list[k])
        BY DEF Shape
      <4> QED BY <2>8, <4>1, <4>2
    <3>3. \A j, k \in 1 .. n : j < k => EndOf(g, h.list[j]) <= h.list[k]
      <4>1. \A j, k \in 1 .. n : j < k => j # n
        BY <1>1
      <4>2. \A j, k \in 1 .. n : j < k => EndOf(h, h.list[j]) <= h.list[k]
        BY DEF Shape
      <4> QED BY <2>8, <4>1, <4>2
    <3>4. h.list[1] = 0
      BY DEF Shape
    <3> HIDE DEF c, d
    <3> QED BY <1>1, <2>5, <2>7, <3>1, <3>2, <3>3, <3>4 DEF Shape
  <2>10. Held(g, l)
    <3>0. ~(l[a] > 0)
      BY <1>1, <1>8 DEF Held
    <3>1. \A k \in 1 .. n : ~g.mem[h.list[k]].free <=> l[h.list[k]] > 0
      <4> SUFFICES ASSUME NEW k \in 1 .. n PROVE ~g.mem[h.list[k]].free <=> l[h.list[k]] > 0
        OBVIOUS
      <4>1. CASE k = n
        BY <2>2, <2>5, <3>0, <4>1
      <4>2. CASE k # n
        BY <2>6, <4>2 DEF Held
      <4> QED BY <4>1, <4>2
    <3>2. \A b \in Addr : l[b] > 0 => (\E k \in 1 .. n : h.list[k] = b) /\ g.mem[b].size >= l[b]
      <4> SUFFICES ASSUME NEW b \in Addr, l[b] > 0
                   PROVE  (\E k \in 1 .. n : h.list[k] = b) /\ g.mem[b].size >= l[b]
        OBVIOUS
      <4>1. b # a /\ b # c
        BY <1>6, <3>0
      <4> HIDE DEF a, c
      <4>2. g.mem[b] = h.mem[b]
        BY <2>5, <4>1
      <4> QED BY <4>2 DEF Held
    <3>3. \A b \in Addr : g.mem[b].magic /\ ~g.mem[b].free => l[b] > 0
      <4> SUFFICES ASSUME NEW b \in Addr, g.mem[b].magic, ~g.mem[b].free PROVE l[b] > 0
        OBVIOUS
      <4>1. b # a /\ b # c
        BY <2>2, <2>3, <2>5
      <4>2. g.mem[b] = h.mem[b]
        BY <2>5, <4>1
      <4> QED BY <4>2 DEF Held
    <3> QED BY <2>5, <3>1, <3>2, <3>3 DEF Held
  <2>11. Apart(g, {})
    <3> SUFFICES ASSUME NEW j \in 1 .. n - 1
                 PROVE  ~(g.mem[h.list[j]].free /\ g.mem[h.list[j + 1]].free)
      BY <2>5 DEF Apart
    <3>1. j \in 1 .. n /\ j + 1 \in 1 .. n /\ j # n
      BY <1>1
    <3>2. ~(h.mem[h.list[j]].free /\ h.mem[h.list[j + 1]].free)
      BY DEF Apart
    <3>3. g.mem[h.list[j]] = h.mem[h.list[j]]
      BY <2>6, <3>1
    <3>4. CASE j + 1 = n
      BY <1>8, <3>2, <3>3, <3>4
    <3>5. CASE j + 1 # n
      BY <2>6, <3>1, <3>2, <3>3, <3>5
    <3> QED BY <3>4, <3>5
  <2> QED BY <2>5, <2>9, <2>10, <2>11 DEF g, Good
<1>9. CASE ~h.mem[a].free
  <2> DEFINE bc == BlockOf(d - Header, TRUE)
             mem == [h.mem EXCEPT ![c] = bc]
             s == Append(h.list, c)
  <2>1. g = [list |-> s, mem |-> mem, committed |-> c + d]
    BY <1>9 DEF Grown
  <2>2. bc \in BlockHeader /\ bc.size = d - Header /\ bc.free = TRUE /\ bc.magic = TRUE
    BY <1>3 DEF BlockHeader, BlockOf
  <2> HIDE DEF bc
  <2>3. mem \in [Addr -> BlockHeader] /\ mem[c] = bc /\ \A b \in Addr \ {c} : mem[b] = h.mem[b]
    BY <1>2, <1>4, <2>2
  <2>4. s \in Seq(Addr) /\ Len(s) = n + 1 /\ s[n + 1] = c /\ \A k \in 1 .. n : s[k] = h.list[k]
    BY <1>2, <1>4, AppendProperties
  <2> HIDE DEF mem, s
  <2>5. /\ g \in Heap /\ g.list = s /\ g.committed = c + d /\ g.mem[c] = bc
        /\ \A b \in Addr \ {c} : g.mem[b] = h.mem[b]
    <3>1. c + d \in 1 .. HeapMax
      BY <1>3
    <3>2. [list |-> s, mem |-> mem, committed |-> c + d] \in Heap
      <4> HIDE DEF c, d
      <4> QED BY <1>2, <2>3, <2>4, <3>1 DEF Heap
    <3> HIDE DEF g
    <3> QED BY <2>1, <2>3, <3>2
  <2> HIDE DEF g
  <2>6. \A k \in 1 .. n : s[k] = h.list[k] /\ g.mem[s[k]] = h.mem[s[k]] /\ s[k] \in Addr
    BY <1>5, <2>4, <2>5
  <2>7. EndOf(g, c) = c + d
    <3>1. EndOf(g, c) = c + Header + (d - Header)
      BY <2>2, <2>5 DEF EndOf
    <3> QED BY <1>3, <3>1
  <2>8. \A k \in 1 .. n : EndOf(g, s[k]) = EndOf(h, h.list[k])
    BY <2>6 DEF EndOf
  <2>9. n + 1 \in Nat \ {0} /\ n \in 1 .. n /\ 1 \in 1 .. n /\ \A k \in 1 .. n + 1 : k \in 1 .. n \/ k = n + 1
    BY <1>1
  <2>10. Shape(g)
    <3>1. ASSUME NEW k \in 1 .. n + 1 PROVE g.mem[s[k]].magic
      <4>1. CASE k = n + 1
        BY <2>2, <2>4, <2>5, <4>1
      <4>2. CASE k \in 1 .. n
        BY <2>6, <4>2 DEF Shape
      <4> QED BY <2>9, <4>1, <4>2
    <3>2. ASSUME NEW k \in 1 .. n PROVE s[k + 1] = EndOf(g, s[k])
      <4>1. CASE k = n
        BY <1>1, <2>4, <2>8, <2>9, <4>1
      <4>2. CASE k # n
        <5>1. k \in 1 .. n - 1 /\ k + 1 \in 1 .. n
          BY <1>1, <4>2
        <5>2. h.list[k + 1] = EndOf(h, h.list[k])
          BY <5>1 DEF Shape
        <5> QED BY <2>4, <2>8, <5>1, <5>2
      <4> QED BY <4>1, <4>2
    <3>3. ASSUME NEW j \in 1 .. n + 1, NEW k \in 1 .. n + 1, j < k PROVE EndOf(g, s[j]) <= s[k]
      <4>1. j \in 1 .. n
        BY <1>1, <3>3
      <4>2. CASE k = n + 1
        BY <1>5, <2>4, <2>8, <4>1, <4>2
      <4>3. CASE k # n + 1
        <5>1. k \in 1 .. n
          BY <2>9, <4>3
        <5>2. EndOf(h, h.list[j]) <= h.list[k]
          BY <3>3, <4>1, <5>1 DEF Shape
        <5> QED BY <2>4, <2>8, <4>1, <5>1, <5>2
      <4> QED BY <4>2, <4>3
    <3>4. s[1] = 0
      BY <2>4, <2>9 DEF Shape
    <3>5. Len(s) - 1 = n
      BY <1>1, <2>4
    <3>6. EndOf(g, s[Len(s)]) = g.committed
      BY <2>4, <2>5, <2>7
    <3> HIDE DEF c, d, n
    <3> QED BY <2>4, <2>5, <2>9, <3>1, <3>2, <3>3, <3>4, <3>5, <3>6 DEF Shape
  <2>11. Held(g, l)
    <3>1. ASSUME NEW k \in 1 .. n + 1 PROVE ~g.mem[s[k]].free <=> l[s[k]] > 0
      <4>1. CASE k = n + 1
        BY <1>6, <2>2, <2>4, <2>5, <4>1
      <4>2. CASE k # n + 1
        <5>1. k \in 1 .. n
          BY <2>9, <4>2
        <5>2. s[k] = h.list[k] /\ g.mem[s[k]] = h.mem[s[k]]
          BY <2>6, <5>1
        <5> QED BY <5>1, <5>2 DEF Held
      <4> QED BY <4>1, <4>2
    <3>2. ASSUME NEW b \in Addr, l[b] > 0
          PROVE  (\E k \in 1 .. n + 1 : s[k] = b) /\ g.mem[b].size >= l[b]
      <4>1. PICK k \in 1 .. n : h.list[k] = b
        BY <3>2 DEF Held
      <4>2. k \in 1 .. n + 1 /\ s[k] = b /\ g.mem[b] = h.mem[b]
        BY <2>6, <4>1, <1>1
      <4> QED BY <3>2, <4>2 DEF Held
    <3>3. ASSUME NEW b \in Addr, g.mem[b].magic, ~g.mem[b].free PROVE l[b] > 0
      <4>1. b # c
        BY <2>2, <2>5, <3>3
      <4>2. g.mem[b] = h.mem[b]
        BY <2>5, <4>1
      <4> QED BY <3>3, <4>2 DEF Held
    <3> HIDE DEF n, c, d
    <3> QED BY <2>4, <2>5, <3>1, <3>2, <3>3 DEF Held
  <2>12. Apart(g, {})
    <3> SUFFICES ASSUME NEW j \in 1 .. n
                 PROVE  ~(g.mem[s[j]].free /\ g.mem[s[j + 1]].free)
      <4>1. Len(s) - 1 = n
        BY <1>1, <2>4
      <4> HIDE DEF n, c, d
      <4> QED BY <2>5, <4>1 DEF Apart
    <3>1. s[j] = h.list[j] /\ g.mem[s[j]] = h.mem[s[j]]
      BY <2>6
    <3>2. CASE j = n
      BY <1>9, <3>1, <3>2
    <3>3. CASE j # n
      <4>1. j \in 1 .. n - 1 /\ j + 1 \in 1 .. n
        BY <1>1, <3>3
      <4>2. ~(h.mem[h.list[j]].free /\ h.mem[h.list[j + 1]].free)
        BY <4>1 DEF Apart
      <4>3. s[j + 1] = h.list[j + 1] /\ g.mem[s[j + 1]] = h.mem[s[j + 1]]
        BY <2>6, <4>1
      <4> QED BY <3>1, <4>2, <4>3
    <3> QED BY <3>2, <3>3
  <2> QED BY <2>5, <2>10, <2>11, <2>12 DEF g, Good
<1> QED BY <1>8, <1>9

-----------------------------------------------------------------------------
(* The inductive invariant *)

PageInv ==
    /\ used \in SUBSET PageSet
    /\ hint \in 0 .. HighestPage
    /\ HeapPagesReserved
    /\ HintIsTight

\* The page that pmm_alloc_page finds has no free page before it, whichever
\* way the search went.
LEMMA FoundPage ==
    ASSUME PageInv, NEW p \in PageSet, FirstFreePage(p)
    PROVE  p \in PageSet \ used /\ \A q \in PageSet : q < p => q \in used
<1> DEFINE ahead == {q \in PageSet \ used : q >= hint}
           free == PageSet \ used
<1>1. p \in free /\ IF ahead # {} THEN p = Min(ahead) ELSE p = Min(free)
  BY DEF FirstFreePage
<1>2. free \in SUBSET Nat /\ ahead \in SUBSET Nat /\ hint \in Nat /\ p \in Nat
  BY RegionAssumption DEF PageSet, PageInv
<1>3. CASE ahead # {}
  <2>1. p = Min(ahead)
    BY <1>1, <1>3
  <2>2. \A y \in ahead : p <= y
    <3> HIDE DEF ahead
    <3> QED BY <1>2, <1>3, <2>1, LeastExists
  <2>3. ASSUME NEW q \in PageSet, q < p, q \notin used PROVE FALSE
    <3>1. q \in Nat /\ ~(q < hint)
      BY <2>3, RegionAssumption DEF PageSet, PageInv, HintIsTight
    <3>2. q \in ahead
      BY <1>2, <2>3, <3>1
    <3> HIDE DEF ahead
    <3> QED BY <1>2, <2>2, <2>3, <3>1, <3>2
  <2> QED BY <1>1, <2>3
<1>4. CASE ahead = {}
  <2>1. p = Min(free)
    BY <1>1, <1>4
  <2>2. \A y \in free : p <= y
    <3> HIDE DEF free
    <3> QED BY <1>1, <1>2, <2>1, LeastExists
  <2>3. ASSUME NEW q \in PageSet, q < p, q \notin used PROVE FALSE
    <3>1. q \in free /\ q \in Nat
      BY <1>2, <2>3
    <3> QED BY <1>2, <2>2, <2>3, <3>1
  <2> QED BY <1>1, <2>3
<1> QED BY <1>3, <1>4

\* Growth reserves the pages of the new space.
LEMMA Reserving ==
    ASSUME PageInv, NEW old, NEW new \in 0 .. HeapMax, old = heap.committed, used' = Reserves(old, new),
           hint' = hint, heap'.committed = new
    PROVE  PageInv'
<1>1. HeapPages(new) \subseteq PageSet
  BY PagesInside
<1>2. used' = used \cup (HeapPages(new) \ HeapPages(old)) /\ HeapPages(old) \subseteq used
  BY DEF Reserves, PageInv, HeapPagesReserved
<1>3. HeapPages(new) \subseteq used' /\ used' \subseteq PageSet /\ used \subseteq used'
  BY <1>1, <1>2 DEF PageInv
<1>4. HeapPagesReserved' /\ HintIsTight'
  BY <1>3 DEF PageInv, HeapPagesReserved, HintIsTight
<1> QED BY <1>3, <1>4 DEF PageInv

\* The statistics count the blocks that callers hold.
HeldBy(l) == {a \in Addr : l[a] > 0}
CountInv == count = Cardinality(HeldBy(live))

IInv == Good(heap, live) /\ PageInv /\ CountInv

LEMMA AddrIsFinite == IsFiniteSet(Addr)
<1>1. 0 \in Int /\ HeapMax - 1 \in Int
  BY Sizes
<1> QED BY <1>1, FS_Interval DEF Addr

LEMMA AddrFinite == ASSUME NEW l PROVE IsFiniteSet(HeldBy(l))
<1>1. HeldBy(l) \in SUBSET Addr
  BY DEF HeldBy
<1> QED BY <1>1, AddrIsFinite, FS_Subset

\* A block is handed out, possibly after the heap has grown to h.
LEMMA Giving ==
    ASSUME NEW h, Good(h, live), CountInv, NEW size \in Nat, NEW req \in Nat \ {0}, req <= size,
           NEW fills \in BOOLEAN, FirstFit(h, size) # 0, Give(h, FirstFit(h, size), size, req, fills)
    PROVE  Good(heap', live') /\ CountInv' /\ heap'.committed = h.committed
<1> DEFINE i == FirstFit(h, size)
           a == h.list[i]
           g == Taken(h, i, size)
           q == [live EXCEPT ![a] = req]
<1>1. i \in 1 .. Len(h.list) /\ h.mem[a].free = TRUE /\ h.mem[a].size >= size
  BY Fits
<1>2. heap' = Written(g, a, fills) /\ live' = q /\ count' = count + 1
  BY DEF Give
<1> HIDE DEF i
<1>3. Good(g, q) /\ i \in 1 .. Len(g.list) /\ g.list[i] = a /\ g.committed = h.committed
  <2>1. /\ Good(Taken(h, i, size), [live EXCEPT ![h.list[i]] = req])
        /\ i \in 1 .. Len(Taken(h, i, size).list) /\ Taken(h, i, size).list[i] = h.list[i]
        /\ Taken(h, i, size).committed = h.committed
    BY <1>1, Take
  <2> QED BY <2>1
<1> HIDE DEF g, q
<1>4. Good(Written(g, g.list[i], fills), q) /\ Written(g, g.list[i], fills).committed = g.committed
  BY <1>3, Write
<1>5. CountInv'
  <2>1. a \in Addr /\ live[a] = 0 /\ live \in [Addr -> Nat]
    <3>1. a \in Addr
      BY <1>1, BlockIs DEF Good
    <3>2. ~(live[a] > 0)
      BY <1>1 DEF Good, Held
    <3> QED BY <3>1, <3>2 DEF Good
  <2>2. q[a] = req /\ \A c \in Addr \ {a} : q[c] = live[c]
    BY <2>1 DEF q
  <2>3. HeldBy(live') = HeldBy(live) \cup {a} /\ a \notin HeldBy(live)
    BY <1>2, <2>1, <2>2 DEF HeldBy
  <2>4. IsFiniteSet(HeldBy(live))
    BY AddrFinite
  <2>5. Cardinality(HeldBy(live) \cup {a}) = Cardinality(HeldBy(live)) + 1
    BY <2>3, <2>4, FS_AddElement
  <2> QED BY <1>2, <2>3, <2>5 DEF CountInv
<1> QED BY <1>2, <1>3, <1>4, <1>5

LEMMA InitGood == ASSUME Init PROVE IInv
<1> DEFINE s == InitialPages * PageSize
           b == BlockOf(s - Header, TRUE)
<1>1. /\ heap = [list |-> <<0>>,
                 mem |-> [a \in Addr |-> IF a = 0 THEN b ELSE NoHeader],
                 committed |-> s]
      /\ count = 0 /\ live = [a \in Addr |-> 0] /\ hint = 0
      /\ used = Reserved \cup HeapPages(s)
  BY DEF Init
<1>2. /\ HeapMax \in Nat /\ s \in Nat /\ s <= HeapMax /\ s >= PageSize /\ Header \in Nat \ {0}
      /\ Header + MinSplit <= PageSize /\ PageSize \in Nat /\ MinSplit \in Nat \ {0}
  BY Sizes, UnitAssumption
<1> HIDE DEF s
<1>3. /\ s \in 1 .. HeapMax /\ s \in 0 .. HeapMax /\ 0 \in 0 .. HeapMax - 1 /\ s - Header \in 0 .. HeapMax
      /\ 0 \in 0 .. HeapMax /\ 0 + Header + (s - Header) = s
  BY <1>2
<1>4. b \in BlockHeader /\ NoHeader \in BlockHeader
  BY <1>3 DEF BlockHeader, BlockOf, NoHeader
<1>5. b.size = s - Header /\ b.free = TRUE /\ b.magic = TRUE /\ NoHeader.magic = FALSE
  BY DEF BlockOf, NoHeader
<1> HIDE DEF b
<1>6. 0 \in Addr
  BY <1>3 DEF Addr
<1>7. /\ heap \in Heap /\ heap.list = <<0>> /\ heap.committed = s
      /\ heap.mem[0] = b /\ \A a \in Addr \ {0} : heap.mem[a] = NoHeader
  BY <1>1, <1>3, <1>4, <1>6 DEF Heap
<1>8. live \in [Addr -> Nat] /\ \A a \in Addr : live[a] = 0
  BY <1>1
<1>9. Len(heap.list) = 1 /\ heap.list[1] = 0 /\ EndOf(heap, 0) = s
  BY <1>3, <1>5, <1>7 DEF EndOf
<1>10. \A i \in 1 .. 1 : i = 1
  OBVIOUS
<1>11. 1 .. 1 - 1 = {}
  OBVIOUS
<1>12. Shape(heap)
  <2>1. \A i, j \in 1 .. 1 : ~(i < j)
    BY <1>10
  <2> QED BY <1>5, <1>7, <1>9, <1>10, <1>11, <2>1 DEF Shape
<1>13. Held(heap, live)
  <2>1. \A a \in Addr : ~(live[a] > 0) /\ ~(heap.mem[a].magic /\ ~heap.mem[a].free)
    BY <1>5, <1>7, <1>8
  <2>2. \A i \in 1 .. 1 : ~heap.mem[heap.list[i]].free <=> live[heap.list[i]] > 0
    BY <1>5, <1>6, <1>7, <1>9, <1>10, <2>1
  <2> QED BY <1>9, <2>1, <2>2 DEF Held
<1>14. Apart(heap, {})
  BY <1>9, <1>11 DEF Apart
<1>15. PageInv
  <2>1. HeapPages(s) \subseteq PageSet
    BY <1>3, PagesInside
  <2>2. used \in SUBSET PageSet /\ HeapPages(heap.committed) \subseteq used
    BY <1>1, <1>7, <2>1, RegionAssumption DEF PageSet
  <2>3. hint \in 0 .. HighestPage /\ HintIsTight
    BY <1>1, RegionAssumption DEF HintIsTight, PageSet
  <2> QED BY <2>2, <2>3 DEF PageInv, HeapPagesReserved
<1>16. CountInv
  <2>1. HeldBy(live) = {}
    BY <1>8 DEF HeldBy
  <2> QED BY <1>1, <2>1, FS_EmptySet DEF CountInv
<1> QED BY <1>8, <1>12, <1>13, <1>14, <1>15, <1>16 DEF IInv, Good

LEMMA KmallocGood ==
    ASSUME IInv, NEW req \in Requests, NEW fills \in BOOLEAN, Kmalloc(req, fills)
    PROVE  IInv'
<1> DEFINE size == RoundUp(req, Align)
           h == Grown(heap, size)
<1>1. req \in Nat \ {0} /\ Align \in Nat \ {0}
  BY RequestsAssumption, UnitAssumption
<1>2. size \in Nat /\ req <= size
  <2>1. size \in Nat /\ size >= req
    BY <1>1, RoundUpIs
  <2> HIDE DEF size
  <2> QED BY <1>1, <2>1
<1>3. Good(heap, live) /\ PageInv /\ CountInv
  BY DEF IInv
<1>4. CASE /\ FirstFit(heap, size) # 0
           /\ Give(heap, FirstFit(heap, size), size, req, fills)
           /\ UNCHANGED <<used, hint>>
  <2> HIDE DEF size
  <2>1. Good(heap', live') /\ CountInv' /\ heap'.committed = heap.committed
    BY <1>1, <1>2, <1>3, <1>4, Giving
  <2>2. PageInv'
    BY <1>3, <1>4, <2>1 DEF PageInv, HeapPagesReserved, HintIsTight
  <2> QED BY <2>1, <2>2 DEF IInv
<1>5. CASE /\ FirstFit(heap, size) = 0
           /\ CanGrow(heap, size)
           /\ used' = Reserves(heap.committed, h.committed)
           /\ \/ FirstFit(h, size) # 0 /\ Give(h, FirstFit(h, size), size, req, fills)
              \/ FirstFit(h, size) = 0 /\ heap' = h /\ UNCHANGED <<live, count, bytes>>
           /\ hint' = hint
  <2> HIDE DEF size
  <2>1. Good(h, live)
    BY <1>2, <1>3, <1>5, Grow
  <2> HIDE DEF h
  <2>2. h.committed \in 0 .. HeapMax
    <3>1. h.committed \in 1 .. HeapMax /\ HeapMax \in Nat
      BY <2>1, Sizes DEF Good, Shape, Heap
    <3> QED BY <3>1
  <2>3. Good(heap', live') /\ CountInv' /\ heap'.committed = h.committed
    <3>1. CASE FirstFit(h, size) # 0 /\ Give(h, FirstFit(h, size), size, req, fills)
      BY <1>1, <1>2, <1>3, <2>1, <3>1, Giving
    <3>2. CASE FirstFit(h, size) = 0 /\ heap' = h /\ UNCHANGED <<live, count, bytes>>
      BY <1>3, <2>1, <3>2 DEF CountInv
    <3> QED BY <1>5, <3>1, <3>2
  <2>4. PageInv'
    BY <1>3, <1>5, <2>2, <2>3, Reserving
  <2> QED BY <2>3, <2>4 DEF IInv
<1> QED BY <1>4, <1>5 DEF Kmalloc

LEMMA KfreeGood ==
    ASSUME IInv, NEW a \in Addr, Kfree(a)
    PROVE  IInv'
<1>1. Good(heap, live) /\ PageInv /\ CountInv
  BY DEF IInv
<1>2. PICK i \in 1 .. Len(heap.list) : heap.list[i] = a /\ heap' = Freed(heap, i)
  BY DEF Kfree
<1>3. live' = [live EXCEPT ![a] = 0] /\ count' = count - 1 /\ UNCHANGED <<used, hint>>
  BY DEF Kfree
<1>4. Good(Freed(heap, i), [live EXCEPT ![heap.list[i]] = 0]) /\ Freed(heap, i).committed = heap.committed
  BY <1>1, Free
<1>5. Good(heap', live') /\ heap'.committed = heap.committed
  BY <1>2, <1>3, <1>4
<1>6. PageInv'
  BY <1>1, <1>3, <1>5 DEF PageInv, HeapPagesReserved, HintIsTight
<1>7. CountInv'
  <2>1. live[a] > 0 /\ live \in [Addr -> Nat]
    BY <1>1 DEF Kfree, Good, Held
  <2>2. live'[a] = 0 /\ \A c \in Addr \ {a} : live'[c] = live[c]
    BY <1>3, <2>1
  <2>3. HeldBy(live') = HeldBy(live) \ {a} /\ a \in HeldBy(live)
    BY <2>1, <2>2 DEF HeldBy
  <2>4. IsFiniteSet(HeldBy(live))
    BY AddrFinite
  <2>5. Cardinality(HeldBy(live) \ {a}) = Cardinality(HeldBy(live)) - 1
    BY <2>3, <2>4, FS_RemoveElement
  <2> QED BY <1>1, <1>3, <2>3, <2>5 DEF CountInv
<1> QED BY <1>5, <1>6, <1>7 DEF IInv

\* What both uses of a page do to the hint
LEMMA HintMoves ==
    ASSUME PageInv, NEW p \in PageSet, FirstFreePage(p)
    PROVE  /\ p \in 0 .. HighestPage /\ p + 1 \in 0 .. HighestPage
           /\ \A q \in PageSet : (q < p + 1 => q \in used \cup {p}) /\ (q < p => q \in used)
<1>1. \A q \in PageSet : q < p => q \in used
  BY FoundPage
<1>2. \A q \in PageSet : q \in Nat
  BY RegionAssumption DEF PageSet
<1>3. \A q \in PageSet : q < p + 1 => q < p \/ q = p
  BY <1>2
<1> QED BY <1>1, <1>3, RegionAssumption DEF PageSet

LEMMA StepGood == IInv /\ [Next]_vars => IInv'
<1> SUFFICES ASSUME IInv, [Next]_vars PROVE IInv'
  OBVIOUS
<1>1. ASSUME NEW req \in Requests, NEW fills \in BOOLEAN, Kmalloc(req, fills) PROVE IInv'
  BY <1>1, KmallocGood
<1>2. ASSUME NEW a \in Addr, Kfree(a) PROVE IInv'
  BY <1>2, KfreeGood
<1>3. CASE AllocPage
  <2>1. PICK p \in PageSet : FirstFreePage(p) /\ used' = used \cup {p} /\ hint' = p + 1
    BY <1>3 DEF AllocPage
  <2>2. UNCHANGED <<heap, count, bytes, live>>
    BY <1>3 DEF AllocPage
  <2>3. /\ p + 1 \in 0 .. HighestPage
        /\ \A q \in PageSet : (q < p + 1 => q \in used \cup {p})
    BY <2>1, HintMoves DEF IInv
  <2>4. PageInv'
    BY <2>1, <2>2, <2>3 DEF IInv, PageInv, HeapPagesReserved, HintIsTight
  <2> QED BY <2>2, <2>4 DEF IInv, CountInv
<1>4. CASE TestPage
  <2>1. PICK p \in PageSet : FirstFreePage(p) /\ hint' = HintAfterFree(p, p + 1)
    BY <1>4 DEF TestPage
  <2>2. UNCHANGED <<heap, count, bytes, live, used>>
    BY <1>4 DEF TestPage
  <2>3. p \in Nat
    BY RegionAssumption DEF PageSet
  <2>4. hint' = p
    BY <2>1, <2>3 DEF HintAfterFree
  <2>5. p \in 0 .. HighestPage /\ \A q \in PageSet : q < p => q \in used
    BY <2>1, HintMoves DEF IInv
  <2>6. PageInv'
    BY <2>2, <2>4, <2>5 DEF IInv, PageInv, HeapPagesReserved, HintIsTight
  <2> QED BY <2>2, <2>6 DEF IInv, CountInv
<1>5. CASE UNCHANGED vars
  BY <1>5 DEF vars, IInv, PageInv, HeapPagesReserved, HintIsTight, CountInv
<1> QED BY <1>1, <1>2, <1>3, <1>4, <1>5 DEF Next

-----------------------------------------------------------------------------
(* Theorems *)

\* The heap is well formed, its blocks in use are those that callers hold, and
\* the page bitmap and its hint are right, after any sequence of calls.
THEOREM Invariance == Spec => []IInv
<1>1. Init => IInv
  BY InitGood
<1>2. IInv /\ [Next]_vars => IInv'
  BY StepGood
<1> QED BY <1>1, <1>2, PTL DEF Spec

\* The blocks tile the committed region: kfree's merge with the next block,
\* which does not check that the two are adjacent, never joins strangers.
THEOREM HeapIsTiled == Spec => []Tiled
<1>1. IInv => Tiled
  BY DEF IInv, Good, Shape, Tiled
<1> QED BY <1>1, Invariance, PTL

\* kfree and heap_grow coalesce completely: no two neighbours are free.
THEOREM FullyCoalesced == Spec => []Coalesced
<1>1. IInv => Coalesced
  BY DEF IInv, Good, Apart, Coalesced
<1> QED BY <1>1, Invariance, PTL

\* kmalloc never hands out memory that another caller holds, nor less than
\* was asked for.
THEOREM CallersKeepTheirs == Spec => []LiveIntact
<1>1. IInv => LiveIntact
  BY DEF IInv, Good, Held, LiveIntact
<1> QED BY <1>1, Invariance, PTL

\* kfree's tests of magic and free let an address pass only while a caller
\* holds the block there, however often blocks were merged and split before.
THEOREM FreesOnlyWhatIsHeld == Spec => []OnlyHeldIsFreed
<1>1. IInv => OnlyHeldIsFreed
  BY DEF IInv, Good, Held, OnlyHeldIsFreed
<1> QED BY <1>1, Invariance, PTL

\* pmm_alloc_page never hands out a page of the heap, and pmm_search_hint never
\* skips a free page.
THEOREM PagesAreAccounted == Spec => []PagesAccounted
<1>1. IInv => PagesAccounted
  BY DEF IInv, PageInv, PagesAccounted
<1> QED BY <1>1, Invariance, PTL

-----------------------------------------------------------------------------
(* The statistics *)

\* No operation changes the header of a block in use that it is not about.
LEMMA JoinsKeep ==
    ASSUME NEW h \in Heap, NEW i, NEW c \in Addr, c # h.list[i], h.mem[c].free = FALSE
    PROVE  JoinedNext(h, i).mem[c] = h.mem[c] /\ JoinedPrev(h, i).mem[c] = h.mem[c]
<1> DEFINE a == h.list[i]
           b == h.list[i + 1]
           p == h.list[i - 1]
<1>1. h.mem \in [Addr -> BlockHeader] /\ c # a
  BY DEF Heap
<1>2. JoinedNext(h, i).mem[c] = h.mem[c]
  <2>1. CASE i < Len(h.list) /\ h.mem[b].magic /\ h.mem[b].free
    <3>1. c # b
      BY <2>1
    <3>2. JoinedNext(h, i).mem = [h.mem EXCEPT ![a].size = @ + Header + h.mem[b].size, ![b] = Remnant]
      BY <2>1 DEF JoinedNext, Heap
    <3> HIDE DEF a, b
    <3> QED BY <1>1, <3>1, <3>2
  <2>2. CASE ~(i < Len(h.list) /\ h.mem[b].magic /\ h.mem[b].free)
    BY <2>2 DEF JoinedNext
  <2> QED BY <2>1, <2>2
<1>3. JoinedPrev(h, i).mem[c] = h.mem[c]
  <2>1. CASE i > 1 /\ h.mem[p].magic /\ h.mem[p].free /\ EndOf(h, p) = a
    <3>1. c # p
      BY <2>1
    <3>2. JoinedPrev(h, i).mem = [h.mem EXCEPT ![p].size = @ + Header + h.mem[a].size, ![a].size = 0]
      BY <2>1 DEF JoinedPrev, Heap
    <3> HIDE DEF a, p
    <3> QED BY <1>1, <3>1, <3>2
  <2>2. CASE ~(i > 1 /\ h.mem[p].magic /\ h.mem[p].free /\ EndOf(h, p) = a)
    BY <2>2 DEF JoinedPrev
  <2> QED BY <2>1, <2>2
<1> QED BY <1>2, <1>3

LEMMA FreedKeeps ==
    ASSUME NEW h, NEW l, Good(h, l), NEW i \in 1 .. Len(h.list),
           NEW c \in Addr, c # h.list[i], h.mem[c].free = FALSE
    PROVE  Freed(h, i).mem[c] = h.mem[c]
<1> DEFINE a == h.list[i]
           m == Marked(h, i)
           x == JoinedNext(m, i)
           k == [l EXCEPT ![h.list[i]] = 0]
<1>0. l \in [Addr -> Nat] /\ Shape(h) /\ Held(h, l) /\ Apart(h, {})
  BY DEF Good
<1>1. /\ Shape(m) /\ Held(m, k) /\ Apart(m, {i - 1, i}) /\ k \in [Addr -> Nat]
      /\ m.list = h.list /\ m.committed = h.committed /\ m.mem[h.list[i]].free = TRUE
  BY <1>0, Mark
<1>2. m.mem[c] = h.mem[c]
  <2>1. h.mem \in [Addr -> BlockHeader] /\ h \in Heap
    BY <1>0 DEF Shape, Heap
  <2>2. m.mem = [h.mem EXCEPT ![a].free = TRUE]
    BY <2>1 DEF Marked, Heap
  <2>3. c # a
    OBVIOUS
  <2> HIDE DEF m, a
  <2> QED BY <2>1, <2>2, <2>3
<1>3. Freed(h, i) = JoinedPrev(x, i)
  BY DEF Freed
<1> HIDE DEF m, k
<1>4. i \in 1 .. Len(m.list) /\ m.mem[m.list[i]].free = TRUE
  BY <1>1
<1>5. Shape(x) /\ x.list[i] = m.list[i]
  BY <1>1, <1>4, JoinNext
<1>6. m \in Heap /\ x \in Heap
  BY <1>1, <1>5 DEF Shape
<1>7. x.mem[c] = m.mem[c]
  <2>1. c \in Addr /\ c # m.list[i] /\ m.mem[c].free = FALSE
    BY <1>1, <1>2
  <2> QED BY <1>6, <2>1, JoinsKeep
<1> HIDE DEF x
<1>8. JoinedPrev(x, i).mem[c] = x.mem[c]
  <2>1. c \in Addr /\ c # x.list[i] /\ x.mem[c].free = FALSE
    BY <1>1, <1>2, <1>5, <1>7
  <2> QED BY <1>6, <2>1, JoinsKeep
<1> QED BY <1>2, <1>3, <1>7, <1>8

LEMMA GrownKeeps ==
    ASSUME NEW h, NEW l, Good(h, l), NEW size, NEW c \in Addr, l[c] > 0
    PROVE  Grown(h, size).mem[c] = h.mem[c]
<1> DEFINE new == h.committed
           last == h.list[Len(h.list)]
           joins == h.mem[last].free /\ EndOf(h, last) = new
<1>0. l \in [Addr -> Nat] /\ Shape(h) /\ Held(h, l) /\ Apart(h, {})
  BY DEF Good
<1>1. PICK k \in 1 .. Len(h.list) : h.list[k] = c
  BY <1>0 DEF Held
<1>2. ~h.mem[c].free /\ h.mem \in [Addr -> BlockHeader]
  BY <1>0, <1>1 DEF Held, Shape, Heap
<1>3. c # new
  <2>1. /\ c \in Nat /\ h.mem[c].size \in Nat /\ Header \in Nat \ {0} /\ new \in Nat
        /\ EndOf(h, c) = c + Header + h.mem[c].size /\ EndOf(h, c) <= new
    BY <1>0, <1>1, BlockIs
  <2> HIDE DEF EndOf, new
  <2>2. EndOf(h, c) \in Nat /\ c < EndOf(h, c)
    BY <2>1, EndAfter
  <2> QED BY <2>1, <2>2
<1>4. CASE joins
  <2>1. c # last
    BY <1>2, <1>4
  <2>2. Grown(h, size).mem = [h.mem EXCEPT ![last].size = @ + GrowBy(h, size), ![new] = Remnant]
    BY <1>4 DEF Grown
  <2> HIDE DEF last, new
  <2> QED BY <1>2, <1>3, <2>1, <2>2
<1>5. CASE ~joins
  <2>1. Grown(h, size).mem = [h.mem EXCEPT ![new] = BlockOf(GrowBy(h, size) - Header, TRUE)]
    BY <1>5 DEF Grown
  <2> HIDE DEF new
  <2> QED BY <1>2, <1>3, <2>1
<1> QED BY <1>4, <1>5

LEMMA TakenKeeps ==
    ASSUME NEW h, NEW l, Good(h, l), NEW i \in 1 .. Len(h.list), h.mem[h.list[i]].free = TRUE,
           NEW size \in Nat, NEW c \in Addr, l[c] > 0
    PROVE  Taken(h, i, size).mem[c] = h.mem[c]
<1> DEFINE a == h.list[i]
           x == h.mem[a].size
           r == a + Header + size
<1>0. l \in [Addr -> Nat] /\ Shape(h) /\ Held(h, l) /\ Apart(h, {})
  BY DEF Good
<1>1. PICK k \in 1 .. Len(h.list) : h.list[k] = c
  BY <1>0 DEF Held
<1>2. ~h.mem[c].free /\ h.mem \in [Addr -> BlockHeader] /\ c # a /\ h \in Heap
  BY <1>0, <1>1 DEF Held, Shape, Heap
<1>3. CASE x >= size + Header + MinSplit
  <2>1. /\ a \in Nat /\ x \in Nat /\ Header \in Nat \ {0} /\ MinSplit \in Nat \ {0}
        /\ EndOf(h, a) = a + Header + x
    BY <1>0, BlockIs, UnitAssumption
  <2>2. ~(a < c /\ c < EndOf(h, a))
    BY <1>0, <1>1, BlocksApart
  <2>3. c # r
    <3> DEFINE e == EndOf(h, a)
    <3>1. e = a + Header + x /\ ~(a < c /\ c < e)
      BY <2>1, <2>2
    <3> HIDE DEF a, x, e
    <3> QED BY <1>3, <2>1, <3>1
  <2>4. Taken(h, i, size).mem = [h.mem EXCEPT ![a] = BlockOf(size, FALSE),
                                              ![r] = BlockOf(x - size - Header, TRUE)]
    BY <1>2, <1>3 DEF Taken, Heap
  <2> HIDE DEF a, r, x
  <2> QED BY <1>2, <2>3, <2>4
<1>4. CASE ~(x >= size + Header + MinSplit)
  <2>1. Taken(h, i, size).mem = [h.mem EXCEPT ![a].free = FALSE]
    BY <1>2, <1>4 DEF Taken, Heap
  <2> HIDE DEF a
  <2> QED BY <1>2, <2>1
<1> QED BY <1>3, <1>4

LEMMA WrittenKeeps ==
    ASSUME NEW h, NEW l, Good(h, l), NEW i \in 1 .. Len(h.list), NEW fills \in BOOLEAN,
           NEW j \in 1 .. Len(h.list)
    PROVE  Written(h, h.list[i], fills).mem[h.list[j]] = h.mem[h.list[j]]
<1> DEFINE a == h.list[i]
           c == h.list[j]
<1>0. Shape(h)
  BY DEF Good
<1>1. c \in Addr /\ h \in Heap /\ ~(a < c /\ c < EndOf(h, a)) /\ a \in Nat /\ c \in Nat
  BY <1>0, BlockIs, BlocksApart DEF Shape
<1>2. Written(h, a, fills).mem = [b \in Addr |-> IF fills /\ b > a /\ b < EndOf(h, a) THEN NoHeader ELSE h.mem[b]]
  BY <1>1 DEF Written, Heap
<1> HIDE DEF a, c
<1>3. Written(h, a, fills).mem[c] = h.mem[c]
  BY <1>1, <1>2
<1> QED BY <1>3 DEF a, c

\* What a set of blocks weighs
Weights(h) == [a \in Addr |-> h.mem[a].size]

\* stat_alloc_bytes is the weight of the blocks that callers hold.
BytesInv == \E g : IsSum(g, Weights(heap), Addr) /\ bytes = g[HeldBy(live)]

LEMMA WeightsAre ==
    ASSUME NEW h, NEW l, Good(h, l)
    PROVE  Weights(h) \in [Addr -> Nat] /\ \E g : IsSum(g, Weights(h), Addr)
<1>1. \A a \in Addr : h.mem[a].size \in Nat
  <2>1. h.mem \in [Addr -> BlockHeader] /\ HeapMax \in Nat
    BY Sizes DEF Good, Shape, Heap
  <2> QED BY <2>1 DEF BlockHeader
<1>2. Weights(h) \in [Addr -> Nat]
  BY <1>1 DEF Weights
<1> QED BY <1>2, AddrIsFinite, SumExists

\* The sum when a caller gets block a
LEMMA Adding ==
    ASSUME Good(heap', live'), NEW a \in Addr, BytesInv,
           HeldBy(live') = HeldBy(live) \cup {a}, a \notin HeldBy(live),
           \A c \in HeldBy(live) : heap'.mem[c].size = heap.mem[c].size,
           bytes' = bytes + heap'.mem[a].size
    PROVE  BytesInv'
<1> DEFINE H == HeldBy(live)
<1>1. PICK g : IsSum(g, Weights(heap), Addr) /\ bytes = g[H]
  BY DEF BytesInv
<1>2. PICK f : IsSum(f, Weights(heap'), Addr)
  BY WeightsAre
<1>3. H \in SUBSET Addr /\ IsFiniteSet(H)
  BY AddrFinite DEF HeldBy
<1>4. \A c \in H : Weights(heap)[c] = Weights(heap')[c]
  BY <1>3 DEF Weights
<1>5. g[H] = f[H]
  BY <1>1, <1>2, <1>3, <1>4, SumSame
<1>6. f[H \cup {a}] = heap'.mem[a].size + f[H]
  <2>1. H \cup {a} \in SUBSET Addr /\ a \in H \cup {a} /\ (H \cup {a}) \ {a} = H
    BY <1>3
  <2>2. Weights(heap')[a] = heap'.mem[a].size
    BY DEF Weights
  <2> QED BY <1>2, <2>1, <2>2 DEF IsSum
<1>7. heap'.mem[a].size \in Nat /\ f[H] \in Nat
  <2>1. Weights(heap') \in [Addr -> Nat] /\ Weights(heap')[a] = heap'.mem[a].size
    BY WeightsAre DEF Weights
  <2> QED BY <1>2, <1>3, <2>1 DEF IsSum
<1>8. bytes' = f[H \cup {a}]
  BY <1>1, <1>5, <1>6, <1>7
<1> QED BY <1>2, <1>8 DEF BytesInv

\* The sum when a caller gives block a back
LEMMA Subtracting ==
    ASSUME Good(heap', live'), NEW a \in Addr, BytesInv,
           HeldBy(live') = HeldBy(live) \ {a}, a \in HeldBy(live), heap.mem[a].size \in Nat,
           \A c \in HeldBy(live) \ {a} : heap'.mem[c].size = heap.mem[c].size,
           bytes' = bytes - heap.mem[a].size
    PROVE  BytesInv'
<1> DEFINE H == HeldBy(live)
           R == HeldBy(live) \ {a}
<1>1. PICK g : IsSum(g, Weights(heap), Addr) /\ bytes = g[H]
  BY DEF BytesInv
<1>2. PICK f : IsSum(f, Weights(heap'), Addr)
  BY WeightsAre
<1>3. H \in SUBSET Addr /\ R \in SUBSET Addr /\ IsFiniteSet(R)
  BY AddrFinite, FS_RemoveElement DEF HeldBy
<1>4. \A c \in R : Weights(heap)[c] = Weights(heap')[c]
  BY <1>3 DEF Weights
<1> HIDE DEF R
<1>5. g[R] = f[R]
  BY <1>1, <1>2, <1>3, <1>4, SumSame
<1>6. g[H] = heap.mem[a].size + g[R]
  <2>1. Weights(heap)[a] = heap.mem[a].size
    BY DEF Weights
  <2> QED BY <1>1, <1>3, <2>1 DEF IsSum, R
<1>7. f[R] \in Nat
  BY <1>2, <1>3 DEF IsSum
<1>8. bytes' = f[R]
  BY <1>1, <1>5, <1>6, <1>7
<1> QED BY <1>2, <1>8 DEF BytesInv, R

\* A block is handed out, possibly after the heap has grown to h.
LEMMA GivingCounts ==
    ASSUME NEW h, Good(h, live), BytesInv, NEW size \in Nat, NEW req \in Nat \ {0}, req <= size,
           NEW fills \in BOOLEAN, FirstFit(h, size) # 0, Give(h, FirstFit(h, size), size, req, fills),
           \A c \in HeldBy(live) : h.mem[c] = heap.mem[c], Good(heap', live')
    PROVE  BytesInv'
<1> DEFINE i == FirstFit(h, size)
           a == h.list[i]
           g == Taken(h, i, size)
           q == [live EXCEPT ![a] = req]
<1>1. i \in 1 .. Len(h.list) /\ h.mem[a].free = TRUE /\ h.mem[a].size >= size
  BY Fits
<1>2. heap' = Written(g, a, fills) /\ live' = q /\ bytes' = bytes + g.mem[a].size
  BY DEF Give
<1> HIDE DEF i
<1>3. Good(g, q) /\ i \in 1 .. Len(g.list) /\ g.list[i] = a
  <2>1. /\ Good(Taken(h, i, size), [live EXCEPT ![h.list[i]] = req])
        /\ i \in 1 .. Len(Taken(h, i, size).list) /\ Taken(h, i, size).list[i] = h.list[i]
        /\ Taken(h, i, size).committed = h.committed
    BY <1>1, Take
  <2> QED BY <2>1
<1>4. a \in Addr /\ live[a] = 0 /\ live \in [Addr -> Nat]
  <2>1. a \in Addr
    BY <1>1, BlockIs DEF Good
  <2>2. ~(live[a] > 0)
    BY <1>1 DEF Good, Held
  <2> QED BY <2>1, <2>2 DEF Good
<1>5. q[a] = req /\ \A c \in Addr \ {a} : q[c] = live[c]
  BY <1>4
<1> HIDE DEF q
<1>6. HeldBy(live') = HeldBy(live) \cup {a} /\ a \notin HeldBy(live)
  BY <1>2, <1>4, <1>5 DEF HeldBy
<1>7. \A c \in HeldBy(live) : g.mem[c] = h.mem[c]
  <2> SUFFICES ASSUME NEW c \in HeldBy(live) PROVE Taken(h, i, size).mem[c] = h.mem[c]
    OBVIOUS
  <2>1. c \in Addr /\ live[c] > 0 /\ h.mem[h.list[i]].free = TRUE
    BY <1>1 DEF HeldBy
  <2> QED BY <1>1, <2>1, TakenKeeps
<1> HIDE DEF g
<1>8. \A j \in 1 .. Len(g.list) : heap'.mem[g.list[j]] = g.mem[g.list[j]]
  <2>1. heap' = Written(g, g.list[i], fills)
    BY <1>2, <1>3
  <2> QED BY <1>3, <2>1, WrittenKeeps
<1>9. heap'.mem[a] = g.mem[a]
  BY <1>3, <1>8
<1>10. \A c \in HeldBy(live) : heap'.mem[c] = heap.mem[c]
  <2> SUFFICES ASSUME NEW c \in HeldBy(live) PROVE heap'.mem[c] = heap.mem[c]
    OBVIOUS
  <2>1. c \in Addr /\ q[c] > 0
    BY <1>2, <1>6 DEF HeldBy
  <2>2. PICK j \in 1 .. Len(g.list) : g.list[j] = c
    BY <1>3, <2>1 DEF Good, Held
  <2> QED BY <1>7, <1>8, <2>2
<1> HIDE DEF a
<1>11. bytes' = bytes + heap'.mem[a].size
  BY <1>2, <1>9
<1> QED BY <1>4, <1>6, <1>10, <1>11, Adding

LEMMA BytesStep == IInv /\ IInv' /\ BytesInv /\ [Next]_vars => BytesInv'
<1> SUFFICES ASSUME IInv, IInv', BytesInv, [Next]_vars PROVE BytesInv'
  OBVIOUS
<1>0. Good(heap, live) /\ Good(heap', live')
  BY DEF IInv
<1>1. ASSUME NEW req \in Requests, NEW fills \in BOOLEAN, Kmalloc(req, fills) PROVE BytesInv'
  <2> DEFINE size == RoundUp(req, Align)
             h == Grown(heap, size)
  <2>1. req \in Nat \ {0} /\ Align \in Nat \ {0}
    BY RequestsAssumption, UnitAssumption
  <2>2. size \in Nat /\ req <= size
    <3>1. size \in Nat /\ size >= req
      BY <2>1, RoundUpIs
    <3> HIDE DEF size
    <3> QED BY <2>1, <3>1
  <2>3. \/ FirstFit(heap, size) # 0 /\ Give(heap, FirstFit(heap, size), size, req, fills)
        \/ CanGrow(heap, size) /\ FirstFit(h, size) # 0 /\ Give(h, FirstFit(h, size), size, req, fills)
        \/ CanGrow(heap, size) /\ heap' = h /\ UNCHANGED <<live, bytes>>
    BY <1>1 DEF Kmalloc
  <2> HIDE DEF size
  <2>4. CASE FirstFit(heap, size) # 0 /\ Give(heap, FirstFit(heap, size), size, req, fills)
    BY <1>0, <2>1, <2>2, <2>4, GivingCounts
  <2>5. \A c \in HeldBy(live) : h.mem[c] = heap.mem[c]
    BY <1>0, GrownKeeps DEF HeldBy
  <2>6. CASE CanGrow(heap, size) /\ FirstFit(h, size) # 0 /\ Give(h, FirstFit(h, size), size, req, fills)
    <3>1. Good(h, live)
      BY <1>0, <2>2, <2>6, Grow
    <3> HIDE DEF h
    <3> QED BY <1>0, <2>1, <2>2, <2>5, <2>6, <3>1, GivingCounts
  <2>7. CASE CanGrow(heap, size) /\ heap' = h /\ UNCHANGED <<live, bytes>>
    <3> HIDE DEF h
    <3>1. PICK g : IsSum(g, Weights(heap), Addr) /\ bytes = g[HeldBy(live)]
      BY DEF BytesInv
    <3>2. PICK f : IsSum(f, Weights(heap'), Addr)
      BY <1>0, WeightsAre
    <3>3. HeldBy(live) \in SUBSET Addr /\ IsFiniteSet(HeldBy(live))
      BY AddrFinite DEF HeldBy
    <3>4. \A c \in HeldBy(live) : Weights(heap)[c] = Weights(heap')[c]
      BY <2>5, <2>7, <3>3 DEF Weights
    <3>5. g[HeldBy(live)] = f[HeldBy(live)]
      BY <3>1, <3>2, <3>3, <3>4, SumSame
    <3> QED BY <2>7, <3>1, <3>2, <3>5 DEF BytesInv
  <2> QED BY <2>3, <2>4, <2>6, <2>7
<1>2. ASSUME NEW a \in Addr, Kfree(a) PROVE BytesInv'
  <2>1. PICK i \in 1 .. Len(heap.list) : heap.list[i] = a /\ heap' = Freed(heap, i)
    BY <1>2 DEF Kfree
  <2>2. live' = [live EXCEPT ![a] = 0] /\ bytes' = bytes - heap.mem[a].size
    BY <1>2 DEF Kfree
  <2>3. live[a] > 0 /\ live \in [Addr -> Nat]
    BY <1>0, <1>2 DEF Kfree, Good, Held
  <2>4. live'[a] = 0 /\ \A c \in Addr \ {a} : live'[c] = live[c]
    BY <2>2, <2>3
  <2>5. HeldBy(live') = HeldBy(live) \ {a} /\ a \in HeldBy(live)
    BY <2>3, <2>4 DEF HeldBy
  <2>6. heap.mem[a].size \in Nat
    BY <1>0, <2>1, BlockIs DEF Good
  <2>7. ASSUME NEW c \in HeldBy(live) \ {a} PROVE heap'.mem[c] = heap.mem[c]
    <3>1. c \in Addr /\ c # heap.list[i] /\ live[c] > 0
      BY <2>1 DEF HeldBy
    <3>2. PICK k \in 1 .. Len(heap.list) : heap.list[k] = c
      BY <1>0, <3>1 DEF Good, Held
    <3>3. heap.mem[c].free \in BOOLEAN /\ ~heap.mem[c].free
      BY <1>0, <3>1, <3>2, BlockIs DEF Good, Held
    <3>4. heap.mem[c].free = FALSE
      BY <3>3
    <3> QED BY <1>0, <2>1, <3>1, <3>4, FreedKeeps
  <2> QED BY <1>0, <2>2, <2>5, <2>6, <2>7, Subtracting
<1>3. CASE AllocPage \/ TestPage \/ UNCHANGED vars
  BY <1>3 DEF AllocPage, TestPage, vars, BytesInv
<1> QED BY <1>1, <1>2, <1>3 DEF Next

LEMMA BytesInit == Init => BytesInv
<1> SUFFICES ASSUME Init PROVE BytesInv
  OBVIOUS
<1>1. Good(heap, live)
  BY InitGood DEF IInv
<1>2. PICK g : IsSum(g, Weights(heap), Addr)
  BY <1>1, WeightsAre
<1>3. HeldBy(live) = {}
  BY DEF Init, HeldBy
<1> QED BY <1>2, <1>3 DEF BytesInv, Init, IsSum

\* The sum over the blocks that callers hold is the sum over the positions of
\* the list whose block is in use.
LEMMA BytesFollow == IInv /\ BytesInv => bytes = MapThenSumSet(LAMBDA i : heap.mem[heap.list[i]].size, InUse)
<1> SUFFICES ASSUME IInv, BytesInv
             PROVE  bytes = MapThenSumSet(LAMBDA i : heap.mem[heap.list[i]].size, InUse)
  OBVIOUS
<1> DEFINE n == Len(heap.list)
           S == InUse
           Blocks(P) == {heap.list[i] : i \in P}
<1>1. PICK g : IsSum(g, Weights(heap), Addr) /\ bytes = g[HeldBy(live)]
  BY DEF BytesInv
<1> DEFINE w == [i \in S |-> heap.mem[heap.list[i]].size]
           f == [P \in SUBSET S |-> g[Blocks(P)]]
<1>2. Shape(heap) /\ Held(heap, live)
  BY DEF IInv, Good
<1>3. S \in SUBSET (1 .. n) /\ n \in Nat /\ IsFiniteSet(S)
  <2>1. S \in SUBSET (1 .. n) /\ n \in Nat
    BY <1>2 DEF InUse, Shape
  <2>2. IsFiniteSet(1 .. n)
    BY <2>1, FS_Interval
  <2> QED BY <2>1, <2>2, FS_Subset
<1>4. \A i \in S : heap.list[i] \in Addr
  BY <1>2, <1>3, BlockIs
<1>5. \A i, j \in S : heap.list[i] = heap.list[j] => i = j
  BY <1>2, <1>3, BlocksApart
<1>6. Blocks(S) = HeldBy(live)
  <2>1. \A i \in 1 .. n : i \in S <=> live[heap.list[i]] > 0
    BY <1>2 DEF InUse, Held
  <2>2. \A a \in HeldBy(live) : a \in Addr /\ \E i \in 1 .. n : heap.list[i] = a /\ live[a] > 0
    BY <1>2 DEF HeldBy, Held
  <2> HIDE DEF S, n
  <2> QED BY <1>3, <1>4, <2>1, <2>2 DEF HeldBy
<1> HIDE DEF S, n
<1>7. IsSum(f, w, S)
  <2>1. \A P \in SUBSET S : Blocks(P) \in SUBSET Addr
    BY <1>4
  <2>2. f \in [SUBSET S -> Nat]
    <3>1. \A T \in SUBSET Addr : g[T] \in Nat
      BY <1>1 DEF IsSum
    <3> QED BY <2>1, <3>1
  <2>3. f[{}] = 0
    <3>1. Blocks({}) = {}
      OBVIOUS
    <3> HIDE DEF Blocks
    <3> QED BY <1>1, <3>1 DEF IsSum
  <2>4. ASSUME NEW P \in SUBSET S, NEW i \in P PROVE f[P] = w[i] + f[P \ {i}]
    <3> DEFINE a == heap.list[i]
    <3>1. Blocks(P \ {i}) = Blocks(P) \ {a}
      BY <1>5
    <3>2. Blocks(P) \in SUBSET Addr /\ a \in Blocks(P) /\ a \in Addr
      BY <1>4, <2>1
    <3>3. w[i] = Weights(heap)[a]
      BY <3>2 DEF Weights
    <3>4. f[P] = g[Blocks(P)] /\ f[P \ {i}] = g[Blocks(P \ {i})]
      OBVIOUS
    <3> HIDE DEF Blocks, a, f, w
    <3>5. g[Blocks(P)] = Weights(heap)[a] + g[Blocks(P) \ {a}]
      BY <1>1, <3>2 DEF IsSum
    <3> QED BY <3>1, <3>3, <3>4, <3>5
  <2> HIDE DEF f, w
  <2> QED BY <2>2, <2>3, <2>4 DEF IsSum
<1>8. f[S] = bytes
  <2>1. f[S] = g[Blocks(S)]
    OBVIOUS
  <2> HIDE DEF f, Blocks
  <2> QED BY <1>1, <1>6, <2>1
<1>9. \A i \in S : w[i] = heap.mem[heap.list[i]].size
  OBVIOUS
<1> HIDE DEF f, w
<1>10. TotalSize(heap.mem, heap.list, S) = f[S]
  <2> DEFINE m == heap.mem
             o == heap.list
  <2>1. IsFiniteSet(S) /\ (\A i \in S : w[i] = m[o[i]].size) /\ IsSum(f, w, S)
    BY <1>3, <1>7, <1>9
  <2> HIDE DEF m, o
  <2>2. TotalSize(m, o, S) = f[S]
    BY ONLY <2>1, FoldIsSum
  <2> QED BY <2>2 DEF m, o
<1>11. TotalSize(heap.mem, heap.list, S) = MapThenSumSet(LAMBDA i : heap.mem[heap.list[i]].size, S)
  BY DEF TotalSize
<1> QED BY <1>8, <1>10, <1>11 DEF S

\* stat_alloc_count is the number of positions of the list whose block is in use.
LEMMA CountFollows == IInv => CountMatch
<1> SUFFICES ASSUME IInv PROVE CountMatch
  OBVIOUS
<1> DEFINE n == Len(heap.list)
           S == InUse
           T == HeldBy(live)
           f == [i \in S |-> heap.list[i]]
<1>1. Shape(heap) /\ Held(heap, live)
  BY DEF IInv, Good
<1>2. \A i \in 1 .. n : heap.list[i] \in Addr
  BY <1>1, BlockIs
<1>3. \A i, j \in 1 .. n : heap.list[i] = heap.list[j] => i = j
  BY <1>1, BlocksApart
<1>4. S \in SUBSET (1 .. n) /\ n \in Nat
  BY <1>1 DEF InUse, Shape
<1>5. \A i \in 1 .. n : i \in S <=> heap.list[i] \in T
  BY <1>1, <1>2 DEF InUse, HeldBy, Held
<1>6. \A a \in T : \E i \in S : heap.list[i] = a
  <2> SUFFICES ASSUME NEW a \in T PROVE \E i \in S : heap.list[i] = a
    OBVIOUS
  <2>1. PICK i \in 1 .. n : heap.list[i] = a
    BY <1>1 DEF HeldBy, Held
  <2> QED BY <1>5, <2>1
<1> HIDE DEF S, T
<1>7. f \in Bijection(S, T)
  <2>1. f \in [S -> T]
    BY <1>4, <1>5
  <2>2. \A i, j \in S : f[i] = f[j] => i = j
    BY <1>3, <1>4
  <2>3. \A a \in T : \E i \in S : f[i] = a
    BY <1>6
  <2> QED BY <2>1, <2>2, <2>3 DEF Bijection, Injection, Surjection, IsInjective
<1>8. ExistsBijection(S, T)
  BY <1>7 DEF ExistsBijection
<1>9. IsFiniteSet(S)
  <2>1. IsFiniteSet(1 .. n)
    BY <1>4, FS_Interval
  <2> QED BY <1>4, <2>1, FS_Subset
<1>10. Cardinality(T) = Cardinality(S)
  BY <1>8, <1>9, FS_Bijection
<1> QED BY <1>10 DEF IInv, CountInv, CountMatch, S, T

\* heapinfo's statistics are true: stat_alloc_count and stat_alloc_bytes, which
\* kmalloc and kfree adjust by what one block is at that moment, are the number
\* and the total size of the blocks in use, however blocks were split, merged
\* and grown in between.
THEOREM StatsAreTrue == Spec => []StatsMatch
<1>1. Spec => []BytesInv
  BY BytesInit, BytesStep, Invariance, PTL DEF Spec
<1>2. IInv /\ BytesInv => StatsMatch
  BY CountFollows, BytesFollow DEF StatsMatch
<1> QED BY <1>1, <1>2, Invariance, PTL

\* Heap, page bitmap and statistics keep their types; in particular neither
\* counter is ever decremented below 0, where the code's would wrap around.
THEOREM TypeCorrect == Spec => []TypeOK
<1>1. Spec => []BytesInv
  BY BytesInit, BytesStep, Invariance, PTL DEF Spec
<1>2. IInv /\ BytesInv => TypeOK
  <2> SUFFICES ASSUME IInv, BytesInv PROVE TypeOK
    OBVIOUS
  <2>1. count \in Nat
    BY AddrFinite, FS_CardinalityType DEF IInv, CountInv
  <2>2. bytes \in Nat
    <3>1. HeldBy(live) \in SUBSET Addr
      BY DEF HeldBy
    <3> QED BY <3>1 DEF BytesInv, IsSum
  <2>3. heap \in Heap /\ live \in [Addr -> Nat]
    BY DEF IInv, Good, Shape
  <2> QED BY <2>1, <2>2, <2>3 DEF TypeOK, IInv, PageInv, Heap
<1> QED BY <1>1, <1>2, Invariance, PTL

-----------------------------------------------------------------------------
(* The heap implements Allocator *)

LEMMA ApartSizes ==
    ASSUME NEW a \in Nat, NEW b \in Nat, NEW w \in Nat \ {0}, NEW x \in Nat, NEW y \in Nat,
           NEW m \in Nat, NEW n \in Nat, m <= x, n <= y, a + w + x <= b \/ b + w + y <= a
    PROVE  (a + w) .. (a + w + m - 1) \cap (b + w) .. (b + w + n - 1) = {}
OBVIOUS

LEMMA InsideSizes ==
    ASSUME NEW a \in Nat, NEW w \in Nat \ {0}, NEW x \in Nat, NEW m \in Nat \ {0}, NEW max \in Nat,
           m <= x, a + w + x <= max
    PROVE  a + w \in 0 .. max - 1 /\ (a + w) .. (a + w + m - 1) \subseteq 0 .. max - 1
OBVIOUS

\* kmalloc's block, behind its header, shares nothing with what others hold.
LEMMA GivesFreeMemory ==
    ASSUME NEW h, Good(h, live), NEW size \in Nat, NEW req \in Requests, req <= size,
           NEW fills \in BOOLEAN, FirstFit(h, size) # 0, Give(h, FirstFit(h, size), size, req, fills)
    PROVE  Promise!Allocate
<1> DEFINE i == FirstFit(h, size)
           a == h.list[i]
           r == [at |-> a + Header, len |-> req]
<1>1. i \in 1 .. Len(h.list) /\ h.mem[a].free = TRUE /\ h.mem[a].size >= size
  BY Fits
<1>2. live' = [live EXCEPT ![a] = req]
  BY DEF Give
<1> HIDE DEF i
<1>3. /\ Shape(h) /\ Held(h, live) /\ live \in [Addr -> Nat] /\ req \in Nat \ {0}
  BY RequestsAssumption DEF Good
<1>4. /\ a \in Addr /\ a \in Nat /\ h.mem[a].size \in Nat /\ Header \in Nat \ {0} /\ HeapMax \in Nat
      /\ EndOf(h, a) = a + Header + h.mem[a].size /\ EndOf(h, a) <= h.committed
      /\ h.committed <= HeapMax /\ h.committed \in Nat
  BY <1>1, <1>3, BlockIs
<1>5. ~(live[a] > 0)
  BY <1>1, <1>3 DEF Held
<1>6. r.at = a + Header /\ r.len = req
  OBVIOUS
<1>7. r.at \in 0 .. HeapMax - 1 /\ r.at .. r.at + r.len - 1 \subseteq 0 .. HeapMax - 1
  <2> DEFINE x == h.mem[a].size
  <2>1. req <= x /\ a + Header + x <= HeapMax /\ x \in Nat /\ a \in Nat
    <3>1. x >= size /\ x \in Nat
      BY <1>1, <1>4
    <3>2. a + Header + x <= h.committed /\ a + Header + x \in Nat
      BY <1>4
    <3> HIDE DEF x, a
    <3> QED BY <1>3, <1>4, <3>1, <3>2
  <2> HIDE DEF x, a
  <2>2. a + Header \in 0 .. HeapMax - 1 /\ (a + Header) .. (a + Header + req - 1) \subseteq 0 .. HeapMax - 1
    BY <1>3, <1>4, <2>1, InsideSizes
  <2> QED BY <1>6, <2>2
<1>8. ASSUME NEW q \in Regions PROVE (q.at .. q.at + q.len - 1) \cap (r.at .. r.at + r.len - 1) = {}
  <2>1. PICK c \in Addr : live[c] > 0 /\ q = [at |-> c + Header, len |-> live[c]]
    BY <1>8 DEF Regions
  <2>2. PICK j \in 1 .. Len(h.list) : h.list[j] = c
    BY <1>3, <2>1 DEF Held
  <2>3. h.mem[c].size >= live[c] /\ live[c] \in Nat
    BY <1>3, <2>1 DEF Held
  <2>4. /\ c \in Nat /\ h.mem[c].size \in Nat /\ EndOf(h, c) = c + Header + h.mem[c].size
    BY <1>3, <2>2, BlockIs
  <2>5. i # j /\ (i < j \/ j < i)
    <3>1. i # j
      BY <1>5, <2>1, <2>2
    <3> QED BY <1>1, <3>1
  <2>6. EndOf(h, a) <= c \/ EndOf(h, c) <= a
    BY <1>1, <1>3, <2>2, <2>5 DEF Shape
  <2> DEFINE x == h.mem[a].size
             y == h.mem[c].size
             n == live[c]
  <2>7. /\ a + Header + x <= c \/ c + Header + y <= a
        /\ x \in Nat /\ y \in Nat /\ n \in Nat /\ n <= y /\ a \in Nat /\ x >= size
    BY <1>1, <1>4, <2>3, <2>4, <2>6
  <2> HIDE DEF x, y, n, a
  <2>8. req <= x
    BY <1>3, <2>7
  <2>9. (c + Header) .. (c + Header + n - 1) \cap (a + Header) .. (a + Header + req - 1) = {}
    BY <1>3, <1>4, <2>4, <2>7, <2>8, ApartSizes
  <2> QED BY <1>6, <2>1, <2>9 DEF n
<1>9. Regions' = Regions \cup {r}
  <2>1. live'[a] = req /\ live' \in [Addr -> Nat] /\ \A c \in Addr \ {a} : live'[c] = live[c]
    BY <1>2, <1>3, <1>4
  <2>2. req > 0
    BY <1>3
  <2>3. a \in Addr
    BY <1>4
  <2> HIDE DEF a
  <2>4. r \in Regions'
    BY <2>1, <2>2, <2>3 DEF Regions
  <2>5. ASSUME NEW c \in Addr, live'[c] > 0
        PROVE  [at |-> c + Header, len |-> live'[c]] \in Regions \cup {r}
    <3>1. CASE c = a
      BY <2>1, <3>1
    <3>2. CASE c # a
      BY <2>1, <2>5, <3>2 DEF Regions
    <3> QED BY <3>1, <3>2
  <2>6. ASSUME NEW c \in Addr, live[c] > 0
        PROVE  [at |-> c + Header, len |-> live[c]] \in Regions'
    <3>1. c # a
      BY <1>5, <2>6
    <3>2. live'[c] = live[c]
      BY <2>1, <3>1
    <3> QED BY <2>6, <3>2 DEF Regions
  <2>7. Regions' \subseteq Regions \cup {r}
    BY <2>5 DEF Regions
  <2>8. Regions \subseteq Regions'
    BY <2>6 DEF Regions
  <2> QED BY <2>4, <2>7, <2>8
<1> HIDE DEF r
<1>10. r = [at |-> r.at, len |-> r.len] /\ r.len \in Requests
  BY DEF r
<1> QED BY <1>7, <1>8, <1>9, <1>10 DEF Promise!Allocate, Promise!Managed, Promise!Occupies

\* kfree takes back the one region whose block it is given.
LEMMA FreesOne ==
    ASSUME Good(heap, live), NEW a \in Addr, Kfree(a)
    PROVE  Promise!Release
<1> DEFINE r == [at |-> a + Header, len |-> live[a]]
<1>1. live[a] > 0 /\ live \in [Addr -> Nat]
  BY DEF Kfree, Good, Held
<1>2. live'[a] = 0 /\ \A c \in Addr \ {a} : live'[c] = live[c]
  BY <1>1 DEF Kfree
<1>3. \A c \in Addr \ {a} : c + Header # a + Header
  BY UnitAssumption, Sizes DEF Addr
<1>4. r \in Regions
  BY <1>1 DEF Regions
<1>5. Regions' = Regions \ {r}
  BY <1>1, <1>2, <1>3 DEF Regions
<1> QED BY <1>4, <1>5 DEF Promise!Release

\* kmalloc, kfree and heap_grow implement an allocator: memory handed out is
\* disjoint from all that is held, for every size of heap, header and request.
THEOREM HeapImplementsAllocator == Spec => IsAllocator
<1>1. Init => Promise!Init
  BY DEF Init, Promise!Init, Regions
<1>2. IInv /\ [Next]_vars => [Promise!Next]_Regions
  <2> SUFFICES ASSUME IInv, [Next]_vars PROVE [Promise!Next]_Regions
    OBVIOUS
  <2>1. Good(heap, live)
    BY DEF IInv
  <2>2. ASSUME UNCHANGED live PROVE [Promise!Next]_Regions
    BY <2>2 DEF Regions
  <2>3. ASSUME NEW req \in Requests, NEW fills \in BOOLEAN, Kmalloc(req, fills)
        PROVE  [Promise!Next]_Regions
    <3> DEFINE size == RoundUp(req, Align)
               h == Grown(heap, size)
    <3>1. size \in Nat /\ req <= size
      <4>1. req \in Nat /\ Align \in Nat \ {0}
        BY RequestsAssumption, UnitAssumption
      <4>2. size \in Nat /\ size >= req
        BY <4>1, RoundUpIs
      <4> HIDE DEF size
      <4> QED BY <4>1, <4>2
    <3>2. CASE FirstFit(heap, size) # 0 /\ Give(heap, FirstFit(heap, size), size, req, fills)
      <4> HIDE DEF size
      <4> QED BY <2>1, <3>1, <3>2, GivesFreeMemory DEF Promise!Next
    <3>3. CASE CanGrow(heap, size) /\ FirstFit(h, size) # 0 /\ Give(h, FirstFit(h, size), size, req, fills)
      <4> HIDE DEF size
      <4>1. Good(h, live)
        BY <2>1, <3>1, <3>3, Grow
      <4> HIDE DEF h
      <4> QED BY <3>1, <3>3, <4>1, GivesFreeMemory DEF Promise!Next
    <3> QED BY <2>2, <2>3, <3>2, <3>3 DEF Kmalloc
  <2>4. ASSUME NEW a \in Addr, Kfree(a) PROVE [Promise!Next]_Regions
    BY <2>1, <2>4, FreesOne DEF Promise!Next
  <2> QED BY <2>2, <2>3, <2>4 DEF Next, AllocPage, TestPage, vars
<1> QED BY <1>1, <1>2, Invariance, PTL DEF Spec, IsAllocator, Promise!Spec
=============================================================================
