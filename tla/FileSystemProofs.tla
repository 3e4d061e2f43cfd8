-------------------------- MODULE FileSystemProofs --------------------------
(***************************************************************************)
(* Proofs about FileSystem, for every set of names and contents, every     *)
(* number of entries and every depth of paths: the entries form a tree,    *)
(* and a path names at most one of them.                                   *)
(***************************************************************************)
EXTENDS FileSystem, SequenceTheorems, WellFoundedInduction, TLAPS

-----------------------------------------------------------------------------
(* The longest prefix that does not end in a slash *)

\* A set of numbers with a bound has a greatest one.
LEMMA GreatestExists ==
    ASSUME NEW n \in Nat, NEW S \in SUBSET (0 .. n), S # {}
    PROVE  \E x \in S : \A y \in S : x >= y
<1> DEFINE R == OpToRel(<, Nat)
           T == {u \in Nat : \A y \in S : y <= u}
<1>1. IsWellFoundedOn(R, Nat)
  BY NatLessThanWellFounded
<1>2. T \subseteq Nat /\ T # {}
  BY n \in T
<1> HIDE DEF R, T
<1>3. PICK u \in T : \A v \in T : <<v, u>> \notin R
  BY <1>1, <1>2, WFMin
<1>4. u \in Nat /\ \A y \in S : y <= u
  BY DEF T
<1>5. u \in S
  <2> SUFFICES ASSUME u \notin S PROVE FALSE
    OBVIOUS
  <2>1. \A y \in S : y \in Nat /\ y < u
    BY <1>4
  <2>2. u - 1 \in T
    <3>1. PICK y \in S : TRUE
      OBVIOUS
    <3>2. u - 1 \in Nat
      BY <1>4, <2>1, <3>1
    <3>3. \A z \in S : z <= u - 1
      BY <1>4, <2>1
    <3> QED BY <3>2, <3>3 DEF T
  <2>3. <<u - 1, u>> \in R
    BY <1>4, <2>2 DEF R, OpToRel, T
  <2> QED BY <1>3, <2>2, <2>3
<1> QED BY <1>4, <1>5

\* A path is a sequence of components with a bound on its length.
LEMMA PathIsSeq ==
    ASSUME NEW n \in Nat, NEW p
    PROVE  p \in PathOf(n) <=> p \in Seq(Component) /\ Len(p) \in 1 .. n
<1>1. ASSUME p \in PathOf(n) PROVE p \in Seq(Component) /\ Len(p) \in 1 .. n
  <2>1. PICK k \in 1 .. n : p \in [1 .. k -> Component]
    BY <1>1 DEF PathOf
  <2>2. p \in Seq(Component)
    BY <2>1, SeqDef
  <2>3. Len(p) = k
    BY <2>1
  <2> QED BY <2>2, <2>3
<1>2. ASSUME p \in Seq(Component), Len(p) \in 1 .. n PROVE p \in PathOf(n)
  <2>1. p \in [1 .. Len(p) -> Component]
    BY <1>2, LenProperties
  <2> QED BY <1>2, <2>1 DEF PathOf
<1> QED BY <1>1, <1>2

LEMMA RootIsPath == Root \in Path /\ Root \in Seq(Component) /\ Len(Root) = 1 /\ Root[1] = NoName
<1>1. NoName \in Component
  BY DEF Component
<1>2. <<NoName>> \in Seq(Component) /\ Len(<<NoName>>) = 1 /\ <<NoName>>[1] = NoName
  BY <1>1
<1>3. 1 \in 1 .. MaxDepth /\ MaxDepth \in Nat
  BY FilesAssumption
<1>4. <<NoName>> \in PathOf(MaxDepth)
  BY <1>2, <1>3, PathIsSeq
<1> QED BY <1>2, <1>4 DEF Root, Path

\* normalize_path cuts off what follows the last proper component.
LEMMA NormalizedIs ==
    ASSUME NEW p \in Seq(Component), Len(p) \in Nat \ {0}
    PROVE  /\ Normalized(p) \in Seq(Component)
           /\ Len(Normalized(p)) \in 1 .. Len(p)
           /\ (\A k \in 1 .. Len(p) : p[k] # NoName) => Normalized(p) = p
<1> DEFINE S == {1} \cup {i \in 1 .. Len(p) : p[i] # NoName}
           m == Max(S)
<1>1. S \in SUBSET (0 .. Len(p)) /\ S # {} /\ S \subseteq 1 .. Len(p)
  OBVIOUS
<1>2. \E x \in S : \A y \in S : x >= y
  <2> HIDE DEF S
  <2> QED BY <1>1, GreatestExists
<1>3. m \in S /\ \A y \in S : m >= y
  <2> HIDE DEF S
  <2> QED BY <1>2 DEF Max
<1>4. m \in 1 .. Len(p) /\ Normalized(p) = SubSeq(p, 1, m)
  BY <1>1, <1>3 DEF Normalized
<1>5. ASSUME \A k \in 1 .. Len(p) : p[k] # NoName PROVE m = Len(p)
  <2>1. Len(p) \in S
    BY <1>5
  <2> HIDE DEF S
  <2> QED BY <1>3, <1>4, <2>1
<1> HIDE DEF S, m
<1>6. \A i \in 1 .. m : p[i] \in Component
  BY <1>4, ElementOfSeq
<1>7. SubSeq(p, 1, m) \in Seq(Component) /\ Len(SubSeq(p, 1, m)) = m
  BY <1>4, <1>6, SubSeqProperties
<1>8. m = Len(p) => SubSeq(p, 1, m) = p
  BY SubSeqFull
<1> QED BY <1>4, <1>5, <1>7, <1>8

\* split_path yields a path and a component.
LEMMA SplitTypes ==
    ASSUME NEW p \in Path
    PROVE  Normalized(p) \in Path /\ ParentOf(p) \in Path /\ NameOf(p) \in Component
<1> DEFINE n == Normalized(p)
<1>1. p \in Seq(Component) /\ Len(p) \in 1 .. MaxDepth
  BY PathIsSeq, FilesAssumption DEF Path
<1>2. n \in Seq(Component) /\ Len(n) \in 1 .. MaxDepth
  BY <1>1, NormalizedIs, FilesAssumption
<1>3. n \in Path
  BY <1>2, PathIsSeq, FilesAssumption DEF Path
<1>4. NameOf(p) = n[Len(n)] /\ ParentOf(p) = IF Len(n) = 1 THEN Root ELSE SubSeq(n, 1, Len(n) - 1)
  BY DEF NameOf, ParentOf
<1> HIDE DEF n
<1>5. n[Len(n)] \in Component
  BY <1>2, ElementOfSeq
<1>6. Len(n) # 1 => SubSeq(n, 1, Len(n) - 1) \in Path
  <2> SUFFICES ASSUME Len(n) # 1 PROVE SubSeq(n, 1, Len(n) - 1) \in Path
    OBVIOUS
  <2> DEFINE k == Len(n)
  <2>b. k \in 1 .. MaxDepth /\ k # 1 /\ MaxDepth \in Nat
    BY <1>2, FilesAssumption
  <2> HIDE DEF k
  <2>c. k - 1 \in 1 .. MaxDepth /\ 1 .. k - 1 \subseteq 1 .. k
    BY <2>b
  <2>0. Len(n) - 1 \in 1 .. MaxDepth /\ 1 .. Len(n) - 1 \subseteq 1 .. Len(n) /\ MaxDepth \in Nat
    BY <2>b, <2>c DEF k
  <2>a. \A i \in 1 .. Len(n) : n[i] \in Component
    BY <1>2, ElementOfSeq
  <2>1. Len(n) - 1 \in 1 .. MaxDepth /\ \A i \in 1 .. Len(n) - 1 : n[i] \in Component
    BY <2>0, <2>a
  <2>2. SubSeq(n, 1, Len(n) - 1) \in Seq(Component) /\ Len(SubSeq(n, 1, Len(n) - 1)) = Len(n) - 1
    BY <2>1, SubSeqProperties
  <2> QED BY <2>1, <2>2, PathIsSeq, FilesAssumption DEF Path
<1> QED BY <1>3, <1>4, <1>5, <1>6, RootIsPath DEF n

\* The path of an entry tells its parent and its name.
LEMMA FullPathInjective ==
    ASSUME NEW e, NEW f, e.parent \in Path, f.parent \in Path, e.name \in Names, f.name \in Names,
           FullPath(e) = FullPath(f)
    PROVE  e.parent = f.parent /\ e.name = f.name
<1> DEFINE p == e.parent
           q == f.parent
           a == e.name
           b == f.name
<1>1. /\ p \in Seq(Component) /\ q \in Seq(Component) /\ a \in Component /\ b \in Component
      /\ Len(p) \in 1 .. MaxDepth /\ Len(q) \in 1 .. MaxDepth
  BY PathIsSeq, FilesAssumption DEF Path, Component
<1>2. /\ FullPath(e) = IF p = Root THEN <<a>> ELSE p \o <<a>>
      /\ FullPath(f) = IF q = Root THEN <<b>> ELSE q \o <<b>>
  BY DEF FullPath
<1> HIDE DEF p, q, a, b
<1>3. p \o <<a>> = Append(p, a) /\ q \o <<b>> = Append(q, b)
  BY <1>1, AppendIsConcat
<1>4. Len(Append(p, a)) > 1 /\ Len(Append(q, b)) > 1
  BY <1>1, AppendProperties, FilesAssumption
<1>5. Len(<<a>>) = 1 /\ Len(<<b>>) = 1 /\ (<<a>> = <<b>> => a = b)
  OBVIOUS
<1>8. \A x, y : Len(x) = 1 /\ Len(y) # 1 => x # y
  OBVIOUS
<1>9. <<a>> # Append(q, b) /\ <<b>> # Append(p, a)
  <2>1. Len(Append(p, a)) # 1 /\ Len(Append(q, b)) # 1
    BY <1>4
  <2> QED BY <1>5, <1>8, <2>1
<1>6. Append(p, a) = Append(q, b) => p = q /\ a = b
  BY <1>1, AppendInjective
<1>7. p = q /\ a = b
  <2>1. CASE p = Root /\ q = Root
    BY <2>1, <1>2, <1>5
  <2>2. CASE p = Root /\ q # Root
    BY <2>2, <1>2, <1>3, <1>9
  <2>3. CASE p # Root /\ q = Root
    BY <2>3, <1>2, <1>3, <1>9
  <2>4. CASE p # Root /\ q # Root
    BY <2>4, <1>2, <1>3, <1>6
  <2> QED BY <2>1, <2>2, <2>3, <2>4
<1> QED BY <1>7 DEF p, q, a, b

\* The parent test of mkdir and touch, put together again by rm: what
\* split_path takes apart is the path itself, if it is properly spelled.
LEMMA SplitJoins ==
    ASSUME NEW p \in Path, \A k \in 1 .. Len(p) : p[k] # NoName, NEW e, e.parent = ParentOf(p), e.name = NameOf(p)
    PROVE  FullPath(e) = p
<1>1. p \in Seq(Component) /\ Len(p) \in 1 .. MaxDepth /\ Len(p) \in Nat \ {0}
  BY PathIsSeq, FilesAssumption DEF Path
<1>2. Normalized(p) = p
  BY <1>1, NormalizedIs
<1>3. e.name = p[Len(p)] /\ e.parent = IF Len(p) = 1 THEN Root ELSE SubSeq(p, 1, Len(p) - 1)
  BY <1>2 DEF NameOf, ParentOf
<1>4. CASE Len(p) = 1
  <2>1. FullPath(e) = <<p[1]>>
    BY <1>3, <1>4 DEF FullPath
  <2>2. p[1] \in Component
    BY <1>1, <1>4, ElementOfSeq
  <2>3. <<p[1]>> \in Seq(Component) /\ Len(<<p[1]>>) = 1 /\ <<p[1]>>[1] = p[1]
    BY <2>2
  <2>4. <<p[1]>> = p
    BY <1>1, <1>4, <2>3, SeqEqual
  <2> QED BY <2>1, <2>4
<1>5. CASE Len(p) # 1
  <2> DEFINE r == SubSeq(p, 1, Len(p) - 1)
  <2>0. Len(p) - 1 \in 1 .. MaxDepth /\ 1 .. Len(p) - 1 \subseteq 1 .. Len(p) /\ MaxDepth \in Nat
    <3>1. \A L \in 1 .. MaxDepth : L # 1 => L - 1 \in 1 .. MaxDepth /\ 1 .. L - 1 \subseteq 1 .. L
      BY FilesAssumption
    <3> QED BY <1>1, <1>5, <3>1, FilesAssumption
  <2>1. Len(p) - 1 \in 1 .. MaxDepth /\ \A i \in 1 .. Len(p) - 1 : p[i] \in Component
    BY <2>0, <1>1, <1>5, ElementOfSeq
  <2>2. Len(r) = Len(p) - 1 /\ r[1] = p[1]
    BY <2>1, SubSeqProperties
  <2>3. r # Root
    BY <1>1, <2>2, RootIsPath
  <2>4. SubSeq(p, 1, Len(p)) = SubSeq(p, 1, Len(p) - 1) \o <<p[Len(p)]>>
    <3>1. 1 \in 1 .. Len(p) /\ Len(p) \in 1 .. Len(p)
      BY <1>1
    <3> QED BY <1>1, <3>1, SubSeqRecursiveSecond
  <2>5. SubSeq(p, 1, Len(p)) = p
    BY <1>1, SubSeqFull
  <2> QED BY <1>3, <1>5, <2>3, <2>4, <2>5 DEF FullPath
<1> QED BY <1>4, <1>5

-----------------------------------------------------------------------------
(* The inductive invariant *)

Used(i) == entries[i].type # "UNUSED"

\* Parent and name identify an entry; PathsUnique says it of the full path.
KeysUnique ==
    \A i, j \in Slots :
        Used(i) /\ Used(j) /\ entries[i].parent = entries[j].parent /\ entries[i].name = entries[j].name => i = j

IInv == TypeOK /\ KeysUnique /\ TreeWellFormed

LEMMA EntryTypes ==
    ASSUME TypeOK, NEW i \in Slots, Used(i)
    PROVE  /\ entries[i].parent \in Path /\ entries[i].name \in Names
           /\ entries[i] \in [type : {"REGULAR", "DIRECTORY"}, parent : Path, name : Names,
                              data : Contents \cup {"none"}]
<1>1. entries[i] \in FileEntry /\ entries[i] # Empty
  BY DEF TypeOK, Used, Empty
<1> QED BY <1>1 DEF FileEntry

LEMMA KeysGivePaths == TypeOK /\ KeysUnique => PathsUnique
<1> SUFFICES ASSUME TypeOK, KeysUnique, NEW i \in Slots, NEW j \in Slots, Used(i), Used(j),
                    FullPath(entries[i]) = FullPath(entries[j])
             PROVE  i = j
  BY DEF PathsUnique, Used
<1>1. /\ entries[i].parent \in Path /\ entries[i].name \in Names
      /\ entries[j].parent \in Path /\ entries[j].name \in Names
  BY EntryTypes
<1>2. entries[i].parent = entries[j].parent /\ entries[i].name = entries[j].name
  BY <1>1, FullPathInjective
<1> QED BY <1>2 DEF KeysUnique

\* Entries are changed but keep what identifies them.
LEMMA SameKeys ==
    ASSUME KeysUnique, TreeWellFormed,
           \A i \in Slots : /\ entries'[i].type = entries[i].type /\ entries'[i].parent = entries[i].parent
                            /\ entries'[i].name = entries[i].name
    PROVE  KeysUnique' /\ TreeWellFormed'
<1>1. KeysUnique'
  BY DEF KeysUnique, Used
<1>2. TreeWellFormed'
  <2>1. \A i \in Slots : FullPath(entries'[i]) = FullPath(entries[i])
    BY DEF FullPath
  <2> QED BY <2>1 DEF TreeWellFormed
<1> QED BY <1>1, <1>2

\* mkdir and touch: the new entry's key is new, and its parent is there.
LEMMA CreateStep ==
    ASSUME IInv, NEW p \in Path, NEW type \in {"REGULAR", "DIRECTORY"}, NEW data \in Contents \cup {"none"},
           Create(p, type, data), cwd' = cwd
    PROVE  IInv'
<1> DEFINE e == [type |-> type, parent |-> ParentOf(p), name |-> NameOf(p), data |-> data]
<1>1. PICK i \in Slots : entries[i].type = "UNUSED" /\ entries' = [entries EXCEPT ![i] = e]
  BY DEF Create, FreeSlot
<1>2. ParentOf(p) \in Path /\ NameOf(p) \in Names
  BY SplitTypes DEF Create, Component
<1>3. e \in FileEntry
  BY <1>2 DEF FileEntry
<1>4. entries'[i] = e /\ \A j \in Slots \ {i} : entries'[j] = entries[j]
  BY <1>1 DEF IInv, TypeOK
<1>5. e.type = type /\ e.parent = ParentOf(p) /\ e.name = NameOf(p) /\ type # "UNUSED"
  OBVIOUS
<1> HIDE DEF e
<1>6. TypeOK'
  BY <1>1, <1>3 DEF IInv, TypeOK
<1>7. KeysUnique'
  <2>1. \A j \in Slots : Used(j) => ~(entries[j].parent = ParentOf(p) /\ entries[j].name = NameOf(p))
    BY DEF Create, FindEntry, Used
  <2> QED BY <1>4, <1>5, <2>1 DEF IInv, KeysUnique, Used
<1>8. TreeWellFormed'
  <2> SUFFICES ASSUME NEW j \in Slots, entries'[j].type # "UNUSED",
                      \A k \in 1 .. Len(entries'[j].parent) : entries'[j].parent[k] # NoName
               PROVE  \E d \in Slots : entries'[d].type = "DIRECTORY" /\ FullPath(entries'[d]) = entries'[j].parent
    BY DEF TreeWellFormed
  <2>1. \E d \in Slots : entries[d].type = "DIRECTORY" /\ FullPath(entries[d]) = entries'[j].parent
    <3>1. CASE j # i
      BY <3>1, <1>4 DEF IInv, TreeWellFormed
    <3>2. CASE j = i
      <4>1. entries'[j].parent = ParentOf(p)
        BY <3>2, <1>4, <1>5
      <4>2. ParentOf(p) # Root
        <5>1. 1 \in 1 .. Len(Root)
          BY RootIsPath
        <5> QED BY <4>1, <5>1, RootIsPath
      <4>3. PICK d \in Slots : /\ entries[d].type = "DIRECTORY"
                               /\ entries[d].name = NameOf(ParentOf(p))
                               /\ entries[d].parent = ParentOf(ParentOf(p))
        BY <4>2 DEF Create, ParentIsDirectory, FindEntry
      <4>4. FullPath(entries[d]) = ParentOf(p)
        BY <1>2, <4>1, <4>3, SplitJoins
      <4> QED BY <4>1, <4>3, <4>4
    <3> QED BY <3>1, <3>2
  <2>2. PICK d \in Slots : entries[d].type = "DIRECTORY" /\ FullPath(entries[d]) = entries'[j].parent
    BY <2>1
  <2>3. d # i
    BY <1>1, <2>2
  <2> QED BY <1>4, <2>2, <2>3
<1> QED BY <1>6, <1>7, <1>8 DEF IInv

LEMMA WriteStep ==
    ASSUME IInv, NEW p \in Path, NEW content \in Contents, Write(p, content)
    PROVE  IInv'
<1> DEFINE n == Normalized(p)
<1>1. n \in Path /\ cwd' = cwd
  BY SplitTypes DEF Write
<1>2. CASE Create(n, "REGULAR", content)
  BY <1>1, <1>2, CreateStep
<1>3. CASE \E i \in Slots : entries[i].type = "REGULAR" /\ entries' = [entries EXCEPT ![i].data = content]
  <2>1. PICK i \in Slots : entries[i].type = "REGULAR" /\ entries' = [entries EXCEPT ![i].data = content]
    BY <1>3
  <2>2. entries[i] \in [type : {"REGULAR", "DIRECTORY"}, parent : Path, name : Names,
                        data : Contents \cup {"none"}]
    BY <2>1, EntryTypes DEF Used, IInv
  <2> DEFINE e == [entries[i] EXCEPT !.data = content]
  <2>3. /\ e \in FileEntry /\ e.type = entries[i].type /\ e.parent = entries[i].parent
        /\ e.name = entries[i].name
    BY <2>2 DEF FileEntry
  <2>4. entries' = [entries EXCEPT ![i] = e]
    BY <2>1 DEF IInv, TypeOK
  <2> HIDE DEF e
  <2>5. TypeOK'
    BY <1>1, <2>3, <2>4 DEF IInv, TypeOK
  <2>6. \A j \in Slots : /\ entries'[j].type = entries[j].type /\ entries'[j].parent = entries[j].parent
                         /\ entries'[j].name = entries[j].name
    BY <2>3, <2>4 DEF IInv, TypeOK
  <2> QED BY <2>5, <2>6, SameKeys DEF IInv
<1> QED BY <1>2, <1>3 DEF Write, FindEntry

\* rm: only an entry that is no other's parent goes.
LEMMA RmStep ==
    ASSUME IInv, NEW p \in Path, Rm(p)
    PROVE  IInv'
<1>1. PICK i \in Slots : /\ Used(i) /\ MayGo(entries[i])
                         /\ entries' = [entries EXCEPT ![i] = Empty] /\ cwd' = cwd
  BY DEF Rm, FindEntry, Used, Cleared
<1>2. entries'[i] = Empty /\ Empty.type = "UNUSED" /\ \A j \in Slots \ {i} : entries'[j] = entries[j]
  BY <1>1 DEF IInv, TypeOK, Empty
<1>3. TypeOK'
  BY <1>1 DEF IInv, TypeOK, FileEntry
<1>4. KeysUnique'
  BY <1>2 DEF IInv, KeysUnique, Used
<1>5. TreeWellFormed'
  <2> SUFFICES ASSUME NEW j \in Slots, entries'[j].type # "UNUSED",
                      \A k \in 1 .. Len(entries'[j].parent) : entries'[j].parent[k] # NoName
               PROVE  \E d \in Slots : entries'[d].type = "DIRECTORY" /\ FullPath(entries'[d]) = entries'[j].parent
    BY DEF TreeWellFormed
  <2>1. j # i /\ entries'[j] = entries[j]
    BY <1>2
  <2>2. PICK d \in Slots : entries[d].type = "DIRECTORY" /\ FullPath(entries[d]) = entries[j].parent
    BY <2>1 DEF IInv, TreeWellFormed
  <2>3. d # i
    BY <1>1, <2>1, <2>2 DEF MayGo
  <2> QED BY <1>2, <2>1, <2>2, <2>3
<1> QED BY <1>3, <1>4, <1>5 DEF IInv

LEMMA InitHolds == Init => IInv
<1> SUFFICES ASSUME Init PROVE IInv
  OBVIOUS
<1>1. \A i \in Slots : entries[i].type = "UNUSED"
  BY DEF Init, Empty
<1>2. TypeOK
  BY RootIsPath DEF Init, TypeOK, FileEntry
<1> QED BY <1>1, <1>2 DEF IInv, KeysUnique, Used, TreeWellFormed

\* What build_path puts together is a path if it is short enough.
LEMMA BuildPathIs ==
    ASSUME TypeOK, NEW arg \in PathOf(2), NEW absolute \in BOOLEAN, Len(BuildPath(arg, absolute)) <= MaxDepth
    PROVE  BuildPath(arg, absolute) \in Path
<1>1. arg \in Seq(Component) /\ Len(arg) \in 1 .. 2
  BY PathIsSeq
<1>2. cwd \in Seq(Component) /\ Len(cwd) \in 1 .. MaxDepth /\ MaxDepth \in Nat
  BY PathIsSeq, FilesAssumption DEF TypeOK, Path
<1>3. cwd \o arg \in Seq(Component) /\ Len(cwd \o arg) = Len(cwd) + Len(arg)
  BY <1>1, <1>2, ConcatProperties
<1>4. CASE BuildPath(arg, absolute) = arg
  BY <1>1, <1>2, <1>4, PathIsSeq DEF Path
<1>5. CASE BuildPath(arg, absolute) = cwd \o arg
  <2>1. Len(cwd \o arg) \in 1 .. MaxDepth
    BY <1>1, <1>2, <1>3, <1>5
  <2> QED BY <1>2, <1>3, <1>5, <2>1, PathIsSeq DEF Path
<1> QED BY <1>4, <1>5 DEF BuildPath

LEMMA NextKeeps == IInv /\ [Next]_vars => IInv'
<1> SUFFICES ASSUME IInv, [Next]_vars PROVE IInv'
  OBVIOUS
<1>1. CASE UNCHANGED vars
  BY <1>1 DEF vars, IInv, TypeOK, KeysUnique, Used, TreeWellFormed
<1>2. CASE Cls
  <2>1. \A i \in Slots : entries'[i].type = "UNUSED"
    BY <1>2 DEF Cls, Empty
  <2>2. TypeOK'
    BY <1>2 DEF Cls, IInv, TypeOK, FileEntry
  <2> QED BY <2>1, <2>2 DEF IInv, KeysUnique, Used, TreeWellFormed
<1>3. ASSUME NEW p \in Path, Mkdir(p) PROVE IInv'
  BY <1>3, SplitTypes, CreateStep DEF Mkdir
<1>4. ASSUME NEW p \in Path, Touch(p) PROVE IInv'
  BY <1>4, SplitTypes, CreateStep DEF Touch
<1>5. ASSUME NEW p \in Path, Cd(p) PROVE IInv'
  BY <1>5 DEF Cd, IInv, TypeOK, KeysUnique, Used, TreeWellFormed
<1>6. ASSUME NEW arg \in PathOf(2), NEW absolute \in BOOLEAN, Len(BuildPath(arg, absolute)) <= MaxDepth
      PROVE  BuildPath(arg, absolute) \in Path
  BY <1>6, BuildPathIs DEF IInv
<1> QED BY <1>1, <1>2, <1>3, <1>4, <1>5, <1>6, WriteStep, RmStep DEF Next

\* The inductive invariant of the file system.
THEOREM Invariance == Spec => []IInv
BY InitHolds, NextKeeps, PTL DEF Spec

\* Every entry and the current directory have their types: in particular no
\* entry in use has an empty name (mkdir, touch, write_file).
THEOREM TypeCorrect == Spec => []TypeOK
<1>1. IInv => TypeOK
  BY DEF IInv
<1> QED BY <1>1, Invariance, PTL

\* find_entry's answer never depends on the order of the slots: a path names
\* at most one entry.
THEOREM OnePath == Spec => []PathsUnique
<1>1. IInv => PathsUnique
  BY KeysGivePaths DEF IInv
<1> QED BY <1>1, Invariance, PTL

\* What is stored under a properly spelled parent hangs in the tree: rm never
\* takes away a directory that mkdir, touch or write_file put something into.
THEOREM IsATree == Spec => []TreeWellFormed
<1>1. IInv => TreeWellFormed
  BY DEF IInv
<1> QED BY <1>1, Invariance, PTL
=============================================================================
