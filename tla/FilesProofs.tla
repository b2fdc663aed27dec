---------------------------- MODULE FilesProofs -----------------------------
(***************************************************************************)
(* What holds of the files for every tree: any paths and names, any bytes, *)
(* any sizes of buffers, any number of descriptors and of steps.           *)
(***************************************************************************)
EXTENDS MCFiles, FiniteSetTheorems, SequenceTheorems, WellFoundedInduction, TLAPS

(* The tree names nodes, the nodes hold bytes.                             *)
Cells == Bytes \cup {0}
Nodes == [dir : BOOLEAN, data : Seq(Cells)]
TreeTyped ==
    /\ node \in Seq(Nodes)
    /\ tree \in [Paths -> 0 .. Len(node)]

(* The log of a file is its contents.                                      *)
LogExact == \A n \in DOMAIN log : n \in 1 .. Len(node) /\ node[n].data = log[n]

(* Descriptors are numbered upwards.  A file's names a node.               *)
Entries ==
    [ino : Nat, path : Seq(Nat), isDir : BOOLEAN, write : BOOLEAN, append : BOOLEAN,
     appendF : BOOLEAN, pos : Nat, loaded : BOOLEAN, ents : Seq(Segments)]
FdsTyped ==
    /\ nextFd \in Nat /\ preopenFd < nextFd
    /\ DOMAIN fds \subseteq preopenFd .. nextFd - 1
    /\ fds \in [DOMAIN fds -> Entries]
    /\ \A fd \in DOMAIN fds : ~fds[fd].isDir => fds[fd].ino \in 1 .. Len(node)

(* A walk that has begun is over the listing its descriptor has cached,    *)
(* and has handed out what is before its cookie.                           *)
WalkOn ==
    dir # NoDir =>
        /\ dir.fd \in DOMAIN fds /\ fds[dir.fd].loaded
        /\ dir.want = Dots(fds[dir.fd].ents)
        /\ dir.cookie \in 0 .. Len(dir.want)
        /\ dir.got = SubSeq(dir.want, 1, dir.cookie)
        /\ dir.done \in BOOLEAN /\ (dir.done => dir.cookie = Len(dir.want))

(* The engine's handles: a logged file has one writer at most, and if that *)
(* one appends it stands at the file's end.                                *)
HandleTypes == [ino : Nat, write : BOOLEAN, append : BOOLEAN, position : Nat]
HandlesTyped ==
    /\ hostNextFd \in Nat \ {0}
    /\ DOMAIN hostFds \subseteq 1 .. hostNextFd - 1
    /\ hostFds \in [DOMAIN hostFds -> HandleTypes]
    /\ \A h \in DOMAIN hostFds :
          hostFds[h].ino \in 1 .. Len(node) /\ (hostFds[h].append => hostFds[h].write)
AppenderAlone ==
    \A h \in DOMAIN hostFds : hostFds[h].write /\ hostFds[h].ino \in DOMAIN log =>
        /\ \A g \in DOMAIN hostFds : hostFds[g].write /\ hostFds[g].ino = hostFds[h].ino => g = h
        /\ hostFds[h].append => hostFds[h].position = Len(node[hostFds[h].ino].data)

(* A side opens no descriptors of the other.                               *)
SidesApart ==
    IF side = "host" THEN \A fd \in DOMAIN fds : fds[fd].isDir ELSE DOMAIN hostFds = {}

FilesInv ==
    /\ TreeTyped /\ LogExact /\ FdsTyped /\ WalkOn
    /\ HandlesTyped /\ AppenderAlone /\ SidesApart

-----------------------------------------------------------------------------
(* Bytes of a file.                                                        *)
LEMMA OverwrittenTyped ==
  ASSUME NEW data \in Seq(Cells), NEW off \in Nat, NEW chunk \in Seq(Cells)
  PROVE  Overwritten(data, off, chunk) \in Seq(Cells)
<1> PICK n : n = IF off + Len(chunk) > Len(data) /\ chunk # <<>>
                 THEN off + Len(chunk) ELSE Len(data)
  OBVIOUS
<1>1. n \in Nat
  BY LenProperties
<1> DEFINE cell(i) == IF i - off \in 1 .. Len(chunk) THEN chunk[i - off]
                      ELSE IF i <= Len(data) THEN data[i] ELSE 0
<1>2. \A i \in 1 .. n : cell(i) \in Cells
  BY <1>1, ElementOfSeq DEF Cells
<1>3. [i \in 1 .. n |-> cell(i)] \in Seq(Cells)
  BY <1>1, <1>2
<1> QED BY <1>3 DEF Overwritten

(* A write at the end appends.                                             *)
LEMMA OverwrittenAtEnd ==
  ASSUME NEW data \in Seq(Cells), NEW chunk \in Seq(Cells)
  PROVE  Overwritten(data, Len(data), chunk) = data \o chunk
<1>1. Overwritten(data, Len(data), chunk) \in Seq(Cells) /\ data \o chunk \in Seq(Cells)
  BY OverwrittenTyped, LenProperties
<1>2. Len(Overwritten(data, Len(data), chunk)) = Len(data) + Len(chunk)
  <2>1. Len(data) \in Nat /\ Len(chunk) \in Nat /\ (chunk = <<>> => Len(chunk) = 0)
    BY LenProperties, EmptySeq
  <2>2. (chunk # <<>> => Len(chunk) > 0)
    BY EmptySeq
  <2> QED BY <2>1, <2>2 DEF Overwritten
<1>3. \A i \in 1 .. Len(data) + Len(chunk) :
         Overwritten(data, Len(data), chunk)[i] = IF i <= Len(data) THEN data[i] ELSE chunk[i - Len(data)]
  <2>1. Len(data) \in Nat /\ Len(chunk) \in Nat /\ (chunk = <<>> => Len(chunk) = 0)
    BY LenProperties, EmptySeq
  <2>2. (chunk # <<>> => Len(chunk) > 0)
    BY EmptySeq
  <2> QED BY <2>1, <2>2 DEF Overwritten
<1> QED BY <1>1, <1>2, <1>3, ConcatProperties, SeqEqual

-----------------------------------------------------------------------------
(* The listing of a directory.                                             *)
LEMMA ListedFinite ==
  ASSUME NEW p
  PROVE  IsFiniteSet(Listed(p)) /\ Listed(p) \subseteq Segments /\ Listed(p) \subseteq Nat
<1> DEFINE In == {r \in Paths : Front(r) = p /\ Exists(r)}
           last == [q \in In |-> Last(q)]
<1>1. IsFiniteSet(In)
  BY PathsAssumption, FS_Subset
<1>2. last \in Surjection(In, Listed(p))
  BY DEF Listed, Surjection
<1>3. IsFiniteSet(Listed(p))
  BY <1>1, <1>2, FS_Surjection
<1>4. \A q \in Paths : Last(q) \in Nat
  <2> SUFFICES ASSUME NEW q \in Paths PROVE Last(q) \in Nat
    OBVIOUS
  <2>1. q \in Seq(Nat) /\ Len(q) \in Nat \ {0}
    BY PathsAssumption, EmptySeq
  <2> QED BY <2>1, ElementOfSeq DEF Last
<1> QED BY <1>3, <1>4 DEF Listed, Segments

(* The rank of a number in a set grows with it and stays below the size.   *)
LEMMA RankRises ==
  ASSUME NEW S, S \subseteq Nat, IsFiniteSet(S), NEW s \in S, NEW t \in S, s < t
  PROVE  Cardinality({x \in S : x < s}) < Cardinality({x \in S : x < t})
<1> DEFINE A == {x \in S : x < s}
           B == {x \in S : x < t}
<1>1. IsFiniteSet(A) /\ IsFiniteSet(B)
  BY FS_Subset
<1>2. s \notin A /\ A \cup {s} \subseteq B
  <2>1. \A x \in S : x < s => x < t
    OBVIOUS
  <2>2. ~(s < s)
    OBVIOUS
  <2> QED BY <2>1, <2>2
<1>3. Cardinality(A) \in Nat /\ Cardinality(B) \in Nat /\ Cardinality(A \cup {s}) = Cardinality(A) + 1
  BY <1>1, <1>2, FS_AddElement, FS_CardinalityType
<1>4. Cardinality(A \cup {s}) <= Cardinality(B)
  BY <1>1, <1>2, FS_Subset
<1> QED BY <1>3, <1>4

LEMMA RankBounded ==
  ASSUME NEW S, S \subseteq Nat, IsFiniteSet(S), NEW s \in S
  PROVE  Cardinality({x \in S : x < s}) \in 0 .. Cardinality(S) - 1
<1>1. IsFiniteSet(S \ {s}) /\ Cardinality(S \ {s}) = Cardinality(S) - 1
  BY FS_RemoveElement
<1>2. {x \in S : x < s} \subseteq S \ {s}
  OBVIOUS
<1>3. /\ Cardinality({x \in S : x < s}) \in Nat /\ Cardinality(S) \in Nat
      /\ Cardinality({x \in S : x < s}) <= Cardinality(S) - 1
  BY <1>1, <1>2, FS_Subset, FS_CardinalityType
<1> QED BY <1>3

(* Every rank below the size of a finite set of numbers is the rank of one *)
(* of them.                                                                *)
LEMMA RanksTaken ==
  ASSUME NEW S, S \subseteq Nat, IsFiniteSet(S), NEW i \in 1 .. Cardinality(S)
  PROVE  \E s \in S : Cardinality({x \in S : x < s}) = i - 1
<1> PICK n : n = Cardinality(S)
  OBVIOUS
<1>1. n \in Nat /\ n - 1 \in Int
  BY FS_CardinalityType
<1> DEFINE rank == [s \in S |-> Cardinality({x \in S : x < s})]
<1>2. rank \in [S -> 0 .. n - 1]
  BY RankBounded
<1>3. \A s, t \in S : rank[s] = rank[t] => s = t
  <2> SUFFICES ASSUME NEW s \in S, NEW t \in S, rank[s] = rank[t], s # t PROVE FALSE
    OBVIOUS
  <2>1. rank[s] \in Int /\ s \in Nat /\ t \in Nat
    BY <1>1, <1>2
  <2>2. CASE s < t
    <3>1. rank[s] < rank[t]
      BY <2>2, RankRises
    <3> QED BY <2>1, <3>1
  <2>3. CASE t < s
    <3>1. rank[t] < rank[s]
      BY <2>3, RankRises
    <3> QED BY <2>1, <3>1
  <2> QED BY <2>2, <2>3
<1>4. IsFiniteSet(0 .. n - 1) /\ Cardinality(0 .. n - 1) = n
  BY <1>1, FS_Interval
<1>5. rank \in Injection(S, 0 .. n - 1)
  BY <1>2, <1>3 DEF Injection, IsInjective
<1>6. rank \in Surjection(S, 0 .. n - 1)
  BY <1>4, <1>5, FS_Injection
<1>7. \E s \in S : rank[s] = i - 1
  <2>1. i - 1 \in 0 .. n - 1
    BY <1>1
  <2> HIDE DEF rank
  <2> QED BY <2>1, <1>6 DEF Surjection
<1> QED BY <1>7

(* os.ReadDir gives each name once, in order.                              *)
LEMMA NamesInOrder ==
  ASSUME NEW p
  PROVE  /\ Names(p) \in Seq(Segments)
         /\ {Names(p)[i] : i \in DOMAIN Names(p)} = Listed(p)
         /\ \A i, j \in DOMAIN Names(p) : i < j => Names(p)[i] < Names(p)[j]
<1> PICK S : S = Listed(p)
  OBVIOUS
<1> PICK n : n = Cardinality(S)
  OBVIOUS
<1>1. S \subseteq Nat /\ S \subseteq Segments /\ IsFiniteSet(S) /\ n \in Nat
  BY ListedFinite, FS_CardinalityType
<1> DEFINE rank(s) == Cardinality({x \in S : x < s})
           at(i) == CHOOSE s \in S : rank(s) = i - 1
<1>2. Names(p) = [i \in 1 .. n |-> at(i)]
  BY DEF Names
<1>3. \A i \in 1 .. n : at(i) \in S /\ rank(at(i)) = i - 1
  <2>1. \A i \in 1 .. n : \E s \in S : rank(s) = i - 1
    BY <1>1, RanksTaken
  <2> QED BY <2>1
<1>4. \A s, t \in S : s < t => rank(s) < rank(t)
  BY <1>1, RankRises
<1>5. \A s \in S : rank(s) \in 0 .. n - 1
  BY <1>1, RankBounded
<1> HIDE DEF at, rank
<1>6. Names(p) \in Seq(Segments) /\ DOMAIN Names(p) = 1 .. n /\ \A i \in 1 .. n : Names(p)[i] = at(i)
  <2>1. \A i \in 1 .. n : at(i) \in Segments
    BY <1>1, <1>3
  <2> QED BY <2>1, <1>1, <1>2
<1>7. ASSUME NEW i \in 1 .. n, NEW j \in 1 .. n, i < j, ~(at(i) < at(j)) PROVE FALSE
  <2>1. at(i) \in Nat /\ at(j) \in Nat /\ at(j) <= at(i)
    BY <1>1, <1>3, <1>7
  <2>2. rank(at(i)) = i - 1 /\ rank(at(j)) = j - 1
    BY <1>3
  <2>3. CASE at(j) = at(i)
    BY <2>2, <2>3, <1>1, <1>7
  <2>4. CASE at(j) < at(i)
    BY <2>2, <2>4, <1>3, <1>4, <1>1, <1>7
  <2> QED BY <2>1, <2>3, <2>4
<1>8. ASSUME NEW s \in S PROVE \E i \in 1 .. n : at(i) = s
  <2> PICK i : i = rank(s) + 1
    OBVIOUS
  <2>1. i \in 1 .. n /\ rank(s) = i - 1
    BY <1>1, <1>5
  <2>2. at(i) \in S /\ rank(at(i)) = rank(s)
    BY <2>1, <1>3
  <2>3. ~(at(i) < s) /\ ~(s < at(i))
    BY <2>2, <1>4, <1>5
  <2>4. at(i) \in Nat /\ s \in Nat
    BY <2>2, <1>1
  <2> QED BY <2>1, <2>3, <2>4
<1>9. {Names(p)[i] : i \in DOMAIN Names(p)} = S
  BY <1>3, <1>6, <1>8
<1>10. \A i, j \in DOMAIN Names(p) : i < j => Names(p)[i] < Names(p)[j]
  BY <1>6, <1>7
<1> QED BY <1>6, <1>9, <1>10

-----------------------------------------------------------------------------
(* Sizes of listings: a sum over a sequence of names is a number.          *)
LEMMA LeastOf ==
  ASSUME NEW S, S \subseteq Nat, S # {}
  PROVE  \E x \in S : \A y \in S : x <= y
<1>1. IsWellFoundedOn(OpToRel(<, Nat), Nat)
  BY NatLessThanWellFounded
<1>2. PICK x \in S : \A y \in S : ~ (<<y, x>> \in OpToRel(<, Nat))
  BY <1>1, WFMin
<1>3. \A y \in S : ~ (y < x)
  BY <1>2 DEF OpToRel
<1> QED BY <1>3

LEMMA GreatestOf ==
  ASSUME NEW n \in Nat, NEW S, S \subseteq 0 .. n, S # {}
  PROVE  Max(S) \in S /\ \A y \in S : y <= Max(S)
<1> PICK R : R = {n - x : x \in S}
  OBVIOUS
<1>0. \A x \in S : x \in Int /\ n - x \in Nat
  OBVIOUS
<1>1. R \subseteq Nat /\ R # {}
  BY <1>0
<1>2. PICK r \in R : \A q \in R : r <= q
  BY <1>1, LeastOf
<1>3. PICK x \in S : r = n - x
  OBVIOUS
<1>4. \A y \in S : x >= y
  BY <1>0, <1>2, <1>3
<1> QED BY <1>4 DEF Max

Virtuals == Seq(Segments \cup {-1, 0})

(* The recursion by which a fold sums up w over the sets of places in S.   *)
Sums(S, w, g) ==
    g = [s \in SUBSET S |-> IF s = {} THEN 0
                            ELSE w[CHOOSE x \in s : TRUE] + g[s \ {CHOOSE x \in s : TRUE}]]

(* It has a solution: one that is right for sets of up to n places gives   *)
(* one for sets of n + 1.                                                  *)
LEMMA SumExists ==
  ASSUME NEW S, IsFiniteSet(S), NEW w, \A i \in S : w[i] \in Nat
  PROVE  \E g \in [SUBSET S -> Nat] : Sums(S, w, g)
<1> DEFINE c(s) == CHOOSE x \in s : TRUE
           step(g, s) == IF s = {} THEN 0 ELSE w[c(s)] + g[s \ {c(s)}]
           Right(g, n) == \A s \in SUBSET S : Cardinality(s) <= n => g[s] = step(g, s)
           bad == {n \in Nat : ~ \E g \in [SUBSET S -> Nat] : Right(g, n)}
<1>1. \A s \in SUBSET S : IsFiniteSet(s) /\ Cardinality(s) \in Nat /\ Cardinality(s) <= Cardinality(S)
  BY FS_Subset, FS_CardinalityType
<1>2. \A s \in SUBSET S : s # {} => c(s) \in s
  OBVIOUS
<1>3. \A g \in [SUBSET S -> Nat], s \in SUBSET S : step(g, s) \in Nat
  BY <1>2
<1>4. bad = {}
  <2> SUFFICES ASSUME bad # {} PROVE FALSE
    OBVIOUS
  <2>1. PICK n \in bad : \A m \in bad : n <= m
    BY LeastOf
  <2>2. CASE n = 0
    <3> PICK g : g = [s \in SUBSET S |-> 0]
      OBVIOUS
    <3>1. \A s \in SUBSET S : Cardinality(s) <= 0 => s = {}
      BY <1>1, FS_EmptySet
    <3>2. g \in [SUBSET S -> Nat] /\ Right(g, n)
      BY <2>2, <3>1
    <3> QED BY <2>1, <3>2
  <2>3. CASE n > 0
    <3>1. n - 1 \in Nat /\ ~(n <= n - 1)
      BY <2>1, <2>3
    <3>6. n - 1 \notin bad
      BY <2>1, <3>1
    <3>2. PICK g \in [SUBSET S -> Nat] : Right(g, n - 1)
      BY <3>1, <3>6
    <3> PICK h : h = [s \in SUBSET S |-> step(g, s)]
      OBVIOUS
    <3>3. h \in [SUBSET S -> Nat]
      BY <1>3
    <3>4. ASSUME NEW s \in SUBSET S, Cardinality(s) <= n PROVE h[s] = step(h, s)
      <4>1. CASE s = {}
        BY <4>1
      <4>2. CASE s # {}
        <5> PICK r : r = s \ {c(s)}
          OBVIOUS
        <5>1. r \in SUBSET S /\ Cardinality(r) = Cardinality(s) - 1
          BY <1>1, <1>2, <4>2, FS_RemoveElement
        <5>2. Cardinality(r) <= n - 1
          BY <5>1, <3>4, <1>1, <2>1
        <5>3. g[r] = h[r]
          BY <3>2, <5>1, <5>2
        <5> QED BY <4>2, <5>3
      <4> QED BY <4>1, <4>2
    <3>5. Right(h, n)
      BY <3>4
    <3> QED BY <2>1, <3>3, <3>5
  <2> QED BY <2>1, <2>2, <2>3
<1>5. Cardinality(S) \in Nat
  BY <1>1
<1>6. PICK g \in [SUBSET S -> Nat] : Right(g, Cardinality(S))
  BY <1>4, <1>5
<1>7. g = [s \in SUBSET S |-> step(g, s)]
  BY <1>1, <1>6
<1> QED BY <1>7 DEF Sums

(* A number that satisfies the recursion at every set is a number.         *)
LEMMA SumIsNat ==
  ASSUME NEW S, IsFiniteSet(S), NEW w, \A i \in S : w[i] \in Nat, NEW g,
         Sums(S, w, g)
  PROVE  g[S] \in Nat
<1> DEFINE c(s) == CHOOSE x \in s : TRUE
           bad == {Cardinality(s) : s \in {r \in SUBSET S : g[r] \notin Nat}}
<1>1. \A s \in SUBSET S : IsFiniteSet(s) /\ Cardinality(s) \in Nat
  BY FS_Subset, FS_CardinalityType
<1>2. bad = {}
  <2> SUFFICES ASSUME bad # {} PROVE FALSE
    OBVIOUS
  <2>1. bad \subseteq Nat
    BY <1>1
  <2>2. PICK n \in bad : \A m \in bad : n <= m
    BY <2>1, LeastOf
  <2>3. PICK s \in SUBSET S : g[s] \notin Nat /\ n = Cardinality(s)
    OBVIOUS
  <2>4. s # {}
    BY <2>3 DEF Sums
  <2> PICK r : r = s \ {c(s)}
    OBVIOUS
  <2>5. r \in SUBSET S /\ Cardinality(r) = Cardinality(s) - 1
    BY <1>1, <2>4, FS_RemoveElement
  <2>6. g[r] \in Nat
    BY <2>2, <2>3, <2>5, <1>1
  <2>7. g[s] = w[c(s)] + g[r] /\ w[c(s)] \in Nat
    BY <2>4 DEF Sums
  <2> QED BY <2>3, <2>6, <2>7
<1> QED BY <1>2

LEMMA SizeIsNat ==
  ASSUME NEW names \in Virtuals
  PROVE  Size(names) \in Nat
<1> PICK S : S = DOMAIN names
  OBVIOUS
<1> PICK w : w = [i \in S |-> Hdr + NameLen[names[i]]]
  OBVIOUS
<1>1. IsFiniteSet(S) /\ S = 1 .. Len(names) /\ Len(names) \in Nat
  BY LenProperties, FS_Interval DEF Virtuals
<1>2. \A i \in S : w[i] \in Nat
  <2>1. \A i \in S : names[i] \in Segments \cup {-1, 0}
    BY <1>1, ElementOfSeq DEF Virtuals
  <2> QED BY <2>1, BuffersAssumption
<1> DEFINE Folds(g) ==
             g = [s \in SUBSET S |-> IF s = {} THEN 0
                     ELSE Hdr + NameLen[names[CHOOSE x \in s : TRUE]] + g[s \ {CHOOSE x \in s : TRUE}]]
<1>3. \E g : Sums(S, w, g)
  BY <1>1, <1>2, SumExists
<1>4. \A g : Sums(S, w, g) <=> Folds(g)
  BY DEF Sums
<1> PICK h : h = CHOOSE g : Folds(g)
  OBVIOUS
<1>5. Sums(S, w, h)
  <2> HIDE DEF Folds
  <2> QED BY <1>3, <1>4
<1>6. h[S] \in Nat
  BY <1>1, <1>2, <1>5, SumIsNat
<1>7. Size(names) = h[S]
  BY DEF Size, FoldSeq, FoldFunction, FoldFunctionOnSet, MapThenFoldSet
<1> QED BY <1>6, <1>7

LEMMA EmptySize == Size(<<>>) = 0
<1>1. DOMAIN <<>> = {}
  OBVIOUS
<1> QED BY <1>1 DEF Size, FoldSeq, FoldFunction, FoldFunctionOnSet, MapThenFoldSet

-----------------------------------------------------------------------------
(* One call of fd_readdir.                                                 *)
LEMMA SubSeqJoin ==
  ASSUME NEW T, NEW s \in Seq(T), NEW c \in 0 .. Len(s), NEW k \in 0 .. Len(s) - c
  PROVE  SubSeq(s, 1, c) \o SubSeq(s, c + 1, c + k) = SubSeq(s, 1, c + k)
<1>1. Len(s) \in Nat /\ \A i \in 1 .. Len(s) : s[i] \in T
  BY LenProperties, ElementOfSeq
<1>2. c \in Nat /\ k \in Nat /\ c + k <= Len(s)
  BY <1>1
<1>3. SubSeq(s, 1, c) \in Seq(T) /\ Len(SubSeq(s, 1, c)) = c
      /\ \A i \in 1 .. c : SubSeq(s, 1, c)[i] = s[i]
  BY <1>1, <1>2, SubSeqProperties
<1>4. SubSeq(s, c + 1, c + k) \in Seq(T) /\ Len(SubSeq(s, c + 1, c + k)) = k
      /\ \A i \in 1 .. k : SubSeq(s, c + 1, c + k)[i] = s[c + i]
  <2>1. \A i \in c + 1 .. c + k : s[i] \in T
    BY <1>1, <1>2
  <2>2. /\ SubSeq(s, c + 1, c + k) \in Seq(T)
        /\ Len(SubSeq(s, c + 1, c + k)) = IF c + 1 <= c + k THEN (c + k) - (c + 1) + 1 ELSE 0
        /\ \A i \in 1 .. (c + k) - (c + 1) + 1 : SubSeq(s, c + 1, c + k)[i] = s[(c + 1) + i - 1]
    BY <2>1, <1>2, SubSeqProperties
  <2> QED BY <2>2, <1>2
<1>5. SubSeq(s, 1, c + k) \in Seq(T) /\ Len(SubSeq(s, 1, c + k)) = c + k
      /\ \A i \in 1 .. c + k : SubSeq(s, 1, c + k)[i] = s[i]
  BY <1>1, <1>2, SubSeqProperties
<1> PICK a : a = SubSeq(s, 1, c)
  OBVIOUS
<1> PICK b : b = SubSeq(s, c + 1, c + k)
  OBVIOUS
<1>6. a \o b \in Seq(T) /\ Len(a \o b) = c + k
      /\ \A i \in 1 .. c + k : (a \o b)[i] = IF i <= c THEN a[i] ELSE b[i - c]
  BY <1>3, <1>4, ConcatProperties
<1>7. \A i \in 1 .. c + k : (a \o b)[i] = s[i]
  BY <1>2, <1>3, <1>4, <1>6
<1> QED BY <1>5, <1>6, <1>7, SeqEqual

(* What a call hands out lies in the listing, and is the rest of it when   *)
(* the buffer is not filled.                                               *)
LEMMA WholeInListing ==
  ASSUME NEW virtual \in Virtuals, NEW cookie \in 0 .. Len(virtual), NEW len \in Nat
  PROVE  /\ WholeRecords(virtual, cookie, len) \in 0 .. Len(virtual) - cookie
         /\ ~BufFull(virtual, cookie, len) => WholeRecords(virtual, cookie, len) = Len(virtual) - cookie
<1> PICK rest : rest = SubSeq(virtual, cookie + 1, Len(virtual))
  OBVIOUS
<1> PICK n : n = Len(virtual) - cookie
  OBVIOUS
<1> PICK S : S = {k \in 0 .. Len(rest) : Size(SubSeq(rest, 1, k)) <= len}
  OBVIOUS
<1>1. Len(virtual) \in Nat /\ cookie \in Nat /\ n \in Nat
  BY LenProperties DEF Virtuals
<1>2. rest \in Virtuals /\ Len(rest) = n
  <2>1. \A i \in cookie + 1 .. Len(virtual) : virtual[i] \in Segments \cup {-1, 0}
    BY <1>1, ElementOfSeq DEF Virtuals
  <2>2. rest \in Virtuals
        /\ Len(rest) = IF cookie + 1 <= Len(virtual) THEN Len(virtual) - (cookie + 1) + 1 ELSE 0
    BY <1>1, <2>1, SubSeqProperties DEF Virtuals
  <2> QED BY <1>1, <2>2
<1>3. SubSeq(rest, 1, n) = rest /\ Size(rest) \in Nat
  BY <1>2, SubSeqFull, SizeIsNat DEF Virtuals
<1>4. S \subseteq 0 .. n /\ 0 \in S
  <2>1. SubSeq(rest, 1, 0) = <<>>
    BY SubSeqEmpty
  <2>2. Size(SubSeq(rest, 1, 0)) = 0
    BY <2>1, EmptySize
  <2>3. Size(SubSeq(rest, 1, 0)) <= len
    BY <2>2
  <2>4. 0 \in 0 .. Len(rest) /\ 0 .. Len(rest) = 0 .. n
    BY <1>1, <1>2
  <2> QED BY <2>3, <2>4
<1>5. Max(S) \in S /\ \A y \in S : y <= Max(S)
  BY <1>1, <1>4, GreatestOf
<1>6. WholeRecords(virtual, cookie, len) = Max(S)
  BY DEF WholeRecords
<1>7. ASSUME ~BufFull(virtual, cookie, len) PROVE Max(S) = n
  <2>1. Size(rest) <= len
    BY <1>3, <1>7 DEF BufFull
  <2>2. n \in S
    <3>1. Size(SubSeq(rest, 1, n)) <= len
      BY <2>1, <1>3
    <3>2. n \in 0 .. Len(rest)
      BY <1>1, <1>2
    <3> QED BY <3>1, <3>2
  <2>3. n <= Max(S) /\ Max(S) \in 0 .. n
    BY <2>2, <1>4, <1>5
  <2> QED BY <2>3, <1>1
<1> QED BY <1>4, <1>5, <1>6, <1>7

LEMMA DotsTyped ==
  ASSUME NEW names \in Seq(Segments)
  PROVE  Dots(names) \in Virtuals
<1>1. <<0, -1>> \in Virtuals /\ names \in Virtuals
  BY LenProperties DEF Virtuals
<1> QED BY <1>1, ConcatProperties DEF Dots, Virtuals

-----------------------------------------------------------------------------
(* Nodes and the tree.                                                     *)
LEMMA NodeTyped ==
  ASSUME TreeTyped, NEW n \in 1 .. Len(node)
  PROVE  node[n] \in Nodes /\ node[n].data \in Seq(Cells) /\ Len(node[n].data) \in Nat
         /\ Len(node) \in Nat /\ DOMAIN node = 1 .. Len(node)
<1>1. node[n] \in Nodes
  BY ElementOfSeq DEF TreeTyped
<1> QED BY <1>1, LenProperties DEF TreeTyped, Nodes

LEMMA DataSet ==
  ASSUME TreeTyped, NEW n \in 1 .. Len(node), NEW d \in Seq(Cells),
         node' = [node EXCEPT ![n].data = d], tree' = tree
  PROVE  /\ TreeTyped' /\ Len(node') = Len(node) /\ node'[n].data = d
         /\ \A m \in 1 .. Len(node) : m # n => node'[m] = node[m]
<1>1. [node[n] EXCEPT !.data = d] \in Nodes /\ [node[n] EXCEPT !.data = d].data = d
  BY NodeTyped DEF Nodes
<1>2. node' = [node EXCEPT ![n] = [node[n] EXCEPT !.data = d]]
  OBVIOUS
<1>3. /\ node' \in Seq(Nodes) /\ Len(node') = Len(node)
      /\ \A j \in 1 .. Len(node) : node'[j] = IF j = n THEN [node[n] EXCEPT !.data = d] ELSE node[j]
  BY <1>1, <1>2, ExceptSeq DEF TreeTyped
<1> QED BY <1>1, <1>3 DEF TreeTyped

LEMMA NodeAdded ==
  ASSUME TreeTyped, NEW p \in Paths, NEW n \in Nodes, Create(p, n)
  PROVE  /\ TreeTyped' /\ Len(node') = Len(node) + 1 /\ node'[Len(node) + 1] = n
         /\ \A m \in 1 .. Len(node) : node'[m] = node[m]
<1>1. Len(node) \in Nat /\ node \in Seq(Nodes) /\ tree \in [Paths -> 0 .. Len(node)]
  BY LenProperties DEF TreeTyped
<1>2. /\ node' \in Seq(Nodes) /\ Len(node') = Len(node) + 1 /\ node'[Len(node) + 1] = n
      /\ \A m \in 1 .. Len(node) : node'[m] = node[m]
  BY <1>1, AppendProperties DEF Create
<1>3. tree' \in [Paths -> 0 .. Len(node) + 1]
  BY <1>1 DEF Create
<1> QED BY <1>2, <1>3 DEF TreeTyped

LEMMA Removed ==
  ASSUME TreeTyped, NEW p, OsRemove(p)
  PROVE  TreeTyped' /\ node' = node
<1>1. Len(node) \in Nat
  BY LenProperties DEF TreeTyped
<1> QED BY <1>1 DEF OsRemove, TreeTyped

LEMMA Renamed ==
  ASSUME TreeTyped, NEW p, NEW q, OsRename(p, q)
  PROVE  TreeTyped' /\ node' = node
<1>1. Len(node) \in Nat
  BY LenProperties DEF TreeTyped
<1> DEFINE under(r) == r = q \/ r \in Below(q)
           from(r)  == p \o SubSeq(r, Len(q) + 1, Len(r))
           gone(r)  == r = p \/ r \in Below(p)
<1>2. tree' = [r \in Paths |-> IF under(r) THEN IF from(r) \in Paths THEN tree[from(r)] ELSE 0
                               ELSE IF gone(r) THEN 0 ELSE tree[r]]
      /\ node' = node
  BY DEF OsRename
<1> HIDE DEF under, from, gone
<1> QED BY <1>1, <1>2 DEF TreeTyped

(* What a path names, if it is a file.                                     *)
LEMMA FileNamed ==
  ASSUME TreeTyped, NEW p, IsFile(p)
  PROVE  p \in Paths /\ NodeAt(p) \in 1 .. Len(node)
<1>1. Len(node) \in Nat
  BY LenProperties DEF TreeTyped
<1> QED BY <1>1 DEF TreeTyped, IsFile, IsDir, Exists, NodeAt

-----------------------------------------------------------------------------
(* What a step that leaves a part alone keeps of it.                       *)
LEMMA LogSame ==
  ASSUME LogExact, log' = log, Len(node) \in Nat, Len(node') \in Nat, Len(node) <= Len(node'),
         \A m \in 1 .. Len(node) : node'[m].data = node[m].data
  PROVE  LogExact'
  BY DEF LogExact

LEMMA FdsSame ==
  ASSUME FdsTyped, UNCHANGED <<fds, nextFd>>,
         Len(node) \in Nat, Len(node') \in Nat, Len(node) <= Len(node')
  PROVE  FdsTyped'
  BY DEF FdsTyped

LEMMA WalkSame ==
  ASSUME WalkOn, dir' = dir,
         \A fd \in DOMAIN fds : /\ fd \in DOMAIN fds'
                                /\ fds'[fd].loaded = fds[fd].loaded /\ fds'[fd].ents = fds[fd].ents
  PROVE  WalkOn'
<1>1. dir = NoDir => WalkOn'
  BY DEF WalkOn, NoDir
<1>2. ASSUME dir # NoDir PROVE WalkOn'
  <2>1. dir.fd \in DOMAIN fds /\ fds'[dir.fd].loaded = fds[dir.fd].loaded
        /\ fds'[dir.fd].ents = fds[dir.fd].ents /\ dir.fd \in DOMAIN fds'
    BY <1>2 DEF WalkOn
  <2> QED BY <1>2, <2>1 DEF WalkOn, Dots, NoDir
<1> QED BY <1>1, <1>2

LEMMA Allocated ==
  ASSUME FdsTyped, NEW e \in Entries, allocFd(e), ~e.isDir => e.ino \in 1 .. Len(node'),
         Len(node) \in Nat, Len(node') \in Nat, Len(node) <= Len(node')
  PROVE  FdsTyped' /\ \A fd \in DOMAIN fds : fd \in DOMAIN fds' /\ fds'[fd] = fds[fd]
<1>1. /\ fds' = [y \in DOMAIN fds \cup {nextFd} |-> IF y = nextFd THEN e ELSE fds[y]]
      /\ nextFd' = nextFd + 1
  BY DEF allocFd, With
<1>2. DOMAIN fds' = DOMAIN fds \cup {nextFd}
  BY <1>1
<1>3. nextFd \in Nat /\ preopenFd < nextFd /\ DOMAIN fds \subseteq preopenFd .. nextFd - 1 /\ preopenFd \in Nat
  BY DEF FdsTyped, preopenFd
<1>4. nextFd \notin DOMAIN fds
  BY <1>3
<1>5. \A fd \in DOMAIN fds : fd \in DOMAIN fds' /\ fds'[fd] = fds[fd]
  BY <1>1, <1>2, <1>4
<1>6. fds'[nextFd] = e
  BY <1>1
<1>7. \A fd \in DOMAIN fds' : fds'[fd] \in Entries /\ (~fds'[fd].isDir => fds'[fd].ino \in 1 .. Len(node'))
  BY <1>2, <1>5, <1>6 DEF FdsTyped
<1>8. DOMAIN fds' \subseteq preopenFd .. nextFd' - 1 /\ nextFd' \in Nat /\ preopenFd < nextFd'
  BY <1>1, <1>2, <1>3
<1>9. fds' \in [DOMAIN fds' -> Entries]
  BY <1>1, <1>2, <1>7
<1> QED BY <1>5, <1>7, <1>8, <1>9 DEF FdsTyped, preopenFd

(* A descriptor's position or reported flag changes.                       *)
LEMMA EntryKept ==
  ASSUME FdsTyped, NEW fd \in DOMAIN fds, NEW e \in Entries, fds' = [fds EXCEPT ![fd] = e],
         e.ino = fds[fd].ino, e.isDir = fds[fd].isDir, nextFd' = nextFd, Len(node') = Len(node)
  PROVE  FdsTyped'
<1>1. DOMAIN fds' = DOMAIN fds /\ fds' \in [DOMAIN fds -> Entries]
  BY DEF FdsTyped
<1>2. \A f \in DOMAIN fds' : fds'[f].ino = fds[f].ino /\ fds'[f].isDir = fds[f].isDir
  BY DEF FdsTyped
<1> QED BY <1>1, <1>2 DEF FdsTyped, preopenFd

LEMMA MovedKept ==
  ASSUME FdsTyped, NEW fd \in DOMAIN fds, NEW pos \in Nat, Moved(fd, pos), nextFd' = nextFd,
         Len(node') = Len(node)
  PROVE  /\ FdsTyped'
         /\ \A f \in DOMAIN fds : /\ f \in DOMAIN fds'
                                  /\ fds'[f].loaded = fds[f].loaded /\ fds'[f].ents = fds[f].ents
<1> PICK e : e = [fds[fd] EXCEPT !.pos = pos]
  OBVIOUS
<1>1. fds[fd] \in Entries
  BY DEF FdsTyped
<1>2. e \in Entries /\ e.ino = fds[fd].ino /\ e.isDir = fds[fd].isDir
      /\ e.loaded = fds[fd].loaded /\ e.ents = fds[fd].ents
  BY <1>1 DEF Entries
<1>3. fds' = [fds EXCEPT ![fd] = e]
  BY DEF Moved
<1>4. \A f \in DOMAIN fds : f \in DOMAIN fds' /\ fds'[f].loaded = fds[f].loaded /\ fds'[f].ents = fds[f].ents
  BY <1>2, <1>3
<1> QED BY <1>2, <1>3, <1>4, EntryKept

-----------------------------------------------------------------------------
(* Steps of programs on WASI descriptors.                                  *)
WasiInv == TreeTyped /\ LogExact /\ FdsTyped /\ WalkOn

LEMMA EntryTyped ==
  ASSUME NEW ino \in Nat, NEW p \in Seq(Nat), NEW d \in BOOLEAN, NEW w \in BOOLEAN, NEW a \in BOOLEAN
  PROVE  Entry(ino, p, d, w, a) \in Entries
         /\ Entry(ino, p, d, w, a).ino = ino /\ Entry(ino, p, d, w, a).isDir = d
<1>1. <<>> \in Seq(Segments)
  BY EmptySeq
<1> QED BY <1>1 DEF Entry, Entries

FileEntry(ino, p, fl) ==
    Entry(ino, p, FALSE, fl \cap {"write", "creat", "trunc", "append"} # {}, "append" \in fl)

LEMMA FileEntryTyped ==
  ASSUME NEW ino \in Nat, NEW p \in Seq(Nat), NEW fl
  PROVE  FileEntry(ino, p, fl) \in Entries /\ FileEntry(ino, p, fl).ino = ino
<1>1. <<>> \in Seq(Segments)
  BY EmptySeq
<1> QED BY <1>1 DEF FileEntry, Entry, Entries

LEMMA OpenDirStep ==
  ASSUME WasiInv, NEW p \in Seq(Nat), OpenDir(p)
  PROVE  WasiInv'
<1>1. NodeAt(p) \in Nat /\ Len(node) \in Nat
  BY LenProperties DEF WasiInv, TreeTyped, OpenDir, IsDir, Exists, NodeAt
<1> PICK e : e = Entry(NodeAt(p), p, TRUE, FALSE, FALSE)
  OBVIOUS
<1>2. e \in Entries /\ e.isDir
  BY <1>1, EntryTyped
<1>3. allocFd(e) /\ node' = node /\ tree' = tree /\ log' = log /\ dir' = dir
  BY DEF OpenDir, os
<1>4. FdsTyped' /\ \A fd \in DOMAIN fds : fd \in DOMAIN fds' /\ fds'[fd] = fds[fd]
  <2>1. FdsTyped /\ Len(node') = Len(node) /\ Len(node') \in Nat /\ Len(node) <= Len(node')
    BY <1>1, <1>3 DEF WasiInv
  <2> QED BY <2>1, <1>1, <1>2, <1>3, Allocated
<1>5. WalkOn'
  BY <1>3, <1>4, WalkSame DEF WasiInv
<1>6. TreeTyped' /\ LogExact'
  BY <1>3 DEF WasiInv, TreeTyped, LogExact
<1> QED BY <1>4, <1>5, <1>6 DEF WasiInv

LEMMA OpenNewFile ==
  ASSUME WasiInv, NEW p \in Seq(Nat), NEW fl, OpenRegular(p, fl), ~Exists(p)
  PROVE  WasiInv'
<1> PICK n : n = Len(node) + 1
  OBVIOUS
<1>1. Len(node) \in Nat /\ n \in Nat
  BY LenProperties DEF WasiInv, TreeTyped
<1>2. p \in Paths /\ Create(p, NewFile) /\ log' = With(log, n, <<>>) /\ dir' = dir
  BY DEF OpenRegular, MayCreate
<1>3. NewFile \in Nodes /\ NewFile.data = <<>>
  BY EmptySeq DEF NewFile, Nodes
<1>4. /\ TreeTyped' /\ Len(node') = n /\ node'[n] = NewFile
      /\ \A m \in 1 .. Len(node) : node'[m] = node[m]
  BY <1>2, <1>3, NodeAdded DEF WasiInv
<1> PICK e : e = FileEntry(n, p, fl)
  OBVIOUS
<1>5. e \in Entries /\ e.ino = n
  BY <1>1, FileEntryTyped
<1>6. allocFd(e)
  BY DEF OpenRegular, FileEntry
<1>7. FdsTyped' /\ \A fd \in DOMAIN fds : fd \in DOMAIN fds' /\ fds'[fd] = fds[fd]
  <2>1. FdsTyped
    BY DEF WasiInv
  <2>2. Len(node') \in Nat /\ Len(node) <= Len(node') /\ e.ino \in 1 .. Len(node')
    BY <1>1, <1>4, <1>5
  <2> QED BY <2>1, <2>2, <1>1, <1>5, <1>6, Allocated
<1>8. WalkOn'
  BY <1>2, <1>7, WalkSame DEF WasiInv
<1>9. LogExact'
  <2>1. DOMAIN log' = DOMAIN log \cup {n}
    BY <1>2 DEF With
  <2>2. \A m \in DOMAIN log : m \in 1 .. Len(node) /\ node[m].data = log[m] /\ m # n
    BY <1>1 DEF WasiInv, LogExact
  <2>3. log'[n] = <<>> /\ \A m \in DOMAIN log : log'[m] = log[m]
    BY <1>2, <2>2 DEF With
  <2>4. \A m \in DOMAIN log' : m \in 1 .. n /\ node'[m].data = log'[m]
    BY <1>1, <1>3, <1>4, <2>1, <2>2, <2>3
  <2> QED BY <2>4, <1>4 DEF LogExact
<1> QED BY <1>4, <1>7, <1>8, <1>9 DEF WasiInv

LEMMA OpenOldFile ==
  ASSUME WasiInv, NEW p \in Seq(Nat), NEW fl, OpenRegular(p, fl), Exists(p)
  PROVE  WasiInv'
<1> PICK n : n = NodeAt(p)
  OBVIOUS
<1>1. Len(node) \in Nat /\ n \in 1 .. Len(node) /\ n \in Nat
  <2>1. IsFile(p) /\ Len(node) \in Nat
    BY LenProperties DEF WasiInv, TreeTyped, OpenRegular
  <2> QED BY <2>1, FileNamed DEF WasiInv
<1>2. /\ node' = IF "trunc" \in fl THEN [node EXCEPT ![n].data = <<>>] ELSE node
      /\ tree' = tree /\ dir' = dir
      /\ log' = IF "trunc" \in fl /\ n \in DOMAIN log THEN [log EXCEPT ![n] = <<>>] ELSE log
  BY DEF OpenRegular
<1>3. /\ TreeTyped' /\ Len(node') = Len(node)
      /\ \A m \in 1 .. Len(node) :
            node'[m].data = IF "trunc" \in fl /\ m = n THEN <<>> ELSE node[m].data
  <2>1. CASE "trunc" \in fl
    <3>1. <<>> \in Seq(Cells)
      BY EmptySeq
    <3>2. /\ TreeTyped' /\ Len(node') = Len(node) /\ node'[n].data = <<>>
          /\ \A m \in 1 .. Len(node) : m # n => node'[m] = node[m]
      BY <1>1, <1>2, <2>1, <3>1, DataSet DEF WasiInv
    <3> QED BY <2>1, <3>2
  <2>2. CASE "trunc" \notin fl
    BY <1>2, <2>2 DEF WasiInv, TreeTyped
  <2> QED BY <2>1, <2>2
<1> PICK e : e = FileEntry(n, p, fl)
  OBVIOUS
<1>5. e \in Entries /\ e.ino = n
  BY <1>1, FileEntryTyped
<1>6. allocFd(e)
  BY DEF OpenRegular, FileEntry
<1>7. FdsTyped' /\ \A fd \in DOMAIN fds : fd \in DOMAIN fds' /\ fds'[fd] = fds[fd]
  <2>1. FdsTyped
    BY DEF WasiInv
  <2>2. Len(node') \in Nat /\ Len(node) <= Len(node') /\ e.ino \in 1 .. Len(node')
    BY <1>1, <1>3, <1>5
  <2> QED BY <2>1, <2>2, <1>1, <1>5, <1>6, Allocated
<1>8. WalkOn'
  BY <1>2, <1>7, WalkSame DEF WasiInv
<1>9. LogExact'
  BY <1>2, <1>3 DEF WasiInv, LogExact
<1> QED BY <1>3, <1>7, <1>8, <1>9 DEF WasiInv

LEMMA OpenStep ==
  ASSUME WasiInv, NEW dirfd, NEW abs \in BOOLEAN, NEW rel \in Paths, NEW fl,
         Xpath_open(dirfd, abs, rel, fl)
  PROVE  WasiInv'
<1> PICK p : p = Resolved(dirfd, abs, rel)
  OBVIOUS
<1>1. p \in Seq(Nat)
  <2>1. rel \in Seq(Nat) /\ <<>> \in Seq(Nat)
    BY PathsAssumption, EmptySeq
  <2>2. fds[dirfd].path \in Seq(Nat)
    BY DEF WasiInv, FdsTyped, Entries, Xpath_open, Open
  <2> QED BY <2>1, <2>2, ConcatProperties DEF Resolved
<1>2. OpenDir(p) \/ OpenRegular(p, fl)
  BY DEF Xpath_open
<1> QED BY <1>1, <1>2, OpenDirStep, OpenNewFile, OpenOldFile

(* A descriptor of a file stands somewhere in a node.                      *)
LEMMA RegularNode ==
  ASSUME WasiInv, NEW fd, Regular(fd)
  PROVE  /\ fd \in DOMAIN fds /\ fds[fd] \in Entries /\ fds[fd].pos \in Nat
         /\ fds[fd].ino \in 1 .. Len(node) /\ Len(node) \in Nat
         /\ Data(fd) \in Seq(Cells) /\ Len(Data(fd)) \in Nat
<1>1. fd \in DOMAIN fds /\ fds[fd] \in Entries /\ fds[fd].ino \in 1 .. Len(node)
  BY DEF WasiInv, FdsTyped, Regular, Open
<1>2. fds[fd].pos \in Nat
  BY <1>1 DEF Entries
<1>3. /\ node[fds[fd].ino].data \in Seq(Cells) /\ Len(node[fds[fd].ino].data) \in Nat
      /\ Len(node) \in Nat
  BY <1>1, NodeTyped DEF WasiInv
<1> QED BY <1>1, <1>2, <1>3 DEF Data

LEMMA MovedStep ==
  ASSUME WasiInv, NEW fd \in DOMAIN fds, NEW pos \in Nat, Moved(fd, pos),
         UNCHANGED <<tree, node, nextFd, dir, log>>
  PROVE  WasiInv'
<1>1. FdsTyped' /\ \A f \in DOMAIN fds : /\ f \in DOMAIN fds'
                     /\ fds'[f].loaded = fds[f].loaded /\ fds'[f].ents = fds[f].ents
  BY MovedKept DEF WasiInv
<1>2. WalkOn'
  BY <1>1, WalkSame DEF WasiInv
<1> QED BY <1>1, <1>2 DEF WasiInv, TreeTyped, LogExact

LEMMA ReadStep ==
  ASSUME WasiInv, NEW fd, NEW n \in Nat, Xfd_read(fd, n)
  PROVE  WasiInv'
<1>1. /\ fd \in DOMAIN fds /\ fds[fd].pos \in Nat /\ Len(Data(fd)) \in Nat
  BY RegularNode DEF Xfd_read
<1>2. \A a, b \in Nat : Min({a, b}) \in Nat /\ Max({a, b}) \in Nat
  <2>1. \A a, b \in Nat : Min({a, b}) = IF a <= b THEN a ELSE b
    BY DEF Min
  <2>2. \A a, b \in Nat : Max({a, b}) = IF a <= b THEN b ELSE a
    BY DEF Max
  <2> QED BY <2>1, <2>2
<1>3. readInto(Data(fd), fds[fd].pos, n) \in Nat
  <2>1. fds[fd].pos + n \in Nat
    BY <1>1
  <2>2. Min({fds[fd].pos + n, Len(Data(fd))}) \in Nat
    BY <1>1, <1>2, <2>1
  <2> QED BY <1>1, <1>2, <2>2 DEF readInto
<1> QED BY <1>1, <1>3, MovedStep DEF Xfd_read, os

LEMMA SeekStep ==
  ASSUME WasiInv, NEW fd, NEW offset \in Int, NEW whence \in {"set", "cur", "end"},
         Xfd_seek(fd, offset, whence)
  PROVE  WasiInv'
<1>1. fd \in DOMAIN fds /\ fds[fd].pos \in Nat /\ Len(Data(fd)) \in Nat
  BY RegularNode DEF Xfd_seek
<1>2. PICK base : base + offset \in 0 .. MaxSize /\ Moved(fd, base + offset) /\ base \in Int
  BY <1>1 DEF Xfd_seek
<1>3. base + offset \in Nat
  BY <1>2, PathsAssumption
<1> QED BY <1>1, <1>2, <1>3, MovedStep DEF Xfd_seek, os

LEMMA FlagStep ==
  ASSUME WasiInv, NEW fd, NEW append \in BOOLEAN, Xfd_fdstat_set_flags(fd, append)
  PROVE  WasiInv'
<1> PICK e : e = [fds[fd] EXCEPT !.appendF = append]
  OBVIOUS
<1>1. fd \in DOMAIN fds /\ fds[fd] \in Entries /\ fds' = [fds EXCEPT ![fd] = e]
      /\ UNCHANGED <<tree, node, nextFd, dir, log>>
  BY DEF Xfd_fdstat_set_flags, Open, WasiInv, FdsTyped, os
<1>2. e \in Entries /\ e.ino = fds[fd].ino /\ e.isDir = fds[fd].isDir
      /\ e.loaded = fds[fd].loaded /\ e.ents = fds[fd].ents
  BY <1>1 DEF Entries
<1>3. FdsTyped'
  BY <1>1, <1>2, EntryKept DEF WasiInv
<1>4. \A f \in DOMAIN fds : f \in DOMAIN fds' /\ fds'[f].loaded = fds[f].loaded /\ fds'[f].ents = fds[f].ents
  BY <1>1, <1>2
<1>5. WalkOn'
  BY <1>1, <1>4, WalkSame DEF WasiInv
<1> QED BY <1>1, <1>3, <1>5 DEF WasiInv, TreeTyped, LogExact

LEMMA CloseStep ==
  ASSUME WasiInv, NEW fd, Xfd_close(fd)
  PROVE  WasiInv'
<1>1. /\ fds' = [f \in DOMAIN fds \ {fd} |-> fds[f]]
      /\ dir' = IF dir.fd = fd THEN NoDir ELSE dir
      /\ UNCHANGED <<tree, node, nextFd, log>>
  BY DEF Xfd_close, os
<1>2. DOMAIN fds' = DOMAIN fds \ {fd} /\ \A f \in DOMAIN fds' : fds'[f] = fds[f]
  BY <1>1
<1>3. FdsTyped'
  <2>1. fds' \in [DOMAIN fds' -> Entries]
    BY <1>1, <1>2 DEF WasiInv, FdsTyped
  <2> QED BY <2>1, <1>1, <1>2 DEF WasiInv, FdsTyped, preopenFd
<1>4. WalkOn'
  <2>1. CASE dir' = NoDir
    BY <2>1 DEF WalkOn, NoDir
  <2>2. CASE dir' = dir /\ dir # NoDir /\ dir.fd # fd
    <3>1. dir.fd \in DOMAIN fds' /\ fds'[dir.fd] = fds[dir.fd]
      BY <2>2, <1>2 DEF WasiInv, WalkOn
    <3> QED BY <2>2, <3>1 DEF WasiInv, WalkOn, Dots, NoDir
  <2> QED BY <1>1, <2>1, <2>2
<1> QED BY <1>1, <1>3, <1>4 DEF WasiInv, TreeTyped, LogExact

(* Writing: an appender adds to file and log alike, others end the log.    *)
LEMMA WrittenLog ==
  ASSUME TreeTyped, LogExact, NEW n \in 1 .. Len(node), NEW chunk \in Seq(Cells), NEW append \in BOOLEAN,
         NEW d \in Seq(Cells), append => d = node[n].data \o chunk,
         node' = [node EXCEPT ![n].data = d], tree' = tree, log' = Logged(n, chunk, append)
  PROVE  LogExact'
<1>1. /\ Len(node') = Len(node) /\ node'[n].data = d
      /\ \A m \in 1 .. Len(node) : m # n => node'[m] = node[m]
  BY DataSet
<1>2. \A m \in DOMAIN log : m \in 1 .. Len(node) /\ node[m].data = log[m]
  BY DEF LogExact
<1>3. CASE n \notin DOMAIN log
  <2>1. log' = log
    BY <1>3 DEF Logged
  <2> QED BY <1>1, <1>2, <1>3, <2>1 DEF LogExact
<1>4. CASE n \in DOMAIN log /\ append
  <2>1. log' = [log EXCEPT ![n] = log[n] \o chunk]
    BY <1>4 DEF Logged
  <2>2. DOMAIN log' = DOMAIN log /\ log'[n] = log[n] \o chunk
        /\ \A m \in DOMAIN log : m # n => log'[m] = log[m]
    BY <2>1, <1>4
  <2>3. node'[n].data = log'[n]
    BY <1>1, <1>2, <1>4, <2>2
  <2> QED BY <1>1, <1>2, <2>2, <2>3 DEF LogExact
<1>5. CASE n \in DOMAIN log /\ ~append
  <2>1. DOMAIN log' = DOMAIN log \ {n} /\ \A m \in DOMAIN log' : log'[m] = log[m]
    BY <1>5 DEF Logged
  <2> QED BY <1>1, <1>2, <2>1 DEF LogExact
<1> QED BY <1>3, <1>4, <1>5

LEMMA ChunkTyped ==
  ASSUME NEW chunk \in Chunks
  PROVE  chunk \in Seq(Cells) /\ Len(chunk) \in Nat
<1>1. PICK b \in Bytes : chunk = <<b>>
  BY DEF Chunks
<1>2. b \in Cells
  BY DEF Cells
<1> QED BY <1>1, <1>2

LEMMA WriteStep ==
  ASSUME WasiInv, NEW fd, NEW chunk \in Chunks, Xfd_write(fd, chunk)
  PROVE  WasiInv'
<1> PICK e : e = fds[fd]
  OBVIOUS
<1> PICK n : n = e.ino
  OBVIOUS
<1>1. /\ fd \in DOMAIN fds /\ e \in Entries /\ e.pos \in Nat /\ n \in 1 .. Len(node)
      /\ Data(fd) \in Seq(Cells) /\ Len(Data(fd)) \in Nat /\ Data(fd) = node[n].data
  BY RegularNode DEF Xfd_write, Data
<1>2. chunk \in Seq(Cells) /\ Len(chunk) \in Nat /\ e.append \in BOOLEAN
  BY <1>1, ChunkTyped DEF Entries
<1> PICK at : at = IF e.append THEN Len(Data(fd)) ELSE e.pos
  OBVIOUS
<1> PICK d : d = Overwritten(Data(fd), at, chunk)
  OBVIOUS
<1>3. at \in Nat /\ at + Len(chunk) \in Nat /\ d \in Seq(Cells)
  BY <1>1, <1>2, OverwrittenTyped
<1>4. /\ node' = [node EXCEPT ![n].data = d] /\ Moved(fd, at + Len(chunk))
      /\ log' = Logged(n, chunk, e.append) /\ UNCHANGED <<tree, nextFd, dir>>
  BY DEF Xfd_write, writeFrom, SetData
<1>5. TreeTyped' /\ Len(node') = Len(node)
  BY <1>1, <1>3, <1>4, DataSet DEF WasiInv
<1>6. FdsTyped' /\ \A f \in DOMAIN fds : /\ f \in DOMAIN fds'
                     /\ fds'[f].loaded = fds[f].loaded /\ fds'[f].ents = fds[f].ents
  BY <1>1, <1>3, <1>4, <1>5, MovedKept DEF WasiInv
<1>7. WalkOn'
  BY <1>4, <1>6, WalkSame DEF WasiInv
<1>8. e.append => d = node[n].data \o chunk
  BY <1>1, <1>2, OverwrittenAtEnd
<1>9. LogExact'
  BY <1>1, <1>2, <1>3, <1>4, <1>8, WrittenLog DEF WasiInv
<1> QED BY <1>5, <1>6, <1>7, <1>9 DEF WasiInv

LEMMA PwriteStep ==
  ASSUME WasiInv, NEW fd, NEW off \in Nat, NEW chunk \in Chunks, Xfd_pwrite(fd, off, chunk)
  PROVE  WasiInv'
<1> PICK n : n = fds[fd].ino
  OBVIOUS
<1>1. n \in 1 .. Len(node) /\ Data(fd) \in Seq(Cells) /\ Len(node) \in Nat
  BY RegularNode DEF Xfd_pwrite
<1>2. chunk \in Seq(Cells)
  BY ChunkTyped
<1> PICK d : d = Overwritten(Data(fd), off, chunk)
  OBVIOUS
<1>3. d \in Seq(Cells)
  BY <1>1, <1>2, OverwrittenTyped
<1>4. /\ node' = [node EXCEPT ![n].data = d]
      /\ log' = Logged(n, chunk, FALSE) /\ UNCHANGED <<tree, fds, nextFd, dir>>
  BY DEF Xfd_pwrite, writeFrom, SetData
<1>5. TreeTyped' /\ Len(node') = Len(node)
  BY <1>1, <1>3, <1>4, DataSet DEF WasiInv
<1>6. FdsTyped' /\ WalkOn'
  BY <1>1, <1>4, <1>5, FdsSame, WalkSame DEF WasiInv
<1>7. LogExact'
  BY <1>1, <1>2, <1>3, <1>4, WrittenLog DEF WasiInv
<1> QED BY <1>5, <1>6, <1>7 DEF WasiInv

(* A call of fd_readdir goes on in the listing where the last one ended.   *)
LEMMA ReaddirStep ==
  ASSUME WasiInv, NEW fd, NEW len \in Nat, Xfd_readdir(fd, len)
  PROVE  WasiInv'
<1> PICK names : names = Listing(fd)
  OBVIOUS
<1> PICK v : v = Dots(names)
  OBVIOUS
<1> PICK c : c = dir.cookie
  OBVIOUS
<1> PICK k : k = WholeRecords(v, c, len)
  OBVIOUS
<1>1. fd \in DOMAIN fds /\ fds[fd] \in Entries /\ fd # 0 /\ fds[fd].loaded \in BOOLEAN
  BY DEF Xfd_readdir, Open, WasiInv, FdsTyped, preopenFd, Entries
<1>2. names \in Seq(Segments)
  BY <1>1, NamesInOrder DEF Listing, Entries
<1>3. v \in Virtuals /\ Len(v) \in Nat
  BY <1>2, DotsTyped, LenProperties DEF Virtuals
<1>4. c \in 0 .. Len(v) /\ dir.got = SubSeq(v, 1, c) /\ (dir.fd = fd => dir.want = v)
  <2>1. CASE dir = NoDir
    <3>1. SubSeq(v, 1, 0) = <<>>
      BY SubSeqEmpty
    <3> QED BY <2>1, <3>1, <1>1, <1>3 DEF NoDir
  <2>2. CASE dir # NoDir
    <3>1. dir.fd # 0
      BY <2>2 DEF WasiInv, WalkOn, FdsTyped, preopenFd
    <3>2. dir.fd = fd
      BY <3>1 DEF Xfd_readdir
    <3>3. names = fds[fd].ents
      BY <2>2, <3>2 DEF Listing, WasiInv, WalkOn
    <3> QED BY <2>2, <3>2, <3>3 DEF WasiInv, WalkOn
  <2> QED BY <2>1, <2>2
<1>5. k \in 0 .. Len(v) - c /\ (~BufFull(v, c, len) => k = Len(v) - c)
  BY <1>3, <1>4, WholeInListing
<1>6. /\ fds' = [fds EXCEPT ![fd].loaded = TRUE, ![fd].ents = names]
      /\ dir' = [fd |-> fd, cookie |-> c + k, want |-> IF dir.fd = 0 THEN v ELSE dir.want,
                 got |-> dir.got \o SubSeq(v, c + 1, c + k), done |-> ~BufFull(v, c, len)]
      /\ UNCHANGED <<tree, node, nextFd, log>> /\ dir.fd \in {0, fd}
  BY DEF Xfd_readdir, NextCookie, os
<1> PICK e : e = [fds[fd] EXCEPT !.loaded = TRUE, !.ents = names]
  OBVIOUS
<1>7. fds' = [fds EXCEPT ![fd] = e]
  BY <1>1, <1>6
<1>8. e \in Entries /\ e.ino = fds[fd].ino /\ e.isDir = fds[fd].isDir /\ e.loaded /\ e.ents = names
  BY <1>1, <1>2 DEF Entries
<1>9. FdsTyped'
  BY <1>1, <1>6, <1>7, <1>8, EntryKept DEF WasiInv
<1>10. WalkOn'
  <2>1. fds'[fd] = e /\ fd \in DOMAIN fds'
    BY <1>1, <1>7
  <2>2. dir'.fd = fd /\ dir'.want = v /\ dir'.cookie = c + k /\ dir'.done = ~BufFull(v, c, len)
    BY <1>4, <1>6
  <2>3. dir'.got = SubSeq(v, 1, c + k)
    <3>1. dir'.got = dir.got \o SubSeq(v, c + 1, c + k)
      BY <1>6
    <3>2. v \in Seq(Segments \cup {-1, 0})
      BY <1>3 DEF Virtuals
    <3>3. SubSeq(v, 1, c) \o SubSeq(v, c + 1, c + k) = SubSeq(v, 1, c + k)
      BY <3>2, <1>4, <1>5, SubSeqJoin
    <3> QED BY <3>1, <3>3, <1>4
  <2>4. c + k \in 0 .. Len(v) /\ (dir'.done => c + k = Len(v))
    <3>1. c \in Nat /\ k \in Nat /\ c + k <= Len(v) /\ (k = Len(v) - c => c + k = Len(v))
      BY <1>3, <1>4, <1>5
    <3>2. dir'.done => k = Len(v) - c
      BY <2>2, <1>5
    <3> QED BY <3>1, <3>2, <1>3
  <2>5. dir'.done \in BOOLEAN
    BY <2>2
  <2> QED BY <1>8, <2>1, <2>2, <2>3, <2>4, <2>5 DEF WalkOn, Dots
<1> QED BY <1>6, <1>9, <1>10 DEF WasiInv, TreeTyped, LogExact

LEMMA PathStepKeeps ==
  ASSUME WasiInv, PathStep
  PROVE  WasiInv'
<1>1. Len(node) \in Nat
  BY LenProperties DEF WasiInv, TreeTyped
<1>2. UNCHANGED <<fds, nextFd, dir, log>>
  BY DEF PathStep, Xpath_create_directory, Xpath_unlink_file, Xpath_remove_directory, Xpath_rename, wasi
<1>3. /\ TreeTyped' /\ Len(node') \in Nat /\ Len(node) <= Len(node')
      /\ \A m \in 1 .. Len(node) : node'[m].data = node[m].data
  <2>1. ASSUME NEW p \in Paths, Mkdir(p)
        PROVE  /\ TreeTyped' /\ Len(node') \in Nat /\ Len(node) <= Len(node')
               /\ \A m \in 1 .. Len(node) : node'[m].data = node[m].data
    <3>1. NewDir \in Nodes
      BY EmptySeq DEF NewDir, Nodes
    <3>2. Create(p, NewDir)
      BY <2>1 DEF Mkdir
    <3> QED BY <1>1, <3>1, <3>2, NodeAdded DEF WasiInv
  <2>2. ASSUME NEW p \in Paths, OsRemove(p) PROVE TreeTyped' /\ node' = node
    BY <2>2, Removed DEF WasiInv
  <2>3. ASSUME NEW p \in Paths, NEW q \in Paths, OsRename(p, q) PROVE TreeTyped' /\ node' = node
    BY <2>3, Renamed DEF WasiInv
  <2> QED BY <1>1, <2>1, <2>2, <2>3
          DEF PathStep, Xpath_create_directory, Xpath_unlink_file, Xpath_remove_directory, Xpath_rename
<1>4. LogExact' /\ FdsTyped' /\ WalkOn'
  BY <1>1, <1>2, <1>3, LogSame, FdsSame, WalkSame DEF WasiInv
<1> QED BY <1>3, <1>4 DEF WasiInv

LEMMA FileKeeps ==
  ASSUME WasiInv, FileNext
  PROVE  WasiInv'
<1>1. ASSUME NEW abs \in BOOLEAN, NEW rel \in Paths, NEW fl, Xpath_open(preopenFd, abs, rel, fl)
      PROVE  WasiInv'
  BY <1>1, OpenStep
<1>2. ASSUME NEW p \in Paths, Xpath_unlink_file(p) PROVE WasiInv'
  BY <1>2, PathStepKeeps DEF PathStep
<1>3. ASSUME NEW fd, Xfd_read(fd, 1) PROVE WasiInv'
  BY <1>3, ReadStep
<1>4. ASSUME NEW fd, NEW c \in Chunks, Xfd_write(fd, c) \/ Xfd_pwrite(fd, 0, c) PROVE WasiInv'
  BY <1>4, WriteStep, PwriteStep
<1>5. ASSUME NEW fd, NEW w \in {"set", "cur", "end"}, Xfd_seek(fd, IF w = "cur" THEN -1 ELSE 0, w)
      PROVE  WasiInv'
  BY <1>5, SeekStep
<1>6. ASSUME NEW fd, NEW a \in BOOLEAN, Xfd_fdstat_set_flags(fd, a) PROVE WasiInv'
  BY <1>6, FlagStep
<1>7. ASSUME NEW fd, Xfd_close(fd) PROVE WasiInv'
  BY <1>7, CloseStep
<1> QED BY <1>1, <1>2, <1>3, <1>4, <1>5, <1>6, <1>7 DEF FileNext

LEMMA WalkKeeps ==
  ASSUME WasiInv, WalkNext
  PROVE  WasiInv'
<1>1. ASSUME NEW fd, NEW abs \in BOOLEAN, NEW rel \in Paths, Xpath_open(fd, abs, rel, {"directory"})
      PROVE  WasiInv'
  BY <1>1, OpenStep
<1>2. ASSUME NEW fd, Xfd_close(fd) PROVE WasiInv'
  BY <1>2, CloseStep
<1>3. ASSUME NEW fd, NEW len \in BufLens, Xfd_readdir(fd, len) PROVE WasiInv'
  BY <1>3, ReaddirStep, BuffersAssumption
<1>4. CASE PathStep
  BY <1>4, PathStepKeeps
<1>5. CASE Rewind
  <2>1. WalkOn'
    BY <1>5 DEF Rewind, WalkOn, NoDir
  <2> QED BY <1>5, <2>1 DEF Rewind, WasiInv, TreeTyped, LogExact, FdsTyped, os
<1> QED BY <1>1, <1>2, <1>3, <1>4, <1>5 DEF WalkNext

-----------------------------------------------------------------------------
(* Steps of the engine's own file system.                                  *)
HostInv == TreeTyped /\ LogExact /\ HandlesTyped /\ AppenderAlone

LEMMA HandlesSame ==
  ASSUME HandlesTyped, AppenderAlone, UNCHANGED <<hostFds, hostNextFd, log>>,
         Len(node) \in Nat, Len(node') \in Nat, Len(node) <= Len(node'),
         \A m \in 1 .. Len(node) : node'[m].data = node[m].data
  PROVE  HandlesTyped' /\ AppenderAlone'
<1>1. \A h \in DOMAIN hostFds : hostFds[h].ino \in 1 .. Len(node) /\ hostFds[h].ino \in 1 .. Len(node')
  BY DEF HandlesTyped
<1>2. HandlesTyped'
  BY <1>1 DEF HandlesTyped
<1>3. AppenderAlone'
  BY <1>1 DEF AppenderAlone
<1> QED BY <1>2, <1>3

LEMMA HandleNode ==
  ASSUME HostInv, NEW h \in DOMAIN hostFds
  PROVE  /\ hostFds[h] \in HandleTypes /\ hostFds[h].position \in Nat /\ hostFds[h].append \in BOOLEAN
         /\ hostFds[h].ino \in 1 .. Len(node) /\ Len(node) \in Nat
         /\ H!Contents(h) = node[hostFds[h].ino].data
         /\ H!Contents(h) \in Seq(Cells) /\ Len(H!Contents(h)) \in Nat
<1>1. hostFds[h] \in HandleTypes /\ hostFds[h].ino \in 1 .. Len(node)
  BY DEF HostInv, HandlesTyped
<1>2. hostFds[h].position \in Nat /\ hostFds[h].append \in BOOLEAN
  BY <1>1 DEF HandleTypes
<1>3. /\ node[hostFds[h].ino].data \in Seq(Cells) /\ Len(node[hostFds[h].ino].data) \in Nat
      /\ Len(node) \in Nat
  BY <1>1, NodeTyped DEF HostInv
<1> QED BY <1>1, <1>2, <1>3 DEF H!Contents

LEMMA HandleMoved ==
  ASSUME HandlesTyped, NEW h \in DOMAIN hostFds, NEW pos \in Nat, H!Positioned(h, pos),
         hostNextFd' = hostNextFd, Len(node') = Len(node)
  PROVE  /\ HandlesTyped' /\ DOMAIN hostFds' = DOMAIN hostFds /\ hostFds'[h].position = pos
         /\ \A g \in DOMAIN hostFds :
               /\ hostFds'[g].ino = hostFds[g].ino /\ hostFds'[g].write = hostFds[g].write
               /\ hostFds'[g].append = hostFds[g].append
               /\ g # h => hostFds'[g].position = hostFds[g].position
<1> PICK r : r = [hostFds[h] EXCEPT !.position = pos]
  OBVIOUS
<1>1. hostFds[h] \in HandleTypes
  BY DEF HandlesTyped
<1>2. r \in HandleTypes /\ r.ino = hostFds[h].ino /\ r.write = hostFds[h].write
      /\ r.append = hostFds[h].append /\ r.position = pos
  BY <1>1 DEF HandleTypes
<1>3. hostFds' = [hostFds EXCEPT ![h] = r]
  BY DEF H!Positioned
<1>4. DOMAIN hostFds' = DOMAIN hostFds /\ hostFds' \in [DOMAIN hostFds -> HandleTypes]
  BY <1>2, <1>3 DEF HandlesTyped
<1>5. \A g \in DOMAIN hostFds :
               /\ hostFds'[g].ino = hostFds[g].ino /\ hostFds'[g].write = hostFds[g].write
               /\ hostFds'[g].append = hostFds[g].append
               /\ g # h => hostFds'[g].position = hostFds[g].position
  BY <1>2, <1>3
<1>6. HandlesTyped'
  BY <1>4, <1>5 DEF HandlesTyped
<1>7. hostFds'[h].position = pos
  BY <1>2, <1>3
<1> QED BY <1>4, <1>5, <1>6, <1>7

LEMMA StillAlone ==
  ASSUME AppenderAlone, DOMAIN log' \subseteq DOMAIN log, DOMAIN hostFds' = DOMAIN hostFds,
         \A g \in DOMAIN hostFds :
            /\ hostFds'[g].ino = hostFds[g].ino /\ hostFds'[g].write = hostFds[g].write
            /\ hostFds'[g].append = hostFds[g].append,
         \A g \in DOMAIN hostFds :
            hostFds[g].write /\ hostFds[g].append /\ hostFds[g].ino \in DOMAIN log' =>
               hostFds'[g].position = Len(node'[hostFds[g].ino].data)
  PROVE  AppenderAlone'
  BY DEF AppenderAlone

LEMMA Forgotten ==
  ASSUME LogExact, NEW n, log' = H!Forget(n), Len(node') = Len(node),
         \A m \in 1 .. Len(node) : m # n => node'[m].data = node[m].data
  PROVE  LogExact' /\ DOMAIN log' = DOMAIN log \ {n}
<1>1. DOMAIN log' = DOMAIN log \ {n} /\ \A m \in DOMAIN log' : log'[m] = log[m]
  BY DEF H!Forget
<1> QED BY <1>1 DEF LogExact

LEMMA CloseHandleStep ==
  ASSUME HostInv, NEW h, H!CloseHandle(h)
  PROVE  HostInv'
<1>1. /\ hostFds' = [g \in DOMAIN hostFds \ {h} |-> hostFds[g]]
      /\ UNCHANGED <<tree, node, hostNextFd, log>>
  BY DEF H!CloseHandle, H!Handles, H!os
<1>2. DOMAIN hostFds' = DOMAIN hostFds \ {h} /\ \A g \in DOMAIN hostFds' : hostFds'[g] = hostFds[g]
  BY <1>1
<1>3. hostFds' \in [DOMAIN hostFds' -> HandleTypes]
  BY <1>1, <1>2 DEF HostInv, HandlesTyped
<1>4. HandlesTyped'
  BY <1>1, <1>2, <1>3 DEF HostInv, HandlesTyped
<1>5. AppenderAlone'
  BY <1>1, <1>2 DEF HostInv, AppenderAlone
<1> QED BY <1>1, <1>4, <1>5 DEF HostInv, TreeTyped, LogExact

(* Reading and seeking: an append handle that moves ends the log.          *)
LEMMA PositionStep ==
  ASSUME HostInv, NEW h \in DOMAIN hostFds, NEW pos \in Nat, H!Positioned(h, pos),
         log' = IF hostFds[h].append THEN H!Forget(hostFds[h].ino) ELSE log,
         UNCHANGED <<tree, node, hostNextFd>>
  PROVE  HostInv'
<1>1. /\ HandlesTyped' /\ DOMAIN hostFds' = DOMAIN hostFds
      /\ \A g \in DOMAIN hostFds :
            /\ hostFds'[g].ino = hostFds[g].ino /\ hostFds'[g].write = hostFds[g].write
            /\ hostFds'[g].append = hostFds[g].append
            /\ g # h => hostFds'[g].position = hostFds[g].position
  BY HandleMoved DEF HostInv
<1>2. LogExact' /\ DOMAIN log' \subseteq DOMAIN log
      /\ (hostFds[h].append => hostFds[h].ino \notin DOMAIN log')
  <2>1. CASE hostFds[h].append
    <3>1. log' = H!Forget(hostFds[h].ino)
      BY <2>1
    <3>2. LogExact' /\ DOMAIN log' = DOMAIN log \ {hostFds[h].ino}
      BY <3>1, Forgotten DEF HostInv
    <3> QED BY <3>2
  <2>2. CASE ~hostFds[h].append
    BY <2>2 DEF HostInv, LogExact
  <2> QED BY <2>1, <2>2
<1>3. \A g \in DOMAIN hostFds :
         hostFds[g].write /\ hostFds[g].append /\ hostFds[g].ino \in DOMAIN log' =>
            hostFds'[g].position = Len(node'[hostFds[g].ino].data)
  BY <1>1, <1>2 DEF HostInv, AppenderAlone
<1>4. AppenderAlone'
  BY <1>1, <1>2, <1>3, StillAlone DEF HostInv
<1> QED BY <1>1, <1>2, <1>4 DEF HostInv, TreeTyped

LEMMA HostReadStep ==
  ASSUME HostInv, NEW h, H!Read(h, 1)
  PROVE  HostInv'
<1>1. h \in DOMAIN hostFds
  BY DEF H!Read, H!Handles
<1>2. hostFds[h].position \in Nat /\ Len(H!Contents(h)) \in Nat
  BY <1>1, HandleNode
<1> PICK pos : pos = H!Min({hostFds[h].position + 1, Len(H!Contents(h))})
  OBVIOUS
<1>3. pos \in Nat
  <2>1. \A a, b \in Nat : H!Min({a, b}) = IF a <= b THEN a ELSE b
    BY DEF H!Min
  <2> QED BY <1>2, <2>1
<1>4. /\ H!Positioned(h, pos) /\ UNCHANGED <<tree, node, hostNextFd>>
      /\ log' = IF hostFds[h].append THEN H!Forget(hostFds[h].ino) ELSE log
  BY DEF H!Read, H!os
<1> QED BY <1>1, <1>3, <1>4, PositionStep

LEMMA HostSeekStep ==
  ASSUME HostInv, NEW h, NEW location \in Nat, H!Seek(h, location)
  PROVE  HostInv'
  BY PositionStep DEF H!Seek, H!Handles, H!os

(* The contents that a handle's write leaves; its other handles stay.      *)
LEMMA HostDataSet ==
  ASSUME HostInv, NEW n \in 1 .. Len(node), NEW d \in Seq(Cells), H!SetData(n, d), tree' = tree
  PROVE  /\ TreeTyped' /\ Len(node') = Len(node) /\ node'[n].data = d
         /\ \A m \in 1 .. Len(node) : m # n => node'[m].data = node[m].data
<1>1. node' = [node EXCEPT ![n].data = d]
  BY DEF H!SetData
<1>2. /\ TreeTyped' /\ Len(node') = Len(node) /\ node'[n].data = d
      /\ \A m \in 1 .. Len(node) : m # n => node'[m] = node[m]
  BY <1>1, DataSet DEF HostInv
<1> QED BY <1>2

(* A file's contents change behind its appender's back: the log ends.      *)
LEMMA ForgetStep ==
  ASSUME HostInv, NEW n \in 1 .. Len(node), log' = H!Forget(n),
         TreeTyped', Len(node') = Len(node),
         \A m \in 1 .. Len(node) : m # n => node'[m].data = node[m].data,
         HandlesTyped', DOMAIN hostFds' = DOMAIN hostFds,
         \A g \in DOMAIN hostFds :
            /\ hostFds'[g].ino = hostFds[g].ino /\ hostFds'[g].write = hostFds[g].write
            /\ hostFds'[g].append = hostFds[g].append
            /\ hostFds[g].ino # n => hostFds'[g].position = hostFds[g].position
  PROVE  HostInv'
<1>1. LogExact' /\ DOMAIN log' = DOMAIN log \ {n}
  BY Forgotten DEF HostInv
<1>2. \A g \in DOMAIN hostFds : hostFds[g].ino \in 1 .. Len(node)
  BY DEF HostInv, HandlesTyped
<1>3. \A g \in DOMAIN hostFds :
         hostFds[g].write /\ hostFds[g].append /\ hostFds[g].ino \in DOMAIN log' =>
            hostFds'[g].position = Len(node'[hostFds[g].ino].data)
  BY <1>1, <1>2 DEF HostInv, AppenderAlone
<1>4. AppenderAlone'
  BY <1>1, <1>3, StillAlone DEF HostInv
<1> QED BY <1>1, <1>4 DEF HostInv

LEMMA HostChunkTyped ==
  ASSUME NEW c \in H!HostChunks, NEW put \in H!Parts(c)
  PROVE  put \in Seq(Cells) /\ Len(put) \in Nat
<1>1. PICK b1 \in Bytes, b2 \in Bytes : c = <<b1, b2>>
  BY DEF H!HostChunks
<1>2. b1 \in Cells /\ b2 \in Cells
  BY DEF Cells
<1>3. c \in Seq(Cells) /\ Len(c) = 2 /\ \A i \in 1 .. 1 : c[i] \in Cells
  BY <1>1, <1>2
<1>4. SubSeq(c, 1, 1) \in Seq(Cells)
  BY <1>3, SubSeqProperties
<1>5. <<>> \in Seq(Cells)
  BY EmptySeq
<1>6. put \in Seq(Cells)
  BY <1>3, <1>4, <1>5 DEF H!Parts
<1> QED BY <1>6, LenProperties

LEMMA WriteAtStep ==
  ASSUME HostInv, NEW h, NEW location \in Nat, NEW put \in Seq(Cells),
         H!WriteAt(h, location, put)
  PROVE  HostInv'
<1> PICK n : n = hostFds[h].ino
  OBVIOUS
<1> PICK d : d = H!Overwritten(H!Contents(h), location, put)
  OBVIOUS
<1>1. /\ H!SetData(n, d) /\ log' = H!Forget(n) /\ h \in DOMAIN hostFds
      /\ UNCHANGED <<tree, hostFds, hostNextFd>>
  BY DEF H!WriteAt, H!Handles
<1>2. n \in 1 .. Len(node) /\ H!Contents(h) \in Seq(Cells)
  BY <1>1, HandleNode
<1>3. d \in Seq(Cells)
  <2>1. d = Overwritten(H!Contents(h), location, put)
    BY DEF H!Overwritten, Overwritten
  <2> QED BY <1>2, <2>1, OverwrittenTyped
<1>4. /\ TreeTyped' /\ Len(node') = Len(node)
      /\ \A m \in 1 .. Len(node) : m # n => node'[m].data = node[m].data
  BY <1>1, <1>2, <1>3, HostDataSet
<1>5. HandlesTyped'
  BY <1>1, <1>4 DEF HostInv, HandlesTyped
<1> QED BY <1>1, <1>2, <1>4, <1>5, ForgetStep

(* The step of an append handle: file and log grow by what was taken.      *)
LEMMA HostWriteStep ==
  ASSUME HostInv, NEW h, NEW chunk, NEW put \in Seq(Cells), H!Write(h, chunk, put)
  PROVE  HostInv'
<1> PICK n : n = hostFds[h].ino
  OBVIOUS
<1> PICK at : at = hostFds[h].position
  OBVIOUS
<1> PICK d : d = H!Overwritten(H!Contents(h), at, put)
  OBVIOUS
<1>1. /\ H!SetData(n, d) /\ h \in DOMAIN hostFds /\ hostFds[h].write
      /\ H!Positioned(h, at + Len(put))
      /\ log' = IF n \in DOMAIN log /\ hostFds[h].append
                THEN [log EXCEPT ![n] = @ \o put] ELSE H!Forget(n)
      /\ UNCHANGED <<tree, hostNextFd>>
  BY DEF H!Write, H!Handles
<1>2. /\ n \in 1 .. Len(node) /\ H!Contents(h) \in Seq(Cells) /\ at \in Nat
      /\ H!Contents(h) = node[n].data /\ Len(node[n].data) \in Nat
  BY <1>1, HandleNode
<1>3. d = Overwritten(H!Contents(h), at, put)
  BY DEF H!Overwritten, Overwritten
<1>4. d \in Seq(Cells) /\ at + Len(put) \in Nat
  BY <1>2, <1>3, OverwrittenTyped, LenProperties
<1>5. /\ TreeTyped' /\ Len(node') = Len(node) /\ node'[n].data = d
      /\ \A m \in 1 .. Len(node) : m # n => node'[m].data = node[m].data
  BY <1>1, <1>2, <1>4, HostDataSet
<1>6. /\ HandlesTyped' /\ DOMAIN hostFds' = DOMAIN hostFds /\ hostFds'[h].position = at + Len(put)
      /\ \A g \in DOMAIN hostFds :
               /\ hostFds'[g].ino = hostFds[g].ino /\ hostFds'[g].write = hostFds[g].write
               /\ hostFds'[g].append = hostFds[g].append
               /\ g # h => hostFds'[g].position = hostFds[g].position
  BY <1>1, <1>4, <1>5, HandleMoved DEF HostInv
<1>7. CASE n \in DOMAIN log /\ hostFds[h].append
  <2>1. at = Len(node[n].data) /\ \A g \in DOMAIN hostFds : hostFds[g].write /\ hostFds[g].ino = n => g = h
    BY <1>1, <1>7 DEF HostInv, AppenderAlone
  <2>2. d = node[n].data \o put
    BY <1>2, <1>3, <2>1, OverwrittenAtEnd
  <2>3. Len(d) = at + Len(put)
    BY <1>2, <2>1, <2>2, ConcatProperties
  <2>4. DOMAIN log' = DOMAIN log /\ log'[n] = log[n] \o put
        /\ \A m \in DOMAIN log : m # n => log'[m] = log[m]
    BY <1>1, <1>7
  <2>5. \A m \in DOMAIN log : m \in 1 .. Len(node) /\ node[m].data = log[m]
    BY DEF HostInv, LogExact
  <2>6. LogExact'
    BY <1>5, <1>7, <2>2, <2>4, <2>5 DEF LogExact
  <2>7. \A g \in DOMAIN hostFds :
           hostFds[g].write /\ hostFds[g].append /\ hostFds[g].ino \in DOMAIN log' =>
              hostFds'[g].position = Len(node'[hostFds[g].ino].data)
    <3> SUFFICES ASSUME NEW g \in DOMAIN hostFds, hostFds[g].write, hostFds[g].append,
                        hostFds[g].ino \in DOMAIN log
                 PROVE  hostFds'[g].position = Len(node'[hostFds[g].ino].data)
      BY <2>4
    <3>1. CASE g = h
      BY <1>5, <1>6, <2>3, <3>1
    <3>2. CASE g # h
      <4>1. hostFds[g].ino # n /\ hostFds[g].ino \in 1 .. Len(node)
        BY <2>1, <2>5, <3>2
      <4>2. hostFds[g].position = Len(node[hostFds[g].ino].data)
        BY DEF HostInv, AppenderAlone
      <4> QED BY <1>5, <1>6, <3>2, <4>1, <4>2
    <3> QED BY <3>1, <3>2
  <2>8. AppenderAlone'
    BY <1>6, <2>4, <2>7, StillAlone DEF HostInv
  <2> QED BY <1>5, <1>6, <2>6, <2>8 DEF HostInv
<1>8. CASE ~(n \in DOMAIN log /\ hostFds[h].append)
  <2>1. log' = H!Forget(n)
    BY <1>1, <1>8
  <2>2. \A g \in DOMAIN hostFds : hostFds[g].ino # n => hostFds'[g].position = hostFds[g].position
    BY <1>6
  <2> QED BY <1>2, <1>5, <1>6, <2>1, <2>2, ForgetStep
<1> QED BY <1>7, <1>8

(* Truncating: an append writer that seeks to the end keeps its log.       *)
LEMMA TruncateStep ==
  ASSUME HostInv, NEW h, NEW size \in Nat, NEW seeks \in BOOLEAN,
         H!Truncate(h, size, seeks)
  PROVE  HostInv'
<1> PICK n : n = hostFds[h].ino
  OBVIOUS
<1> PICK old : old = H!Contents(h)
  OBVIOUS
<1> PICK d : d = [i \in 1 .. size |-> IF i <= Len(old) THEN old[i] ELSE 0]
  OBVIOUS
<1>1. /\ H!SetData(n, d) /\ h \in DOMAIN hostFds /\ hostFds[h].write
      /\ IF seeks THEN H!Positioned(h, size) ELSE UNCHANGED hostFds
      /\ log' = IF n \notin DOMAIN log THEN log
                ELSE IF seeks /\ size <= Len(old)
                THEN [log EXCEPT ![n] = SubSeq(@, 1, size)]
                ELSE H!Forget(n)
      /\ UNCHANGED <<tree, hostNextFd>>
  BY DEF H!Truncate, H!Handles
<1>2. /\ n \in 1 .. Len(node) /\ old \in Seq(Cells) /\ old = node[n].data /\ Len(old) \in Nat
  BY <1>1, HandleNode
<1>3. d \in Seq(Cells) /\ Len(d) = size
  <2>1. \A i \in 1 .. size : (IF i <= Len(old) THEN old[i] ELSE 0) \in Cells
    BY <1>2, ElementOfSeq DEF Cells
  <2> QED BY <2>1
<1>4. /\ TreeTyped' /\ Len(node') = Len(node) /\ node'[n].data = d
      /\ \A m \in 1 .. Len(node) : m # n => node'[m].data = node[m].data
  BY <1>1, <1>2, <1>3, HostDataSet
<1>5. /\ HandlesTyped' /\ DOMAIN hostFds' = DOMAIN hostFds
      /\ (seeks => hostFds'[h].position = size)
      /\ \A g \in DOMAIN hostFds :
               /\ hostFds'[g].ino = hostFds[g].ino /\ hostFds'[g].write = hostFds[g].write
               /\ hostFds'[g].append = hostFds[g].append
               /\ g # h => hostFds'[g].position = hostFds[g].position
  <2>1. CASE seeks
    BY <1>1, <1>4, <2>1, HandleMoved DEF HostInv
  <2>2. CASE ~seeks
    BY <1>1, <1>4, <2>2 DEF HostInv, HandlesTyped
  <2> QED BY <2>1, <2>2
<1>6. \A m \in DOMAIN log : m \in 1 .. Len(node) /\ node[m].data = log[m]
  BY DEF HostInv, LogExact
<1>7. CASE n \notin DOMAIN log
  <2>1. log' = log /\ LogExact'
    BY <1>1, <1>4, <1>6, <1>7 DEF LogExact
  <2>2. \A g \in DOMAIN hostFds :
           hostFds[g].write /\ hostFds[g].append /\ hostFds[g].ino \in DOMAIN log' =>
              hostFds'[g].position = Len(node'[hostFds[g].ino].data)
    BY <1>4, <1>5, <1>6, <1>7, <2>1 DEF HostInv, AppenderAlone
  <2>3. AppenderAlone'
    BY <1>5, <2>1, <2>2, StillAlone DEF HostInv
  <2> QED BY <1>4, <1>5, <2>1, <2>3 DEF HostInv
<1>8. CASE n \in DOMAIN log /\ seeks /\ size <= Len(old)
  <2>1. log' = [log EXCEPT ![n] = SubSeq(log[n], 1, size)]
    BY <1>1, <1>8
  <2>2. DOMAIN log' = DOMAIN log /\ log'[n] = SubSeq(log[n], 1, size)
        /\ \A m \in DOMAIN log : m # n => log'[m] = log[m]
    BY <1>8, <2>1
  <2>3. log[n] = old
    BY <1>2, <1>6, <1>8
  <2>4. SubSeq(old, 1, size) = d
    <3>1. \A i \in 1 .. size : old[i] \in Cells
      BY <1>2, <1>8, ElementOfSeq
    <3>2. /\ SubSeq(old, 1, size) \in Seq(Cells) /\ Len(SubSeq(old, 1, size)) = size
          /\ \A i \in 1 .. size : SubSeq(old, 1, size)[i] = old[i]
      BY <3>1, SubSeqProperties
    <3>3. \A i \in 1 .. size : d[i] = old[i]
      BY <1>2, <1>8
    <3> QED BY <1>3, <3>2, <3>3, SeqEqual
  <2>5. LogExact'
    BY <1>4, <1>6, <2>2, <2>3, <2>4 DEF LogExact
  <2>6. \A g \in DOMAIN hostFds : hostFds[g].write /\ hostFds[g].ino = n => g = h
    BY <1>1, <1>8 DEF HostInv, AppenderAlone
  <2>7. \A g \in DOMAIN hostFds :
           hostFds[g].write /\ hostFds[g].append /\ hostFds[g].ino \in DOMAIN log' =>
              hostFds'[g].position = Len(node'[hostFds[g].ino].data)
    <3> SUFFICES ASSUME NEW g \in DOMAIN hostFds, hostFds[g].write, hostFds[g].append,
                        hostFds[g].ino \in DOMAIN log
                 PROVE  hostFds'[g].position = Len(node'[hostFds[g].ino].data)
      BY <2>2
    <3>1. CASE g = h
      BY <1>3, <1>4, <1>5, <1>8, <3>1
    <3>2. CASE g # h
      <4>1. hostFds[g].ino # n /\ hostFds[g].ino \in 1 .. Len(node)
        BY <1>6, <2>6, <3>2
      <4>2. hostFds[g].position = Len(node[hostFds[g].ino].data)
        BY DEF HostInv, AppenderAlone
      <4> QED BY <1>4, <1>5, <3>2, <4>1, <4>2
    <3> QED BY <3>1, <3>2
  <2>8. AppenderAlone'
    BY <1>5, <2>2, <2>7, StillAlone DEF HostInv
  <2> QED BY <1>4, <1>5, <2>5, <2>8 DEF HostInv
<1>9. CASE n \in DOMAIN log /\ ~(seeks /\ size <= Len(old))
  <2>1. log' = H!Forget(n)
    BY <1>1, <1>9
  <2>2. \A g \in DOMAIN hostFds : hostFds[g].ino # n => hostFds'[g].position = hostFds[g].position
    BY <1>5
  <2> QED BY <1>2, <1>4, <1>5, <2>1, <2>2, ForgetStep
<1> QED BY <1>7, <1>8, <1>9

(* A handle more.                                                          *)
LEMMA HandleOpened ==
  ASSUME HandlesTyped, NEW r \in HandleTypes, r.append => r.write,
         r.ino \in 1 .. Len(node'), Len(node) \in Nat, Len(node') \in Nat, Len(node) <= Len(node'),
         hostFds' = H!With(hostFds, hostNextFd, r), hostNextFd' = hostNextFd + 1
  PROVE  /\ HandlesTyped' /\ DOMAIN hostFds' = DOMAIN hostFds \cup {hostNextFd}
         /\ hostNextFd \notin DOMAIN hostFds /\ hostFds'[hostNextFd] = r
         /\ \A g \in DOMAIN hostFds : hostFds'[g] = hostFds[g]
<1>1. hostFds' = [y \in DOMAIN hostFds \cup {hostNextFd} |-> IF y = hostNextFd THEN r ELSE hostFds[y]]
  BY DEF H!With
<1>2. hostNextFd \in Nat \ {0} /\ DOMAIN hostFds \subseteq 1 .. hostNextFd - 1
  BY DEF HandlesTyped
<1>3. hostNextFd \notin DOMAIN hostFds
  BY <1>2
<1>4. DOMAIN hostFds' = DOMAIN hostFds \cup {hostNextFd} /\ hostFds'[hostNextFd] = r
      /\ \A g \in DOMAIN hostFds : hostFds'[g] = hostFds[g]
  BY <1>1, <1>3
<1>5. \A g \in DOMAIN hostFds' : /\ hostFds'[g] \in HandleTypes /\ hostFds'[g].ino \in 1 .. Len(node')
                                 /\ (hostFds'[g].append => hostFds'[g].write)
  BY <1>4 DEF HandlesTyped
<1>6. hostFds' \in [DOMAIN hostFds' -> HandleTypes]
  BY <1>1, <1>4, <1>5
<1>7. hostNextFd' \in Nat \ {0} /\ DOMAIN hostFds' \subseteq 1 .. hostNextFd' - 1
  BY <1>2, <1>4
<1> QED BY <1>3, <1>4, <1>5, <1>6, <1>7 DEF HandlesTyped

(* Opening what is not there makes an empty file, and an empty log.        *)
LEMMA HostOpenNew ==
  ASSUME HostInv, NEW p, NEW w \in BOOLEAN, NEW c \in BOOLEAN,
         NEW o \in BOOLEAN, NEW a \in BOOLEAN, H!OpenFile(p, w, c, o, a), ~H!Exists(p)
  PROVE  HostInv'
<1> PICK n : n = Len(node) + 1
  OBVIOUS
<1>1. Len(node) \in Nat /\ n \in Nat
  BY LenProperties DEF HostInv, TreeTyped
<1> PICK r : r = [ino |-> n, write |-> w, append |-> a,
                  position |-> IF o THEN 0 ELSE H!StartPosition(n, a)]
  OBVIOUS
<1>2. /\ p \in Paths /\ H!Create(p, H!NewFile) /\ log' = H!With(log, n, <<>>) /\ (a => w)
      /\ hostNextFd' = hostNextFd + 1 /\ hostFds' = H!With(hostFds, hostNextFd, r)
  BY DEF H!OpenFile, H!MayCreate
<1>3. H!NewFile \in Nodes /\ H!NewFile.data = <<>>
  BY EmptySeq DEF H!NewFile, Nodes
<1>4. /\ TreeTyped' /\ Len(node') = n /\ node'[n] = H!NewFile
      /\ \A m \in 1 .. Len(node) : node'[m] = node[m]
  <2>1. Create(p, H!NewFile)
    BY <1>2 DEF H!Create, Create
  <2> QED BY <1>2, <1>3, <2>1, NodeAdded DEF HostInv
<1>5. H!StartPosition(n, a) = 0
  <2>1. n \notin DOMAIN node
    BY <1>1 DEF HostInv, TreeTyped
  <2> QED BY <2>1 DEF H!StartPosition
<1>6. r \in HandleTypes /\ r.ino = n /\ r.position = 0 /\ r.append = a /\ r.write = w
  BY <1>1, <1>5 DEF HandleTypes
<1>7. /\ HandlesTyped' /\ DOMAIN hostFds' = DOMAIN hostFds \cup {hostNextFd}
      /\ hostNextFd \notin DOMAIN hostFds /\ hostFds'[hostNextFd] = r
      /\ \A g \in DOMAIN hostFds : hostFds'[g] = hostFds[g]
  <2>1. HandlesTyped /\ (r.append => r.write)
    BY <1>2, <1>6 DEF HostInv
  <2>2. Len(node') \in Nat /\ Len(node) <= Len(node') /\ r.ino \in 1 .. Len(node')
    BY <1>1, <1>4, <1>6
  <2> QED BY <2>1, <2>2, <1>1, <1>2, <1>6, HandleOpened
<1>8. \A m \in DOMAIN log : m \in 1 .. Len(node) /\ node[m].data = log[m] /\ m # n
  BY <1>1 DEF HostInv, LogExact
<1>9. DOMAIN log' = DOMAIN log \cup {n} /\ log'[n] = <<>> /\ \A m \in DOMAIN log : log'[m] = log[m]
  BY <1>2, <1>8 DEF H!With
<1>10. LogExact'
  <2>1. \A m \in DOMAIN log' : m \in 1 .. n /\ node'[m].data = log'[m]
    BY <1>1, <1>3, <1>4, <1>8, <1>9
  <2> QED BY <2>1, <1>4 DEF LogExact
<1>11. \A g \in DOMAIN hostFds : hostFds[g].ino \in 1 .. Len(node) /\ hostFds[g].ino # n
  BY <1>1 DEF HostInv, HandlesTyped
<1>12. AppenderAlone'
  <2> SUFFICES ASSUME NEW h \in DOMAIN hostFds', hostFds'[h].write, hostFds'[h].ino \in DOMAIN log'
               PROVE  /\ \A g \in DOMAIN hostFds' :
                            hostFds'[g].write /\ hostFds'[g].ino = hostFds'[h].ino => g = h
                      /\ hostFds'[h].append => hostFds'[h].position = Len(node'[hostFds'[h].ino].data)
    BY DEF AppenderAlone
  <2>1. CASE h = hostNextFd
    <3>1. Len(node'[n].data) = 0
      BY <1>3, <1>4
    <3> QED BY <2>1, <3>1, <1>6, <1>7, <1>11
  <2>2. CASE h \in DOMAIN hostFds
    <3>1. hostFds'[h] = hostFds[h] /\ hostFds[h].ino \in DOMAIN log /\ hostFds[h].ino \in 1 .. Len(node)
      BY <2>2, <1>7, <1>9, <1>11
    <3> QED BY <2>2, <3>1, <1>4, <1>6, <1>7, <1>11 DEF HostInv, AppenderAlone
  <2> QED BY <2>1, <2>2, <1>7
<1> QED BY <1>4, <1>7, <1>10, <1>12 DEF HostInv

(* Opening what is there: a second writer ends the log, an append handle   *)
(* starts at the end, a truncating one at the start of nothing.            *)
LEMMA HostOpenOld ==
  ASSUME HostInv, NEW p \in Paths, NEW w \in BOOLEAN, NEW c \in BOOLEAN,
         NEW o \in BOOLEAN, NEW a \in BOOLEAN, H!OpenFile(p, w, c, o, a), H!Exists(p)
  PROVE  HostInv'
<1> PICK n : n = H!NodeAt(p)
  OBVIOUS
<1>1. Len(node) \in Nat /\ n \in 1 .. Len(node) /\ n \in Nat /\ DOMAIN node = 1 .. Len(node)
      /\ node[n].data \in Seq(Cells) /\ Len(node[n].data) \in Nat
  <2>1. Len(node) \in Nat
    BY LenProperties DEF HostInv, TreeTyped
  <2>2. p # <<>>
    BY PathsAssumption
  <2>3. n \in 1 .. Len(node)
    BY <2>1, <2>2 DEF HostInv, TreeTyped, H!Exists, H!NodeAt
  <2> QED BY <2>1, <2>3, NodeTyped DEF HostInv
<1> PICK r : r = [ino |-> n, write |-> w, append |-> a,
                  position |-> IF o THEN 0 ELSE H!StartPosition(n, a)]
  OBVIOUS
<1>2. /\ node' = IF o THEN [node EXCEPT ![n].data = <<>>] ELSE node
      /\ tree' = tree /\ (a => w)
      /\ hostNextFd' = hostNextFd + 1 /\ hostFds' = H!With(hostFds, hostNextFd, r)
  BY DEF H!OpenFile
<1>3. log' = IF w /\ H!Writers(n) # {} THEN H!Forget(n)
             ELSE IF o /\ n \in DOMAIN log THEN
                  IF H!Writers(n) = {} THEN [log EXCEPT ![n] = <<>>] ELSE H!Forget(n)
             ELSE log
  BY DEF H!OpenFile
<1>4. /\ TreeTyped' /\ Len(node') = Len(node) /\ node'[n].data = (IF o THEN <<>> ELSE node[n].data)
      /\ \A m \in 1 .. Len(node) : m # n => node'[m].data = node[m].data
  <2>1. CASE o
    <3>1. <<>> \in Seq(Cells)
      BY EmptySeq
    <3>2. /\ TreeTyped' /\ Len(node') = Len(node) /\ node'[n].data = <<>>
          /\ \A m \in 1 .. Len(node) : m # n => node'[m] = node[m]
      BY <1>1, <1>2, <2>1, <3>1, DataSet DEF HostInv
    <3> QED BY <2>1, <3>2
  <2>2. CASE ~o
    BY <1>2, <2>2 DEF HostInv, TreeTyped
  <2> QED BY <2>1, <2>2
<1>5. /\ r.position \in Nat
      /\ a => r.position = Len(node'[n].data)
  <2>1. CASE o
    <3>1. Len(node'[n].data) = 0
      BY <1>4, <2>1
    <3> QED BY <2>1, <3>1
  <2>2. CASE ~o
    BY <1>1, <1>4, <2>2 DEF H!StartPosition
  <2> QED BY <2>1, <2>2
<1>6. r \in HandleTypes /\ r.ino = n /\ r.append = a /\ r.write = w
  BY <1>1, <1>5 DEF HandleTypes
<1>7. /\ HandlesTyped' /\ DOMAIN hostFds' = DOMAIN hostFds \cup {hostNextFd}
      /\ hostNextFd \notin DOMAIN hostFds /\ hostFds'[hostNextFd] = r
      /\ \A g \in DOMAIN hostFds : hostFds'[g] = hostFds[g]
  <2>1. HandlesTyped /\ (r.append => r.write)
    BY <1>2, <1>6 DEF HostInv
  <2>2. Len(node') \in Nat /\ Len(node) <= Len(node') /\ r.ino \in 1 .. Len(node')
    BY <1>1, <1>4, <1>6
  <2> QED BY <2>1, <2>2, <1>1, <1>2, <1>6, HandleOpened
<1>8. \A m \in DOMAIN log : m \in 1 .. Len(node) /\ node[m].data = log[m]
  BY DEF HostInv, LogExact
<1> PICK W : W = {g \in DOMAIN hostFds : hostFds[g].ino = n /\ hostFds[g].write}
  OBVIOUS
<1>9. W = H!Writers(n)
  BY DEF H!Writers, H!Handles
<1>10. /\ LogExact' /\ DOMAIN log' \subseteq DOMAIN log
       /\ n \in DOMAIN log' => (w \/ o => W = {})
  <2>1. CASE log' = H!Forget(n)
    <3>1. LogExact' /\ DOMAIN log' = DOMAIN log \ {n}
      BY <2>1, <1>4, Forgotten DEF HostInv
    <3> QED BY <3>1
  <2>2. CASE log' = [log EXCEPT ![n] = <<>>] /\ o /\ n \in DOMAIN log /\ W = {}
    <3>1. DOMAIN log' = DOMAIN log /\ log'[n] = <<>> /\ \A m \in DOMAIN log : m # n => log'[m] = log[m]
      BY <2>2
    <3>2. LogExact'
      BY <1>4, <1>8, <2>2, <3>1 DEF LogExact
    <3> QED BY <2>2, <3>1, <3>2
  <2>3. CASE log' = log /\ ~(w /\ W # {}) /\ ~(o /\ n \in DOMAIN log)
    <3>1. LogExact'
      BY <1>4, <1>8, <2>3 DEF LogExact
    <3> QED BY <2>3, <3>1
  <2> QED BY <1>3, <1>9, <2>1, <2>2, <2>3
<1>11. \A g \in DOMAIN hostFds : hostFds[g].ino \in 1 .. Len(node)
  BY DEF HostInv, HandlesTyped
<1>12. AppenderAlone'
  <2> SUFFICES ASSUME NEW h \in DOMAIN hostFds', hostFds'[h].write, hostFds'[h].ino \in DOMAIN log'
               PROVE  /\ \A g \in DOMAIN hostFds' :
                            hostFds'[g].write /\ hostFds'[g].ino = hostFds'[h].ino => g = h
                      /\ hostFds'[h].append => hostFds'[h].position = Len(node'[hostFds'[h].ino].data)
    BY DEF AppenderAlone
  <2>1. CASE h = hostNextFd
    <3>1. hostFds'[h] = r /\ n \in DOMAIN log' /\ w
      BY <2>1, <1>6, <1>7
    <3>2. \A g \in DOMAIN hostFds : ~(hostFds[g].write /\ hostFds[g].ino = n)
      BY <3>1, <1>10
    <3> QED BY <2>1, <3>1, <3>2, <1>5, <1>6, <1>7
  <2>2. CASE h \in DOMAIN hostFds
    <3>1. hostFds'[h] = hostFds[h] /\ hostFds[h].ino \in DOMAIN log
      BY <2>2, <1>7, <1>10
    <3>2. /\ \A g \in DOMAIN hostFds : hostFds[g].write /\ hostFds[g].ino = hostFds[h].ino => g = h
          /\ hostFds[h].append => hostFds[h].position = Len(node[hostFds[h].ino].data)
      BY <2>2, <3>1, <1>7 DEF HostInv, AppenderAlone
    <3>3. hostFds[h].ino = n => ~w /\ ~o
      BY <2>2, <3>1, <1>10
    <3>4. node'[hostFds[h].ino].data = node[hostFds[h].ino].data
      BY <2>2, <3>3, <1>4, <1>11
    <3>5. \A g \in DOMAIN hostFds' : hostFds'[g].write /\ hostFds'[g].ino = hostFds[h].ino => g = h
      BY <2>2, <3>2, <3>3, <1>6, <1>7
    <3> QED BY <3>1, <3>2, <3>4, <3>5
  <2> QED BY <2>1, <2>2, <1>7
<1> QED BY <1>4, <1>7, <1>10, <1>12 DEF HostInv

(* Names come and go; the nodes and the handles on them stay.              *)
LEMMA NodesStay ==
  ASSUME HostInv, UNCHANGED <<hostFds, hostNextFd, log>>, TreeTyped',
         Len(node) \in Nat, Len(node') \in Nat, Len(node) <= Len(node'),
         \A m \in 1 .. Len(node) : node'[m].data = node[m].data
  PROVE  HostInv'
<1>1. LogExact'
  BY LogSame DEF HostInv
<1>2. HandlesTyped' /\ AppenderAlone'
  BY HandlesSame DEF HostInv
<1> QED BY <1>1, <1>2 DEF HostInv

LEMMA NameSteps ==
  ASSUME HostInv, NEW p, NEW q,
         H!RemoveFile(p) \/ H!MoveFile(p, q) \/ H!RemoveDirectory(p)
  PROVE  HostInv'
<1>1. Len(node) \in Nat
  BY LenProperties DEF HostInv, TreeTyped
<1>2. UNCHANGED <<hostFds, hostNextFd, log>>
  BY DEF H!RemoveFile, H!MoveFile, H!RemoveDirectory, H!host
<1>3. CASE H!OsRemove(p)
  <2>1. TreeTyped' /\ node' = node
    BY <1>1, <1>3 DEF H!OsRemove, HostInv, TreeTyped
  <2> QED BY <1>1, <1>2, <2>1, NodesStay
<1>4. CASE H!OsRename(p, q)
  <2> DEFINE under(r) == r = q \/ r \in H!Below(q)
             from(r)  == p \o SubSeq(r, Len(q) + 1, Len(r))
             gone(r)  == r = p \/ r \in H!Below(p)
  <2>1. tree' = [r \in Paths |-> IF under(r) THEN IF from(r) \in Paths THEN tree[from(r)] ELSE 0
                                 ELSE IF gone(r) THEN 0 ELSE tree[r]]
        /\ node' = node
    BY <1>4 DEF H!OsRename
  <2> HIDE DEF under, from, gone
  <2>2. TreeTyped'
    BY <1>1, <2>1 DEF HostInv, TreeTyped
  <2> QED BY <1>1, <1>2, <2>1, <2>2, NodesStay
<1>5. CASE H!RemoveDirectory(p)
  <2>1. node' = node /\ tree' = [r \in Paths |-> IF H!IsPrefix(p, r) THEN 0 ELSE tree[r]]
    BY <1>5 DEF H!RemoveDirectory
  <2>2. TreeTyped'
    BY <1>1, <2>1 DEF HostInv, TreeTyped
  <2> QED BY <1>1, <1>2, <2>1, <2>2, NodesStay
<1> QED BY <1>3, <1>4, <1>5 DEF H!RemoveFile, H!MoveFile

(* The instance's own name for the size of a set.                          *)
LEMMA SameCardinality == \A S : H!Cardinality(S) = Cardinality(S)
BY DEF H!Cardinality, Cardinality

LEMMA NodesAdded ==
  ASSUME node \in Seq(Nodes), NEW more \in Seq(Nodes), node' = node \o more
  PROVE  /\ node' \in Seq(Nodes) /\ Len(node') = Len(node) + Len(more)
         /\ \A i \in 1 .. Len(node) : node'[i] = node[i]
<1>1. Len(node) \in Nat /\ Len(more) \in Nat
  BY LenProperties
<1> QED BY <1>1, ConcatProperties

(* Making a path: the missing directories, one node each.                  *)
LEMMA CreateDirectoryStep ==
  ASSUME HostInv, NEW p, H!CreateDirectory(p)
  PROVE  HostInv'
<1> PICK missing : missing = {q \in Paths : H!IsPrefix(q, p) /\ ~H!Exists(q)}
  OBVIOUS
<1> PICK m : m = Cardinality(missing)
  OBVIOUS
<1> PICK dirs : dirs = [i \in 1 .. m |-> H!NewDir]
  OBVIOUS
<1> DEFINE above(q) == {r \in missing : H!IsPrefix(r, q)}
<1>1. /\ UNCHANGED <<hostFds, hostNextFd, log>>
      /\ node' = node \o dirs
      /\ tree' = [q \in Paths |-> IF q \in missing THEN Len(node) + Cardinality(above(q)) ELSE tree[q]]
  <2>1. UNCHANGED <<hostFds, hostNextFd, log>>
    BY DEF H!CreateDirectory, H!host
  <2>2. node' = node \o dirs
    BY SameCardinality DEF H!CreateDirectory
  <2>3. tree' = [q \in Paths |-> IF q \in missing THEN Len(node) + Cardinality(above(q)) ELSE tree[q]]
    BY SameCardinality DEF H!CreateDirectory
  <2> QED BY <2>1, <2>2, <2>3
<1>2. IsFiniteSet(missing) /\ m \in Nat
  BY PathsAssumption, FS_Subset, FS_CardinalityType
<1>3. \A q \in Paths : Cardinality(above(q)) \in 0 .. m
  <2> SUFFICES ASSUME NEW q \in Paths PROVE Cardinality(above(q)) \in 0 .. m
    OBVIOUS
  <2> PICK A : A = above(q)
    OBVIOUS
  <2>1. A \subseteq missing
    OBVIOUS
  <2>2. IsFiniteSet(A) /\ Cardinality(A) <= m /\ Cardinality(A) \in Nat
    BY <1>2, <2>1, FS_Subset, FS_CardinalityType
  <2> QED BY <1>2, <2>2
<1> HIDE DEF above
<1>4. Len(node) \in Nat /\ node \in Seq(Nodes) /\ tree \in [Paths -> 0 .. Len(node)]
  BY LenProperties DEF HostInv, TreeTyped
<1>5. dirs \in Seq(Nodes) /\ Len(dirs) = m
  <2>1. H!NewDir \in Nodes
    BY EmptySeq DEF H!NewDir, Nodes
  <2> QED BY <1>2, <2>1
<1>6. /\ node' \in Seq(Nodes) /\ Len(node') = Len(node) + m
      /\ \A i \in 1 .. Len(node) : node'[i] = node[i]
  <2>1. /\ node' \in Seq(Nodes) /\ Len(node') = Len(node) + Len(dirs)
        /\ \A i \in 1 .. Len(node) : node'[i] = node[i]
    BY <1>1, <1>4, <1>5, NodesAdded
  <2> QED BY <1>5, <2>1
<1>7. tree' \in [Paths -> 0 .. Len(node) + m]
  <2>1. \A q \in Paths : (IF q \in missing THEN Len(node) + Cardinality(above(q)) ELSE tree[q]) \in 0 .. Len(node) + m
    <3> SUFFICES ASSUME NEW q \in Paths
                 PROVE  /\ Len(node) + Cardinality(above(q)) \in 0 .. Len(node) + m
                        /\ tree[q] \in 0 .. Len(node) + m
      OBVIOUS
    <3>1. tree[q] \in 0 .. Len(node) /\ Cardinality(above(q)) \in 0 .. m
      BY <1>3, <1>4
    <3> QED BY <3>1, <1>2, <1>4
  <2> QED BY <1>1, <2>1
<1>8. TreeTyped'
  BY <1>6, <1>7 DEF TreeTyped
<1> QED BY <1>1, <1>2, <1>4, <1>6, <1>8, NodesStay

LEMMA HostKeeps ==
  ASSUME HostInv, H!HostNext
  PROVE  HostInv'
<1>1. ASSUME NEW p \in Paths, NEW w \in BOOLEAN, NEW c \in BOOLEAN, NEW o \in BOOLEAN,
             NEW a \in BOOLEAN, H!OpenFile(p, w, c, o, a)
      PROVE  HostInv'
  BY <1>1, HostOpenNew, HostOpenOld
<1>2. ASSUME NEW h, H!HandleStep(h) PROVE HostInv'
  <2>1. CASE H!CloseHandle(h)
    BY <2>1, CloseHandleStep
  <2>2. ASSUME NEW c \in H!HostChunks, NEW put \in H!Parts(c), H!Write(h, c, put) PROVE HostInv'
    BY <2>2, HostChunkTyped, HostWriteStep
  <2>3. ASSUME NEW c \in H!HostChunks, NEW at \in 0 .. 1, NEW put \in H!Parts(c), H!WriteAt(h, at, put)
        PROVE  HostInv'
    BY <2>3, HostChunkTyped, WriteAtStep
  <2>4. CASE H!Read(h, 1)
    BY <2>4, HostReadStep
  <2>5. ASSUME NEW at \in 0 .. MaxSize, H!Seek(h, at) PROVE HostInv'
    BY <2>5, HostSeekStep, PathsAssumption
  <2>6. ASSUME NEW size \in 0 .. MaxSize, NEW seeks \in BOOLEAN, H!Truncate(h, size, seeks)
        PROVE  HostInv'
    BY <2>6, TruncateStep, PathsAssumption
  <2> QED BY <1>2, <2>1, <2>2, <2>3, <2>4, <2>5, <2>6 DEF H!HandleStep
<1>3. ASSUME NEW p \in Paths, H!RemoveFile(p) \/ H!CreateDirectory(p) \/ H!RemoveDirectory(p)
      PROVE  HostInv'
  BY <1>3, NameSteps, CreateDirectoryStep
<1>4. ASSUME NEW p \in Paths, NEW q \in Paths, H!MoveFile(p, q) PROVE HostInv'
  BY <1>4, NameSteps
<1> QED BY <1>1, <1>2, <1>3, <1>4 DEF H!HostNext

-----------------------------------------------------------------------------
(* The system.                                                             *)
LEMMA FilesInit == Init => FilesInv
<1> SUFFICES ASSUME Init PROVE FilesInv
  OBVIOUS
<1>1. TreeTyped
  <2>1. NewDir \in Nodes /\ NewFile \in Nodes
    BY EmptySeq DEF NewDir, NewFile, Nodes
  <2>2. FirstNodes \in Seq(Nodes)
    BY <2>1, FirstAssumption
  <2> QED BY <2>2, FirstAssumption DEF Init, TreeTyped
<1>2. LogExact
  BY DEF Init, WasiInit, LogExact
<1>3. FdsTyped
  <2> PICK e : e = Preopen
    OBVIOUS
  <2>1. <<>> \in Seq(Nat)
    BY EmptySeq
  <2>2. e \in Entries /\ e.isDir = TRUE
    BY <2>1, EntryTyped DEF Preopen
  <2>3. fds = [fd \in {3} |-> e] /\ nextFd = 4
    BY DEF Init, WasiInit, preopenFd
  <2>4. DOMAIN fds = {3} /\ fds[3] = e
    BY <2>3
  <2> QED BY <2>2, <2>3, <2>4 DEF FdsTyped, preopenFd
<1>4. WalkOn
  BY DEF Init, WasiInit, WalkOn
<1>5. HandlesTyped /\ AppenderAlone
  <2>1. hostFds = <<>> /\ hostNextFd = 1 /\ DOMAIN hostFds = {}
    BY DEF Init, H!HostInit
  <2> QED BY <2>1 DEF HandlesTyped, AppenderAlone
<1>6. SidesApart
  <2>1. DOMAIN hostFds = {} /\ fds = [fd \in {preopenFd} |-> Preopen] /\ Preopen.isDir
    BY DEF Init, H!HostInit, WasiInit, Preopen, Entry
  <2> QED BY <2>1 DEF SidesApart
<1> QED BY <1>1, <1>2, <1>3, <1>4, <1>5, <1>6 DEF FilesInv

(* The sides meet in the tree and its nodes only.                          *)
LEMMA FilesStep == FilesInv /\ [Next]_vars => FilesInv'
<1> SUFFICES ASSUME FilesInv, [Next]_vars PROVE FilesInv'
  OBVIOUS
<1>1. WasiInv /\ HostInv
  BY DEF FilesInv, WasiInv, HostInv
<1>2. ASSUME Walk \/ File PROVE FilesInv'
  <2>1. side # "host" /\ UNCHANGED <<hostFds, hostNextFd, side>>
    BY <1>2 DEF Walk, File, hostOnly
  <2>2. WasiInv'
    BY <1>1, <1>2, FileKeeps, WalkKeeps DEF Walk, File
  <2>3. DOMAIN hostFds = {} /\ SidesApart'
    BY <2>1 DEF FilesInv, SidesApart
  <2>4. HandlesTyped' /\ AppenderAlone'
    BY <2>1, <2>3 DEF FilesInv, HandlesTyped, AppenderAlone
  <2> QED BY <2>2, <2>3, <2>4 DEF FilesInv, WasiInv
<1>3. ASSUME Host PROVE FilesInv'
  <2>1. side = "host" /\ side' = side /\ H!HostNext /\ UNCHANGED <<fds, nextFd, dir>>
    BY <1>3 DEF Host, wasiOnly
  <2>2. HostInv'
    BY <1>1, <2>1, HostKeeps
  <2>3. SidesApart' /\ \A fd \in DOMAIN fds : fds[fd].isDir
    BY <2>1 DEF FilesInv, SidesApart
  <2>4. FdsTyped'
    BY <2>1, <2>3 DEF FilesInv, FdsTyped, preopenFd
  <2>5. WalkOn'
    BY <2>1, WalkSame DEF FilesInv
  <2> QED BY <2>2, <2>3, <2>4, <2>5 DEF FilesInv, HostInv
<1>4. CASE UNCHANGED vars
  BY <1>4 DEF vars, wasiOnly, hostOnly, FilesInv, TreeTyped, LogExact, FdsTyped, WalkOn,
              HandlesTyped, AppenderAlone, SidesApart
<1> QED BY <1>2, <1>3, <1>4 DEF Next

(* The trees, descriptors, walks, handles and logs of every reachable      *)
(* state are what FilesInv says (fs.go, hostfs.go, host_fs.cpp).           *)
THEOREM FilesHold == Spec => []FilesInv
<1>1. Init => FilesInv
  BY FilesInit
<1>2. FilesInv /\ [Next]_vars => FilesInv'
  BY FilesStep
<1> QED BY <1>1, <1>2, PTL DEF Spec

(* A directory read in pieces gives each name it held at the first call    *)
(* exactly once and in order, whatever happens to it meanwhile and however *)
(* small the buffers are (fs.go fd_readdir).                               *)
THEOREM ReadingGivesEachNameOnce == Spec => []ReaddirOnce
<1>1. FilesInv => ReaddirOnce
  <2> SUFFICES ASSUME FilesInv PROVE ReaddirOnce
    OBVIOUS
  <2>1. CASE dir = NoDir
    <3>1. dir.got = <<>> /\ dir.want = <<>> /\ dir.done = FALSE
      BY <2>1 DEF NoDir
    <3>2. IsPrefix(dir.got, dir.want)
      BY <3>1, EmptySeq DEF IsPrefix
    <3> QED BY <3>1, <3>2 DEF ReaddirOnce
  <2>2. CASE dir # NoDir
    <3> PICK w : w = dir.want
      OBVIOUS
    <3> PICK c : c = dir.cookie
      OBVIOUS
    <3>1. w \in Virtuals /\ c \in 0 .. Len(w) /\ dir.got = SubSeq(w, 1, c)
          /\ (dir.done => c = Len(w)) /\ Len(w) \in Nat
      <4>1. dir.fd \in DOMAIN fds /\ w = Dots(fds[dir.fd].ents)
        BY <2>2 DEF FilesInv, WalkOn
      <4>2. fds[dir.fd].ents \in Seq(Segments)
        BY <4>1 DEF FilesInv, FdsTyped, Entries
      <4>3. w \in Virtuals /\ Len(w) \in Nat
        BY <4>1, <4>2, DotsTyped, LenProperties DEF Virtuals
      <4> QED BY <2>2, <4>3 DEF FilesInv, WalkOn
    <3>2. SubSeq(w, 1, Len(w)) = w
      BY <3>1, SubSeqFull DEF Virtuals
    <3>3. Len(SubSeq(w, 1, c)) = c /\ c <= Len(w)
      <4>1. \A i \in 1 .. c : w[i] \in Segments \cup {-1, 0}
        BY <3>1, ElementOfSeq DEF Virtuals
      <4> QED BY <4>1, <3>1, SubSeqProperties
    <3>4. IsPrefix(dir.got, w)
      BY <3>1, <3>3 DEF IsPrefix
    <3> QED BY <3>1, <3>2, <3>4 DEF ReaddirOnce
  <2> QED BY <2>1, <2>2
<1> QED BY <1>1, FilesHold, PTL

(* A file that appenders alone have written holds what they were told was  *)
(* accepted, in order: descriptors opened with O_APPEND (fs.go fd_write)   *)
(* and the engine's handles, which only keep a position (host_fs.cpp).     *)
THEOREM AppendersLoseNothing == Spec => []AppendsAtEnd
<1>1. FilesInv => AppendsAtEnd
  BY DEF FilesInv, LogExact, AppendsAtEnd, WasiAppends, H!HostAppends
<1> QED BY <1>1, FilesHold, PTL
=============================================================================
