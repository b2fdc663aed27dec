------------------------------ MODULE OsFiles ------------------------------
(***************************************************************************)
(* The host's file system, as far as wasishim/fs.go and wasishim/hostfs.go *)
(* use it through package os: a tree of names over nodes that live on      *)
(* while a descriptor holds them.  A path is a sequence of segments below  *)
(* the root <<>>; a segment is a number, so that os.ReadDir's order of     *)
(* names is the order of numbers.                                          *)
(***************************************************************************)
EXTENDS Integers, Sequences, FiniteSets, SequencesExt

CONSTANTS
    Paths,     \* the paths of this instance, closed under parents, without <<>>
    MaxNodes,  \* bound: nodes ever made
    MaxSize,   \* bound: bytes in a file
    Bytes

ASSUME PathsAssumption ==
    /\ IsFiniteSet(Paths) /\ Paths \subseteq Seq(Nat) \ {<<>>}
    /\ \A p \in Paths : Len(p) = 1 \/ Front(p) \in Paths
    /\ MaxSize \in Nat

VARIABLES
    tree,  \* the node a path names, 0 for none
    node   \* the nodes made so far: [dir, data]

os == <<tree, node>>

NewDir == [dir |-> TRUE, data |-> <<>>]
NewFile == [dir |-> FALSE, data |-> <<>>]

Exists(p) == p = <<>> \/ (p \in Paths /\ tree[p] # 0)
IsDir(p) == p # <<>> => Exists(p) /\ node[tree[p]].dir
IsFile(p) == Exists(p) /\ ~IsDir(p)
NodeAt(p) == IF p = <<>> THEN 0 ELSE tree[p]
Below(p) == {q \in Paths : IsStrictPrefix(p, q)}

(* A table with one more entry, or another at x.                           *)
With(table, x, entry) ==
    [y \in DOMAIN table \cup {x} |-> IF y = x THEN entry ELSE table[y]]

(* os.ReadDir: the names in a directory, sorted.  The name at i has i - 1  *)
(* names before it.                                                        *)
Listed(p) == {Last(q) : q \in {r \in Paths : Front(r) = p /\ Exists(r)}}
Names(p) ==
    [i \in 1 .. Cardinality(Listed(p)) |->
        CHOOSE s \in Listed(p) : Cardinality({t \in Listed(p) : t < s}) = i - 1]

MayCreate(p) == p \in Paths /\ ~Exists(p) /\ IsDir(Front(p)) /\ Len(node) < MaxNodes
Create(p, n) == tree' = [tree EXCEPT ![p] = Len(node) + 1] /\ node' = Append(node, n)

Mkdir(p) == MayCreate(p) /\ Create(p, NewDir)

(* os.Remove of a file or of an empty directory.                           *)
OsRemove(p) ==
    /\ p \in Paths /\ Exists(p)
    /\ IsDir(p) => Names(p) = <<>>
    /\ tree' = [tree EXCEPT ![p] = 0]
    /\ UNCHANGED node

(* os.Rename: a file over a file or nothing, a directory over an empty     *)
(* directory or nothing, with all that is below it.                        *)
OsRename(p, q) ==
    /\ {p, q} \subseteq Paths /\ Exists(p) /\ IsDir(Front(q))
    /\ ~IsPrefix(p, q)
    /\ Exists(q) => IF IsDir(p) THEN IsDir(q) /\ Names(q) = <<>> ELSE IsFile(q)
    /\ \A r \in Below(p) : Exists(r) => q \o SubSeq(r, Len(p) + 1, Len(r)) \in Paths
    /\ LET under(r) == r = q \/ r \in Below(q)
           from(r)  == p \o SubSeq(r, Len(q) + 1, Len(r))
       IN  tree' = [r \in Paths |->
                      IF under(r) THEN IF from(r) \in Paths THEN tree[from(r)] ELSE 0
                      ELSE IF r = p \/ r \in Below(p) THEN 0 ELSE tree[r]]
    /\ UNCHANGED node

(* pwrite: bytes past the end are preceded by zeros.                       *)
Overwritten(data, off, chunk) ==
    [i \in 1 .. (IF off + Len(chunk) > Len(data) /\ chunk # <<>>
                 THEN off + Len(chunk) ELSE Len(data)) |->
        IF i - off \in 1 .. Len(chunk) THEN chunk[i - off]
        ELSE IF i <= Len(data) THEN data[i] ELSE 0]

SetData(n, data) == Len(data) <= MaxSize /\ node' = [node EXCEPT ![n].data = data]
=============================================================================
