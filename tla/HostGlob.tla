------------------------------ MODULE HostGlob ------------------------------
(***************************************************************************)
(* File patterns over the host's directories (HostFileSystem::Glob,        *)
(* ListFiles and FetchWithoutGlob in host_fs.cpp).  A path is a sequence of *)
(* names, <<>> the working directory; a component of a pattern is [lit],   *)
(* [glob] with the names it matches, or "**".  The order of the results is *)
(* left out.                                                               *)
(***************************************************************************)
EXTENDS Integers, Sequences, SequencesExt, FiniteSets, Functions

CONSTANTS
    Dirs,    \* the directories there are
    Files    \* the files there are

Lit(n) == [k |-> "lit", name |-> n]
Star(names) == [k |-> "glob", names |-> names]
Crawl == [k |-> "**"]
HasGlob(pattern) == \E i \in DOMAIN pattern : pattern[i].k # "lit"
Literally(pattern) == [i \in DOMAIN pattern |-> IF pattern[i].k = "lit" THEN pattern[i].name ELSE "*"]
Exists(path) == path \in Dirs \cup Files

(* ListFiles: nothing, silently, when the directory cannot be listed.      *)
ListFiles(dir) == IF dir \in Dirs THEN SetToSeq({p \in Dirs \cup Files : p # <<>> /\ Front(p) = dir}) ELSE <<>>

FetchWithoutGlob(path, search) ==
    IF Exists(path) THEN <<path>>
    ELSE SelectSeq([i \in DOMAIN search |-> search[i] \o path], Exists)

Work(path, at) == <<[path |-> path, at |-> at]>>
Step(found, work) == [found |-> found, work |-> work]

(* Mutant of CrawlStep: "**" does not match zero levels.                   *)
CrawlStepDeep(dir, isLast) ==
    LET listed == ListFiles(dir.path)
        Sub(p) == p \in Dirs
        subs   == SelectSeq(listed, Sub)
    IN  Step(IF isLast THEN SelectSeq(listed, LAMBDA p : ~Sub(p)) ELSE <<>>,
             FlattenSeq([i \in DOMAIN subs |-> Work(subs[i], dir.at)]))

(* One directory of a "**": zero levels, the crawl below, the files here.  *)
CrawlStep(dir, isLast) ==
    LET listed == ListFiles(dir.path)
        Sub(p) == p \in Dirs
        subs   == SelectSeq(listed, Sub)
    IN  Step(IF isLast THEN SelectSeq(listed, LAMBDA p : ~Sub(p)) ELSE <<>>,
             (IF isLast THEN <<>> ELSE Work(dir.path, dir.at + 1))
             \o FlattenSeq([i \in DOMAIN subs |-> Work(subs[i], dir.at)]))

LiteralStep(dir, name, isLast, isEmpty) ==
    LET path == dir.path \o <<name>>
    IN  IF isLast /\ ~isEmpty THEN Step(IF Exists(path) THEN <<path>> ELSE <<>>, <<>>)
        ELSE Step(<<>>, Work(path, dir.at + 1))

(* Last components match files, inner ones directories.                    *)
StarStep(dir, names, isLast) ==
    LET fit == SelectSeq(ListFiles(dir.path), LAMBDA p : (p \in Dirs) # isLast /\ Last(p) \in names)
    IN  IF isLast THEN Step(fit, <<>>) ELSE Step(<<>>, FlattenSeq([i \in DOMAIN fit |-> Work(fit[i], dir.at + 1)]))

RECURSIVE Expanded(_, _, _, _)
Expanded(pattern, relative, work, found) ==
    LET dir == Head(work)
        c   == pattern[dir.at]
        isLast == dir.at = Len(pattern)
        step == CASE c.k = "lit" -> LiteralStep(dir, c.name, isLast, relative /\ dir.at = 1)
                  [] c.k = "glob" -> StarStep(dir, c.names, isLast)
                  [] c.k = "**" -> CrawlStep(dir, isLast)
    IN  IF work = <<>> THEN found
        ELSE Expanded(pattern, relative, Tail(work) \o step.work, found \o step.found)

(* Glob.  More than one "**" is refused; an absolute pattern takes its     *)
(* first level as it stands; file_search_path comes before the working     *)
(* directory, and a pattern that finds nothing is tried as a name.         *)
Glob(pattern, absolute, search) ==
    LET crawls == Cardinality({i \in DOMAIN pattern : pattern[i].k = "**"})
        roots  == IF search = <<>> THEN Work(<<>>, 1) ELSE [i \in DOMAIN search |-> Work(search[i], 1)[1]]
        work   == IF ~absolute THEN roots
                  ELSE IF Len(pattern) > 1 THEN Work(SubSeq(Literally(pattern), 1, 1), 2) ELSE <<>>
        found  == Expanded(pattern, ~absolute /\ search = <<>>, work, <<>>)
        plain  == FetchWithoutGlob(Literally(pattern), IF absolute THEN <<>> ELSE search)
    IN  IF ~HasGlob(pattern) THEN plain
        ELSE IF crawls > 1 THEN <<"refused">>
        ELSE IF found = <<>> THEN plain ELSE found

-----------------------------------------------------------------------------
(* Which paths a pattern names: component by component, "**" any number of *)
(* directories, or when it comes last any files below.                     *)
RECURSIVE Matches(_, _)
Matches(path, pattern) ==
    IF path = <<>> \/ pattern = <<>> THEN path = pattern
    ELSE LET c == Head(pattern)
             Fits == IF c.k = "lit" THEN Head(path) = c.name ELSE Head(path) \in c.names
         IN  IF c.k = "**" THEN IF Len(pattern) = 1 THEN TRUE
                                ELSE Matches(path, Tail(pattern)) \/ Matches(Tail(path), pattern)
             ELSE Fits /\ Matches(Tail(path), Tail(pattern))
Named(pattern) ==
    {p \in Dirs \cup Files : p # <<>> /\ Matches(p, pattern) /\ (Last(pattern).k = "lit" \/ p \in Files)}
GlobDue(pattern, absolute, search) ==
    LET fixed == IF absolute THEN <<Lit(Literally(pattern)[1])>> \o Tail(pattern) ELSE pattern
        under == {p \in Dirs \cup Files : \E i \in DOMAIN search : p \in Named([j \in DOMAIN search[i] |-> Lit(search[i][j])] \o pattern)}
    IN  IF absolute \/ search = <<>> THEN Named(fixed)
        ELSE IF HasGlob(pattern) THEN under
        ELSE IF Named(pattern) # {} THEN Named(pattern) ELSE under
=============================================================================
