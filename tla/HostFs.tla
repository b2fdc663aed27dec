------------------------------- MODULE HostFs -------------------------------
(***************************************************************************)
(* The engine's own file system: HostFileSystem of host_fs.cpp, whose      *)
(* handles keep a position of their own, over the descriptors of           *)
(* wasishim/hostfs.go, whose reads and writes all carry an offset.  The    *)
(* lock an open may ask for is FileLock's subject; here it was granted.    *)
(* Patterns are in HostGlob.                                                *)
(***************************************************************************)
EXTENDS OsFiles

CONSTANT MaxHandle  \* bound: host descriptors ever allocated

VARIABLES
    hostFds,     \* the open handles, by descriptor
    hostNextFd,
    log          \* what append writers were told their file holds (history)

host == <<hostFds, hostNextFd, log>>

HostInit == hostFds = <<>> /\ hostNextFd = 1 /\ log = <<>>

Handles == DOMAIN hostFds
Contents(h) == node[hostFds[h].ino].data
Writers(n) == {h \in Handles : hostFds[h].ino = n /\ hostFds[h].write}
Forget(n) == [m \in DOMAIN log \ {n} |-> log[m]]

(* Mutant of StartPosition: append handles start at 0 like all others.     *)
StartAtZero(n, append) == 0

(* Appending is emulated: the handle starts at the size the file has now.  *)
StartPosition(n, append) == IF append /\ n \in DOMAIN node THEN Len(node[n].data) ELSE 0

(* The flags of HostFileSystem::OpenFile, then Xhost_open.  The truncation *)
(* is part of opening.  A directory can be opened, for reading.  A second  *)
(* writer ends a file's being a log: the emulation is for one.             *)
OpenFile(p, write, create, overwrite, append) ==
    LET made == ~Exists(p)
        n    == IF made THEN Len(node) + 1 ELSE NodeAt(p)
    IN  /\ hostNextFd <= MaxHandle
        /\ append => write
        /\ IF made THEN (create \/ overwrite) /\ MayCreate(p) /\ Create(p, NewFile)
           ELSE /\ IsDir(p) => ~write /\ ~create /\ ~overwrite
                /\ node' = IF overwrite THEN [node EXCEPT ![n].data = <<>>] ELSE node
                /\ UNCHANGED tree
        /\ hostNextFd' = hostNextFd + 1
        /\ hostFds' = With(hostFds, hostNextFd,
                           [ino |-> n, write |-> write, append |-> append,
                            position |-> IF overwrite THEN 0 ELSE StartPosition(n, append)])
        /\ log' = IF made THEN With(log, n, <<>>)
                  ELSE IF write /\ Writers(n) # {} THEN Forget(n)
                  ELSE IF overwrite /\ n \in DOMAIN log THEN
                       IF Writers(n) = {} THEN [log EXCEPT ![n] = <<>>] ELSE Forget(n)
                  ELSE log

CloseHandle(h) ==
    /\ h \in Handles
    /\ hostFds' = [g \in Handles \ {h} |-> hostFds[g]]
    /\ UNCHANGED <<os, hostNextFd, log>>

Positioned(h, pos) == hostFds' = [hostFds EXCEPT ![h].position = pos]

(* Write at a location: a short one throws, its bytes stay.                *)
WriteAt(h, location, put) ==
    /\ h \in Handles /\ hostFds[h].write
    /\ SetData(hostFds[h].ino, Overwritten(Contents(h), location, put))
    /\ log' = Forget(hostFds[h].ino)
    /\ UNCHANGED <<tree, hostFds, hostNextFd>>

(* Write at the position, of chunk, of which the device took put.          *)
Write(h, chunk, put) ==
    /\ h \in Handles /\ hostFds[h].write
    /\ SetData(hostFds[h].ino, Overwritten(Contents(h), hostFds[h].position, put))
    /\ Positioned(h, hostFds[h].position + Len(put))
    /\ log' = IF hostFds[h].ino \in DOMAIN log /\ hostFds[h].append
              THEN [log EXCEPT ![hostFds[h].ino] = @ \o put] ELSE Forget(hostFds[h].ino)
    /\ UNCHANGED <<tree, hostNextFd>>

(* Read at the position; at or past the end it gives nothing.              *)
Read(h, n) ==
    /\ h \in Handles /\ ~node[hostFds[h].ino].dir
    /\ hostFds[h].position < Len(Contents(h))
    /\ Positioned(h, Min({hostFds[h].position + n, Len(Contents(h))}))
    /\ log' = IF hostFds[h].append THEN Forget(hostFds[h].ino) ELSE log
    /\ UNCHANGED <<os, hostNextFd>>

Seek(h, location) ==
    /\ h \in Handles
    /\ Positioned(h, location)
    /\ log' = IF hostFds[h].append THEN Forget(hostFds[h].ino) ELSE log
    /\ UNCHANGED <<os, hostNextFd>>

(* Truncate leaves the position; BufferedFileWriter::Truncate, the caller  *)
(* an append handle has, seeks to the new end behind it.                   *)
Truncate(h, size, seeks) ==
    /\ h \in Handles /\ hostFds[h].write
    /\ SetData(hostFds[h].ino, [i \in 1 .. size |->
                  IF i <= Len(Contents(h)) THEN Contents(h)[i] ELSE 0])
    /\ IF seeks THEN Positioned(h, size) ELSE UNCHANGED hostFds
    /\ log' = IF hostFds[h].ino \notin DOMAIN log THEN log
              ELSE IF seeks /\ size <= Len(Contents(h))
              THEN [log EXCEPT ![hostFds[h].ino] = SubSeq(@, 1, size)]
              ELSE Forget(hostFds[h].ino)
    /\ UNCHANGED <<tree, hostNextFd>>

RemoveFile(p) == OsRemove(p) /\ UNCHANGED host
MoveFile(p, q) == OsRename(p, q) /\ UNCHANGED host

(* os.MkdirAll: what is missing of the path, from the top down.            *)
CreateDirectory(p) ==
    LET missing == {q \in Paths : IsPrefix(q, p) /\ ~Exists(q)}
        above(q) == {r \in missing : IsPrefix(r, q)}
    IN  /\ p \in Paths /\ missing # {}
        /\ \A q \in Paths : IsPrefix(q, p) => ~IsFile(q)
        /\ Len(node) + Cardinality(missing) <= MaxNodes
        /\ node' = node \o [i \in 1 .. Cardinality(missing) |-> NewDir]
        /\ tree' = [q \in Paths |-> IF q \in missing THEN Len(node) + Cardinality(above(q))
                                    ELSE tree[q]]
        /\ UNCHANGED host

(* os.RemoveAll: files too, and nothing is no error.                       *)
RemoveDirectory(p) ==
    /\ Exists(p)
    /\ tree' = [q \in Paths |-> IF IsPrefix(p, q) THEN 0 ELSE tree[q]]
    /\ UNCHANGED <<node, host>>

-----------------------------------------------------------------------------
HostChunks == {<<b, c>> : b, c \in Bytes}
Parts(c) == {<<>>, SubSeq(c, 1, 1), c}

HandleStep(h) ==
    \/ CloseHandle(h)
    \/ \E c \in HostChunks : \E put \in Parts(c) : Write(h, c, put)
    \/ \E c \in HostChunks, at \in 0 .. 1 : \E put \in Parts(c) : WriteAt(h, at, put)
    \/ Read(h, 1)
    \/ \E at \in 0 .. MaxSize : Seek(h, at)
    \/ \E size \in 0 .. MaxSize, seeks \in BOOLEAN : Truncate(h, size, seeks)

HostNext ==
    \/ \E p \in Paths, w, c, o, a \in BOOLEAN : OpenFile(p, w, c, o, a)
    \/ \E h \in Handles : HandleStep(h)
    \/ \E p \in Paths : RemoveFile(p) \/ CreateDirectory(p) \/ RemoveDirectory(p)
    \/ \E p, q \in Paths : MoveFile(p, q)

-----------------------------------------------------------------------------
(* Properties.                                                             *)

(* A file written by one append handle after the other, each truncating    *)
(* only as BufferedFileWriter does, holds the bytes its writers were told  *)
(* were taken, in order, whatever short writes, reopening, renaming and    *)
(* removal happen in between (host_fs.cpp: the write-ahead log relies on   *)
(* it).                                                                    *)
HostAppends == \A n \in DOMAIN log : node[n].data = log[n]
=============================================================================
