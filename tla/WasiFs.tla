------------------------------- MODULE WasiFs -------------------------------
(***************************************************************************)
(* The WASI descriptors of one engine (converge/wasishim/fs.go): the table *)
(* with its preopened root, opening, reading, writing, seeking and closing,*)
(* the path operations, and fd_readdir, whose listing is taken once per    *)
(* descriptor and handed out in pieces under a cookie.                     *)
(*                                                                         *)
(* An operation that only returns an errno is no step.  Paths of other     *)
(* engines and processes change the same tree: the path operations here    *)
(* stand for theirs too.  Operations that read and move no offset          *)
(* (fd_pread, fd_tell, fd_sync, the stat family) are left out.             *)
(***************************************************************************)
EXTENDS OsFiles

CONSTANTS
    MaxFd,      \* bound: descriptors ever allocated
    OpenFlags,  \* the sets of flags path_open is tried with
    BufLens,    \* buffer sizes a caller of fd_readdir tries
    Hdr,        \* size of a dirent header, and
    NameLen     \* of each name (0 is ".", -1 is "..")

Segments == {Last(p) : p \in Paths}
ASSUME BuffersAssumption ==
    /\ BufLens \subseteq Nat /\ Hdr \in Nat
    /\ \A s \in Segments \cup {-1, 0} : NameLen[s] \in Nat

VARIABLES
    fds,     \* the descriptor table
    nextFd,
    dir,     \* a caller's walk through a directory: libc's DIR
    log      \* what appenders were told their file holds (history)

wasi == <<fds, nextFd, dir, log>>

preopenFd == 3
NoDir == [fd |-> 0, cookie |-> 0, want |-> <<>>, got |-> <<>>, done |-> FALSE]

Entry(ino, host, d, w, a) ==
    [ino |-> ino, path |-> host, isDir |-> d, write |-> w, append |-> a, appendF |-> a,
     pos |-> 0, loaded |-> FALSE, ents |-> <<>>]
Preopen == Entry(0, <<>>, TRUE, FALSE, FALSE)

(* fsEnsure, on the first operation.                                       *)
WasiInit ==
    /\ fds = [fd \in {preopenFd} |-> Preopen]
    /\ nextFd = preopenFd + 1
    /\ dir = NoDir
    /\ log = <<>>

Open(fd) == fd \in DOMAIN fds
Regular(fd) == Open(fd) /\ ~fds[fd].isDir

allocFd(e) ==
    /\ nextFd <= MaxFd
    /\ fds' = With(fds, nextFd, e)
    /\ nextFd' = nextFd + 1

(* resolvePath: an absolute path starts at the root whatever dirfd is, but *)
(* dirfd must be an open directory even then.  The base is the path it had *)
(* when it was opened.                                                     *)
Resolved(dirfd, abs, rel) == (IF abs THEN <<>> ELSE fds[dirfd].path) \o rel


(* path_open of a directory succeeds with whatever flags it is asked for.  *)
OpenDir(host) ==
    /\ IsDir(host)
    /\ allocFd(Entry(NodeAt(host), host, TRUE, FALSE, FALSE))
    /\ UNCHANGED <<os, dir, log>>

(* path_open of a file: creating, truncating and appending imply writing.  *)
OpenRegular(host, fl) ==
    LET writes == fl \cap {"write", "creat", "trunc", "append"} # {}
        made   == ~Exists(host)
        n      == IF made THEN Len(node) + 1 ELSE NodeAt(host)
    IN  /\ "directory" \notin fl
        /\ IF made THEN "creat" \in fl /\ MayCreate(host) /\ Create(host, NewFile)
           ELSE /\ IsFile(host) /\ ~{"creat", "excl"} \subseteq fl
                /\ node' = IF "trunc" \in fl THEN [node EXCEPT ![n].data = <<>>] ELSE node
                /\ UNCHANGED tree
        /\ log' = IF made THEN With(log, n, <<>>)
                  ELSE IF "trunc" \in fl /\ n \in DOMAIN log THEN [log EXCEPT ![n] = <<>>]
                  ELSE log
        /\ allocFd(Entry(n, host, FALSE, writes, "append" \in fl))
        /\ UNCHANGED dir

Xpath_open(dirfd, abs, rel, fl) ==
    LET host == Resolved(dirfd, abs, rel)
    IN  /\ Open(dirfd) /\ fds[dirfd].isDir
        /\ \/ OpenDir(host)
           \/ OpenRegular(host, fl)

-----------------------------------------------------------------------------
Data(fd) == node[fds[fd].ino].data
Moved(fd, pos) == fds' = [fds EXCEPT ![fd].pos = pos]

(* Buffer after buffer until one is not filled: where that leaves a reader *)
(* of n bytes who stood at pos.                                            *)
readInto(data, pos, n) == Max({pos, Min({pos + n, Len(data)})})

Xfd_read(fd, n) ==
    /\ Regular(fd)
    /\ Moved(fd, readInto(Data(fd), fds[fd].pos, n))
    /\ UNCHANGED <<os, nextFd, dir, log>>

(* A file is a log while every change to it goes through an appender.      *)
Logged(n, chunk, append) ==
    IF n \notin DOMAIN log THEN log
    ELSE IF append THEN [log EXCEPT ![n] = @ \o chunk]
    ELSE [m \in DOMAIN log \ {n} |-> log[m]]

writeFrom(fd, at, chunk) == SetData(fds[fd].ino, Overwritten(Data(fd), at, chunk))

(* fd_write of the buffers, of which the device took chunk.  The OS moves  *)
(* a descriptor opened with O_APPEND to the end; appendF does nothing.     *)
Xfd_write(fd, chunk) ==
    /\ Regular(fd) /\ fds[fd].write
    /\ LET e   == fds[fd]
           at  == IF e.append THEN Len(Data(fd)) ELSE e.pos
       IN  /\ writeFrom(fd, at, chunk)
           /\ Moved(fd, at + Len(chunk))
           /\ log' = Logged(e.ino, chunk, e.append)
    /\ UNCHANGED <<tree, nextFd, dir>>

(* fd_pwrite gathers first; os.File.WriteAt refuses an appending file.     *)
Xfd_pwrite(fd, off, chunk) ==
    /\ Regular(fd) /\ fds[fd].write /\ ~fds[fd].append
    /\ writeFrom(fd, off, chunk)
    /\ log' = Logged(fds[fd].ino, chunk, FALSE)
    /\ UNCHANGED <<tree, fds, nextFd, dir>>

Xfd_seek(fd, offset, whence) ==
    /\ Regular(fd)
    /\ LET base == CASE whence = "set" -> 0
                     [] whence = "cur" -> fds[fd].pos
                     [] whence = "end" -> Len(Data(fd))
       IN  base + offset \in 0 .. MaxSize /\ Moved(fd, base + offset)
    /\ UNCHANGED <<os, nextFd, dir, log>>

(* fd_fdstat_set_flags changes the flag fd_fdstat_get reports, not the     *)
(* descriptor's O_APPEND.                                                  *)
Xfd_fdstat_set_flags(fd, append) ==
    /\ Open(fd)
    /\ fds' = [fds EXCEPT ![fd].appendF = append]
    /\ UNCHANGED <<os, nextFd, dir, log>>

Xfd_close(fd) ==
    /\ Open(fd)
    /\ fds' = [f \in DOMAIN fds \ {fd} |-> fds[f]]
    /\ dir' = IF dir.fd = fd THEN NoDir ELSE dir
    /\ UNCHANGED <<os, nextFd, log>>

-----------------------------------------------------------------------------
Xpath_create_directory(host) == Mkdir(host) /\ UNCHANGED wasi
Xpath_unlink_file(host) == IsFile(host) /\ OsRemove(host) /\ UNCHANGED wasi
Xpath_remove_directory(host) == IsDir(host) /\ OsRemove(host) /\ UNCHANGED wasi
Xpath_rename(p, q) == OsRename(p, q) /\ UNCHANGED wasi

-----------------------------------------------------------------------------
(* fd_readdir                                                              *)

Dots(names) == <<0, -1>> \o names
Listing(fd) == IF fds[fd].loaded THEN fds[fd].ents ELSE Names(fds[fd].path)
Size(names) == FoldSeq(LAMBDA s, n : Hdr + NameLen[s] + n, 0, names)

(* How many whole records from cookie on fit into len bytes.  The buffer   *)
(* is full unless all of them fit: what does not is copied in part.        *)
WholeRecords(virtual, cookie, len) ==
    LET rest == SubSeq(virtual, cookie + 1, Len(virtual))
    IN  Max({k \in 0 .. Len(rest) : Size(SubSeq(rest, 1, k)) <= len})
BufFull(virtual, cookie, len) ==
    Size(SubSeq(virtual, cookie + 1, Len(virtual))) >= len

(* d_next of the last whole record: where its reader goes on.              *)
NextCookie(virtual, cookie, len) == cookie + WholeRecords(virtual, cookie, len)

(* Mutant of Xfd_readdir: the directory is read at every call.             *)
ReaddirReloads(fd, len) ==
    /\ Open(fd) /\ fds[fd].isDir /\ dir.fd \in {0, fd} /\ ~dir.done
    /\ IsDir(fds[fd].path)
    /\ LET virtual == Dots(Names(fds[fd].path))
           next    == NextCookie(virtual, dir.cookie, len)
       IN  dir' = [fd |-> fd, cookie |-> next,
                   want |-> IF dir.fd = 0 THEN virtual ELSE dir.want,
                   got  |-> dir.got \o SubSeq(virtual, dir.cookie + 1, next),
                   done |-> ~BufFull(virtual, dir.cookie, len)]
    /\ UNCHANGED <<os, fds, nextFd, log>>

(* One call, and what its caller makes of it: it takes the whole records,  *)
(* goes on behind the last of them, and is done when the buffer was not    *)
(* filled.                                                                 *)
Xfd_readdir(fd, len) ==
    /\ Open(fd) /\ fds[fd].isDir /\ dir.fd \in {0, fd} /\ ~dir.done
    /\ fds[fd].loaded \/ IsDir(fds[fd].path)
    /\ LET virtual == Dots(Listing(fd))
           next    == NextCookie(virtual, dir.cookie, len)
       IN  /\ fds' = [fds EXCEPT ![fd].loaded = TRUE, ![fd].ents = Listing(fd)]
           /\ dir' = [fd |-> fd, cookie |-> next,
                      want |-> IF dir.fd = 0 THEN virtual ELSE dir.want,
                      got  |-> dir.got \o SubSeq(virtual, dir.cookie + 1, next),
                      done |-> ~BufFull(virtual, dir.cookie, len)]
    /\ UNCHANGED <<os, nextFd, log>>

(* rewinddir, or another walk with the same descriptor.                    *)
Rewind == dir # NoDir /\ dir' = NoDir /\ UNCHANGED <<os, fds, nextFd, log>>

-----------------------------------------------------------------------------
Chunks == {<<b>> : b \in Bytes}
Fds == preopenFd .. MaxFd

PathStep ==
    \/ \E p \in Paths :
          Xpath_create_directory(p) \/ Xpath_unlink_file(p) \/ Xpath_remove_directory(p)
    \/ \E p, q \in Paths : Xpath_rename(p, q)

(* Programs that write files, and programs that walk directories.          *)
FileNext ==
    \/ \E abs \in BOOLEAN, rel \in Paths, fl \in OpenFlags : Xpath_open(preopenFd, abs, rel, fl)
    \/ \E p \in Paths : Xpath_unlink_file(p)
    \/ \E fd \in Fds :
          \/ Xfd_read(fd, 1)
          \/ \E c \in Chunks : Xfd_write(fd, c) \/ Xfd_pwrite(fd, 0, c)
          \/ \E w \in {"set", "cur", "end"} : Xfd_seek(fd, IF w = "cur" THEN -1 ELSE 0, w)
          \/ \E a \in BOOLEAN : Xfd_fdstat_set_flags(fd, a)
          \/ Xfd_close(fd)

WalkNext ==
    \/ \E fd \in Fds, abs \in BOOLEAN, rel \in Paths : Xpath_open(fd, abs, rel, {"directory"})
    \/ \E fd \in Fds : Xfd_close(fd) \/ \E len \in BufLens : Xfd_readdir(fd, len)
    \/ PathStep
    \/ Rewind

-----------------------------------------------------------------------------
(* Properties.                                                             *)

(* A directory read in pieces, with buffers of any size and the directory  *)
(* changing or being removed meanwhile (fs.go fd_readdir), gives each name *)
(* it held at the first call exactly once and in order.                    *)
ReaddirOnce == IsPrefix(dir.got, dir.want) /\ (dir.done => dir.got = dir.want)

(* A file that only appenders have written holds what they were told was   *)
(* accepted, one chunk behind the other (fs.go fd_write on O_APPEND).      *)
WasiAppends == \A n \in DOMAIN log : node[n].data = log[n]
=============================================================================
