------------------------------- MODULE ShimAbi -------------------------------
(***************************************************************************)
(* What the imported calls tell the engine (wasishim/shim.go, fs.go and    *)
(* hostfs.go): the value they return and the bytes they leave in its       *)
(* memory, and beside each what the compiled C reads there.                *)
(*                                                                         *)
(* Memory is a function from addresses to bytes.  A byte is the value it   *)
(* belongs to with its place in it: a value comes back when all its bytes  *)
(* lie where its reader looks, in order.                                   *)
(***************************************************************************)
EXTENDS Integers, Sequences, SequencesExt, FiniteSetsExt, TLC

Byte(v, i) == IF v = 0 THEN <<0, 0>> ELSE <<v, i>>
Old == <<-1, 0>>
Memory(size) == [a \in 0 .. size - 1 |-> Old]
PutUint(mem, at, n, v) == [a \in DOMAIN mem |-> IF a - at \in 0 .. n - 1 THEN Byte(v, a - at) ELSE mem[a]]
Zeroed(mem, at, n) == PutUint(mem, at, n, 0)
PutAll(mem, buf, fields) == FoldLeft(LAMBDA m, f : PutUint(m, buf + f[1], f[2], f[3]), mem, fields)
Put(mem, at, bytes) == [a \in DOMAIN mem |-> IF a - at \in DOMAIN bytes THEN bytes[a - at] ELSE mem[a]]

(* C reads: an integer of n bytes, and whether a call stayed in a block.   *)
Garbled == -2
Get(mem, at, n) ==
    LET v == mem[at][1] IN IF \A i \in 0 .. n - 1 : mem[at + i] = Byte(v, i) THEN v ELSE Garbled
Within(mem, at, n) == \A a \in DOMAIN mem : mem[a] = Old \/ a \in at .. at + n - 1

-----------------------------------------------------------------------------
(* Files as the operating system describes them.                           *)
ModeOf == [fifo |-> 4096, chardev |-> 8192, dir |-> 16384, blockdev |-> 24576, regular |-> 32768, symlink |-> 40960, socket |-> 49152]

(* Mutant of EmStat: the times packed, nanoseconds 8 bytes after seconds   *)
(* and the next 4 after those.                                             *)
EmStatPacked(fi) ==
    <<<<0, 4, fi.dev>>, <<4, 4, fi.mode>>, <<8, 4, fi.nlink>>, <<12, 4, fi.uid>>, <<16, 4, fi.gid>>,
      <<24, 8, fi.size>>, <<32, 4, 4096>>, <<36, 4, (fi.size + 511) \div 512>>,
      <<40, 8, fi.sec>>, <<48, 4, fi.nsec>>, <<52, 8, fi.sec>>, <<60, 4, fi.nsec>>, <<64, 8, fi.sec>>, <<72, 4, fi.nsec>>,
      <<88, 8, fi.ino>>>>

(* Emscripten's struct stat; the time of the last change stands in for the *)
(* two others.                                                             *)
EmStat(fi) ==
    <<<<0, 4, fi.dev>>, <<4, 4, fi.mode>>, <<8, 4, fi.nlink>>, <<12, 4, fi.uid>>, <<16, 4, fi.gid>>,
      <<24, 8, fi.size>>, <<32, 4, 4096>>, <<36, 4, (fi.size + 511) \div 512>>,
      <<40, 8, fi.sec>>, <<48, 4, fi.nsec>>, <<56, 8, fi.sec>>, <<64, 4, fi.nsec>>, <<72, 8, fi.sec>>, <<80, 4, fi.nsec>>,
      <<88, 8, fi.ino>>>>
writeEmStat(mem, buf, fi) == PutAll(Zeroed(mem, buf, 96), buf, EmStat(fi))

StatDue(mem, buf, fi) ==
    LET Time(at) == <<Get(mem, buf + at, 8), Get(mem, buf + at + 8, 4), Get(mem, buf + at + 12, 4)>>
        blocks == Get(mem, buf + 36, 4)
    IN  /\ [i \in 0 .. 5 |-> Get(mem, buf + 4 * i, 4)]
             = (0 :> fi.dev @@ 1 :> fi.mode @@ 2 :> fi.nlink @@ 3 :> fi.uid @@ 4 :> fi.gid @@ 5 :> 0)
        /\ Get(mem, buf + 24, 8) = fi.size /\ Get(mem, buf + 88, 8) = fi.ino
        /\ blocks * 512 - fi.size \in 0 .. 511
        /\ {Time(40), Time(56), Time(72)} = {<<fi.sec, fi.nsec, 0>>}
        /\ Within(mem, buf, 96)

Nano == 1000
modeToFiletype(kind) ==
    CASE kind = "dir" -> 3 [] kind = "symlink" -> 7 [] kind = "chardev" -> 2 [] kind = "blockdev" -> 1
      [] kind = "socket" -> 6 [] kind = "regular" -> 4 [] OTHER -> 0

(* WASI's filestat.                                                        *)
writeFilestat(mem, buf, fi) ==
    LET mt == fi.sec * Nano + fi.nsec
    IN  PutAll(Zeroed(mem, buf, 64), buf,
               <<<<0, 8, fi.dev>>, <<8, 8, fi.ino>>, <<16, 1, modeToFiletype(fi.kind)>>, <<24, 8, fi.nlink>>,
                 <<32, 8, fi.size>>, <<40, 8, mt>>, <<48, 8, mt>>, <<56, 8, mt>>>>)

FiletypeOf == [fifo |-> 0, blockdev |-> 1, chardev |-> 2, dir |-> 3, regular |-> 4, socket |-> 6, symlink |-> 7]
FilestatDue(mem, buf, fi) ==
    /\ [i \in 0 .. 7 |-> IF i = 2 THEN Get(mem, buf + 16, 1) ELSE Get(mem, buf + 8 * i, 8)]
         = (0 :> fi.dev @@ 1 :> fi.ino @@ 2 :> FiletypeOf[fi.kind] @@ 3 :> fi.nlink @@ 4 :> fi.size
            @@ [i \in 5 .. 7 |-> fi.sec * Nano + fi.nsec])
    /\ Within(mem, buf, 64)

-----------------------------------------------------------------------------
(* Descriptors: standard streams, the preopened root, files, directories.  *)
Bits(S) == FoldSet(LAMBDA b, n : n + 2 ^ b, 0, S)
fileRights == {0, 1, 2, 3, 4, 5, 6, 7, 8, 21, 22, 23}
dirRights == fileRights \cup {9, 10, 11, 12, 13, 14, 15, 16, 17, 18, 19, 20, 27, 28}

EBADF == 8
Answer(ret, mem) == [ret |-> ret, mem |-> mem]

fdstat_get(e, fd, mem, buf) ==
    LET clear == Zeroed(mem, buf, 24)
    IN  IF e = "none"
        THEN IF fd \in 0 .. 2 THEN Answer(0, PutAll(clear, buf, <<<<0, 1, 2>>, <<8, 8, Bits({1, 6})>>>>))
             ELSE Answer(EBADF, clear)
        ELSE LET d == e \in {"preopen", "dir"}
             IN  Answer(0, PutAll(clear, buf,
                        <<<<0, 1, IF d THEN 3 ELSE 4>>, <<2, 2, IF e = "append" THEN 1 ELSE 0>>,
                          <<8, 8, Bits(IF d THEN dirRights ELSE fileRights)>>, <<16, 8, Bits(dirRights)>>>>))

(* libc allows an operation on a descriptor when its right is there: bit 1 *)
(* reads, 6 writes, 13 opens below and 14 lists.                           *)
FdstatDue(e, fd, out, buf) ==
    LET Right(b) == (Get(out.mem, buf + 8, 8) \div 2 ^ b) % 2 = 1
        type == Get(out.mem, buf, 1)
    IN  /\ Within(out.mem, buf, 24)
        /\ (out.ret # 0) = (e = "none" /\ fd > 2)
        /\ out.ret = 0 =>
             /\ type = (IF e = "none" THEN 2 ELSE IF e \in {"preopen", "dir"} THEN 3 ELSE 4)
             /\ Right(1) /\ Right(6) /\ (Right(13) <=> type = 3) /\ (Right(14) <=> type = 3)
             /\ (Get(out.mem, buf + 2, 2) % 2 = 1) = (e = "append")

(* libc's scan for preopened directories: from 3 up until EBADF, asking    *)
(* each for its name's length and then for the name.                       *)
prestat_get(e, name, mem, buf) ==
    IF e # "preopen" THEN Answer(EBADF, mem)
    ELSE Answer(0, PutUint(Zeroed(mem, buf, 4), buf + 4, 4, Len(name)))
prestat_dir_name(e, name, mem, ptr, len) ==
    IF e # "preopen" THEN Answer(EBADF, mem)
    ELSE IF len < Len(name) THEN Answer(37, mem)
    ELSE IF \E i \in DOMAIN name : ptr + i - 1 \notin DOMAIN mem THEN Answer(28, mem)
    ELSE Answer(0, Put(mem, ptr, [i \in 0 .. Len(name) - 1 |-> Byte(name[i + 1], 0)]))

Scan(table, name) ==
    LET first == prestat_get(table[3], name, Memory(12), 2)
        len   == Get(first.mem, 6, 4)
        asked == prestat_dir_name(table[3], name, Memory(Len(name) + 4), 2, len)
        next  == prestat_get(table[4], name, Memory(12), 2)
    IN  [ends |-> next.ret, ret |-> <<first.ret, asked.ret>>, tag |-> Get(first.mem, 2, 1),
         name |-> [i \in 1 .. len |-> Get(asked.mem, 1 + i, 1)], tidy |-> Within(first.mem, 2, 8) /\ Within(asked.mem, 2, len)]

-----------------------------------------------------------------------------
(* Error numbers.  Go's predicates take two errnos for "exists" and two    *)
(* for "permission"; the first case that holds decides.                    *)
Is == [exist |-> {"EEXIST", "ENOTEMPTY"}, permission |-> {"EACCES", "EPERM"}, notexist |-> {"ENOENT"}]
Number == [EACCES |-> 2, EEXIST |-> 20, EINVAL |-> 28, EIO |-> 29, EISDIR |-> 31, ENOENT |-> 44, ENOTDIR |-> 54,
           ENOTEMPTY |-> 55, EPERM |-> 63]

(* fs.go: a WASI number.                                                   *)
errno(err) ==
    CASE err = "nil" -> 0 [] err \in Is.notexist -> 44 [] err \in Is.exist -> 20 [] err \in Is.permission -> 2
      [] err = "EISDIR" -> 31 [] err = "ENOTDIR" -> 54 [] err = "EINVAL" -> 28 [] OTHER -> 29

(* Mutant of emErrnoOf: ENOTDIR not told from the rest.                    *)
emErrnoNoDir(err) ==
    CASE err \in Is.notexist -> 44 [] err \in Is.exist -> 20 [] err \in Is.permission -> 2 [] OTHER -> 29

(* shim.go: musl's number, which its callers negate.  An errno is none of  *)
(* Go's ErrInvalid.                                                        *)
emErrnoOf(err) ==
    CASE err = "ENOTDIR" -> 54
      [] err \in Is.notexist -> 44 [] err \in Is.exist -> 20 [] err \in Is.permission -> 2 [] OTHER -> 29

(* hostfs.go: the host's own number, and 9000 on for the locks.            *)
HostNumber == [EPERM |-> 1, ENOENT |-> 2, EIO |-> 5, EACCES |-> 13, EEXIST |-> 17, ENOTDIR |-> 20, EISDIR |-> 21,
               EINVAL |-> 22, ENOSPC |-> 28, ENOTEMPTY |-> 39, ELOOP |-> 40]
errnoOf(err) == IF err = "nil" THEN 0 ELSE HostNumber[err]

Class(err) == UNION {s \in {Is.exist, Is.permission} : err \in s} \cup {err}
NumbersOf(err) == {Number[e] : e \in Class(err) \cap DOMAIN Number}
ErrnoDue(err, out) ==
    /\ out.wasi \in (IF err = "nil" THEN {0} ELSE IF NumbersOf(err) = {} THEN {29} ELSE NumbersOf(err))
    /\ out.syscall \in (IF err \in {"ENOENT", "ENOTDIR"} \cup Is.exist \cup Is.permission THEN {-n : n \in NumbersOf(err)} ELSE {-29})
    /\ out.host < 0 /\ out.host > -9000

(* The calls without an implementation, by the family that decides how a   *)
(* caller reads them.                                                      *)
Unsupported ==
    [syscall |-> {"openat", "fcntl64", "ioctl", "fstat64", "newfstatat", "unlinkat", "rmdir", "faccessat", "ftruncate64", "getdents64",
                  "readlinkat", "renameat", "statfs64", "poll"},
     socket |-> {"socket", "bind", "connect", "getpeername", "getsockname", "getsockopt", "sendto", "recvfrom"},
     netdb |-> {"getaddrinfo", "getnameinfo"}]
Stub(family) == IF family = "netdb" THEN 4 ELSE -52
UnsupportedDue(family, out) ==
    IF family = "netdb" THEN out # 0
    ELSE out < 0 /\ out > -4096 /\ -out \notin {Number[e] : e \in DOMAIN Number}

-----------------------------------------------------------------------------
(* Text.  Strings are sequences of positive codes.                         *)
CodesOf(s) == [i \in 0 .. Len(s) - 1 |-> Byte(s[i + 1], 0)]
Terminated(s) == Put([i \in 0 .. Len(s) |-> Byte(0, 0)], 0, CodesOf(s))
TextAt(mem, at, n) == [i \in 1 .. n |-> mem[at + i - 1][1]]

cString(mem, ptr) ==
    IF ptr <= 0 \/ ptr \notin DOMAIN mem THEN <<>>
    ELSE TextAt(mem, ptr, Min({a \in ptr .. Cardinality(DOMAIN mem) : a \notin DOMAIN mem \/ mem[a] = Byte(0, 0)}) - ptr)
Counted(mem, ptr, n) ==
    IF ptr <= 0 \/ n <= 0 THEN <<>> ELSE TextAt(mem, ptr, Min({n, Cardinality(DOMAIN mem) - ptr}))

getcwd(mem, buf, size, cwd) ==
    IF cwd = <<>> THEN Answer(-52, mem)
    ELSE IF size = 0 THEN Answer(-28, mem)
    ELSE IF Len(cwd) + 1 > size \/ buf + Len(cwd) + 1 > Cardinality(DOMAIN mem) THEN Answer(-68, mem)
    ELSE Answer(Len(cwd) + 1, Put(mem, buf, Terminated(cwd)))
CwdDue(buf, size, cwd, out) ==
    IF cwd # <<>> /\ Len(cwd) < size
    THEN out.ret = Len(cwd) + 1 /\ cString(out.mem, buf) = cwd /\ Within(out.mem, buf, size)
    ELSE out.ret < 0 /\ Within(out.mem, buf, 0)

(* The environment is HOME alone, or empty; libc takes the sizes first.    *)
hostEnviron(home) == IF home = <<>> THEN <<>> ELSE <<home>>
EnvSize(env) == FoldLeft(LAMBDA n, kv : n + Len(kv) + 1, 0, env)
environ_sizes(env, mem, count, size) == PutUint(PutUint(mem, count, 4, Len(env)), size, 4, EnvSize(env))
environ_get(env, mem, environ, buf) ==
    FoldLeft(LAMBDA m, i : Put(PutUint(m, environ + 4 * (i - 1), 4, buf + EnvSize(SubSeq(env, 1, i - 1))),
                               buf + EnvSize(SubSeq(env, 1, i - 1)), Terminated(env[i])),
             mem, [i \in DOMAIN env |-> i])
Environment(home) ==
    LET env   == hostEnviron(home)
        sizes == environ_sizes(env, Memory(16), 4, 8)
        n     == Get(sizes, 4, 4)
        buf   == 4 + 4 * n
        out   == environ_get(env, Memory(buf + Get(sizes, 8, 4) + 4), 4, buf)
    IN  [vars |-> [i \in 1 .. n |-> cString(out, Get(out, 4 * i, 4))], tidy |-> Within(out, 4, 4 * n + Get(sizes, 8, 4))]

(* memmove.                                                                *)
memcpy_js(mem, dest, src, n) == Put(mem, dest, [i \in 0 .. n - 1 |-> mem[src + i]] )

-----------------------------------------------------------------------------
(* The engine's file system over host_exists, host_isdir, host_mtime and   *)
(* host_listdir: the answer below zero is an error.                        *)
host_exists(stat) == CASE stat = "ENOENT" -> 0 [] stat \in {"regular", "dir"} -> (IF stat = "dir" THEN 0 ELSE 1) [] OTHER -> -errnoOf(stat)
host_isdir(stat) == CASE stat = "ENOENT" -> 0 [] stat \in {"regular", "dir"} -> (IF stat = "dir" THEN 1 ELSE 0) [] OTHER -> -errnoOf(stat)
host_mtime(stat, secs) == IF stat \in {"regular", "dir"} THEN secs ELSE -errnoOf(stat)

FileExists(stat) == host_exists(stat) = 1
DirectoryExists(stat) == host_isdir(stat) = 1
GetLastModifiedTime(stat, secs) == IF host_mtime(stat, secs) < 0 THEN 0 ELSE host_mtime(stat, secs)

Newline == 10
Slash == 47
host_listdir(mem, out, cap, ents) ==
    LET Line(e) == e.name \o (IF e.dir THEN <<Slash>> ELSE <<>>) \o <<Newline>>
        Text(k) == FlattenSeq([i \in 1 .. k |-> Line(ents[i])])
        Fits(k) == Len(Text(k)) <= cap /\ out + Len(Text(k)) <= Cardinality(DOMAIN mem)
        k == Max({n \in 0 .. Len(ents) : \A m \in 1 .. n : Fits(m)})
    IN  Answer(IF k = Len(ents) THEN Len(Text(k)) ELSE -34, Put(mem, out, CodesOf(Text(k))))
ListFiles(answer, out) ==
    LET text  == TextAt(answer.mem, out, answer.ret)
        lines == FoldLeft(LAMBDA a, c : IF c = Newline THEN [done |-> Append(a.done, a.name), name |-> <<>>]
                                        ELSE [a EXCEPT !.name = Append(@, c)],
                          [done |-> <<>>, name |-> <<>>], text).done
        Entry(l) == IF Last(l) = Slash THEN [name |-> Front(l), dir |-> TRUE] ELSE [name |-> l, dir |-> FALSE]
    IN  IF answer.ret < 0 THEN <<"false">> ELSE [i \in DOMAIN lines |-> Entry(lines[i])]

-----------------------------------------------------------------------------
(* path_filestat_set_times, of a file with the times old.                  *)
Chosen(flags, set, now, asked, clock, keep) == IF set \in flags THEN asked ELSE IF now \in flags THEN clock ELSE keep

(* Mutant of set_times: a time not asked for becomes now.                  *)
set_timesNow(flags, asked, old, clock) ==
    [atime |-> IF "ATIM" \in flags THEN asked.atime ELSE clock, mtime |-> IF "MTIM" \in flags THEN asked.mtime ELSE clock]

(* "Keep current" of the access time takes the file's modification time.   *)
set_times(flags, asked, old, clock) ==
    [atime |-> Chosen(flags, "ATIM", "ATIM_NOW", asked.atime, clock, old.mtime),
     mtime |-> Chosen(flags, "MTIM", "MTIM_NOW", asked.mtime, clock, old.mtime)]

TimesDue(flags, asked, old, clock, out) ==
    /\ ("ATIM" \in flags => out.atime = asked.atime) /\ ("MTIM" \in flags => out.mtime = asked.mtime)
    /\ (flags \cap {"MTIM", "MTIM_NOW"} = {} => out.mtime = old.mtime)
    /\ (flags = {"ATIM_NOW", "MTIM_NOW"} => out = [atime |-> clock, mtime |-> clock])

(* Clocks, at two instants of a monotonic and a wall clock that may be set *)
(* back; in units of which PerMs make a millisecond.                       *)
clock_time_get(id, t, started) == IF id = 1 THEN t.mono - started ELSE t.wall
get_now(t, started) == t.mono - started      \* as a real number of PerMs-ths
Clocks(t, u, started) ==
    [mono |-> <<clock_time_get(1, t, started), clock_time_get(1, u, started)>>, now |-> <<get_now(t, started), get_now(u, started)>>,
     real |-> clock_time_get(0, u, started)]
ClocksDue(t, u, out) ==
    /\ out.mono[1] >= 0 /\ out.mono[2] - out.mono[1] = u.mono - t.mono
    /\ out.now = out.mono /\ out.real = u.wall

(* __syscall_mkdirat: a path under a directory descriptor is refused.      *)
AtFdCwd == -100
mkdirat(dirFd, path, made) ==
    IF path = <<>> THEN -44
    ELSE IF dirFd # AtFdCwd /\ path[1] # Slash THEN -52
    ELSE IF made = "made" THEN 0 ELSE -emErrnoOf(made)
MkdirDue(dirFd, path, made, out) ==
    (out = 0) = (made = "made" /\ path # <<>> /\ (dirFd = AtFdCwd \/ path[1] = Slash))

-----------------------------------------------------------------------------
(* gen-invokes: the signatures the invoke trampolines are generated for, a  *)
(* result and its arguments, at most "wide" of them not i32.               *)
Returned == {"v", "i", "j", "f", "d"}
WideArgs == {"j", "f", "d"}
RECURSIVE build(_, _, _)
build(prefix, wide, total) ==
    (IF prefix = <<>> THEN {} ELSE {prefix})
    \cup (IF Len(prefix) = total THEN {}
          ELSE build(Append(prefix, "i"), wide, total)
               \cup (IF wide = 0 THEN {} ELSE UNION {build(Append(prefix, w), wide - 1, total) : w \in WideArgs}))
sigs(i32, wide, total) ==
    {<<r>> \o args : r \in Returned, args \in {[k \in 1 .. n |-> "i"] : n \in 0 .. i32} \cup build(<<>>, wide, total)}

SigsDue(i32, wide, total, out) ==
    /\ {Head(s) : s \in out} = Returned
    /\ \A r \in Returned :
          {Tail(s) : s \in {t \in out : Head(t) = r}} =
             {[k \in 1 .. n |-> "i"] : n \in 0 .. i32}
             \cup {a \in UNION {[1 .. n -> WideArgs \cup {"i"}] : n \in 1 .. total} :
                     Cardinality({k \in DOMAIN a : a[k] # "i"}) <= wide}
=============================================================================
