----------------------------- MODULE QueryProofs -----------------------------
(***************************************************************************)
(* What holds of queries and what they own inside the engine: for any      *)
(* number of connections and engines, for column types however nested, and *)
(* for results of any chunks: the blocks taken and given back (Ownership),  *)
(* then the rows delivered (ResultSet).                                    *)
(***************************************************************************)
EXTENDS Ownership, ResultSet, FiniteSetTheorems, SequenceTheorems, WellFoundedInduction, TLAPS

-----------------------------------------------------------------------------
(* Induction up to a number, with the set of the numbers it has reached.   *)
LEMMA UpToInduction ==
  ASSUME NEW n \in Nat, NEW S, 0 \in S, \A i \in 0 .. n - 1 : i \in S => i + 1 \in S
  PROVE  \A i \in 0 .. n : i \in S
<1> DEFINE left == {i \in 0 .. n : i \notin S}
<1> SUFFICES ASSUME left # {} PROVE FALSE
  OBVIOUS
<1>1. IsWellFoundedOn(OpToRel(<, Nat), Nat)
  BY NatLessThanWellFounded
<1>2. left \subseteq Nat
  OBVIOUS
<1>3. PICK x \in left : \A y \in left : ~(<<y, x>> \in OpToRel(<, Nat))
  BY <1>1, <1>2, WFMin
<1>4. \A y \in left : ~(y < x)
  BY <1>2, <1>3 DEF OpToRel
<1>5. x # 0 /\ x - 1 \in 0 .. n - 1
  OBVIOUS
<1>6. x - 1 \notin left
  BY <1>4, <1>5
<1> QED BY <1>5, <1>6

-----------------------------------------------------------------------------
(* Traces.                                                                 *)
IsSeq(s) == s \in Seq({s[i] : i \in DOMAIN s})

(* The memory after each event of a trace.                                 *)
Steps(s, mem, at) == at = [i \in 0 .. Len(s) |-> IF i = 0 THEN mem ELSE After(s[i], at[i - 1])]

LEMMA SeqFrom ==
  ASSUME NEW n \in Nat, NEW T, NEW f \in [1 .. n -> T]
  PROVE  f \in Seq(T) /\ Len(f) = n
OBVIOUS

LEMMA TraceLen ==
  ASSUME NEW s, IsSeq(s)
  PROVE  Len(s) \in Nat /\ DOMAIN s = 1 .. Len(s)
BY DEF IsSeq

LEMMA StepsExist ==
  ASSUME NEW s, NEW mem, Len(s) \in Nat
  PROVE  \E at : Steps(s, mem, at)
<1> PICK n : n = Len(s)
  OBVIOUS
<1> DEFINE Good(k, at) == at = [i \in 0 .. k |-> IF i = 0 THEN mem ELSE After(s[i], at[i - 1])]
<1> PICK S : S = {k \in 0 .. n : \E at : Good(k, at)}
  OBVIOUS
<1>1. 0 \in S
  <2> PICK at : at = [i \in 0 .. 0 |-> mem]
    OBVIOUS
  <2>1. Good(0, at)
    OBVIOUS
  <2> QED BY <2>1
<1>2. ASSUME NEW k \in 0 .. n - 1, k \in S PROVE k + 1 \in S
  <2>1. PICK at : Good(k, at)
    BY <1>2
  <2> PICK next : next = [i \in 0 .. k + 1 |-> IF i = k + 1 THEN After(s[i], at[k]) ELSE at[i]]
    OBVIOUS
  <2>2. \A i \in 0 .. k : next[i] = at[i] /\ at[i] = IF i = 0 THEN mem ELSE After(s[i], at[i - 1])
    BY <2>1
  <2>3. ASSUME NEW i \in 0 .. k + 1
        PROVE  next[i] = IF i = 0 THEN mem ELSE After(s[i], next[i - 1])
    <3>1. CASE i = k + 1
      BY <3>1, <2>2
    <3>2. CASE i = 0
      BY <3>2, <2>2
    <3>3. CASE i \in 1 .. k
      <4>1. i - 1 \in 0 .. k /\ i \in 0 .. k /\ i # 0
        BY <3>3
      <4> QED BY <4>1, <2>2
    <3> QED BY <3>1, <3>2, <3>3
  <2>4. Good(k + 1, next)
    BY <2>3
  <2> QED BY <2>4
<1>3. n \in S
  BY <1>1, <1>2, UpToInduction
<1>4. PICK at : Good(n, at)
  BY <1>3
<1> QED BY <1>4 DEF Steps

Played(s, mem, at) ==
    /\ at[0] = mem
    /\ \A i \in 1 .. Len(s) : at[i] = After(s[i], at[i - 1])
    /\ Play(s, mem) = at[Len(s)]

(* Playing a trace takes its steps one after the other.                    *)
LEMMA PlaySteps ==
  ASSUME NEW s, NEW mem, Len(s) \in Nat
  PROVE  \E at : Played(s, mem, at)
<1> DEFINE Folds(at) == at = [i \in 0 .. Len(s) |-> IF i = 0 THEN mem ELSE After(s[i], at[i - 1])]
<1>0. \E at : Steps(s, mem, at)
  BY StepsExist
<1>1. \E at : Folds(at)
  BY <1>0 DEF Steps
<1> PICK h : h = CHOOSE at : Folds(at)
  OBVIOUS
<1>2. Folds(h)
  <2> HIDE DEF Folds
  <2> QED BY <1>1
<1>3. Play(s, mem) = h[Len(s)]
  BY DEF Play
<1>4. h[0] = mem /\ \A i \in 1 .. Len(s) : h[i] = After(s[i], h[i - 1])
  <2>1. \A i \in 0 .. Len(s) : h[i] = IF i = 0 THEN mem ELSE After(s[i], h[i - 1])
    BY <1>2
  <2>2. 0 \in 0 .. Len(s) /\ \A i \in 1 .. Len(s) : i \in 0 .. Len(s) /\ i # 0
    OBVIOUS
  <2> QED BY <2>1, <2>2
<1> QED BY <1>3, <1>4 DEF Played

LEMMA PlayEmpty == \A mem : Play(<<>>, mem) = mem
<1> TAKE mem
<1>1. Len(<<>>) = 0
  OBVIOUS
<1>2. PICK at : Played(<<>>, mem, at)
  BY <1>1, PlaySteps
<1> QED BY <1>1, <1>2 DEF Played

LEMMA PlayOne == \A e, mem : Play(<<e>>, mem) = After(e, mem)
<1> TAKE e, mem
<1>1. Len(<<e>>) = 1 /\ <<e>>[1] = e
  OBVIOUS
<1>2. PICK at : Played(<<e>>, mem, at)
  BY <1>1, PlaySteps
<1> QED BY <1>1, <1>2 DEF Played

(* Two traces one after the other.                                         *)
LEMMA TraceJoin ==
  ASSUME NEW s, NEW t, IsSeq(s), IsSeq(t)
  PROVE  /\ IsSeq(s \o t) /\ Len(s \o t) = Len(s) + Len(t)
         /\ \A i \in 1 .. Len(s) : (s \o t)[i] = s[i]
         /\ \A i \in 1 .. Len(t) : (s \o t)[Len(s) + i] = t[i]
<1> PICK E : E = {s[i] : i \in DOMAIN s} \cup {t[i] : i \in DOMAIN t}
  OBVIOUS
<1>1. s \in Seq(E) /\ t \in Seq(E)
  BY DEF IsSeq
<1> PICK st : st = s \o t
  OBVIOUS
<1>2. st \in Seq(E) /\ Len(st) = Len(s) + Len(t)
  BY <1>1
<1>3. /\ \A i \in 1 .. Len(s) : st[i] = s[i]
      /\ \A i \in 1 .. Len(t) : st[Len(s) + i] = t[i]
  BY <1>1
<1>4. st \in Seq({st[i] : i \in DOMAIN st})
  <2>1. Len(st) \in Nat /\ st \in [1 .. Len(st) -> E] /\ DOMAIN st = 1 .. Len(st)
    BY <1>2, LenProperties
  <2>2. st \in [1 .. Len(st) -> {st[i] : i \in DOMAIN st}]
    BY <2>1
  <2> QED BY <2>1, <2>2, SeqFrom
<1> QED BY <1>2, <1>3, <1>4 DEF IsSeq

Joined(s, t, st) ==
    /\ Len(s) \in Nat /\ Len(t) \in Nat /\ Len(st) = Len(s) + Len(t)
    /\ \A i \in 1 .. Len(s) : st[i] = s[i]
    /\ \A i \in 1 .. Len(t) : st[Len(s) + i] = t[i]

LEMMA PlayParts ==
  ASSUME NEW s, NEW t, NEW st, NEW mem, Joined(s, t, st)
  PROVE  Play(st, mem) = Play(t, Play(s, mem))
<1>0. Len(s) \in Nat /\ Len(t) \in Nat /\ Len(st) \in Nat
  BY DEF Joined
<1>2. PICK a : Played(s, mem, a)
  BY <1>0, PlaySteps
<1>3. PICK b : Played(t, a[Len(s)], b)
  BY <1>0, PlaySteps
<1>4. PICK c : Played(st, mem, c)
  BY <1>0, PlaySteps
<1>5. c[Len(s)] = a[Len(s)]
  <2> PICK S : S = {i \in 0 .. Len(s) : c[i] = a[i]}
    OBVIOUS
  <2>1. 0 \in S
    BY <1>2, <1>4 DEF Played
  <2>2. ASSUME NEW i \in 0 .. Len(s) - 1, i \in S PROVE i + 1 \in S
    <3>1. i + 1 \in 1 .. Len(s) /\ i + 1 \in 1 .. Len(st) /\ (i + 1) - 1 = i
      BY <1>0 DEF Joined
    <3>2. a[i + 1] = After(s[i + 1], a[i]) /\ c[i + 1] = After(st[i + 1], c[i]) /\ st[i + 1] = s[i + 1]
      BY <1>2, <1>4, <3>1 DEF Played, Joined
    <3> QED BY <2>2, <3>1, <3>2
  <2>3. \A i \in 0 .. Len(s) : i \in S
    BY <1>0, <2>1, <2>2, UpToInduction
  <2> QED BY <1>0, <2>3
<1>6. c[Len(s) + Len(t)] = b[Len(t)]
  <2> PICK S : S = {i \in 0 .. Len(t) : c[Len(s) + i] = b[i]}
    OBVIOUS
  <2>1. 0 \in S
    BY <1>3, <1>5 DEF Played
  <2>2. ASSUME NEW i \in 0 .. Len(t) - 1, i \in S PROVE i + 1 \in S
    <3>1. i + 1 \in 1 .. Len(t) /\ Len(s) + (i + 1) \in 1 .. Len(st) /\ (i + 1) - 1 = i
          /\ (Len(s) + (i + 1)) - 1 = Len(s) + i
      BY <1>0 DEF Joined
    <3>2. b[i + 1] = After(t[i + 1], b[i]) /\ st[Len(s) + (i + 1)] = t[i + 1]
          /\ c[Len(s) + (i + 1)] = After(st[Len(s) + (i + 1)], c[Len(s) + i])
      BY <1>3, <1>4, <3>1 DEF Played, Joined
    <3> QED BY <2>2, <3>1, <3>2
  <2>3. \A i \in 0 .. Len(t) : i \in S
    BY <1>0, <2>1, <2>2, UpToInduction
  <2> QED BY <1>0, <2>3
<1> QED BY <1>2, <1>3, <1>4, <1>6 DEF Played, Joined

LEMMA PlayJoin ==
  ASSUME NEW s, NEW t, NEW mem, IsSeq(s), IsSeq(t)
  PROVE  Play(s \o t, mem) = Play(t, Play(s, mem))
<1> PICK st : st = s \o t
  OBVIOUS
<1>1. Joined(s, t, st)
  BY TraceLen, TraceJoin DEF Joined
<1>2. Play(st, mem) = Play(t, Play(s, mem))
  BY <1>1, PlayParts
<1> QED BY <1>2

-----------------------------------------------------------------------------
(* Concatenations.                                                         *)
Flattened(ts, f) ==
    /\ f[1] = ts[1]
    /\ \A i \in 2 .. Len(ts) : f[i] = f[i - 1] \o ts[i]
    /\ FlattenSeq(ts) = f[Len(ts)]

LEMMA FlattenSteps ==
  ASSUME NEW ts, Len(ts) \in Nat \ {0}
  PROVE  \E f : Flattened(ts, f)
<1> PICK n : n = Len(ts)
  OBVIOUS
<1> DEFINE Good(k, f) == f = [i \in 1 .. k |-> IF i = 1 THEN ts[i] ELSE f[i - 1] \o ts[i]]
<1> PICK S : S = {k \in 0 .. n : \E f : Good(k, f)}
  OBVIOUS
<1>1. 0 \in S
  <2> PICK f : f = [i \in 1 .. 0 |-> ts[i]]
    OBVIOUS
  <2>1. \E g : Good(0, g)
    OBVIOUS
  <2> HIDE DEF Good
  <2> QED BY <2>1
<1>2. ASSUME NEW k \in 0 .. n - 1, k \in S PROVE k + 1 \in S
  <2>1. PICK f : Good(k, f)
    BY <1>2
  <2> PICK next : next = [i \in 1 .. k + 1 |-> IF i = 1 THEN ts[i] ELSE IF i = k + 1 THEN f[k] \o ts[i] ELSE f[i]]
    OBVIOUS
  <2>0. \A i \in 1 .. k : f[i] = IF i = 1 THEN ts[i] ELSE f[i - 1] \o ts[i]
    BY <2>1
  <2>2. \A i \in 1 .. k : next[i] = f[i] /\ f[i] = IF i = 1 THEN ts[i] ELSE f[i - 1] \o ts[i]
    <3>1. \A i \in 1 .. k : next[i] = IF i = 1 THEN ts[i] ELSE f[i]
      OBVIOUS
    <3> QED BY <2>0, <3>1
  <2>3. ASSUME NEW i \in 1 .. k + 1
        PROVE  next[i] = IF i = 1 THEN ts[i] ELSE next[i - 1] \o ts[i]
    <3>1. CASE i = 1
      BY <3>1
    <3>2. CASE i # 1 /\ i = k + 1
      <4>1. k \in 1 .. k /\ i - 1 = k
        BY <3>2
      <4> QED BY <3>2, <4>1, <2>2
    <3>3. CASE i # 1 /\ i # k + 1
      <4>1. i - 1 \in 1 .. k /\ i \in 1 .. k
        BY <3>3
      <4> QED BY <3>3, <4>1, <2>2
    <3> QED BY <3>1, <3>2, <3>3
  <2>4. Good(k + 1, next)
    BY <2>3
  <2>5. k + 1 \in 0 .. n
    OBVIOUS
  <2> HIDE DEF Good
  <2>6. \E g : Good(k + 1, g)
    BY <2>4
  <2> QED BY <2>5, <2>6
<1>3. \A k \in 0 .. n : k \in S
  BY <1>1, <1>2, UpToInduction
<1>4. \E f : Good(n, f)
  <2>1. n \in 0 .. n
    OBVIOUS
  <2> HIDE DEF Good
  <2>2. n \in S
    BY <1>3, <2>1
  <2> QED BY <2>2
<1> DEFINE Folds(f) == f = [i \in 1 .. Len(ts) |-> IF i = 1 THEN ts[i] ELSE f[i - 1] \o ts[i]]
<1>5. \E f : Folds(f)
  BY <1>4
<1> PICK h : h = CHOOSE f : Folds(f)
  OBVIOUS
<1>6. Folds(h)
  <2> HIDE DEF Folds
  <2> QED BY <1>5
<1>7. FlattenSeq(ts) = h[Len(ts)]
  BY DEF FlattenSeq
<1>8. h[1] = ts[1] /\ \A i \in 2 .. Len(ts) : h[i] = h[i - 1] \o ts[i]
  <2>1. \A i \in 1 .. Len(ts) : h[i] = IF i = 1 THEN ts[i] ELSE h[i - 1] \o ts[i]
    BY <1>6
  <2>2. 1 \in 1 .. Len(ts) /\ \A i \in 2 .. Len(ts) : i \in 1 .. Len(ts) /\ i # 1
    OBVIOUS
  <2> QED BY <2>1, <2>2
<1> QED BY <1>7, <1>8 DEF Flattened

LEMMA FunIsSeq ==
  ASSUME NEW n \in Nat, NEW ts, ts = [i \in 1 .. n |-> ts[i]]
  PROVE  IsSeq(ts) /\ Len(ts) = n
<1>1. ts \in [1 .. n -> {ts[i] : i \in DOMAIN ts}]
  OBVIOUS
<1> QED BY <1>1, SeqFrom DEF IsSeq

-----------------------------------------------------------------------------
(* What a trace makes of the memory: from all that A holds, without an     *)
(* event that is wrong, to all that B holds.                               *)
Leads(s, A, B) ==
    IsSeq(s) /\ Play(s, [live |-> A, wrong |-> FALSE]) = [live |-> B, wrong |-> FALSE]
Keeps(s, A) == Leads(s, A, A)

LEMMA OneIsSeq == \A e : IsSeq(<<e>>)
<1> TAKE e
<1>1. <<e>> \in Seq({e}) /\ {<<e>>[i] : i \in DOMAIN <<e>>} = {e}
  OBVIOUS
<1> QED BY <1>1 DEF IsSeq

LEMMA GetLeads ==
  ASSUME NEW A, NEW b, b \notin A
  PROVE  Leads(Get(b), A, A \cup {b})
<1>1. After([ev |-> "get", block |-> b], [live |-> A, wrong |-> FALSE]) = [live |-> A \cup {b}, wrong |-> FALSE]
  BY DEF After
<1> QED BY <1>1, OneIsSeq, PlayOne DEF Leads, Get

LEMMA PutLeads ==
  ASSUME NEW A, NEW b \in A
  PROVE  Leads(Put(b), A, A \ {b})
<1>1. After([ev |-> "put", block |-> b], [live |-> A, wrong |-> FALSE]) = [live |-> A \ {b}, wrong |-> FALSE]
  BY DEF After
<1> QED BY <1>1, OneIsSeq, PlayOne DEF Leads, Put

LEMMA UseKeeps ==
  ASSUME NEW A, NEW b \in A
  PROVE  Keeps(Use(b), A)
<1>1. After([ev |-> "use", block |-> b], [live |-> A, wrong |-> FALSE]) = [live |-> A, wrong |-> FALSE]
  BY DEF After
<1> QED BY <1>1, OneIsSeq, PlayOne DEF Keeps, Leads, Use

LEMMA NothingKeeps == \A A : Keeps(<<>>, A)
<1> TAKE A
<1>1. IsSeq(<<>>)
  BY EmptySeq DEF IsSeq
<1> QED BY <1>1, PlayEmpty DEF Keeps, Leads

LEMMA LeadsJoin ==
  ASSUME NEW s, NEW t, NEW A, NEW B, NEW C, Leads(s, A, B), Leads(t, B, C)
  PROVE  Leads(s \o t, A, C)
BY TraceJoin, PlayJoin DEF Leads

LEMMA KeepsJoin ==
  ASSUME NEW s, NEW t, NEW A, Keeps(s, A), Keeps(t, A)
  PROVE  Keeps(s \o t, A)
BY LeadsJoin DEF Keeps

LEMMA WithLeads ==
  ASSUME NEW A, NEW B, NEW b, NEW body, b \notin A, b \notin B, Leads(body, A \cup {b}, B \cup {b})
  PROVE  Leads(With(b, body), A, B)
<1>1. Leads(Get(b) \o body, A, B \cup {b})
  BY GetLeads, LeadsJoin
<1>2. Leads(Put(b), B \cup {b}, B)
  <2>1. (B \cup {b}) \ {b} = B
    OBVIOUS
  <2> QED BY <2>1, PutLeads
<1> QED BY <1>1, <1>2, LeadsJoin DEF With

LEMMA WithKeeps ==
  ASSUME NEW A, NEW b, NEW body, b \notin A, Keeps(body, A \cup {b})
  PROVE  Keeps(With(b, body), A)
BY WithLeads DEF Keeps

(* A memory for each place between the traces that are joined.             *)
LEMMA FlattenLeads ==
  ASSUME NEW ts, IsSeq(ts), NEW at, \A i \in 1 .. Len(ts) : Leads(ts[i], at[i - 1], at[i])
  PROVE  Leads(FlattenSeq(ts), at[0], at[Len(ts)])
<1>1. Len(ts) \in Nat
  BY TraceLen
<1>2. CASE Len(ts) = 0
  <2>1. ts = <<>>
    BY <1>2, EmptySeq DEF IsSeq
  <2>2. FlattenSeq(ts) = <<>>
    BY <1>2, <2>1 DEF FlattenSeq
  <2> QED BY <1>2, <2>2, NothingKeeps DEF Keeps
<1>3. CASE Len(ts) # 0
  <2>1. PICK f : Flattened(ts, f)
    BY <1>1, <1>3, FlattenSteps
  <2> PICK n : n = Len(ts) - 1
    OBVIOUS
  <2> PICK S : S = {i \in 0 .. n : Leads(f[i + 1], at[0], at[i + 1])}
    OBVIOUS
  <2>2. n \in Nat /\ n + 1 = Len(ts) /\ 1 \in 1 .. Len(ts)
    BY <1>1, <1>3
  <2>3. 0 \in S
    <3>1. Leads(ts[1], at[0], at[1])
      BY <2>2
    <3> QED BY <2>1, <2>2, <3>1 DEF Flattened
  <2>4. ASSUME NEW i \in 0 .. n - 1, i \in S PROVE i + 1 \in S
    <3>1. i + 2 \in 2 .. Len(ts) /\ i + 2 \in 1 .. Len(ts) /\ (i + 2) - 1 = i + 1 /\ (i + 1) + 1 = i + 2
          /\ i + 1 \in 0 .. n
      BY <2>2
    <3>2. f[i + 2] = f[i + 1] \o ts[i + 2]
      BY <2>1, <3>1 DEF Flattened
    <3>3. Leads(ts[i + 2], at[i + 1], at[i + 2]) /\ Leads(f[i + 1], at[0], at[i + 1])
      BY <2>4, <3>1
    <3>4. Leads(f[i + 2], at[0], at[i + 2])
      BY <3>2, <3>3, LeadsJoin
    <3> QED BY <3>1, <3>4, <2>2
  <2>5. \A i \in 0 .. n : i \in S
    BY <2>2, <2>3, <2>4, UpToInduction
  <2>6. Leads(f[n + 1], at[0], at[n + 1])
    <3>1. n \in 0 .. n
      BY <2>2
    <3>2. n \in S
      BY <2>5, <3>1
    <3> QED BY <3>2
  <2> QED BY <2>1, <2>2, <2>6 DEF Flattened
<1> QED BY <1>2, <1>3

LEMMA FlattenKeeps ==
  ASSUME NEW ts, IsSeq(ts), NEW A, \A i \in 1 .. Len(ts) : Keeps(ts[i], A)
  PROVE  Keeps(FlattenSeq(ts), A)
<1> PICK at : at = [i \in 0 .. Len(ts) |-> A]
  OBVIOUS
<1>1. Len(ts) \in Nat
  BY TraceLen
<1>2. at[0] = A /\ at[Len(ts)] = A /\ \A i \in 1 .. Len(ts) : at[i] = A /\ at[i - 1] = A
  BY <1>1
<1>3. Leads(FlattenSeq(ts), at[0], at[Len(ts)])
  BY <1>2, FlattenLeads DEF Keeps
<1> QED BY <1>2, <1>3 DEF Keeps

-----------------------------------------------------------------------------
(* Blocks are told apart by the name they start with.                      *)
Lacks(A, K) == \A b \in A : b[1] \notin K

LEMMA LacksIt ==
  ASSUME NEW A, NEW K, Lacks(A, K), NEW b, b[1] \in K
  PROVE  b \notin A
BY DEF Lacks

LEMMA LacksStill ==
  ASSUME NEW A, NEW K, Lacks(A, K), NEW b, b[1] \notin K
  PROVE  Lacks(A \cup {b}, K)
BY DEF Lacks

LEMMA LacksFewer ==
  ASSUME NEW A, NEW K, Lacks(A, K), NEW L, L \subseteq K, NEW B, B \subseteq A
  PROVE  Lacks(B, L)
BY DEF Lacks

LEMMA DestroyLeads ==
  ASSUME NEW A, NEW h \in A, Lacks(A, {"slot"})
  PROVE  Leads(destroyHandle(h), A, A \ {h})
<1> PICK slot : slot = <<"slot">>
  OBVIOUS
<1>1. slot \notin A /\ slot # h
  BY LacksIt
<1>2. Leads(Put(h), A \cup {slot}, (A \cup {slot}) \ {h})
  BY PutLeads
<1>3. (A \cup {slot}) \ {h} = (A \ {h}) \cup {slot}
  BY <1>1
<1>4. Leads(With(slot, Put(h)), A, A \ {h})
  BY <1>1, <1>2, <1>3, WithLeads
<1> QED BY <1>4 DEF destroyHandle

LEMMA DestroyResultLeads ==
  ASSUME NEW A, NEW res, NEW buffer, res \notin A, buffer \notin A, res # buffer
  PROVE  Leads(DestroyResult(res, buffer), A \cup {buffer} \cup {res}, A)
<1>1. Leads(Put(res), A \cup {buffer} \cup {res}, A \cup {buffer})
  <2>1. (A \cup {buffer} \cup {res}) \ {res} = A \cup {buffer}
    OBVIOUS
  <2> QED BY <2>1, PutLeads
<1>2. Leads(Put(buffer), A \cup {buffer}, A)
  <2>1. (A \cup {buffer}) \ {buffer} = A
    OBVIOUS
  <2> QED BY <2>1, PutLeads
<1> QED BY <1>1, <1>2, LeadsJoin DEF DestroyResult

-----------------------------------------------------------------------------
(* Statements.                                                             *)
LEMMA ExecutedKeeps ==
  ASSUME NEW A, NEW h \in A, Lacks(A, {"resPtr", "result"})
  PROVE  Keeps(executed(h), A)
<1> PICK p : p = <<"resPtr">>
  OBVIOUS
<1> PICK r : r = <<"result">>
  OBVIOUS
<1>1. p \notin A /\ r \notin A /\ p # r
  BY LacksIt
<1>2. Leads(Get(p), A, A \cup {p})
  BY <1>1, GetLeads
<1>3. Leads(Use(h), A \cup {p}, A \cup {p})
  BY UseKeeps DEF Keeps
<1>4. Leads(Get(r), A \cup {p}, A \cup {p} \cup {r})
  BY <1>1, GetLeads
<1>5. Leads(Use(r), A \cup {p} \cup {r}, A \cup {p} \cup {r})
  BY UseKeeps DEF Keeps
<1>6. Leads(DestroyResult(r, p), A \cup {p} \cup {r}, A)
  BY <1>1, DestroyResultLeads
<1>7. Leads(Get(p) \o Use(h), A, A \cup {p})
  BY <1>2, <1>3, LeadsJoin
<1>8. Leads(Get(p) \o Use(h) \o Get(r), A, A \cup {p} \cup {r})
  BY <1>7, <1>4, LeadsJoin
<1>9. Leads(Get(p) \o Use(h) \o Get(r) \o Use(r), A, A \cup {p} \cup {r})
  BY <1>8, <1>5, LeadsJoin
<1> QED BY <1>9, <1>6, LeadsJoin DEF Keeps, executed

QueryKinds == {"sql", "resPtr", "result"}

LEMMA QueryRawKeeps ==
  ASSUME NEW A, NEW h \in A, Lacks(A, QueryKinds)
  PROVE  Keeps(queryRaw(h), A)
<1> PICK sql : sql = <<"sql">>
  OBVIOUS
<1>1. sql \notin A
  BY LacksIt DEF QueryKinds
<1>2. Lacks(A \cup {sql}, {"resPtr", "result"})
  BY DEF Lacks, QueryKinds
<1>3. Keeps(executed(h), A \cup {sql})
  BY <1>2, ExecutedKeeps
<1> QED BY <1>1, <1>3, WithKeeps DEF queryRaw

LEMMA RecoverKeeps ==
  ASSUME NEW A, NEW h \in A, Lacks(A, QueryKinds), NEW rollback
  PROVE  Keeps(recoverTx(h, rollback), A)
BY QueryRawKeeps, NothingKeeps DEF recoverTx

PrepareKinds == {"text", "stmtSlot", "slot", "sql", "resPtr", "result"}

(* A statement that compiles is there afterwards; one that does not is not. *)
LEMMA PrepareLeads ==
  ASSUME NEW A, NEW h \in A, Lacks(A, PrepareKinds), NEW st, st \notin A, st[1] \notin PrepareKinds,
         NEW rollback, NEW how \in PrepareFailures \cup {"ok"}
  PROVE  Leads(prepareLocked(h, st, how, rollback), A, IF how = "ok" THEN A \cup {st} ELSE A)
<1> PICK text : text = cstring
  OBVIOUS
<1> PICK slot : slot = <<"stmtSlot">>
  OBVIOUS
<1> PICK M : M = A \cup {text} \cup {slot}
  OBVIOUS
<1>1. /\ text \notin A /\ slot \notin A \cup {text} /\ text # st /\ slot # st /\ slot # text
      /\ h \in M /\ st \notin M
  <2>1. text[1] = "text" /\ slot[1] = "stmtSlot"
    BY DEF cstring
  <2>2. text \notin A /\ slot \notin A /\ text # st /\ slot # st /\ slot # text
    BY <2>1, LacksIt DEF PrepareKinds
  <2> QED BY <2>2
<1>2. Lacks(M, QueryKinds) /\ Lacks(M \cup {st}, {"slot"})
  BY DEF Lacks, PrepareKinds, QueryKinds, cstring
<1>3. Keeps(Use(h), M) /\ Keeps(recoverTx(h, rollback), M)
  BY <1>1, <1>2, UseKeeps, RecoverKeeps
<1>4. Leads(Get(st), M, M \cup {st})
  BY <1>1, GetLeads
<1>5. Leads(Get(st) \o Use(st) \o destroyHandle(st), M, M)
  <2>1. Keeps(Use(st), M \cup {st})
    BY UseKeeps
  <2>2. Leads(Get(st) \o Use(st), M, M \cup {st})
    BY <1>4, <2>1, LeadsJoin DEF Keeps
  <2>3. Leads(destroyHandle(st), M \cup {st}, M)
    <3>1. (M \cup {st}) \ {st} = M
      BY <1>1
    <3> QED BY <1>2, <3>1, DestroyLeads
  <2> QED BY <2>2, <2>3, LeadsJoin
<1> PICK body : body = CASE how = "ok" -> Get(st)
                         [] how = "no handle" -> recoverTx(h, rollback)
                         [] OTHER -> Get(st) \o Use(st) \o destroyHandle(st) \o recoverTx(h, rollback)
  OBVIOUS
<1>6. CASE how = "ok"
  <2>1. Leads(Use(h) \o body, M, M \cup {st})
    BY <1>3, <1>4, <1>6, LeadsJoin DEF Keeps
  <2>2. M \cup {st} = (A \cup {st} \cup {text}) \cup {slot}
    OBVIOUS
  <2>3. Leads(With(slot, Use(h) \o body), A \cup {text}, A \cup {st} \cup {text})
    BY <1>1, <2>1, <2>2, WithLeads
  <2>4. Leads(With(text, With(slot, Use(h) \o body)), A, A \cup {st})
    BY <1>1, <2>3, WithLeads
  <2> QED BY <1>6, <2>4 DEF prepareLocked
<1>7. CASE how # "ok"
  <2>1. Keeps(body, M)
    <3>1. Keeps(Get(st) \o Use(st) \o destroyHandle(st) \o recoverTx(h, rollback), M)
      BY <1>3, <1>5, LeadsJoin DEF Keeps
    <3>2. CASE how = "no handle"
      BY <1>3, <3>2
    <3>3. CASE how # "no handle"
      BY <1>7, <3>1, <3>3
    <3> QED BY <3>2, <3>3
  <2>2. Keeps(Use(h) \o body, M)
    BY <1>3, <2>1, KeepsJoin
  <2>3. Keeps(With(slot, Use(h) \o body), A \cup {text})
    BY <1>1, <2>2, WithKeeps
  <2>4. Keeps(With(text, With(slot, Use(h) \o body)), A)
    BY <1>1, <2>3, WithKeeps
  <2> QED BY <1>7, <2>4 DEF prepareLocked, Keeps
<1> QED BY <1>6, <1>7

LEMMA BindKeeps ==
  ASSUME NEW A, NEW st \in A, Lacks(A, {"param"}), NEW how
  PROVE  Keeps(bindAll(st, how), A)
<1> PICK param : param = <<"param">>
  OBVIOUS
<1>1. param \notin A
  BY LacksIt
<1>2. Keeps(Use(st), A) /\ Keeps(Use(st), A \cup {param})
  BY UseKeeps
<1>3. Keeps(With(param, Use(st)), A)
  BY <1>1, <1>2, WithKeeps
<1>4. Keeps(With(param, Use(st)) \o Use(st), A)
  BY <1>2, <1>3, KeepsJoin
<1>5. Keeps(IF how = "unbound" THEN <<>> ELSE With(param, Use(st)) \o Use(st), A)
  BY <1>4, NothingKeeps
<1> QED BY <1>2, <1>5, KeepsJoin DEF bindAll

ExecKinds == {"param", "sql", "resPtr", "result"}

LEMMA ExecKeeps ==
  ASSUME NEW A, NEW h \in A, NEW st \in A, Lacks(A, ExecKinds), NEW how, NEW rollback
  PROVE  Keeps(execLocked(h, st, how, rollback), A)
<1>1. Lacks(A, {"param"}) /\ Lacks(A, QueryKinds) /\ Lacks(A, {"resPtr", "result"})
  BY DEF Lacks, ExecKinds, QueryKinds
<1>2. Keeps(bindAll(st, how), A) /\ Keeps(executed(st), A) /\ Keeps(recoverTx(h, rollback), A)
  BY <1>1, BindKeeps, ExecutedKeeps, RecoverKeeps
<1>3. Keeps(IF how = "failed" THEN recoverTx(h, rollback) ELSE <<>>, A)
  BY <1>2, NothingKeeps
<1>4. Keeps(executed(st) \o (IF how = "failed" THEN recoverTx(h, rollback) ELSE <<>>), A)
  BY <1>2, <1>3, KeepsJoin
<1>5. Keeps(IF how \in {"unbound", "bad value"} THEN <<>>
            ELSE executed(st) \o (IF how = "failed" THEN recoverTx(h, rollback) ELSE <<>>), A)
  BY <1>4, NothingKeeps
<1> QED BY <1>2, <1>5, KeepsJoin DEF execLocked

-----------------------------------------------------------------------------
(* The walks over a column's type.  Each is the solution of a recursion on *)
(* how deep types nest.                                                    *)
Named(f, type) ==
    LET one(i) == Use(Child(type, i)) \o f[type.kids[i]]
        named(i) == FieldName \o Get(Child(type, i)) \o one(i) \o destroyHandle(Child(type, i))
    IN  CASE type.k = "json" -> Alias
          [] type.k = "map" -> Get(Child(type, 1)) \o Get(Child(type, 2)) \o one(1) \o one(2)
                               \o destroyHandle(Child(type, 1)) \o destroyHandle(Child(type, 2))
          [] type.k = "list" -> Get(Child(type, 1)) \o one(1) \o destroyHandle(Child(type, 1))
          [] type.k \in {"struct", "union"} -> FlattenSeq([i \in 1 .. Len(type.kids) |-> named(i)])
          [] OTHER -> <<>>

SameBelow(f, g, type) == \A i \in 1 .. Len(type.kids) : f[type.kids[i]] = g[type.kids[i]]

LEMMA KidsOf ==
  ASSUME NEW type \in LogicalTypes
  PROVE  /\ Len(type.kids) \in Nat /\ type.depth \in Nat /\ type.depth <= MaxNesting
         /\ type.k = "list" => Len(type.kids) = 1
         /\ type.k = "map" => Len(type.kids) = 2
         /\ \A i \in 1 .. Len(type.kids) :
               /\ type.kids[i] \in LogicalTypes /\ type.kids[i].depth \in Nat
               /\ type.kids[i].depth < type.depth
<1>1. type.kids \in Seq(LogicalTypes) /\ type.depth \in 0 .. MaxNesting /\ MaxNesting \in Nat
  BY OwnershipAssumption
<1>2. DOMAIN type.kids = 1 .. Len(type.kids) /\ Len(type.kids) \in Nat
  BY <1>1, LenProperties
<1>3. \A i \in 1 .. Len(type.kids) : type.kids[i] \in LogicalTypes
  BY <1>1, ElementOfSeq
<1>4. \A i \in 1 .. Len(type.kids) : type.kids[i].depth \in Nat /\ type.kids[i].depth < type.depth
  BY <1>1, <1>2, <1>3, OwnershipAssumption
<1> QED BY <1>1, <1>2, <1>3, <1>4, OwnershipAssumption

LEMMA NamedSame ==
  ASSUME NEW type \in LogicalTypes, NEW f, NEW g, SameBelow(f, g, type)
  PROVE  Named(f, type) = Named(g, type)
<1>1. CASE type.k = "list"
  BY <1>1, KidsOf DEF SameBelow, Named
<1>2. CASE type.k = "map"
  BY <1>2, KidsOf DEF SameBelow, Named
<1>3. CASE type.k \in {"struct", "union"}
  <2> DEFINE named(h, i) == FieldName \o Get(Child(type, i)) \o (Use(Child(type, i)) \o h[type.kids[i]])
                            \o destroyHandle(Child(type, i))
  <2>1. \A i \in 1 .. Len(type.kids) : named(f, i) = named(g, i)
    BY DEF SameBelow
  <2>2. [i \in 1 .. Len(type.kids) |-> named(f, i)] = [i \in 1 .. Len(type.kids) |-> named(g, i)]
    BY <2>1
  <2>3. /\ Named(f, type) = FlattenSeq([i \in 1 .. Len(type.kids) |-> named(f, i)])
        /\ Named(g, type) = FlattenSeq([i \in 1 .. Len(type.kids) |-> named(g, i)])
    BY <1>3 DEF Named
  <2> HIDE DEF named
  <2> QED BY <2>2, <2>3
<1>4. CASE type.k \notin {"list", "map", "struct", "union"}
  BY <1>4 DEF Named
<1> QED BY <1>1, <1>2, <1>3, <1>4

Below(data, f, type, i) ==
    Use(data) \o With(Child(type, i), Dictionary(type.kids[i], Child(type, i)) \o f[type.kids[i]])
Fields(data, f, type) == FlattenSeq([i \in 1 .. Len(type.kids) |-> FieldName \o Below(data, f, type, i)])
Decoded(data, f, type) ==
    CASE type.k = "json" -> Alias
      [] type.k = "struct" -> Fields(data, f, type)
      [] type.k = "map" -> Use(data) \o With(Child(type, 0), Fields(data, f, type))
      [] type.k = "union" -> (Use(data) \o With(Child(type, 0), <<>>))
                             \o FlattenSeq([i \in 1 .. Len(type.kids) |-> Below(data, f, type, i)])
      [] type.k = "list" -> Below(data, f, type, 1)
      [] OTHER -> <<>>

LEMMA DecodedSame ==
  ASSUME NEW data, NEW type \in LogicalTypes, NEW f, NEW g, SameBelow(f, g, type)
  PROVE  Decoded(data, f, type) = Decoded(data, g, type)
<1>1. \A i \in 1 .. Len(type.kids) : Below(data, f, type, i) = Below(data, g, type, i)
  BY DEF SameBelow, Below
<1>2. Fields(data, f, type) = Fields(data, g, type)
  <2>1. [i \in 1 .. Len(type.kids) |-> FieldName \o Below(data, f, type, i)]
        = [i \in 1 .. Len(type.kids) |-> FieldName \o Below(data, g, type, i)]
    BY <1>1
  <2> QED BY <2>1 DEF Fields
<1>3. [i \in 1 .. Len(type.kids) |-> Below(data, f, type, i)]
      = [i \in 1 .. Len(type.kids) |-> Below(data, g, type, i)]
  BY <1>1
<1>4. CASE type.k = "list"
  <2>1. Len(type.kids) = 1
    BY <1>4, KidsOf
  <2>2. Below(data, f, type, 1) = Below(data, g, type, 1)
    BY <1>1, <2>1
  <2> QED BY <1>4, <2>2 DEF Decoded
<1>5. CASE type.k # "list"
  BY <1>2, <1>3, <1>5 DEF Decoded
<1> QED BY <1>4, <1>5

(* The two walks: of the names, and of the decoders of a chunk's vectors.  *)
Walk(names, data, f, type) == IF names THEN Named(f, type) ELSE Decoded(data, f, type)

LEMMA WalkSame ==
  ASSUME NEW names, NEW data, NEW type \in LogicalTypes, NEW f, NEW g, SameBelow(f, g, type)
  PROVE  Walk(names, data, f, type) = Walk(names, data, g, type)
BY NamedSame, DecodedSame DEF Walk

LEMMA WalkExists ==
  ASSUME NEW names, NEW data
  PROVE  \E f : f = [type \in LogicalTypes |-> Walk(names, data, f, type)]
<1> DEFINE Right(n, f) == \A type \in LogicalTypes : type.depth < n => f[type] = Walk(names, data, f, type)
<1> PICK S : S = {n \in 0 .. MaxNesting + 1 : \E f : Right(n, f)}
  OBVIOUS
<1>0. MaxNesting \in Nat /\ MaxNesting + 1 \in Nat
  BY OwnershipAssumption
<1>1. 0 \in S
  <2>1. \A type \in LogicalTypes : ~(type.depth < 0)
    BY KidsOf
  <2>2. \E f : Right(0, f)
    BY <2>1
  <2> HIDE DEF Right
  <2> QED BY <2>2, <1>0
<1>2. ASSUME NEW n \in 0 .. (MaxNesting + 1) - 1, n \in S PROVE n + 1 \in S
  <2>1. PICK f : Right(n, f)
    BY <1>2
  <2> PICK g : g = [type \in LogicalTypes |-> Walk(names, data, f, type)]
    OBVIOUS
  <2>2. ASSUME NEW type \in LogicalTypes, type.depth < n + 1 PROVE g[type] = Walk(names, data, g, type)
    <3>1. SameBelow(f, g, type)
      <4> SUFFICES ASSUME NEW i \in 1 .. Len(type.kids) PROVE f[type.kids[i]] = g[type.kids[i]]
        BY DEF SameBelow
      <4>1. type.kids[i] \in LogicalTypes /\ type.kids[i].depth < n
        BY <2>2, KidsOf
      <4> QED BY <4>1, <2>1
    <3> QED BY <3>1, WalkSame
  <2>3. Right(n + 1, g)
    BY <2>2
  <2>4. n + 1 \in 0 .. MaxNesting + 1
    BY <1>0
  <2> HIDE DEF Right
  <2>5. \E h : Right(n + 1, h)
    BY <2>3
  <2> QED BY <2>4, <2>5
<1>3. \A n \in 0 .. MaxNesting + 1 : n \in S
  BY <1>0, <1>1, <1>2, UpToInduction
<1>4. PICK f : Right(MaxNesting + 1, f)
  <2>1. MaxNesting + 1 \in S
    BY <1>0, <1>3
  <2> HIDE DEF Right
  <2> QED BY <2>1
<1> PICK g : g = [type \in LogicalTypes |-> Walk(names, data, f, type)]
  OBVIOUS
<1>5. \A type \in LogicalTypes : f[type] = g[type]
  BY <1>0, <1>4, KidsOf
<1>6. \A type \in LogicalTypes : Walk(names, data, f, type) = Walk(names, data, g, type)
  BY <1>5, KidsOf, WalkSame DEF SameBelow
<1>7. g = [type \in LogicalTypes |-> Walk(names, data, g, type)]
  BY <1>6
<1> QED BY <1>7

LEMMA TypeNamesIs ==
  ASSUME NEW type \in LogicalTypes
  PROVE  typeNames[type] = Named(typeNames, type)
<1> DEFINE Folds(f) == f = [t \in LogicalTypes |-> Named(f, t)]
<1>1. \E f : Folds(f)
  <2>1. \E f : f = [t \in LogicalTypes |-> Walk(TRUE, {}, f, t)]
    BY WalkExists
  <2> QED BY <2>1 DEF Walk
<1>2. typeNames = CHOOSE f : Folds(f)
  BY DEF typeNames, Named
<1>3. Folds(typeNames)
  <2> HIDE DEF Folds
  <2> QED BY <1>1, <1>2
<1> QED BY <1>3

(* Room for a type of some depth: the handles of types that are held are   *)
(* those of types that nest deeper, whose names differ.                    *)
TypeKinds == {"slot", "alias", "name", "value"}
Room(A, n) == Lacks(A, TypeKinds) /\ \A b \in A : b[1] = "type" => b[2] \in Nat /\ b[2] > n

LEMMA RoomFor ==
  ASSUME NEW A, NEW type \in LogicalTypes, Room(A, type.depth), NEW j
  PROVE  Child(type, j) \notin A
BY KidsOf DEF Room, Child

LEMMA RoomUnder ==
  ASSUME NEW A, NEW type \in LogicalTypes, Room(A, type.depth), NEW i \in 1 .. Len(type.kids), NEW j
  PROVE  Room(A, type.kids[i].depth) /\ Room(A \cup {Child(type, j)}, type.kids[i].depth)
<1>1. type.depth \in Nat /\ type.kids[i].depth \in Nat /\ type.kids[i].depth < type.depth
  BY KidsOf
<1>2. \A b \in A : b[1] = "type" => b[2] \in Nat /\ b[2] > type.kids[i].depth
  BY <1>1 DEF Room
<1> QED BY <1>1, <1>2 DEF Room, Lacks, Child, TypeKinds

LEMMA AliasKeeps ==
  ASSUME NEW A, NEW n, Room(A, n)
  PROVE  Keeps(Alias, A) /\ Keeps(FieldName, A)
<1> PICK a : a = <<"alias">>
  OBVIOUS
<1> PICK m : m = <<"name">>
  OBVIOUS
<1>1. a \notin A /\ m \notin A
  BY DEF Room, Lacks, TypeKinds
<1>2. Keeps(Use(a), A \cup {a}) /\ Keeps(Use(m), A \cup {m})
  BY UseKeeps
<1> QED BY <1>1, <1>2, WithKeeps DEF Alias, FieldName

LEMMA EnumKeeps ==
  ASSUME NEW A, NEW lt \in A, NEW n, Room(A, n)
  PROVE  Keeps(readEnumMeta(lt), A)
<1> PICK v : v = <<"value">>
  OBVIOUS
<1>1. v \notin A
  BY DEF Room, Lacks, TypeKinds
<1>2. Keeps(Use(lt), A) /\ Keeps(Use(v), A \cup {v})
  BY UseKeeps
<1>3. Keeps(With(v, Use(v)), A)
  BY <1>1, <1>2, WithKeeps
<1> QED BY <1>2, <1>3, KeepsJoin DEF readEnumMeta

LEMMA DictionaryKeeps ==
  ASSUME NEW type, NEW A, NEW lt \in A, NEW n, Room(A, n)
  PROVE  Keeps(Dictionary(type, lt), A)
BY EnumKeeps, NothingKeeps DEF Dictionary

(* A child's handle is taken, its type named, and the handle given back.   *)
LEMMA OneKeeps ==
  ASSUME NEW A, NEW c, c \notin A, Lacks(A \cup {c}, {"slot"}), NEW before, Keeps(before, A),
         NEW body, Keeps(body, A \cup {c})
  PROVE  /\ Keeps(before \o Get(c) \o (Use(c) \o body) \o destroyHandle(c), A)
         /\ Keeps(Get(c) \o (Use(c) \o body) \o destroyHandle(c), A)
<1>1. Leads(Get(c), A, A \cup {c}) /\ Leads(before \o Get(c), A, A \cup {c})
  BY GetLeads, LeadsJoin DEF Keeps
<1>2. Leads(Use(c) \o body, A \cup {c}, A \cup {c})
  BY UseKeeps, KeepsJoin DEF Keeps
<1>3. Leads(destroyHandle(c), A \cup {c}, A)
  <2>1. (A \cup {c}) \ {c} = A
    OBVIOUS
  <2> QED BY <2>1, DestroyLeads
<1>4. Leads(Get(c) \o (Use(c) \o body), A, A \cup {c}) /\ Leads(before \o Get(c) \o (Use(c) \o body), A, A \cup {c})
  BY <1>1, <1>2, LeadsJoin
<1> QED BY <1>3, <1>4, LeadsJoin DEF Keeps

LEMMA NamedKeeps ==
  ASSUME NEW type \in LogicalTypes, NEW f, NEW A, Room(A, type.depth),
         \A i \in 1 .. Len(type.kids) : \A B : Room(B, type.kids[i].depth) => Keeps(f[type.kids[i]], B)
  PROVE  Keeps(Named(f, type), A)
<1>1. Lacks(A, {"slot"}) /\ Keeps(Alias, A) /\ Keeps(FieldName, A)
  BY AliasKeeps DEF Room, Lacks, TypeKinds
<1> DEFINE c(i) == Child(type, i)
           named(i) == FieldName \o Get(c(i)) \o (Use(c(i)) \o f[type.kids[i]]) \o destroyHandle(c(i))
<1>2. \A i : c(i) \notin A /\ Lacks(A \cup {c(i)}, {"slot"})
  BY <1>1, RoomFor DEF Lacks, Child
<1>3. \A i \in 1 .. Len(type.kids) : Keeps(f[type.kids[i]], A) /\ Keeps(f[type.kids[i]], A \cup {c(i)})
  BY RoomUnder
<1>4. ASSUME NEW i \in 1 .. Len(type.kids)
      PROVE  Keeps(named(i), A) /\ Keeps(Get(c(i)) \o (Use(c(i)) \o f[type.kids[i]]) \o destroyHandle(c(i)), A)
  <2> PICK b : b = c(i)
    OBVIOUS
  <2>1. b \notin A /\ Lacks(A \cup {b}, {"slot"}) /\ Keeps(f[type.kids[i]], A \cup {b}) /\ Keeps(FieldName, A)
    BY <1>1, <1>2, <1>3
  <2> QED BY <2>1, OneKeeps
<1>5. CASE type.k = "json"
  BY <1>1, <1>5 DEF Named
<1>6. CASE type.k = "list"
  <2>1. Named(f, type) = Get(c(1)) \o (Use(c(1)) \o f[type.kids[1]]) \o destroyHandle(c(1))
    BY <1>6 DEF Named
  <2>2. 1 \in 1 .. Len(type.kids)
    <3>1. Len(type.kids) = 1
      BY <1>6, KidsOf
    <3> QED BY <3>1
  <2> HIDE DEF c
  <2> QED BY <1>4, <2>1, <2>2
<1>7. CASE type.k \in {"struct", "union"}
  <2> PICK ts : ts = [i \in 1 .. Len(type.kids) |-> named(i)]
    OBVIOUS
  <2>1. Named(f, type) = FlattenSeq(ts)
    BY <1>7 DEF Named
  <2>2. ts = [i \in 1 .. Len(type.kids) |-> ts[i]] /\ Len(type.kids) \in Nat
    BY KidsOf
  <2>3. IsSeq(ts) /\ Len(ts) = Len(type.kids)
    BY <2>2, FunIsSeq
  <2>4. \A i \in 1 .. Len(ts) : Keeps(ts[i], A)
    <3> HIDE DEF named
    <3> QED BY <1>4, <2>3
  <2> QED BY <2>1, <2>3, <2>4, FlattenKeeps
<1>8. CASE type.k = "map"
  <2> PICK c1 : c1 = c(1)
    OBVIOUS
  <2> PICK c2 : c2 = c(2)
    OBVIOUS
  <2> PICK f1 : f1 = f[type.kids[1]]
    OBVIOUS
  <2> PICK f2 : f2 = f[type.kids[2]]
    OBVIOUS
  <2> PICK B : B = A \cup {c1} \cup {c2}
    OBVIOUS
  <2>1. 1 \in 1 .. Len(type.kids) /\ 2 \in 1 .. Len(type.kids)
    BY <1>8, KidsOf
  <2>2. c1 \notin A /\ c2 \notin A /\ c1 # c2
    <3>1. c(1) # c(2)
      BY DEF Child
    <3> HIDE DEF c
    <3> QED BY <1>2, <3>1
  <2>3. Lacks(B, {"slot"}) /\ Lacks(A \cup {c2}, {"slot"})
    BY <1>1 DEF Lacks, Child
  <2>4. Room(B, type.kids[1].depth) /\ Room(B, type.kids[2].depth)
    <3>1. type.depth \in Nat /\ \A i \in {1, 2} : type.kids[i].depth \in Nat /\ type.kids[i].depth < type.depth
      BY <2>1, KidsOf
    <3>2. \A b \in A : b[1] = "type" => b[2] \in Nat /\ b[2] > type.depth
      BY DEF Room
    <3>3. \A b \in B : b[1] = "type" => b[2] \in Nat /\ b[2] >= type.depth
      BY <3>1, <3>2 DEF Child
    <3>4. Lacks(B, TypeKinds)
      BY DEF Room, Lacks, TypeKinds, Child
    <3> QED BY <3>1, <3>3, <3>4 DEF Room
  <2>5. Leads(f1, B, B) /\ Leads(f2, B, B)
    BY <2>1, <2>4 DEF Keeps
  <2>6. Leads(Get(c1), A, A \cup {c1}) /\ Leads(Get(c2), A \cup {c1}, B)
    BY <2>2, GetLeads
  <2>7. Leads(Use(c1) \o f1, B, B) /\ Leads(Use(c2) \o f2, B, B)
    BY <2>5, UseKeeps, LeadsJoin DEF Keeps
  <2>8. Leads(destroyHandle(c1), B, A \cup {c2}) /\ Leads(destroyHandle(c2), A \cup {c2}, A)
    <3>1. B \ {c1} = A \cup {c2} /\ (A \cup {c2}) \ {c2} = A /\ c1 \in B /\ c2 \in A \cup {c2}
      BY <2>2
    <3> QED BY <2>3, <3>1, DestroyLeads
  <2>9. Leads(Get(c1) \o Get(c2), A, B)
    BY <2>6, LeadsJoin
  <2>10. Leads(Get(c1) \o Get(c2) \o (Use(c1) \o f1), A, B)
    BY <2>7, <2>9, LeadsJoin
  <2>11. Leads(Get(c1) \o Get(c2) \o (Use(c1) \o f1) \o (Use(c2) \o f2), A, B)
    BY <2>7, <2>10, LeadsJoin
  <2>12. Leads(Get(c1) \o Get(c2) \o (Use(c1) \o f1) \o (Use(c2) \o f2) \o destroyHandle(c1), A, A \cup {c2})
    BY <2>8, <2>11, LeadsJoin
  <2>13. Leads(Get(c1) \o Get(c2) \o (Use(c1) \o f1) \o (Use(c2) \o f2) \o destroyHandle(c1) \o destroyHandle(c2), A, A)
    BY <2>8, <2>12, LeadsJoin
  <2>14. Named(f, type) = Get(c1) \o Get(c2) \o (Use(c1) \o f1) \o (Use(c2) \o f2) \o destroyHandle(c1) \o destroyHandle(c2)
    BY <1>8 DEF Named
  <2> QED BY <2>13, <2>14 DEF Keeps
<1>9. CASE type.k \notin {"json", "list", "struct", "union", "map"}
  BY <1>9, NothingKeeps DEF Named
<1> QED BY <1>5, <1>6, <1>7, <1>8, <1>9

LEMMA TypeNamesKeep ==
  ASSUME NEW type \in LogicalTypes, NEW A, Room(A, type.depth)
  PROVE  Keeps(typeNames[type], A)
<1> PICK S : S = {n \in 0 .. MaxNesting + 1 :
                    \A t \in LogicalTypes : t.depth < n => \A B : Room(B, t.depth) => Keeps(typeNames[t], B)}
  OBVIOUS
<1>0. MaxNesting + 1 \in Nat
  BY OwnershipAssumption
<1>1. 0 \in S
  <2>1. \A t \in LogicalTypes : ~(t.depth < 0)
    BY KidsOf
  <2> QED BY <1>0, <2>1
<1>2. ASSUME NEW n \in 0 .. (MaxNesting + 1) - 1, n \in S PROVE n + 1 \in S
  <2>1. ASSUME NEW t \in LogicalTypes, t.depth < n + 1, NEW B, Room(B, t.depth)
        PROVE  Keeps(typeNames[t], B)
    <3>1. \A i \in 1 .. Len(t.kids) : t.kids[i] \in LogicalTypes /\ t.kids[i].depth < n
      BY <2>1, KidsOf
    <3>2. \A i \in 1 .. Len(t.kids) : \A C : Room(C, t.kids[i].depth) => Keeps(typeNames[t.kids[i]], C)
      BY <1>2, <3>1
    <3>3. Keeps(Named(typeNames, t), B)
      BY <2>1, <3>2, NamedKeeps
    <3> QED BY <3>3, TypeNamesIs
  <2>2. n + 1 \in 0 .. MaxNesting + 1
    BY <1>0
  <2> QED BY <2>1, <2>2
<1>3. \A n \in 0 .. MaxNesting + 1 : n \in S
  BY <1>0, <1>1, <1>2, UpToInduction
<1>4. MaxNesting + 1 \in S
  BY <1>0, <1>3
<1>5. type.depth < MaxNesting + 1
  BY KidsOf, OwnershipAssumption
<1> QED BY <1>4, <1>5

LEMMA DecodersIs ==
  ASSUME NEW data, NEW type \in LogicalTypes
  PROVE  decoders(data)[type] = Decoded(data, decoders(data), type)
<1> DEFINE Folds(f) == f = [t \in LogicalTypes |-> Decoded(data, f, t)]
<1>1. \E f : Folds(f)
  <2>1. \E f : f = [t \in LogicalTypes |-> Walk(FALSE, data, f, t)]
    BY WalkExists
  <2> QED BY <2>1 DEF Walk
<1> PICK h : h = CHOOSE f : Folds(f)
  OBVIOUS
<1>2. decoders(data) = h
  BY DEF decoders, Decoded, Below, Fields
<1>3. Folds(h)
  <2> HIDE DEF Folds
  <2> QED BY <1>1
<1> QED BY <1>2, <1>3

(* Room beside the types at one depth: none deeper is held.                *)
RoomBeside(A, n) == Lacks(A, TypeKinds) /\ \A b \in A : b[1] = "type" => b[2] \in Nat /\ b[2] >= n

BelowKeep(data, f, type) ==
    \A i \in 1 .. Len(type.kids) :
        \A B : Room(B, type.kids[i].depth) /\ data \in B => Keeps(f[type.kids[i]], B)

LEMMA BesideUnder ==
  ASSUME NEW A, NEW type \in LogicalTypes, RoomBeside(A, type.depth), NEW i \in 1 .. Len(type.kids), NEW j
  PROVE  Room(A, type.kids[i].depth) /\ Room(A \cup {Child(type, j)}, type.kids[i].depth)
<1>1. type.depth \in Nat /\ type.kids[i].depth \in Nat /\ type.kids[i].depth < type.depth
  BY KidsOf
<1>2. \A b \in A : b[1] = "type" => b[2] \in Nat /\ b[2] > type.kids[i].depth
  BY <1>1 DEF RoomBeside
<1> QED BY <1>1, <1>2 DEF Room, RoomBeside, Lacks, Child, TypeKinds

LEMMA BelowKeeps ==
  ASSUME NEW type \in LogicalTypes, NEW f, NEW A, NEW data \in A, BelowKeep(data, f, type),
         RoomBeside(A, type.depth), NEW i \in 1 .. Len(type.kids), Child(type, i) \notin A
  PROVE  Keeps(Below(data, f, type, i), A) /\ Keeps(FieldName \o Below(data, f, type, i), A)
<1>1. Room(A, type.kids[i].depth) /\ Room(A \cup {Child(type, i)}, type.kids[i].depth)
  BY BesideUnder
<1>2. Keeps(FieldName, A)
  BY <1>1, AliasKeeps
<1> PICK c : c = Child(type, i)
  OBVIOUS
<1> PICK M : M = A \cup {c}
  OBVIOUS
<1>3. Keeps(f[type.kids[i]], M)
  BY <1>1 DEF BelowKeep
<1>4. Keeps(Dictionary(type.kids[i], c), M)
  <2>1. c \in M /\ Room(M, type.kids[i].depth)
    BY <1>1
  <2> QED BY <2>1, DictionaryKeeps
<1>5. Keeps(Dictionary(type.kids[i], c) \o f[type.kids[i]], M)
  BY <1>3, <1>4, KeepsJoin
<1>6. Keeps(With(c, Dictionary(type.kids[i], c) \o f[type.kids[i]]), A)
  BY <1>5, WithKeeps
<1>7. Keeps(Below(data, f, type, i), A)
  BY <1>6, UseKeeps, KeepsJoin DEF Below
<1> QED BY <1>2, <1>7, KeepsJoin

LEMMA FieldsKeep ==
  ASSUME NEW type \in LogicalTypes, NEW f, NEW A, NEW data \in A, BelowKeep(data, f, type),
         RoomBeside(A, type.depth), \A i \in 1 .. Len(type.kids) : Child(type, i) \notin A
  PROVE  /\ Keeps(Fields(data, f, type), A)
         /\ Keeps(FlattenSeq([i \in 1 .. Len(type.kids) |-> Below(data, f, type, i)]), A)
<1> PICK ts : ts = [i \in 1 .. Len(type.kids) |-> FieldName \o Below(data, f, type, i)]
  OBVIOUS
<1> PICK us : us = [i \in 1 .. Len(type.kids) |-> Below(data, f, type, i)]
  OBVIOUS
<1>1. /\ ts = [i \in 1 .. Len(type.kids) |-> ts[i]] /\ us = [i \in 1 .. Len(type.kids) |-> us[i]]
      /\ Len(type.kids) \in Nat
  BY KidsOf
<1>2. IsSeq(ts) /\ Len(ts) = Len(type.kids) /\ IsSeq(us) /\ Len(us) = Len(type.kids)
  BY <1>1, FunIsSeq
<1>3. \A i \in 1 .. Len(type.kids) : Keeps(ts[i], A) /\ Keeps(us[i], A)
  BY BelowKeeps
<1>4. Keeps(FlattenSeq(ts), A) /\ Keeps(FlattenSeq(us), A)
  BY <1>2, <1>3, FlattenKeeps
<1> QED BY <1>4 DEF Fields

LEMMA DecodedKeeps ==
  ASSUME NEW type \in LogicalTypes, NEW f, NEW A, NEW data \in A, BelowKeep(data, f, type), Room(A, type.depth)
  PROVE  Keeps(Decoded(data, f, type), A)
<1> PICK c0 : c0 = Child(type, 0)
  OBVIOUS
<1> PICK M : M = A \cup {c0}
  OBVIOUS
<1>1. type.depth \in Nat /\ \A i : Child(type, i) \notin A
  BY KidsOf, RoomFor
<1>2. RoomBeside(A, type.depth) /\ RoomBeside(M, type.depth)
  BY <1>1 DEF Room, RoomBeside, Lacks, Child, TypeKinds
<1>3. \A i \in 1 .. Len(type.kids) : Child(type, i) \notin M
  <2>1. \A i \in 1 .. Len(type.kids) : Child(type, i) # c0
    BY KidsOf DEF Child
  <2> QED BY <1>1, <2>1
<1>4. Keeps(Use(data), A)
  BY UseKeeps
<1>5. CASE type.k = "json"
  BY <1>5, AliasKeeps DEF Decoded
<1>7. CASE type.k = "struct"
  BY <1>1, <1>2, <1>7, FieldsKeep DEF Decoded
<1>8. CASE type.k = "map"
  <2>1. Keeps(Fields(data, f, type), M)
    BY <1>2, <1>3, FieldsKeep
  <2>2. Keeps(With(c0, Fields(data, f, type)), A)
    BY <1>1, <2>1, WithKeeps
  <2>3. Keeps(Use(data) \o With(c0, Fields(data, f, type)), A)
    BY <1>4, <2>2, KeepsJoin
  <2> QED BY <1>8, <2>3 DEF Decoded
<1>9. CASE type.k = "union"
  <2> PICK rest : rest = FlattenSeq([i \in 1 .. Len(type.kids) |-> Below(data, f, type, i)])
    OBVIOUS
  <2>1. Keeps(rest, A)
    BY <1>1, <1>2, FieldsKeep
  <2>2. Keeps(With(c0, <<>>), A)
    BY <1>1, NothingKeeps, WithKeeps
  <2>3. Keeps((Use(data) \o With(c0, <<>>)) \o rest, A)
    BY <1>4, <2>1, <2>2, KeepsJoin
  <2> QED BY <1>9, <2>3 DEF Decoded
<1>10. CASE type.k = "list"
  <2>1. 1 \in 1 .. Len(type.kids)
    <3>1. Len(type.kids) = 1
      BY <1>10, KidsOf
    <3> QED BY <3>1
  <2>2. Keeps(Below(data, f, type, 1), A)
    BY <1>1, <1>2, <2>1, BelowKeeps
  <2> QED BY <1>10, <2>2 DEF Decoded
<1>11. CASE type.k \notin {"json", "list", "struct", "union", "map"}
  BY <1>11, NothingKeeps DEF Decoded
<1> QED BY <1>5, <1>7, <1>8, <1>9, <1>10, <1>11

LEMMA DecodersKeep ==
  ASSUME NEW type \in LogicalTypes, NEW A, NEW data \in A, Room(A, type.depth)
  PROVE  Keeps(decoders(data)[type], A)
<1> PICK d : d = decoders(data)
  OBVIOUS
<1> PICK S : S = {n \in 0 .. MaxNesting + 1 :
                    \A t \in LogicalTypes : t.depth < n =>
                        \A B : Room(B, t.depth) /\ data \in B => Keeps(d[t], B)}
  OBVIOUS
<1>0. MaxNesting + 1 \in Nat
  BY OwnershipAssumption
<1>1. 0 \in S
  <2>1. \A t \in LogicalTypes : ~(t.depth < 0)
    BY KidsOf
  <2> QED BY <1>0, <2>1
<1>2. ASSUME NEW n \in 0 .. (MaxNesting + 1) - 1, n \in S PROVE n + 1 \in S
  <2>1. ASSUME NEW t \in LogicalTypes, t.depth < n + 1, NEW B, Room(B, t.depth), data \in B
        PROVE  Keeps(d[t], B)
    <3>1. \A i \in 1 .. Len(t.kids) : t.kids[i] \in LogicalTypes /\ t.kids[i].depth < n
      BY <2>1, KidsOf
    <3>2. BelowKeep(data, d, t)
      BY <1>2, <3>1 DEF BelowKeep
    <3>3. Keeps(Decoded(data, d, t), B)
      BY <2>1, <3>2, DecodedKeeps
    <3> QED BY <3>3, DecodersIs
  <2>2. n + 1 \in 0 .. MaxNesting + 1
    BY <1>0
  <2> QED BY <2>1, <2>2
<1>3. \A n \in 0 .. MaxNesting + 1 : n \in S
  BY <1>0, <1>1, <1>2, UpToInduction
<1>4. MaxNesting + 1 \in S
  BY <1>0, <1>3
<1>5. type.depth < MaxNesting + 1
  BY KidsOf, OwnershipAssumption
<1> QED BY <1>4, <1>5

-----------------------------------------------------------------------------
(* The columns of a result, and the decoders of a chunk.                   *)
LEMMA ColumnsOf ==
  ASSUME NEW cols \in Columns
  PROVE  Len(cols) \in Nat /\ \A i \in 1 .. Len(cols) : cols[i] \in LogicalTypes /\ cols[i].depth \in Nat
<1>1. cols \in Seq(LogicalTypes)
  BY OwnershipAssumption
<1>2. Len(cols) \in Nat /\ \A i \in 1 .. Len(cols) : cols[i] \in LogicalTypes
  BY <1>1, LenProperties, ElementOfSeq
<1> QED BY <1>2, KidsOf

LEMMA TypeNameKeeps ==
  ASSUME NEW type \in LogicalTypes, NEW A, NEW lt \in A, Room(A, type.depth)
  PROVE  Keeps(typeName(type, lt), A)
BY UseKeeps, TypeNamesKeep, KeepsJoin DEF typeName

RowKinds == {"column", "type", "slot", "alias", "name", "value"}

LEMMA ColumnKeeps ==
  ASSUME NEW type \in LogicalTypes, NEW A, NEW res \in A, Lacks(A, RowKinds)
  PROVE  Keeps(ColumnMeta(type, res), A)
<1> PICK col : col = ColumnHandle
  OBVIOUS
<1> PICK M : M = A \cup {col}
  OBVIOUS
<1>1. col \notin A /\ col \in M /\ M \ {col} = A
  BY DEF Lacks, RowKinds, ColumnHandle
<1>2. Room(M, type.depth) /\ Lacks(M, {"slot"})
  BY DEF Room, Lacks, RowKinds, TypeKinds, ColumnHandle
<1>3. Keeps(typeName(type, col), M) /\ Keeps(Alias, M) /\ Keeps(Dictionary(type, col), M)
  BY <1>1, <1>2, TypeNameKeeps, AliasKeeps, DictionaryKeeps
<1>4. Keeps(IF type.k = "json" THEN Alias ELSE <<>>, M)
  BY <1>3, NothingKeeps
<1>5. Leads(Use(res) \o Get(col), A, M)
  BY <1>1, UseKeeps, GetLeads, LeadsJoin DEF Keeps
<1>6. Leads(Use(res) \o Get(col) \o typeName(type, col), A, M)
  BY <1>3, <1>5, LeadsJoin DEF Keeps
<1>7. Leads(Use(res) \o Get(col) \o typeName(type, col) \o (IF type.k = "json" THEN Alias ELSE <<>>), A, M)
  BY <1>4, <1>6, LeadsJoin DEF Keeps
<1>8. Leads(Use(res) \o Get(col) \o typeName(type, col) \o (IF type.k = "json" THEN Alias ELSE <<>>)
            \o Dictionary(type, col), A, M)
  BY <1>3, <1>7, LeadsJoin DEF Keeps
<1>9. Leads(destroyHandle(col), M, A)
  BY <1>1, <1>2, DestroyLeads
<1> QED BY <1>8, <1>9, LeadsJoin DEF ColumnMeta, Keeps

LEMMA RowsKeep ==
  ASSUME NEW cols \in Columns, NEW A, NEW res \in A, Lacks(A, RowKinds)
  PROVE  Keeps(newRows(cols, res), A)
<1> PICK ts : ts = [i \in 1 .. Len(cols) |-> ColumnMeta(cols[i], res)]
  OBVIOUS
<1>1. ts = [i \in 1 .. Len(cols) |-> ts[i]] /\ Len(cols) \in Nat
  BY ColumnsOf
<1>2. IsSeq(ts) /\ Len(ts) = Len(cols)
  BY <1>1, FunIsSeq
<1>3. \A i \in 1 .. Len(cols) : Keeps(ts[i], A)
  BY ColumnsOf, ColumnKeeps
<1>4. Keeps(FlattenSeq(ts), A)
  BY <1>2, <1>3, FlattenKeeps
<1> QED BY <1>4 DEF newRows

VectorKinds == {"vectorType", "type", "slot", "alias", "name", "value"}

LEMMA NewDecodersKeep ==
  ASSUME NEW cols \in Columns, NEW A, NEW data \in A, Lacks(A, VectorKinds)
  PROVE  Keeps(newDecoders(cols, data), A)
<1> PICK v : v = <<"vectorType">>
  OBVIOUS
<1> PICK ts : ts = [i \in 1 .. Len(cols) |-> newVecDecoder(cols[i], data)]
  OBVIOUS
<1>1. ts = [i \in 1 .. Len(cols) |-> ts[i]] /\ Len(cols) \in Nat
  BY ColumnsOf
<1>2. IsSeq(ts) /\ Len(ts) = Len(cols)
  BY <1>1, FunIsSeq
<1>3. ASSUME NEW i \in 1 .. Len(cols) PROVE Keeps(ts[i], A)
  <2> PICK M : M = A \cup {v}
    OBVIOUS
  <2>1. v \notin A /\ v \in M /\ data \in M /\ Room(M, cols[i].depth)
    BY DEF Room, Lacks, VectorKinds, TypeKinds
  <2>2. Keeps(decoders(data)[cols[i]], M) /\ Keeps(Dictionary(cols[i], v), M)
    BY <2>1, ColumnsOf, DecodersKeep, DictionaryKeeps
  <2>3. Keeps(Dictionary(cols[i], v) \o decoders(data)[cols[i]], M)
    BY <2>2, KeepsJoin
  <2>4. Keeps(With(v, Dictionary(cols[i], v) \o decoders(data)[cols[i]]), A)
    BY <2>1, <2>3, WithKeeps
  <2> QED BY <2>4, UseKeeps, KeepsJoin DEF newVecDecoder
<1>4. Keeps(FlattenSeq(ts), A)
  BY <1>2, <1>3, FlattenKeeps
<1> QED BY <1>4 DEF newDecoders

-----------------------------------------------------------------------------
(* Functions and callbacks.                                                *)

(* A block that is taken, read and given back.                             *)
LEMMA WithUseKeeps ==
  ASSUME NEW A, NEW b, b \notin A, NEW h, h \in A \cup {b}
  PROVE  Keeps(With(b, Use(h)), A)
<1>1. Keeps(Use(h), A \cup {b})
  BY UseKeeps
<1> QED BY <1>1, WithKeeps

(* The same trace a number of times.                                       *)
LEMMA RepeatKeeps ==
  ASSUME NEW n \in Nat, NEW t, NEW A, Keeps(t, A), NEW ts, ts = [i \in 1 .. n |-> t]
  PROVE  Keeps(FlattenSeq(ts), A)
<1>1. ts = [i \in 1 .. n |-> ts[i]]
  OBVIOUS
<1>2. IsSeq(ts) /\ Len(ts) = n
  BY <1>1, FunIsSeq
<1>3. \A i \in 1 .. n : Keeps(ts[i], A)
  OBVIOUS
<1> QED BY <1>2, <1>3, FlattenKeeps

RegisterKinds == {"function", "text", "paramType", "slot"}

LEMMA RegisterKeeps ==
  ASSUME NEW A, NEW h \in A, Lacks(A, RegisterKinds), NEW params \in Nat
  PROVE  Keeps(Register(h, params), A)
<1> PICK fn : fn = <<"function">>
  OBVIOUS
<1> PICK text : text = cstring
  OBVIOUS
<1> PICK param : param = <<"paramType">>
  OBVIOUS
<1> PICK M : M = A \cup {fn}
  OBVIOUS
<1>1. fn \notin A /\ fn \in M /\ h \in M /\ text \notin M /\ param \notin M /\ M \ {fn} = A /\ Lacks(M, {"slot"})
  BY DEF Lacks, RegisterKinds, cstring
<1>2. Leads(Get(fn), A, M)
  BY <1>1, GetLeads
<1>3. Leads(With(text, Use(fn)), M, M) /\ Keeps(With(param, Use(fn)), M) /\ Leads(Use(h), M, M)
  BY <1>1, WithUseKeeps, UseKeeps DEF Keeps
<1>4. Leads(FlattenSeq([i \in 1 .. params |-> Parameter]), M, M)
  <2> PICK ts : ts = [i \in 1 .. params |-> Parameter]
    OBVIOUS
  <2>1. Keeps(Parameter, M)
    BY <1>3 DEF Parameter
  <2>2. Keeps(FlattenSeq(ts), M)
    BY <2>1, RepeatKeeps
  <2> QED BY <2>2 DEF Keeps
<1>5. Leads(destroyHandle(fn), M, A)
  BY <1>1, DestroyLeads
<1>6. Leads(Get(fn) \o With(text, Use(fn)), A, M)
  BY <1>2, <1>3, LeadsJoin
<1>7. Leads(Get(fn) \o With(text, Use(fn)) \o FlattenSeq([i \in 1 .. params |-> Parameter]), A, M)
  BY <1>4, <1>6, LeadsJoin
<1>8. Leads(Get(fn) \o With(text, Use(fn)) \o FlattenSeq([i \in 1 .. params |-> Parameter]) \o Use(h), A, M)
  BY <1>3, <1>7, LeadsJoin
<1> QED BY <1>5, <1>8, LeadsJoin DEF Register, Keeps

BandKinds == {"set", "text", "paramType", "slot"}

(* A function of a band is added, or destroyed again if it is refused.     *)
Banded(p, addFails) ==
    Get(Overload(p)) \o With(cstring, Use(Overload(p)))
    \o FlattenSeq([i \in 1 .. p + 1 |-> With(<<"paramType">>, Use(Overload(p)))])
    \o Use(<<"set">>) \o (IF p = addFails THEN destroyHandle(Overload(p)) ELSE <<>>)

LEMMA BandedLeads ==
  ASSUME NEW p \in Nat, NEW addFails, NEW A, Lacks(A, {"text", "paramType", "slot"}), <<"set">> \in A, Overload(p) \notin A
  PROVE  Leads(Banded(p, addFails), A, IF p = addFails THEN A ELSE A \cup {Overload(p)})
<1> PICK o : o = Overload(p)
  OBVIOUS
<1> PICK text : text = cstring
  OBVIOUS
<1> PICK param : param = <<"paramType">>
  OBVIOUS
<1> PICK set : set = <<"set">>
  OBVIOUS
<1> PICK M : M = A \cup {o}
  OBVIOUS
<1> PICK E : E = IF p = addFails THEN A ELSE M
  OBVIOUS
<1>1. o \in M /\ set \in M /\ M \ {o} = A
  OBVIOUS
<1>2. text \notin M /\ param \notin M /\ Lacks(M, {"slot"})
  BY DEF Lacks, cstring, Overload
<1>3. Leads(Get(o), A, M)
  BY GetLeads
<1>4. Leads(With(text, Use(o)), M, M) /\ Keeps(With(param, Use(o)), M) /\ Leads(Use(set), M, M)
  BY <1>1, <1>2, WithUseKeeps, UseKeeps DEF Keeps
<1>5. Leads(FlattenSeq([i \in 1 .. p + 1 |-> With(param, Use(o))]), M, M)
  <2> PICK n : n = p + 1
    OBVIOUS
  <2> PICK t : t = With(param, Use(o))
    OBVIOUS
  <2>1. Keeps(t, M) /\ n \in Nat
    BY <1>4
  <2> PICK ts : ts = [i \in 1 .. n |-> t]
    OBVIOUS
  <2>2. Keeps(FlattenSeq(ts), M)
    BY <2>1, RepeatKeeps
  <2> QED BY <2>2 DEF Keeps
<1>6. Leads(IF p = addFails THEN destroyHandle(o) ELSE <<>>, M, E)
  <2>1. Leads(destroyHandle(o), M, A)
    BY <1>1, <1>2, DestroyLeads
  <2>2. Leads(<<>>, M, M)
    BY NothingKeeps DEF Keeps
  <2> QED BY <2>1, <2>2
<1>7. Leads(Get(o) \o With(text, Use(o)), A, M)
  BY <1>3, <1>4, LeadsJoin
<1>8. Leads(Get(o) \o With(text, Use(o)) \o FlattenSeq([i \in 1 .. p + 1 |-> With(param, Use(o))]), A, M)
  BY <1>5, <1>7, LeadsJoin
<1>9. Leads(Get(o) \o With(text, Use(o)) \o FlattenSeq([i \in 1 .. p + 1 |-> With(param, Use(o))]) \o Use(set), A, M)
  BY <1>4, <1>8, LeadsJoin
<1> QED BY <1>6, <1>9, LeadsJoin DEF Banded

(* What is left of a band is functions that were added.                    *)
Added(A, B, max) == A \subseteq B /\ B \subseteq A \cup {Overload(p) : p \in 1 .. max}

LEMMA BandLeads ==
  ASSUME NEW A, NEW h \in A, Lacks(A, BandKinds), NEW max \in Nat, NEW addFails \in Nat,
         \A p \in 1 .. max : Overload(p) \notin A
  PROVE  \E B : Added(A, B, max) /\ Leads(registerAggregateBand(h, max, addFails), A, B)
<1> PICK set : set = <<"set">>
  OBVIOUS
<1> PICK text : text = cstring
  OBVIOUS
<1> PICK last : last = IF addFails \in 1 .. max THEN addFails ELSE max
  OBVIOUS
<1> PICK ts : ts = [p \in 1 .. last |-> Banded(p, addFails)]
  OBVIOUS
<1> PICK at : at = [n \in 0 .. last |-> A \cup {set} \cup {Overload(p) : p \in {q \in 1 .. n : q # addFails}}]
  OBVIOUS
<1>1. last \in Nat /\ last <= max
  OBVIOUS
<1>2. set \notin A /\ text \notin A /\ text # set
  BY DEF Lacks, BandKinds, cstring
<1>3. \A n \in 0 .. last : Lacks(at[n], {"text", "paramType", "slot"}) /\ set \in at[n] /\ h \in at[n]
  BY DEF Lacks, BandKinds, Overload
<1>4. ASSUME NEW p \in 1 .. last PROVE Leads(ts[p], at[p - 1], at[p])
  <2>1. p - 1 \in 0 .. last /\ p \in 0 .. last /\ p \in Nat /\ p \in 1 .. max
    BY <1>1
  <2>2. Overload(p) \notin at[p - 1]
    <3>1. \A q \in 1 .. p - 1 : Overload(q) # Overload(p)
      BY DEF Overload
    <3>2. Overload(p) # set
      BY DEF Overload
    <3> QED BY <2>1, <3>1, <3>2
  <2>3. at[p] = IF p = addFails THEN at[p - 1] ELSE at[p - 1] \cup {Overload(p)}
    <3>1. {q \in 1 .. p : q # addFails} = {q \in 1 .. p - 1 : q # addFails} \cup {q \in {p} : q # addFails}
      BY <2>1
    <3> QED BY <2>1, <3>1
  <2>4. Leads(Banded(p, addFails), at[p - 1], at[p])
    BY <1>3, <2>1, <2>2, <2>3, BandedLeads
  <2> QED BY <2>4
<1>5. Leads(FlattenSeq(ts), at[0], at[last])
  <2>1. ts = [i \in 1 .. last |-> ts[i]]
    OBVIOUS
  <2>2. IsSeq(ts) /\ Len(ts) = last
    BY <1>1, <2>1, FunIsSeq
  <2> QED BY <1>4, <2>2, FlattenLeads
<1>6. at[0] = A \cup {set}
  BY <1>1
<1>7. Leads(With(text, Get(set)), A, at[0])
  <2>1. Leads(Get(set), A \cup {text}, (A \cup {text}) \cup {set})
    BY <1>2, GetLeads
  <2>2. (A \cup {text}) \cup {set} = (A \cup {set}) \cup {text}
    OBVIOUS
  <2> QED BY <1>2, <1>6, <2>1, <2>2, WithLeads
<1>8. Leads(IF last = addFails THEN <<>> ELSE Use(h), at[last], at[last])
  <2>1. last \in 0 .. last
    BY <1>1
  <2> QED BY <1>3, <2>1, NothingKeeps, UseKeeps DEF Keeps
<1> PICK B : B = at[last] \ {set}
  OBVIOUS
<1>9. Leads(destroyHandle(set), at[last], B)
  <2>1. last \in 0 .. last
    BY <1>1
  <2> PICK M : M = at[last]
    OBVIOUS
  <2>2. Lacks(M, {"slot"}) /\ set \in M
    BY <1>3, <2>1 DEF Lacks
  <2>3. Leads(destroyHandle(set), M, M \ {set})
    BY <2>2, DestroyLeads
  <2> QED BY <2>3
<1>10. Added(A, B, max)
  <2>1. at[last] = A \cup {set} \cup {Overload(p) : p \in {q \in 1 .. last : q # addFails}}
    BY <1>1
  <2>2. \A p \in 1 .. last : p \in 1 .. max
    BY <1>1
  <2> QED BY <1>2, <2>1, <2>2 DEF Added
<1>11. Leads(With(text, Get(set)) \o FlattenSeq(ts), A, at[last])
  BY <1>5, <1>7, LeadsJoin
<1>12. Leads(With(text, Get(set)) \o FlattenSeq(ts) \o (IF last = addFails THEN <<>> ELSE Use(h)), A, at[last])
  BY <1>8, <1>11, LeadsJoin
<1>13. Leads(With(text, Get(set)) \o FlattenSeq(ts) \o (IF last = addFails THEN <<>> ELSE Use(h)) \o destroyHandle(set), A, B)
  BY <1>9, <1>12, LeadsJoin
<1>14. registerAggregateBand(h, max, addFails)
       = With(text, Get(set)) \o FlattenSeq(ts) \o (IF last = addFails THEN <<>> ELSE Use(h)) \o destroyHandle(set)
  BY DEF registerAggregateBand, Banded
<1> QED BY <1>10, <1>13, <1>14

BindKinds == {"columnType", "name"}

LEMMA BindFnKeeps ==
  ASSUME NEW cols \in Columns, NEW A, Lacks(A, BindKinds)
  PROVE  Keeps(bindFn(cols), A)
<1> PICK c : c = <<"columnType">>
  OBVIOUS
<1> PICK n : n = <<"name">>
  OBVIOUS
<1> PICK t : t = With(c, With(n, Use(c)))
  OBVIOUS
<1>1. c \notin A /\ n \notin A \cup {c}
  BY DEF Lacks, BindKinds
<1>2. Keeps(With(n, Use(c)), A \cup {c})
  BY <1>1, WithUseKeeps
<1>3. Keeps(t, A)
  BY <1>1, <1>2, WithKeeps
<1> PICK ts : ts = [i \in 1 .. Len(cols) |-> t]
  OBVIOUS
<1>4. Keeps(FlattenSeq(ts), A)
  BY <1>3, ColumnsOf, RepeatKeeps
<1> QED BY <1>4 DEF bindFn

CallKinds == {"input", "message", "cell", "vectorType", "type", "slot", "alias", "name", "value"}

LEMMA CbKeeps ==
  ASSUME NEW cols \in Columns, NEW fails, NEW A, Lacks(A, CallKinds)
  PROVE  Keeps(cb(cols, fails), A)
<1> PICK in : in = <<"input">>
  OBVIOUS
<1> PICK msg : msg = <<"message">>
  OBVIOUS
<1> PICK cell : cell = <<"cell">>
  OBVIOUS
<1> PICK M : M = A \cup {in}
  OBVIOUS
<1>1. in \notin A /\ in \in M /\ msg \notin M /\ cell \notin M /\ Lacks(M, VectorKinds)
  BY DEF Lacks, CallKinds, VectorKinds
<1>2. Keeps(newDecoders(cols, in), M)
  BY <1>1, NewDecodersKeep
<1>3. Keeps(setScalarFunctionError, M) /\ Keeps(With(cell, Use(cell)), M)
  BY <1>1, WithUseKeeps DEF setScalarFunctionError
<1>4. Keeps(newDecoders(cols, in) \o (IF fails THEN setScalarFunctionError ELSE With(cell, Use(cell))), M)
  BY <1>2, <1>3, KeepsJoin
<1> QED BY <1>1, <1>4, WithKeeps DEF cb

(* The columns of a table are read from a statement that is given back.    *)
LEMMA TableColumnsKeep ==
  ASSUME NEW A, NEW h \in A, Lacks(A, PrepareKinds), NEW st, st \notin A, st[1] \notin PrepareKinds,
         NEW how \in PrepareFailures \cup {"ok"}
  PROVE  Keeps(tableColumns(h, st, how), A)
<1>1. CASE how \in PrepareFailures
  <2>1. how # "ok"
    BY <1>1 DEF PrepareFailures
  <2>2. Leads(prepareLocked(h, st, how, FALSE), A, A)
    BY <2>1, PrepareLeads
  <2> QED BY <1>1, <2>2 DEF tableColumns, Keeps
<1>2. CASE how = "ok"
  <2> PICK M : M = A \cup {st}
    OBVIOUS
  <2>1. Leads(prepareLocked(h, st, "ok", FALSE), A, M)
    BY <1>2, PrepareLeads
  <2>2. st \in M /\ M \ {st} = A /\ Lacks(M, {"resPtr", "result"}) /\ Lacks(M, {"slot"})
    BY DEF Lacks, PrepareKinds
  <2>3. Leads(executed(st), M, M)
    BY <2>2, ExecutedKeeps DEF Keeps
  <2>4. Leads(destroyHandle(st), M, A)
    BY <2>2, DestroyLeads
  <2>5. Leads(prepareLocked(h, st, "ok", FALSE) \o executed(st) \o destroyHandle(st), A, A)
    BY <2>1, <2>3, <2>4, LeadsJoin
  <2>6. how \notin PrepareFailures
    BY <1>2 DEF PrepareFailures
  <2> QED BY <1>2, <2>5, <2>6 DEF tableColumns, Keeps
<1> QED BY <1>1, <1>2

-----------------------------------------------------------------------------
(* Results.                                                                *)
ResultKinds == {"sql", "resPtr", "result", "column", "type", "slot", "alias", "name", "value"}

(* A query's result is there afterwards, or nothing of it.                 *)
LEMMA ResultLeads ==
  ASSUME NEW u, NEW A, Handle(u) \in A, Lacks(A, ResultKinds), ResPtr(u) \notin A, ResultOf(u) \notin A,
         NEW asks, Keeps(asks, A \cup {ResPtr(u)}), NEW cols \in Columns, NEW ok \in BOOLEAN, NEW rollback
  PROVE  Leads(ResultTrace(u, asks, cols, ok, rollback), A, IF ok THEN A \cup {ResPtr(u), ResultOf(u)} ELSE A)
<1> PICK h : h = Handle(u)
  OBVIOUS
<1> PICK p : p = ResPtr(u)
  OBVIOUS
<1> PICK r : r = ResultOf(u)
  OBVIOUS
<1> PICK M : M = A \cup {p} \cup {r}
  OBVIOUS
<1>1. p # r /\ p[1] \notin ResultKinds /\ r[1] \notin ResultKinds
  BY DEF ResPtr, ResultOf, ResultKinds
<1>2. Lacks(M, RowKinds) /\ Lacks(A, QueryKinds)
  BY <1>1 DEF Lacks, RowKinds, ResultKinds, QueryKinds
<1>3. Leads(Get(p), A, A \cup {p}) /\ Leads(Get(r), A \cup {p}, M)
  BY <1>1, GetLeads
<1>4. Leads(Get(p) \o asks \o Get(r), A, M)
  BY <1>3, LeadsJoin DEF Keeps
<1>5. CASE ok
  <2>1. Leads(newRows(cols, r), M, M)
    BY <1>2, RowsKeep DEF Keeps
  <2>2. Leads(Get(p) \o asks \o Get(r) \o newRows(cols, r), A, M)
    BY <1>4, <2>1, LeadsJoin
  <2>3. M = A \cup {p, r}
    OBVIOUS
  <2> QED BY <1>5, <2>2, <2>3 DEF ResultTrace
<1>6. CASE ~ok
  <2>1. Leads(Use(r), M, M) /\ Leads(recoverTx(h, rollback), A, A)
    BY <1>2, UseKeeps, RecoverKeeps DEF Keeps
  <2>2. Leads(DestroyResult(r, p), M, A)
    BY <1>1, DestroyResultLeads
  <2>3. Leads(Use(r) \o DestroyResult(r, p) \o recoverTx(h, rollback), M, A)
    BY <2>1, <2>2, LeadsJoin
  <2>4. Leads(Get(p) \o asks \o Get(r) \o (Use(r) \o DestroyResult(r, p) \o recoverTx(h, rollback)), A, A)
    BY <1>4, <2>3, LeadsJoin
  <2> QED BY <1>6, <2>4 DEF ResultTrace
<1> QED BY <1>5, <1>6

LEMMA QueryLeads ==
  ASSUME NEW u, NEW A, Handle(u) \in A, Lacks(A, ResultKinds \cup {"param"}), ResPtr(u) \notin A, ResultOf(u) \notin A,
         NEW st \in A, NEW how, NEW cols \in Columns, NEW rollback
  PROVE  Leads(queryLocked(u, st, how, cols, rollback), A, IF how = "ok" THEN A \cup {ResPtr(u), ResultOf(u)} ELSE A)
<1> PICK E : E = IF how = "ok" THEN A \cup {ResPtr(u), ResultOf(u)} ELSE A
  OBVIOUS
<1> PICK trace : trace = ResultTrace(u, Use(st), cols, how = "ok", rollback)
  OBVIOUS
<1>1. Lacks(A, {"param"}) /\ Lacks(A, ResultKinds)
  BY DEF Lacks
<1>2. Leads(bindAll(st, how), A, A) /\ Keeps(Use(st), A \cup {ResPtr(u)})
  BY <1>1, BindKeeps, UseKeeps DEF Keeps
<1>3. Leads(trace, A, E)
  <2> PICK ok : ok = (how = "ok")
    OBVIOUS
  <2>1. ok \in BOOLEAN
    OBVIOUS
  <2>2. Leads(ResultTrace(u, Use(st), cols, ok, rollback), A, IF ok THEN A \cup {ResPtr(u), ResultOf(u)} ELSE A)
    BY <1>1, <1>2, <2>1, ResultLeads
  <2> QED BY <2>2
<1>4. Leads(IF how \in {"unbound", "bad value"} THEN <<>> ELSE trace, A, E)
  BY <1>3, NothingKeeps DEF Keeps
<1> QED BY <1>2, <1>4, LeadsJoin DEF queryLocked

-----------------------------------------------------------------------------
(* Opening a database.                                                     *)
LEMMA PutBack ==
  ASSUME NEW A, NEW B, NEW b, b \notin A, B = A \cup {b}
  PROVE  Leads(Put(b), B, A)
<1>1. B \ {b} = A /\ b \in B
  OBVIOUS
<1> QED BY <1>1, PutLeads

Opens == Get(<<"config">>) \o Use(<<"config">>) \o Get(<<"path">>) \o Get(<<"dbSlot">>)
         \o Get(<<"errSlot">>) \o Use(<<"path">>) \o Put(<<"config">>)
Frees == Put(<<"path">>) \o Put(<<"dbSlot">>) \o Put(<<"errSlot">>)
Slots == {<<"path">>, <<"dbSlot">>, <<"errSlot">>}

LEMMA OpensLead ==
  ASSUME NEW A, Lacks(A, {"config", "path", "dbSlot", "errSlot"})
  PROVE  Leads(Opens, A, A \cup Slots)
<1> PICK c : c = <<"config">>
  OBVIOUS
<1> PICK p : p = <<"path">>
  OBVIOUS
<1> PICK d : d = <<"dbSlot">>
  OBVIOUS
<1> PICK x : x = <<"errSlot">>
  OBVIOUS
<1> PICK M : M = A \cup {c} \cup {p} \cup {d} \cup {x}
  OBVIOUS
<1>1. /\ c \notin A /\ p \notin A \cup {c} /\ d \notin A \cup {c} \cup {p} /\ x \notin A \cup {c} \cup {p} \cup {d}
      /\ c \notin A \cup Slots
  BY DEF Lacks, Slots
<1>2. /\ Leads(Get(c), A, A \cup {c}) /\ Leads(Get(p), A \cup {c}, A \cup {c} \cup {p})
      /\ Leads(Get(d), A \cup {c} \cup {p}, A \cup {c} \cup {p} \cup {d})
      /\ Leads(Get(x), A \cup {c} \cup {p} \cup {d}, M)
  BY <1>1, GetLeads
<1>3. Leads(Use(c), A \cup {c}, A \cup {c}) /\ Leads(Use(p), M, M)
  BY UseKeeps DEF Keeps
<1>4. Leads(Put(c), M, A \cup Slots)
  <2>1. M = (A \cup Slots) \cup {c}
    BY DEF Slots
  <2> QED BY <1>1, <2>1, PutBack
<1>5. Leads(Get(c) \o Use(c), A, A \cup {c})
  BY <1>2, <1>3, LeadsJoin
<1>6. Leads(Get(c) \o Use(c) \o Get(p), A, A \cup {c} \cup {p})
  BY <1>2, <1>5, LeadsJoin
<1>7. Leads(Get(c) \o Use(c) \o Get(p) \o Get(d), A, A \cup {c} \cup {p} \cup {d})
  BY <1>2, <1>6, LeadsJoin
<1>8. Leads(Get(c) \o Use(c) \o Get(p) \o Get(d) \o Get(x), A, M)
  BY <1>2, <1>7, LeadsJoin
<1>9. Leads(Get(c) \o Use(c) \o Get(p) \o Get(d) \o Get(x) \o Use(p), A, M)
  BY <1>3, <1>8, LeadsJoin
<1> QED BY <1>4, <1>9, LeadsJoin DEF Opens

LEMMA FreesLead ==
  ASSUME NEW A, Lacks(A, {"path", "dbSlot", "errSlot"})
  PROVE  Leads(Frees, A \cup Slots, A)
<1> PICK p : p = <<"path">>
  OBVIOUS
<1> PICK d : d = <<"dbSlot">>
  OBVIOUS
<1> PICK x : x = <<"errSlot">>
  OBVIOUS
<1>1. x \notin A /\ d \notin A \cup {x} /\ p \notin A \cup {x} \cup {d}
  BY DEF Lacks
<1>2. A \cup Slots = A \cup {x} \cup {d} \cup {p}
  BY DEF Slots
<1>3. Leads(Put(p), A \cup Slots, A \cup {x} \cup {d}) /\ Leads(Put(d), A \cup {x} \cup {d}, A \cup {x})
      /\ Leads(Put(x), A \cup {x}, A)
  BY <1>1, <1>2, PutBack
<1>4. Leads(Put(p) \o Put(d), A \cup Slots, A \cup {x})
  BY <1>3, LeadsJoin
<1> QED BY <1>3, <1>4, LeadsJoin DEF Frees

(* What an open leaves in the engine, by the place where it ends.          *)
OpenLeaves(at, e, u) ==
    IF at \in {"limit", "none"} THEN {DbOf(e), ConOf(e, u)} ELSE IF at = "connect" THEN {DbOf(e)} ELSE {}

Undo(at, e, u) ==
    IF at = "none" THEN <<>>
    ELSE (IF ConOf(e, u) \in SeenByDefer(at, e, u) THEN destroyHandle(ConOf(e, u)) ELSE <<>>)
         \o (IF DbOf(e) \in SeenByDefer(at, e, u) THEN destroyHandle(DbOf(e)) ELSE <<>>)

(* The deferred cleanup finds nothing to close: each return has emptied it. *)
LEMMA UndoKeeps == \A at, e, u, A : Leads(Undo(at, e, u), A, A)
<1> TAKE at, e, u, A
<1> PICK c : c = IF ConOf(e, u) \in SeenByDefer(at, e, u) THEN destroyHandle(ConOf(e, u)) ELSE <<>>
  OBVIOUS
<1> PICK d : d = IF DbOf(e) \in SeenByDefer(at, e, u) THEN destroyHandle(DbOf(e)) ELSE <<>>
  OBVIOUS
<1>1. CASE at = "none"
  BY <1>1, NothingKeeps DEF Undo, Keeps
<1>2. CASE at # "none"
  <2>1. c = <<>> /\ d = <<>>
    BY <1>2 DEF SeenByDefer
  <2>2. Leads(c \o d, A, A)
    BY <2>1, NothingKeeps, LeadsJoin DEF Keeps
  <2> QED BY <1>2, <2>2 DEF Undo
<1> QED BY <1>1, <1>2

OpenKinds == {"cfgSlot", "config", "path", "dbSlot", "errSlot", "conSlot", "message", "sql", "resPtr", "result"}

Connects(e) == Get(DbOf(e)) \o Use(DbOf(e)) \o Get(<<"conSlot">>) \o Use(DbOf(e))
Connected(at, e, u) == IF at = "connect" THEN <<>> ELSE Get(ConOf(e, u)) \o queryRaw(ConOf(e, u))

LEMMA ConnectsLead ==
  ASSUME NEW at, NEW e, NEW u, NEW A, Lacks(A, {"conSlot", "sql", "resPtr", "result"}),
         DbOf(e) \notin A, ConOf(e, u) \notin A, at \in {"connect", "limit", "none"}
  PROVE  /\ Leads(Connects(e), A, A \cup {DbOf(e)} \cup {<<"conSlot">>})
         /\ Leads(Connected(at, e, u), A \cup {DbOf(e)} \cup {<<"conSlot">>},
                  A \cup OpenLeaves(at, e, u) \cup {<<"conSlot">>})
<1> PICK d : d = DbOf(e)
  OBVIOUS
<1> PICK c : c = ConOf(e, u)
  OBVIOUS
<1> PICK s : s = <<"conSlot">>
  OBVIOUS
<1> PICK M : M = A \cup {d} \cup {s}
  OBVIOUS
<1>1. d \notin A /\ s \notin A \cup {d} /\ c \notin M /\ d[1] = "db" /\ c[1] = "con"
  BY DEF DbOf, ConOf, Lacks
<1>2. Leads(Get(d), A, A \cup {d}) /\ Leads(Use(d), A \cup {d}, A \cup {d})
      /\ Leads(Get(s), A \cup {d}, M) /\ Leads(Use(d), M, M)
  BY <1>1, GetLeads, UseKeeps DEF Keeps
<1>3. Leads(Get(d) \o Use(d), A, A \cup {d})
  BY <1>2, LeadsJoin
<1>4. Leads(Get(d) \o Use(d) \o Get(s), A, M)
  BY <1>2, <1>3, LeadsJoin
<1>5. Leads(Get(d) \o Use(d) \o Get(s) \o Use(d), A, M)
  BY <1>2, <1>4, LeadsJoin
<1>6. Leads(Connects(e), A, M)
  BY <1>5 DEF Connects
<1>7. CASE at = "connect"
  <2>1. Connected(at, e, u) = <<>> /\ M = A \cup OpenLeaves(at, e, u) \cup {s}
    BY <1>7 DEF Connected, OpenLeaves
  <2>2. Leads(Connected(at, e, u), M, M)
    BY <2>1, NothingKeeps DEF Keeps
  <2> QED BY <1>6, <2>1, <2>2
<1>8. CASE at # "connect"
  <2> PICK N : N = M \cup {c}
    OBVIOUS
  <2>1. Lacks(N, QueryKinds)
    BY <1>1 DEF Lacks, QueryKinds
  <2>2. Leads(Get(c), M, N)
    BY <1>1, GetLeads
  <2>3. Leads(queryRaw(c), N, N)
    BY <2>1, QueryRawKeeps DEF Keeps
  <2>4. Leads(Connected(at, e, u), M, N)
    BY <1>8, <2>2, <2>3, LeadsJoin DEF Connected
  <2>5. N = A \cup OpenLeaves(at, e, u) \cup {s}
    BY <1>8 DEF OpenLeaves
  <2> QED BY <1>6, <2>4, <2>5
<1> QED BY <1>7, <1>8

LEMMA OpenLeads ==
  ASSUME NEW at \in OpenPlaces, NEW e, NEW u, NEW A, Lacks(A, OpenKinds), DbOf(e) \notin A, ConOf(e, u) \notin A
  PROVE  Leads(open(at, e, u), A, A \cup OpenLeaves(at, e, u))
<1> PICK k : k = <<"cfgSlot">>
  OBVIOUS
<1> PICK s : s = <<"conSlot">>
  OBVIOUS
<1> PICK msg : msg = <<"message">>
  OBVIOUS
<1> PICK undo : undo = Undo(at, e, u)
  OBVIOUS
<1> PICK E : E = A \cup OpenLeaves(at, e, u)
  OBVIOUS
<1> PICK M : M = (A \cup {k}) \cup Slots
  OBVIOUS
<1>1. k \notin A /\ Lacks(A \cup {k}, {"config", "path", "dbSlot", "errSlot"}) /\ Lacks(A, {"path", "dbSlot", "errSlot"})
      /\ k \notin A \cup Slots
  BY DEF Lacks, OpenKinds, Slots
<1>2. Leads(Get(k), A, A \cup {k}) /\ Leads(Opens, A \cup {k}, M)
  BY <1>1, GetLeads, OpensLead
<1>3. \A B : Leads(undo, B, B)
  BY UndoKeeps
<1>4. Leads(Put(k), M, A \cup Slots) /\ Leads(Frees, A \cup Slots, A)
  <2>1. M = (A \cup Slots) \cup {k}
    OBVIOUS
  <2> QED BY <1>1, <2>1, PutBack, FreesLead
<1>5. CASE at = "config"
  <2>1. Leads(undo \o Put(k), A \cup {k}, A)
    BY <1>1, <1>3, PutBack, LeadsJoin
  <2>2. Leads(Get(k) \o (undo \o Put(k)), A, A)
    BY <1>2, <2>1, LeadsJoin
  <2>3. E = A
    BY <1>5 DEF OpenLeaves
  <2>4. open(at, e, u) = Get(k) \o (undo \o Put(k))
    BY <1>5 DEF open, Undo
  <2> QED BY <2>2, <2>3, <2>4
<1>6. CASE at \in {"open", "open message"}
  <2>1. Leads(With(msg, Use(msg)), M, M)
    <3>1. msg \notin M
      BY DEF Lacks, OpenKinds, Slots
    <3> QED BY <3>1, WithUseKeeps DEF Keeps
  <2>2. Leads(Opens \o undo \o Put(k) \o Frees, A \cup {k}, A)
    BY <1>2, <1>3, <1>4, LeadsJoin
  <2>3. Leads(Opens \o With(msg, Use(msg)) \o undo \o Put(k) \o Frees, A \cup {k}, A)
    BY <1>2, <1>3, <1>4, <2>1, LeadsJoin
  <2>4. E = A
    BY <1>6 DEF OpenLeaves
  <2>5. open(at, e, u) = Get(k) \o (IF at = "open" THEN Opens \o undo \o Put(k) \o Frees
                                    ELSE Opens \o With(msg, Use(msg)) \o undo \o Put(k) \o Frees)
    BY <1>6 DEF open, Undo, Opens, Frees
  <2>6. Leads(Get(k) \o (IF at = "open" THEN Opens \o undo \o Put(k) \o Frees
                         ELSE Opens \o With(msg, Use(msg)) \o undo \o Put(k) \o Frees), A, A)
    BY <1>2, <2>2, <2>3, LeadsJoin
  <2> QED BY <2>4, <2>5, <2>6
<1>7. CASE at \in {"connect", "limit", "none"}
  <2> PICK N : N = M \cup OpenLeaves(at, e, u) \cup {s}
    OBVIOUS
  <2> PICK part : part = Connected(at, e, u)
    OBVIOUS
  <2>0. Lacks(M, {"conSlot", "sql", "resPtr", "result"}) /\ DbOf(e) \notin M /\ ConOf(e, u) \notin M
    BY DEF Lacks, OpenKinds, Slots, DbOf, ConOf
  <2> PICK L : L = M \cup {DbOf(e)} \cup {s}
    OBVIOUS
  <2>1. Leads(Connects(e), M, L) /\ Leads(part, L, N)
    BY <1>7, <2>0, ConnectsLead
  <2>2. Leads(Opens \o Connects(e), A \cup {k}, L)
    BY <1>2, <2>1, LeadsJoin
  <2>3. Leads(Opens \o Connects(e) \o part, A \cup {k}, N)
    BY <2>1, <2>2, LeadsJoin
  <2>4. Leads(Opens \o Connects(e) \o part \o undo, A \cup {k}, N)
    BY <1>3, <2>3, LeadsJoin
  <2>5. \A b \in OpenLeaves(at, e, u) : b[1] \in {"db", "con"}
    BY DEF OpenLeaves, DbOf, ConOf
  <2>6. k \notin (E \cup {s}) \cup Slots /\ N = ((E \cup {s}) \cup Slots) \cup {k} /\ s \notin E
    BY <1>1, <2>5 DEF Lacks, OpenKinds, Slots
  <2>7. Lacks(E \cup {s}, {"path", "dbSlot", "errSlot"})
    BY <2>5 DEF Lacks, OpenKinds
  <2>8. Leads(Put(k), N, (E \cup {s}) \cup Slots) /\ Leads(Frees, (E \cup {s}) \cup Slots, E \cup {s})
        /\ Leads(Put(s), E \cup {s}, E)
    BY <2>6, <2>7, PutBack, FreesLead
  <2>9. Leads(Opens \o Connects(e) \o part \o undo \o Put(k), A \cup {k}, (E \cup {s}) \cup Slots)
    BY <2>4, <2>8, LeadsJoin
  <2>10. Leads(Opens \o Connects(e) \o part \o undo \o Put(k) \o Frees, A \cup {k}, E \cup {s})
    BY <2>8, <2>9, LeadsJoin
  <2>11. Leads(Opens \o Connects(e) \o part \o undo \o Put(k) \o Frees \o Put(s), A \cup {k}, E)
    BY <2>8, <2>10, LeadsJoin
  <2>12. Leads(Get(k) \o (Opens \o Connects(e) \o part \o undo \o Put(k) \o Frees \o Put(s)), A, E)
    BY <1>2, <2>11, LeadsJoin
  <2>13. open(at, e, u) = Get(k) \o (Opens \o Connects(e) \o part \o undo \o Put(k) \o Frees \o Put(s))
    BY <1>7 DEF open, Undo, Opens, Connects, Connected, Frees
  <2> QED BY <2>12, <2>13
<1> QED BY <1>5, <1>6, <1>7 DEF OpenPlaces

-----------------------------------------------------------------------------
(* What is alive between calls, by kind.                                   *)
Excepted == OfFailedOpens \cup Overloads

OwnTypes ==
    /\ opened \in 0 .. MaxEngines /\ failed \subseteq 1 .. opened /\ db \in 0 .. opened /\ wrong \in BOOLEAN
    /\ con \in [Users -> {NoObject} \cup [engine : 1 .. opened, ownsDB : BOOLEAN, closed : BOOLEAN]]
    /\ stmt \in [Users -> BOOLEAN]
    /\ results \in [Users -> {NoObject} \cup [chunk : BOOLEAN, oneShot : BOOLEAN]]

(* An engine in use is not one whose open failed.                          *)
SoundEngines == db \notin failed /\ \A u \in Users : Usable(u) => con[u].engine \notin failed

(* A database has one owner: the connector, or a single connection.        *)
OneOwner ==
    \A u \in Users : Usable(u) /\ con[u].ownsDB =>
        /\ con[u].engine # db
        /\ \A v \in Users \ {u} : Usable(v) /\ con[v].ownsDB => con[v].engine # con[u].engine

OwnInv == OwnTypes /\ OwnedExactly /\ SoundEngines /\ OneOwner

LEMMA OwnedParts ==
  /\ Owned = OwnedDbs \cup OwnedCons \cup OwnedStmts \cup OwnedResults \cup OwnedChunks \cup OwnedShots
  /\ Owned' = OwnedDbs' \cup OwnedCons' \cup OwnedStmts' \cup OwnedResults' \cup OwnedChunks' \cup OwnedShots'
<1>1. Owned = OwnedDbs \cup OwnedCons \cup OwnedStmts \cup OwnedResults \cup OwnedChunks \cup OwnedShots
  BY DEF Owned
<1>2. Owned' = OwnedDbs' \cup OwnedCons' \cup OwnedStmts' \cup OwnedResults' \cup OwnedChunks' \cup OwnedShots'
  BY DEF Owned
<1> QED BY <1>1, <1>2

LEMMA PartKinds ==
  /\ \A b \in OwnedDbs : b[1] = "db"
  /\ \A b \in OwnedCons : b[1] = "con"
  /\ \A b \in OwnedStmts : b[1] = "stmt"
  /\ \A b \in OwnedResults : b[1] \in {"rowsPtr", "rowsResult"}
  /\ \A b \in OwnedChunks : b[1] = "chunk"
  /\ \A b \in OwnedShots : b[1] = "oneshot"
  /\ \A b \in Excepted : b[1] \in {"db", "con", "overload"}
<1>1. \A b \in OwnedDbs : b[1] = "db"
  BY DEF OwnedDbs, DbOf
<1>2. \A b \in OwnedCons : b[1] = "con"
  BY DEF OwnedCons, Handle, ConOf
<1>3. \A b \in OwnedStmts : b[1] = "stmt"
  BY DEF OwnedStmts, StmtOf
<1>4. \A b \in OwnedResults : b[1] \in {"rowsPtr", "rowsResult"}
  BY DEF OwnedResults, ResPtr, ResultOf
<1>5. \A b \in OwnedChunks : b[1] = "chunk"
  BY DEF OwnedChunks, ChunkOf
<1>6. \A b \in OwnedShots : b[1] = "oneshot"
  BY DEF OwnedShots, OneShot
<1>7. \A b \in Excepted : b[1] \in {"db", "con", "overload"}
  BY DEF Excepted, OfFailedOpens, Overloads, DbOf, ConOf, Overload
<1> QED BY <1>1, <1>2, <1>3, <1>4, <1>5, <1>6, <1>7

RestKinds == {"db", "con", "stmt", "rowsPtr", "rowsResult", "chunk", "oneshot", "overload"}

LEMMA Resting ==
  ASSUME OwnedExactly
  PROVE  \A b \in alive : b[1] \in RestKinds
<1>1. \A b \in alive : b \in Owned \/ b \in Excepted
  BY DEF OwnedExactly, Excepted
<1>2. \A b \in Owned : b[1] \in RestKinds
  BY OwnedParts, PartKinds DEF RestKinds
<1>3. \A b \in Excepted : b[1] \in RestKinds
  BY PartKinds DEF RestKinds
<1> QED BY <1>1, <1>2, <1>3

LEMMA RestLacks ==
  ASSUME OwnedExactly, NEW K, K \cap RestKinds = {}
  PROVE  Lacks(alive, K)
BY Resting DEF Lacks

(* What a connection has is alive, and what it has not is not.             *)
LEMMA Held ==
  ASSUME OwnedExactly, NEW u \in Users
  PROVE  /\ Usable(u) => Handle(u) \in alive
         /\ stmt[u] => StmtOf(u) \in alive
         /\ results[u] # NoObject => ResPtr(u) \in alive /\ ResultOf(u) \in alive
         /\ results[u] # NoObject /\ results[u].chunk => ChunkOf(u) \in alive
         /\ results[u] # NoObject /\ results[u].oneShot => OneShot(u) \in alive
<1>1. Owned \subseteq alive
  BY DEF OwnedExactly
<1>2. /\ Usable(u) => Handle(u) \in OwnedCons
      /\ stmt[u] => StmtOf(u) \in OwnedStmts
      /\ results[u] # NoObject => ResPtr(u) \in OwnedResults /\ ResultOf(u) \in OwnedResults
      /\ results[u] # NoObject /\ results[u].chunk => ChunkOf(u) \in OwnedChunks
      /\ results[u] # NoObject /\ results[u].oneShot => OneShot(u) \in OwnedShots
  BY DEF OwnedCons, OwnedStmts, OwnedResults, OwnedChunks, OwnedShots
<1> QED BY <1>1, <1>2, OwnedParts

LEMMA NotHeld ==
  ASSUME OwnedExactly, NEW u \in Users
  PROVE  /\ ~stmt[u] => StmtOf(u) \notin alive
         /\ results[u] = NoObject => ResPtr(u) \notin alive /\ ResultOf(u) \notin alive
         /\ ~(results[u] # NoObject /\ results[u].chunk) => ChunkOf(u) \notin alive
         /\ ~(results[u] # NoObject /\ results[u].oneShot) => OneShot(u) \notin alive
<1>1. \A b \in alive : b \in Owned \/ b \in Excepted
  BY DEF OwnedExactly, Excepted
<1>2. /\ StmtOf(u)[1] = "stmt" /\ ResPtr(u)[1] = "rowsPtr" /\ ResultOf(u)[1] = "rowsResult"
      /\ ChunkOf(u)[1] = "chunk" /\ OneShot(u)[1] = "oneshot"
  BY DEF StmtOf, ResPtr, ResultOf, ChunkOf, OneShot
<1>3. /\ StmtOf(u) \in alive => StmtOf(u) \in OwnedStmts
      /\ ResPtr(u) \in alive => ResPtr(u) \in OwnedResults
      /\ ResultOf(u) \in alive => ResultOf(u) \in OwnedResults
      /\ ChunkOf(u) \in alive => ChunkOf(u) \in OwnedChunks
      /\ OneShot(u) \in alive => OneShot(u) \in OwnedShots
  BY <1>1, <1>2, OwnedParts, PartKinds
<1>4. StmtOf(u) \in OwnedStmts => stmt[u]
  BY DEF OwnedStmts, StmtOf
<1>5. ResPtr(u) \in OwnedResults \/ ResultOf(u) \in OwnedResults => results[u] # NoObject
  BY DEF OwnedResults, ResPtr, ResultOf
<1>6. ChunkOf(u) \in OwnedChunks => results[u] # NoObject /\ results[u].chunk
  BY DEF OwnedChunks, ChunkOf
<1>7. OneShot(u) \in OwnedShots => results[u] # NoObject /\ results[u].oneShot
  BY DEF OwnedShots, OneShot
<1> QED BY <1>3, <1>4, <1>5, <1>6, <1>7

(* Running a trace.                                                        *)
LEMMA RunLeads ==
  ASSUME OwnInv, NEW trace, NEW B, Leads(trace, alive, B), Run(trace)
  PROVE  alive' = B /\ wrong' = FALSE
<1>1. wrong = FALSE
  BY DEF OwnInv, OwnTypes, OwnedExactly
<1>2. Play(trace, [live |-> alive, wrong |-> wrong]) = [live |-> B, wrong |-> FALSE]
  BY <1>1 DEF Leads
<1> QED BY <1>2 DEF Run

(* The engine gains and loses as the Go objects do.                        *)
LEMMA StillExact ==
  ASSUME OwnedExactly, NEW gone, NEW new, alive' = (alive \ gone) \cup new, Owned' = (Owned \ gone) \cup new,
         Excepted' = Excepted, new \cap Excepted = {}, wrong' = FALSE
  PROVE  OwnedExactly'
BY DEF OwnedExactly, Excepted

LEMMA PartsStay ==
  /\ UNCHANGED <<db, con>> => OwnedDbs' = OwnedDbs
  /\ UNCHANGED con => OwnedCons' = OwnedCons
  /\ UNCHANGED stmt => OwnedStmts' = OwnedStmts
  /\ UNCHANGED results => OwnedResults' = OwnedResults /\ OwnedChunks' = OwnedChunks /\ OwnedShots' = OwnedShots
  /\ UNCHANGED failed => Excepted' = Excepted
<1>1. UNCHANGED <<db, con>> => OwnedDbs' = OwnedDbs
  BY DEF OwnedDbs, Usable
<1>2. UNCHANGED con => OwnedCons' = OwnedCons
  BY DEF OwnedCons, Usable, Handle
<1>3. UNCHANGED stmt => OwnedStmts' = OwnedStmts
  BY DEF OwnedStmts
<1>4. UNCHANGED results => OwnedResults' = OwnedResults /\ OwnedChunks' = OwnedChunks /\ OwnedShots' = OwnedShots
  BY DEF OwnedResults, OwnedChunks, OwnedShots
<1>5. UNCHANGED failed => Excepted' = Excepted
  BY DEF Excepted, OfFailedOpens, Overloads
<1> QED BY <1>1, <1>2, <1>3, <1>4, <1>5

(* A call on a connection leaves engines and connections as they are.      *)
LEMMA CallStays ==
  ASSUME OwnInv, OwnedExactly', wrong' = FALSE, UNCHANGED <<opened, failed, db, con>>,
         stmt' \in [Users -> BOOLEAN], results' \in [Users -> {NoObject} \cup [chunk : BOOLEAN, oneShot : BOOLEAN]]
  PROVE  OwnInv'
<1>1. OwnTypes'
  BY DEF OwnInv, OwnTypes
<1>2. SoundEngines'
  BY DEF OwnInv, SoundEngines, Usable
<1>3. OneOwner'
  BY DEF OwnInv, OneOwner, Usable
<1> QED BY <1>1, <1>2, <1>3 DEF OwnInv

LEMMA QuietStep ==
  ASSUME OwnInv, NEW trace, NEW B, Leads(trace, alive, B), Added(alive, B, 2), Call(trace), UNCHANGED <<stmt, results>>
  PROVE  OwnInv'
<1>1. alive' = B /\ wrong' = FALSE
  BY RunLeads DEF Call
<1>2. Owned' = Owned /\ Excepted' = Excepted
  BY PartsStay, OwnedParts DEF Call
<1>3. alive \subseteq alive' /\ alive' \subseteq alive \cup Excepted
  BY <1>1 DEF Added, Excepted, Overloads
<1>4. OwnedExactly'
  BY <1>1, <1>2, <1>3 DEF OwnInv, OwnedExactly, Excepted
<1>5. stmt' \in [Users -> BOOLEAN] /\ results' \in [Users -> {NoObject} \cup [chunk : BOOLEAN, oneShot : BOOLEAN]]
  BY DEF OwnInv, OwnTypes
<1> QED BY <1>1, <1>4, <1>5, CallStays DEF Call

LEMMA KeptStep ==
  ASSUME OwnInv, NEW trace, Keeps(trace, alive), Call(trace), UNCHANGED <<stmt, results>>
  PROVE  OwnInv'
<1>1. Added(alive, alive, 2)
  BY DEF Added
<1> QED BY <1>1, QuietStep DEF Keeps

LEMMA UserStep ==
  ASSUME OwnInv, NEW trace, NEW gone, NEW new, Leads(trace, alive, (alive \ gone) \cup new), Call(trace),
         Owned' = (Owned \ gone) \cup new, \A b \in new : b[1] \notin {"db", "con", "overload"},
         stmt' \in [Users -> BOOLEAN], results' \in [Users -> {NoObject} \cup [chunk : BOOLEAN, oneShot : BOOLEAN]]
  PROVE  OwnInv'
<1>1. alive' = (alive \ gone) \cup new /\ wrong' = FALSE
  BY RunLeads DEF Call
<1>2. Excepted' = Excepted
  BY PartsStay DEF Call
<1>3. new \cap Excepted = {}
  BY PartKinds
<1>4. OwnedExactly'
  BY <1>1, <1>2, <1>3, StillExact DEF OwnInv
<1> QED BY <1>1, <1>4, CallStays DEF Call

(* A block is not of a part of another kind.                               *)
LEMMA StmtChanges ==
  ASSUME NEW u \in Users, NEW held \in BOOLEAN, stmt \in [Users -> BOOLEAN], stmt' = [stmt EXCEPT ![u] = held],
         UNCHANGED <<db, con, results>>
  PROVE  /\ stmt' \in [Users -> BOOLEAN]
         /\ Owned' = (Owned \ {StmtOf(u)}) \cup (IF held THEN {StmtOf(u)} ELSE {})
<1>1. stmt' \in [Users -> BOOLEAN] /\ stmt'[u] = held /\ \A v \in Users \ {u} : stmt'[v] = stmt[v]
  OBVIOUS
<1>2. OwnedStmts' = (OwnedStmts \ {StmtOf(u)}) \cup (IF held THEN {StmtOf(u)} ELSE {})
  BY <1>1 DEF OwnedStmts, StmtOf
<1>3. /\ OwnedDbs' = OwnedDbs /\ OwnedCons' = OwnedCons /\ OwnedResults' = OwnedResults
      /\ OwnedChunks' = OwnedChunks /\ OwnedShots' = OwnedShots
  BY PartsStay
<1>4. StmtOf(u)[1] = "stmt"
  BY DEF StmtOf
<1>5. StmtOf(u) \notin OwnedDbs \cup OwnedCons \cup OwnedResults \cup OwnedChunks \cup OwnedShots
  BY <1>4, PartKinds
<1> QED BY <1>1, <1>2, <1>3, <1>5, OwnedParts

LEMMA ResultIsObject == \A r \in [chunk : BOOLEAN, oneShot : BOOLEAN] : r # NoObject
<1> TAKE r \in [chunk : BOOLEAN, oneShot : BOOLEAN]
<1>1. DOMAIN r = {"chunk", "oneShot"} /\ DOMAIN NoObject = {}
  BY DEF NoObject
<1> QED BY <1>1

(* The blocks of a result.                                                 *)
Blocks(u, r) ==
    IF r = NoObject THEN {}
    ELSE {ResPtr(u), ResultOf(u)} \cup (IF r.chunk THEN {ChunkOf(u)} ELSE {}) \cup (IF r.oneShot THEN {OneShot(u)} ELSE {})
AllBlocks(u) == {ResPtr(u), ResultOf(u), ChunkOf(u), OneShot(u)}

LEMMA ResultChanges ==
  ASSUME NEW u \in Users, NEW r \in {NoObject} \cup [chunk : BOOLEAN, oneShot : BOOLEAN],
         results \in [Users -> {NoObject} \cup [chunk : BOOLEAN, oneShot : BOOLEAN]],
         results' = [results EXCEPT ![u] = r], UNCHANGED <<db, con, stmt>>
  PROVE  /\ results' \in [Users -> {NoObject} \cup [chunk : BOOLEAN, oneShot : BOOLEAN]]
         /\ Owned' = (Owned \ AllBlocks(u)) \cup Blocks(u, r)
<1>1. /\ results' \in [Users -> {NoObject} \cup [chunk : BOOLEAN, oneShot : BOOLEAN]]
      /\ results'[u] = r /\ \A v \in Users \ {u} : results'[v] = results[v]
  OBVIOUS
<1>2. OwnedResults' = (OwnedResults \ {ResPtr(u), ResultOf(u)})
                      \cup (IF r = NoObject THEN {} ELSE {ResPtr(u), ResultOf(u)})
  BY <1>1 DEF OwnedResults, ResPtr, ResultOf
<1>3. OwnedChunks' = (OwnedChunks \ {ChunkOf(u)}) \cup (IF r # NoObject /\ r.chunk THEN {ChunkOf(u)} ELSE {})
  BY <1>1 DEF OwnedChunks, ChunkOf
<1>4. OwnedShots' = (OwnedShots \ {OneShot(u)}) \cup (IF r # NoObject /\ r.oneShot THEN {OneShot(u)} ELSE {})
  BY <1>1 DEF OwnedShots, OneShot
<1>5. OwnedDbs' = OwnedDbs /\ OwnedCons' = OwnedCons /\ OwnedStmts' = OwnedStmts
  BY PartsStay
<1>6. ResPtr(u)[1] = "rowsPtr" /\ ResultOf(u)[1] = "rowsResult" /\ ChunkOf(u)[1] = "chunk" /\ OneShot(u)[1] = "oneshot"
  BY DEF ResPtr, ResultOf, ChunkOf, OneShot
<1>7. /\ \A b \in AllBlocks(u) : b \notin OwnedDbs \cup OwnedCons \cup OwnedStmts
      /\ ChunkOf(u) \notin OwnedResults /\ OneShot(u) \notin OwnedResults
      /\ ResPtr(u) \notin OwnedChunks /\ ResultOf(u) \notin OwnedChunks /\ OneShot(u) \notin OwnedChunks
      /\ ResPtr(u) \notin OwnedShots /\ ResultOf(u) \notin OwnedShots /\ ChunkOf(u) \notin OwnedShots
  BY <1>6, PartKinds DEF AllBlocks
<1>8. Owned' = (Owned \ AllBlocks(u)) \cup Blocks(u, r)
  <2>1. Blocks(u, r) = (IF r = NoObject THEN {} ELSE {ResPtr(u), ResultOf(u)})
                       \cup (IF r # NoObject /\ r.chunk THEN {ChunkOf(u)} ELSE {})
                       \cup (IF r # NoObject /\ r.oneShot THEN {OneShot(u)} ELSE {})
    BY DEF Blocks
  <2> QED BY <1>2, <1>3, <1>4, <1>5, <1>7, <2>1, OwnedParts DEF AllBlocks
<1> QED BY <1>1, <1>8

-----------------------------------------------------------------------------
(* The steps.                                                              *)
LEMMA AtRest ==
  ASSUME OwnInv, NEW u \in Users, Usable(u)
  PROVE  /\ Handle(u) \in alive
         /\ Lacks(alive, PrepareKinds) /\ Lacks(alive, ExecKinds) /\ Lacks(alive, QueryKinds)
         /\ Lacks(alive, ResultKinds \cup {"param"}) /\ Lacks(alive, {"text", "temporary"})
         /\ Lacks(alive, RegisterKinds) /\ Lacks(alive, BandKinds) /\ Lacks(alive, {"slot"})
<1>1. Handle(u) \in alive
  BY Held DEF OwnInv
<1>2. Lacks(alive, PrepareKinds \cup ExecKinds \cup QueryKinds \cup ResultKinds \cup RegisterKinds \cup BandKinds
                   \cup {"param", "temporary"})
  <2>1. (PrepareKinds \cup ExecKinds \cup QueryKinds \cup ResultKinds \cup RegisterKinds \cup BandKinds
          \cup {"param", "temporary"}) \cap RestKinds = {}
    BY DEF PrepareKinds, ExecKinds, QueryKinds, ResultKinds, RegisterKinds, BandKinds, RestKinds
  <2> QED BY <2>1, RestLacks DEF OwnInv
<1>3. "text" \in PrepareKinds /\ "slot" \in PrepareKinds
  BY DEF PrepareKinds
<1> QED BY <1>1, <1>2, <1>3 DEF Lacks

LEMMA ExecStep ==
  ASSUME OwnInv, NEW u \in Users, Exec(u)
  PROVE  OwnInv'
<1> PICK h : h = Handle(u)
  OBVIOUS
<1> PICK st : st = Temporary
  OBVIOUS
<1> PICK M : M = alive \cup {st}
  OBVIOUS
<1>1. PICK rollback \in BOOLEAN :
        \/ Call(queryRaw(h) \o recoverTx(h, rollback))
        \/ \E how \in PrepareFailures : Call(prepareLocked(h, st, how, rollback))
        \/ \E how \in ExecOutcomes :
              Call(prepareLocked(h, st, "ok", FALSE) \o execLocked(h, st, how, rollback) \o destroyHandle(st))
  BY DEF Exec
<1>2. Usable(u) /\ UNCHANGED <<stmt, results>>
  BY DEF Exec
<1>3. /\ h \in alive /\ Lacks(alive, PrepareKinds) /\ Lacks(alive, ExecKinds) /\ Lacks(alive, QueryKinds)
      /\ Lacks(alive, {"temporary"}) /\ Lacks(alive, {"slot"})
  BY <1>2, AtRest DEF Lacks
<1>4. st[1] = "temporary"
  BY DEF Temporary
<1>5. st \notin alive /\ st[1] \notin PrepareKinds
  BY <1>3, <1>4 DEF Lacks, PrepareKinds
<1>6. CASE Call(queryRaw(h) \o recoverTx(h, rollback))
  <2>1. Keeps(queryRaw(h) \o recoverTx(h, rollback), alive)
    BY <1>3, QueryRawKeeps, RecoverKeeps, KeepsJoin
  <2> QED BY <1>2, <1>6, <2>1, KeptStep
<1>7. CASE \E how \in PrepareFailures : Call(prepareLocked(h, st, how, rollback))
  <2>1. PICK how \in PrepareFailures : Call(prepareLocked(h, st, how, rollback))
    BY <1>7
  <2>2. how # "ok"
    BY DEF PrepareFailures
  <2>3. Leads(prepareLocked(h, st, how, rollback), alive, alive)
    BY <1>3, <1>5, <2>2, PrepareLeads
  <2>4. Keeps(prepareLocked(h, st, how, rollback), alive)
    BY <2>3 DEF Keeps
  <2> QED BY <1>2, <2>1, <2>4, KeptStep
<1>8. CASE \E how \in ExecOutcomes :
              Call(prepareLocked(h, st, "ok", FALSE) \o execLocked(h, st, how, rollback) \o destroyHandle(st))
  <2>1. PICK how \in ExecOutcomes :
              Call(prepareLocked(h, st, "ok", FALSE) \o execLocked(h, st, how, rollback) \o destroyHandle(st))
    BY <1>8
  <2>2. Leads(prepareLocked(h, st, "ok", FALSE), alive, M)
    BY <1>3, <1>5, PrepareLeads
  <2>3. Lacks(M, ExecKinds) /\ Lacks(M, {"slot"}) /\ st \in M /\ M \ {st} = alive
    BY <1>3, <1>4, <1>5 DEF Lacks, ExecKinds
  <2>4. Leads(execLocked(h, st, how, rollback), M, M)
    BY <1>3, <2>3, ExecKeeps DEF Keeps
  <2>5. Leads(destroyHandle(st), M, alive)
    BY <2>3, DestroyLeads
  <2>6. Leads(prepareLocked(h, st, "ok", FALSE) \o execLocked(h, st, how, rollback), alive, M)
    BY <2>2, <2>4, LeadsJoin
  <2>7. Keeps(prepareLocked(h, st, "ok", FALSE) \o execLocked(h, st, how, rollback) \o destroyHandle(st), alive)
    BY <2>5, <2>6, LeadsJoin DEF Keeps
  <2> QED BY <1>2, <2>1, <2>7, KeptStep
<1> QED BY <1>1, <1>6, <1>7, <1>8

LEMMA ExtendStep ==
  ASSUME OwnInv, NEW u \in Users, Extend(u)
  PROVE  OwnInv'
<1> PICK h : h = Handle(u)
  OBVIOUS
<1> PICK st : st = Temporary
  OBVIOUS
<1> PICK text : text = cstring
  OBVIOUS
<1>1. Usable(u) /\ UNCHANGED <<stmt, results>>
  BY DEF Extend
<1>2. /\ h \in alive /\ Lacks(alive, PrepareKinds) /\ Lacks(alive, RegisterKinds) /\ Lacks(alive, BandKinds)
      /\ Lacks(alive, {"text", "temporary"})
  BY <1>1, AtRest
<1>3. st \notin alive /\ st[1] \notin PrepareKinds
  BY <1>2 DEF Lacks, PrepareKinds, Temporary
<1>4. \A params \in Nat : Keeps(Register(h, params), alive)
  BY <1>2, RegisterKeeps
<1>5. \A how \in PrepareFailures \cup {"ok"} : Keeps(tableColumns(h, st, how), alive)
  BY <1>2, <1>3, TableColumnsKeep
<1>6. CASE \E variadic \in BOOLEAN : Call(registerScalarEx(h, 1, variadic))
  <2>1. PICK variadic \in BOOLEAN : Call(registerScalarEx(h, 1, variadic))
    BY <1>6
  <2>2. 1 + (IF variadic THEN 2 ELSE 1) \in Nat
    OBVIOUS
  <2>3. Keeps(registerScalarEx(h, 1, variadic), alive)
    BY <1>4, <2>2 DEF registerScalarEx
  <2> QED BY <1>1, <2>1, <2>3, KeptStep
<1>7. CASE Call(RegisterAggregateUDF(h, 1))
  <2>1. Keeps(RegisterAggregateUDF(h, 1), alive)
    BY <1>4 DEF RegisterAggregateUDF
  <2> QED BY <1>1, <1>7, <2>1, KeptStep
<1>8. CASE \E addFails \in 0 .. 2 :
             /\ \A p \in 1 .. 2 : Overload(p) \notin alive
             /\ Call(registerAggregateBand(h, 2, addFails))
  <2>1. PICK addFails \in 0 .. 2 :
             /\ \A p \in 1 .. 2 : Overload(p) \notin alive
             /\ Call(registerAggregateBand(h, 2, addFails))
    BY <1>8
  <2>2. addFails \in Nat /\ 2 \in Nat
    OBVIOUS
  <2>3. PICK B : Added(alive, B, 2) /\ Leads(registerAggregateBand(h, 2, addFails), alive, B)
    BY <1>2, <2>1, <2>2, BandLeads
  <2> QED BY <1>1, <2>1, <2>3, QuietStep
<1>9. CASE \E how \in PrepareFailures : Call(tableColumns(h, st, how))
  BY <1>1, <1>5, <1>9, KeptStep
<1>10. CASE Call(tableColumns(h, st, "ok") \o registerFeedLocked(h))
  <2>1. Keeps(registerFeedLocked(h), alive)
    BY <1>4 DEF registerFeedLocked
  <2>2. Keeps(tableColumns(h, st, "ok") \o registerFeedLocked(h), alive)
    BY <1>5, <2>1, KeepsJoin
  <2> QED BY <1>1, <1>10, <2>2, KeptStep
<1>11. CASE \E cols \in Columns, fails \in BOOLEAN : Call(With(text, bindFn(cols) \o cb(cols, fails)))
  <2>1. PICK cols \in Columns, fails \in BOOLEAN : Call(With(text, bindFn(cols) \o cb(cols, fails)))
    BY <1>11
  <2>2. Lacks(alive, BindKinds \cup CallKinds) /\ text \notin alive /\ text[1] = "text"
    <3>1. (BindKinds \cup CallKinds) \cap RestKinds = {}
      BY DEF BindKinds, CallKinds, RestKinds
    <3> QED BY <1>2, <3>1, RestLacks DEF OwnInv, cstring, Lacks
  <2>3. Lacks(alive \cup {text}, BindKinds) /\ Lacks(alive \cup {text}, CallKinds)
    BY <2>2 DEF Lacks, BindKinds, CallKinds
  <2>4. Keeps(bindFn(cols) \o cb(cols, fails), alive \cup {text})
    BY <2>3, BindFnKeeps, CbKeeps, KeepsJoin
  <2>5. Keeps(With(text, bindFn(cols) \o cb(cols, fails)), alive)
    BY <2>2, <2>4, WithKeeps
  <2> QED BY <1>1, <2>1, <2>5, KeptStep
<1>12. \/ \E variadic \in BOOLEAN : Call(registerScalarEx(h, 1, variadic))
       \/ Call(RegisterAggregateUDF(h, 1))
       \/ \E addFails \in 0 .. 2 :
             /\ \A p \in 1 .. 2 : Overload(p) \notin alive
             /\ Call(registerAggregateBand(h, 2, addFails))
       \/ \E how \in PrepareFailures : Call(tableColumns(h, st, how))
       \/ Call(tableColumns(h, st, "ok") \o registerFeedLocked(h))
       \/ \E cols \in Columns, fails \in BOOLEAN : Call(With(text, bindFn(cols) \o cb(cols, fails)))
  BY DEF Extend
<1> QED BY <1>6, <1>7, <1>8, <1>9, <1>10, <1>11, <1>12

LEMMA PrepareStep ==
  ASSUME OwnInv, NEW u \in Users, NEW how \in PrepareFailures \cup {"ok"}, NEW rollback, Prepare(u, how, rollback)
  PROVE  OwnInv'
<1> PICK h : h = Handle(u)
  OBVIOUS
<1> PICK st : st = StmtOf(u)
  OBVIOUS
<1> PICK held \in BOOLEAN : held = (how = "ok")
  OBVIOUS
<1> PICK new : new = IF held THEN {st} ELSE {}
  OBVIOUS
<1>1. /\ Usable(u) /\ ~stmt[u] /\ stmt' = [stmt EXCEPT ![u] = held] /\ UNCHANGED <<db, con, results>>
      /\ Call(prepareLocked(h, st, how, rollback))
  BY DEF Prepare, Call
<1>2. h \in alive /\ Lacks(alive, PrepareKinds) /\ st \notin alive
  BY <1>1, AtRest, NotHeld DEF OwnInv
<1>3. st[1] = "stmt" /\ st[1] \notin PrepareKinds
  BY DEF StmtOf, PrepareKinds
<1>4. Leads(prepareLocked(h, st, how, rollback), alive, (alive \ {st}) \cup new)
  <2>1. (alive \ {st}) \cup new = IF how = "ok" THEN alive \cup {st} ELSE alive
    BY <1>2
  <2>2. Leads(prepareLocked(h, st, how, rollback), alive, IF how = "ok" THEN alive \cup {st} ELSE alive)
    BY <1>2, <1>3, PrepareLeads
  <2> QED BY <2>1, <2>2
<1>5. stmt' \in [Users -> BOOLEAN] /\ Owned' = (Owned \ {st}) \cup new
  BY <1>1, StmtChanges DEF OwnInv, OwnTypes
<1>6. results' \in [Users -> {NoObject} \cup [chunk : BOOLEAN, oneShot : BOOLEAN]]
  BY <1>1 DEF OwnInv, OwnTypes
<1>7. \A b \in new : b[1] \notin {"db", "con", "overload"}
  BY <1>3
<1> QED BY <1>1, <1>4, <1>5, <1>6, <1>7, UserStep

LEMMA StmtExecStep ==
  ASSUME OwnInv, NEW u \in Users, NEW how, NEW rollback, StmtExec(u, how, rollback)
  PROVE  OwnInv'
<1> PICK h : h = Handle(u)
  OBVIOUS
<1> PICK st : st = StmtOf(u)
  OBVIOUS
<1>1. Usable(u) /\ stmt[u] /\ Call(execLocked(h, st, how, rollback)) /\ UNCHANGED <<stmt, results>>
  BY DEF StmtExec
<1>2. h \in alive /\ st \in alive /\ Lacks(alive, ExecKinds)
  BY <1>1, AtRest, Held DEF OwnInv
<1>3. Keeps(execLocked(h, st, how, rollback), alive)
  BY <1>2, ExecKeeps
<1> QED BY <1>1, <1>3, KeptStep

LEMMA StmtCloseStep ==
  ASSUME OwnInv, NEW u \in Users, StmtClose(u)
  PROVE  OwnInv'
<1> PICK st : st = StmtOf(u)
  OBVIOUS
<1>1. /\ Usable(u) /\ stmt[u] /\ stmt' = [stmt EXCEPT ![u] = FALSE] /\ UNCHANGED <<db, con, results>>
      /\ Call(destroyHandle(st))
  BY DEF StmtClose, Call
<1>2. st \in alive /\ Lacks(alive, {"slot"})
  BY <1>1, AtRest, Held DEF OwnInv
<1> PICK gone : gone = {st}
  OBVIOUS
<1> PICK new : new = {}
  OBVIOUS
<1>3. Leads(destroyHandle(st), alive, (alive \ gone) \cup new)
  <2>1. (alive \ gone) \cup new = alive \ {st}
    OBVIOUS
  <2> QED BY <1>2, <2>1, DestroyLeads
<1>4. stmt' \in [Users -> BOOLEAN] /\ Owned' = (Owned \ gone) \cup new
  BY <1>1, StmtChanges DEF OwnInv, OwnTypes
<1>5. results' \in [Users -> {NoObject} \cup [chunk : BOOLEAN, oneShot : BOOLEAN]]
  BY <1>1 DEF OwnInv, OwnTypes
<1> PICK trace : trace = destroyHandle(st)
  OBVIOUS
<1>6. Leads(trace, alive, (alive \ gone) \cup new) /\ Call(trace) /\ \A b \in new : b[1] \notin {"db", "con", "overload"}
  BY <1>1, <1>3
<1> QED BY <1>4, <1>5, <1>6, UserStep

BlockKinds == {"rowsPtr", "rowsResult", "chunk", "oneshot"}

LEMMA BlocksAre ==
  ASSUME NEW u
  PROVE  /\ ResPtr(u)[1] = "rowsPtr" /\ ResultOf(u)[1] = "rowsResult" /\ ChunkOf(u)[1] = "chunk"
         /\ OneShot(u)[1] = "oneshot"
         /\ \A b \in AllBlocks(u) : b[1] \in BlockKinds
         /\ \A r : \A b \in Blocks(u, r) : b[1] \notin {"db", "con", "overload"}
<1>1. ResPtr(u)[1] = "rowsPtr" /\ ResultOf(u)[1] = "rowsResult" /\ ChunkOf(u)[1] = "chunk" /\ OneShot(u)[1] = "oneshot"
  BY DEF ResPtr, ResultOf, ChunkOf, OneShot
<1>2. \A b \in AllBlocks(u) : b[1] \in BlockKinds
  BY <1>1 DEF AllBlocks, BlockKinds
<1>3. \A r : Blocks(u, r) \subseteq AllBlocks(u)
  BY DEF Blocks, AllBlocks
<1>4. BlockKinds \cap {"db", "con", "overload"} = {}
  BY DEF BlockKinds
<1> QED BY <1>1, <1>2, <1>3, <1>4

(* A call that makes a result of another.                                  *)
LEMMA ResultStep ==
  ASSUME OwnInv, NEW u \in Users, NEW r \in {NoObject} \cup [chunk : BOOLEAN, oneShot : BOOLEAN],
         results' = [results EXCEPT ![u] = r], UNCHANGED stmt, NEW trace, Call(trace),
         Leads(trace, alive, (alive \ AllBlocks(u)) \cup Blocks(u, r))
  PROVE  OwnInv'
<1>1. /\ results' \in [Users -> {NoObject} \cup [chunk : BOOLEAN, oneShot : BOOLEAN]]
      /\ Owned' = (Owned \ AllBlocks(u)) \cup Blocks(u, r)
  BY ResultChanges DEF OwnInv, OwnTypes, Call
<1>2. stmt' \in [Users -> BOOLEAN]
  BY DEF OwnInv, OwnTypes
<1>3. \A b \in Blocks(u, r) : b[1] \notin {"db", "con", "overload"}
  BY BlocksAre
<1> QED BY <1>1, <1>2, <1>3, UserStep

Fresh == [chunk |-> FALSE, oneShot |-> FALSE]
FreshOneShot == [chunk |-> FALSE, oneShot |-> TRUE]

LEMMA FreshBlocks ==
  ASSUME NEW u
  PROVE  /\ Fresh \in [chunk : BOOLEAN, oneShot : BOOLEAN] /\ Blocks(u, Fresh) = {ResPtr(u), ResultOf(u)}
         /\ FreshOneShot \in [chunk : BOOLEAN, oneShot : BOOLEAN]
         /\ Blocks(u, FreshOneShot) = {ResPtr(u), ResultOf(u), OneShot(u)}
         /\ Blocks(u, NoObject) = {}
<1>1. Fresh \in [chunk : BOOLEAN, oneShot : BOOLEAN] /\ FreshOneShot \in [chunk : BOOLEAN, oneShot : BOOLEAN]
  BY DEF Fresh, FreshOneShot
<1>2. Fresh # NoObject /\ FreshOneShot # NoObject
  BY <1>1, ResultIsObject
<1>3. ~Fresh.chunk /\ ~Fresh.oneShot /\ ~FreshOneShot.chunk /\ FreshOneShot.oneShot
  BY DEF Fresh, FreshOneShot
<1>4. Blocks(u, Fresh) = {ResPtr(u), ResultOf(u)}
  BY <1>2, <1>3 DEF Blocks
<1>5. Blocks(u, FreshOneShot) = {ResPtr(u), ResultOf(u), OneShot(u)}
  BY <1>2, <1>3 DEF Blocks
<1> QED BY <1>1, <1>4, <1>5 DEF Blocks

LEMMA QueryRowsStep ==
  ASSUME OwnInv, NEW u \in Users, NEW how \in ExecOutcomes, NEW cols \in Columns, NEW rollback,
         QueryRows(u, how, cols, rollback)
  PROVE  OwnInv'
<1> PICK h : h = Handle(u)
  OBVIOUS
<1> PICK r : r = IF how = "ok" THEN Fresh ELSE NoObject
  OBVIOUS
<1> PICK ok \in BOOLEAN : ok = (how = "ok")
  OBVIOUS
<1> PICK text : text = cstring
  OBVIOUS
<1> PICK E : E = IF ok THEN alive \cup {ResPtr(u), ResultOf(u)} ELSE alive
  OBVIOUS
<1>1. Usable(u) /\ results[u] = NoObject /\ results' = [results EXCEPT ![u] = r] /\ UNCHANGED stmt
  BY DEF QueryRows, Fresh
<1>2. \/ Call(With(text, ResultTrace(u, Use(h), cols, ok, rollback)))
      \/ stmt[u] /\ Call(queryLocked(u, StmtOf(u), how, cols, rollback))
  BY DEF QueryRows
<1>3. /\ Handle(u) \in alive /\ Lacks(alive, ResultKinds \cup {"param"}) /\ Lacks(alive, {"text"})
      /\ ResPtr(u) \notin alive /\ ResultOf(u) \notin alive /\ ChunkOf(u) \notin alive /\ OneShot(u) \notin alive
  BY <1>1, AtRest, NotHeld DEF OwnInv, Lacks
<1>4. r \in {NoObject} \cup [chunk : BOOLEAN, oneShot : BOOLEAN] /\ E = (alive \ AllBlocks(u)) \cup Blocks(u, r)
  <2>1. Blocks(u, r) = IF ok THEN {ResPtr(u), ResultOf(u)} ELSE {}
    BY FreshBlocks
  <2>2. alive \ AllBlocks(u) = alive
    BY <1>3 DEF AllBlocks
  <2> QED BY <2>1, <2>2, FreshBlocks
<1>5. CASE Call(With(text, ResultTrace(u, Use(h), cols, ok, rollback)))
  <2> PICK A : A = alive \cup {text}
    OBVIOUS
  <2>1. text[1] = "text" /\ text \notin alive
    BY <1>3 DEF cstring, Lacks
  <2>2. ResPtr(u)[1] = "rowsPtr" /\ ResultOf(u)[1] = "rowsResult"
    BY BlocksAre
  <2>3. Handle(u) \in A /\ Lacks(A, ResultKinds) /\ ResPtr(u) \notin A /\ ResultOf(u) \notin A
    BY <1>3, <2>1, <2>2 DEF Lacks, ResultKinds
  <2>4. Keeps(Use(h), A \cup {ResPtr(u)})
    BY <2>3, UseKeeps
  <2>5. Leads(ResultTrace(u, Use(h), cols, ok, rollback), A, IF ok THEN A \cup {ResPtr(u), ResultOf(u)} ELSE A)
    BY <2>3, <2>4, ResultLeads
  <2>6. (IF ok THEN A \cup {ResPtr(u), ResultOf(u)} ELSE A) = E \cup {text} /\ text \notin E
    BY <2>1, <2>2
  <2>7. Leads(With(text, ResultTrace(u, Use(h), cols, ok, rollback)), alive, E)
    BY <2>1, <2>5, <2>6, WithLeads
  <2> PICK trace : trace = With(text, ResultTrace(u, Use(h), cols, ok, rollback))
    OBVIOUS
  <2>8. Leads(trace, alive, (alive \ AllBlocks(u)) \cup Blocks(u, r)) /\ Call(trace)
    BY <1>4, <1>5, <2>7
  <2> QED BY <1>1, <1>4, <2>8, ResultStep
<1>6. CASE stmt[u] /\ Call(queryLocked(u, StmtOf(u), how, cols, rollback))
  <2>1. StmtOf(u) \in alive
    BY <1>6, Held DEF OwnInv
  <2>2. Leads(queryLocked(u, StmtOf(u), how, cols, rollback), alive, E)
    BY <1>3, <2>1, QueryLeads
  <2> PICK trace : trace = queryLocked(u, StmtOf(u), how, cols, rollback)
    OBVIOUS
  <2>3. Leads(trace, alive, (alive \ AllBlocks(u)) \cup Blocks(u, r)) /\ Call(trace)
    BY <1>4, <1>6, <2>2
  <2> QED BY <1>1, <1>4, <2>3, ResultStep
<1> QED BY <1>2, <1>5, <1>6

LEMMA QueryArgsStep ==
  ASSUME OwnInv, NEW u \in Users, NEW how \in ExecOutcomes, NEW cols \in Columns, NEW rollback,
         QueryArgs(u, how, cols, rollback)
  PROVE  OwnInv'
<1> PICK h : h = Handle(u)
  OBVIOUS
<1> PICK st : st = OneShot(u)
  OBVIOUS
<1> PICK r : r = IF how = "ok" THEN FreshOneShot ELSE NoObject
  OBVIOUS
<1> PICK A : A = alive \cup {st}
  OBVIOUS
<1> PICK B : B = IF how = "ok" THEN A \cup {ResPtr(u), ResultOf(u)} ELSE A
  OBVIOUS
<1> PICK E : E = IF how = "ok" THEN A \cup {ResPtr(u), ResultOf(u)} ELSE alive
  OBVIOUS
<1> PICK last : last = IF how = "ok" THEN <<>> ELSE destroyHandle(st)
  OBVIOUS
<1>1. Usable(u) /\ results[u] = NoObject /\ results' = [results EXCEPT ![u] = r] /\ UNCHANGED stmt
  BY DEF QueryArgs, FreshOneShot
<1>2. Call(prepareLocked(h, st, "ok", FALSE) \o queryLocked(u, st, how, cols, rollback) \o last)
  BY DEF QueryArgs
<1>3. /\ h \in alive /\ Lacks(alive, ResultKinds \cup {"param"}) /\ Lacks(alive, PrepareKinds) /\ Lacks(alive, {"slot"})
      /\ ResPtr(u) \notin alive /\ ResultOf(u) \notin alive /\ ChunkOf(u) \notin alive /\ OneShot(u) \notin alive
  BY <1>1, AtRest, NotHeld DEF OwnInv
<1>4. st[1] = "oneshot" /\ ResPtr(u)[1] = "rowsPtr" /\ ResultOf(u)[1] = "rowsResult"
  BY BlocksAre
<1>5. r \in {NoObject} \cup [chunk : BOOLEAN, oneShot : BOOLEAN] /\ E = (alive \ AllBlocks(u)) \cup Blocks(u, r)
  <2>1. Blocks(u, r) = IF how = "ok" THEN {ResPtr(u), ResultOf(u), OneShot(u)} ELSE {}
    BY FreshBlocks
  <2>2. alive \ AllBlocks(u) = alive
    BY <1>3 DEF AllBlocks
  <2> QED BY <2>1, <2>2, FreshBlocks
<1>6. Leads(prepareLocked(h, st, "ok", FALSE), alive, A)
  <2>1. st \notin alive /\ st[1] \notin PrepareKinds
    BY <1>3, <1>4 DEF PrepareKinds
  <2> QED BY <1>3, <2>1, PrepareLeads
<1>7. /\ Handle(u) \in A /\ Lacks(A, ResultKinds \cup {"param"}) /\ Lacks(A, {"slot"}) /\ st \in A /\ A \ {st} = alive
      /\ ResPtr(u) \notin A /\ ResultOf(u) \notin A
  BY <1>3, <1>4 DEF Lacks, ResultKinds
<1>8. Leads(queryLocked(u, st, how, cols, rollback), A, B)
  BY <1>7, QueryLeads
<1>9. Leads(last, B, E)
  BY <1>7, DestroyLeads, NothingKeeps DEF Keeps
<1>10. Leads(prepareLocked(h, st, "ok", FALSE) \o queryLocked(u, st, how, cols, rollback), alive, B)
  BY <1>6, <1>8, LeadsJoin
<1> PICK trace : trace = prepareLocked(h, st, "ok", FALSE) \o queryLocked(u, st, how, cols, rollback) \o last
  OBVIOUS
<1>11. Leads(trace, alive, (alive \ AllBlocks(u)) \cup Blocks(u, r)) /\ Call(trace)
  BY <1>2, <1>5, <1>9, <1>10, LeadsJoin
<1> QED BY <1>1, <1>5, <1>11, ResultStep

(* Whether rows hold a chunk or not, none is left once it is released.     *)
LEMMA ReleaseLeads ==
  ASSUME OwnInv, NEW u \in Users, results[u] # NoObject
  PROVE  Leads(releaseChunk(u), alive, alive \ {ChunkOf(u)})
<1>1. Lacks(alive, {"slot"})
  BY RestLacks DEF OwnInv, RestKinds
<1>2. CASE results[u].chunk
  <2>1. ChunkOf(u) \in alive
    BY <1>2, Held DEF OwnInv
  <2> QED BY <1>1, <1>2, <2>1, DestroyLeads DEF releaseChunk
<1>3. CASE ~results[u].chunk
  <2>1. alive \ {ChunkOf(u)} = alive
    BY <1>3, NotHeld DEF OwnInv
  <2> QED BY <1>3, <2>1, NothingKeeps DEF releaseChunk, Keeps
<1> QED BY <1>2, <1>3

LEMMA NextChunkStep ==
  ASSUME OwnInv, NEW u \in Users, NEW empty \in BOOLEAN, NEW more \in BOOLEAN, NEW cols \in Columns,
         NextChunk(u, empty, more, cols)
  PROVE  OwnInv'
<1> PICK c : c = ChunkOf(u)
  OBVIOUS
<1> PICK r : r = [results[u] EXCEPT !.chunk = more]
  OBVIOUS
<1> PICK A : A = alive \ {c}
  OBVIOUS
<1> PICK E : E = IF more THEN A \cup {c} ELSE A
  OBVIOUS
<1> PICK fetch : fetch = Use(ResultOf(u))
  OBVIOUS
<1> PICK skip : skip = IF empty THEN fetch \o Get(c) \o destroyHandle(c) ELSE <<>>
  OBVIOUS
<1> PICK fill : fill = IF more THEN Get(c) \o newDecoders(cols, c) ELSE <<>>
  OBVIOUS
<1> PICK trace : trace = releaseChunk(u) \o skip \o fetch \o fill
  OBVIOUS
<1>1. results[u] # NoObject /\ UNCHANGED stmt /\ Call(trace)
  BY DEF NextChunk
<1>2. results[u] \in [chunk : BOOLEAN, oneShot : BOOLEAN]
  BY <1>1 DEF OwnInv, OwnTypes
<1>3. r \in [chunk : BOOLEAN, oneShot : BOOLEAN] /\ r.chunk = more /\ r.oneShot = results[u].oneShot
  BY <1>2
<1>4. results' = [results EXCEPT ![u] = r]
  BY <1>2 DEF NextChunk
<1>5. Lacks(alive, VectorKinds)
  <2>1. VectorKinds \cap RestKinds = {}
    BY DEF VectorKinds, RestKinds
  <2> QED BY <2>1, RestLacks DEF OwnInv
<1>6. c[1] = "chunk" /\ ResultOf(u)[1] = "rowsResult"
  BY BlocksAre
<1>7. ResultOf(u) \in A /\ c \notin A
  BY <1>1, <1>6, Held DEF OwnInv
<1>8. Lacks(A \cup {c}, VectorKinds) /\ Lacks(A \cup {c}, {"slot"}) /\ (A \cup {c}) \ {c} = A
  BY <1>5, <1>6, <1>7 DEF Lacks, VectorKinds
<1>9. Leads(releaseChunk(u), alive, A)
  BY <1>1, ReleaseLeads
<1>10. Leads(fetch, A, A) /\ Leads(Get(c), A, A \cup {c}) /\ Leads(destroyHandle(c), A \cup {c}, A)
       /\ Leads(newDecoders(cols, c), A \cup {c}, A \cup {c})
  BY <1>7, <1>8, UseKeeps, GetLeads, DestroyLeads, NewDecodersKeep DEF Keeps
<1>11. Leads(skip, A, A)
  <2>1. Leads(fetch \o Get(c), A, A \cup {c})
    BY <1>10, LeadsJoin
  <2>2. Leads(fetch \o Get(c) \o destroyHandle(c), A, A)
    BY <1>10, <2>1, LeadsJoin
  <2> QED BY <2>2, NothingKeeps DEF Keeps
<1>12. Leads(fill, A, E)
  <2>1. Leads(Get(c) \o newDecoders(cols, c), A, A \cup {c})
    BY <1>10, LeadsJoin
  <2> QED BY <2>1, NothingKeeps DEF Keeps
<1>13. Leads(releaseChunk(u) \o skip, alive, A)
  BY <1>9, <1>11, LeadsJoin
<1>14. Leads(releaseChunk(u) \o skip \o fetch, alive, A)
  BY <1>10, <1>13, LeadsJoin
<1>15. Leads(trace, alive, E)
  BY <1>12, <1>14, LeadsJoin
<1>16. E = (alive \ AllBlocks(u)) \cup Blocks(u, r)
  <2>1. r # NoObject
    BY <1>3, ResultIsObject
  <2>2. Blocks(u, r) = {ResPtr(u), ResultOf(u)} \cup (IF more THEN {c} ELSE {})
                       \cup (IF results[u].oneShot THEN {OneShot(u)} ELSE {})
    BY <1>3, <2>1 DEF Blocks
  <2>3. ResPtr(u) \in alive /\ ResultOf(u) \in alive /\ (results[u].oneShot => OneShot(u) \in alive)
    BY <1>1, Held DEF OwnInv
  <2>4. ~results[u].oneShot => OneShot(u) \notin alive
    BY NotHeld DEF OwnInv
  <2>5. OneShot(u)[1] = "oneshot" /\ ResPtr(u)[1] = "rowsPtr"
    BY BlocksAre
  <2> QED BY <1>6, <2>2, <2>3, <2>4, <2>5 DEF AllBlocks
<1>17. Leads(trace, alive, (alive \ AllBlocks(u)) \cup Blocks(u, r)) /\ r \in {NoObject} \cup [chunk : BOOLEAN, oneShot : BOOLEAN]
  BY <1>3, <1>15, <1>16
<1> QED BY <1>1, <1>4, <1>17, ResultStep

LEMMA RowsCloseStep ==
  ASSUME OwnInv, NEW u \in Users, RowsClose(u)
  PROVE  OwnInv'
<1> PICK A : A = alive \ {ChunkOf(u)}
  OBVIOUS
<1> PICK B : B = (A \ {ResultOf(u)}) \ {ResPtr(u)}
  OBVIOUS
<1> PICK last : last = IF results[u].oneShot THEN destroyHandle(OneShot(u)) ELSE <<>>
  OBVIOUS
<1> PICK trace : trace = releaseChunk(u) \o DestroyResult(ResultOf(u), ResPtr(u)) \o last
  OBVIOUS
<1>1. results[u] # NoObject /\ UNCHANGED stmt /\ Call(trace) /\ results' = [results EXCEPT ![u] = NoObject]
  BY DEF RowsClose
<1>2. /\ ResPtr(u)[1] = "rowsPtr" /\ ResultOf(u)[1] = "rowsResult" /\ ChunkOf(u)[1] = "chunk"
      /\ OneShot(u)[1] = "oneshot"
  BY BlocksAre
<1>3. ResultOf(u) \in A /\ ResPtr(u) \in A \ {ResultOf(u)}
  BY <1>1, <1>2, Held DEF OwnInv
<1>4. Lacks(B, {"slot"})
  <2>1. Lacks(alive, {"slot"})
    BY RestLacks DEF OwnInv, RestKinds
  <2> QED BY <2>1 DEF Lacks
<1>5. Leads(releaseChunk(u), alive, A)
  BY <1>1, ReleaseLeads
<1>6. Leads(DestroyResult(ResultOf(u), ResPtr(u)), A, B)
  BY <1>3, PutLeads, LeadsJoin DEF DestroyResult
<1>7. Leads(last, B, B \ {OneShot(u)})
  <2>1. CASE results[u].oneShot
    <3>1. OneShot(u) \in B
      BY <1>1, <1>2, <2>1, Held DEF OwnInv
    <3> QED BY <1>4, <2>1, <3>1, DestroyLeads
  <2>2. CASE ~results[u].oneShot
    <3>1. OneShot(u) \notin alive
      BY <2>2, NotHeld DEF OwnInv
    <3>2. B \ {OneShot(u)} = B
      BY <3>1
    <3> QED BY <2>2, <3>2, NothingKeeps DEF Keeps
  <2> QED BY <2>1, <2>2
<1>8. Leads(releaseChunk(u) \o DestroyResult(ResultOf(u), ResPtr(u)), alive, B)
  BY <1>5, <1>6, LeadsJoin
<1>9. Leads(trace, alive, B \ {OneShot(u)})
  BY <1>7, <1>8, LeadsJoin
<1>10. B \ {OneShot(u)} = (alive \ AllBlocks(u)) \cup Blocks(u, NoObject)
  BY FreshBlocks DEF AllBlocks
<1> QED BY <1>1, <1>9, <1>10, ResultStep

-----------------------------------------------------------------------------
(* Engines and connections.                                                *)
OpenCon(c) == c # NoObject /\ ~c.closed
Conns(n) == {NoObject} \cup [engine : 1 .. n, ownsDB : BOOLEAN, closed : BOOLEAN]

LEMMA ConnIsObject == \A n : \A c \in [engine : 1 .. n, ownsDB : BOOLEAN, closed : BOOLEAN] : c # NoObject
<1> TAKE n
<1> TAKE c \in [engine : 1 .. n, ownsDB : BOOLEAN, closed : BOOLEAN]
<1>1. DOMAIN c = {"engine", "ownsDB", "closed"} /\ DOMAIN NoObject = {}
  BY DEF NoObject
<1> QED BY <1>1

LEMMA UsableConn ==
  ASSUME OwnTypes, NEW u \in Users, con[u] # NoObject
  PROVE  /\ con[u] \in [engine : 1 .. opened, ownsDB : BOOLEAN, closed : BOOLEAN]
         /\ con[u].engine \in 1 .. opened /\ con[u].ownsDB \in BOOLEAN /\ con[u].closed \in BOOLEAN
<1>1. con[u] \in [engine : 1 .. opened, ownsDB : BOOLEAN, closed : BOOLEAN]
  BY DEF OwnTypes
<1> QED BY <1>1

LEMMA DbsAre ==
  /\ \A b : b \in OwnedDbs <=> \/ db # 0 /\ b = DbOf(db)
                               \/ \E v \in Users : OpenCon(con[v]) /\ con[v].ownsDB /\ b = DbOf(con[v].engine)
  /\ \A b : b \in OwnedDbs' <=> \/ db' # 0 /\ b = DbOf(db')
                                \/ \E v \in Users : OpenCon(con'[v]) /\ con'[v].ownsDB /\ b = DbOf(con'[v].engine)
<1>1. \A b : b \in OwnedDbs <=> \/ db # 0 /\ b = DbOf(db)
                               \/ \E v \in Users : OpenCon(con[v]) /\ con[v].ownsDB /\ b = DbOf(con[v].engine)
  BY DEF OwnedDbs, OpenCon, Usable
<1>2. \A b : b \in OwnedDbs' <=> \/ db' # 0 /\ b = DbOf(db')
                                \/ \E v \in Users : OpenCon(con'[v]) /\ con'[v].ownsDB /\ b = DbOf(con'[v].engine)
  BY DEF OwnedDbs, OpenCon, Usable
<1> QED BY <1>1, <1>2

LEMMA ConsAre ==
  /\ \A b : b \in OwnedCons <=> \E v \in Users : OpenCon(con[v]) /\ b = ConOf(con[v].engine, v)
  /\ \A b : b \in OwnedCons' <=> \E v \in Users : OpenCon(con'[v]) /\ b = ConOf(con'[v].engine, v)
<1>1. \A b : b \in OwnedCons <=> \E v \in Users : OpenCon(con[v]) /\ b = ConOf(con[v].engine, v)
  BY DEF OwnedCons, OpenCon, Usable, Handle
<1>2. \A b : b \in OwnedCons' <=> \E v \in Users : OpenCon(con'[v]) /\ b = ConOf(con'[v].engine, v)
  BY DEF OwnedCons, OpenCon, Usable, Handle
<1> QED BY <1>1, <1>2

LEMMA ConChanges ==
  ASSUME NEW u \in Users, NEW c, NEW n, con \in [Users -> Conns(n)], con' = [con EXCEPT ![u] = c]
  PROVE  /\ con'[u] = c /\ \A v \in Users \ {u} : con'[v] = con[v]
         /\ OwnedCons' = (OwnedCons \ {Handle(u)}) \cup (IF OpenCon(c) THEN {ConOf(c.engine, u)} ELSE {})
<1>1. con'[u] = c /\ \A v \in Users \ {u} : con'[v] = con[v]
  OBVIOUS
<1>2. \A v, w, d, e : ConOf(d, v) = ConOf(e, w) => v = w /\ d = e
  BY DEF ConOf
<1>3. Handle(u) = ConOf(con[u].engine, u)
  BY DEF Handle
<1>4. OwnedCons' = (OwnedCons \ {Handle(u)}) \cup (IF OpenCon(c) THEN {ConOf(c.engine, u)} ELSE {})
  BY <1>1, <1>2, <1>3, ConsAre
<1> QED BY <1>1, <1>4

(* Nothing is alive of an engine that was not opened yet.                  *)
LEMMA NotOpened ==
  ASSUME OwnInv, NEW e \in Nat, e > opened
  PROVE  DbOf(e) \notin alive /\ \A u : ConOf(e, u) \notin alive
<1>0. opened \in Nat /\ db \in Nat /\ db <= opened /\ failed \subseteq 1 .. opened
  BY OwnershipAssumption DEF OwnInv, OwnTypes
<1>1. \A b \in alive : b \in Owned \/ b \in Excepted
  BY DEF OwnInv, OwnedExactly, Excepted
<1>2. \A v \in Users : OpenCon(con[v]) => con[v].engine \in 1 .. opened
  BY UsableConn DEF OwnInv, OpenCon
<1>3. \A d : DbOf(d) = DbOf(e) => d = e
  BY DEF DbOf
<1>4. \A d, u, v : ConOf(d, u) = ConOf(e, v) => d = e
  BY DEF ConOf
<1>5. DbOf(e) \notin OwnedDbs
  BY <1>0, <1>2, <1>3, DbsAre
<1>6. \A u : ConOf(e, u) \notin OwnedCons
  BY <1>0, <1>2, <1>4, ConsAre
<1>7. DbOf(e)[1] = "db" /\ \A u : ConOf(e, u)[1] = "con"
  BY DEF DbOf, ConOf
<1>8. DbOf(e) \notin Owned /\ \A u : ConOf(e, u) \notin Owned
  BY <1>5, <1>6, <1>7, OwnedParts, PartKinds
<1>9. DbOf(e) \notin Excepted /\ \A u : ConOf(e, u) \notin Excepted
  BY <1>0 DEF Excepted, OfFailedOpens, Overloads, DbOf, ConOf, Overload
<1> QED BY <1>1, <1>8, <1>9

LEMMA ShutdownStep ==
  ASSUME OwnInv, Shutdown
  PROVE  OwnInv'
<1>1. db # 0 /\ db' = 0 /\ UNCHANGED <<opened, failed, con, stmt, results>> /\ Run(destroyHandle(DbOf(db)))
  BY DEF Shutdown
<1> PICK gone : gone = {DbOf(db)}
  OBVIOUS
<1> PICK new : new = {}
  OBVIOUS
<1>2. DbOf(db) \in OwnedDbs
  BY <1>1, DbsAre
<1>3. DbOf(db) \in alive /\ Lacks(alive, {"slot"})
  BY <1>2, OwnedParts, RestLacks DEF OwnInv, OwnedExactly, RestKinds
<1>4. Leads(destroyHandle(DbOf(db)), alive, alive \ {DbOf(db)})
  BY <1>3, DestroyLeads
<1>5. alive' = (alive \ gone) \cup new /\ wrong' = FALSE
  BY <1>1, <1>4, RunLeads
<1>6. \A d, e : DbOf(d) = DbOf(e) => d = e
  BY DEF DbOf
<1>7. \A v \in Users : OpenCon(con[v]) /\ con[v].ownsDB => con[v].engine # db
  BY DEF OwnInv, OneOwner, Usable, OpenCon
<1>8. OwnedDbs' = OwnedDbs \ gone
  BY <1>1, <1>6, <1>7, DbsAre
<1>9. DbOf(db)[1] = "db"
  BY DEF DbOf
<1>10. Owned' = (Owned \ gone) \cup new
  BY <1>1, <1>8, <1>9, PartsStay, OwnedParts, PartKinds
<1>11. OwnedExactly'
  BY <1>1, <1>5, <1>10, PartsStay, StillExact DEF OwnInv
<1>12. OwnTypes'
  <2>1. opened \in Nat
    BY OwnershipAssumption DEF OwnInv, OwnTypes
  <2>2. 0 \in 0 .. opened
    BY <2>1
  <2> QED BY <1>1, <1>5, <2>2 DEF OwnInv, OwnTypes
<1>13. SoundEngines'
  <2>1. 0 \notin failed
    BY DEF OwnInv, OwnTypes
  <2> QED BY <1>1, <2>1 DEF OwnInv, SoundEngines, Usable
<1>14. OneOwner'
  <2>1. \A v \in Users : OpenCon(con[v]) => con[v].engine # 0
    BY UsableConn DEF OwnInv, OpenCon
  <2> QED BY <1>1, <2>1 DEF OwnInv, OneOwner, Usable, OpenCon
<1> QED BY <1>11, <1>12, <1>13, <1>14 DEF OwnInv

(* The rest of the invariant when one connection changes.                  *)
LEMMA CloseStep ==
  ASSUME OwnInv, NEW u \in Users, Close(u)
  PROVE  OwnInv'
<1> PICK c : c = con[u]
  OBVIOUS
<1> PICK d : d = IF c.closed THEN NoObject ELSE [c EXCEPT !.closed = TRUE]
  OBVIOUS
<1> PICK h : h = Handle(u)
  OBVIOUS
<1> PICK b : b = DbOf(c.engine)
  OBVIOUS
<1> PICK gone : gone = IF c.closed THEN {} ELSE IF c.ownsDB THEN {h, b} ELSE {h}
  OBVIOUS
<1> PICK new : new = {}
  OBVIOUS
<1> PICK trace : trace = IF c.closed THEN <<>>
                         ELSE destroyHandle(h) \o (IF c.ownsDB THEN destroyHandle(b) ELSE <<>>)
  OBVIOUS
<1>1. /\ c # NoObject /\ Run(trace) /\ con' = [con EXCEPT ![u] = d]
      /\ UNCHANGED <<opened, failed, db, stmt, results>>
  BY DEF Close
<1>2. /\ c \in [engine : 1 .. opened, ownsDB : BOOLEAN, closed : BOOLEAN]
      /\ c.closed \in BOOLEAN /\ c.ownsDB \in BOOLEAN /\ c.engine \in 1 .. opened
      /\ con \in [Users -> Conns(opened)]
  BY <1>1, UsableConn DEF OwnInv, OwnTypes, Conns
<1>3. d \in Conns(opened) /\ ~OpenCon(d)
  <2>1. CASE c.closed
    BY <2>1 DEF Conns, OpenCon
  <2>2. CASE ~c.closed
    <3>1. d \in [engine : 1 .. opened, ownsDB : BOOLEAN, closed : BOOLEAN] /\ d.closed = TRUE
      BY <1>2, <2>2
    <3> QED BY <3>1 DEF Conns, OpenCon
  <2> QED BY <2>1, <2>2
<1>4. con'[u] = d /\ (\A v \in Users \ {u} : con'[v] = con[v]) /\ OwnedCons' = OwnedCons \ {h}
  BY <1>1, <1>2, <1>3, ConChanges
<1>5. h = ConOf(c.engine, u) /\ h[1] = "con" /\ b[1] = "db"
  BY DEF Handle, ConOf, DbOf
<1>6. \A x, y : DbOf(x) = DbOf(y) => x = y
  BY DEF DbOf
<1>7. OpenCon(c) <=> ~c.closed
  BY <1>1 DEF OpenCon
<1>8. \A v \in Users : OpenCon(con'[v]) <=> v # u /\ OpenCon(con[v])
  BY <1>3, <1>4
<1>9. Owned' = (Owned \ gone) \cup new
  <2>1. /\ OwnedStmts' = OwnedStmts /\ OwnedResults' = OwnedResults
        /\ OwnedChunks' = OwnedChunks /\ OwnedShots' = OwnedShots
    BY <1>1, PartsStay
  <2>2. CASE c.closed
    <3>1. h \notin OwnedCons
      <4>1. \A v, x, y : ConOf(x, v) = ConOf(y, u) => v = u
        BY DEF ConOf
      <4> QED BY <1>5, <1>7, <2>2, <4>1, ConsAre
    <3>2. OwnedDbs' = OwnedDbs
      <4>1. \A x : (\E v \in Users : OpenCon(con'[v]) /\ con'[v].ownsDB /\ x = DbOf(con'[v].engine))
                   <=> (\E v \in Users : OpenCon(con[v]) /\ con[v].ownsDB /\ x = DbOf(con[v].engine))
        BY <1>4, <1>7, <1>8, <2>2
      <4>2. \A x : x \in OwnedDbs' <=> x \in OwnedDbs
        BY <1>1, <4>1, DbsAre
      <4> QED BY <4>2
    <3> QED BY <1>4, <2>1, <2>2, <3>1, <3>2, OwnedParts
  <2>3. CASE ~c.closed /\ ~c.ownsDB
    <3>1. OwnedDbs' = OwnedDbs
      BY <1>1, <1>4, <1>7, <1>8, <2>3, DbsAre
    <3>2. h \notin OwnedDbs \cup OwnedStmts \cup OwnedResults \cup OwnedChunks \cup OwnedShots
      BY <1>5, PartKinds
    <3> QED BY <1>4, <2>1, <2>3, <3>1, <3>2, OwnedParts
  <2>4. CASE ~c.closed /\ c.ownsDB
    <3>1. c.engine # db /\ \A v \in Users \ {u} : OpenCon(con[v]) /\ con[v].ownsDB => con[v].engine # c.engine
      BY <1>7, <2>4 DEF OwnInv, OneOwner, Usable, OpenCon
    <3>2. OwnedDbs' = OwnedDbs \ {b}
      <4>1. \A x : (\E v \in Users : OpenCon(con'[v]) /\ con'[v].ownsDB /\ x = DbOf(con'[v].engine))
                   <=> x # b /\ (\E v \in Users : OpenCon(con[v]) /\ con[v].ownsDB /\ x = DbOf(con[v].engine))
        BY <1>4, <1>6, <1>8, <3>1
      <4>2. db # 0 => DbOf(db) # b
        BY <1>6, <3>1
      <4>3. \A x : x \in OwnedDbs' <=> x \in OwnedDbs /\ x # b
        BY <1>1, <4>1, <4>2, DbsAre
      <4> QED BY <4>3
    <3>3. /\ h \notin OwnedDbs \cup OwnedStmts \cup OwnedResults \cup OwnedChunks \cup OwnedShots
          /\ b \notin OwnedCons \cup OwnedStmts \cup OwnedResults \cup OwnedChunks \cup OwnedShots
      BY <1>5, PartKinds
    <3> QED BY <1>4, <2>1, <2>4, <3>2, <3>3, OwnedParts
  <2> QED BY <1>2, <2>2, <2>3, <2>4
<1>10. Leads(trace, alive, (alive \ gone) \cup new)
  <2>1. CASE c.closed
    BY <2>1, NothingKeeps DEF Keeps
  <2>2. CASE ~c.closed
    <3>1. h \in alive /\ Lacks(alive, {"slot"}) /\ Lacks(alive \ {h}, {"slot"})
      <4>1. h \in OwnedCons
        BY <1>5, <1>7, <2>2, ConsAre
      <4> QED BY <4>1, OwnedParts, RestLacks DEF OwnInv, OwnedExactly, RestKinds, Lacks
    <3>2. Leads(destroyHandle(h), alive, alive \ {h})
      BY <3>1, DestroyLeads
    <3>3. CASE c.ownsDB
      <4>1. b \in OwnedDbs
        BY <1>7, <2>2, <3>3, DbsAre
      <4>2. b \in alive \ {h}
        BY <1>5, <4>1, OwnedParts DEF OwnInv, OwnedExactly
      <4>3. Leads(destroyHandle(b), alive \ {h}, (alive \ {h}) \ {b})
        BY <3>1, <4>2, DestroyLeads
      <4>4. (alive \ {h}) \ {b} = (alive \ gone) \cup new
        BY <2>2, <3>3
      <4>5. Leads(destroyHandle(h) \o destroyHandle(b), alive, (alive \ {h}) \ {b})
        BY <3>2, <4>3, LeadsJoin
      <4> QED BY <2>2, <3>3, <4>4, <4>5
    <3>4. CASE ~c.ownsDB
      <4>1. alive \ {h} = (alive \ gone) \cup new
        BY <2>2, <3>4
      <4>2. Leads(destroyHandle(h) \o <<>>, alive, alive \ {h})
        BY <3>2, NothingKeeps, LeadsJoin DEF Keeps
      <4> QED BY <2>2, <3>4, <4>1, <4>2
    <3> QED BY <1>2, <3>3, <3>4
  <2> QED BY <1>2, <2>1, <2>2
<1>11. alive' = (alive \ gone) \cup new /\ wrong' = FALSE
  BY <1>1, <1>10, RunLeads
<1>12. OwnedExactly'
  <2>1. OwnedExactly /\ Excepted' = Excepted /\ new \cap Excepted = {}
    BY <1>1, PartsStay DEF OwnInv
  <2> QED BY <1>9, <1>11, <2>1, StillExact
<1>13. OwnTypes'
  BY <1>1, <1>3, <1>11 DEF OwnInv, OwnTypes, Conns
<1>14. SoundEngines'
  BY <1>1, <1>4, <1>8 DEF OwnInv, SoundEngines, Usable, OpenCon
<1>15. OneOwner'
  BY <1>1, <1>4, <1>8 DEF OwnInv, OneOwner, Usable, OpenCon
<1> QED BY <1>12, <1>13, <1>14, <1>15 DEF OwnInv

(* A connection of a sound engine: the connection is the only new block    *)
(* but for a database the connection owns.                                 *)
LEMMA ConnectStep ==
  ASSUME OwnInv, NEW u \in Users, NEW ok \in BOOLEAN, Connect(u, ok)
  PROVE  OwnInv'
<1> PICK c : c = [engine |-> db, ownsDB |-> FALSE, closed |-> FALSE]
  OBVIOUS
<1> PICK h : h = ConOf(db, u)
  OBVIOUS
<1> PICK s : s = <<"conSlot">>
  OBVIOUS
<1> PICK b : b = DbOf(db)
  OBVIOUS
<1> PICK gone : gone = {}
  OBVIOUS
<1> PICK new : new = IF ok THEN {h} ELSE {}
  OBVIOUS
<1>1. /\ con[u] = NoObject /\ db # 0 /\ UNCHANGED <<opened, failed, db, stmt, results>>
      /\ Run(With(s, Use(b) \o (IF ok THEN Get(h) ELSE <<>>)))
      /\ con' = IF ok THEN [con EXCEPT ![u] = c] ELSE con
  BY DEF Connect
<1>2. b \in alive /\ s \notin alive /\ s \notin (alive \ gone) \cup new
  <2>1. b \in OwnedDbs
    BY <1>1, DbsAre
  <2>2. Lacks(alive, {"conSlot"})
    BY RestLacks DEF OwnInv, RestKinds
  <2>3. h # s
    BY DEF ConOf
  <2> QED BY <2>1, <2>2, <2>3, OwnedParts DEF OwnInv, OwnedExactly, Lacks
<1>3. h \notin Excepted /\ h \notin alive
  <2>1. h \notin Excepted
    BY DEF OwnInv, SoundEngines, Excepted, OfFailedOpens, Overloads, ConOf, DbOf, Overload
  <2>2. h \notin OwnedCons
    <3>1. \A v, x : ConOf(x, v) = h => v = u
      BY DEF ConOf
    <3>2. ~OpenCon(con[u])
      BY <1>1 DEF OpenCon
    <3> QED BY <3>1, <3>2, ConsAre
  <2>3. h[1] = "con"
    BY DEF ConOf
  <2>4. h \notin Owned
    BY <2>2, <2>3, OwnedParts, PartKinds
  <2> QED BY <2>1, <2>4 DEF OwnInv, OwnedExactly, Excepted
<1>4. Leads(With(s, Use(b) \o (IF ok THEN Get(h) ELSE <<>>)), alive, (alive \ gone) \cup new)
  <2> PICK E : E = (alive \ gone) \cup new
    OBVIOUS
  <2>1. Leads(Use(b), alive \cup {s}, alive \cup {s})
    BY <1>2, UseKeeps DEF Keeps
  <2>2. Leads(IF ok THEN Get(h) ELSE <<>>, alive \cup {s}, E \cup {s})
    <3>1. h \notin alive \cup {s}
      BY <1>3 DEF ConOf
    <3>2. E \cup {s} = IF ok THEN alive \cup {s} \cup {h} ELSE alive \cup {s}
      OBVIOUS
    <3> QED BY <3>1, <3>2, GetLeads, NothingKeeps DEF Keeps
  <2>3. Leads(Use(b) \o (IF ok THEN Get(h) ELSE <<>>), alive \cup {s}, E \cup {s})
    BY <2>1, <2>2, LeadsJoin
  <2> QED BY <1>2, <2>3, WithLeads
<1>5. alive' = (alive \ gone) \cup new /\ wrong' = FALSE
  <2> PICK trace : trace = With(s, Use(b) \o (IF ok THEN Get(h) ELSE <<>>))
    OBVIOUS
  <2>1. Run(trace) /\ Leads(trace, alive, (alive \ gone) \cup new)
    BY <1>1, <1>4
  <2> QED BY <2>1, RunLeads
<1>6. CASE ~ok
  <2>1. UNCHANGED con
    BY <1>1, <1>6
  <2>2. Owned' = (Owned \ gone) \cup new /\ Excepted' = Excepted
    BY <1>1, <1>6, <2>1, PartsStay, OwnedParts
  <2>3. OwnedExactly'
    <3>1. OwnedExactly /\ new \cap Excepted = {}
      BY <1>6 DEF OwnInv
    <3> QED BY <1>5, <2>2, <3>1, StillExact
  <2>4. stmt' \in [Users -> BOOLEAN] /\ results' \in [Users -> {NoObject} \cup [chunk : BOOLEAN, oneShot : BOOLEAN]]
    BY <1>1 DEF OwnInv, OwnTypes
  <2> QED BY <1>1, <1>5, <2>1, <2>3, <2>4, CallStays
<1>7. CASE ok
  <2>0. con \in [Users -> Conns(opened)] /\ opened \in Nat /\ db \in 1 .. opened
    BY <1>1, OwnershipAssumption DEF OwnInv, OwnTypes, Conns
  <2>1. c \in Conns(opened) /\ OpenCon(c) /\ c.engine = db /\ c.ownsDB = FALSE
    <3>1. c \in [engine : 1 .. opened, ownsDB : BOOLEAN, closed : BOOLEAN]
      BY <2>0
    <3> QED BY <3>1, ConnIsObject DEF Conns, OpenCon
  <2>2. con'[u] = c /\ (\A v \in Users \ {u} : con'[v] = con[v])
        /\ OwnedCons' = (OwnedCons \ {Handle(u)}) \cup {h}
    BY <1>1, <1>7, <2>0, <2>1, ConChanges
  <2>3. Handle(u) \notin OwnedCons
    <3>1. \A v, x, y : ConOf(x, v) = ConOf(y, u) => v = u
      BY DEF ConOf
    <3>2. ~OpenCon(con[u])
      BY <1>1 DEF OpenCon
    <3> QED BY <3>1, <3>2, ConsAre DEF Handle
  <2>4. OwnedDbs' = OwnedDbs
    <3>1. ~OpenCon(con[u])
      BY <1>1 DEF OpenCon
    <3>2. \A x : (\E v \in Users : OpenCon(con'[v]) /\ con'[v].ownsDB /\ x = DbOf(con'[v].engine))
                 <=> (\E v \in Users : OpenCon(con[v]) /\ con[v].ownsDB /\ x = DbOf(con[v].engine))
      BY <2>1, <2>2, <3>1
    <3>3. \A x : x \in OwnedDbs' <=> x \in OwnedDbs
      BY <1>1, <3>2, DbsAre
    <3> QED BY <3>3
  <2>5. Owned' = (Owned \ gone) \cup new
    BY <1>1, <1>7, <2>2, <2>3, <2>4, PartsStay, OwnedParts
  <2>6. OwnedExactly'
    <3>1. OwnedExactly /\ Excepted' = Excepted /\ new \cap Excepted = {}
      BY <1>1, <1>3, <1>7, PartsStay DEF OwnInv
    <3> QED BY <1>5, <2>5, <3>1, StillExact
  <2>7. OwnTypes'
    <3>1. con' \in [Users -> Conns(opened)]
      BY <1>1, <1>7, <2>0, <2>1
    <3> QED BY <1>1, <1>5, <3>1 DEF OwnInv, OwnTypes, Conns
  <2>8. SoundEngines'
    BY <1>1, <2>1, <2>2 DEF OwnInv, SoundEngines, Usable, OpenCon
  <2>9. OneOwner'
    BY <1>1, <2>1, <2>2 DEF OwnInv, OneOwner, Usable, OpenCon
  <2> QED BY <2>6, <2>7, <2>8, <2>9 DEF OwnInv
<1> QED BY <1>6, <1>7

(* An open that fails leaves in the engine what no object owns; one that   *)
(* succeeds leaves what its connection, or the connector, owns.            *)
LEMMA OpenStep ==
  ASSUME OwnInv, NEW u \in Users, NEW own \in BOOLEAN, NEW at \in OpenPlaces, Open(u, own, at)
  PROVE  OwnInv'
<1> PICK e : e = opened + 1
  OBVIOUS
<1> PICK c : c = [engine |-> e, ownsDB |-> own, closed |-> FALSE]
  OBVIOUS
<1> PICK new : new = OpenLeaves(at, e, u)
  OBVIOUS
<1>0. opened \in Nat /\ e \in Nat /\ e > opened /\ e \in 1 .. e /\ db \in 0 .. opened /\ failed \subseteq 1 .. opened
  BY OwnershipAssumption DEF OwnInv, OwnTypes
<1>1. /\ con[u] = NoObject /\ opened < MaxEngines /\ (own \/ db = 0) /\ opened' = e
      /\ Run(open(at, e, u)) /\ failed' = (IF at = "none" THEN failed ELSE failed \cup {e})
      /\ db' = (IF at = "none" /\ ~own THEN e ELSE db)
      /\ con' = (IF at = "none" THEN [con EXCEPT ![u] = c] ELSE con)
      /\ UNCHANGED <<stmt, results>>
  BY DEF Open
<1>2. DbOf(e) \notin alive /\ \A v : ConOf(e, v) \notin alive
  BY <1>0, NotOpened
<1>3. Lacks(alive, OpenKinds)
  <2>1. OpenKinds \cap RestKinds = {}
    BY DEF OpenKinds, RestKinds
  <2> QED BY <2>1, RestLacks DEF OwnInv
<1>4. alive' = alive \cup new /\ wrong' = FALSE
  <2>1. Leads(open(at, e, u), alive, alive \cup new)
    BY <1>2, <1>3, OpenLeads
  <2> QED BY <1>1, <2>1, RunLeads
<1>5. stmt' \in [Users -> BOOLEAN] /\ results' \in [Users -> {NoObject} \cup [chunk : BOOLEAN, oneShot : BOOLEAN]]
  BY <1>1 DEF OwnInv, OwnTypes
<1>6. opened' \in 0 .. MaxEngines /\ failed' \subseteq 1 .. opened' /\ db' \in 0 .. opened'
  <2>1. MaxEngines \in Nat
    BY OwnershipAssumption
  <2>2. failed \subseteq 1 .. e /\ db \in 0 .. e
    BY <1>0
  <2> QED BY <1>0, <1>1, <2>1, <2>2
<1>7. con \in [Users -> Conns(opened')]
  <2>1. con \in [Users -> Conns(opened)]
    BY DEF OwnInv, OwnTypes, Conns
  <2>2. Conns(opened) \subseteq Conns(opened')
    <3>1. 1 .. opened \subseteq 1 .. opened'
      BY <1>0, <1>1
    <3> QED BY <3>1 DEF Conns
  <2> QED BY <2>1, <2>2
<1>8. \A v \in Users : OpenCon(con[v]) => con[v].engine \in 1 .. opened
  BY UsableConn DEF OwnInv, OpenCon
<1>9. CASE at # "none"
  <2>1. Owned' = Owned
    BY <1>1, <1>9, PartsStay, OwnedParts
  <2>2. OfFailedOpens' = OfFailedOpens \cup {DbOf(e)} \cup {ConOf(e, v) : v \in Users}
    BY <1>1, <1>9 DEF OfFailedOpens
  <2>3. new \subseteq {DbOf(e)} \cup {ConOf(e, v) : v \in Users}
    BY DEF OpenLeaves
  <2>4. Overloads' = Overloads
    BY DEF Overloads
  <2>5. alive \cap ({DbOf(e)} \cup {ConOf(e, v) : v \in Users}) = {}
    BY <1>2
  <2>6. OwnedExactly'
    BY <1>4, <2>1, <2>2, <2>3, <2>4, <2>5 DEF OwnInv, OwnedExactly
  <2>7. OwnTypes'
    BY <1>1, <1>4, <1>5, <1>6, <1>7, <1>9 DEF OwnTypes, Conns
  <2>8. SoundEngines'
    <3>1. db \notin failed' /\ \A v \in Users : OpenCon(con[v]) => con[v].engine \notin failed'
      BY <1>0, <1>1, <1>8 DEF OwnInv, SoundEngines, Usable, OpenCon
    <3> QED BY <1>1, <1>9, <3>1 DEF SoundEngines, Usable, OpenCon
  <2>9. OneOwner'
    BY <1>1, <1>9 DEF OwnInv, OneOwner, Usable
  <2> QED BY <2>6, <2>7, <2>8, <2>9 DEF OwnInv
<1>10. CASE at = "none"
  <2>1. c \in Conns(opened') /\ OpenCon(c) /\ c.engine = e /\ c.ownsDB = own
    <3>1. c \in [engine : 1 .. opened', ownsDB : BOOLEAN, closed : BOOLEAN]
      BY <1>0, <1>1
    <3> QED BY <3>1, ConnIsObject DEF Conns, OpenCon
  <2>2. con'[u] = c /\ (\A v \in Users \ {u} : con'[v] = con[v])
        /\ OwnedCons' = (OwnedCons \ {Handle(u)}) \cup {ConOf(e, u)}
    BY <1>1, <1>7, <1>10, <2>1, ConChanges
  <2>3. ~OpenCon(con[u])
    BY <1>1 DEF OpenCon
  <2>4. Handle(u) \notin OwnedCons
    <3>1. \A v, x, y : ConOf(x, v) = ConOf(y, u) => v = u
      BY DEF ConOf
    <3> QED BY <2>3, <3>1, ConsAre DEF Handle
  <2>5. OwnedDbs' = OwnedDbs \cup {DbOf(e)}
    <3>1. \A x : (\E v \in Users : OpenCon(con'[v]) /\ con'[v].ownsDB /\ x = DbOf(con'[v].engine))
                 <=> \/ own /\ x = DbOf(e)
                     \/ \E v \in Users : OpenCon(con[v]) /\ con[v].ownsDB /\ x = DbOf(con[v].engine)
      BY <2>1, <2>2, <2>3
    <3>2. \A x : (db' # 0 /\ x = DbOf(db')) <=> ((~own /\ x = DbOf(e)) \/ (db # 0 /\ x = DbOf(db)))
      BY <1>0, <1>1, <1>10
    <3>3. \A x : x \in OwnedDbs' <=> x \in OwnedDbs \/ x = DbOf(e)
      BY <3>1, <3>2, DbsAre
    <3> QED BY <3>3
  <2>6. new = {DbOf(e), ConOf(e, u)}
    BY <1>10 DEF OpenLeaves
  <2>7. Owned' = Owned \cup new
    BY <1>1, <2>2, <2>4, <2>5, <2>6, PartsStay, OwnedParts
  <2>8. new \cap Excepted = {}
    <3>1. e \notin failed
      BY <1>0
    <3> QED BY <2>6, <3>1 DEF Excepted, OfFailedOpens, Overloads, DbOf, ConOf, Overload
  <2>9. OwnedExactly'
    <3> PICK gone : gone = {}
      OBVIOUS
    <3>1. /\ OwnedExactly /\ Excepted' = Excepted /\ alive' = (alive \ gone) \cup new
          /\ Owned' = (Owned \ gone) \cup new
      BY <1>1, <1>4, <1>10, <2>7, PartsStay DEF OwnInv
    <3> QED BY <1>4, <2>8, <3>1, StillExact
  <2>10. OwnTypes'
    <3>1. con' \in [Users -> Conns(opened')]
      BY <1>1, <1>7, <1>10, <2>1
    <3> QED BY <1>4, <1>5, <1>6, <3>1 DEF OwnTypes, Conns
  <2>11. SoundEngines'
    <3>1. e \notin failed /\ failed' = failed
      BY <1>0, <1>1, <1>10
    <3>2. db' \notin failed'
      BY <1>1, <3>1 DEF OwnInv, SoundEngines
    <3>3. \A v \in Users : OpenCon(con'[v]) => con'[v].engine \notin failed'
      BY <2>1, <2>2, <3>1 DEF OwnInv, SoundEngines, Usable, OpenCon
    <3> QED BY <3>2, <3>3 DEF SoundEngines, Usable, OpenCon
  <2>12. OneOwner'
    <3>1. \A v \in Users : OpenCon(con[v]) => con[v].engine # e
      BY <1>0, <1>8
    <3>2. db # e /\ (own => db' = db) /\ (~own => db' = e)
      BY <1>0, <1>1, <1>10
    <3>3. \A v \in Users \ {u} : OpenCon(con'[v]) /\ con'[v].ownsDB =>
              /\ con'[v].engine # e /\ con'[v].engine # db
              /\ \A w \in Users \ {u, v} : OpenCon(con'[w]) /\ con'[w].ownsDB => con'[w].engine # con'[v].engine
      BY <2>2, <3>1 DEF OwnInv, OneOwner, Usable, OpenCon
    <3>4. \A v \in Users : OpenCon(con'[v]) /\ con'[v].ownsDB =>
              /\ con'[v].engine # db'
              /\ \A w \in Users \ {v} : OpenCon(con'[w]) /\ con'[w].ownsDB => con'[w].engine # con'[v].engine
      BY <2>1, <2>2, <3>2, <3>3
    <3> QED BY <3>4 DEF OneOwner, Usable, OpenCon
  <2> QED BY <2>9, <2>10, <2>11, <2>12 DEF OwnInv
<1> QED BY <1>9, <1>10

LEMMA OwnInitInv == OwnInit => OwnInv
<1> SUFFICES ASSUME OwnInit PROVE OwnInv
  OBVIOUS
<1>0. MaxEngines \in Nat
  BY OwnershipAssumption
<1>1. OwnTypes
  <2>0. opened = 0 /\ failed = {} /\ db = 0
    BY DEF OwnInit
  <2>1. opened \in 0 .. MaxEngines /\ failed \subseteq 1 .. opened /\ db \in 0 .. opened
    BY <1>0, <2>0
  <2>4. wrong \in BOOLEAN
    BY DEF OwnInit
  <2>2. \A T : con \in [Users -> {NoObject} \cup T] /\ results \in [Users -> {NoObject} \cup T]
    BY DEF OwnInit
  <2>3. stmt \in [Users -> BOOLEAN]
    BY DEF OwnInit
  <2> QED BY <2>1, <2>2, <2>3, <2>4 DEF OwnTypes
<1>2. Owned = {}
  BY DEF Owned, OwnedDbs, OwnedCons, OwnedStmts, OwnedResults, OwnedChunks, OwnedShots, OwnInit, Usable
<1>3. OwnedExactly
  BY <1>2 DEF OwnInit, OwnedExactly
<1>4. SoundEngines /\ OneOwner
  BY DEF OwnInit, SoundEngines, OneOwner, Usable
<1> QED BY <1>1, <1>3, <1>4 DEF OwnInv

LEMMA OwnStep == OwnInv /\ [OwnNext]_ownvars => OwnInv'
<1> SUFFICES ASSUME OwnInv, [OwnNext]_ownvars PROVE OwnInv'
  OBVIOUS
<1>1. CASE UNCHANGED ownvars
  <2>1. UNCHANGED <<opened, failed, db, con, stmt, results, alive, wrong>>
    BY <1>1 DEF ownvars
  <2>2. Owned' = Owned /\ Excepted' = Excepted
    BY <2>1, PartsStay, OwnedParts
  <2>3. OwnedExactly'
    BY <2>1, <2>2 DEF OwnInv, OwnedExactly, Excepted
  <2>4. wrong' = FALSE
    BY <2>1 DEF OwnInv, OwnTypes, OwnedExactly
  <2>5. stmt' \in [Users -> BOOLEAN] /\ results' \in [Users -> {NoObject} \cup [chunk : BOOLEAN, oneShot : BOOLEAN]]
    BY <2>1 DEF OwnInv, OwnTypes
  <2> QED BY <2>1, <2>3, <2>4, <2>5, CallStays
<1>2. CASE Shutdown
  BY <1>2, ShutdownStep
<1>3. ASSUME NEW u \in Users, \E at \in OpenPlaces, own \in BOOLEAN : Open(u, own, at) PROVE OwnInv'
  BY <1>3, OpenStep
<1>4. ASSUME NEW u \in Users, \E ok \in BOOLEAN : Connect(u, ok) PROVE OwnInv'
  BY <1>4, ConnectStep
<1>5. ASSUME NEW u \in Users, Close(u) \/ Exec(u) \/ StmtClose(u) \/ RowsClose(u) \/ Extend(u) PROVE OwnInv'
  BY <1>5, CloseStep, ExecStep, StmtCloseStep, RowsCloseStep, ExtendStep
<1>6. ASSUME NEW u \in Users, \E how \in PrepareFailures \cup {"ok"}, rollback \in BOOLEAN : Prepare(u, how, rollback)
      PROVE  OwnInv'
  BY <1>6, PrepareStep
<1>7. ASSUME NEW u \in Users, NEW how \in ExecOutcomes, NEW rollback \in BOOLEAN,
             \/ StmtExec(u, how, rollback)
             \/ \E cols \in Columns : QueryRows(u, how, cols, rollback) \/ QueryArgs(u, how, cols, rollback)
      PROVE  OwnInv'
  BY <1>7, StmtExecStep, QueryRowsStep, QueryArgsStep
<1>8. ASSUME NEW u \in Users, \E empty, more \in BOOLEAN, cols \in Columns : NextChunk(u, empty, more, cols)
      PROVE  OwnInv'
  BY <1>8, NextChunkStep
<1> QED BY <1>1, <1>2, <1>3, <1>4, <1>5, <1>6, <1>7, <1>8 DEF OwnNext

(* Between calls, what is alive in the engines is what the open Go objects *)
(* hold: for any number of connections and of engines, whatever columns a  *)
(* result has, and wherever an operation fails.                            *)
THEOREM EngineHoldsWhatIsOwned == OwnSpec => []OwnedExactly
<1>1. OwnInv => OwnedExactly
  BY DEF OwnInv
<1> QED BY <1>1, OwnInitInv, OwnStep, PTL DEF OwnSpec

(* A database is closed once: no two open connections, nor a connection and *)
(* the connector, both own it, and none is used whose open failed.         *)
THEOREM EveryDatabaseHasOneOwner == OwnSpec => [](OneOwner /\ SoundEngines)
<1>1. OwnInv => OneOwner /\ SoundEngines
  BY DEF OwnInv
<1> QED BY <1>1, OwnInitInv, OwnStep, PTL DEF OwnSpec

-----------------------------------------------------------------------------
(* The rows of a result, chunk after chunk.                                *)
JoinedChunks(r) == CHOOSE f : Flattened(r.chunks, f)
FirstRows(r, k) == IF k = 0 THEN <<>> ELSE JoinedChunks(r)[k]
RowsIn(r, k) == Len(FirstRows(r, k))

LEMMA ChunksOfResult ==
  ASSUME NEW r \in Results
  PROVE  /\ Len(r.chunks) \in Nat
         /\ \A k \in 1 .. Len(r.chunks) : r.chunks[k] \in Seq(Values) /\ Len(r.chunks[k]) \in Nat
<1>1. r.chunks \in Seq(Seq(Values))
  BY ResultSetAssumption
<1> QED BY <1>1

LEMMA FirstRowsStep ==
  ASSUME NEW r \in Results
  PROVE  /\ FirstRows(r, 0) = <<>>
         /\ \A k \in 1 .. Len(r.chunks) : FirstRows(r, k) = FirstRows(r, k - 1) \o r.chunks[k]
         /\ FlattenSeq(r.chunks) = FirstRows(r, Len(r.chunks))
<1> PICK s : s = r.chunks
  OBVIOUS
<1>0. /\ Len(s) \in Nat /\ \A k \in 1 .. Len(s) : s[k] \in Seq(Values)
      /\ s \in Seq(Seq(Values))
  BY ChunksOfResult, ResultSetAssumption
<1>1. FirstRows(r, 0) = <<>>
  BY DEF FirstRows
<1>2. CASE Len(s) = 0
  <2>1. s = <<>>
    BY <1>0, <1>2, EmptySeq
  <2>2. FlattenSeq(s) = <<>>
    BY <1>2, <2>1 DEF FlattenSeq
  <2> QED BY <1>1, <1>2, <2>2
<1>3. CASE Len(s) # 0
  <2>1. \E f : Flattened(s, f)
    BY <1>0, <1>3, FlattenSteps
  <2>2. Flattened(s, JoinedChunks(r))
    BY <2>1 DEF JoinedChunks
  <2> PICK f : f = JoinedChunks(r)
    OBVIOUS
  <2>3. f[1] = s[1] /\ (\A i \in 2 .. Len(s) : f[i] = f[i - 1] \o s[i]) /\ FlattenSeq(s) = f[Len(s)]
    BY <2>2 DEF Flattened
  <2>4. \A k : k # 0 => FirstRows(r, k) = f[k]
    BY DEF FirstRows
  <2>5. ASSUME NEW k \in 1 .. Len(s) PROVE FirstRows(r, k) = FirstRows(r, k - 1) \o s[k]
    <3>1. CASE k = 1
      <4>1. s[1] \in Seq(Values) /\ 1 \in 1 .. Len(s)
        BY <1>0, <1>3
      <4>2. <<>> \o s[1] = s[1]
        BY <4>1
      <4>3. FirstRows(r, 1) = s[1] /\ k - 1 = 0
        BY <2>3, <2>4, <3>1
      <4> QED BY <1>1, <3>1, <4>2, <4>3
    <3>2. CASE k # 1
      <4>1. k \in 2 .. Len(s) /\ k # 0 /\ k - 1 # 0
        BY <1>0, <3>2
      <4> QED BY <2>3, <2>4, <4>1
    <3> QED BY <3>1, <3>2
  <2>6. FlattenSeq(s) = FirstRows(r, Len(s))
    BY <2>3, <2>4, <1>3
  <2> QED BY <1>1, <2>5, <2>6
<1> QED BY <1>2, <1>3

LEMMA FirstRowsSeq ==
  ASSUME NEW r \in Results
  PROVE  \A k \in 0 .. Len(r.chunks) : FirstRows(r, k) \in Seq(Values)
<1> PICK n : n = Len(r.chunks)
  OBVIOUS
<1>0. n \in Nat /\ \A k \in 1 .. n : r.chunks[k] \in Seq(Values)
  BY ChunksOfResult
<1> PICK S : S = {k \in 0 .. n : FirstRows(r, k) \in Seq(Values)}
  OBVIOUS
<1>1. 0 \in S
  <2>1. FirstRows(r, 0) \in Seq(Values)
    <3>1. FirstRows(r, 0) = <<>>
      BY FirstRowsStep
    <3>2. <<>> \in Seq(Values)
      OBVIOUS
    <3> QED BY <3>1, <3>2
  <2> QED BY <1>0, <2>1
<1>2. ASSUME NEW k \in 0 .. n - 1, k \in S PROVE k + 1 \in S
  <2>1. k + 1 \in 1 .. n /\ (k + 1) - 1 = k /\ k + 1 \in 0 .. n
    BY <1>0
  <2>2. FirstRows(r, k + 1) = FirstRows(r, k) \o r.chunks[k + 1]
    BY <2>1, FirstRowsStep
  <2>3. FirstRows(r, k + 1) \in Seq(Values)
    <3>1. FirstRows(r, k) \in Seq(Values)
      BY <1>2
    <3>2. r.chunks[k + 1] \in Seq(Values)
      BY <1>0, <2>1
    <3> QED BY <2>2, <3>1, <3>2, ConcatProperties
  <2> QED BY <2>1, <2>3
<1>3. \A k \in 0 .. n : k \in S
  BY <1>0, <1>1, <1>2, UpToInduction
<1> QED BY <1>3

(* A chunk's rows follow those of the chunks before it.                    *)
LEMMA RowsInStep ==
  ASSUME NEW r \in Results
  PROVE  /\ RowsIn(r, 0) = 0
         /\ \A k \in 0 .. Len(r.chunks) : RowsIn(r, k) \in Nat
         /\ \A k \in 1 .. Len(r.chunks) : RowsIn(r, k) = RowsIn(r, k - 1) + Len(r.chunks[k])
         /\ RowsIn(r, Len(r.chunks)) = Len(FlattenSeq(r.chunks))
<1>1. \A k \in 0 .. Len(r.chunks) : FirstRows(r, k) \in Seq(Values)
  BY FirstRowsSeq
<1>2. \A k \in 0 .. Len(r.chunks) : RowsIn(r, k) \in Nat
  BY <1>1 DEF RowsIn
<1>3. ASSUME NEW k \in 1 .. Len(r.chunks) PROVE RowsIn(r, k) = RowsIn(r, k - 1) + Len(r.chunks[k])
  <2>1. FirstRows(r, k) = FirstRows(r, k - 1) \o r.chunks[k] /\ r.chunks[k] \in Seq(Values)
    BY ChunksOfResult, FirstRowsStep
  <2>2. k - 1 \in 0 .. Len(r.chunks)
    BY ChunksOfResult
  <2>3. FirstRows(r, k - 1) \in Seq(Values)
    BY <1>1, <2>2
  <2> QED BY <2>1, <2>3 DEF RowsIn
<1>4. RowsIn(r, 0) = 0 /\ RowsIn(r, Len(r.chunks)) = Len(FlattenSeq(r.chunks))
  <2>1. FirstRows(r, 0) = <<>> /\ Len(<<>>) = 0 /\ FlattenSeq(r.chunks) = FirstRows(r, Len(r.chunks))
    BY FirstRowsStep
  <2> QED BY <2>1 DEF RowsIn
<1> QED BY <1>2, <1>3, <1>4

(* More chunks leave the rows of the first ones where they are.            *)
LEMMA RowsStay ==
  ASSUME NEW r \in Results, NEW k \in 0 .. Len(r.chunks), NEW i \in 1 .. RowsIn(r, k)
  PROVE  i \in 1 .. Len(FlattenSeq(r.chunks)) /\ FlattenSeq(r.chunks)[i] = FirstRows(r, k)[i]
<1> PICK n : n = Len(r.chunks) - k
  OBVIOUS
<1> DEFINE Stays(m) == i <= RowsIn(r, k + m) /\ FirstRows(r, k + m)[i] = FirstRows(r, k)[i]
<1> PICK S : S = {m \in 0 .. n : Stays(m)}
  OBVIOUS
<1>0. Len(r.chunks) \in Nat /\ k \in Nat /\ n \in Nat /\ k + n = Len(r.chunks) /\ RowsIn(r, k) \in Nat
  BY ChunksOfResult, RowsInStep
<1>1. 0 \in S
  BY <1>0
<1>2. ASSUME NEW m \in 0 .. n - 1, m \in S PROVE m + 1 \in S
  <2> PICK j : j = k + m + 1
    OBVIOUS
  <2>1. j \in 1 .. Len(r.chunks) /\ j - 1 = k + m /\ j - 1 \in 0 .. Len(r.chunks) /\ k + (m + 1) = j /\ m + 1 \in 0 .. n
    BY <1>0
  <2>2. /\ FirstRows(r, j) = FirstRows(r, j - 1) \o r.chunks[j]
        /\ r.chunks[j] \in Seq(Values) /\ FirstRows(r, j - 1) \in Seq(Values)
    BY <2>1, ChunksOfResult, FirstRowsStep, FirstRowsSeq
  <2>3. /\ RowsIn(r, j) = RowsIn(r, j - 1) + Len(r.chunks[j]) /\ RowsIn(r, j - 1) \in Nat
        /\ Len(r.chunks[j]) \in Nat
    BY <2>1, RowsInStep, ChunksOfResult
  <2>4. i <= RowsIn(r, j - 1) /\ FirstRows(r, j - 1)[i] = FirstRows(r, k)[i]
    BY <1>2, <2>1
  <2>5. i \in 1 .. Len(FirstRows(r, j - 1))
    BY <2>3, <2>4, <1>0 DEF RowsIn
  <2>6. FirstRows(r, j)[i] = FirstRows(r, j - 1)[i]
    BY <2>2, <2>5
  <2>7. i <= RowsIn(r, j)
    BY <1>0, <2>3, <2>4
  <2>8. Stays(m + 1)
    BY <2>1, <2>4, <2>6, <2>7
  <2> QED BY <2>1, <2>8
<1>3. \A m \in 0 .. n : m \in S
  BY <1>0, <1>1, <1>2, UpToInduction
<1>4. n \in S
  BY <1>0, <1>3
<1>5. Stays(n)
  BY <1>4
<1>6. RowsIn(r, k + n) = Len(FlattenSeq(r.chunks)) /\ FirstRows(r, k + n) = FlattenSeq(r.chunks)
  BY <1>0, RowsInStep, FirstRowsStep
<1>7. Len(FlattenSeq(r.chunks)) \in Nat
  BY <1>0, <1>6, RowsInStep
<1> QED BY <1>0, <1>5, <1>6, <1>7

LEMMA SecondOfTwo ==
  ASSUME NEW S, NEW s \in Seq(S), NEW t \in Seq(S), NEW j \in 1 .. Len(t)
  PROVE  (s \o t)[Len(s) + j] = t[j]
OBVIOUS

(* Where row j of chunk k is among all rows.                               *)
LEMMA RowOfChunk ==
  ASSUME NEW r \in Results, NEW k \in 1 .. Len(r.chunks), NEW j \in 1 .. Len(r.chunks[k])
  PROVE  /\ RowsIn(r, k - 1) + j \in 1 .. Len(FlattenSeq(r.chunks))
         /\ FlattenSeq(r.chunks)[RowsIn(r, k - 1) + j] = r.chunks[k][j]
<1> PICK i : i = RowsIn(r, k - 1) + j
  OBVIOUS
<1>1. /\ k \in 0 .. Len(r.chunks) /\ k - 1 \in 0 .. Len(r.chunks)
      /\ r.chunks[k] \in Seq(Values) /\ Len(r.chunks[k]) \in Nat
  <2>1. /\ Len(r.chunks) \in Nat
        /\ \A x \in 1 .. Len(r.chunks) : r.chunks[x] \in Seq(Values) /\ Len(r.chunks[x]) \in Nat
    BY ChunksOfResult
  <2>2. k \in 0 .. Len(r.chunks) /\ k - 1 \in 0 .. Len(r.chunks)
    BY <2>1
  <2> QED BY <2>1, <2>2
<1>2. RowsIn(r, k) = RowsIn(r, k - 1) + Len(r.chunks[k]) /\ RowsIn(r, k - 1) \in Nat
  BY <1>1, RowsInStep
<1>3. i \in 1 .. RowsIn(r, k)
  BY <1>1, <1>2
<1>4. i \in 1 .. Len(FlattenSeq(r.chunks)) /\ FlattenSeq(r.chunks)[i] = FirstRows(r, k)[i]
  BY <1>1, <1>3, RowsStay
<1>5. FirstRows(r, k) = FirstRows(r, k - 1) \o r.chunks[k] /\ FirstRows(r, k - 1) \in Seq(Values)
  BY <1>1, FirstRowsStep, FirstRowsSeq
<1>6. i = Len(FirstRows(r, k - 1)) + j
  BY DEF RowsIn
<1>7. FirstRows(r, k)[i] = r.chunks[k][j]
  <2> PICK s : s = FirstRows(r, k - 1)
    OBVIOUS
  <2> PICK t : t = r.chunks[k]
    OBVIOUS
  <2>1. s \in Seq(Values) /\ t \in Seq(Values) /\ j \in 1 .. Len(t) /\ i = Len(s) + j /\ FirstRows(r, k) = s \o t
    BY <1>1, <1>5, <1>6
  <2>2. (s \o t)[Len(s) + j] = t[j]
    BY <2>1, SecondOfTwo
  <2> QED BY <2>1, <2>2
<1> QED BY <1>4, <1>7

(* Chunks without a row do not move the place.                             *)
LEMMA EmptyChunks ==
  ASSUME NEW r \in Results, NEW a \in 0 .. Len(r.chunks), NEW b \in a .. Len(r.chunks),
         \A j \in a + 1 .. b : Len(r.chunks[j]) = 0
  PROVE  RowsIn(r, b) = RowsIn(r, a)
<1> PICK n : n = b - a
  OBVIOUS
<1> PICK S : S = {m \in 0 .. n : RowsIn(r, a + m) = RowsIn(r, a)}
  OBVIOUS
<1>0. Len(r.chunks) \in Nat /\ a \in Nat /\ n \in Nat /\ a + n = b
  BY ChunksOfResult
<1>1. 0 \in S
  BY <1>0
<1>2. ASSUME NEW m \in 0 .. n - 1, m \in S PROVE m + 1 \in S
  <2> PICK j : j = a + m + 1
    OBVIOUS
  <2>1. j \in 1 .. Len(r.chunks) /\ j - 1 = a + m /\ a + (m + 1) = j /\ m + 1 \in 0 .. n /\ j \in a + 1 .. b
        /\ j - 1 \in 0 .. Len(r.chunks)
    BY <1>0
  <2>2. RowsIn(r, j) = RowsIn(r, j - 1) + Len(r.chunks[j]) /\ RowsIn(r, j - 1) \in Nat /\ Len(r.chunks[j]) = 0
    BY <2>1, RowsInStep
  <2>3. RowsIn(r, j) = RowsIn(r, a)
    BY <1>2, <2>1, <2>2
  <2> QED BY <2>1, <2>3
<1>3. \A m \in 0 .. n : m \in S
  BY <1>0, <1>1, <1>2, UpToInduction
<1>4. n \in S
  <2>1. n \in 0 .. n
    BY <1>0
  <2> QED BY <1>3, <2>1
<1> QED BY <1>0, <1>4

LEMMA LeastOne ==
  ASSUME NEW S \in SUBSET Nat, S # {}
  PROVE  \E k \in S : \A j \in S : k <= j
<1>1. IsWellFoundedOn(OpToRel(<, Nat), Nat)
  BY NatLessThanWellFounded
<1>2. PICK x \in S : \A y \in S : ~(<<y, x>> \in OpToRel(<, Nat))
  BY <1>1, WFMin
<1>3. \A y \in S : ~(y < x)
  BY <1>2 DEF OpToRel
<1> QED BY <1>3

-----------------------------------------------------------------------------
(* The rows delivered, and where the driver stands among them.             *)
RowFrom(r, rows, i) ==
    \E k \in 1 .. Len(r.chunks) : \E j \in 1 .. Len(r.chunks[k]) :
        /\ i = RowsIn(r, k - 1) + j
        /\ \A c \in Cols : rows[i][c] = CellRead(r, k, j - 1)
CellsRead(r) == {CellRead(r, k, row) : k \in 1 .. Len(r.chunks), row \in Nat}
Delivered(r, rows) ==
    /\ rows \in Seq([Cols -> CellsRead(r)])
    /\ \A i \in 1 .. Len(rows) : RowFrom(r, rows, i)

(* Before the first chunk, or at a row of the last one handed out, which   *)
(* alone is alive and which alone a decoder was made for.                  *)
Standing ==
    /\ fetched \in 0 .. Len(result.chunks)
    /\ decs \in [Cols -> {NoDec, chunk}]
    /\ \/ chunk = 0 /\ fetched = 0 /\ Len(got) = 0 /\ live = {}
       \/ /\ chunk = fetched /\ chunk # 0 /\ live = {chunk}
          /\ cursor \in 1 .. Len(result.chunks[chunk])
          /\ Len(got) = RowsIn(result, chunk - 1) + cursor

RowsInv ==
    /\ result \in Results
    /\ Delivered(result, got)
    /\ rowsState \in {"open", "eof", "failed", "closed"} /\ poisoned \in BOOLEAN
    /\ rowsState = "open" => Standing
    /\ rowsState = "eof" => Len(got) = Len(Produced)
    /\ rowsState \in {"eof", "closed"} /\ ~poisoned => live = {}

(* All the rows of the chunks handed out are delivered when the one held   *)
(* is through.                                                             *)
LEMMA ThroughTheChunk ==
  ASSUME RowsInv, rowsState = "open", ~(chunk # 0 /\ cursor < ChunkLen(chunk))
  PROVE  Len(got) = RowsIn(result, fetched) /\ fetched \in 0 .. Len(result.chunks)
<1>1. result \in Results /\ Standing
  BY DEF RowsInv
<1>2. CASE chunk = 0
  <2>1. fetched = 0 /\ Len(got) = 0
    BY <1>1, <1>2 DEF Standing
  <2> QED BY <1>1, <2>1, RowsInStep DEF Standing
<1>3. CASE chunk # 0
  <2>1. /\ chunk = fetched /\ cursor \in 1 .. Len(result.chunks[chunk])
        /\ Len(got) = RowsIn(result, chunk - 1) + cursor /\ fetched \in 0 .. Len(result.chunks)
    BY <1>1, <1>3 DEF Standing
  <2>2. Len(result.chunks) \in Nat
    BY <1>1, ChunksOfResult
  <2>3. chunk \in 1 .. Len(result.chunks)
    BY <1>3, <2>1, <2>2
  <2>4. Len(result.chunks[chunk]) \in Nat
    BY <1>1, <2>3, ChunksOfResult
  <2>5. cursor = Len(result.chunks[chunk])
    BY <1>3, <2>1, <2>4 DEF ChunkLen
  <2>6. RowsIn(result, chunk) = RowsIn(result, chunk - 1) + Len(result.chunks[chunk])
    BY <1>1, <2>3, RowsInStep
  <2> QED BY <2>1, <2>5, <2>6
<1> QED BY <1>2, <1>3

RowRead(r, k, j) == [c \in Cols |-> CellRead(r, k, j - 1)]
Follows(r, rows, k, j) == Len(rows) + 1 = RowsIn(r, k - 1) + j

(* One row more: of the place that follows.                                *)
LEMMA OneRowMore ==
  ASSUME NEW r \in Results, NEW rows, Delivered(r, rows),
         NEW k \in 1 .. Len(r.chunks), NEW j \in 1 .. Len(r.chunks[k]),
         Follows(r, rows, k, j)
  PROVE  /\ Delivered(r, Append(rows, RowRead(r, k, j)))
         /\ Len(Append(rows, RowRead(r, k, j))) = RowsIn(r, k - 1) + j
<1> PICK more : more = Append(rows, RowRead(r, k, j))
  OBVIOUS
<1> PICK row : row = RowRead(r, k, j)
  OBVIOUS
<1> PICK D : D = [Cols -> CellsRead(r)]
  OBVIOUS
<1>1. rows \in Seq(D) /\ \A i \in 1 .. Len(rows) : RowFrom(r, rows, i)
  BY DEF Delivered
<1>2. row \in D
  <2>1. j - 1 \in Nat
    BY ChunksOfResult
  <2>2. CellRead(r, k, j - 1) \in CellsRead(r)
    BY <2>1 DEF CellsRead
  <2> QED BY <2>2 DEF RowRead
<1>3. /\ more \in Seq(D) /\ Len(more) = Len(rows) + 1 /\ Len(rows) \in Nat
      /\ more[Len(rows) + 1] = row /\ \A i \in 1 .. Len(rows) : more[i] = rows[i]
  BY <1>1, <1>2
<1>4. ASSUME NEW i \in 1 .. Len(more) PROVE RowFrom(r, more, i)
  <2>1. CASE i = Len(rows) + 1
    <3>1. i = RowsIn(r, k - 1) + j /\ \A c \in Cols : more[i][c] = CellRead(r, k, j - 1)
      BY <1>3, <2>1 DEF RowRead, Follows
    <3> QED BY <3>1 DEF RowFrom
  <2>2. CASE i # Len(rows) + 1
    <3>1. i \in 1 .. Len(rows)
      BY <1>3, <2>2
    <3>2. RowFrom(r, rows, i) /\ more[i] = rows[i]
      BY <1>1, <1>3, <3>1
    <3> QED BY <3>2 DEF RowFrom
  <2> QED BY <2>1, <2>2
<1>5. Delivered(r, more) /\ Len(more) = RowsIn(r, k - 1) + j
  BY <1>3, <1>4 DEF Delivered, Follows
<1> QED BY <1>5

(* rows.Next with a row in the chunk held, or in a later one.              *)
LEMMA RowStep ==
  ASSUME RowsInv, rowsState = "open", NEW k \in 1 .. Len(result.chunks), NEW at \in 0 .. Len(result.chunks[k]) - 1,
         Len(got) = RowsIn(result, k - 1) + at,
         NEW ds, \A c \in Cols : DecoderOf(c, ds, k) = k,
         chunk' = k, fetched' = k, live' = {k}, cursor' = at + 1,
         decs' = [c \in Cols |-> DecoderOf(c, ds, k)],
         got' = Append(got, [c \in Cols |-> CellOf(c, ds, k, at)]),
         UNCHANGED <<rowsState, result, poisoned>>
  PROVE  RowsInv'
<1> PICK j : j = at + 1
  OBVIOUS
<1>0. /\ result \in Results /\ Delivered(result, got)
      /\ rowsState \in {"open", "eof", "failed", "closed"} /\ poisoned \in BOOLEAN
  BY DEF RowsInv
<1>1. /\ Len(result.chunks) \in Nat /\ Len(result.chunks[k]) \in Nat
  BY <1>0, ChunksOfResult
<1>2. j \in 1 .. Len(result.chunks[k]) /\ j - 1 = at
  BY <1>1
<1>3. RowsIn(result, k - 1) \in Nat
  <2>1. k - 1 \in 0 .. Len(result.chunks)
    BY <1>1
  <2> QED BY <1>0, <2>1, RowsInStep
<1>4. Len(got) + 1 = RowsIn(result, k - 1) + j
  BY <1>1, <1>3
<1>5. got' = Append(got, RowRead(result, k, j))
  <2>1. \A c \in Cols : CellOf(c, ds, k, at) = CellRead(result, k, j - 1)
    BY <1>2 DEF CellOf
  <2> QED BY <2>1 DEF RowRead
<1> PICK rows : rows = got
  OBVIOUS
<1>6. Delivered(result, got') /\ Len(got') = RowsIn(result, k - 1) + j
  <2>1. Delivered(result, rows) /\ Follows(result, rows, k, j) /\ result \in Results
    BY <1>0, <1>4 DEF Follows
  <2>2. /\ Delivered(result, Append(rows, RowRead(result, k, j)))
        /\ Len(Append(rows, RowRead(result, k, j))) = RowsIn(result, k - 1) + j
    BY <1>2, <2>1, OneRowMore
  <2> QED BY <1>5, <2>2
<1>7. Standing'
  <2>1. decs' \in [Cols -> {NoDec, chunk'}]
    <3>1. \A c \in Cols : DecoderOf(c, ds, k) \in {NoDec, k}
      OBVIOUS
    <3> QED BY <3>1
  <2>2. chunk' = fetched' /\ chunk' # 0 /\ live' = {chunk'} /\ fetched' \in 0 .. Len(result'.chunks)
    BY <1>1
  <2>3. cursor' \in 1 .. Len(result'.chunks[chunk']) /\ Len(got') = RowsIn(result', chunk' - 1) + cursor'
    BY <1>2, <1>6
  <2> QED BY <2>1, <2>2, <2>3 DEF Standing
<1>8. Delivered(result', got') /\ result' \in Results
  BY <1>0, <1>6
<1>9. rowsState' = "open"
  OBVIOUS
<1> QED BY <1>0, <1>7, <1>8, <1>9 DEF RowsInv

LEMMA NextRowStep ==
  ASSUME RowsInv, NextRow
  PROVE  RowsInv'
<1> DEFINE stays == chunk # 0 /\ cursor < ChunkLen(chunk)
           full  == {k \in fetched + 1 .. Len(result.chunks) : ChunkLen(k) > 0}
<1>0. /\ result \in Results /\ Standing /\ rowsState = "open" /\ ~poisoned /\ Delivered(result, got)
      /\ UNCHANGED <<result, poisoned>> /\ poisoned \in BOOLEAN
  BY DEF RowsInv, NextRow
<1>1. Len(result.chunks) \in Nat /\ fetched \in 0 .. Len(result.chunks)
  BY <1>0, ChunksOfResult DEF Standing
<1>2. CASE stays
  <2>1. /\ chunk = fetched /\ cursor \in 1 .. Len(result.chunks[chunk]) /\ live = {chunk}
        /\ Len(got) = RowsIn(result, chunk - 1) + cursor /\ decs \in [Cols -> {NoDec, chunk}]
    BY <1>0, <1>2 DEF Standing
  <2>2. chunk \in 1 .. Len(result.chunks)
    BY <1>1, <1>2, <2>1
  <2>3. Len(result.chunks[chunk]) \in Nat
    BY <1>0, <2>2, ChunksOfResult
  <2>4. cursor \in 0 .. Len(result.chunks[chunk]) - 1
    BY <1>2, <2>1, <2>3 DEF ChunkLen
  <2>5. \A c \in Cols : DecoderOf(c, decs, chunk) = chunk
    BY <2>1 DEF DecoderOf
  <2>6. /\ chunk' = chunk /\ fetched' = chunk /\ live' = {chunk} /\ cursor' = cursor + 1
        /\ decs' = [c \in Cols |-> DecoderOf(c, decs, chunk)]
        /\ got' = Append(got, [c \in Cols |-> CellOf(c, decs, chunk, cursor)])
        /\ UNCHANGED rowsState
    BY <1>2, <2>1 DEF NextRow, KeptDecs
  <2> PICK k : k = chunk
    OBVIOUS
  <2> PICK at : at = cursor
    OBVIOUS
  <2> PICK ds : ds = decs
    OBVIOUS
  <2>7. /\ k \in 1 .. Len(result.chunks) /\ at \in 0 .. Len(result.chunks[k]) - 1
        /\ Len(got) = RowsIn(result, k - 1) + at /\ (\A c \in Cols : DecoderOf(c, ds, k) = k)
        /\ chunk' = k /\ fetched' = k /\ live' = {k} /\ cursor' = at + 1
        /\ decs' = [c \in Cols |-> DecoderOf(c, ds, k)]
        /\ got' = Append(got, [c \in Cols |-> CellOf(c, ds, k, at)])
        /\ UNCHANGED <<rowsState, result, poisoned>>
    BY <1>0, <2>1, <2>2, <2>4, <2>5, <2>6
  <2> QED BY <1>0, <2>7, RowStep
<1>3. CASE ~stays
  <2>0. Len(got) = RowsIn(result, fetched)
    BY <1>0, <1>3, ThroughTheChunk
  <2>1. CASE full # {}
    <3> PICK k : k = Min(full)
      OBVIOUS
    <3> PICK at : at = 0
      OBVIOUS
    <3> PICK ds : ds = [c \in Cols |-> NoDec]
      OBVIOUS
    <3>1. full \in SUBSET Nat
      BY <1>1
    <3>2. \E x \in full : \A j \in full : x <= j
      <4> HIDE DEF full
      <4> QED BY <2>1, <3>1, LeastOne
    <3>3. k \in full /\ \A j \in full : k <= j
      <4> HIDE DEF full
      <4> QED BY <3>2 DEF Min
    <3>4. /\ chunk' = k /\ fetched' = k /\ live' = {k} /\ cursor' = at + 1
          /\ decs' = [c \in Cols |-> DecoderOf(c, ds, k)]
          /\ got' = Append(got, [c \in Cols |-> CellOf(c, ds, k, at)])
          /\ UNCHANGED rowsState
      BY <1>3, <2>1 DEF NextRow, KeptDecs
    <3>5. k \in fetched + 1 .. Len(result.chunks) /\ Len(result.chunks[k]) > 0
      BY <3>3 DEF ChunkLen
    <3>6. k \in 1 .. Len(result.chunks) /\ k - 1 \in fetched .. Len(result.chunks)
      BY <1>1, <3>5
    <3>7. Len(result.chunks[k]) \in Nat
      BY <1>0, <3>6, ChunksOfResult
    <3>8. \A j \in fetched + 1 .. k - 1 : Len(result.chunks[j]) = 0
      <4> SUFFICES ASSUME NEW j \in fetched + 1 .. k - 1 PROVE Len(result.chunks[j]) = 0
        OBVIOUS
      <4>1. j \in 1 .. Len(result.chunks) /\ j \in fetched + 1 .. Len(result.chunks) /\ ~(k <= j)
        BY <1>1, <3>6
      <4>2. j \notin full /\ Len(result.chunks[j]) \in Nat
        BY <1>0, <3>3, <4>1, ChunksOfResult
      <4> QED BY <4>1, <4>2 DEF ChunkLen
    <3>9. RowsIn(result, k - 1) = RowsIn(result, fetched)
      BY <1>0, <1>1, <3>6, <3>8, EmptyChunks
    <3>10. Len(got) = RowsIn(result, k - 1) + at
      <4>1. RowsIn(result, fetched) \in Nat
        BY <1>0, <1>1, RowsInStep
      <4> QED BY <2>0, <3>9, <4>1
    <3>11. at \in 0 .. Len(result.chunks[k]) - 1
      BY <3>5, <3>7
    <3>12. \A c \in Cols : DecoderOf(c, ds, k) = k
      BY DEF DecoderOf
    <3>13. UNCHANGED <<rowsState, result, poisoned>>
      BY <1>0, <3>4
    <3> HIDE DEF full
    <3> QED BY <1>0, <3>4, <3>6, <3>10, <3>11, <3>12, <3>13, RowStep
  <2>2. CASE full = {}
    <3>1. fetched' = Len(result.chunks) /\ live' = {} /\ rowsState' = "eof" /\ UNCHANGED got
      BY <1>3, <2>2 DEF NextRow
    <3>2. \A j \in fetched + 1 .. Len(result.chunks) : Len(result.chunks[j]) = 0
      <4> SUFFICES ASSUME NEW j \in fetched + 1 .. Len(result.chunks) PROVE Len(result.chunks[j]) = 0
        OBVIOUS
      <4>1. j \in 1 .. Len(result.chunks)
        BY <1>1
      <4>2. j \notin full /\ Len(result.chunks[j]) \in Nat
        BY <1>0, <2>2, <4>1, ChunksOfResult
      <4> QED BY <4>1, <4>2 DEF ChunkLen
    <3>3. Len(result.chunks) \in fetched .. Len(result.chunks)
      BY <1>1
    <3>4. RowsIn(result, Len(result.chunks)) = RowsIn(result, fetched)
      BY <1>0, <1>1, <3>2, <3>3, EmptyChunks
    <3>5. Len(got) = Len(Produced)
      BY <1>0, <2>0, <3>4, RowsInStep DEF Produced
    <3>6. Len(got') = Len(Produced') /\ Delivered(result', got')
      BY <1>0, <3>1, <3>5 DEF Produced
    <3> QED BY <1>0, <3>1, <3>6 DEF RowsInv
  <2> QED BY <2>1, <2>2
<1> QED BY <1>2, <1>3

LEMMA RowsInitInv == RowsInit => RowsInv
<1> SUFFICES ASSUME RowsInit PROVE RowsInv
  OBVIOUS
<1>1. /\ result \in Results /\ fetched = 0 /\ chunk = 0 /\ decs = [c \in Cols |-> NoDec] /\ live = {} /\ got = <<>>
      /\ rowsState = "open" /\ poisoned = FALSE
  BY DEF RowsInit
<1>2. Len(got) = 0 /\ got \in Seq([Cols -> CellsRead(result)])
  BY <1>1
<1>3. Delivered(result, got)
  BY <1>2 DEF Delivered
<1>4. Len(result.chunks) \in Nat
  BY <1>1, ChunksOfResult
<1>5. Standing
  BY <1>1, <1>2, <1>4 DEF Standing
<1> QED BY <1>1, <1>3, <1>5 DEF RowsInv

LEMMA RowsStep == RowsInv /\ [RowsNext]_rowsvars => RowsInv'
<1> SUFFICES ASSUME RowsInv, [RowsNext]_rowsvars PROVE RowsInv'
  OBVIOUS
<1>0. /\ result \in Results /\ Delivered(result, got)
      /\ rowsState \in {"open", "eof", "failed", "closed"} /\ poisoned \in BOOLEAN
  BY DEF RowsInv
<1>1. CASE NextRow
  BY <1>1, NextRowStep
<1>2. CASE NextPoisoned
  <2>1. rowsState' = "failed" /\ UNCHANGED <<result, poisoned, got>>
    BY <1>2 DEF NextPoisoned
  <2> QED BY <1>0, <2>1 DEF RowsInv
<1>3. CASE NextPanics
  <2>1. rowsState' = "closed" /\ poisoned' = TRUE /\ UNCHANGED <<result, got>>
    BY <1>3 DEF NextPanics
  <2> QED BY <1>0, <2>1 DEF RowsInv
<1>4. CASE CloseRows
  <2>1. rowsState' = "closed" /\ UNCHANGED <<result, got, poisoned>> /\ (~poisoned => live' = {})
    BY <1>4 DEF CloseRows
  <2> QED BY <1>0, <2>1 DEF RowsInv
<1>5. CASE SiblingPoisons
  <2>1. rowsState # "closed" /\ poisoned' = TRUE
        /\ UNCHANGED <<result, fetched, chunk, cursor, decs, live, rowsState, got>>
    BY <1>5 DEF SiblingPoisons
  <2>2. rowsState = "open" => Standing'
    BY <2>1 DEF RowsInv, Standing
  <2>3. rowsState = "eof" => Len(got') = Len(Produced')
    BY <2>1 DEF RowsInv, Produced
  <2> QED BY <1>0, <2>1, <2>2, <2>3 DEF RowsInv
<1>6. CASE UNCHANGED rowsvars
  <2>1. UNCHANGED <<result, fetched, chunk, cursor, decs, live, rowsState, poisoned, got>>
    BY <1>6 DEF rowsvars
  <2>2. rowsState = "open" => Standing'
    BY <2>1 DEF RowsInv, Standing
  <2>3. rowsState = "eof" => Len(got') = Len(Produced')
    BY <2>1 DEF RowsInv, Produced
  <2>4. rowsState' \in {"eof", "closed"} /\ ~poisoned' => live' = {}
    BY <2>1 DEF RowsInv
  <2> QED BY <1>0, <2>1, <2>2, <2>3, <2>4 DEF RowsInv
<1> QED BY <1>1, <1>2, <1>3, <1>4, <1>5, <1>6 DEF RowsNext

LEMMA DeliveredIsProduced ==
  ASSUME NEW r \in Results, NEW rows, Delivered(r, rows)
  PROVE  Len(rows) <= Len(FlattenSeq(r.chunks))
<1>1. Len(rows) \in Nat /\ Len(FlattenSeq(r.chunks)) \in Nat
  <2>1. Len(r.chunks) \in Nat
    BY ChunksOfResult
  <2>2. Len(r.chunks) \in 0 .. Len(r.chunks)
    BY <2>1
  <2>3. RowsIn(r, Len(r.chunks)) \in Nat /\ RowsIn(r, Len(r.chunks)) = Len(FlattenSeq(r.chunks))
    BY <2>2, RowsInStep
  <2>4. Len(rows) \in Nat
    BY DEF Delivered
  <2> QED BY <2>3, <2>4
<1>2. CASE Len(rows) = 0
  BY <1>1, <1>2
<1>3. CASE Len(rows) # 0
  <2>1. Len(rows) \in 1 .. Len(rows)
    BY <1>1, <1>3
  <2>2. RowFrom(r, rows, Len(rows))
    BY <2>1 DEF Delivered
  <2>3. PICK k \in 1 .. Len(r.chunks) : \E j \in 1 .. Len(r.chunks[k]) : Len(rows) = RowsIn(r, k - 1) + j
    BY <2>2 DEF RowFrom
  <2> PICK j \in 1 .. Len(r.chunks[k]) : Len(rows) = RowsIn(r, k - 1) + j
    BY <2>3
  <2>4. RowsIn(r, k - 1) + j \in 1 .. Len(FlattenSeq(r.chunks))
    BY RowOfChunk
  <2> QED BY <1>1, <2>4
<1> QED BY <1>2, <1>3

(* rows.Next whatever the decoders read: row i is read from the place of   *)
(* row i in the chunks, by a decoder of that chunk, in every column; the   *)
(* end is told only after all of them, and no chunk of a sound engine      *)
(* outlives the rows.                                                      *)
RowsInPlace ==
    /\ \A i \in DOMAIN got : RowFrom(result, got, i)
    /\ rowsState = "eof" => Len(got) = Len(Produced)
    /\ rowsState \in {"eof", "closed"} /\ ~poisoned => live = {}

(* rows.Next and rows.Close keep RowsInPlace, for any results in any       *)
(* chunks, on an engine that may be poisoned or panic at any time.         *)
THEOREM RowsComeInOrder == RowsSpec => []RowsInPlace
<1>1. RowsInv => RowsInPlace
  <2> SUFFICES ASSUME RowsInv PROVE RowsInPlace
    OBVIOUS
  <2>1. DOMAIN got = 1 .. Len(got)
    BY DEF RowsInv, Delivered
  <2> QED BY <2>1 DEF RowsInv, RowsInPlace, Delivered
<1> QED BY <1>1, RowsInitInv, RowsStep, PTL DEF RowsSpec

(* vecDecoder.cell and rows.Next: if the decoder of a chunk reads every    *)
(* cell right, the user has the engine's rows in order, each with its own  *)
(* cells, however the engine cuts the result into chunks.                  *)
THEOREM RowsAreProduced ==
  ASSUME CellsExact
  PROVE  RowsSpec => []RowsAsProduced
<1>1. RowsInv => RowsAsProduced
  <2> SUFFICES ASSUME RowsInv PROVE RowsAsProduced
    OBVIOUS
  <2>1. DOMAIN got = 1 .. Len(got) /\ result \in Results /\ Delivered(result, got)
    BY DEF RowsInv, Delivered
  <2>2. Len(got) <= Len(Produced)
    <3> PICK r : r = result
      OBVIOUS
    <3> PICK rows : rows = got
      OBVIOUS
    <3>1. r \in Results /\ Delivered(r, rows)
      BY <2>1
    <3>2. Len(rows) <= Len(FlattenSeq(r.chunks))
      BY <3>1, DeliveredIsProduced
    <3> QED BY <3>2 DEF Produced
  <2>3. ASSUME NEW i \in DOMAIN got, NEW c \in Cols
        PROVE  got[i][c] = UserValue(Produced[i])
    <3>1. RowFrom(result, got, i)
      BY <2>1 DEF Delivered
    <3> PICK k \in 1 .. Len(result.chunks) : \E j \in 1 .. Len(result.chunks[k]) :
              i = RowsIn(result, k - 1) + j /\ got[i][c] = CellRead(result, k, j - 1)
      BY <3>1 DEF RowFrom
    <3>2. PICK j \in 1 .. Len(result.chunks[k]) :
              i = RowsIn(result, k - 1) + j /\ got[i][c] = CellRead(result, k, j - 1)
      OBVIOUS
    <3>3. Produced[i] = result.chunks[k][j]
      BY <2>1, <3>2, RowOfChunk DEF Produced
    <3>4. Len(result.chunks[k]) \in Nat
      BY <2>1, ChunksOfResult
    <3>5. j - 1 \in 0 .. Len(result.chunks[k]) - 1 /\ (j - 1) + 1 = j
      BY <3>4
    <3>6. CellRead(result, k, j - 1) = UserValue(result.chunks[k][(j - 1) + 1])
      BY <2>1, <3>5 DEF CellsExact
    <3> QED BY <3>2, <3>3, <3>5, <3>6
  <2> QED BY <2>2, <2>3 DEF RowsInv, RowsAsProduced
<1> QED BY <1>1, RowsInitInv, RowsStep, PTL DEF RowsSpec
=============================================================================
