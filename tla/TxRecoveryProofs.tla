-------------------------- MODULE TxRecoveryProofs --------------------------
(***************************************************************************)
(* What holds of the transaction hint for every set of texts, of any       *)
(* length, as long as the texts used so far are tidy; and of the           *)
(* sqllogictest runner, which is a caller of the driver, for all records.  *)
(***************************************************************************)
EXTENDS SqlRecord, SequenceTheorems, TLAPS

(* The statements on transactions among the first k of the text, and       *)
(* whether an explicit transaction is open after them: the last decides.   *)
Boundaries(k) == {i \in 1 .. k : text.stmts[i].does # "work"}
OpenAfter(k) ==
    IF Boundaries(k) = {} THEN inTx
    ELSE \E i \in Boundaries(k) : /\ text.stmts[i].does = "begin"
                                  /\ \A j \in Boundaries(k) : j <= i

InTransaction == eng \in Explicit

(* Between calls, and in the middle of one.                                *)
IdleSound == pc = "idle" => eng # "dangling" /\ (inTx <=> InTransaction)

(* The engine is where the statements run so far have brought it.  A user's*)
(* transaction that was open before stays so, unless the text is a single  *)
(* statement that ends it.                                                 *)
RunningSound ==
    pc = "running" =>
        /\ Tidy(text)
        /\ eng # "dangling"
        /\ InTransaction <=> OpenAfter(next - 1)
        /\ how # "raw" \/ ~text.parses => next = 1
        /\ inTx /\ text.stmts[1].does = "begin" => next = 1
        /\ inTx /\ (\A i \in DOMAIN text.stmts : ~Ends(text.stmts[i])) => InTransaction

SucceededSound ==
    pc = "succeeded" => /\ Tidy(text) /\ eng # "dangling"
                        /\ InTransaction <=> OpenAfter(Len(text.stmts))

BeginsInText == \E i \in DOMAIN text.stmts : text.stmts[i].does = "begin"

FailedSound ==
    pc = "failed" =>
        /\ textBoundary(text) < 0 => eng = "auto"
        /\ textBoundary(text) >= 0 /\ inTx => InTransaction
        /\ ~inTx /\ InTransaction => BeginsInText

RecoveringSound ==
    pc = "recovering" => ~inTx /\ (InTransaction => BeginsInText)

Sound == IdleSound /\ RunningSound /\ SucceededSound /\ FailedSound /\ RecoveringSound

IInv == TypeOK /\ (~strayed => Sound)

-----------------------------------------------------------------------------
(* What the texts are.                                                     *)
LEMMA SeqTyped ==
  ASSUME NEW S, NEW s \in Seq(S), s # <<>>
  PROVE  Len(s) \in Nat \ {0} /\ DOMAIN s = 1 .. Len(s) /\ \A i \in 1 .. Len(s) : s[i] \in S
BY EmptySeq

LEMMA TextTyped ==
  ASSUME NEW t \in Texts
  PROVE  /\ Len(t.stmts) \in Nat \ {0}
         /\ DOMAIN t.stmts = 1 .. Len(t.stmts)
         /\ \A i \in 1 .. Len(t.stmts) : t.stmts[i] \in Statements
<1>1. t.stmts \in Seq(Statements) /\ t.stmts # <<>>
  BY TextsAssumption
<1> QED BY <1>1, SeqTyped

LEMMA StatementTyped ==
  ASSUME NEW s \in Statements
  PROVE  s.does \in Does /\ s.shows \in Seq(Marks)
BY DEF Statements

(* What the driver sees first in a statement is the statement's keyword if *)
(* it is one at all.                                                       *)
LEMMA FirstMark ==
  ASSUME NEW t \in Texts, NEW i \in 1 .. Len(t.stmts)
  PROVE  /\ <<i, 1>> \in Recognized(t) => t.stmts[i].does # "work"
         /\ txBoundary(Mark(t, <<i, 1>>)) # 0 =>
               /\ Mark(t, <<i, 1>>) = "begin" <=> t.stmts[i].does = "begin"
               /\ txBoundary(Mark(t, <<i, 1>>)) < 0 <=> Ends(t.stmts[i])
<1>1. t.stmts[i] \in Statements /\ i \in DOMAIN t.stmts
  BY TextTyped
<1>2. /\ t.stmts[i].shows # <<>> /\ t.stmts[i].shows \in Seq(Marks)
      /\ t.stmts[i].shows[1] = "begin" => t.stmts[i].does = "begin"
      /\ t.stmts[i].shows[1] = "end" => t.stmts[i].does \in {"commit", "rollback"}
  BY <1>1, TextsAssumption, StatementTyped
<1>3. Len(t.stmts[i].shows) \in Nat \ {0}
  BY <1>2, SeqTyped
<1>4. Mark(t, <<i, 1>>) = t.stmts[i].shows[1]
  BY <1>3 DEF Mark
<1>5. \A m : /\ txBoundary(m) # 0 => m \in {"begin", "end"}
             /\ m = "begin" => txBoundary(m) = 1
             /\ m = "end" => txBoundary(m) = -1
  BY DEF txBoundary
<1>6. <<i, 1>> \in Recognized(t) => txBoundary(Mark(t, <<i, 1>>)) # 0
  BY DEF Recognized
<1> QED BY <1>2, <1>4, <1>5, <1>6 DEF Ends

(* Of two places one is before the other.                                  *)
LEMMA PlacesOrdered ==
  ASSUME NEW t \in Texts, NEW p \in Recognized(t), NEW q \in Recognized(t),
         ~Before(p, q), ~Before(q, p)
  PROVE  p = q
<1>1. ASSUME NEW r \in Recognized(t)
      PROVE  r = <<r[1], r[2]>> /\ r[1] \in Int /\ r[2] \in Int
  <2>1. r \in Places(t)
    BY DEF Recognized, forEachStatement
  <2>2. PICK i \in DOMAIN t.stmts : r \in {i} \X (1 .. Len(t.stmts[i].shows) + 1)
    BY <2>1 DEF Places
  <2>3. i \in Int
    BY TextTyped
  <2>4. Len(t.stmts[i].shows) \in Nat
    BY TextTyped, StatementTyped, LenProperties
  <2>5. PICK k \in 1 .. Len(t.stmts[i].shows) + 1 : r = <<i, k>>
    BY <2>2
  <2> QED BY <2>3, <2>4, <2>5
<1>2. p[1] = q[1] /\ p[2] = q[2]
  BY <1>1 DEF Before
<1> QED BY <1>1, <1>2

LEMMA NoTextApart == NoText \notin Texts
  BY TextsAssumption

(* The engine's outcomes, by statement.                                    *)
LEMMA OutcomeTyped ==
  ASSUME TypeOK, NEW d \in Does, NEW o \in Outcomes(d)
  PROVE  o.ok \in BOOLEAN /\ o.eng \in Transactions
  BY DEF TypeOK, Outcomes, Effects, Transactions, Explicit, Does

LEMMA Succeeds ==
  ASSUME TypeOK, eng # "dangling", NEW d \in Does, NEW o \in Outcomes(d), o.ok
  PROVE  /\ o.eng # "dangling"
         /\ d = "work" => (o.eng \in Explicit <=> eng \in Explicit)
         /\ d = "begin" => o.eng \in Explicit /\ eng \notin Explicit
         /\ d \in {"commit", "rollback"} => o.eng \notin Explicit
  BY DEF TypeOK, Outcomes, Effects, Transactions, Explicit, Does

LEMMA Fails ==
  ASSUME TypeOK, eng # "dangling", NEW d \in Does, NEW o \in Outcomes(d), ~o.ok
  PROVE  /\ d \in {"work", "begin"} => (o.eng \in Explicit <=> eng \in Explicit)
         /\ d \in {"commit", "rollback"} => o.eng = "auto"
  BY DEF TypeOK, Outcomes, Effects, Transactions, Explicit, Does

LEMMA RecoveryClears ==
  ASSUME TypeOK, NEW o \in Outcomes("rollback")
  PROVE  o.eng = "auto"
  BY DEF TypeOK, Outcomes, Effects, Transactions, Explicit, Does

-----------------------------------------------------------------------------
(* The call under way has a text, and the statement it is at is one of it. *)
LEMMA UnderWay ==
  ASSUME TypeOK, pc # "idle"
  PROVE  /\ text \in Texts
         /\ Len(text.stmts) \in Nat \ {0} /\ DOMAIN text.stmts = 1 .. Len(text.stmts)
         /\ \A i \in 1 .. Len(text.stmts) :
               text.stmts[i] \in Statements /\ text.stmts[i].does \in Does
<1>1. text \in Texts
  BY DEF TypeOK
<1> QED BY <1>1, TextTyped, StatementTyped

LEMMA OpenAtStart == OpenAfter(0) <=> inTx
<1>1. Boundaries(0) = {}
  BY DEF Boundaries
<1> QED BY <1>1 DEF OpenAfter

(* One more statement: BEGIN or an end decides, work changes nothing.      *)
LEMMA OpenStep ==
  ASSUME TypeOK, pc # "idle", NEW k \in 1 .. Len(text.stmts)
  PROVE  LET d == text.stmts[k].does
         IN  OpenAfter(k) <=> d = "begin" \/ (d = "work" /\ OpenAfter(k - 1))
<1> DEFINE d(i) == text.stmts[i].does
<1>1. Len(text.stmts) \in Nat
  BY UnderWay
<1>2. k \in Nat /\ k >= 1 /\ 1 .. k = (1 .. k - 1) \cup {k}
  BY <1>1
<1>3. Boundaries(k) = {i \in 1 .. k : d(i) # "work"}
      /\ Boundaries(k - 1) = {i \in 1 .. k - 1 : d(i) # "work"}
  BY DEF Boundaries
<1>4. OpenAfter(k) <=>
         IF Boundaries(k) = {} THEN inTx
         ELSE \E i \in Boundaries(k) : d(i) = "begin" /\ \A j \in Boundaries(k) : j <= i
  BY DEF OpenAfter
<1> HIDE DEF d
<1>5. CASE d(k) = "work"
  <2>1. Boundaries(k) = Boundaries(k - 1)
    BY <1>2, <1>3, <1>5
  <2>2. OpenAfter(k) <=> OpenAfter(k - 1)
    BY <2>1 DEF OpenAfter
  <2> QED BY <1>5, <2>2 DEF d
<1>6. CASE d(k) # "work"
  <2>1. k \in Boundaries(k) /\ \A j \in Boundaries(k) : j \in 1 .. k
    BY <1>2, <1>3, <1>6
  <2>2. \A i \in Boundaries(k) : (\A j \in Boundaries(k) : j <= i) <=> i = k
    BY <1>2, <2>1
  <2>3. OpenAfter(k) <=> d(k) = "begin"
    BY <1>4, <2>1, <2>2
  <2> QED BY <1>6, <2>3 DEF d
<1> QED BY <1>5, <1>6

(* An explicit transaction that the hint knew nothing of was begun in the  *)
(* text.                                                                   *)
LEMMA OpenedInText ==
  ASSUME TypeOK, pc # "idle", NEW k \in 0 .. Len(text.stmts), OpenAfter(k), ~inTx
  PROVE  BeginsInText
<1>1. PICK i \in Boundaries(k) : text.stmts[i].does = "begin"
  BY DEF OpenAfter
<1>2. i \in 1 .. Len(text.stmts)
  BY UnderWay DEF Boundaries
<1> QED BY <1>1, <1>2, UnderWay DEF BeginsInText

(* What a call that is about to run a statement knows of its first and its *)
(* next one.                                                               *)
LEMMA AtStatement ==
  ASSUME TypeOK, pc = "running"
  PROVE  /\ next \in 1 .. Len(text.stmts)
         /\ text.stmts[next].does \in Does
         /\ Len(text.stmts) \in Nat \ {0}
<1>1. next \in 1 .. Len(text.stmts)
  BY DEF TypeOK
<1> QED BY <1>1, UnderWay

(* A tidy text whose first word ends a transaction is that one statement.  *)
LEMMA TidyEnd ==
  ASSUME TypeOK, pc # "idle", Tidy(text), textBoundary(text) < 0
  PROVE  Len(text.stmts) = 1 /\ text.parses /\ Ends(text.stmts[1])
<1>1. text \in Texts /\ 1 \in 1 .. Len(text.stmts) /\ 1 \in DOMAIN text.stmts
  BY UnderWay
<1>2. txBoundary(Mark(text, <<1, 1>>)) < 0
  BY DEF textBoundary, Tidy
<1>3. Ends(text.stmts[1])
  BY <1>1, <1>2, FirstMark
<1>4. text.stmts[1].does # "begin"
  BY <1>3 DEF Ends
<1> QED BY <1>1, <1>3, <1>4 DEF Tidy

(* And one whose first word does not end a transaction ends none that was  *)
(* open before, unless it begins with BEGIN.                               *)
LEMMA TidyElse ==
  ASSUME TypeOK, pc # "idle", Tidy(text), textBoundary(text) >= 0
  PROVE  \/ text.stmts[1].does = "begin"
         \/ \A i \in DOMAIN text.stmts : ~Ends(text.stmts[i])
<1>1. text \in Texts /\ 1 \in 1 .. Len(text.stmts)
      /\ DOMAIN text.stmts = 1 .. Len(text.stmts) /\ 1 \in DOMAIN text.stmts
  BY UnderWay
<1>2. ~(txBoundary(Mark(text, <<1, 1>>)) < 0)
  <2>1. txBoundary(Mark(text, <<1, 1>>)) >= 0
    BY DEF textBoundary, Tidy
  <2>2. \A m : txBoundary(m) \in -1 .. 1
    BY DEF txBoundary
  <2> QED BY <2>1, <2>2
<1>3. ~Ends(text.stmts[1])
  <2> SUFFICES ASSUME Ends(text.stmts[1]) PROVE FALSE
    OBVIOUS
  <2>1. <<1, 1>> \in Recognized(text)
    BY <1>1 DEF Tidy, Ends
  <2>2. txBoundary(Mark(text, <<1, 1>>)) # 0
    BY <2>1 DEF Recognized
  <2> QED BY <1>1, <1>2, <2>2, FirstMark
<1>4. CASE Len(text.stmts) = 1
  <2>1. DOMAIN text.stmts = {1}
    BY <1>1, <1>4
  <2> QED BY <1>3, <2>1
<1> QED BY <1>4 DEF Tidy

(* And what the driver makes of a tidy text is what its statements do.     *)
LEMMA TidyFollowed ==
  ASSUME TypeOK, Tidy(text), noteTxSuccess
  PROVE  inTx' <=> OpenAfter(Len(text.stmts))
<1> DEFINE B == Boundaries(Len(text.stmts))
           first(i) == <<i, 1>>
<1>1. text \in Texts /\ DOMAIN text.stmts = 1 .. Len(text.stmts) /\ Len(text.stmts) \in Nat
  BY UnderWay DEF noteTxSuccess
<1>2. Recognized(text) = {first(i) : i \in B} /\ \A i \in B : i \in 1 .. Len(text.stmts)
  BY <1>1 DEF Tidy, Boundaries
<1>3. ASSUME NEW i \in B, NEW j \in B
      PROVE  Before(first(i), first(j)) <=> ~(j <= i)
  BY <1>1, <1>2 DEF Before
<1>4. ASSUME NEW i \in B
      PROVE  Mark(text, first(i)) = "begin" <=> text.stmts[i].does = "begin"
  <2>1. first(i) \in Recognized(text)
    BY <1>2
  <2>2. txBoundary(Mark(text, first(i))) # 0
    BY <2>1 DEF Recognized
  <2> QED BY <1>1, <1>2, <2>2, FirstMark
<1>5. inTx' <=> IF Recognized(text) = {} THEN inTx
                ELSE \E p \in Recognized(text) : /\ Mark(text, p) = "begin"
                                                 /\ \A q \in Recognized(text) : ~Before(p, q)
  BY Zenon DEF noteTxSuccess
<1> HIDE DEF B, first
<1>6. Recognized(text) = {} <=> B = {}
  BY <1>2
<1>7. (\E p \in Recognized(text) : /\ Mark(text, p) = "begin"
                                  /\ \A q \in Recognized(text) : ~Before(p, q))
      <=> \E i \in B : text.stmts[i].does = "begin" /\ \A j \in B : j <= i
  BY <1>2, <1>3, <1>4
<1>8. inTx' <=> IF B = {} THEN inTx
                ELSE \E i \in B : text.stmts[i].does = "begin" /\ \A j \in B : j <= i
  BY <1>5, <1>6, <1>7
<1> QED BY <1>8 DEF B, OpenAfter

-----------------------------------------------------------------------------
(* The initial state, and one lemma per action.                            *)
LEMMA InitIInv == Init => IInv
<1> SUFFICES ASSUME Init PROVE IInv
  OBVIOUS
<1>1. TypeOK
  BY NoTextApart DEF Init, TypeOK, Transactions
<1>2. Sound
  BY DEF Init, Sound, IdleSound, RunningSound, SucceededSound, FailedSound,
         RecoveringSound, InTransaction, Explicit
<1> QED BY <1>1, <1>2 DEF IInv

LEMMA CallSound ==
  ASSUME TypeOK, Sound, NEW t \in Texts, NEW h \in {"raw", "args", "stmt"}, Call(t, h), ~strayed'
  PROVE  Sound'
<1>1. Tidy(t) /\ pc = "idle" /\ pc' = "running" /\ text' = t /\ next' = 1
      /\ inTx' = inTx /\ eng' = eng
  BY DEF Call
<1>2. eng # "dangling" /\ (inTx <=> InTransaction)
  BY <1>1 DEF Sound, IdleSound
<1>3. OpenAfter(0)' <=> inTx'
  <2>1. Boundaries(0)' = {}
    BY DEF Boundaries
  <2> QED BY <2>1 DEF OpenAfter
<1>4. (InTransaction <=> OpenAfter(next - 1))'
  BY <1>1, <1>2, <1>3 DEF InTransaction
<1>5. RunningSound'
  BY <1>1, <1>2, <1>4 DEF RunningSound, InTransaction
<1> QED BY <1>1, <1>5 DEF Sound, IdleSound, SucceededSound, FailedSound, RecoveringSound

LEMMA UnparsedSound ==
  ASSUME TypeOK, Sound, Unparsed
  PROVE  Sound'
<1>1. pc = "running" /\ ~text.parses /\ pc' = "failed" /\ text' = text /\ inTx' = inTx
  BY DEF Unparsed, Go
<1>2. Tidy(text) /\ eng # "dangling" /\ (InTransaction <=> inTx)
  BY <1>1, OpenAtStart DEF Sound, RunningSound
<1>3. InTransaction' <=> InTransaction
  <2>1. PICK o \in Outcomes("work") : ~o.ok /\ eng' = o.eng
    BY DEF Unparsed, Rejections
  <2> QED BY <1>2, <2>1, Fails DEF InTransaction, Does
<1>4. ~(textBoundary(text) < 0)
  BY <1>1, <1>2, TidyEnd
<1>5. FailedSound'
  BY <1>1, <1>2, <1>3, <1>4 DEF FailedSound
<1> QED BY <1>1, <1>5 DEF Sound, IdleSound, RunningSound, SucceededSound, RecoveringSound

LEMMA PrepareFailsSound ==
  ASSUME TypeOK, Sound, PrepareFails
  PROVE  Sound'
<1>1. pc = "running" /\ how = "args" /\ inTx' = inTx
  BY DEF PrepareFails
<1>2. eng # "dangling" /\ (InTransaction <=> inTx)
  BY <1>1, OpenAtStart DEF Sound, RunningSound
<1>3. InTransaction' <=> InTransaction
  <2>1. PICK o \in Outcomes("work") : ~o.ok /\ eng' = o.eng
    BY DEF PrepareFails, Rejections
  <2> QED BY <1>2, <2>1, Fails DEF InTransaction, Does
<1>4. CASE inTx
  <2>1. pc' = "idle"
    BY <1>4 DEF PrepareFails, Finish
  <2>2. IdleSound'
    BY <1>1, <1>2, <1>3, <1>4, <2>1 DEF IdleSound, InTransaction, Explicit
  <2> QED BY <2>1, <2>2 DEF Sound, RunningSound, SucceededSound, FailedSound, RecoveringSound
<1>5. CASE ~inTx
  <2>1. pc' = "recovering"
    BY <1>5 DEF PrepareFails, Go
  <2>2. RecoveringSound'
    BY <1>1, <1>2, <1>3, <1>5, <2>1 DEF RecoveringSound
  <2> QED BY <2>1, <2>2 DEF Sound, IdleSound, RunningSound, SucceededSound, FailedSound
<1> QED BY <1>4, <1>5

LEMMA BindFailsSound ==
  ASSUME TypeOK, Sound, BindFails
  PROVE  Sound'
<1>1. pc = "running" /\ how # "raw" /\ pc' = "idle" /\ inTx' = inTx /\ eng' = eng
  BY DEF BindFails, Finish
<1>2. eng # "dangling" /\ (InTransaction <=> inTx)
  BY <1>1, OpenAtStart DEF Sound, RunningSound
<1>3. IdleSound'
  BY <1>1, <1>2 DEF IdleSound, InTransaction
<1> QED BY <1>1, <1>3 DEF Sound, RunningSound, SucceededSound, FailedSound, RecoveringSound

LEMMA RunStatementSound ==
  ASSUME TypeOK, Sound, RunStatement
  PROVE  Sound'
<1> DEFINE d == text.stmts[next].does
           noEnds == \A i \in DOMAIN text.stmts : ~Ends(text.stmts[i])
<1>1. pc = "running" /\ text.parses /\ text' = text /\ how' = how /\ inTx' = inTx
      /\ (how = "raw" \/ Len(text.stmts) = 1)
  BY DEF RunStatement, Go
<1>2. /\ Tidy(text) /\ eng # "dangling" /\ (InTransaction <=> OpenAfter(next - 1))
      /\ inTx /\ text.stmts[1].does = "begin" => next = 1
      /\ inTx /\ noEnds => InTransaction
  BY <1>1 DEF Sound, RunningSound
<1>3. /\ d \in Does /\ next \in 1 .. Len(text.stmts) /\ Len(text.stmts) \in Nat \ {0}
      /\ DOMAIN text.stmts = 1 .. Len(text.stmts)
  BY <1>1, AtStatement, UnderWay
<1>4. PICK o \in Outcomes(d) :
         /\ eng' = o.eng
         /\ IF o.ok /\ next < Len(text.stmts)
            THEN next' = next + 1 /\ pc' = pc
            ELSE pc' = IF o.ok THEN "succeeded" ELSE "failed"
  BY DEF RunStatement, Go
<1>6. OpenAfter(next) <=> d = "begin" \/ (d = "work" /\ OpenAfter(next - 1))
  BY <1>1, <1>3, OpenStep
<1>7. ASSUME o.ok
      PROVE  eng' # "dangling" /\ (InTransaction' <=> OpenAfter(next))
  BY <1>2, <1>3, <1>4, <1>6, <1>7, Succeeds DEF InTransaction, Does
<1>8. ASSUME NEW k
      PROVE  OpenAfter(k)' <=> OpenAfter(k)
  BY <1>1 DEF OpenAfter, Boundaries
<1>9. CASE o.ok /\ next < Len(text.stmts)
  <2>1. pc' = "running" /\ next' = next + 1 /\ next' - 1 = next /\ how = "raw"
    <3>1. pc' = pc /\ next' = next + 1
      BY <1>4, <1>9, Zenon
    <3>2. next < Len(text.stmts) /\ next \in 1 .. Len(text.stmts)
      BY <1>3, <1>9, Zenon
    <3>3. Len(text.stmts) \in Nat
      BY <1>1, AtStatement
    <3>4. ASSUME NEW n \in Nat, NEW i \in 1 .. n
          PROVE  i \in Nat /\ (i < n => n # 1)
      OBVIOUS
    <3>5. Len(text.stmts) # 1 /\ next \in Nat
      BY <3>2, <3>3, <3>4, Zenon
    <3>6. how = "raw"
      BY <1>1, <3>5, Zenon
    <3>7. pc' = "running" /\ next' - 1 = next
      BY <1>1, <3>1, <3>5
    <3> QED BY <3>1, <3>6, <3>7
  <2>2. (InTransaction <=> OpenAfter(next - 1))'
    BY <1>7, <1>8, <1>9, <2>1
  <2>3. ~(inTx /\ text.stmts[1].does = "begin")
    <3> SUFFICES ASSUME inTx, text.stmts[1].does = "begin" PROVE FALSE
      OBVIOUS
    <3>1. next = 1 /\ d = "begin" /\ InTransaction
      BY <1>2, OpenAtStart
    <3> QED BY <1>2, <1>3, <1>4, <1>9, <3>1, Succeeds DEF InTransaction
  <2>4. (inTx /\ noEnds => InTransaction)'
    <3> SUFFICES ASSUME inTx, noEnds PROVE InTransaction'
      BY <1>1
    <3>1. InTransaction /\ d \notin {"commit", "rollback"}
      BY <1>2, <1>3 DEF Ends
    <3> QED BY <1>2, <1>3, <1>4, <1>9, <3>1, Succeeds DEF InTransaction, Does
  <2>5. RunningSound'
    BY <1>1, <1>2, <1>7, <1>9, <2>1, <2>2, <2>3, <2>4 DEF RunningSound
  <2> QED BY <2>1, <2>5 DEF Sound, IdleSound, SucceededSound, FailedSound, RecoveringSound
<1>10. CASE o.ok /\ ~(next < Len(text.stmts))
  <2>1. pc' = "succeeded" /\ next = Len(text.stmts)
    BY <1>3, <1>4, <1>10
  <2>2. SucceededSound'
    BY <1>1, <1>2, <1>7, <1>8, <1>10, <2>1 DEF SucceededSound
  <2> QED BY <2>1, <2>2 DEF Sound, IdleSound, RunningSound, FailedSound, RecoveringSound
<1>11. CASE ~o.ok
  <2>1. pc' = "failed"
    BY <1>4, <1>11
  <2>2. /\ d \in {"work", "begin"} => (InTransaction' <=> InTransaction)
        /\ d \in {"commit", "rollback"} => eng' = "auto"
    BY <1>2, <1>3, <1>4, <1>11, Fails DEF InTransaction
  <2>3. textBoundary(text) < 0 => eng' = "auto"
    <3> SUFFICES ASSUME textBoundary(text) < 0 PROVE eng' = "auto"
      OBVIOUS
    <3>1. Len(text.stmts) = 1 /\ Ends(text.stmts[1])
      BY <1>1, <1>2, TidyEnd
    <3>2. next = 1
      BY <1>3, <3>1
    <3> QED BY <2>2, <3>1, <3>2 DEF Ends
  <2>4. textBoundary(text) >= 0 /\ inTx => InTransaction'
    <3> SUFFICES ASSUME textBoundary(text) >= 0, inTx PROVE InTransaction'
      OBVIOUS
    <3>1. CASE text.stmts[1].does = "begin"
      <4>1. next = 1 /\ InTransaction
        BY <1>2, <3>1, OpenAtStart
      <4> QED BY <2>2, <3>1, <4>1
    <3>2. CASE noEnds
      <4>1. InTransaction /\ d \in {"work", "begin"}
        BY <1>2, <1>3, <3>2 DEF Ends, Does
      <4> QED BY <2>2, <4>1
    <3> QED BY <1>1, <1>2, <3>1, <3>2, TidyElse
  <2>5. ~inTx /\ InTransaction' => BeginsInText
    <3> SUFFICES ASSUME ~inTx, InTransaction' PROVE BeginsInText
      OBVIOUS
    <3>1. OpenAfter(next - 1) /\ next - 1 \in 0 .. Len(text.stmts)
      BY <1>2, <1>3, <2>2 DEF InTransaction, Explicit, Does
    <3> QED BY <1>1, <3>1, OpenedInText
  <2>6. FailedSound'
    BY <1>1, <2>1, <2>3, <2>4, <2>5 DEF FailedSound, BeginsInText
  <2> QED BY <2>1, <2>6 DEF Sound, IdleSound, RunningSound, SucceededSound, RecoveringSound
<1> QED BY <1>9, <1>10, <1>11

LEMMA noteTxSuccessSound ==
  ASSUME TypeOK, Sound, noteTxSuccess
  PROVE  Sound'
<1>1. pc = "succeeded" /\ pc' = "idle" /\ eng' = eng
  BY DEF noteTxSuccess, Finish
<1>2. Tidy(text) /\ eng # "dangling" /\ (InTransaction <=> OpenAfter(Len(text.stmts)))
  BY <1>1 DEF Sound, SucceededSound
<1>3. inTx' <=> OpenAfter(Len(text.stmts))
  BY <1>2, TidyFollowed
<1>4. IdleSound'
  BY <1>1, <1>2, <1>3 DEF IdleSound, InTransaction
<1> QED BY <1>1, <1>4 DEF Sound, RunningSound, SucceededSound, FailedSound, RecoveringSound

LEMMA noteTxFailureSound ==
  ASSUME TypeOK, Sound, noteTxFailure
  PROVE  Sound'
<1>1. pc = "failed" /\ eng' = eng
  BY DEF noteTxFailure
<1>2. /\ textBoundary(text) < 0 => eng = "auto"
      /\ textBoundary(text) >= 0 /\ inTx => InTransaction
      /\ ~inTx /\ InTransaction => BeginsInText
  BY <1>1 DEF Sound, FailedSound
<1>3. CASE pc' = "idle"
  <2>1. \/ textBoundary(text) < 0 /\ inTx' = FALSE
        \/ textBoundary(text) >= 0 /\ inTx /\ inTx' = inTx
    BY <1>3 DEF noteTxFailure, Go
  <2>2. IdleSound'
    BY <1>1, <1>2, <2>1 DEF IdleSound, InTransaction, Explicit
  <2> QED BY <1>3, <2>2 DEF Sound, RunningSound, SucceededSound, FailedSound, RecoveringSound
<1>4. CASE pc' # "idle"
  <2>1. ~inTx /\ inTx' = inTx /\ pc' = "recovering" /\ text' = text
    BY <1>4 DEF noteTxFailure, Finish, Go
  <2>2. RecoveringSound'
    BY <1>1, <1>2, <2>1 DEF RecoveringSound, InTransaction, BeginsInText
  <2> QED BY <2>1, <2>2 DEF Sound, IdleSound, RunningSound, SucceededSound, FailedSound
<1> QED BY <1>3, <1>4

LEMMA recoverTxSound ==
  ASSUME TypeOK, Sound, recoverTx
  PROVE  Sound'
<1>1. pc = "recovering" /\ pc' = "idle" /\ inTx' = inTx
  BY DEF recoverTx, Finish
<1>2. ~inTx
  BY <1>1 DEF Sound, RecoveringSound
<1>3. eng' = "auto"
  BY RecoveryClears DEF recoverTx
<1>4. IdleSound'
  BY <1>1, <1>2, <1>3 DEF IdleSound, InTransaction, Explicit
<1> QED BY <1>1, <1>4 DEF Sound, RunningSound, SucceededSound, FailedSound, RecoveringSound

-----------------------------------------------------------------------------
(* Types.                                                                  *)
LEMMA FinishTyped ==
  ASSUME TypeOK, Finish, inTx' \in BOOLEAN, eng' \in Transactions
  PROVE  TypeOK'
  BY DEF TypeOK, Finish

LEMMA GoTyped ==
  ASSUME TypeOK, pc # "idle", NEW to \in {"succeeded", "failed", "recovering"}, Go(to),
         inTx' \in BOOLEAN, eng' \in Transactions
  PROVE  TypeOK'
  BY DEF TypeOK, Go

LEMMA TypeStep ==
  ASSUME TypeOK, [Next]_vars
  PROVE  TypeOK'
<1>1. ASSUME NEW t \in Texts, NEW h \in {"raw", "args", "stmt"}, Call(t, h)
      PROVE  TypeOK'
  <2>1. 1 \in 1 .. Len(t.stmts)
    BY TextTyped
  <2>2. t # NoText
    BY NoTextApart
  <2> QED BY <1>1, <2>1, <2>2 DEF Call, TypeOK
<1>2. ASSUME Unparsed PROVE TypeOK'
  <2>1. PICK o \in Outcomes("work") : eng' = o.eng
    BY <1>2 DEF Unparsed, Rejections
  <2>2. eng' \in Transactions
    BY <2>1, OutcomeTyped DEF Does
  <2> QED BY <1>2, <2>2, GoTyped DEF Unparsed, TypeOK
<1>3. ASSUME PrepareFails PROVE TypeOK'
  <2>1. PICK o \in Outcomes("work") : eng' = o.eng
    BY <1>3 DEF PrepareFails, Rejections
  <2>2. eng' \in Transactions
    BY <2>1, OutcomeTyped DEF Does
  <2> QED BY <1>3, <2>2, GoTyped, FinishTyped DEF PrepareFails, TypeOK
<1>4. ASSUME BindFails PROVE TypeOK'
  BY <1>4, FinishTyped DEF BindFails, TypeOK
<1>5. ASSUME RunStatement PROVE TypeOK'
  <2>1. next \in 1 .. Len(text.stmts) /\ text.stmts[next].does \in Does
        /\ Len(text.stmts) \in Nat \ {0}
    BY <1>5, AtStatement DEF RunStatement
  <2>2. PICK o \in Outcomes(text.stmts[next].does) :
           /\ eng' = o.eng
           /\ IF o.ok /\ next < Len(text.stmts)
              THEN next' = next + 1 /\ UNCHANGED <<pc, text, how, strayed>>
              ELSE Go(IF o.ok THEN "succeeded" ELSE "failed")
    BY <1>5 DEF RunStatement
  <2>3. eng' \in Transactions /\ inTx' = inTx /\ pc = "running"
    BY <1>5, <2>1, <2>2, OutcomeTyped DEF RunStatement
  <2>4. CASE o.ok /\ next < Len(text.stmts)
    <3>1. next' = next + 1 /\ UNCHANGED <<pc, text, how, strayed>>
      BY <2>2, <2>4, Zenon
    <3>2. next' \in 1 .. Len(text'.stmts) /\ next' \in Nat
      BY <2>1, <2>4, <3>1
    <3> QED BY <2>3, <3>1, <3>2 DEF TypeOK
  <2>5. CASE ~(o.ok /\ next < Len(text.stmts))
    <3>1. Go("succeeded") \/ Go("failed")
      BY <2>2, <2>5, Zenon
    <3> QED BY <2>3, <3>1, GoTyped DEF TypeOK
  <2> QED BY <2>4, <2>5
<1>6. ASSUME noteTxSuccess PROVE TypeOK'
  <2>1. inTx' \in BOOLEAN
    BY <1>6 DEF noteTxSuccess, TypeOK
  <2> QED BY <1>6, <2>1, FinishTyped DEF noteTxSuccess, TypeOK
<1>7. ASSUME noteTxFailure PROVE TypeOK'
  BY <1>7, FinishTyped, GoTyped DEF noteTxFailure, TypeOK
<1>8. ASSUME recoverTx PROVE TypeOK'
  <2>1. eng' \in Transactions
    BY <1>8, RecoveryClears DEF recoverTx, Transactions
  <2> QED BY <1>8, <2>1, FinishTyped DEF recoverTx, TypeOK
<1>9. ASSUME UNCHANGED vars PROVE TypeOK'
  BY <1>9 DEF vars, TypeOK
<1> QED BY <1>1, <1>2, <1>3, <1>4, <1>5, <1>6, <1>7, <1>8, <1>9 DEF Next

-----------------------------------------------------------------------------
(* Together.                                                               *)
LEMMA SoundStep ==
  ASSUME TypeOK, Sound, [Next]_vars, ~strayed'
  PROVE  Sound'
<1>1. CASE UNCHANGED vars
  BY <1>1 DEF vars, Sound, IdleSound, RunningSound, SucceededSound, FailedSound,
              RecoveringSound, InTransaction, OpenAfter, Boundaries, BeginsInText
<1>2. ASSUME NEW t \in Texts, NEW h \in {"raw", "args", "stmt"}, Call(t, h)
      PROVE  Sound'
  BY <1>2, CallSound
<1> QED
  BY <1>1, <1>2, UnparsedSound, PrepareFailsSound, BindFailsSound, RunStatementSound,
     noteTxSuccessSound, noteTxFailureSound, recoverTxSound DEF Next

(* A text that was not tidy is never forgotten.                            *)
LEMMA StrayedStays ==
  ASSUME TypeOK, [Next]_vars, strayed
  PROVE  strayed'
  BY DEF Next, vars, Call, Unparsed, PrepareFails, BindFails, RunStatement,
         noteTxSuccess, noteTxFailure, recoverTx, Go, Finish

LEMMA IInvStep == IInv /\ [Next]_vars => IInv'
<1> SUFFICES ASSUME IInv, [Next]_vars PROVE IInv'
  OBVIOUS
<1>1. TypeOK'
  BY TypeStep DEF IInv
<1>2. ASSUME ~strayed' PROVE Sound'
  BY <1>2, StrayedStays, SoundStep DEF IInv
<1> QED BY <1>1, <1>2 DEF IInv

LEMMA IInvHolds == Spec => []IInv
  BY InitIInv, IInvStep, PTL DEF Spec

(* The type invariant of conn.inTx, the engine's transaction and the call  *)
(* under way.                                                              *)
THEOREM TxTypeCorrect == Spec => []TypeOK
<1>1. IInv => TypeOK
  BY DEF IInv
<1> QED BY <1>1, IInvHolds, PTL

(* With tidy texts only, conn.inTx says between calls whether the user has *)
(* a transaction open in the engine.                                       *)
THEOREM HintIsExact == Spec => []TidyHintExact
<1>1. IInv => TidyHintExact
  BY DEF IInv, Sound, IdleSound, TidyHintExact, HintExact, InTransaction
<1> QED BY <1>1, IInvHolds, PTL

(* With tidy texts only, no call ends with a dangling transaction: every   *)
(* failure outside a user's transaction reaches recoverTxLocked.           *)
THEOREM AutocommitIsRestored == Spec => []TidyAutocommit
<1>1. IInv => TidyAutocommit
  BY DEF IInv, Sound, IdleSound, TidyAutocommit, AutocommitRestored
<1> QED BY <1>1, IInvHolds, PTL

(* With tidy texts only, recoverTxLocked ends no transaction of the user's *)
(* begun before the text that failed.                                      *)
THEOREM UserTxIsKept == Spec => []TidyUserTxKept
<1>1. IInv => TidyUserTxKept
  BY DEF IInv, Sound, RecoveringSound, BeginsInText, InTransaction, TidyUserTxKept, UserTxKept
<1> QED BY <1>1, IInvHolds, PTL

-----------------------------------------------------------------------------
(* However far the hint was off.  The last of the statements run so far    *)
(* that has to do with transactions tells what the engine has: this needs  *)
(* nothing of the hint, and holds of texts that are not tidy.              *)
Decides(i, k) == /\ text.stmts[i].does # "work"
                 /\ \A j \in 1 .. k : j > i => text.stmts[j].does = "work"
Decided(k) == \A i \in 1 .. k : Decides(i, k) => (InTransaction <=> text.stmts[i].does = "begin")
LastDecides ==
    /\ pc = "running" => Decided(next - 1)
    /\ pc = "succeeded" => Decided(Len(text.stmts))

LEMMA SucceedsAnyhow ==
  ASSUME TypeOK, NEW d \in Does, NEW o \in Outcomes(d), o.ok
  PROVE  /\ d = "work" => (o.eng \in Explicit <=> eng \in Explicit)
         /\ d # "work" => (o.eng \in Explicit <=> d = "begin")
  BY DEF TypeOK, Outcomes, Effects, Transactions, Explicit, Does

LEMMA StatementDecides ==
  ASSUME TypeOK, LastDecides, RunStatement
  PROVE  LastDecides'
<1> PICK n : n = next
  OBVIOUS
<1> PICK d : d = text.stmts[n].does
  OBVIOUS
<1>1. pc = "running" /\ text' = text
  BY DEF RunStatement, Go
<1>2. /\ d \in Does /\ n \in 1 .. Len(text.stmts) /\ Len(text.stmts) \in Nat /\ Decided(n - 1)
  BY <1>1, AtStatement, UnderWay DEF LastDecides
<1>3. PICK o \in Outcomes(d) :
         /\ eng' = o.eng
         /\ IF o.ok /\ n < Len(text.stmts)
            THEN next' = n + 1 /\ pc' = pc
            ELSE pc' = IF o.ok THEN "succeeded" ELSE "failed"
  BY DEF RunStatement, Go
<1>4. CASE ~o.ok
  BY <1>3, <1>4 DEF LastDecides
<1>5. CASE o.ok
  <2>1. /\ d = "work" => (InTransaction' <=> InTransaction)
        /\ d # "work" => (InTransaction' <=> d = "begin")
    BY <1>2, <1>3, <1>5, SucceedsAnyhow DEF InTransaction
  <2>2. Decided(n)'
    <3> SUFFICES ASSUME NEW i \in 1 .. n, Decides(i, n)'
                 PROVE  InTransaction' <=> text.stmts[i].does = "begin"
      BY <1>1 DEF Decided
    <3>1. Decides(i, n)
      BY <1>1 DEF Decides
    <3>2. CASE i = n
      BY <3>1, <3>2, <2>1 DEF Decides
    <3>3. CASE i # n
      <4>1. i \in 1 .. n - 1 /\ n \in 1 .. n /\ n > i
        BY <3>3, <1>2
      <4>2. d = "work" /\ Decides(i, n - 1)
        <5>1. \A j \in 1 .. n - 1 : j \in 1 .. n
          BY <1>2
        <5> QED BY <3>1, <4>1, <5>1 DEF Decides
      <4> QED BY <4>1, <4>2, <2>1, <1>2 DEF Decided
    <3> QED BY <3>2, <3>3
  <2>3. CASE n < Len(text.stmts)
    <3>1. next' = n + 1 /\ pc' = "running" /\ (n + 1) - 1 = n
      BY <2>3, <1>1, <1>2, <1>3, <1>5
    <3>2. next' - 1 = n
      BY <3>1
    <3>3. Decided(next - 1)'
      BY <2>2, <3>2 DEF Decided, Decides
    <3> QED BY <3>1, <3>3 DEF LastDecides
  <2>4. CASE ~(n < Len(text.stmts))
    <3>1. pc' = "succeeded"
      BY <2>4, <1>3, <1>5
    <3>2. Len(text.stmts)' = n
      BY <2>4, <1>1, <1>2
    <3>3. Decided(Len(text.stmts))'
      BY <2>2, <3>2 DEF Decided, Decides
    <3> QED BY <3>1, <3>3 DEF LastDecides
  <2> QED BY <2>3, <2>4
<1> QED BY <1>4, <1>5

LEMMA LastDecidesStep == TypeOK /\ LastDecides /\ [Next]_vars => LastDecides'
<1> SUFFICES ASSUME TypeOK, LastDecides, [Next]_vars PROVE LastDecides'
  OBVIOUS
<1>1. ASSUME NEW t \in Texts, NEW h \in {"raw", "args", "stmt"}, Call(t, h) PROVE LastDecides'
  <2>1. pc' = "running" /\ next' = 1
    BY <1>1 DEF Call
  <2>2. next' - 1 = 0
    BY <2>1
  <2>3. Decided(next - 1)'
    BY <2>2 DEF Decided
  <2> QED BY <2>1, <2>3 DEF LastDecides
<1>2. ASSUME pc' \in {"idle", "failed", "recovering"} PROVE LastDecides'
  BY <1>2 DEF LastDecides
<1>3. CASE Unparsed \/ PrepareFails \/ BindFails \/ noteTxSuccess \/ noteTxFailure \/ recoverTx
  <2>1. pc' \in {"idle", "failed", "recovering"}
    BY <1>3 DEF Unparsed, PrepareFails, BindFails, noteTxSuccess, noteTxFailure, recoverTx, Go, Finish
  <2> QED BY <2>1, <1>2
<1>4. CASE RunStatement
  BY <1>4, StatementDecides
<1>5. CASE UNCHANGED vars
  BY <1>5 DEF vars, LastDecides, Decided, Decides, InTransaction
<1> QED BY <1>1, <1>3, <1>4, <1>5 DEF Next

(* However far the hint was off, a text that runs to its end sets it       *)
(* right, if the driver recognizes the last statement on transactions in   *)
(* it and takes nothing behind that for another (noteTxSuccessLocked,      *)
(* driver.go:302-372).  No text need be tidy.                              *)
THEOREM HintIsHealed == Spec => HintHeals
<1> DEFINE A == pc = "succeeded" /\ LastIsRecognized(text) => HintExact'
<1>1. TypeOK /\ LastDecides /\ [Next]_vars => [A]_vars
  <2> SUFFICES ASSUME TypeOK, LastDecides, Next, pc = "succeeded", LastIsRecognized(text)
               PROVE  HintExact'
    OBVIOUS
  <2>1. noteTxSuccess
    BY DEF Next, Call, Unparsed, PrepareFails, BindFails, RunStatement, noteTxFailure, recoverTx
  <2>2. text \in Texts /\ Len(text.stmts) \in Nat /\ DOMAIN text.stmts = 1 .. Len(text.stmts)
    BY UnderWay
  <2> DEFINE found == Recognized(text)
             first(k) == <<k, 1>>
  <2>3. PICK i \in 1 .. Len(text.stmts) :
          /\ first(i) \in found /\ \A p \in found : ~Before(first(i), p)
          /\ \A j \in 1 .. Len(text.stmts) : j > i => text.stmts[j].does = "work"
    BY <2>2 DEF LastIsRecognized
  <2>4. text.stmts[i].does # "work" /\ (Mark(text, first(i)) = "begin" <=> text.stmts[i].does = "begin")
    <3>1. txBoundary(Mark(text, first(i))) # 0
      BY <2>3 DEF Recognized
    <3> QED BY <2>2, <2>3, <3>1, FirstMark
  <2>5. inTx' <=> IF found = {} THEN inTx
                  ELSE \E p \in found : Mark(text, p) = "begin" /\ \A q \in found : ~Before(p, q)
    BY <2>1, Zenon DEF noteTxSuccess
  <2>6. \A p \in found : (\A q \in found : ~Before(p, q)) => p = first(i)
    BY <2>2, <2>3, PlacesOrdered
  <2> HIDE DEF found, first
  <2>7. inTx' <=> Mark(text, first(i)) = "begin"
    BY <2>3, <2>5, <2>6
  <2>8. InTransaction <=> text.stmts[i].does = "begin"
    <3>1. Decides(i, Len(text.stmts))
      BY <2>3, <2>4 DEF Decides
    <3> QED BY <3>1 DEF LastDecides, Decided
  <2>9. eng' = eng
    BY <2>1 DEF noteTxSuccess
  <2> QED BY <2>4, <2>7, <2>8, <2>9 DEF HintExact, InTransaction
<1>2. Init => LastDecides
  BY DEF Init, LastDecides
<1> QED BY <1>1, <1>2, LastDecidesStep, TxTypeCorrect, PTL DEF Spec, HintHeals

-----------------------------------------------------------------------------
(* The runner's records on one connection, for all records of any number   *)
(* of parts.                                                               *)

RecordSpec == RecordInit /\ [][RecordNext]_recordvars

(* The runner and the driver take turns: the driver has the part the       *)
(* runner is at, or the ROLLBACK; a part has failed once the driver has    *)
(* seen it fail.                                                           *)
Turns ==
    /\ rpc \in {"idle", "execute", "engine", "check", "sacrifice", "absorb", "stopped"}
    /\ pc \in {"idle", "running", "succeeded", "failed", "recovering"}
    /\ rpc \in {"execute", "engine"} => rec \in Records /\ part \in 1 .. Len(rec.parts)
    /\ rpc = "execute" => ~rawErr
    /\ rpc \notin {"engine", "absorb"} => pc = "idle"
    /\ rpc = "engine" =>
          /\ pc # "idle" => text = rec.parts[part]
          /\ pc \in {"running", "succeeded"} => ~rawErr
          /\ pc \in {"failed", "recovering"} => rawErr
    /\ rpc = "absorb" /\ pc # "idle" => text = Rollback
    /\ pc = "running" => next = 1

(* What the runner knows of the user's transaction once it has looked at   *)
(* the last part, and until it has looked at one that succeeded.           *)
Tracked == eng \in Explicit => inTxn
Untold ==
    eng \in Explicit => DoesOf(part) = "begin" \/ (DoesOf(part) = "work" /\ inTxn)
Unlooked == rpc = "engine" /\ ~rawErr /\ pc \in {"succeeded", "idle"}
RunnerSound ==
    /\ ~unseen => IF Unlooked THEN Untold ELSE Tracked
    /\ rpc = "sacrifice" => ~inTxn

RecordInv == Turns /\ RunnerSound

-----------------------------------------------------------------------------
(* What one statement makes of the user's transaction.                     *)
LEMMA EffectOf ==
  ASSUME NEW e, NEW d, NEW ok, NEW f, <<e, d, ok, f>> \in Effects, f \in Explicit
  PROVE  /\ ok => d = "begin" \/ (d = "work" /\ e \in Explicit)
         /\ ~ok => e \in Explicit
         /\ d # "rollback"
BY DEF Effects, Explicit

LEMMA OutcomeOf ==
  ASSUME NEW d, NEW o \in Outcomes(d), o.eng \in Explicit
  PROVE  /\ o.ok => d = "begin" \/ (d = "work" /\ eng \in Explicit)
         /\ ~o.ok => eng \in Explicit
         /\ d # "rollback" /\ o.ok \in BOOLEAN
<1>1. <<eng, d, o.ok, o.eng>> \in Effects /\ o.ok \in BOOLEAN
  BY DEF Outcomes
<1> QED BY <1>1, EffectOf

(* The text the driver has is one statement.                               *)
LEMMA OneStatement ==
  ASSUME Turns, pc # "idle"
  PROVE  /\ Len(text.stmts) = 1
         /\ rpc = "engine" => text.stmts[1].does = DoesOf(part)
         /\ rpc = "absorb" => text.stmts[1].does = "rollback"
<1>1. CASE rpc = "engine"
  <2>1. rec \in Records /\ part \in 1 .. Len(rec.parts) /\ text = rec.parts[part]
    BY <1>1 DEF Turns
  <2>2. part \in DOMAIN rec.parts
    BY <2>1, RecordsAssumption, LenProperties
  <2> QED BY <1>1, <2>1, <2>2, RecordsAssumption DEF DoesOf
<1>2. CASE rpc = "absorb"
  BY <1>2 DEF Turns, Rollback
<1> QED BY <1>1, <1>2 DEF Turns

LEMMA RecordStarts == RecordInit => RecordInv
BY DEF RecordInit, RecordInv, Turns, RunnerSound, Unlooked, Tracked, Init, Explicit

LEMMA StartStep ==
  ASSUME RecordInv, NEW r \in Records, StartRecord(r)
  PROVE  RecordInv'
<1>1. Len(r.parts) \in Nat /\ r.parts # <<>> /\ Len(r.parts) >= 1
  BY RecordsAssumption, LenProperties, EmptySeq
<1>2. pc = "idle"
  BY DEF RecordInv, Turns, StartRecord
<1>3. Turns'
  BY <1>1, <1>2 DEF RecordInv, Turns, StartRecord, vars
<1>4. RunnerSound'
  BY <1>2 DEF RecordInv, RunnerSound, Unlooked, Tracked, StartRecord, vars, Explicit
<1> QED BY <1>3, <1>4 DEF RecordInv

LEMMA CallStep ==
  ASSUME RecordInv, ExecPart \/ Sacrifice
  PROVE  RecordInv'
<1>1. Turns'
  BY DEF RecordInv, Turns, ExecPart, Sacrifice, Call
<1>2. RunnerSound'
  BY DEF RecordInv, Turns, RunnerSound, Unlooked, Tracked, ExecPart, Sacrifice, Call, Explicit
<1> QED BY <1>1, <1>2 DEF RecordInv

(* The driver runs the text, which fails or begins and ends transactions,  *)
(* and may roll back on its own.                                           *)
LEMMA DriverStep ==
  ASSUME RecordInv, DriverWorks
  PROVE  RecordInv'
<1>1. rpc \in {"engine", "absorb"} /\ rpc' = rpc /\ rawErr' = (rawErr \/ pc' = "failed")
      /\ UNCHANGED <<rec, part, inTxn, unseen>>
  BY DEF DriverWorks
<1>2. CASE Unparsed
  <2>1. PICK o \in Outcomes("work") : ~o.ok /\ eng' = o.eng
    BY <1>2 DEF Unparsed, Rejections
  <2>2. pc = "running" /\ pc' = "failed" /\ UNCHANGED <<text, how, next, strayed>>
    BY <1>2 DEF Unparsed, Go
  <2>3. eng' \in Explicit => eng \in Explicit
    BY <2>1, OutcomeOf
  <2>4. Turns'
    BY <1>1, <2>2 DEF RecordInv, Turns
  <2>5. RunnerSound'
    BY <1>1, <2>2, <2>3 DEF RecordInv, RunnerSound, Unlooked, Tracked, Explicit
  <2> QED BY <2>4, <2>5 DEF RecordInv
<1>3. CASE RunStatement
  <2>0. pc = "running" /\ Turns
    BY <1>3 DEF RunStatement, RecordInv
  <2>1. pc = "running" /\ next = 1 /\ Len(text.stmts) = 1
    BY <2>0, OneStatement DEF Turns
  <2>2. PICK o \in Outcomes(text.stmts[1].does) :
           eng' = o.eng /\ pc' = (IF o.ok THEN "succeeded" ELSE "failed")
           /\ UNCHANGED <<text, how, next, strayed>>
    BY <1>3, <2>1 DEF RunStatement, Go
  <2>3. eng' \in Explicit =>
           /\ o.ok => text.stmts[1].does = "begin"
                      \/ (text.stmts[1].does = "work" /\ eng \in Explicit)
           /\ ~o.ok => eng \in Explicit
           /\ text.stmts[1].does # "rollback" /\ o.ok \in BOOLEAN
    BY <2>2, OutcomeOf
  <2>4. Turns'
    BY <1>1, <2>1, <2>2 DEF RecordInv, Turns
  <2>5. ~unseen => Tracked
    BY <2>1 DEF RecordInv, RunnerSound, Unlooked
  <2>6. CASE rpc = "engine"
    <3>1. text.stmts[1].does = DoesOf(part) /\ DoesOf(part)' = DoesOf(part) /\ ~rawErr
      <4>1. text.stmts[1].does = DoesOf(part)
        BY <2>0, <2>6, OneStatement
      <4>2. ~rawErr
        BY <2>0, <2>6 DEF Turns
      <4> QED BY <1>1, <4>1, <4>2 DEF DoesOf
    <3>2. CASE o.ok
      <4>1. Untold' \/ unseen'
        BY <1>1, <2>2, <2>3, <2>5, <3>1, <3>2 DEF Untold, Tracked, Explicit
      <4> QED BY <1>1, <2>2, <2>4, <2>6, <3>1, <3>2, <4>1 DEF RecordInv, RunnerSound, Unlooked
    <3>3. CASE ~o.ok
      <4>1. Tracked' \/ unseen'
        BY <1>1, <2>2, <2>3, <2>5, <3>3 DEF Tracked, Explicit
      <4> QED BY <1>1, <2>2, <2>4, <2>6, <3>3, <4>1 DEF RecordInv, RunnerSound, Unlooked
    <3> QED BY <3>2, <3>3
  <2>7. CASE rpc = "absorb"
    <3>1. text.stmts[1].does = "rollback"
      BY <2>0, <2>7, OneStatement
    <3>2. Tracked'
      BY <2>3, <3>1 DEF Tracked, Explicit
    <3> QED BY <1>1, <2>4, <2>7, <3>2 DEF RecordInv, RunnerSound, Unlooked
  <2> QED BY <1>1, <2>6, <2>7
<1>4. CASE noteTxSuccess
  <2>1. pc = "succeeded" /\ pc' = "idle" /\ eng' = eng
    BY <1>4 DEF noteTxSuccess, Finish
  <2>2. Turns'
    BY <1>1, <2>1 DEF RecordInv, Turns
  <2>3. RunnerSound'
    <3>1. DoesOf(part)' = DoesOf(part)
      BY <1>1 DEF DoesOf
    <3>2. (Untold => Untold') /\ (Tracked => Tracked')
      BY <1>1, <2>1, <3>1 DEF Untold, Tracked, Explicit
    <3>3. Unlooked' <=> Unlooked
      BY <1>1, <2>1 DEF Unlooked
    <3> QED BY <1>1, <3>2, <3>3 DEF RecordInv, RunnerSound
  <2> QED BY <2>2, <2>3 DEF RecordInv
<1>5. CASE noteTxFailure
  <2>1. pc = "failed" /\ pc' \in {"idle", "recovering"} /\ eng' = eng
        /\ (pc' = "recovering" => text' = text /\ next' = next)
    BY <1>5 DEF noteTxFailure, Finish, Go
  <2>2. Turns'
    BY <1>1, <2>1 DEF RecordInv, Turns
  <2>3. RunnerSound'
    BY <1>1, <2>1 DEF RecordInv, Turns, RunnerSound, Unlooked, Tracked, Explicit
  <2> QED BY <2>2, <2>3 DEF RecordInv
<1>6. CASE recoverTx
  <2>1. pc = "recovering" /\ pc' = "idle"
    BY <1>6 DEF recoverTx, Finish
  <2>2. PICK o \in Outcomes("rollback") : eng' = o.eng
    BY <1>6 DEF recoverTx
  <2>3. eng' \notin Explicit
    BY <2>2, OutcomeOf
  <2>4. Turns'
    BY <1>1, <2>1 DEF RecordInv, Turns
  <2>5. RunnerSound'
    BY <1>1, <2>1, <2>3 DEF RecordInv, Turns, RunnerSound, Unlooked, Tracked, Explicit
  <2> QED BY <2>4, <2>5 DEF RecordInv
<1> QED BY <1>2, <1>3, <1>4, <1>5, <1>6 DEF DriverWorks

(* The runner looks at a part that succeeded.                              *)
LEMMA SuccessStep ==
  ASSUME RecordInv, PartSucceeds
  PROVE  RecordInv'
<1>1. rpc = "engine" /\ pc = "idle" /\ ~rawErr /\ rec \in Records /\ part \in 1 .. Len(rec.parts)
      /\ Len(rec.parts) \in Nat
  BY RecordsAssumption, LenProperties DEF PartSucceeds, RecordInv, Turns
<1>2. UNCHANGED vars /\ rec' = rec /\ rawErr' = rawErr
      /\ (\/ part < Len(rec.parts) /\ rpc' = "execute" /\ part' = part + 1
          \/ rpc' = "check" /\ part' = part)
  BY DEF PartSucceeds
<1>3. Turns'
  BY <1>1, <1>2 DEF RecordInv, Turns, vars
<1>4. ~unseen' => Tracked'
  <2> SUFFICES ASSUME ~unseen', eng \in Explicit PROVE inTxn'
    BY <1>2 DEF Tracked, vars, Explicit
  <2>1. /\ inTxn' = IF Seen(part) /\ DoesOf(part) # "work" THEN DoesOf(part) = "begin" ELSE inTxn
        /\ ~unseen /\ ~(DoesOf(part) = "begin" /\ ~Seen(part))
    BY DEF PartSucceeds, trackTxn
  <2>2. DoesOf(part) = "begin" \/ (DoesOf(part) = "work" /\ inTxn)
    BY <1>1, <2>1 DEF RecordInv, RunnerSound, Unlooked, Untold
  <2> QED BY <2>1, <2>2
<1> QED BY <1>2, <1>3, <1>4 DEF RecordInv, RunnerSound, Unlooked

LEMMA RunnerStep ==
  ASSUME RecordInv, PartFails \/ Absorbed \/ Check
  PROVE  RecordInv'
<1>1. Turns'
  BY DEF RecordInv, Turns, PartFails, Absorbed, Check, vars
<1>2. RunnerSound'
  BY DEF RecordInv, Turns, RunnerSound, Unlooked, Tracked, PartFails, Absorbed, Check, vars,
         Explicit
<1> QED BY <1>1, <1>2 DEF RecordInv

LEMMA RecordKeeps == RecordInv /\ [RecordNext]_recordvars => RecordInv'
<1> SUFFICES ASSUME RecordInv, [RecordNext]_recordvars PROVE RecordInv'
  OBVIOUS
<1>1. CASE UNCHANGED recordvars
  BY <1>1 DEF recordvars, vars, RecordInv, Turns, RunnerSound, Unlooked, Untold, Tracked, DoesOf,
              Explicit
<1> QED BY <1>1, StartStep, CallStep, DriverStep, SuccessStep, RunnerStep DEF RecordNext

-----------------------------------------------------------------------------
(* The runner's own ROLLBACK ends no transaction the script has opened and *)
(* not closed, for any records, as long as it has looked at every BEGIN    *)
(* that was executed (execStatement, main.go:1142-1153).                   *)
THEOREM RollbackSparesTheScript == RecordSpec => []SacrificeSparesUser
<1>1. RecordInv => SacrificeSparesUser
  BY DEF RecordInv, RunnerSound, Unlooked, Tracked, SacrificeSparesUser
<1> QED BY <1>1, RecordStarts, RecordKeeps, PTL DEF RecordSpec

(* To the driver the runner is a caller like any other: what it does on a  *)
(* connection, its ROLLBACK included, is a behaviour of TxRecovery.        *)
THEOREM RunnerIsACaller ==
  ASSUME Rollback \in Texts
  PROVE  RecordSpec => Spec
<1>1. RecordInit => Init
  BY DEF RecordInit
<1>2. RecordInv /\ [RecordNext]_recordvars => [Next]_vars
  <2> SUFFICES ASSUME RecordInv, [RecordNext]_recordvars PROVE [Next]_vars
    OBVIOUS
  <2>2. ASSUME NEW t \in Texts, Call(t, "raw") PROVE Next
    BY <2>2 DEF Next
  <2>3. CASE ExecPart
    <3>1. rec.parts[part] \in Texts
      BY <2>3, RecordsAssumption, ElementOfSeq DEF ExecPart, RecordInv, Turns
    <3> QED BY <2>3, <2>2, <3>1 DEF ExecPart
  <2>4. CASE Sacrifice
    BY <2>4, <2>2 DEF Sacrifice
  <2>5. CASE DriverWorks
    BY <2>5 DEF DriverWorks, Next
  <2>6. CASE UNCHANGED vars
    BY <2>6
  <2>7. CASE UNCHANGED recordvars
    BY <2>7 DEF recordvars
  <2> QED BY <2>3, <2>4, <2>5, <2>6, <2>7
          DEF RecordNext, StartRecord, PartSucceeds, PartFails, Absorbed, Check
<1> QED BY <1>1, <1>2, RecordStarts, RecordKeeps, PTL DEF RecordSpec, Spec
=============================================================================
