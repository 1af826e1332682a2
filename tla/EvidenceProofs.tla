--------------------------- MODULE EvidenceProofs ---------------------------
(***************************************************************************)
(* Proofs about Evidence, for artifacts and texts of every length, every   *)
(* cap and limit and every threshold of the checks.                        *)
(***************************************************************************)
EXTENDS Evidence, SequenceTheorems, FoldInduction, TLAPS

-----------------------------------------------------------------------------
(* The checks for tampering.                                               *)

Judged ==
    [flush |-> AppcompatFlush(facts.shimcache, facts.write, facts.acquired),
     suppression |-> SysmainSuppression(facts.amcache, facts.prefetch,
                                        facts.service),
     timestomp |-> MftTimestomp(facts.si, facts.fn)]

FactsInv == verdict # None => facts \in Facts /\ verdict = Judged

(* A check that has not been made has no verdict, and facts stay.          *)
FactsIInv == FactsInv /\ facts \in Facts \cup {None}

LEMMA FactsStep == FactsIInv /\ [Next]_vars => FactsIInv'
  <1> SUFFICES ASSUME FactsIInv, [Next]_vars
               PROVE  FactsIInv'
    OBVIOUS
  <1>1. CASE CheckFacts
    BY <1>1 DEF FactsIInv, FactsInv, CheckFacts, Judged
  <1>2. CASE UNCHANGED <<facts, verdict>>
    BY <1>2 DEF FactsIInv, FactsInv, Judged
  <1> QED
    BY <1>1, <1>2 DEF Next, SanitizeText, restVars, vars

LEMMA FlushMonotoneInRows ==
    ASSUME NEW rows \in Nat, NEW n \in Nat, NEW write \in Int,
           NEW acquired \in Int
    PROVE  Severity(AppcompatFlush(rows + n, write, acquired))
             <= Severity(AppcompatFlush(rows, write, acquired))
  BY WindowsAssumption DEF AppcompatFlush, Severity

LEMMA FlushMonotone ==
    ASSUME NEW rows \in Nat, NEW write \in Int, NEW acquired \in Int,
           NEW t \in Int
    PROVE  /\ (t <= write /\ acquired - t <= FlushWindow) =>
                Severity(AppcompatFlush(rows, t, acquired))
                  >= Severity(AppcompatFlush(rows, write, acquired))
           /\ write > acquired =>
                AppcompatFlush(rows, write, acquired) = "none"
  BY WindowsAssumption DEF AppcompatFlush, Severity

LEMMA SuppressionMonotone ==
    ASSUME NEW rows \in Nat, NEW files \in Nat, NEW n \in Nat,
           NEW state \in ServiceStates
    PROVE  /\ Severity(SysmainSuppression(rows, files + n, state))
                <= Severity(SysmainSuppression(rows, files, state))
           /\ Severity(SysmainSuppression(rows + n, files, state))
                >= Severity(SysmainSuppression(rows, files, state))
  BY WindowsAssumption DEF SysmainSuppression, Severity, ServiceStates

LEMMA TimestompMonotone ==
    ASSUME NEW si \in Int, NEW fn \in Int, NEW t \in Int
    PROVE  /\ t <= si => Severity(MftTimestomp(t, fn))
                           >= Severity(MftTimestomp(si, fn))
           /\ t >= fn => Severity(MftTimestomp(si, t))
                           >= Severity(MftTimestomp(si, fn))
           /\ si >= fn => MftTimestomp(si, fn) = "none"
  BY WindowsAssumption DEF MftTimestomp, Severity

(* More evidence of activity never accuses and an earlier $SI or a later   *)
(* $FN never acquits, for all counts, times and thresholds (deception.py). *)
THEOREM ChecksAreMonotone == Spec => []SuspicionMonotone
  <1>1. Init => FactsIInv
    BY DEF Init, FactsIInv, FactsInv, NoFacts
  <1>2. FactsIInv /\ [Next]_vars => FactsIInv'
    BY FactsStep
  <1>3. FactsIInv => SuspicionMonotone
    <2> SUFFICES ASSUME facts \in Facts, verdict = Judged
                 PROVE  verdict # None => SuspicionMonotone
      BY DEF FactsIInv, FactsInv, SuspicionMonotone
    <2>1. /\ facts.shimcache \in Nat /\ facts.amcache \in Nat
          /\ facts.prefetch \in Nat /\ facts.service \in ServiceStates
          /\ facts.write \in Int /\ facts.acquired \in Int
          /\ facts.si \in Int /\ facts.fn \in Int
          /\ Counts \subseteq Nat /\ Instants \subseteq Int
      BY FactsAssumption DEF Facts
    <2>2. /\ verdict.flush = AppcompatFlush(facts.shimcache, facts.write,
                                            facts.acquired)
          /\ verdict.suppression = SysmainSuppression(facts.amcache,
                                     facts.prefetch, facts.service)
          /\ verdict.timestomp = MftTimestomp(facts.si, facts.fn)
      BY DEF Judged
    <2>3. ASSUME NEW n \in Counts
          PROVE  /\ Severity(AppcompatFlush(facts.shimcache + n, facts.write,
                                            facts.acquired))
                      <= Severity(verdict.flush)
                 /\ Severity(SysmainSuppression(facts.amcache,
                              facts.prefetch + n, facts.service))
                      <= Severity(verdict.suppression)
                 /\ Severity(SysmainSuppression(facts.amcache + n,
                              facts.prefetch, facts.service))
                      >= Severity(verdict.suppression)
      <3>1. n \in Nat
        BY <2>1
      <3>2. Severity(AppcompatFlush(facts.shimcache + n, facts.write,
                                    facts.acquired))
              <= Severity(verdict.flush)
        BY <2>1, <2>2, <3>1, FlushMonotoneInRows
      <3>3. /\ Severity(SysmainSuppression(facts.amcache, facts.prefetch + n,
                                           facts.service))
                 <= Severity(verdict.suppression)
            /\ Severity(SysmainSuppression(facts.amcache + n, facts.prefetch,
                                           facts.service))
                 >= Severity(verdict.suppression)
        BY <2>1, <2>2, <3>1, SuppressionMonotone
      <3> QED
        BY <3>2, <3>3
    <2>4. ASSUME NEW t \in Instants
          PROVE  /\ (t <= facts.write /\ facts.acquired - t <= FlushWindow) =>
                      Severity(AppcompatFlush(facts.shimcache, t,
                                              facts.acquired))
                        >= Severity(verdict.flush)
                 /\ t <= facts.si =>
                      Severity(MftTimestomp(t, facts.fn))
                        >= Severity(verdict.timestomp)
                 /\ t >= facts.fn =>
                      Severity(MftTimestomp(facts.si, t))
                        >= Severity(verdict.timestomp)
      <3>1. t \in Int
        BY <2>1
      <3> QED
        BY <2>1, <2>2, <3>1, FlushMonotone, TimestompMonotone
    <2>5. /\ facts.write > facts.acquired => verdict.flush = "none"
          /\ facts.si >= facts.fn => verdict.timestomp = "none"
      BY <2>1, <2>2, FlushMonotone, TimestompMonotone
    <2> QED
      BY <2>3, <2>4, <2>5 DEF SuspicionMonotone
  <1>4. QED
    BY <1>1, <1>2, <1>3, PTL DEF Spec

-----------------------------------------------------------------------------
(* What the sanitizer makes of a word, symbol by symbol: each of its folds *)
(* is a run over the word.                                                 *)

Chars == Symbols \cup {"[", "]", "T"}

Weighs(h, word) ==
    /\ h[0] = 0 /\ h[Len(word)] = Bytes(word)
    /\ \A k \in 1..Len(word) : h[k] = h[k - 1] + Width(word[k])

(* The bytes are counted from the first symbol to the last.                *)
LEMMA BytesRun ==
    ASSUME NEW word \in Seq(Chars)
    PROVE  \E h \in [0..Len(word) -> Nat] : Weighs(h, word)
  <1> DEFINE n == Len(word)
             V == Nat
             base == 0
             Step(acc, c) == acc + Width(c)
             op == [p \in (1..n) \X V |-> Step(p[2], word[p[1]])]
             Is(f) == f = [s \in SUBSET DOMAIN word |->
                            IF s = {} THEN base
                            ELSE Step(f[s \ {Max(s)}], word[Max(s)])]
             run == CHOOSE f : Is(f)
  <1>0. \A v \in V, c \in Chars : Step(v, c) \in V
    BY DEF Width
  <1>1. /\ n \in Nat /\ base \in V /\ op \in [(1..n) \X V -> V]
        /\ DOMAIN word = 1..n
        /\ \A k \in 1..n, v \in V : op[<<k, v>>] = Step(v, word[k])
    <2>1. n \in Nat /\ base \in V /\ DOMAIN word = 1..n
          /\ \A k \in 1..n : word[k] \in Chars
      OBVIOUS
    <2> HIDE DEF V, Step, n
    <2> QED
      BY <1>0, <2>1
  <1> HIDE DEF op
  <1>2. \E f : Is(f)
    <2> HIDE DEF n, V, base, Step
    <2>1. PICK f \in [SUBSET (1..n) -> V] : SolvesLeft(f, n, V, base, op)
      BY <1>1, LeftFoldExists
    <2>2. Is(f)
      BY <1>1, <2>1 DEF SolvesLeft
    <2> HIDE DEF Is
    <2> QED
      BY <2>2
  <1>3. Is(run)
    <2> HIDE DEF Is
    <2> QED
      BY <1>2, Zenon
  <1>4. Bytes(word) = run[1..n]
    <2>1. Bytes(word) = run[DOMAIN word]
      BY DEF Bytes, FoldLeft, MapThenFoldSet
    <2> QED
      BY <1>1, <2>1
  <1> HIDE DEF run
  <1>5. FoldsLeft(run, n, V, base, op)
    <2> HIDE DEF n, V, base, Step
    <2>1. \A s \in SUBSET (1..n) : s # {} => Max(s) \in 1..n
      <3>1. SUBSET (1..n) \subseteq SUBSET (0..n)
        OBVIOUS
      <3> QED
        BY <1>1, <3>1, MaxIsIn
    <2> QED
      BY <1>1, <1>3, <2>1 DEF FoldsLeft
  <1>6. PICK h \in [0..n -> V] :
           /\ h[0] = base /\ h[n] = run[1..n]
           /\ \A k \in 1..n : h[k] = op[<<k, h[k - 1]>>]
    <2>1. HasRun(run, n, V, base, op)
      <3> HIDE DEF n, V, base
      <3> QED
        BY <1>1, <1>5, LeftFold
    <2> QED
      BY <2>1 DEF HasRun
  <1>7. \A k \in 1..n : h[k] = Step(h[k - 1], word[k])
    <2>1. \A k \in 1..n : h[k - 1] \in V
      OBVIOUS
    <2> HIDE DEF V, Step, n
    <2> QED
      BY <1>1, <1>6, <2>1
  <1>8. Weighs(h, word)
    BY <1>4, <1>6, <1>7 DEF Weighs
  <1> QED
    BY <1>8

StripsTo(h, word) ==
    /\ h[0] = <<>> /\ h[Len(word)] = Strip(word)
    /\ \A k \in 1..Len(word) : h[k] = IF Invisible(word[k]) THEN h[k - 1]
                                      ELSE Append(h[k - 1], word[k])

(* Invisible codepoints are left out, the others copied.                   *)
LEMMA StripRun ==
    ASSUME NEW word \in Seq(Chars)
    PROVE  \E h \in [0..Len(word) -> Seq(Chars)] : StripsTo(h, word)
  <1> DEFINE n == Len(word)
             V == Seq(Chars)
             base == <<>>
             Step(acc, c) == IF Invisible(c) THEN acc ELSE Append(acc, c)
             op == [p \in (1..n) \X V |-> Step(p[2], word[p[1]])]
             Is(f) == f = [s \in SUBSET DOMAIN word |->
                            IF s = {} THEN base
                            ELSE Step(f[s \ {Max(s)}], word[Max(s)])]
             run == CHOOSE f : Is(f)
  <1>0. \A v \in V, c \in Chars : Step(v, c) \in V
    OBVIOUS
  <1>1. /\ n \in Nat /\ base \in V /\ op \in [(1..n) \X V -> V]
        /\ DOMAIN word = 1..n
        /\ \A k \in 1..n, v \in V : op[<<k, v>>] = Step(v, word[k])
    <2>1. n \in Nat /\ base \in V /\ DOMAIN word = 1..n
          /\ \A k \in 1..n : word[k] \in Chars
      OBVIOUS
    <2> HIDE DEF V, Step, n
    <2> QED
      BY <1>0, <2>1
  <1> HIDE DEF op
  <1>2. \E f : Is(f)
    <2> HIDE DEF n, V, base, Step
    <2>1. PICK f \in [SUBSET (1..n) -> V] : SolvesLeft(f, n, V, base, op)
      BY <1>1, LeftFoldExists
    <2>2. Is(f)
      BY <1>1, <2>1 DEF SolvesLeft
    <2> HIDE DEF Is
    <2> QED
      BY <2>2
  <1>3. Is(run)
    <2> HIDE DEF Is
    <2> QED
      BY <1>2, Zenon
  <1>4. Strip(word) = run[1..n]
    <2>1. Strip(word) = run[DOMAIN word]
      BY DEF Strip, FoldLeft, MapThenFoldSet
    <2> QED
      BY <1>1, <2>1
  <1> HIDE DEF run
  <1>5. FoldsLeft(run, n, V, base, op)
    <2> HIDE DEF n, V, base, Step
    <2>1. \A s \in SUBSET (1..n) : s # {} => Max(s) \in 1..n
      <3>1. SUBSET (1..n) \subseteq SUBSET (0..n)
        OBVIOUS
      <3> QED
        BY <1>1, <3>1, MaxIsIn
    <2> QED
      BY <1>1, <1>3, <2>1 DEF FoldsLeft
  <1>6. PICK h \in [0..n -> V] :
           /\ h[0] = base /\ h[n] = run[1..n]
           /\ \A k \in 1..n : h[k] = op[<<k, h[k - 1]>>]
    <2>1. HasRun(run, n, V, base, op)
      <3> HIDE DEF n, V, base
      <3> QED
        BY <1>1, <1>5, LeftFold
    <2> QED
      BY <2>1 DEF HasRun
  <1>7. \A k \in 1..n : h[k] = Step(h[k - 1], word[k])
    <2>1. \A k \in 1..n : h[k - 1] \in V
      OBVIOUS
    <2> HIDE DEF V, Step, n
    <2> QED
      BY <1>1, <1>6, <2>1
  <1>8. StripsTo(h, word)
    BY <1>4, <1>6, <1>7 DEF StripsTo
  <1> QED
    BY <1>8

RedactsTo(h, word, pattern) ==
    /\ h[0] = <<>> /\ h[Len(word)] = Redact(word, pattern)
    /\ \A k \in 1..Len(word) : h[k] =
         IF h[k - 1] # <<>> /\ <<Last(h[k - 1]), word[k]>> = pattern
         THEN Front(h[k - 1]) \o Marker
         ELSE Append(h[k - 1], word[k])

(* The second half of a pattern turns the first into the marker.           *)
LEMMA RedactRun ==
    ASSUME NEW pattern, NEW word \in Seq(Chars)
    PROVE  \E h \in [0..Len(word) -> Seq(Chars)] : RedactsTo(h, word, pattern)
  <1> DEFINE n == Len(word)
             V == Seq(Chars)
             base == <<>>
             Step(acc, c) == IF acc # <<>> /\ <<Last(acc), c>> = pattern
                             THEN Front(acc) \o Marker
                             ELSE Append(acc, c)
             op == [p \in (1..n) \X V |-> Step(p[2], word[p[1]])]
             Is(f) == f = [s \in SUBSET DOMAIN word |->
                            IF s = {} THEN base
                            ELSE Step(f[s \ {Max(s)}], word[Max(s)])]
             run == CHOOSE f : Is(f)
  <1>0. \A v \in V, c \in Chars : Step(v, c) \in V
    <2>1. Marker \in Seq(Chars)
      BY DEF Marker, Chars
    <2>2. \A acc \in Seq(Chars) : acc # <<>> => Front(acc) \in Seq(Chars)
      BY DEF Front
    <2> QED
      BY <2>1, <2>2
  <1>1. /\ n \in Nat /\ base \in V /\ op \in [(1..n) \X V -> V]
        /\ DOMAIN word = 1..n
        /\ \A k \in 1..n, v \in V : op[<<k, v>>] = Step(v, word[k])
    <2>1. n \in Nat /\ base \in V /\ DOMAIN word = 1..n
          /\ \A k \in 1..n : word[k] \in Chars
      OBVIOUS
    <2> HIDE DEF V, Step, n
    <2> QED
      BY <1>0, <2>1
  <1> HIDE DEF op
  <1>2. \E f : Is(f)
    <2> HIDE DEF n, V, base, Step
    <2>1. PICK f \in [SUBSET (1..n) -> V] : SolvesLeft(f, n, V, base, op)
      BY <1>1, LeftFoldExists
    <2>2. Is(f)
      BY <1>1, <2>1 DEF SolvesLeft
    <2> HIDE DEF Is
    <2> QED
      BY <2>2
  <1>3. Is(run)
    <2> HIDE DEF Is
    <2> QED
      BY <1>2, Zenon
  <1>4. Redact(word, pattern) = run[1..n]
    <2>1. Redact(word, pattern) = run[DOMAIN word]
      BY DEF Redact, FoldLeft, MapThenFoldSet
    <2> QED
      BY <1>1, <2>1
  <1> HIDE DEF run
  <1>5. FoldsLeft(run, n, V, base, op)
    <2> HIDE DEF n, V, base, Step
    <2>1. \A s \in SUBSET (1..n) : s # {} => Max(s) \in 1..n
      <3>1. SUBSET (1..n) \subseteq SUBSET (0..n)
        OBVIOUS
      <3> QED
        BY <1>1, <3>1, MaxIsIn
    <2> QED
      BY <1>1, <1>3, <2>1 DEF FoldsLeft
  <1>6. PICK h \in [0..n -> V] :
           /\ h[0] = base /\ h[n] = run[1..n]
           /\ \A k \in 1..n : h[k] = op[<<k, h[k - 1]>>]
    <2>1. HasRun(run, n, V, base, op)
      <3> HIDE DEF n, V, base
      <3> QED
        BY <1>1, <1>5, LeftFold
    <2> QED
      BY <2>1 DEF HasRun
  <1>7. \A k \in 1..n : h[k] = Step(h[k - 1], word[k])
    <2>1. \A k \in 1..n : h[k - 1] \in V
      OBVIOUS
    <2> HIDE DEF V, Step, n
    <2> QED
      BY <1>1, <1>6, <2>1
  <1>8. RedactsTo(h, word, pattern)
    BY <1>4, <1>6, <1>7 DEF RedactsTo
  <1> QED
    BY <1>8

(* The patterns are redacted one after the other.                          *)
LEMMA RedactAllIs ==
    ASSUME NEW word \in Seq(Chars)
    PROVE  RedactAll(word) = Redact(Redact(word, <<"x", "y">>), <<"x", "z">>)
  <1> DEFINE n == Len(Patterns)
             V == Seq(Chars)
             base == word
             Step(acc, p) == Redact(acc, p)
             op == [p \in (1..n) \X V |-> Step(p[2], Patterns[p[1]])]
             Is(f) == f = [s \in SUBSET DOMAIN Patterns |->
                            IF s = {} THEN base
                            ELSE Step(f[s \ {Max(s)}], Patterns[Max(s)])]
             run == CHOOSE f : Is(f)
  <1>0. \A v \in V, p \in Range(Patterns) : Step(v, p) \in V
    <2> SUFFICES ASSUME NEW v \in Seq(Chars),
                        NEW p \in Range(Patterns)
                 PROVE  Redact(v, p) \in Seq(Chars)
      OBVIOUS
    <2>1. PICK h \in [0..Len(v) -> Seq(Chars)] : RedactsTo(h, v, p)
      BY RedactRun
    <2>2. Len(v) \in 0..Len(v)
      OBVIOUS
    <2> QED
      BY <2>1, <2>2 DEF RedactsTo
  <1>1. /\ n \in Nat /\ base \in V /\ op \in [(1..n) \X V -> V]
        /\ DOMAIN Patterns = 1..n
        /\ \A k \in 1..n, v \in V : op[<<k, v>>] = Step(v, Patterns[k])
    <2>1. n \in Nat /\ base \in V /\ DOMAIN Patterns = 1..n
          /\ \A k \in 1..n : Patterns[k] \in Range(Patterns)
      BY DEF Patterns, Range
    <2> HIDE DEF V, Step, n
    <2> QED
      BY <1>0, <2>1
  <1> HIDE DEF op
  <1>2. \E f : Is(f)
    <2> HIDE DEF n, V, base, Step
    <2>1. PICK f \in [SUBSET (1..n) -> V] : SolvesLeft(f, n, V, base, op)
      BY <1>1, LeftFoldExists
    <2>2. Is(f)
      BY <1>1, <2>1 DEF SolvesLeft
    <2> HIDE DEF Is
    <2> QED
      BY <2>2
  <1>3. Is(run)
    <2> HIDE DEF Is
    <2> QED
      BY <1>2, Zenon
  <1>4. RedactAll(word) = run[1..n]
    <2>1. RedactAll(word) = run[DOMAIN Patterns]
      BY DEF RedactAll, FoldLeft, MapThenFoldSet
    <2> QED
      BY <1>1, <2>1
  <1> HIDE DEF run
  <1>5. FoldsLeft(run, n, V, base, op)
    <2> HIDE DEF n, V, base, Step
    <2>1. \A s \in SUBSET (1..n) : s # {} => Max(s) \in 1..n
      <3>1. SUBSET (1..n) \subseteq SUBSET (0..n)
        OBVIOUS
      <3> QED
        BY <1>1, <3>1, MaxIsIn
    <2> QED
      BY <1>1, <1>3, <2>1 DEF FoldsLeft
  <1>6. PICK h \in [0..n -> V] :
           /\ h[0] = base /\ h[n] = run[1..n]
           /\ \A k \in 1..n : h[k] = op[<<k, h[k - 1]>>]
    <2>1. HasRun(run, n, V, base, op)
      <3> HIDE DEF n, V, base
      <3> QED
        BY <1>1, <1>5, LeftFold
    <2> QED
      BY <2>1 DEF HasRun
  <1>7. \A k \in 1..n : h[k] = Step(h[k - 1], Patterns[k])
    <2>1. \A k \in 1..n : h[k - 1] \in V
      OBVIOUS
    <2> HIDE DEF V, Step, n
    <2> QED
      BY <1>1, <1>6, <2>1
  <1>8. h[1] = Redact(h[0], Patterns[1]) /\ h[2] = Redact(h[1], Patterns[2])
    <2>1. 1 \in 1..n /\ 2 \in 1..n /\ 1 - 1 = 0 /\ 2 - 1 = 1
      BY DEF Patterns
    <2> HIDE DEF n
    <2> QED
      BY <1>7, <2>1
  <1>9. n = 2 /\ Patterns[1] = <<"x", "y">> /\ Patterns[2] = <<"x", "z">>
    BY DEF Patterns
  <1> QED
    BY <1>4, <1>6, <1>8, <1>9

Brackets == {"[", "]"}

(* What Append makes of a text.                                            *)
LEMMA Grows ==
    ASSUME NEW s \in Seq(Chars), NEW c \in Chars
    PROVE  /\ Append(s, c) \in Seq(Chars)
           /\ Len(Append(s, c)) = Len(s) + 1
           /\ Append(s, c)[Len(s) + 1] = c
           /\ \A i \in 1..Len(s) : Append(s, c)[i] = s[i]
  OBVIOUS

(* What a redaction makes of the text before it.                           *)
LEMMA Marked ==
    ASSUME NEW s \in Seq(Chars), s # <<>>
    PROVE  LET t == Front(s) \o Marker IN
           /\ t \in Seq(Chars)
           /\ Len(t) = Len(s) + 1
           /\ t[Len(s)] = "[" /\ t[Len(s) + 1] = "]"
           /\ \A i \in 1..(Len(s) - 1) : t[i] = s[i]
  <1> DEFINE f == Front(s)
             m == Marker
  <1>0. Len(s) \in Nat \ {0}
    OBVIOUS
  <1>1. f \in Seq(Chars) /\ Len(f) = Len(s) - 1
        /\ \A i \in 1..(Len(s) - 1) : f[i] = s[i]
    <2>1. PICK k \in 1..Len(s) : k = Len(s)
      BY <1>0
    <2>2. f = SubSeq(s, 1, k - 1)
      BY <2>1 DEF Front
    <2>3. SubSeq(s, 1, k - 1) \in Seq(Chars)
          /\ Len(SubSeq(s, 1, k - 1)) = k - 1
          /\ \A i \in 1..(k - 1) : SubSeq(s, 1, k - 1)[i] = s[i]
      OBVIOUS
    <2> HIDE DEF f
    <2> QED
      BY <2>1, <2>2, <2>3
  <1>2. m \in Seq(Chars) /\ Len(m) = 2 /\ m[1] = "[" /\ m[2] = "]"
    BY DEF Marker, Chars
  <1> HIDE DEF f, m
  <1>3. /\ f \o m \in Seq(Chars)
        /\ Len(f \o m) = Len(f) + Len(m)
        /\ \A i \in 1..(Len(f) + Len(m)) :
             (f \o m)[i] = IF i <= Len(f) THEN f[i] ELSE m[i - Len(f)]
    BY <1>1, <1>2, ConcatProperties
  <1>4. /\ f \o m \in Seq(Chars)
        /\ Len(f \o m) = Len(s) + 1
        /\ (f \o m)[Len(s)] = "[" /\ (f \o m)[Len(s) + 1] = "]"
        /\ \A i \in 1..(Len(s) - 1) : (f \o m)[i] = s[i]
    BY <1>0, <1>1, <1>2, <1>3
  <1> QED
    BY <1>4 DEF f, m

(* A prefix is the one before it and a symbol.                             *)
LEMMA PrefixGrows ==
    ASSUME NEW s \in Seq(Chars), NEW k \in 1..Len(s)
    PROVE  SubSeq(s, 1, k) = Append(SubSeq(s, 1, k - 1), s[k])
  <1>1. SubSeq(s, 1, k) \in Seq(Chars) /\ Len(SubSeq(s, 1, k)) = k
        /\ \A i \in 1..k : SubSeq(s, 1, k)[i] = s[i]
    OBVIOUS
  <1>2. SubSeq(s, 1, k - 1) \in Seq(Chars) /\ Len(SubSeq(s, 1, k - 1)) = k - 1
        /\ \A i \in 1..(k - 1) : SubSeq(s, 1, k - 1)[i] = s[i]
    OBVIOUS
  <1>3. s[k] \in Chars
    OBVIOUS
  <1> DEFINE a == SubSeq(s, 1, k - 1)
             b == SubSeq(s, 1, k)
  <1> HIDE DEF a, b
  <1>4. Append(a, s[k]) \in Seq(Chars) /\ Len(Append(a, s[k])) = k
        /\ \A i \in 1..k : Append(a, s[k])[i] = s[i]
    BY <1>2, <1>3, Grows DEF a
  <1>5. b = Append(a, s[k])
    BY <1>1, <1>4, SeqEqual DEF b
  <1> QED
    BY <1>5 DEF a, b

(* Nothing invisible is left, and a text without it stays as it is.        *)
LEMMA StripFacts ==
    ASSUME NEW word \in Seq(Chars)
    PROVE  /\ Strip(word) \in Seq(Chars)
           /\ \A i \in 1..Len(Strip(word)) : ~Invisible(Strip(word)[i])
           /\ (\A i \in 1..Len(word) : ~Invisible(word[i])) =>
                Strip(word) = word
  <1> DEFINE n == Len(word)
             Plain == \A i \in 1..n : ~Invisible(word[i])
  <1>r. PICK h \in [0..n -> Seq(Chars)] : StripsTo(h, word)
    BY StripRun
  <1>1. /\ h[0] = <<>> /\ h[n] = Strip(word)
        /\ \A k \in 1..n : h[k] = IF Invisible(word[k]) THEN h[k - 1]
                                  ELSE Append(h[k - 1], word[k])
    BY <1>r DEF StripsTo
  <1> DEFINE J(k) == /\ \A i \in 1..Len(h[k]) : ~Invisible(h[k][i])
                     /\ Plain => h[k] = SubSeq(word, 1, k)
             Good == {k \in 0..n : J(k)}
  <1>2. n \in Nat /\ \A k \in 1..n : word[k] \in Chars
    OBVIOUS
  <1>3. 0 \in Good
    <2>1. SubSeq(word, 1, 0) = <<>>
      BY SubSeqEmpty
    <2> QED
      BY <1>1, <1>2, <2>1
  <1>4. ASSUME NEW k \in 1..n, k - 1 \in Good PROVE k \in Good
    <2>1. h[k - 1] \in Seq(Chars) /\ J(k - 1) /\ word[k] \in Chars
      BY <1>2, <1>4
    <2>2. CASE Invisible(word[k])
      <3>1. h[k] = h[k - 1]
        BY <1>1, <2>2
      <3> QED
        BY <1>2, <2>1, <2>2, <3>1
    <2>3. CASE ~Invisible(word[k])
      <3>1. h[k] = Append(h[k - 1], word[k])
        BY <1>1, <2>3
      <3>2. \A i \in 1..Len(h[k]) : ~Invisible(h[k][i])
        <4>1. /\ Len(h[k]) = Len(h[k - 1]) + 1
              /\ h[k][Len(h[k - 1]) + 1] = word[k]
              /\ \A i \in 1..Len(h[k - 1]) : h[k][i] = h[k - 1][i]
          BY <2>1, <3>1, Grows
        <4>2. Len(h[k - 1]) \in Nat
          BY <2>1
        <4> QED
          BY <2>1, <2>3, <4>1, <4>2
      <3>3. SubSeq(word, 1, k) = Append(SubSeq(word, 1, k - 1), word[k])
        BY PrefixGrows
      <3>4. Plain => h[k] = SubSeq(word, 1, k)
        <4> HIDE DEF Plain
        <4> QED
          BY <2>1, <3>1, <3>3
      <3> HIDE DEF Plain
      <3> QED
        BY <1>2, <3>2, <3>4
    <2> QED
      BY <2>2, <2>3
  <1>5. J(n)
    <2> HIDE DEF Good, n
    <2>1. \A k \in 0..n : k \in Good
      BY <1>2, <1>3, <1>4, UptoInduction
    <2>2. n \in 0..n
      BY <1>2
    <2> QED
      BY <2>1, <2>2 DEF Good
  <1>6. SubSeq(word, 1, n) = word
    BY SubSeqFull
  <1>7. h[n] \in Seq(Chars)
    BY <1>2
  <1> QED
    BY <1>1, <1>5, <1>6, <1>7
(* What is in a word, and two neighbours in it.                            *)
In(x, s) == \E i \in 1..Len(s) : s[i] = x

Beside(x, y, s) == \E i \in 1..(Len(s) - 1) : s[i] = x /\ s[i + 1] = y

(* A pattern occurs where its halves are neighbours.                       *)
LEMMA OccursIsBeside ==
    ASSUME NEW s \in Seq(Chars), NEW x, NEW y
    PROVE  Occurs(<<x, y>>, s) <=> Beside(x, y, s)
  <1>1. ASSUME NEW k \in 1..(Len(s) - 1)
        PROVE  SubSeq(s, k, k + 1) = <<s[k], s[k + 1]>>
    <2> DEFINE t == SubSeq(s, k, k + 1)
    <2>1. k \in 1..Len(s) /\ k + 1 \in 1..Len(s) /\ k \in Int /\ k + 1 \in Int
      OBVIOUS
    <2>2. \A i \in k..(k + 1) : s[i] \in Chars
      BY <2>1
    <2>3. t \in Seq(Chars) /\ Len(t) = 2 /\ t[1] = s[k] /\ t[2] = s[k + 1]
      <3>1. t \in Seq(Chars)
            /\ Len(t) = (IF k <= k + 1 THEN (k + 1) - k + 1 ELSE 0)
            /\ \A i \in 1..((k + 1) - k + 1) : t[i] = s[k + i - 1]
        BY <2>1, <2>2, SubSeqProperties
      <3> QED
        BY <2>1, <3>1
    <2> HIDE DEF t
    <2>4. t = <<t[1], t[2]>>
      BY <2>3
    <2> QED
      BY <2>3, <2>4 DEF t
  <1> QED
    BY <1>1 DEF Occurs, Beside

(* An appended symbol has one new neighbour, the last of the text.         *)
LEMMA AppendParts ==
    ASSUME NEW s \in Seq(Chars), NEW c \in Chars
    PROVE  /\ Append(s, c) \in Seq(Chars)
           /\ Append(s, c) # <<>> /\ Last(Append(s, c)) = c
           /\ \A x : In(x, Append(s, c)) => In(x, s) \/ x = c
           /\ \A x, y : Beside(x, y, Append(s, c)) =>
                Beside(x, y, s) \/ (s # <<>> /\ x = Last(s) /\ y = c)
  <1> DEFINE t == Append(s, c)
  <1>1. /\ t \in Seq(Chars) /\ Len(t) = Len(s) + 1 /\ t[Len(s) + 1] = c
        /\ \A i \in 1..Len(s) : t[i] = s[i]
        /\ Len(s) \in Nat /\ (Len(s) # 0 => s # <<>>)
    BY Grows
  <1> HIDE DEF t
  <1>2. t # <<>> /\ Last(t) = c
    BY <1>1 DEF Last
  <1>3. \A x : In(x, t) => In(x, s) \/ x = c
    BY <1>1 DEF In
  <1>4. ASSUME NEW x, NEW y, Beside(x, y, t)
        PROVE  Beside(x, y, s) \/ (s # <<>> /\ x = Last(s) /\ y = c)
    <2>1. PICK i \in 1..(Len(t) - 1) : t[i] = x /\ t[i + 1] = y
      BY <1>4 DEF Beside
    <2>2. CASE i = Len(s)
      BY <1>1, <2>1, <2>2 DEF Last
    <2>3. CASE i # Len(s)
      <3>1. i \in 1..(Len(s) - 1) /\ s[i] = x /\ s[i + 1] = y
        BY <1>1, <2>1, <2>3
      <3> QED
        BY <3>1 DEF Beside
    <2> QED
      BY <2>2, <2>3
  <1> QED
    BY <1>1, <1>2, <1>3, <1>4 DEF t

(* A redaction makes no neighbours that do not touch the marker.           *)
LEMMA MarkedParts ==
    ASSUME NEW s \in Seq(Chars), s # <<>>
    PROVE  LET t == Front(s) \o Marker IN
           /\ t \in Seq(Chars)
           /\ t # <<>> /\ Last(t) = "]"
           /\ \A x : In(x, t) => In(x, s) \/ x \in Brackets
           /\ \A x, y \in Chars \ Brackets : Beside(x, y, t) => Beside(x, y, s)
  <1> DEFINE t == Front(s) \o Marker
  <1>0. Len(s) \in Nat \ {0}
    OBVIOUS
  <1>1. /\ t \in Seq(Chars) /\ Len(t) = Len(s) + 1
        /\ t[Len(s)] = "[" /\ t[Len(s) + 1] = "]"
        /\ \A i \in 1..(Len(s) - 1) : t[i] = s[i]
    BY Marked
  <1> HIDE DEF t
  <1>2. t # <<>> /\ Last(t) = "]"
    BY <1>0, <1>1 DEF Last
  <1>3. ASSUME NEW x, In(x, t)
        PROVE  In(x, s) \/ x \in Brackets
    <2>1. PICK i \in 1..(Len(s) + 1) : t[i] = x
      BY <1>0, <1>1, <1>3 DEF In
    <2>2. CASE i \in 1..(Len(s) - 1)
      BY <1>0, <1>1, <2>1, <2>2 DEF In
    <2>3. CASE i = Len(s) \/ i = Len(s) + 1
      BY <1>0, <1>1, <2>1, <2>3 DEF Brackets
    <2> QED
      BY <1>0, <1>1, <2>2, <2>3
  <1>4. ASSUME NEW x \in Chars \ Brackets, NEW y \in Chars \ Brackets,
               Beside(x, y, t)
        PROVE  Beside(x, y, s)
    <2>1. PICK i \in 1..Len(s) : t[i] = x /\ t[i + 1] = y
      BY <1>0, <1>1, <1>4 DEF Beside
    <2>2. i # Len(s) /\ i + 1 # Len(s)
      BY <1>0, <1>1, <2>1 DEF Brackets
    <2>3. i \in 1..(Len(s) - 1) /\ i + 1 \in 1..(Len(s) - 1)
      BY <1>0, <1>1, <2>2
    <2> QED
      BY <1>0, <1>1, <2>1, <2>3 DEF Beside
  <1> QED
    BY <1>0, <1>1, <1>2, <1>3, <1>4 DEF t

(* Symbols of a text, and the ones before them.                            *)
LEMMA TextParts ==
    ASSUME NEW word \in Seq(Chars), NEW k \in 1..Len(word)
    PROVE  /\ In(word[k], word)
           /\ k > 1 => Beside(word[k - 1], word[k], word)
  <1>1. k > 1 => k - 1 \in 1..(Len(word) - 1) /\ (k - 1) + 1 = k
    OBVIOUS
  <1> QED
    BY <1>1 DEF In, Beside

(* The pattern is gone, no other symbols but those of the marker have      *)
(* become neighbours, and a text without the pattern stays as it is.  The  *)
(* marker between two symbols never joins them to a new pattern.           *)
LEMMA RedactFacts ==
    ASSUME NEW word \in Seq(Chars), NEW a \in Chars \ Brackets,
           NEW b \in Chars \ Brackets
    PROVE  LET tidy == Redact(word, <<a, b>>) IN
           /\ tidy \in Seq(Chars)
           /\ ~Beside(a, b, tidy)
           /\ \A x : In(x, tidy) => x \in Brackets \/ In(x, word)
           /\ \A x, y \in Chars \ Brackets :
                Beside(x, y, tidy) => Beside(x, y, word)
           /\ ~Beside(a, b, word) => tidy = word
  <1> DEFINE n == Len(word)
             p == <<a, b>>
             Hit(s, c) == s # <<>> /\ <<Last(s), c>> = p
  <1> HIDE DEF p
  <1>r. PICK h \in [0..n -> Seq(Chars)] : RedactsTo(h, word, p)
    BY RedactRun
  <1>1. /\ h[0] = <<>> /\ h[n] = Redact(word, p)
        /\ \A k \in 1..n : h[k] = IF Hit(h[k - 1], word[k])
                                  THEN Front(h[k - 1]) \o Marker
                                  ELSE Append(h[k - 1], word[k])
    BY <1>r DEF RedactsTo
  <1> USE DEF p
  <1> DEFINE From(s) == \A x : In(x, s) => x \in Brackets \/ In(x, word)
             Tops(s, k) ==
               s # <<>> => Last(s) = "]" \/ (k > 0 /\ Last(s) = word[k])
             Gone(s) == ~Beside(a, b, s)
             Old(s) == \A x, y \in Chars \ Brackets :
                         Beside(x, y, s) => Beside(x, y, word)
             Same(s, k) == ~Beside(a, b, word) => s = SubSeq(word, 1, k)
             Inv(s, k) ==
               From(s) /\ Tops(s, k) /\ Gone(s) /\ Old(s) /\ Same(s, k)
             Good == {k \in 0..n : Inv(h[k], k)}
  <1>2. n \in Nat /\ \A k \in 1..n : word[k] \in Chars
    OBVIOUS
  <1>3. 0 \in Good
    <2>1. SubSeq(word, 1, 0) = <<>>
      BY SubSeqEmpty
    <2>2. \A x, y : ~In(x, <<>>) /\ ~Beside(x, y, <<>>)
      BY DEF In, Beside
    <2>3. Inv(<<>>, 0)
      BY <2>1, <2>2
    <2> HIDE DEF Inv
    <2> QED
      BY <1>1, <1>2, <2>3
  <1>4. ASSUME NEW k \in 1..n, NEW s \in Seq(Chars), NEW t, Inv(s, k - 1),
               t = IF Hit(s, word[k]) THEN Front(s) \o Marker
                   ELSE Append(s, word[k])
        PROVE  Inv(t, k)
    <2>1. word[k] \in Chars /\ In(word[k], word)
      BY <1>2, TextParts
    <2>2. CASE Hit(s, word[k])
      <3>1. /\ t # <<>> /\ Last(t) = "]"
            /\ \A x : In(x, t) => In(x, s) \/ x \in Brackets
            /\ \A x, y \in Chars \ Brackets :
                 Beside(x, y, t) => Beside(x, y, s)
        BY <1>4, <2>2, MarkedParts
      <3>2. Last(s) = a /\ word[k] = b /\ s # <<>> /\ a # "]"
        BY <2>2 DEF Brackets
      <3>3. k > 1 /\ word[k - 1] = a
        BY <1>2, <1>4, <3>2
      <3>4. Beside(a, b, word)
        BY <3>2, <3>3, TextParts
      <3> QED
        BY <1>4, <3>1, <3>4
    <2>3. CASE ~Hit(s, word[k])
      <3>1. /\ t # <<>> /\ Last(t) = word[k]
            /\ \A x : In(x, t) => In(x, s) \/ x = word[k]
            /\ \A x, y : Beside(x, y, t) =>
                 Beside(x, y, s) \/ (s # <<>> /\ x = Last(s) /\ y = word[k])
        BY <1>4, <2>1, <2>3, AppendParts
      <3>2. From(t) /\ Tops(t, k)
        BY <1>2, <1>4, <2>1, <3>1
      <3>3. Gone(t)
        BY <1>4, <2>3, <3>1
      <3>4. Old(t)
        <4>1. ASSUME s # <<>>, Last(s) \notin Brackets
              PROVE  Beside(Last(s), word[k], word)
          <5>1. k > 1 /\ Last(s) = word[k - 1]
            BY <1>2, <1>4, <4>1 DEF Brackets
          <5> QED
            BY <5>1, TextParts
        <4> QED
          BY <1>4, <3>1, <4>1
      <3>5. Same(t, k)
        <4>1. SubSeq(word, 1, k) = Append(SubSeq(word, 1, k - 1), word[k])
          BY PrefixGrows
        <4>2. t = Append(s, word[k])
          BY <1>4, <2>3
        <4> QED
          BY <1>4, <4>1, <4>2
      <3> QED
        BY <3>2, <3>3, <3>4, <3>5
    <2> QED
      BY <2>2, <2>3
  <1>5. Inv(h[n], n)
    <2> HIDE DEF n, Inv, Hit
    <2>1. ASSUME NEW k \in 1..n, k - 1 \in Good PROVE k \in Good
      <3>1. h[k - 1] \in Seq(Chars) /\ Inv(h[k - 1], k - 1) /\ k \in 0..n
        BY <1>2, <2>1
      <3> QED
        BY <1>1, <1>4, <3>1
    <2> HIDE DEF Good
    <2>2. \A k \in 0..n : k \in Good
      BY <1>2, <1>3, <2>1, UptoInduction
    <2>3. n \in 0..n
      BY <1>2
    <2> QED
      BY <2>2, <2>3 DEF Good
  <1>6. SubSeq(word, 1, n) = word
    BY SubSeqFull
  <1>7. h[n] \in Seq(Chars)
    BY <1>2
  <1> HIDE DEF Hit, p
  <1> QED
    BY <1>1, <1>5, <1>6, <1>7 DEF p
(* Bytes add up.                                                           *)
LEMMA BytesGrow ==
    ASSUME NEW s \in Seq(Chars), NEW c \in Chars
    PROVE  /\ Bytes(s) \in Nat
           /\ Bytes(Append(s, c)) = Bytes(s) + Width(c)
  <1> DEFINE n == Len(s)
             t == Append(s, c)
  <1>1. /\ t \in Seq(Chars) /\ Len(t) = n + 1 /\ t[n + 1] = c
        /\ \A i \in 1..n : t[i] = s[i]
        /\ n \in Nat
    BY Grows
  <1> HIDE DEF t
  <1>2. PICK g \in [0..Len(s) -> Nat] : Weighs(g, s)
    BY BytesRun
  <1>3. PICK h \in [0..Len(t) -> Nat] : Weighs(h, t)
    BY <1>1, BytesRun
  <1> DEFINE Good == {k \in 0..n : g[k] = h[k]}
  <1>4. 0 \in Good
    BY <1>1, <1>2, <1>3 DEF Weighs
  <1>5. ASSUME NEW k \in 1..n, k - 1 \in Good PROVE k \in Good
    <2>1. g[k] = g[k - 1] + Width(s[k])
      BY <1>2 DEF Weighs
    <2>2. h[k] = h[k - 1] + Width(t[k]) /\ t[k] = s[k]
      BY <1>1, <1>3 DEF Weighs
    <2> QED
      BY <1>1, <1>5, <2>1, <2>2
  <1>6. n \in Good
    <2> HIDE DEF Good, n
    <2>1. \A k \in 0..n : k \in Good
      BY <1>1, <1>4, <1>5, UptoInduction
    <2> QED
      BY <1>1, <2>1
  <1>7. h[n + 1] = h[n] + Width(t[n + 1])
    BY <1>1, <1>3 DEF Weighs
  <1>8. Bytes(s) \in Nat
    BY <1>1, <1>2 DEF Weighs
  <1>9. Bytes(t) = Bytes(s) + Width(c)
    BY <1>1, <1>2, <1>3, <1>6, <1>7 DEF Weighs
  <1> QED
    BY <1>8, <1>9 DEF t

(* The note has one symbol.                                                *)
LEMMA NoteBytes == Bytes(<<>>) = 0 /\ Bytes(Note) = 1
  <1>1. <<>> \in Seq(Chars) /\ "T" \in Chars /\ Len(<<>>) = 0
    BY DEF Chars
  <1>2. PICK h \in [0..Len(<<>>) -> Nat] : Weighs(h, <<>>)
    BY <1>1, BytesRun
  <1>3. Bytes(<<>>) = 0
    BY <1>1, <1>2 DEF Weighs
  <1>4. Bytes(Append(<<>>, "T")) = 0 + Width("T")
    BY <1>1, <1>3, BytesGrow
  <1>5. Note = Append(<<>>, "T") /\ Width("T") = 1
    BY DEF Note, Width
  <1> QED
    BY <1>3, <1>4, <1>5

(* Innocence, by symbols and neighbours.                                   *)
LEMMA InnocentParts ==
    ASSUME NEW s \in Seq(Chars)
    PROVE  Innocent(s) <=> /\ ~In("i", s)
                           /\ ~Beside("x", "y", s)
                           /\ ~Beside("x", "z", s)
  <1>1. /\ Len(Patterns) = 2
        /\ Patterns[1] = <<"x", "y">> /\ Patterns[2] = <<"x", "z">>
    BY DEF Patterns
  <1>2. Occurs(<<"x", "y">>, s) <=> Beside("x", "y", s)
    BY OccursIsBeside
  <1>3. Occurs(<<"x", "z">>, s) <=> Beside("x", "z", s)
    BY OccursIsBeside
  <1>4. (\A p \in 1..Len(Patterns) : ~Occurs(Patterns[p], s))
          <=> ~Occurs(<<"x", "y">>, s) /\ ~Occurs(<<"x", "z">>, s)
    <2> HIDE DEF Patterns
    <2> QED
      BY <1>1
  <1>5. (\A k \in 1..Len(s) : ~Invisible(s[k])) <=> ~In("i", s)
    BY DEF Invisible, In
  <1> QED
    BY <1>2, <1>3, <1>4, <1>5 DEF Innocent

(* The second pattern cannot bring the first one back, nor can either      *)
(* bring back an invisible codepoint.                                      *)
LEMMA CleanedFacts ==
    ASSUME NEW word \in Seq(Chars)
    PROVE  /\ Cleaned(word) \in Seq(Chars)
           /\ Innocent(Cleaned(word))
           /\ Innocent(word) => Cleaned(word) = word
  <1> DEFINE s == Strip(word)
             r == Redact(s, <<"x", "y">>)
             t == Redact(r, <<"x", "z">>)
  <1>0. /\ {"x", "y", "z", "i"} \subseteq Chars \ Brackets
        /\ "x" \in Chars \ Brackets /\ "y" \in Chars \ Brackets
        /\ "z" \in Chars \ Brackets
    BY DEF Chars, Symbols, Brackets
  <1>1. /\ s \in Seq(Chars) /\ ~In("i", s)
        /\ ~In("i", word) => s = word
    BY StripFacts DEF Invisible, In
  <1> HIDE DEF s
  <1>2. /\ r \in Seq(Chars)
        /\ ~Beside("x", "y", r)
        /\ \A x : In(x, r) => x \in Brackets \/ In(x, s)
        /\ ~Beside("x", "y", s) => r = s
    BY <1>0, <1>1, RedactFacts
  <1> HIDE DEF r
  <1>3. /\ t \in Seq(Chars)
        /\ ~Beside("x", "z", t)
        /\ \A x : In(x, t) => x \in Brackets \/ In(x, r)
        /\ \A x, y \in Chars \ Brackets : Beside(x, y, t) => Beside(x, y, r)
        /\ ~Beside("x", "z", r) => t = r
    BY <1>0, <1>2, RedactFacts
  <1> HIDE DEF t
  <1>4. Cleaned(word) = t
    BY <1>1, RedactAllIs DEF Cleaned, t, r, s
  <1>5. Innocent(t)
    BY <1>0, <1>1, <1>2, <1>3, InnocentParts DEF Brackets
  <1>6. Innocent(word) => t = word
    BY <1>1, <1>2, <1>3, InnocentParts
  <1> QED
    BY <1>3, <1>4, <1>5, <1>6

(* A prefix has no neighbours of its own, the note joins none to a         *)
(* pattern, and the longest prefix that fits exists since the empty one    *)
(* does.                                                                   *)
LEMMA TruncateFacts ==
    ASSUME NEW word \in Seq(Chars), NEW maxBytes \in Nat, Innocent(word)
    PROVE  LET cut == Truncate(word, maxBytes) IN
           /\ cut \in Seq(Chars)
           /\ Innocent(cut)
           /\ Bytes(cut) <= maxBytes + Bytes(Note)
  <1> DEFINE Fit == {n \in 0..Len(word) :
                       Bytes(SubSeq(word, 1, n)) <= maxBytes}
             m == Max(Fit)
             s == SubSeq(word, 1, m)
             t == Append(s, "T")
  <1>1. m \in 0..Len(word) /\ Bytes(s) <= maxBytes
    <2>1. Len(word) \in Nat /\ 0 \in 0..Len(word)
      OBVIOUS
    <2>2. SubSeq(word, 1, 0) = <<>>
      BY SubSeqEmpty
    <2>3. 0 \in Fit
      <3>1. Bytes(SubSeq(word, 1, 0)) = 0
        BY <2>2, NoteBytes, Zenon
      <3> QED
        BY <2>1, <3>1
    <2>4. Fit \in SUBSET (0..Len(word)) /\ Fit # {}
      BY <2>3
    <2>5. m \in Fit
      <3> HIDE DEF Fit
      <3> QED
        BY <2>1, <2>4, MaxIsIn
    <2> HIDE DEF m
    <2> QED
      BY <2>5
  <1> HIDE DEF m
  <1>2. /\ s \in Seq(Chars) /\ Len(s) = m
        /\ \A i \in 1..m : s[i] = word[i]
    BY <1>1
  <1>3. "T" \in Chars /\ m \in Nat
    BY <1>1 DEF Chars
  <1>4. \A x : In(x, s) => In(x, word)
    BY <1>1, <1>2, <1>3 DEF In
  <1>5. ASSUME NEW x, NEW y, Beside(x, y, s)
        PROVE  Beside(x, y, word)
    <2> HIDE DEF s
    <2>0. PICK i \in 1..(m - 1) : s[i] = x /\ s[i + 1] = y
      BY <1>2, <1>5 DEF Beside
    <2>1. i \in 1..m /\ i + 1 \in 1..m /\ i \in 1..(Len(word) - 1)
      BY <1>1, <1>3
    <2>2. word[i] = x /\ word[i + 1] = y
      BY <1>2, <2>0, <2>1
    <2> QED
      BY <2>1, <2>2 DEF Beside
  <1>6. Bytes(s) \in Nat /\ Bytes(t) = Bytes(s) + Width("T")
    <2> HIDE DEF s
    <2> QED
      BY <1>2, <1>3, BytesGrow
  <1>7. Bytes(t) <= maxBytes + Bytes(Note)
    <2>1. Width("T") = 1
      BY DEF Width
    <2> QED
      BY <1>1, <1>6, <2>1, NoteBytes
  <1>8. /\ t \in Seq(Chars)
        /\ \A x : In(x, t) => In(x, s) \/ x = "T"
        /\ \A x, y : Beside(x, y, t) =>
             Beside(x, y, s) \/ (s # <<>> /\ x = Last(s) /\ y = "T")
    <2> HIDE DEF s
    <2> QED
      BY <1>2, <1>3, AppendParts
  <1>9. Innocent(t)
    <2> HIDE DEF s, t
    <2>1. ~In("i", word) /\ ~Beside("x", "y", word) /\ ~Beside("x", "z", word)
      BY InnocentParts
    <2>2. ~In("i", t) /\ ~Beside("x", "y", t) /\ ~Beside("x", "z", t)
      BY <1>4, <1>5, <1>8, <2>1
    <2> QED
      BY <1>8, <2>2, InnocentParts
  <1>10. Truncate(word, maxBytes) = t
    <2>1. Truncate(word, maxBytes) = s \o Note
      BY DEF Truncate, m
    <2>2. \A u \in Seq(Chars) : u \o <<"T">> = Append(u, "T")
      BY <1>3
    <2> HIDE DEF s
    <2> QED
      BY <1>2, <2>1, <2>2 DEF Note
  <1> HIDE DEF t
  <1> QED
    BY <1>7, <1>8, <1>9, <1>10

(* What sanitize returns, for every text and limit.                        *)
LEMMA SanitizeFacts ==
    ASSUME NEW raw \in Seq(Chars), NEW maxBytes \in Nat, NEW maxInput \in Nat
    PROVE  LET done == Sanitize(raw, maxBytes, maxInput) IN
           /\ done.payload \in Seq(Chars)
           /\ done.kind = "sanitized" =>
                /\ Innocent(done.payload)
                /\ Bytes(done.payload) <= maxBytes + Bytes(Note)
                /\ (Innocent(raw) /\ Bytes(raw) <= maxBytes) =>
                     done.payload = raw
                /\ ~done.truncated /\ Bytes(done.payload) <= maxInput =>
                     Sanitize(done.payload, maxBytes, maxInput).payload
                       = done.payload
  <1> DEFINE done == Sanitize(raw, maxBytes, maxInput)
             tidy == Cleaned(raw)
  <1>1. tidy \in Seq(Chars) /\ Innocent(tidy) /\ Cleaned(tidy) = tidy
        /\ (Innocent(raw) => tidy = raw)
    <2>1. tidy \in Seq(Chars) /\ Innocent(tidy)
          /\ (Innocent(raw) => tidy = raw)
      BY CleanedFacts
    <2> HIDE DEF tidy
    <2>2. Cleaned(tidy) = tidy
      BY <2>1, CleanedFacts
    <2> QED
      BY <2>1, <2>2
  <1>2. Bytes(tidy) \in Nat /\ Bytes(Note) = 1 /\ "T" \in Chars
    <2> HIDE DEF tidy
    <2>1. "T" \in Chars
      BY DEF Chars
    <2> QED
      BY <1>1, <2>1, BytesGrow, NoteBytes
  <1>3. CASE Bytes(raw) > maxInput
    <2>1. done.payload = <<>> /\ done.kind = "too_large"
      BY <1>3 DEF Sanitize
    <2> QED
      BY <2>1
  <1>4. CASE ~(Bytes(raw) > maxInput) /\ Bytes(tidy) > maxBytes
    <2> DEFINE cut == Truncate(tidy, maxBytes)
    <2>1. done.payload = cut /\ done.truncated = TRUE
      BY <1>4 DEF Sanitize
    <2>2. /\ cut \in Seq(Chars) /\ Innocent(cut)
          /\ Bytes(cut) <= maxBytes + Bytes(Note)
      <3> HIDE DEF tidy
      <3> QED
        BY <1>1, TruncateFacts
    <2>3. ~(Innocent(raw) /\ Bytes(raw) <= maxBytes)
      <3> HIDE DEF tidy
      <3> QED
        BY <1>1, <1>2, <1>4
    <2> HIDE DEF cut, done
    <2> QED
      BY <2>1, <2>2, <2>3 DEF done
  <1>5. CASE ~(Bytes(raw) > maxInput) /\ ~(Bytes(tidy) > maxBytes)
    <2>1. done.payload = tidy
      BY <1>5 DEF Sanitize
    <2> HIDE DEF tidy
    <2>2. Bytes(tidy) <= maxBytes + Bytes(Note)
      BY <1>2, <1>5
    <2>3. Bytes(tidy) <= maxInput =>
            Sanitize(tidy, maxBytes, maxInput).payload = tidy
      <3> SUFFICES ASSUME Bytes(tidy) <= maxInput
                   PROVE  Sanitize(tidy, maxBytes, maxInput).payload = tidy
        OBVIOUS
      <3>1. ~(Bytes(tidy) > maxInput)
        BY <1>2
      <3> QED
        BY <1>1, <1>5, <3>1 DEF Sanitize
    <2> HIDE DEF done
    <2> QED
      BY <1>1, <2>1, <2>2, <2>3 DEF done
  <1> QED
    BY <1>3, <1>4, <1>5

(* What is kept of the text that is sanitised.                             *)
CleanInv ==
    /\ text \in Texts \cup {None}
    /\ limit \in {MaxPayload, MaxInput}
    /\ clean # None =>
         text # None /\ clean = Sanitize(text, limit, MaxInput)

LEMMA CleanInit == Init => CleanInv
  BY DEF Init, Idle, NoText, CleanInv

LEMMA CleanStep == CleanInv /\ [Next]_vars => CleanInv'
  <1> SUFFICES ASSUME CleanInv, [Next]_vars
               PROVE  CleanInv'
    OBVIOUS
  <1>1. CASE SanitizeText
    BY <1>1 DEF CleanInv, SanitizeText
  <1>2. CASE UNCHANGED <<text, limit, clean>>
    BY <1>2 DEF CleanInv
  <1> QED
    BY <1>1, <1>2 DEF Next, CheckFacts, restVars, vars

(* Texts and limits of the instance are such that the facts apply.         *)
LEMMA Payloads ==
    ASSUME NEW word \in Texts, NEW max \in {MaxPayload, MaxInput}
    PROVE  word \in Seq(Chars) /\ max \in Nat /\ MaxInput \in Nat
           /\ Sanitize(word, max, MaxInput).payload \in Seq(Chars)
  <1>1. Seq(Symbols) \subseteq Seq(Chars)
    BY DEF Chars
  <1>2. word \in Seq(Chars) /\ max \in Nat /\ MaxInput \in Nat
    BY <1>1, TextsAssumption, SizesAssumption
  <1> QED
    BY <1>2, SanitizeFacts

(* What sanitize returned is what the facts about it say.                  *)
LEMMA CleanIsClean == CleanInv => SanitizedClean
  <1> SUFFICES ASSUME CleanInv, clean # None
               PROVE  SanitizedClean
    BY DEF SanitizedClean
  <1>1. text \in Texts /\ clean = Sanitize(text, limit, MaxInput)
        /\ limit \in {MaxPayload, MaxInput}
    BY DEF CleanInv
  <1>2. text \in Seq(Chars) /\ limit \in Nat /\ MaxInput \in Nat
    BY <1>1, Payloads
  <1>3. clean.kind = "sanitized" =>
          /\ Innocent(clean.payload)
          /\ Bytes(clean.payload) <= limit + Bytes(Note)
          /\ (Innocent(text) /\ Bytes(text) <= limit) =>
               clean.payload = text
          /\ ~clean.truncated /\ Bytes(clean.payload) <= MaxInput =>
               Sanitize(clean.payload, limit, MaxInput).payload
                 = clean.payload
    BY <1>1, <1>2, SanitizeFacts
  <1> QED
    BY <1>3 DEF SanitizedClean

(* What sanitize returns is innocent, within its limit, unchanged where it *)
(* was innocent, and stays as it is, for texts of every length and every   *)
(* limit (sanitize).                                                       *)
THEOREM SanitizerCleans == Spec => []SanitizedClean
  <1>1. CleanInv => SanitizedClean
    BY CleanIsClean
  <1> QED
    BY <1>1, CleanInit, CleanStep, PTL DEF Spec

-----------------------------------------------------------------------------
(* The parsers.                                                            *)

(* How a call stands at each of its points.                                *)
PointOk ==
    /\ tool \in Parsers \cup {None}
    /\ fixture \in BOOLEAN
    /\ seen \in Seq(Value \cup Key)
    /\ pc # "done" => result = None
    /\ pc # "done" => \A failure \in fault :
                        Overlooked(failure) /\ failure # "blob"
    /\ pc \in {"sidecar", "sidecar_rows"} => fixture
    /\ pc = "select" => tool \in {"get_shimcache", "get_bam"}
    /\ pc = "sidecar_rows" => declared = tool
    /\ pc \in {"open", "select", "locate", "rows"} => ~fixture
    /\ pc \in {"start", "sidecar", "open", "select", "locate"} =>
         seen = <<>> /\ out = <<>>
    /\ (pc = "rows" /\ tool \in Capped) => Len(seen) <= MaxRows
    /\ (active # None /\ pc # "idle") => tool \in {"get_shimcache", "get_bam"}
    /\ (active # None /\ pc \in {"locate", "rows"}) => cs = active

ShortInv == PointOk /\ NeverShort

LEMMA ShortInit == Init => ShortInv
  <1> SUFFICES ASSUME Init
               PROVE  ShortInv
    OBVIOUS
  <1>1. CASE ParserInit
    <2>1. tool \in Parsers /\ fixture \in BOOLEAN /\ pc = "start"
          /\ seen = <<>> /\ out = <<>> /\ fault = {} /\ result = None
          /\ (active # None => tool \in {"get_shimcache", "get_bam"})
      BY <1>1 DEF ParserInit
    <2> QED
      BY <2>1 DEF ShortInv, PointOk, NeverShort
  <1>2. CASE Idle
    <2>1. tool = None /\ fixture = FALSE /\ pc = "idle" /\ seen = <<>>
          /\ fault = {} /\ result = None
      BY <1>2 DEF Idle
    <2>2. seen \in Seq(Value \cup Key)
      BY <2>1
    <2> QED
      BY <2>1, <2>2 DEF ShortInv, PointOk, NeverShort
  <1> QED
    BY <1>1, <1>2 DEF Init

(* A row that is read and kept.                                            *)
LEMMA KeepShort ==
    ASSUME ShortInv, NEW v \in Value, NEW time, Keep(v, time),
           pc \in {"rows", "sidecar_rows"},
           pc = "rows" => ~OverCap,
           v.kind \in {"corrupted", "unreadable"} =>
             ~fixture /\ tool \in Keyed \cup Capped
    PROVE  ShortInv'
  <1>1. seen' \in Seq(Value \cup Key) /\ Len(seen') = Len(seen) + 1
        /\ Len(seen) \in Nat
    BY DEF ShortInv, PointOk, Keep
  <1>2. UNCHANGED <<Call, pc, cs, result>> /\ pc # "done" /\ result = None
    BY DEF ShortInv, PointOk, Keep
  <1>3. ASSUME NEW failure \in fault'
        PROVE  Overlooked(failure)' /\ failure # "blob"
    <2>1. CASE failure \in fault
      BY <1>2, <2>1 DEF ShortInv, PointOk, Overlooked, Call
    <2>2. CASE failure = "row" /\ v.kind \in {"corrupted", "unreadable"}
      BY <1>2, <2>2 DEF Overlooked, Call
    <2> QED
      BY <2>1, <2>2 DEF Keep, Damage
  <1>4. PointOk'
    BY <1>1, <1>2, <1>3, BoundsAssumption DEF ShortInv, PointOk, Keep, Call,
       OverCap
  <1>5. NeverShort'
    BY <1>2 DEF NeverShort
  <1> QED
    BY <1>4, <1>5 DEF ShortInv

(* A key that is opened.                                                   *)
LEMMA KeyShort ==
    ASSUME ShortInv, NEW key \in Key, NEW accepted, OpenKey(key, accepted),
           pc = "rows", tool \in Keyed
    PROVE  ShortInv'
  <1>1. seen' \in Seq(Value \cup Key)
    BY DEF ShortInv, PointOk, OpenKey
  <1>2. UNCHANGED <<Call, pc, cs, result>> /\ result = None /\ ~fixture
    BY DEF ShortInv, PointOk, OpenKey
  <1>3. ASSUME NEW failure \in fault'
        PROVE  Overlooked(failure)' /\ failure # "blob"
    <2>1. CASE failure \in fault
      BY <1>2, <2>1 DEF ShortInv, PointOk, Overlooked, Call
    <2>2. CASE failure = "key"
      BY <1>2, <2>2 DEF Overlooked, Call
    <2> QED
      BY <2>1, <2>2 DEF OpenKey
  <1>4. PointOk'
    BY <1>1, <1>2, <1>3 DEF ShortInv, PointOk, OpenKey, Call, Keyed, Capped
  <1>5. NeverShort'
    BY <1>2 DEF NeverShort
  <1> QED
    BY <1>4, <1>5 DEF ShortInv

(* A call that is passed on to its next point.                             *)
LEMMA PassShort ==
    ASSUME ShortInv, UNCHANGED Call, UNCHANGED <<result, fault>>,
           pc # "done"
    PROVE  /\ \A failure \in fault' : Overlooked(failure)'
                                        /\ failure # "blob"
           /\ result' = None
           /\ NeverShort'
  BY DEF ShortInv, PointOk, NeverShort, Overlooked, Call

(* A call that ends: with a list of what it has overlooked, with what a    *)
(* broken stream left, or with nothing and an exception.                   *)
LEMMA EndShort ==
    ASSUME ShortInv, NEW kind, NEW events, NEW here, Ends(here, kind, events),
           here # "done", UNCHANGED <<tool, fixture>>,
           \/ /\ kind = "list"
              /\ tool \in Capped /\ ~fixture => Len(seen') <= MaxRows
              /\ \/ fault' = fault
                 \/ /\ fault' = fault \cup {"blob"}
                    /\ tool = "get_shimcache" /\ ~fixture /\ events = <<>>
           \/ /\ kind = "partial" /\ fault' = fault \cup {"stream"}
              /\ tool \in {"get_shimcache", "get_sysmon_4688"}
           \/ /\ kind \in {"malformed", "raw"} /\ events = <<>>
              /\ fault' = fault \cup {"artifact"}
              /\ kind = "raw" =>
                   fixture \/ tool \notin {"get_prefetch",
                                           "get_sysmon_4688"}
           \/ /\ kind \in {"not_found", "not_implemented"}
              /\ events = <<>> /\ fault' = fault
    PROVE  NeverShort'
  <1>1. result' = [kind |-> kind, events |-> events] /\ pc # "done"
    BY DEF Ends
  <1>2. \A failure \in fault : Overlooked(failure)' /\ failure # "blob"
    BY <1>1 DEF ShortInv, PointOk, Overlooked
  <1>3. ~Overlooked("stream")'
    BY DEF Overlooked
  <1>4. CASE kind = "list"
    <2>1. CASE fault' = fault
      BY <1>1, <1>2, <1>3, <1>4, <2>1 DEF NeverShort
    <2>2. CASE fault' = fault \cup {"blob"}
      <3>1. \/ tool = "get_shimcache" /\ ~fixture /\ events = <<>>
            \/ fault' = fault
        BY <1>4
      <3>2. CASE fault' = fault
        BY <2>1, <3>2
      <3>3. CASE tool = "get_shimcache" /\ ~fixture /\ events = <<>>
        <4>1. Overlooked("blob")'
          BY <3>3 DEF Overlooked
        <4> QED
          BY <1>1, <1>2, <1>3, <1>4, <2>2, <3>3, <4>1 DEF NeverShort
      <3> QED
        BY <3>1, <3>2, <3>3
    <2> QED
      BY <1>4, <2>1, <2>2
  <1>5. CASE kind = "partial"
    BY <1>1, <1>2, <1>5 DEF NeverShort
  <1>6. CASE kind \in {"malformed", "raw"}
    BY <1>1, <1>2, <1>3, <1>6 DEF NeverShort
  <1>7. CASE kind \in {"not_found", "not_implemented"}
    BY <1>1, <1>2, <1>3, <1>7 DEF NeverShort
  <1> QED
    BY <1>4, <1>5, <1>6, <1>7

LEMMA ShortStep == ShortInv /\ [Next]_vars => ShortInv'
  <1> SUFFICES ASSUME ShortInv, [Next]_vars
               PROVE  ShortInv'
    OBVIOUS
  <1>1. ASSUME UNCHANGED parserVars
        PROVE  ShortInv'
    BY <1>1 DEF ShortInv, PointOk, NeverShort, Overlooked, parserVars
  <1>2. ASSUME ParserNext
        PROVE  ShortInv'
    <2>0. PointOk
      BY DEF ShortInv
    <2>n. Len(seen) \in Nat
      BY <2>0 DEF PointOk
    <2>a. ASSUME UNCHANGED Call, pc \notin {"idle", "done"}, pc' = "done",
                 NeverShort',
                 seen' \in Seq(Value \cup Key)
          PROVE  ShortInv'
      BY <2>0, <2>a DEF ShortInv, PointOk, Call
    <2>1. CASE NotAFile
      <3>1. NeverShort'
        BY <2>1, EndShort DEF NotAFile, Call
      <3> QED
        BY <2>0, <2>1, <2>a, <3>1 DEF NotAFile, PointOk, Ends
    <2>2. CASE Dispatch
      <3>1. PointOk'
        BY <2>0, <2>2, PassShort DEF Dispatch, At, Call, PointOk, Overlooked
      <3> QED
        BY <2>0, <2>2, <3>1, PassShort DEF Dispatch, At, ShortInv
    <2>3. CASE LoadSidecar
      <3>1. CASE ValidEnvelope /\ At("sidecar", "sidecar_rows")
                 /\ UNCHANGED fault
        <4>1. PointOk'
          BY <2>0, <2>3, <3>1 DEF LoadSidecar, At, Call, PointOk, Overlooked,
             ValidEnvelope
        <4> QED
          BY <2>0, <2>3, <3>1, <4>1, PassShort DEF LoadSidecar, At, ShortInv
      <3>2. ASSUME NEW kind \in {"raw", "malformed"},
                   Fails("sidecar", kind, <<>>)
            PROVE  ShortInv'
        <4>1. fixture
          BY <2>0, <3>2 DEF PointOk, Fails, Ends
        <4>2. NeverShort'
          BY <2>3, <3>2, <4>1, EndShort DEF LoadSidecar, Fails, Call
        <4> QED
          BY <2>0, <2>3, <2>a, <3>2, <4>2 DEF LoadSidecar, PointOk, Fails, Ends
      <3>3. CASE Ends("sidecar", "not_implemented", <<>>) /\ UNCHANGED fault
        <4>1. NeverShort'
          BY <2>3, <3>3, EndShort DEF LoadSidecar, Call
        <4> QED
          BY <2>0, <2>3, <2>a, <3>3, <4>1 DEF LoadSidecar, PointOk, Ends
      <3> QED
        BY <2>3, <3>1, <3>2, <3>3 DEF LoadSidecar
    <2>4. CASE ReadSidecar
      <3>1. PICK v \in Rows({"run"}) : Keep(v, SidecarRow(v))
        BY <2>4 DEF ReadSidecar
      <3>2. v \in Value /\ v.kind = "run"
        BY ValuesAssumption DEF Rows
      <3>3. pc = "sidecar_rows"
        BY <2>4 DEF ReadSidecar
      <3> HIDE DEF SidecarRow
      <3> QED
        BY <3>1, <3>2, <3>3, KeepShort
    <2>5. CASE RefuseSidecar
      <3>1. seen' \in Seq(Value \cup Key)
        BY <2>0, <2>5, ValuesAssumption DEF RefuseSidecar, Rows, PointOk
      <3>2. NeverShort'
        BY <2>5, EndShort DEF RefuseSidecar, Fails, Call
      <3> QED
        BY <2>5, <2>a, <3>1, <3>2 DEF RefuseSidecar, Fails, Ends
    <2>6. CASE SidecarEnds
      <3>1. fixture
        BY <2>0, <2>6 DEF SidecarEnds, PointOk, Ends
      <3>2. NeverShort'
        BY <2>6, <3>1, EndShort DEF SidecarEnds, Call
      <3> QED
        BY <2>0, <2>6, <2>a, <3>2 DEF SidecarEnds, PointOk, Ends
    <2>7. ASSUME OpenAmcache \/ OpenShimcache \/ OpenBam \/ OpenUserAssist
                 \/ OpenPrefetch \/ OpenSysmon
          PROVE  ShortInv'
      <3>1. ASSUME NEW kinds \in {{"malformed"}, {"malformed", "raw"}},
                   Unopened(kinds),
                   "raw" \in kinds => tool \notin {"get_prefetch",
                                                   "get_sysmon_4688"}
            PROVE  ShortInv'
        <4>1. PICK kind \in kinds : Fails("open", kind, <<>>)
          BY <3>1 DEF Unopened
        <4>2. kind \in {"malformed", "raw"}
              /\ (kind = "raw" => tool \notin {"get_prefetch",
                                               "get_sysmon_4688"})
          BY <3>1
        <4>3. NeverShort'
          BY <3>1, <4>1, <4>2, EndShort DEF Unopened, Fails, Call
        <4> QED
          BY <2>0, <2>a, <3>1, <4>1, <4>3 DEF Unopened, PointOk, Fails, Ends
      <3>2. ASSUME NEW there \in {"select", "locate", "rows"}, Opened(there),
                   there = "select" <=>
                     tool \in {"get_shimcache", "get_bam"}
            PROVE  ShortInv'
        <4>1. PointOk'
          BY <2>0, <3>2, BoundsAssumption DEF Opened, At, Call, PointOk,
             Overlooked
        <4> QED
          BY <3>2, <4>1, PassShort DEF Opened, At, ShortInv
      <3> QED
        BY <2>7, <3>1, <3>2 DEF OpenAmcache, OpenShimcache, OpenBam,
           OpenUserAssist, OpenPrefetch, OpenSysmon
    <2>8. CASE ResolveActiveControlset
      <3>1. pc = "select" /\ pc' = "locate" /\ UNCHANGED <<Call, result>>
        BY <2>8 DEF ResolveActiveControlset, At
      <3>2. tool \in {"get_shimcache", "get_bam"}
            /\ cs' = IF active = None THEN 1 ELSE active
        BY <2>0, <2>8, <3>1 DEF ResolveActiveControlset, PointOk
      <3>3. Overlooked("select")
        BY <2>0, <3>1, <3>2 DEF PointOk, Overlooked
      <3>4. \A failure \in fault' :
              Overlooked(failure)' /\ failure # "blob"
        BY <2>0, <2>8, <3>1, <3>3 DEF ResolveActiveControlset, PointOk,
           Overlooked, Call
      <3>5. PointOk'
        BY <2>0, <2>8, <3>1, <3>2, <3>4 DEF ResolveActiveControlset, PointOk,
           Call
      <3>6. NeverShort'
        BY <2>0, <3>1 DEF PointOk, NeverShort
      <3> QED
        BY <3>5, <3>6 DEF ShortInv
    <2>9. ASSUME Located \/ Absent \/ Unlocated
                 \/ (tool = "get_shimcache" /\ Unreadable)
          PROVE  ShortInv'
      <3>1. CASE Located
        <4>1. PointOk'
          BY <2>0, <3>1, BoundsAssumption DEF Located, At, Call, PointOk,
             Overlooked
        <4> QED
          BY <3>1, <4>1, PassShort DEF Located, At, ShortInv
      <3>2. CASE Absent
        <4>1. seen' = <<>>
          BY <2>0, <3>2 DEF Absent, PointOk, Ends
        <4>2. NeverShort'
          BY <3>2, <4>1, EndShort, BoundsAssumption DEF Absent, Call
        <4> QED
          BY <2>0, <2>a, <3>2, <4>2 DEF Absent, PointOk, Ends
      <3>3. CASE Unlocated
        <4>1. NeverShort'
          BY <3>3, EndShort DEF Unlocated, Fails, Call
        <4> QED
          BY <2>0, <2>a, <3>3, <4>1 DEF Unlocated, PointOk, Fails, Ends
      <3>4. CASE tool = "get_shimcache" /\ Unreadable
        <4>1. ~fixture /\ tool \notin Capped
          BY <2>0, <3>4 DEF Unreadable, PointOk, Ends, Capped
        <4>2. NeverShort'
          BY <3>4, <4>1, EndShort DEF Unreadable, Call
        <4> QED
          BY <2>0, <2>a, <3>4, <4>2 DEF Unreadable, PointOk, Ends
      <3> QED
        BY <2>9, <3>1, <3>2, <3>3, <3>4
    <2>10. ASSUME ReadAmcache \/ ReadShimcache \/ ReadBam \/ ReadUserAssist
                  \/ ReadPrefetch \/ ReadSysmon
           PROVE  ShortInv'
      <3>1. PICK v, time :
              /\ v \in Value /\ Keep(v, time)
              /\ v.kind \in {"corrupted", "unreadable"} =>
                   tool \in Keyed \cup Capped
        BY <2>10, ValuesAssumption DEF ReadAmcache, ReadShimcache, ReadBam,
           ReadUserAssist, ReadPrefetch, ReadSysmon, Reads, Rows, Keyed,
           Capped
      <3>2. ~OverCap /\ pc = "rows"
        BY <2>10 DEF ReadAmcache, ReadShimcache, ReadBam, ReadUserAssist,
           ReadPrefetch, ReadSysmon, Reads, OverCap, Capped
      <3>3. ~fixture
        BY <2>0, <3>2 DEF PointOk
      <3> QED
        BY <3>1, <3>2, <3>3, KeepShort
    <2>11. CASE ReadSid \/ ReadGuid
      <3>1. PICK key \in Key, accepted \in BOOLEAN : OpenKey(key, accepted)
        BY <2>11 DEF ReadSid, ReadGuid
      <3>2. pc = "rows" /\ tool \in Keyed
        BY <2>11 DEF ReadSid, ReadGuid, Reads, Keyed
      <3> QED
        BY <3>1, <3>2, KeyShort
    <2>12. CASE ReadForbidden
      <3>1. seen' \in Seq(Value \cup Key)
        BY <2>0, <2>12, ValuesAssumption DEF ReadForbidden, Rows, PointOk
      <3>2. NeverShort'
        BY <2>12, EndShort DEF ReadForbidden, Fails, Call
      <3> QED
        BY <2>12, <2>a, <3>1, <3>2 DEF ReadForbidden, Fails, Ends
    <2>13. CASE ExceedCap
      <3>1. NeverShort'
        BY <2>13, EndShort DEF ExceedCap, Fails, Call
      <3> QED
        BY <2>0, <2>13, <2>a, <3>1 DEF ExceedCap, PointOk, Fails, Ends
    <2>14. CASE KeysBreak
      <3>1. NeverShort'
        BY <2>14, EndShort DEF KeysBreak, Keyed, Fails, Call
      <3> QED
        BY <2>0, <2>14, <2>a, <3>1 DEF KeysBreak, PointOk, Fails, Ends
    <2>15. CASE StreamBreaks
      <3>1. NeverShort'
        BY <2>15, EndShort DEF StreamBreaks, Call
      <3> QED
        BY <2>0, <2>15, <2>a, <3>1 DEF StreamBreaks, PointOk, Ends
    <2>16. CASE StreamEnds
      <3>1. tool \in Capped => Len(seen) <= MaxRows
        BY <2>0, <2>16 DEF StreamEnds, PointOk, Ends
      <3>2. NeverShort'
        BY <2>16, <3>1, EndShort DEF StreamEnds, Call
      <3> QED
        BY <2>0, <2>16, <2>a, <3>2 DEF StreamEnds, PointOk, Ends
    <2> QED
      <3>1. ASSUME LocateInventory \/ LoadShimcacheBlob \/ LocateUserSettings
                   \/ LocateUserAssist \/ LocateExecutable
            PROVE  ShortInv'
        <4>1. Located \/ Absent \/ Unlocated
                \/ (tool = "get_shimcache" /\ Unreadable)
          BY <3>1 DEF LocateInventory, LoadShimcacheBlob, LocateUserSettings,
             LocateUserAssist, LocateExecutable
        <4> QED
          BY <4>1, <2>9
      <3> QED
        BY <1>2, <2>1, <2>2, <2>3, <2>4, <2>5, <2>6, <2>7, <2>8, <2>10,
           <2>11, <2>12, <2>13, <2>14, <2>15, <2>16, <3>1 DEF ParserNext
  <1> QED
    BY <1>1, <1>2 DEF Next, SanitizeText, CheckFacts, vars

(* Whatever of an artifact could not be read shows in the answer, except   *)
(* for a control set, the ShimCache blob, the values of one key and one    *)
(* row, which the parsers pass over (appcompat.py:173-182, bam.py:248-251, *)
(* userassist.py:138-143, amcache.py:182-185): for artifacts of every      *)
(* length and every cap.                                                   *)
THEOREM NothingCutShort == Spec => []NeverShort
  <1>1. ShortInv => NeverShort
    BY DEF ShortInv
  <1> QED
    BY <1>1, ShortInit, ShortStep, PTL DEF Spec

-----------------------------------------------------------------------------
(* What the rows become.                                                   *)

Slots == {out[i].slot : i \in 1..Len(out)}

(* The events so far are numbered, in the order of their rows.             *)
Numbered ==
    /\ out \in Seq(Events)
    /\ \A i \in 1..Len(out) :
         /\ out[i].row = i - 1
         /\ out[i].slot \in 1..Len(seen)
         /\ i > 1 => out[i - 1].slot < out[i].slot
         /\ out[i].time = "1601" => seen[out[i].slot].time = "overflow"

(* They are the usable rows, and every one of these.                       *)
Complete == \A i \in 1..Len(seen) : i \in Slots <=> Evident(i)

Accepted(key) == key.state = "ok" /\ key.label = "user"

(* While values are read, the key they belong to has been accepted.        *)
KeysOk ==
    (tool \in Keyed /\ ~fixture /\ open) =>
      \A key \in KeyOf(Len(seen)) : Accepted(key)

FaithInv ==
    /\ ShortInv
    /\ pc # "done" => Numbered /\ Complete /\ KeysOk
    /\ ParseFaithful

(* The key of a row does not change when more is read.                     *)
LEMMA KeyStays ==
    ASSUME NEW r \in Value \cup Key, NEW n, n = Len(seen),
           seen \in Seq(Value \cup Key), seen' = Append(seen, r)
    PROVE  /\ Len(seen') = n + 1
           /\ n \in Nat
           /\ seen'[n + 1] = r
           /\ \A i \in 1..n : seen'[i] = seen[i]
           /\ \A i \in 1..n : (KeyOf(i))' = KeyOf(i)
           /\ r.kind # "key" => (KeyOf(n + 1))' = KeyOf(n)
           /\ r.kind = "key" => (KeyOf(n + 1))' = {r}
  <1> DEFINE Heads(s, i) == {k \in 1..i :
                          /\ s[k].kind = "key"
                          /\ \A m \in (k + 1)..i : s[m].kind # "key"}
  <1>1. /\ Len(seen') = n + 1
        /\ n \in Nat
        /\ seen'[n + 1] = r
        /\ \A i \in 1..n : seen'[i] = seen[i]
    OBVIOUS
  <1>2. \A i \in 0..n : Heads(seen', i) = Heads(seen, i)
    <2> SUFFICES ASSUME NEW i \in 0..n
                 PROVE  Heads(seen', i) = Heads(seen, i)
      OBVIOUS
    <2>1. \A k \in 1..i : seen'[k] = seen[k]
      BY <1>1
    <2>2. \A k \in 1..i : \A m \in (k + 1)..i : m \in 1..i
      BY <1>1
    <2> QED
      BY <2>1, <2>2
  <1>3. \A i \in 0..n : {seen'[k] : k \in Heads(seen', i)}
                          = {seen[k] : k \in Heads(seen, i)}
    <2> SUFFICES ASSUME NEW i \in 0..n
                 PROVE  {seen'[k] : k \in Heads(seen', i)}
                          = {seen[k] : k \in Heads(seen, i)}
      OBVIOUS
    <2>1. \A k \in Heads(seen, i) : seen'[k] = seen[k]
      BY <1>1
    <2>2. Heads(seen', i) = Heads(seen, i)
      BY <1>2
    <2> HIDE DEF Heads
    <2> QED
      BY <2>1, <2>2
  <1>4. \A i : KeyOf(i) = {seen[k] : k \in Heads(seen, i)}
    BY DEF KeyOf
  <1>5. \A i : (KeyOf(i))' = {seen'[k] : k \in Heads(seen', i)}
    BY DEF KeyOf
  <1>6. r.kind # "key" => Heads(seen', n + 1) = Heads(seen', n)
    <2> SUFFICES ASSUME r.kind # "key"
                 PROVE  Heads(seen', n + 1) = Heads(seen', n)
      OBVIOUS
    <2>1. \A k \in 1..(n + 1) : k = n + 1 \/ k \in 1..n
      BY <1>1
    <2>2. \A k \in 1..n : \A m \in (k + 1)..(n + 1) :
            m = n + 1 \/ m \in (k + 1)..n
      BY <1>1
    <2>3. \A k \in 1..n : \A m \in (k + 1)..n : m \in (k + 1)..(n + 1)
      BY <1>1
    <2>4. 1..n \subseteq 1..(n + 1)
      BY <1>1
    <2> QED
      BY <1>1, <2>1, <2>2, <2>3, <2>4
  <1>7. r.kind = "key" => Heads(seen', n + 1) = {n + 1}
    <2> SUFFICES ASSUME r.kind = "key"
                 PROVE  Heads(seen', n + 1) = {n + 1}
      OBVIOUS
    <2>1. n + 1 \in Heads(seen', n + 1)
      BY <1>1
    <2>2. \A k \in Heads(seen', n + 1) : k = n + 1
      BY <1>1
    <2> QED
      BY <2>1, <2>2
  <1> HIDE DEF Heads
  <1>8. \A i \in 0..n : (KeyOf(i))' = KeyOf(i)
    BY <1>3, <1>4, <1>5
  <1>9. r.kind # "key" => (KeyOf(n + 1))' = KeyOf(n)
    <2>1. {seen'[k] : k \in Heads(seen', n)} = {seen[k] : k \in Heads(seen, n)}
      <3>1. n \in 0..n
        BY <1>1
      <3> QED
        BY <1>3, <3>1, Zenon
    <2> QED
      BY <1>4, <1>5, <1>6, <2>1
  <1>10. r.kind = "key" => (KeyOf(n + 1))' = {r}
    <2> SUFFICES ASSUME r.kind = "key"
                 PROVE  (KeyOf(n + 1))' = {r}
      OBVIOUS
    <2>1. (KeyOf(n + 1))' = {seen'[k] : k \in {n + 1}}
      BY <1>5, <1>7
    <2>2. {seen'[k] : k \in {n + 1}} = {seen'[n + 1]}
      OBVIOUS
    <2> QED
      BY <1>1, <2>1, <2>2
  <1> QED
    BY <1>1, <1>8, <1>9, <1>10

(* A row is usable whatever comes after it.                                *)
LEMMA EvidentStays ==
    ASSUME NEW r \in Value \cup Key, NEW i \in 1..Len(seen),
           seen \in Seq(Value \cup Key), seen' = Append(seen, r),
           UNCHANGED <<tool, fixture>>
    PROVE  (Evident(i))' <=> Evident(i)
  <1>1. seen'[i] = seen[i] /\ (KeyOf(i))' = KeyOf(i)
    BY KeyStays
  <1> QED
    BY <1>1 DEF Evident

(* A row by itself: a run with a path and a time the parser accepts.       *)
Usable(v) ==
    /\ v.kind = "run" /\ v.path = "ok"
    /\ \/ v.time = "ok"
       \/ v.time = "overflow" /\ ~fixture /\ tool \in Keyed \cup {"get_amcache"}

LEMMA KeepNumbered ==
    ASSUME ShortInv, Numbered, NEW v \in Value, NEW time, Keep(v, time),
           time \in {"dated", "1601"} \cup {None},
           time = "1601" => v.time = "overflow"
    PROVE  /\ Numbered'
           /\ time = None => Slots' = Slots
           /\ time # None => Slots' = Slots \cup {Len(seen) + 1}
  <1>0. seen \in Seq(Value \cup Key) /\ seen' = Append(seen, v)
    BY DEF ShortInv, PointOk, Keep
  <1>1. /\ Len(seen) \in Nat
        /\ Len(seen') = Len(seen) + 1
        /\ seen'[Len(seen) + 1] = v
        /\ \A i \in 1..Len(seen) : seen'[i] = seen[i]
    BY <1>0
  <1>2. CASE time = None
    <2>1. out' = out
      BY <1>2 DEF Keep
    <2> QED
      BY <1>1, <1>2, <2>1 DEF Numbered, Slots
  <1>3. CASE time # None
    <2> DEFINE e == [row |-> Len(out), slot |-> Len(seen) + 1, time |-> time]
    <2>1. out' = Append(out, e)
      BY <1>3 DEF Keep, Event
    <2>2. e \in Events /\ out \in Seq(Events)
      BY <1>1, <1>3 DEF Events, Numbered
    <2>3. /\ out' \in Seq(Events)
          /\ Len(out) \in Nat
          /\ Len(out') = Len(out) + 1
          /\ out'[Len(out) + 1] = e
          /\ \A i \in 1..Len(out) : out'[i] = out[i]
      BY <2>1, <2>2
    <2>4. ASSUME NEW i \in 1..Len(out')
          PROVE  /\ out'[i].row = i - 1
                 /\ out'[i].slot \in 1..Len(seen')
                 /\ i > 1 => out'[i - 1].slot < out'[i].slot
                 /\ out'[i].time = "1601" => seen'[out'[i].slot].time = "overflow"
      <3>1. CASE i \in 1..Len(out)
        <4>1. out'[i] = out[i] /\ (i > 1 => out'[i - 1] = out[i - 1])
          BY <2>3, <3>1
        <4>2. out[i].slot \in 1..Len(seen)
          BY <3>1 DEF Numbered
        <4> QED
          BY <1>1, <3>1, <4>1, <4>2 DEF Numbered
      <3>2. CASE i = Len(out) + 1
        <4>1. out'[i] = e
          BY <2>3, <3>2
        <4>2. i > 1 => /\ out'[i - 1] = out[i - 1]
                       /\ out[i - 1].slot \in 1..Len(seen)
          BY <2>3, <3>2 DEF Numbered
        <4> QED
          BY <1>1, <2>3, <3>2, <4>1, <4>2
      <3> QED
        BY <2>3, <3>1, <3>2
    <2>5. Numbered'
      BY <2>3, <2>4 DEF Numbered
    <2>6. Slots' = Slots \cup {Len(seen) + 1}
      <3>1. \A i \in 1..Len(out') : i \in 1..Len(out) \/ i = Len(out) + 1
        BY <2>3
      <3>2. 1..Len(out) \subseteq 1..Len(out') /\ Len(out) + 1 \in 1..Len(out')
        BY <2>3
      <3> QED
        BY <2>3, <3>1, <3>2 DEF Slots
    <2> QED
      BY <1>3, <2>5, <2>6
  <1> QED
    BY <1>2, <1>3

LEMMA KeepFaithful ==
    ASSUME FaithInv, NEW v \in Value, NEW time, Keep(v, time),
           pc \in {"rows", "sidecar_rows"},
           pc = "rows" => ~OverCap,
           time \in {"dated", "1601"} \cup {None},
           time = "1601" => v.time = "overflow",
           time # None <=> Usable(v),
           v.kind \in {"corrupted", "unreadable"} =>
             ~fixture /\ tool \in Keyed \cup Capped,
           (tool \in Keyed /\ ~fixture) => open
    PROVE  FaithInv'
  <1>0. /\ ShortInv /\ Numbered /\ Complete /\ KeysOk /\ ParseFaithful
        /\ seen \in Seq(Value \cup Key) /\ seen' = Append(seen, v)
        /\ result = None /\ pc # "done"
    BY DEF FaithInv, ShortInv, PointOk, Keep
  <1>n. PICK n \in Nat : n = Len(seen)
    BY <1>0
  <1>1. UNCHANGED <<tool, fixture, pc, open, result>>
    BY DEF Keep, Call
  <1>2. v.kind # "key"
    BY DEF Value
  <1>3. /\ Len(seen') = n + 1
        /\ seen'[n + 1] = v
        /\ (KeyOf(n + 1))' = KeyOf(n)
    BY <1>0, <1>n, <1>2, KeyStays
  <1>4. ShortInv'
    BY <1>0, KeepShort
  <1>5. Numbered' /\ (time = None => Slots' = Slots)
        /\ (time # None => Slots' = Slots \cup {n + 1})
    BY <1>0, <1>n, KeepNumbered
  <1>6. KeysOk'
    BY <1>0, <1>n, <1>1, <1>3 DEF KeysOk
  <1>7. (Evident(n + 1))' <=> Usable(v)
    BY <1>0, <1>n, <1>1, <1>3 DEF Evident, Usable, KeysOk, Accepted
  <1>8. n + 1 \notin Slots
    BY <1>0, <1>n, <1>3 DEF Numbered, Slots
  <1>9. ASSUME NEW i \in 1..Len(seen')
        PROVE  i \in Slots' <=> (Evident(i))'
    <2>1. CASE i = n + 1
      BY <1>5, <1>7, <1>8, <2>1
    <2>2. CASE i \in 1..n
      <3>1. (Evident(i))' <=> Evident(i)
        BY <1>0, <1>1, <1>n, <2>2, EvidentStays
      <3>2. i # n + 1
        BY <1>3, <2>2
      <3> QED
        BY <1>0, <1>n, <1>5, <2>2, <3>1, <3>2 DEF Complete
    <2> QED
      BY <1>n, <1>3, <2>1, <2>2
  <1>10. Complete'
    BY <1>9 DEF Complete
  <1>11. ParseFaithful'
    BY <1>0, <1>1 DEF ParseFaithful
  <1> QED
    BY <1>4, <1>5, <1>6, <1>10, <1>11 DEF FaithInv

LEMMA KeyFaithful ==
    ASSUME FaithInv, NEW key \in Key, NEW accepted, OpenKey(key, accepted),
           pc = "rows", tool \in Keyed, accepted => Accepted(key)
    PROVE  FaithInv'
  <1>0. /\ ShortInv /\ Numbered /\ Complete /\ ParseFaithful
        /\ seen \in Seq(Value \cup Key) /\ seen' = Append(seen, key)
        /\ result = None /\ pc # "done"
    BY DEF FaithInv, ShortInv, PointOk, OpenKey
  <1>n. PICK n \in Nat : n = Len(seen)
    BY <1>0
  <1>1. UNCHANGED <<tool, fixture, pc, out, result>> /\ open' = accepted
    BY DEF OpenKey, Call
  <1>2. key.kind = "key"
    BY DEF Key
  <1>3. /\ Len(seen') = n + 1
        /\ seen'[n + 1] = key
        /\ \A i \in 1..n : seen'[i] = seen[i]
        /\ (KeyOf(n + 1))' = {key}
    BY <1>0, <1>n, <1>2, KeyStays
  <1>4. ShortInv'
    BY <1>0, KeyShort
  <1>5. Numbered' /\ Slots' = Slots
    BY <1>0, <1>n, <1>1, <1>3 DEF Numbered, Slots
  <1>6. KeysOk'
    BY <1>n, <1>1, <1>3 DEF KeysOk, Accepted
  <1>7. ~(Evident(n + 1))'
    BY <1>2, <1>3 DEF Evident
  <1>8. n + 1 \notin Slots
    BY <1>0, <1>n, <1>3 DEF Numbered, Slots
  <1>9. ASSUME NEW i \in 1..Len(seen')
        PROVE  i \in Slots' <=> (Evident(i))'
    <2>1. CASE i = n + 1
      BY <1>5, <1>7, <1>8, <2>1
    <2>2. CASE i \in 1..n
      <3>1. (Evident(i))' <=> Evident(i)
        BY <1>0, <1>1, <1>n, <2>2, EvidentStays
      <3> QED
        BY <1>0, <1>n, <1>5, <2>2, <3>1 DEF Complete
    <2> QED
      BY <1>n, <1>3, <2>1, <2>2
  <1>10. Complete'
    BY <1>9 DEF Complete
  <1>11. ParseFaithful'
    BY <1>0, <1>1 DEF ParseFaithful
  <1> QED
    BY <1>4, <1>5, <1>6, <1>10, <1>11 DEF FaithInv

-----------------------------------------------------------------------------
(* The steps of the parsers.                                               *)

(* Every parser keeps exactly the rows that are usable for it.             *)
LEMMA RowTimes ==
    ASSUME NEW v \in Value, NEW time,
           \/ /\ tool = "get_amcache" /\ ~fixture
              /\ v.kind \in {"run", "corrupted", "unreadable"}
              /\ time = AmcacheRow(v)
           \/ /\ tool = "get_shimcache" /\ ~fixture
              /\ v.kind \in {"run", "housekeeping"}
              /\ time = ShimcacheRow(v)
           \/ /\ tool = "get_bam" /\ ~fixture
              /\ v.kind \in {"run", "corrupted", "housekeeping", "short"}
              /\ time = BamRow(v)
           \/ /\ tool = "get_userassist" /\ ~fixture
              /\ v.kind \in {"run", "corrupted", "housekeeping", "short"}
              /\ time = UserAssistRow(v)
           \/ /\ tool = "get_prefetch" /\ ~fixture
              /\ v.kind = "run" /\ v.path = "ok"
              /\ time = PrefetchRow(v)
           \/ /\ tool = "get_sysmon_4688" /\ ~fixture
              /\ v.kind \in {"run", "housekeeping", "unreadable"}
              /\ time = SysmonRow(v)
           \/ /\ fixture
              /\ v.kind = "run"
              /\ time = SidecarRow(v)
    PROVE  /\ time \in {"dated", "1601"} \cup {None}
           /\ time = "1601" => v.time = "overflow"
           /\ time # None <=> Usable(v)
  <1>1. /\ v.time \in {"ok", "overflow", "none"}
        /\ v.kind \in {"run", "corrupted", "unreadable", "housekeeping",
                       "short", "forbidden"}
        /\ v.path \in {"ok", "long", "delimiter", "missing"}
        /\ None # "dated" /\ None # "1601"
    BY NoneAssumption DEF Value
  <1> USE <1>1 DEF Usable, Keyed, HiveTime
  <1>2. CASE tool = "get_amcache" /\ time = AmcacheRow(v) /\ ~fixture
             /\ v.kind \in {"run", "corrupted", "unreadable"}
    BY <1>2 DEF AmcacheRow
  <1>3. CASE tool = "get_shimcache" /\ time = ShimcacheRow(v) /\ ~fixture
             /\ v.kind \in {"run", "housekeeping"}
    BY <1>3 DEF ShimcacheRow, LastModTime
  <1>4. CASE tool = "get_bam" /\ time = BamRow(v) /\ ~fixture
             /\ v.kind \in {"run", "corrupted", "housekeeping", "short"}
    BY <1>4 DEF BamRow
  <1>5. CASE tool = "get_userassist" /\ time = UserAssistRow(v) /\ ~fixture
             /\ v.kind \in {"run", "corrupted", "housekeeping", "short"}
    BY <1>5 DEF UserAssistRow
  <1>6. CASE tool = "get_prefetch" /\ time = PrefetchRow(v) /\ ~fixture
             /\ v.kind = "run" /\ v.path = "ok"
    BY <1>6 DEF PrefetchRow, PrefetchTime
  <1>7. CASE tool = "get_sysmon_4688" /\ time = SysmonRow(v) /\ ~fixture
             /\ v.kind \in {"run", "housekeeping", "unreadable"}
    BY <1>7 DEF SysmonRow, IsoTime
  <1>8. CASE fixture /\ v.kind = "run" /\ time = SidecarRow(v)
    BY <1>8 DEF SidecarRow, IsoTime
  <1> QED
    BY <1>2, <1>3, <1>4, <1>5, <1>6, <1>7, <1>8

(* A list of all that was read, or its part, is faithful.                  *)
LEMMA Handed ==
    ASSUME FaithInv, ShortInv', pc # "done", pc \in {"rows", "sidecar_rows"},
           UNCHANGED <<tool, fixture, declared, active, cs, seen, out>>,
           pc' = "done",
           result'.events = out
    PROVE  FaithInv'
  <1>1. Numbered /\ Complete
    BY DEF FaithInv
  <1>2. /\ (active # None /\ ~fixture) => cs = active
        /\ fixture => declared = tool
    BY DEF FaithInv, ShortInv, PointOk
  <1>3. {out[i].slot : i \in 1..Len(out)} = {i \in 1..Len(seen) : Evident(i)}
    BY <1>1 DEF Numbered, Complete, Slots
  <1>4. \A i : (Evident(i))' <=> Evident(i)
    BY DEF Evident, KeyOf
  <1>5. /\ \A i \in 1..Len(out) :
             /\ out[i].row = i - 1
             /\ i > 1 => out[i - 1].slot < out[i].slot
             /\ out[i].time = "1601" => seen[out[i].slot].time = "overflow"
        /\ {out[i].slot : i \in 1..Len(out)}
             = {i \in 1..Len(seen) : (Evident(i))'}
    BY <1>1, <1>3, <1>4 DEF Numbered
  <1>6. ParseFaithful'
    BY <1>2, <1>5 DEF ParseFaithful
  <1> QED
    BY <1>6 DEF FaithInv

(* A call that ends with nothing read, or with an exception, claims no     *)
(* row.                                                                    *)
LEMMA Nothing ==
    ASSUME FaithInv, ShortInv', pc' = "done",
           \/ result'.kind \notin {"list", "partial"}
           \/ /\ pc = "locate" /\ result'.events = <<>>
              /\ UNCHANGED <<tool, fixture, declared, active, cs, seen>>
    PROVE  FaithInv'
  <1>1. CASE result'.kind \notin {"list", "partial"}
    BY <1>1 DEF FaithInv, ParseFaithful
  <1>2. CASE /\ pc = "locate" /\ result'.events = <<>>
             /\ UNCHANGED <<tool, fixture, declared, active, cs, seen>>
    <2>1. /\ seen' = <<>> /\ ~fixture'
          /\ active' # None => cs' = active'
      BY <1>2 DEF FaithInv, ShortInv, PointOk
    <2>2. Len(result'.events) = 0 /\ Len(seen') = 0
      BY <1>2, <2>1
    <2>3. {result'.events[i].slot : i \in 1..Len(result'.events)}
            = {i \in 1..Len(seen') : (Evident(i))'}
      BY <2>2
    <2>4. ParseFaithful'
      BY <1>2, <2>1, <2>2, <2>3 DEF ParseFaithful
    <2> QED
      BY <1>2, <2>4 DEF FaithInv
  <1> QED
    BY <1>1, <1>2

(* A step that reads no row and does not end the call.                     *)
LEMMA Passing ==
    ASSUME FaithInv, ShortInv', pc # "done",
           UNCHANGED <<tool, fixture, seen, open, out, result>>
    PROVE  FaithInv'
  <1>1. \A i : (Evident(i))' <=> Evident(i)
    BY DEF Evident, KeyOf
  <1>2. Numbered' /\ Complete' /\ KeysOk'
    BY <1>1 DEF FaithInv, Numbered, Complete, KeysOk, Slots, KeyOf
  <1>3. ParseFaithful'
    BY DEF FaithInv, ShortInv, PointOk, ParseFaithful
  <1> QED
    BY <1>2, <1>3 DEF FaithInv

LEMMA FaithInit == Init => FaithInv
  <1> SUFFICES ASSUME Init
               PROVE  FaithInv
    OBVIOUS
  <1>1. seen = <<>> /\ out = <<>> /\ open = FALSE /\ result = None
    BY DEF Init, ParserInit, Idle
  <1>2. Numbered /\ Complete /\ KeysOk
    BY <1>1 DEF Numbered, Complete, KeysOk
  <1>3. ParseFaithful
    BY <1>1 DEF ParseFaithful
  <1> QED
    BY <1>2, <1>3, ShortInit DEF FaithInv

LEMMA FaithStep == FaithInv /\ [Next]_vars => FaithInv'
  <1> SUFFICES ASSUME FaithInv, [Next]_vars
               PROVE  FaithInv'
    OBVIOUS
  <1>0. ShortInv'
    BY ShortStep DEF FaithInv
  <1>1. ASSUME UNCHANGED parserVars
        PROVE  FaithInv'
    <2>1. \A i : (Evident(i))' <=> Evident(i)
      BY <1>1 DEF Evident, KeyOf, parserVars
    <2>2. pc # "done" => Numbered' /\ Complete' /\ KeysOk'
      BY <1>1, <2>1 DEF FaithInv, Numbered, Complete, KeysOk, Slots, KeyOf,
         parserVars
    <2>3. ParseFaithful'
      BY <1>1, <2>1 DEF FaithInv, ParseFaithful, parserVars
    <2> QED
      BY <1>0, <1>1, <2>2, <2>3 DEF FaithInv, parserVars
  <1>2. ASSUME ParserNext
        PROVE  FaithInv'
    <2> USE <1>0
    <2>1. CASE NotAFile
      BY <2>1, Nothing DEF NotAFile, Ends
    <2>2. CASE Dispatch
      BY <2>2, Passing DEF Dispatch, At, Call
    <2>3. CASE LoadSidecar
      <3>1. ASSUME At("sidecar", "sidecar_rows")
            PROVE  FaithInv'
        BY <2>3, <3>1, Passing DEF LoadSidecar, At, Call
      <3>2. ASSUME NEW kind \in {"not_implemented", "raw", "malformed"},
                   Ends("sidecar", kind, <<>>)
            PROVE  FaithInv'
        BY <3>2, Nothing DEF Ends
      <3> QED
        BY <2>3, <3>1, <3>2 DEF LoadSidecar, Fails
    <2>4. CASE ReadSidecar
      <3>1. PICK v \in Rows({"run"}) : Keep(v, SidecarRow(v))
        BY <2>4 DEF ReadSidecar
      <3>2. v \in Value /\ v.kind = "run"
        BY ValuesAssumption DEF Rows
      <3>3. pc = "sidecar_rows" /\ fixture
        BY <2>4 DEF ReadSidecar, FaithInv, ShortInv, PointOk
      <3> DEFINE time == SidecarRow(v)
      <3>4. /\ time \in {"dated", "1601"} \cup {None}
            /\ time = "1601" => v.time = "overflow"
            /\ time # None <=> Usable(v)
        BY <3>2, <3>3, RowTimes
      <3> HIDE DEF time
      <3> QED
        BY <3>1, <3>2, <3>3, <3>4, KeepFaithful DEF time
    <2>5. CASE RefuseSidecar
      BY <2>5, Nothing DEF RefuseSidecar, Fails, Ends
    <2>6. CASE SidecarEnds
      BY <2>6, Handed DEF SidecarEnds, Ends, Call
    <2>7. ASSUME OpenAmcache \/ OpenShimcache \/ OpenBam \/ OpenUserAssist
                 \/ OpenPrefetch \/ OpenSysmon
          PROVE  FaithInv'
      <3>1. ASSUME NEW kinds \in {{"malformed"}, {"malformed", "raw"}},
                   Unopened(kinds)
            PROVE  FaithInv'
        BY <3>1, Nothing DEF Unopened, Fails, Ends
      <3>2. ASSUME NEW there \in {"select", "locate", "rows"}, Opened(there)
            PROVE  FaithInv'
        BY <3>2, Passing DEF Opened, At, Call
      <3> QED
        BY <2>7, <3>1, <3>2 DEF OpenAmcache, OpenShimcache, OpenBam,
           OpenUserAssist, OpenPrefetch, OpenSysmon
    <2>8. CASE ResolveActiveControlset
      BY <2>8, Passing DEF ResolveActiveControlset, At, Call
    <2>9. ASSUME Located \/ Absent \/ Unlocated \/ Unreadable
          PROVE  FaithInv'
      <3>1. CASE Located
        BY <3>1, Passing DEF Located, At, Call
      <3>2. CASE Absent
        BY <3>2, Nothing DEF Absent, Ends, Call
      <3>3. CASE Unlocated
        BY <3>3, Nothing DEF Unlocated, Fails, Ends
      <3>4. CASE Unreadable
        BY <3>4, Nothing DEF Unreadable, Ends, Call
      <3> QED
        BY <2>9, <3>1, <3>2, <3>3, <3>4
    <2>10. ASSUME ReadAmcache \/ ReadShimcache \/ ReadBam \/ ReadUserAssist
                  \/ ReadPrefetch \/ ReadSysmon
           PROVE  FaithInv'
      <3>0. pc = "rows" /\ ~fixture /\ ~OverCap
            /\ (tool \in Keyed => open)
        BY <2>10 DEF ReadAmcache, ReadShimcache, ReadBam, ReadUserAssist,
           ReadPrefetch, ReadSysmon, Reads, OverCap, Capped, Keyed,
           FaithInv, ShortInv, PointOk
      <3>1. PICK v, time :
              /\ v \in Value /\ Keep(v, time)
              /\ \/ /\ tool = "get_amcache"
                    /\ v.kind \in {"run", "corrupted", "unreadable"}
                    /\ time = AmcacheRow(v)
                 \/ /\ tool = "get_shimcache"
                    /\ v.kind \in {"run", "housekeeping"}
                    /\ time = ShimcacheRow(v)
                 \/ /\ tool = "get_bam"
                    /\ v.kind \in {"run", "corrupted", "housekeeping", "short"}
                    /\ time = BamRow(v)
                 \/ /\ tool = "get_userassist"
                    /\ v.kind \in {"run", "corrupted", "housekeeping", "short"}
                    /\ time = UserAssistRow(v)
                 \/ /\ tool = "get_prefetch"
                    /\ v.kind = "run" /\ v.path = "ok"
                    /\ time = PrefetchRow(v)
                 \/ /\ tool = "get_sysmon_4688"
                    /\ v.kind \in {"run", "housekeeping", "unreadable"}
                    /\ time = SysmonRow(v)
        BY <2>10, ValuesAssumption DEF ReadAmcache, ReadShimcache, ReadBam,
           ReadUserAssist, ReadPrefetch, ReadSysmon, Reads, Rows
      <3>2. /\ time \in {"dated", "1601"} \cup {None}
            /\ time = "1601" => v.time = "overflow"
            /\ time # None <=> Usable(v)
        BY <3>0, <3>1, RowTimes
      <3>3. v.kind \in {"corrupted", "unreadable"} =>
              ~fixture /\ tool \in Keyed \cup Capped
        BY <3>0, <3>1 DEF Keyed, Capped
      <3> QED
        BY <3>0, <3>1, <3>2, <3>3, KeepFaithful
    <2>11. CASE ReadSid \/ ReadGuid
      <3>1. PICK key \in Key, accepted \in BOOLEAN :
              OpenKey(key, accepted) /\ (accepted => Accepted(key))
        BY <2>11 DEF ReadSid, ReadGuid, Dropped, Accepted, Key
      <3>2. pc = "rows" /\ tool \in Keyed
        BY <2>11 DEF ReadSid, ReadGuid, Reads, Keyed
      <3> QED
        BY <3>1, <3>2, KeyFaithful
    <2>12. CASE ReadForbidden
      BY <2>12, Nothing DEF ReadForbidden, Fails, Ends
    <2>13. CASE ExceedCap
      BY <2>13, Nothing DEF ExceedCap, Fails, Ends
    <2>14. CASE KeysBreak
      BY <2>14, Nothing DEF KeysBreak, Fails, Ends
    <2>15. CASE StreamBreaks
      BY <2>15, Handed DEF StreamBreaks, Ends, Call
    <2>16. CASE StreamEnds
      BY <2>16, Handed DEF StreamEnds, Ends, Call
    <2> QED
      BY <1>2, <2>1, <2>2, <2>3, <2>4, <2>5, <2>6, <2>7, <2>8, <2>9, <2>10,
         <2>11, <2>12, <2>13, <2>14, <2>15, <2>16
      DEF ParserNext, LocateInventory, LoadShimcacheBlob, LocateUserSettings,
          LocateUserAssist, LocateExecutable
  <1> QED
    BY <1>1, <1>2 DEF Next, SanitizeText, CheckFacts, vars

(* What a parser hands on, whole or in part, are the usable rows of the    *)
(* artifact: all of them, in their order and numbered without gaps, from   *)
(* the active control set or a sidecar of this tool, for artifacts of      *)
(* every length (parsers).                                                 *)
THEOREM ParsersFaithful == Spec => []ParseFaithful
  <1>1. FaithInv => ParseFaithful
    BY DEF FaithInv
  <1> QED
    BY <1>1, FaithInit, FaithStep, PTL DEF Spec

-----------------------------------------------------------------------------
(* The types.                                                              *)

TypeInv == TypeOK /\ FaithInv /\ CleanInv /\ FactsIInv

LEMMA TypeInit == Init => TypeInv
  <1> SUFFICES ASSUME Init
               PROVE  TypeInv
    OBVIOUS
  <1>1. FaithInv /\ CleanInv /\ FactsIInv
    BY FaithInit, CleanInit DEF Init, FactsIInv, FactsInv, NoFacts
  <1>2. CASE ParserInit
    <2>1. seen \in Seq(Value \cup Key) /\ out \in Seq(Events)
      BY <1>2 DEF ParserInit
    <2>2. ParserTypeOK
      BY <1>2, <2>1 DEF ParserInit, ParserTypeOK
    <2> QED
      BY <1>1, <2>2 DEF TypeInv, TypeOK, CleanInv, FactsIInv, Init
  <1>3. CASE Idle
    BY <1>1, <1>3 DEF TypeInv, TypeOK, CleanInv, FactsIInv, Init, Idle
  <1> QED
    BY <1>2, <1>3 DEF Init

(* A step of a parser, apart from the rows it has read.                    *)
LEMMA ParserMoves ==
    ASSUME ParserTypeOK, ParserNext
    PROVE  /\ UNCHANGED Call
           /\ pc' \in {"start", "sidecar", "sidecar_rows", "open", "select",
                       "locate", "rows", "done"}
           /\ cs' \in {1, 2, None}
           /\ open' \in BOOLEAN
           /\ fault' \subseteq Failures
           /\ pc' = "done" => UNCHANGED out
           /\ result' \in Results \cup {None}
  <1> DEFINE Moves ==
               /\ UNCHANGED Call
               /\ pc' \in {"start", "sidecar", "sidecar_rows", "open",
                           "select", "locate", "rows", "done"}
               /\ cs' \in {1, 2, None}
               /\ open' \in BOOLEAN
               /\ fault' \subseteq Failures
               /\ pc' = "done" => UNCHANGED out
               /\ result' \in Results \cup {None}
  <1>0. <<>> \in Seq(Events) /\ out \in Seq(Events)
    BY DEF ParserTypeOK
  <1>1. ASSUME NEW here, NEW kind, NEW events, Ends(here, kind, events),
               kind \in {"list", "partial", "malformed", "raw", "not_found",
                         "not_implemented"},
               events \in {<<>>, out}
        PROVE  result' \in Results /\ pc' = "done"
    BY <1>0, <1>1 DEF Ends, Results
  <1>2. ASSUME NEW v, NEW time, Keep(v, time), pc \in {"rows", "sidecar_rows"}
        PROVE  Moves
    BY <1>2 DEF Keep, Call, ParserTypeOK, Damage, Failures
  <1>3. ASSUME NEW key, NEW accepted \in BOOLEAN, OpenKey(key, accepted),
               pc = "rows"
        PROVE  Moves
    BY <1>3 DEF OpenKey, Call, ParserTypeOK, Failures
  <1> USE DEF ParserTypeOK, At, Fails, Call, Failures
  <1>4. CASE NotAFile
    BY <1>1, <1>4 DEF NotAFile
  <1>5. CASE Dispatch
    BY <1>5 DEF Dispatch
  <1>6. CASE LoadSidecar
    BY <1>1, <1>6 DEF LoadSidecar
  <1>7. CASE ReadSidecar
    BY <1>2, <1>7 DEF ReadSidecar
  <1>8. CASE RefuseSidecar
    BY <1>1, <1>8 DEF RefuseSidecar
  <1>9. CASE SidecarEnds
    BY <1>1, <1>9 DEF SidecarEnds
  <1>10. ASSUME OpenAmcache \/ OpenShimcache \/ OpenBam \/ OpenUserAssist
                  \/ OpenPrefetch \/ OpenSysmon
         PROVE  Moves
    <2>1. ASSUME NEW kinds \in {{"malformed"}, {"malformed", "raw"}},
                 Unopened(kinds)
          PROVE  Moves
      BY <1>1, <2>1 DEF Unopened
    <2>2. ASSUME NEW there \in {"select", "locate", "rows"}, Opened(there)
          PROVE  Moves
      BY <2>2 DEF Opened
    <2> QED
      BY <1>10, <2>1, <2>2 DEF OpenAmcache, OpenShimcache, OpenBam,
         OpenUserAssist, OpenPrefetch, OpenSysmon
  <1>11. CASE ResolveActiveControlset
    BY <1>11 DEF ResolveActiveControlset
  <1>12. CASE Located
    BY <1>12 DEF Located
  <1>13. CASE Absent
    BY <1>1, <1>13 DEF Absent
  <1>14. CASE Unlocated
    BY <1>1, <1>14 DEF Unlocated
  <1>15. CASE ReadAmcache \/ ReadShimcache \/ ReadBam \/ ReadUserAssist
                \/ ReadPrefetch \/ ReadSysmon
    BY <1>2, <1>15 DEF ReadAmcache, ReadShimcache, ReadBam, ReadUserAssist,
       ReadPrefetch, ReadSysmon, Reads
  <1>16. CASE ReadSid \/ ReadGuid
    <2>1. PICK key \in Key, accepted \in BOOLEAN : OpenKey(key, accepted)
      BY <1>16 DEF ReadSid, ReadGuid
    <2> QED
      BY <1>3, <1>16, <2>1 DEF ReadSid, ReadGuid, Reads
  <1>17. CASE ReadForbidden
    BY <1>1, <1>17 DEF ReadForbidden
  <1>18. CASE ExceedCap
    BY <1>1, <1>18 DEF ExceedCap
  <1>19. CASE KeysBreak
    BY <1>1, <1>19 DEF KeysBreak
  <1>20. CASE StreamBreaks
    BY <1>1, <1>20 DEF StreamBreaks
  <1>21. CASE StreamEnds
    BY <1>1, <1>21 DEF StreamEnds
  <1>22. CASE Unreadable
    BY <1>1, <1>22 DEF Unreadable
  <1> QED
    BY <1>4, <1>5, <1>6, <1>7, <1>8, <1>9, <1>10, <1>11, <1>12, <1>13, <1>14,
       <1>15, <1>16, <1>17, <1>18, <1>19, <1>20, <1>21, <1>22
    DEF ParserNext, LocateInventory, LoadShimcacheBlob, LocateUserSettings,
        LocateUserAssist, LocateExecutable

(* Where no parser was called, none moves.                                 *)
LEMMA IdleStays == pc = "idle" => ~ParserNext
  BY DEF ParserNext, NotAFile, Dispatch, LoadSidecar, ReadSidecar,
     RefuseSidecar, SidecarEnds, OpenAmcache, OpenShimcache, OpenBam,
     OpenUserAssist, OpenPrefetch, OpenSysmon, Opened, Unopened,
     ResolveActiveControlset, Located, Absent, Unreadable, Unlocated,
     LocateInventory,
     LoadShimcacheBlob, LocateUserSettings, LocateUserAssist,
     LocateExecutable, ReadAmcache, ReadShimcache, ReadSid, ReadBam, ReadGuid,
     ReadUserAssist, ReadPrefetch, ReadSysmon, ReadForbidden, ExceedCap,
     KeysBreak, StreamBreaks, StreamEnds, Reads, At, Ends, Fails

LEMMA TypeStep == TypeInv /\ [Next]_vars => TypeInv'
  <1> SUFFICES ASSUME TypeInv, [Next]_vars
               PROVE  TypeInv'
    OBVIOUS
  <1>1. FaithInv' /\ CleanInv' /\ FactsIInv'
    BY FaithStep, CleanStep, FactsStep DEF TypeInv
  <1>2. pc' = "idle" \/ ParserTypeOK'
    <2>1. CASE ParserNext
      <3>1. ParserTypeOK
        BY <2>1, IdleStays DEF TypeInv, TypeOK
      <3>2. /\ UNCHANGED Call
            /\ pc' \in {"start", "sidecar", "sidecar_rows", "open", "select",
                        "locate", "rows", "done"}
            /\ cs' \in {1, 2, None} /\ open' \in BOOLEAN /\ fault' \subseteq Failures
            /\ pc' = "done" => UNCHANGED out
            /\ result' \in Results \cup {None}
        BY <2>1, <3>1, ParserMoves
      <3>3. seen' \in Seq(Value \cup Key)
        BY <1>1 DEF FaithInv, ShortInv, PointOk
      <3>4. out' \in Seq(Events)
        BY <1>1, <3>1, <3>2 DEF FaithInv, Numbered, ParserTypeOK
      <3> QED
        BY <3>1, <3>2, <3>3, <3>4 DEF ParserTypeOK, Call
    <2>2. CASE UNCHANGED parserVars
      BY <2>2 DEF TypeInv, TypeOK, ParserTypeOK, parserVars
    <2> QED
      BY <2>1, <2>2 DEF Next, SanitizeText, CheckFacts, vars
  <1>3. clean' = None \/ clean'.payload \in Seq(Chars)
    BY <1>1, Payloads DEF CleanInv
  <1>4. verdict' \in [flush : Reasons, suppression : Reasons,
                      timestomp : Reasons] \cup {None}
    <2>1. \A rows, write, acquired :
            AppcompatFlush(rows, write, acquired) \in Reasons
      BY DEF AppcompatFlush, Reasons
    <2>2. \A rows, files, state :
            SysmainSuppression(rows, files, state) \in Reasons
      BY DEF SysmainSuppression, Reasons
    <2>3. \A si, fn : MftTimestomp(si, fn) \in Reasons
      BY DEF MftTimestomp, Reasons
    <2> QED
      BY <1>1, <2>1, <2>2, <2>3 DEF FactsIInv, FactsInv, Judged
  <1> QED
    BY <1>1, <1>2, <1>3, <1>4 DEF TypeInv, TypeOK, CleanInv, FactsIInv, Chars

(* The variables keep their shape; in particular every event a parser      *)
(* builds has a time, the marker and the note are all the sanitizer adds   *)
(* to the alphabet of a text, and every check gives one of its reasons.    *)
THEOREM Typing == Spec => []TypeOK
  <1>1. TypeInv => TypeOK
    BY DEF TypeInv
  <1> QED
    BY <1>1, TypeInit, TypeStep, PTL DEF Spec

=============================================================================
