------------------------ MODULE SanctumServerProofs ------------------------
(***************************************************************************)
(* Proofs about SanctumServer for every set of calls, every set of faults  *)
(* and every bound on the crashes.                                         *)
(***************************************************************************)
EXTENDS SanctumInvariant, SequenceTheorems, TLAPS

-----------------------------------------------------------------------------
(* Type correctness.                                                       *)

USE GenesisIsNoCall, ClaimCallsAreCalls, FaultsAssumption,
    MaxCrashesAssumption, FreeIsNoCall DEF lasting

(* Ending a call, however it ends, keeps pc and the holders well-typed.    *)
LEMMA EndType ==
    ASSUME TypeOK, NEW c \in Calls, NEW how \in Ended, End(c, how)
    PROVE  /\ pc' \in [Calls -> Points]
           /\ gate' \in Calls \cup {Free}
           /\ lock' \in Calls \cup {Free}
  BY DEF TypeOK, End, Release, Points

(* What a crash leaves of the ledger is a prefix of it, extended at most   *)
(* by the entry that was being written.                                    *)
LEMMA SettledType ==
    ASSUME TypeOK
    PROVE  /\ Settled \in Seq(Line)
           /\ Len(Settled) <= Len(ledger)
           /\ \A i \in 1..Len(Settled) : Settled[i] = ledger[i]
           /\ ~(lock # Free /\ pc[lock] = "appended") => Settled = ledger
           /\ lock # Free /\ pc[lock] = "appended" /\ Len(ledger) > 0 =>
                Len(Settled) = Len(ledger) - 1
  <1>1. ledger \in Seq(Line)
    BY DEF TypeOK
  <1>2. CASE lock # Free /\ pc[lock] = "appended"
    <2>1. \A i \in 1..(Len(ledger) - 1) : ledger[i] \in Line
      BY <1>1, ElementOfSeq
    <2>2. Len(ledger) \in Nat
      BY <1>1, LenProperties
    <2>3. /\ SubSeq(ledger, 1, Len(ledger) - 1) \in Seq(Line)
          /\ Len(SubSeq(ledger, 1, Len(ledger) - 1)) =
               IF 1 <= Len(ledger) - 1 THEN Len(ledger) - 1 - 1 + 1 ELSE 0
          /\ \A i \in 1 .. Len(ledger) - 1 - 1 + 1 :
               SubSeq(ledger, 1, Len(ledger) - 1)[i] = ledger[1 + i - 1]
      BY <2>1, <2>2, SubSeqProperties
    <2>4. Settled = SubSeq(ledger, 1, Len(ledger) - 1)
      BY <1>2 DEF Settled
    <2>5. Len(Settled) = IF 1 <= Len(ledger) - 1 THEN Len(ledger) - 1 ELSE 0
      BY <2>2, <2>3, <2>4
    <2>6. ASSUME NEW i \in 1..Len(Settled)
          PROVE  Settled[i] = ledger[i]
      BY <2>2, <2>3, <2>4, <2>5
    <2>7. Settled \in Seq(Line)
      BY <2>3, <2>4
    <2>8. /\ Len(Settled) <= Len(ledger)
          /\ Len(ledger) > 0 => Len(Settled) = Len(ledger) - 1
      BY <2>2, <2>5
    <2>9. QED
      BY <1>2, <2>6, <2>7, <2>8
  <1>3. CASE ~(lock # Free /\ pc[lock] = "appended")
    BY <1>1, <1>3 DEF Settled
  <1>4. QED
    BY <1>2, <1>3

LEMMA EntryType ==
    ASSUME TypeOK, NEW c \in Calls, NEW f \in PartialForms \cup {"whole"}
    PROVE  Entry(c, f) \in Line
  BY DEF TypeOK, Entry, Line, PartialForms, Forms

LEMMA TypeStep == TypeOK /\ [Next]_vars => TypeOK'
  <1> SUFFICES ASSUME TypeOK, [Next]_vars
               PROVE  TypeOK'
    OBVIOUS
  <1>1. ASSUME NEW c \in Calls, Arrive(c)
        PROVE  TypeOK'
    BY <1>1 DEF TypeOK, Arrive, Goto, Points
  <1>2. ASSUME NEW c \in Calls, EnterGate(c)
        PROVE  TypeOK'
    BY <1>2 DEF TypeOK, EnterGate, Goto, Points, Working
  <1>3. ASSUME NEW c \in Calls, ReadEvidence(c)
        PROVE  TypeOK'
    BY <1>3 DEF TypeOK, ReadEvidence, Goto, Points, Working
  <1>4. ASSUME NEW c \in Calls, EvidenceRefused(c)
        PROVE  TypeOK'
    BY <1>4, EndType DEF TypeOK, EvidenceRefused, Ended
  <1>5. ASSUME NEW c \in Calls, EvaluateClaim(c)
        PROVE  TypeOK'
    BY <1>5 DEF TypeOK, EvaluateClaim, Goto, Points, Working
  <1>6. ASSUME NEW c \in Calls, RefuseClaim(c)
        PROVE  TypeOK'
    BY <1>6, EndType DEF TypeOK, RefuseClaim, Ended
  <1>7. ASSUME NEW c \in Calls, OpenPayload(c)
        PROVE  TypeOK'
    BY <1>7 DEF TypeOK, OpenPayload, Goto, Points, Working, PayloadForms
  <1>8. ASSUME NEW c \in Calls, WritePayload(c) \/ SyncPayload(c)
        PROVE  TypeOK'
    BY <1>8 DEF TypeOK, WritePayload, SyncPayload, Goto, Points, Working, PayloadForms
  <1>9. ASSUME NEW c \in Calls, PayloadFails(c)
        PROVE  TypeOK'
    BY <1>9, EndType DEF TypeOK, PayloadFails, Ended
  <1>10. ASSUME NEW c \in Calls, TakeLock(c)
         PROVE  TypeOK'
    BY <1>10 DEF TypeOK, TakeLock, Goto, Points, Working, Appending
  <1>11. ASSUME NEW c \in Calls, ReadHead(c)
         PROVE  TypeOK'
    <2>1. LastLineHash(ledger) \in Calls \cup {Genesis}
      <3>1. CASE ledger = <<>>
        BY <3>1 DEF LastLineHash
      <3>2. CASE ledger # <<>>
        <4>1. ledger \in Seq(Line) /\ Len(ledger) \in Nat /\ Len(ledger) # 0
          BY <3>2, EmptySeq, LenProperties DEF TypeOK
        <4>2. ledger[Len(ledger)] \in Line
          BY <4>1, ElementOfSeq
        <4>3. QED
          BY <3>2, <4>2 DEF LastLineHash, Line
      <3>3. QED
        BY <3>1, <3>2
    <2>2. QED
      BY <1>11, <2>1 DEF TypeOK, ReadHead, Goto, Points, Working, Appending
  <1>12. ASSUME NEW c \in Calls, WriteTemp(c)
         PROVE  TypeOK'
    BY <1>12 DEF TypeOK, WriteTemp, Goto, Points, Working, Appending
  <1>13. ASSUME NEW c \in Calls, AppendLine(c)
         PROVE  TypeOK'
    <2>1. ledger' \in Seq(Line)
      BY <1>13, EntryType, AppendProperties DEF TypeOK, AppendLine
    <2>2. QED
      BY <1>13, <2>1 DEF TypeOK, AppendLine, Goto, Points, Working, Appending
  <1>14. ASSUME NEW c \in Calls, SyncLine(c)
         PROVE  TypeOK'
    BY <1>14 DEF TypeOK, SyncLine, Goto, Points, Working, Appending
  <1>15. ASSUME NEW c \in Calls, UnlinkTemp(c)
         PROVE  TypeOK'
    BY <1>15 DEF TypeOK, UnlinkTemp, Goto, Points, Working, Appending
  <1>16. ASSUME NEW c \in Calls, AppendFails(c)
         PROVE  TypeOK'
    <2>1. \A f \in PartialForms : Append(ledger, Entry(c, f)) \in Seq(Line)
      BY EntryType, AppendProperties DEF TypeOK
    <2>2. ledger' \in Seq(Line)
      BY <1>16, <2>1 DEF TypeOK, AppendFails
    <2>3. QED
      BY <1>16, <2>2, EndType DEF TypeOK, AppendFails, Ended
  <1>17. ASSUME NEW c \in Calls, Respond(c)
         PROVE  TypeOK'
    BY <1>17, EndType DEF TypeOK, Respond, Ended
  <1>18. ASSUME NEW c \in Calls, Cancel(c)
         PROVE  TypeOK'
    BY <1>18, EndType DEF TypeOK, Cancel, Ended
  <1>19. CASE Crash
    <2>1. \A c \in Calls : \A f \in PartialForms \cup {"whole"} :
             Append(Settled, Entry(c, f)) \in Seq(Line)
      BY EntryType, SettledType, AppendProperties
    <2>2. ledger' \in Seq(Line)
      <3>1. ASSUME ledger' \in AfterCrash
            PROVE  ledger' \in Seq(Line)
        BY <2>1, <3>1, SettledType DEF AfterCrash
      <3>2. CASE ledger' = <<>>
        BY <3>2, EmptySeq
      <3>3. QED
        BY <1>19, <3>1, <3>2 DEF Crash, ProcessDies, MachineDies, LoseLedger
    <2>3. pc' \in [Calls -> Points]
      BY <1>19 DEF TypeOK, Crash, Points, Ended
    <2>4. crashes' \in 0..MaxCrashes
      BY <1>19 DEF TypeOK, Crash
    <2>5. payload' \in [Calls -> PayloadForms] /\ kept' \subseteq Calls
      BY <1>19 DEF TypeOK, Crash, ProcessDies, MachineDies
    <2>6. rooted' \in BOOLEAN
      BY <1>19 DEF TypeOK, Crash, ProcessDies, MachineDies, LoseLedger
    <2>7. erased' \subseteq Calls
      <3>1. \A i \in 1..Len(ledger) : ledger[i].id \in Calls
        <4>1. \A i \in 1..Len(ledger) : ledger[i] \in Line
          BY ElementOfSeq DEF TypeOK
        <4>2. QED
          BY <4>1 DEF Line
      <3>2. QED
        BY <1>19, <3>1 DEF TypeOK, Crash, ProcessDies, MachineDies, LoseLedger
    <2>8. QED
      BY <1>19, <2>2, <2>3, <2>4, <2>5, <2>6, <2>7 DEF TypeOK, Crash
  <1>20. CASE UNCHANGED vars
    BY <1>20 DEF TypeOK, vars
  <1>21. QED
    BY <1>1, <1>2, <1>3, <1>4, <1>5, <1>6, <1>7, <1>8, <1>9, <1>10, <1>11,
       <1>12, <1>13, <1>14, <1>15, <1>16, <1>17, <1>18, <1>19, <1>20
       DEF Next, Advance

LEMMA InitType == Init => TypeOK
  <1> SUFFICES ASSUME Init
               PROVE  TypeOK
    OBVIOUS
  <1>1. rooted \in BOOLEAN /\ parallel \in BOOLEAN
    BY DEF Init
  <1>2. /\ pc \in [Calls -> Points]
        /\ payload \in [Calls -> PayloadForms]
        /\ cites \in [Calls -> SUBSET Calls]
        /\ head \in [Calls -> Calls \cup {Genesis}]
    BY DEF Init, Points, PayloadForms
  <1>3. /\ gate \in Calls \cup {Free} /\ lock \in Calls \cup {Free}
        /\ ledger \in Seq(Line) /\ crashes \in 0..MaxCrashes
    BY EmptySeq DEF Init
  <1>4. /\ offloaded \subseteq Calls /\ orphans \subseteq Calls
        /\ kept \subseteq Calls /\ erased \subseteq Calls
    BY DEF Init
  <1>5. QED
    BY <1>1, <1>2, <1>3, <1>4 DEF TypeOK

(* The server's variables keep their types under every interleaving,       *)
(* fault, cancellation and crash.                                          *)
THEOREM Typing == Spec => []TypeOK
  <1>1. Init => TypeOK
    BY InitType
  <1>2. TypeOK /\ [Next]_vars => TypeOK'
    BY TypeStep
  <1>3. QED
    BY <1>1, <1>2, PTL DEF Spec


-----------------------------------------------------------------------------
(* The two holders.                                                        *)

LEMMA EndHolders ==
    ASSUME TypeOK, LockHeld, GateHeld,
           NEW c \in Calls, NEW how \in Ended, End(c, how), parallel' = parallel
    PROVE  LockHeld' /\ GateHeld'
  <1>1. LockHeld'
    BY DEF TypeOK, LockHeld, End, Release, Ended, Appending
  <1>2. GateHeld'
    BY DEF TypeOK, GateHeld, End, Release, Ended, Working, Appending
  <1>3. QED
    BY <1>1, <1>2

LEMMA HoldersStep ==
    TypeOK /\ LockHeld /\ GateHeld /\ [Next]_vars => LockHeld' /\ GateHeld'
  <1> SUFFICES ASSUME TypeOK, LockHeld, GateHeld, [Next]_vars
               PROVE  LockHeld' /\ GateHeld'
    OBVIOUS
  <1>1. ASSUME NEW c \in Calls, Arrive(c)
        PROVE  LockHeld' /\ GateHeld'
    BY <1>1 DEF TypeOK, LockHeld, GateHeld, Arrive, Goto, Working, Appending
  <1>2. ASSUME NEW c \in Calls, EnterGate(c)
        PROVE  LockHeld' /\ GateHeld'
    BY <1>2 DEF TypeOK, LockHeld, GateHeld, EnterGate, Goto, Working, Appending
  <1>3. ASSUME NEW c \in Calls, ReadEvidence(c)
        PROVE  LockHeld' /\ GateHeld'
    BY <1>3 DEF TypeOK, LockHeld, GateHeld, ReadEvidence, Goto, Working, Appending
  <1>4. ASSUME NEW c \in Calls, EvidenceRefused(c)
        PROVE  LockHeld' /\ GateHeld'
    BY <1>4, EndHolders DEF EvidenceRefused, Ended
  <1>5. ASSUME NEW c \in Calls, EvaluateClaim(c)
        PROVE  LockHeld' /\ GateHeld'
    BY <1>5 DEF TypeOK, LockHeld, GateHeld, EvaluateClaim, Goto, Working, Appending
  <1>6. ASSUME NEW c \in Calls, RefuseClaim(c)
        PROVE  LockHeld' /\ GateHeld'
    BY <1>6, EndHolders DEF RefuseClaim, Ended
  <1>7. ASSUME NEW c \in Calls, OpenPayload(c)
        PROVE  LockHeld' /\ GateHeld'
    BY <1>7 DEF TypeOK, LockHeld, GateHeld, OpenPayload, Goto, Working, Appending
  <1>8. ASSUME NEW c \in Calls, WritePayload(c) \/ SyncPayload(c)
        PROVE  LockHeld' /\ GateHeld'
    BY <1>8 DEF TypeOK, LockHeld, GateHeld, WritePayload, SyncPayload, Goto,
                Working, Appending
  <1>9. ASSUME NEW c \in Calls, PayloadFails(c)
        PROVE  LockHeld' /\ GateHeld'
    BY <1>9, EndHolders DEF PayloadFails, Ended
  <1>10. ASSUME NEW c \in Calls, TakeLock(c)
         PROVE  LockHeld' /\ GateHeld'
    BY <1>10 DEF TypeOK, LockHeld, GateHeld, TakeLock, Goto, Working, Appending
  <1>11. ASSUME NEW c \in Calls, ReadHead(c)
         PROVE  LockHeld' /\ GateHeld'
    BY <1>11 DEF TypeOK, LockHeld, GateHeld, ReadHead, Goto, Working, Appending
  <1>12. ASSUME NEW c \in Calls, WriteTemp(c)
         PROVE  LockHeld' /\ GateHeld'
    BY <1>12 DEF TypeOK, LockHeld, GateHeld, WriteTemp, Goto, Working, Appending
  <1>13. ASSUME NEW c \in Calls, AppendLine(c)
         PROVE  LockHeld' /\ GateHeld'
    BY <1>13 DEF TypeOK, LockHeld, GateHeld, AppendLine, Goto, Working, Appending
  <1>14. ASSUME NEW c \in Calls, SyncLine(c)
         PROVE  LockHeld' /\ GateHeld'
    BY <1>14 DEF TypeOK, LockHeld, GateHeld, SyncLine, Goto, Working, Appending
  <1>15. ASSUME NEW c \in Calls, UnlinkTemp(c)
         PROVE  LockHeld' /\ GateHeld'
    BY <1>15 DEF TypeOK, LockHeld, GateHeld, UnlinkTemp, Goto, Working, Appending
  <1>16. ASSUME NEW c \in Calls, AppendFails(c)
         PROVE  LockHeld' /\ GateHeld'
    BY <1>16, EndHolders DEF AppendFails, Ended
  <1>17. ASSUME NEW c \in Calls, Respond(c)
         PROVE  LockHeld' /\ GateHeld'
    BY <1>17, EndHolders DEF Respond, Ended
  <1>18. ASSUME NEW c \in Calls, Cancel(c)
         PROVE  LockHeld' /\ GateHeld'
    BY <1>18, EndHolders DEF Cancel, Ended
  <1>19. CASE Crash
    BY <1>19 DEF TypeOK, LockHeld, GateHeld, Crash, Ended, Working, Appending
  <1>20. CASE UNCHANGED vars
    BY <1>20 DEF LockHeld, GateHeld, vars
  <1>21. QED
    BY <1>1, <1>2, <1>3, <1>4, <1>5, <1>6, <1>7, <1>8, <1>9, <1>10, <1>11,
       <1>12, <1>13, <1>14, <1>15, <1>16, <1>17, <1>18, <1>19, <1>20
       DEF Next, Advance


-----------------------------------------------------------------------------
(* What one step may do to one call, and to the ledger.                    *)

Landed == {"appended", "synced", "committed", "answered"}

Paid == {"opened", "written", "lock"} \cup Appending

Present == {"partial", "whole"}

Claimed == {"payload"} \cup Paid

(* The history of a call is one-way: what it has written stays written,    *)
(* and it reaches each region only through that region's first action.     *)
CallMoves(c) ==
    /\ pc[c] \in Written => pc'[c] \in Written
    /\ pc'[c] = "appended" => pc[c] = "appended" \/ AppendLine(c)
    /\ pc'[c] \in Landed => pc[c] \in Landed \/ AppendLine(c)
    /\ pc'[c] \in Paid => \/ pc[c] \in Paid /\ payload'[c] = payload[c]
                          \/ payload'[c] \in Present
    /\ pc'[c] \in Claimed => pc[c] \in Claimed \/ EvaluateClaim(c) \/ c \notin ClaimCalls
    /\ payload[c] # "absent" => payload'[c] # "absent"
    /\ pc'[c] = "new" => pc[c] = "new" /\ (payload[c] = "absent" => payload'[c] = "absent")
    /\ c \in erased => c \in erased'
    /\ pc[c] # "new" => cites'[c] = cites[c]
    /\ pc[c] # "locked" => head'[c] = head[c]
    /\ pc'[c] \in {"head", "temp"} =>
          \/ ReadHead(c)
          \/ pc[c] \in {"head", "temp"} /\ head'[c] = head[c] /\ ledger' = ledger

LEMMA CallStep ==
    ASSUME TypeOK, LockHeld, [Next]_vars, NEW c \in Calls
    PROVE  CallMoves(c)
  <1> USE DEF CallMoves, TypeOK, Landed, Paid, Present, Claimed, Written, Appending
  <1>1. ASSUME NEW d \in Calls, Arrive(d)
        PROVE  CallMoves(c)
    BY <1>1 DEF Arrive, Goto
  <1>2. ASSUME NEW d \in Calls, EnterGate(d)
        PROVE  CallMoves(c)
    BY <1>2 DEF EnterGate, Goto
  <1>3. ASSUME NEW d \in Calls, ReadEvidence(d)
        PROVE  CallMoves(c)
    BY <1>3 DEF ReadEvidence, Goto
  <1>4. ASSUME NEW d \in Calls, EvidenceRefused(d)
        PROVE  CallMoves(c)
    BY <1>4 DEF EvidenceRefused, End, Ended
  <1>5. ASSUME NEW d \in Calls, EvaluateClaim(d)
        PROVE  CallMoves(c)
    BY <1>5 DEF EvaluateClaim, Goto
  <1>6. ASSUME NEW d \in Calls, RefuseClaim(d)
        PROVE  CallMoves(c)
    BY <1>6 DEF RefuseClaim, End, Ended
  <1>7. ASSUME NEW d \in Calls, OpenPayload(d)
        PROVE  CallMoves(c)
    BY <1>7 DEF OpenPayload, Goto
  <1>8. ASSUME NEW d \in Calls, WritePayload(d) \/ SyncPayload(d)
        PROVE  CallMoves(c)
    BY <1>8 DEF WritePayload, SyncPayload, Goto
  <1>9. ASSUME NEW d \in Calls, PayloadFails(d)
        PROVE  CallMoves(c)
    BY <1>9 DEF PayloadFails, End, Ended
  <1>10. ASSUME NEW d \in Calls, TakeLock(d)
         PROVE  CallMoves(c)
    BY <1>10 DEF TakeLock, Goto
  <1>11. ASSUME NEW d \in Calls, ReadHead(d)
         PROVE  CallMoves(c)
    BY <1>11 DEF ReadHead, Goto
  <1>12. ASSUME NEW d \in Calls, WriteTemp(d)
         PROVE  CallMoves(c)
    BY <1>12 DEF WriteTemp, Goto
  <1>13. ASSUME NEW d \in Calls, AppendLine(d)
         PROVE  CallMoves(c)
    BY <1>13 DEF AppendLine, Goto, LockHeld
  <1>14. ASSUME NEW d \in Calls, SyncLine(d)
         PROVE  CallMoves(c)
    BY <1>14 DEF SyncLine, Goto
  <1>15. ASSUME NEW d \in Calls, UnlinkTemp(d)
         PROVE  CallMoves(c)
    BY <1>15 DEF UnlinkTemp, Goto
  <1>16. ASSUME NEW d \in Calls, AppendFails(d)
         PROVE  CallMoves(c)
    BY <1>16 DEF AppendFails, End, Ended, LockHeld
  <1>17. ASSUME NEW d \in Calls, Respond(d)
         PROVE  CallMoves(c)
    BY <1>17 DEF Respond, End, Ended
  <1>18. ASSUME NEW d \in Calls, Cancel(d)
         PROVE  CallMoves(c)
    BY <1>18 DEF Cancel, End, Ended, Cancellable
  <1>19. CASE Crash
    BY <1>19 DEF Crash, ProcessDies, MachineDies, LoseLedger, MayRemain, Ended
  <1>20. CASE UNCHANGED vars
    BY <1>20 DEF vars
  <1>21. QED
    BY <1>1, <1>2, <1>3, <1>4, <1>5, <1>6, <1>7, <1>8, <1>9, <1>10, <1>11,
       <1>12, <1>13, <1>14, <1>15, <1>16, <1>17, <1>18, <1>19, <1>20
       DEF Next, Advance


-----------------------------------------------------------------------------
(* Facts about ledgers.                                                    *)

LEMMA PrefixChain ==
    ASSUME NEW L \in Seq(Line), NEW P \in Seq(Line), Len(P) <= Len(L),
           \A i \in 1..Len(P) : P[i] = L[i]
    PROVE  /\ Chained(L) => Chained(P)
           /\ UniqueIds(L) => UniqueIds(P)
           /\ \A c \in Calls : InLedger(P, c) => InLedger(L, c)
  <1>1. Len(L) \in Nat /\ Len(P) \in Nat
    BY LenProperties
  <1>2. 1..Len(P) \subseteq 1..Len(L)
    BY <1>1
  <1>3. Chained(L) => Chained(P)
    BY <1>1 DEF Chained
  <1>4. UniqueIds(L) => UniqueIds(P)
    BY <1>2 DEF UniqueIds
  <1>5. \A c \in Calls : InLedger(P, c) => InLedger(L, c)
    BY <1>2 DEF InLedger
  <1>6. QED
    BY <1>3, <1>4, <1>5

LEMMA ExtendChain ==
    ASSUME NEW L \in Seq(Line), NEW e \in Line, e.prev = LastLineHash(L),
           ~InLedger(L, e.id)
    PROVE  /\ Chained(L) => Chained(Append(L, e))
           /\ UniqueIds(L) => UniqueIds(Append(L, e))
           /\ \A c \in Calls : InLedger(Append(L, e), c) <=> InLedger(L, c) \/ c = e.id
           /\ \A i \in 1..Len(L) : Append(L, e)[i] = L[i]
           /\ Append(L, e)[Len(L) + 1] = e
           /\ Len(Append(L, e)) = Len(L) + 1
  <1>1. Len(L) \in Nat /\ (L = <<>> <=> Len(L) = 0)
    BY LenProperties, EmptySeq
  <1>2. /\ Len(Append(L, e)) = Len(L) + 1
        /\ \A i \in 1..Len(L) : Append(L, e)[i] = L[i]
        /\ Append(L, e)[Len(L) + 1] = e
    BY AppendProperties
  <1>3. Chained(L) => Chained(Append(L, e))
    BY <1>1, <1>2 DEF Chained, LastLineHash
  <1>4. UniqueIds(L) => UniqueIds(Append(L, e))
    BY <1>1, <1>2 DEF UniqueIds, InLedger
  <1>5. \A c \in Calls : InLedger(Append(L, e), c) <=> InLedger(L, c) \/ c = e.id
    BY <1>1, <1>2 DEF InLedger
  <1>6. QED
    BY <1>2, <1>3, <1>4, <1>5

(* The part of the ledger that no crash can take is a chain that the entry *)
(* in flight, if there is one, extends.                                    *)
LEMMA SettledChain ==
    ASSUME IInv
    PROVE  /\ Chained(Settled)
           /\ UniqueIds(Settled)
           /\ \A i \in 1..Len(ledger) :
                i <= Len(Settled) \/ pc[ledger[i].id] = "appended"
           /\ \A c \in Calls : lock = c /\ pc[c] \in {"temp", "appended"} =>
                head[c] = LastLineHash(Settled) /\ ~InLedger(Settled, c)
  <1> DEFINE n == Len(ledger)
  <1>1. /\ ledger \in Seq(Line)
        /\ n \in Nat
        /\ \A i \in 1..n : ledger[i] \in Line
        /\ TypeOK
    BY LenProperties, ElementOfSeq DEF IInv, TypeOK
  <1>2. /\ Settled \in Seq(Line)
        /\ Len(Settled) \in Nat
        /\ Len(Settled) <= n
        /\ \A i \in 1..Len(Settled) : Settled[i] = ledger[i]
        /\ Settled = <<>> <=> Len(Settled) = 0
    BY <1>1, SettledType, LenProperties, EmptySeq
  <1>3. Chained(Settled) /\ UniqueIds(Settled)
    BY <1>1, <1>2, PrefixChain DEF IInv, ChainLinked, OncePerCall
  <1>4. CASE lock # Free /\ pc[lock] = "appended"
    <2>1. lock \in Calls /\ n > 0 /\ ledger[n] = Entry(lock, "whole")
      BY <1>1, <1>4 DEF IInv, LastIsUnsynced, TypeOK
    <2>2. Len(Settled) = n - 1
      BY <1>1, <1>4, <2>1, SettledType
    <2>3. \A i \in 1..n : i <= Len(Settled) \/ i = n
      BY <1>1, <2>2
    <2>4. head[lock] = LastLineHash(Settled)
      BY <1>1, <1>2, <2>1, <2>2 DEF IInv, ChainLinked, Chained, LastLineHash, Entry
    <2>5. ~InLedger(Settled, lock)
      BY <1>1, <1>2, <2>1, <2>2 DEF IInv, OncePerCall, UniqueIds, InLedger, Entry
    <2>6. QED
      BY <1>3, <1>4, <2>1, <2>3, <2>4, <2>5 DEF Entry
  <1>5. CASE ~(lock # Free /\ pc[lock] = "appended")
    <2>1. Settled = ledger
      BY <1>1, <1>5, SettledType
    <2>2. ASSUME NEW c \in Calls, lock = c, pc[c] = "temp"
          PROVE  head[c] = LastLineHash(Settled) /\ ~InLedger(Settled, c)
      BY <1>1, <2>1, <2>2 DEF IInv, HeadFresh, OncePerCall, InLedger, Written
    <2>3. QED
      BY <1>1, <1>3, <1>5, <2>1, <2>2, FreeIsNoCall
  <1>6. QED
    BY <1>4, <1>5


(* After a crash every call is over, or has not yet begun.                 *)
AllDead ==
    \A c \in Calls :
        pc'[c] = IF pc[c] \in {"new"} \cup Ended THEN pc[c] ELSE "lost"

(* The ledger is lost with its name.                                       *)
Emptied ==
    /\ "nameless" \in Faults
    /\ ledger' = <<>>
    /\ AllDead
    /\ \A i \in 1..Len(ledger) : ledger[i].id \in erased'

(* A step keeps the ledger, loses the entry in flight, settles one, or     *)
(* loses everything.                                                       *)
Extends(c, f) ==
    /\ lock = c
    /\ pc[c] \in {"temp", "appended"}
    /\ pc'[c] \in Written
    /\ ledger' = Append(Settled, Entry(c, f))
    /\ UNCHANGED head
    /\ pc'[c] \in Landed => f = "whole"
    /\ pc[c] = "appended" => AllDead

LEMMA LedgerStep ==
    ASSUME IInv, [Next]_vars
    PROVE  \/ ledger' = ledger
           \/ ledger' = Settled /\ AllDead
           \/ Emptied
           \/ \E c \in Calls, f \in PartialForms \cup {"whole"} : Extends(c, f)
  <1> DEFINE Goal ==
           \/ ledger' = ledger
           \/ ledger' = Settled /\ AllDead
           \/ Emptied
           \/ \E c \in Calls, f \in PartialForms \cup {"whole"} : Extends(c, f)
  <1>1. TypeOK /\ LockHeld
    BY DEF IInv
  <1>2. ASSUME NEW c \in Calls, AppendLine(c)
        PROVE  Goal
    <2>1. pc[c] = "temp" /\ lock = c
      BY <1>1, <1>2 DEF AppendLine, Goto, LockHeld, Appending
    <2>2. Settled = ledger
      BY <2>1 DEF Settled
    <2>3. Extends(c, "whole")
      BY <1>1, <1>2, <2>1, <2>2
         DEF AppendLine, Goto, Extends, Written, Landed, TypeOK
    <2>4. QED
      BY <2>3
  <1>3. ASSUME NEW c \in Calls, AppendFails(c)
        PROVE  Goal
    <2>1. CASE ledger' = ledger
      BY <2>1
    <2>2. CASE ledger' # ledger
      <3>1. PICK f \in PartialForms : ledger' = Append(ledger, Entry(c, f))
        BY <1>3, <2>2 DEF AppendFails
      <3>2. pc[c] = "temp" /\ lock = c
        BY <1>1, <1>3, <2>2 DEF AppendFails, LockHeld, Appending
      <3>3. Settled = ledger
        BY <3>2 DEF Settled
      <3>4. Extends(c, f)
        BY <1>1, <1>3, <3>1, <3>2, <3>3
           DEF AppendFails, End, Extends, Written, Landed, TypeOK
      <3>5. QED
        BY <3>4
    <2>3. QED
      BY <2>1, <2>2
  <1>4. CASE Crash
    <2>1. AllDead
      BY <1>1, <1>4 DEF Crash, TypeOK, AllDead
    <2>5. CASE LoseLedger
      BY <2>1, <2>5 DEF LoseLedger, Emptied
    <2>2. CASE ledger' = Settled
      BY <2>1, <2>2
    <2>3. CASE ~LoseLedger /\ ledger' # Settled
      <3>1. PICK c \in Calls, f \in PartialForms \cup {"whole"} :
                /\ lock = c
                /\ pc[c] \in {"temp", "appended"}
                /\ ledger' = Append(Settled, Entry(c, f))
        BY <1>4, <2>3 DEF Crash, ProcessDies, MachineDies, AfterCrash
      <3>2. pc'[c] = "lost" /\ UNCHANGED head
        BY <1>1, <1>4, <3>1 DEF Crash, TypeOK, Ended
      <3>3. Extends(c, f)
        BY <2>1, <3>1, <3>2 DEF Extends, Written, Landed
      <3>4. QED
        BY <3>3
    <2>4. QED
      BY <2>2, <2>3, <2>5
  <1>5. CASE UNCHANGED vars
    BY <1>5 DEF vars
  <1>6. QED
    BY <1>2, <1>3, <1>4, <1>5
       DEF Next, Advance, Arrive, EnterGate, ReadEvidence, EvidenceRefused,
           EvaluateClaim, RefuseClaim, OpenPayload, WritePayload, SyncPayload,
           PayloadFails, TakeLock, ReadHead, WriteTemp, SyncLine, UnlinkTemp, Respond, Cancel

(* What an extension of the settled ledger is.                             *)
LEMMA Extension ==
    ASSUME IInv, NEW c \in Calls, NEW f \in PartialForms \cup {"whole"},
           Extends(c, f)
    PROVE  /\ Chained(ledger')
           /\ UniqueIds(ledger')
           /\ Len(ledger') = Len(Settled) + 1
           /\ ledger'[Len(Settled) + 1] = Entry(c, f)
           /\ \A i \in 1..Len(Settled) : ledger'[i] = ledger[i]
           /\ \A i \in 1..Len(ledger) : i <= Len(Settled) \/ ledger[i].id = c
  <1>1. TypeOK /\ lock = c /\ pc[c] \in {"temp", "appended"}
    BY DEF IInv, Extends
  <1>2. /\ Settled \in Seq(Line)
        /\ Len(Settled) \in Nat
        /\ \A i \in 1..Len(Settled) : Settled[i] = ledger[i]
    BY <1>1, SettledType, LenProperties
  <1>3. Entry(c, f) \in Line /\ Entry(c, f).id = c /\ Entry(c, f).prev = head[c]
    BY <1>1, EntryType DEF Entry
  <1>4. head[c] = LastLineHash(Settled) /\ ~InLedger(Settled, c)
    BY <1>1, SettledChain
  <1>5. Chained(Settled) /\ UniqueIds(Settled)
    BY SettledChain
  <1>6. /\ Chained(ledger')
        /\ UniqueIds(ledger')
        /\ Len(ledger') = Len(Settled) + 1
        /\ ledger'[Len(Settled) + 1] = Entry(c, f)
        /\ \A i \in 1..Len(Settled) : ledger'[i] = Settled[i]
    BY <1>2, <1>3, <1>4, <1>5, ExtendChain DEF Extends
  <1>7. \A i \in 1..Len(ledger) : i <= Len(Settled) \/ ledger[i].id = c
    <2>1. \A d \in Calls : pc[d] = "appended" => d = c
      BY <1>1 DEF IInv, LockHeld, Appending
    <2>2. \A i \in 1..Len(ledger) : ledger[i].id \in Calls
      <3>1. \A i \in 1..Len(ledger) : ledger[i] \in Line
        BY <1>1, ElementOfSeq DEF TypeOK
      <3>2. QED
        BY <3>1 DEF Line
    <2>3. QED
      BY <2>1, <2>2, SettledChain
  <1>8. QED
    BY <1>2, <1>6, <1>7


-----------------------------------------------------------------------------
(* Each part of the invariant is preserved.                                *)

LEMMA ChainStep == IInv /\ [Next]_vars => ChainLinked' /\ UniqueIds(ledger')
  <1> SUFFICES ASSUME IInv, [Next]_vars
               PROVE  Chained(ledger') /\ UniqueIds(ledger')
    BY DEF ChainLinked
  <1>1. CASE ledger' = ledger
    BY <1>1 DEF IInv, ChainLinked, OncePerCall
  <1>2. CASE ledger' = Settled
    BY <1>2, SettledChain
  <1>5. CASE Emptied
    BY <1>5, EmptySeq DEF Emptied, Chained, UniqueIds
  <1>3. ASSUME NEW c \in Calls, NEW f \in PartialForms \cup {"whole"}, Extends(c, f)
        PROVE  Chained(ledger') /\ UniqueIds(ledger')
    BY <1>3, Extension
  <1>4. QED
    BY <1>1, <1>2, <1>3, <1>5, LedgerStep

(* Where the entries of the next ledger come from.                         *)
LEMMA NextEntries ==
    ASSUME IInv, [Next]_vars
    PROVE  /\ Len(ledger') \in Nat
           /\ \A i \in 1..Len(ledger') :
                \/ /\ i <= Len(ledger)
                   /\ ledger'[i] = ledger[i]
                   /\ ledger[i].id \in Calls
                \/ \E c \in Calls, f \in PartialForms \cup {"whole"} :
                     /\ Extends(c, f)
                     /\ i = Len(Settled) + 1
                     /\ i = Len(ledger')
                     /\ ledger'[i] = Entry(c, f)
  <1>1. TypeOK /\ TypeOK'
    BY TypeStep DEF IInv
  <1>2. /\ Len(ledger) \in Nat
        /\ Len(ledger') \in Nat
        /\ \A i \in 1..Len(ledger) : ledger[i] \in Line
    BY <1>1, LenProperties, ElementOfSeq DEF TypeOK
  <1>3. \A i \in 1..Len(ledger) : ledger[i].id \in Calls
    BY <1>2 DEF Line
  <1>4. /\ Len(Settled) \in Nat
        /\ Len(Settled) <= Len(ledger)
        /\ \A i \in 1..Len(Settled) : Settled[i] = ledger[i]
    BY <1>1, SettledType, LenProperties
  <1>5. CASE ledger' = ledger
    BY <1>2, <1>3, <1>5
  <1>6. CASE ledger' = Settled
    BY <1>2, <1>3, <1>4, <1>6
  <1>7. ASSUME NEW c \in Calls, NEW f \in PartialForms \cup {"whole"}, Extends(c, f)
        PROVE  \A i \in 1..Len(ledger') :
                \/ i <= Len(ledger) /\ ledger'[i] = ledger[i] /\ ledger[i].id \in Calls
                \/ i = Len(Settled) + 1 /\ i = Len(ledger') /\ ledger'[i] = Entry(c, f)
    BY <1>2, <1>3, <1>4, <1>7, Extension
  <1>9. CASE Emptied
    BY <1>2, <1>9, EmptySeq DEF Emptied
  <1>8. QED
    BY <1>2, <1>5, <1>6, <1>7, <1>9, LedgerStep

(* An entry whose writer is past the fsync is kept by every step, unless   *)
(* the whole ledger goes.                                                  *)
LEMMA SettledKept ==
    ASSUME IInv, [Next]_vars, NEW i \in 1..Len(ledger),
           pc[ledger[i].id] # "appended" \/ ledger' = ledger
    PROVE  \/ i \in 1..Len(ledger') /\ ledger'[i] = ledger[i]
           \/ Emptied
  <1>1. TypeOK
    BY DEF IInv
  <1>2. /\ Len(ledger) \in Nat
        /\ Len(Settled) \in Nat
        /\ \A j \in 1..Len(Settled) : Settled[j] = ledger[j]
    BY <1>1, SettledType, LenProperties DEF TypeOK
  <1>3. CASE ledger' = ledger
    BY <1>2, <1>3
  <1>4. CASE pc[ledger[i].id] # "appended"
    <2>1. i \in 1..Len(Settled)
      BY <1>2, <1>4, SettledChain
    <2>2. CASE ledger' = Settled
      BY <1>2, <2>1, <2>2
    <2>3. ASSUME NEW c \in Calls, NEW f \in PartialForms \cup {"whole"}, Extends(c, f)
          PROVE  i \in 1..Len(ledger') /\ ledger'[i] = ledger[i]
      BY <1>2, <2>1, <2>3, Extension
    <2>4. QED
      BY <1>3, <2>2, <2>3, LedgerStep
  <1>5. QED
    BY <1>3, <1>4


LEMMA HeadStep == IInv /\ [Next]_vars => HeadFresh'
  <1> SUFFICES ASSUME IInv, [Next]_vars, NEW c \in Calls, pc'[c] \in {"head", "temp"}
               PROVE  head'[c] = LastLineHash(ledger') /\ ~Corrupt(ledger')
    BY DEF HeadFresh
  <1>1. CallMoves(c)
    BY CallStep DEF IInv
  <1>2. CASE ReadHead(c)
    BY <1>2 DEF ReadHead, IInv, TypeOK
  <1>3. CASE pc[c] \in {"head", "temp"} /\ head'[c] = head[c] /\ ledger' = ledger
    BY <1>3 DEF IInv, HeadFresh
  <1>4. QED
    BY <1>1, <1>2, <1>3 DEF CallMoves

LEMMA OnceStep == IInv /\ [Next]_vars => OncePerCall'
  <1> SUFFICES ASSUME IInv, [Next]_vars
               PROVE  OncePerCall'
    OBVIOUS
  <1>1. ASSUME NEW i \in 1..Len(ledger')
        PROVE  pc'[ledger'[i].id] \in Written
    <2>1. CASE /\ i <= Len(ledger)
               /\ ledger'[i] = ledger[i]
               /\ ledger[i].id \in Calls
      <3>1. i \in 1..Len(ledger)
        BY <2>1, NextEntries, LenProperties DEF IInv, TypeOK
      <3>2. pc[ledger[i].id] \in Written
        BY <3>1 DEF IInv, OncePerCall
      <3>3. QED
        BY <2>1, <3>2, CallStep DEF CallMoves, IInv
    <2>2. CASE \E c \in Calls, f \in PartialForms \cup {"whole"} :
                 Extends(c, f) /\ ledger'[i] = Entry(c, f)
      BY <2>2 DEF Extends, Entry
    <2>3. QED
      BY <2>1, <2>2, NextEntries
  <1>2. QED
    BY <1>1, ChainStep DEF OncePerCall

LEMMA LastStep == IInv /\ [Next]_vars => LastIsUnsynced'
  <1> SUFFICES ASSUME IInv, [Next]_vars, NEW c \in Calls, pc'[c] = "appended"
               PROVE  Len(ledger') > 0 /\ ledger'[Len(ledger')] = Entry(c, "whole")'
    BY DEF LastIsUnsynced
  <1>1. TypeOK /\ LockHeld /\ CallMoves(c)
    BY CallStep DEF IInv
  <1>2. CASE AppendLine(c)
    <2>1. Entry(c, "whole") \in Line
      BY <1>1, EntryType
    <2>2. Len(ledger') = Len(ledger) + 1 /\ ledger'[Len(ledger) + 1] = Entry(c, "whole")
      BY <1>1, <1>2, <2>1, AppendProperties DEF AppendLine, TypeOK
    <2>3. QED
      BY <1>1, <1>2, <2>2, LenProperties DEF AppendLine, Entry, TypeOK
  <1>3. CASE pc[c] = "appended"
    <2>1. lock = c /\ head'[c] = head[c]
      BY <1>1, <1>3 DEF LockHeld, Appending, CallMoves
    <2>2. CASE ledger' = ledger
      BY <1>3, <2>1, <2>2 DEF IInv, LastIsUnsynced, Entry
    <2>3. ~AllDead
      BY <1>3 DEF AllDead, Ended
    <2>4. QED
      BY <1>3, <2>1, <2>2, <2>3, LedgerStep DEF Extends, Emptied
  <1>4. QED
    BY <1>1, <1>2, <1>3 DEF CallMoves

(* A call that has ended stays as it ended.                                *)
LEMMA CallsRest ==
    ASSUME TypeOK, [Next]_vars, NEW c \in Calls, pc[c] \in Ended
    PROVE  pc'[c] = pc[c]
  <1>1. ASSUME NEW d \in Calls, NEW p, pc[d] \notin Ended, pc' = [pc EXCEPT ![d] = p]
        PROVE  pc'[c] = pc[c]
    BY <1>1 DEF TypeOK
  <1>2. ASSUME NEW d \in Calls, Arrive(d) \/ Advance(d) \/ Cancel(d)
        PROVE  \E p : pc[d] \notin Ended /\ pc' = [pc EXCEPT ![d] = p]
    BY <1>2 DEF Advance, Arrive, EnterGate, ReadEvidence, EvidenceRefused,
        EvaluateClaim, RefuseClaim, OpenPayload, WritePayload, SyncPayload,
        PayloadFails, TakeLock, ReadHead, WriteTemp, AppendLine, SyncLine,
        UnlinkTemp, AppendFails, Respond, Cancel, Cancellable, Goto, End, Ended
  <1>3. CASE Crash
    BY <1>3 DEF Crash
  <1>4. CASE UNCHANGED vars
    BY <1>4 DEF vars
  <1>5. QED
    BY <1>1, <1>2, <1>3, <1>4 DEF Next

(* Only a crash takes a payload's name, and then every call is over.       *)
LEMMA LostStep ==
    ASSUME IInv, [Next]_vars, NEW c \in Calls, payload'[c] = "lost"
    PROVE  pc'[c] \in Ended /\ c \notin kept' /\ crashes' > 0
  <1>1. TypeOK /\ crashes \in Nat
    BY DEF IInv, TypeOK
  <1>2. CASE Crash
    <2>1. crashes' > 0
      BY <1>1, <1>2 DEF Crash
    <2>2. pc[c] = "new" => payload[c] = "absent"
      BY DEF IInv, PayloadOpened
    <2>3. pc'[c] \in Ended
      <3>1. payload[c] # "absent"
        BY <1>2 DEF Crash, ProcessDies, MachineDies, MayRemain
      <3>2. QED
        BY <1>1, <1>2, <2>2, <3>1 DEF Crash, TypeOK, Ended
    <2>4. c \notin kept'
      <3>1. CASE ProcessDies
        BY <1>2, <3>1 DEF ProcessDies, IInv, PayloadOpened
      <3>2. CASE MachineDies
        BY <3>2 DEF MachineDies
      <3>3. QED
        BY <1>2, <3>1, <3>2 DEF Crash
    <2>5. QED
      BY <2>1, <2>3, <2>4
  <1>3. CASE ~Crash
    <2>1. payload[c] = "lost" /\ kept' = kept /\ crashes' = crashes
      BY <1>1, <1>3 DEF Next, vars, TypeOK, Advance, Arrive, EnterGate, ReadEvidence,
        EvidenceRefused, EvaluateClaim, RefuseClaim, OpenPayload, WritePayload,
        SyncPayload, PayloadFails, TakeLock, ReadHead, WriteTemp, AppendLine,
        SyncLine, UnlinkTemp, AppendFails, Respond, Cancel
    <2>2. pc[c] \in Ended /\ c \notin kept /\ crashes > 0
      BY <2>1 DEF IInv, PayloadOpened
    <2>3. QED
      BY <1>1, <2>1, <2>2, CallsRest
  <1>4. QED
    BY <1>2, <1>3

LEMMA CommitStep == IInv /\ [Next]_vars => AppendedCommitted'
  <1> SUFFICES ASSUME IInv, [Next]_vars, NEW c \in Calls, pc'[c] \in Landed
               PROVE  \/ \E i \in 1..Len(ledger') :
                            ledger'[i].id = c /\ ledger'[i].form = "whole"
                      \/ pc'[c] = "answered" /\ c \in erased'
    BY DEF AppendedCommitted, Landed
  <1>1. TypeOK /\ LockHeld /\ CallMoves(c)
    BY CallStep DEF IInv
  <1>2. CASE AppendLine(c)
    <2>1. Entry(c, "whole") \in Line
      BY <1>1, EntryType
    <2>2. Len(ledger') = Len(ledger) + 1 /\ ledger'[Len(ledger) + 1] = Entry(c, "whole")
      BY <1>1, <1>2, <2>1, AppendProperties DEF AppendLine, TypeOK
    <2>3. Len(ledger) + 1 \in 1..Len(ledger')
      BY <1>1, <2>2, LenProperties DEF TypeOK
    <2>4. QED
      BY <2>2, <2>3 DEF Entry
  <1>3. CASE pc[c] \in Landed
    <2>1. CASE pc[c] = "answered" /\ c \in erased
      <3>1. pc'[c] = "answered"
        BY <2>1, CallsRest DEF IInv, Ended
      <3>2. QED
        BY <1>1, <2>1, <3>1 DEF CallMoves
    <2>2. CASE \E i \in 1..Len(ledger) : ledger[i].id = c /\ ledger[i].form = "whole"
      <3>1. PICK i \in 1..Len(ledger) : ledger[i].id = c /\ ledger[i].form = "whole"
        BY <2>2
      <3>2. CASE Emptied
        BY <1>1, <3>1, <3>2 DEF Emptied, AllDead, Landed, Ended
      <3>3. CASE ~Emptied /\ (pc[c] # "appended" \/ ledger' = ledger)
        BY <3>1, <3>3, SettledKept
      <3>4. CASE ~Emptied /\ pc[c] = "appended" /\ ledger' # ledger
        BY <3>4, LedgerStep, <1>1 DEF Extends, LockHeld, Appending, AllDead, Landed, Ended
      <3>5. QED
        BY <3>2, <3>3, <3>4
    <2>3. QED
      BY <1>3, <2>1, <2>2 DEF IInv, AppendedCommitted, Landed
  <1>4. QED
    BY <1>1, <1>2, <1>3 DEF CallMoves

LEMMA PayloadStep == IInv /\ [Next]_vars => PayloadOpened'
  <1> SUFFICES ASSUME IInv, [Next]_vars, NEW c \in Calls
               PROVE  /\ pc'[c] \in Paid => payload'[c] \in Present
                      /\ InLedger(ledger', c) => payload'[c] # "absent"
                      /\ payload'[c] # "absent" => pc'[c] # "new"
                      /\ payload'[c] = "lost" =>
                           pc'[c] \in Ended /\ c \notin kept' /\ crashes' > 0
    BY DEF PayloadOpened, Paid, Present
  <1>1. CallMoves(c)
    BY CallStep DEF IInv
  <1>2. /\ pc[c] \in Paid => payload[c] \in Present
        /\ InLedger(ledger, c) => payload[c] # "absent"
    BY DEF IInv, PayloadOpened, Paid, Present
  <1>3. pc'[c] \in Paid => payload'[c] \in Present
    BY <1>1, <1>2 DEF CallMoves
  <1>4. ASSUME InLedger(ledger', c)
        PROVE  payload'[c] # "absent"
    <2>1. PICK i \in 1..Len(ledger') : ledger'[i].id = c
      BY <1>4 DEF InLedger
    <2>2. CASE i <= Len(ledger) /\ ledger'[i] = ledger[i]
      <3>1. i \in 1..Len(ledger)
        BY <2>2, LenProperties, NextEntries DEF IInv, TypeOK
      <3>2. InLedger(ledger, c)
        BY <2>1, <2>2, <3>1 DEF InLedger
      <3>3. QED
        BY <1>1, <1>2, <3>2 DEF CallMoves
    <2>3. CASE \E d \in Calls, f \in PartialForms \cup {"whole"} :
                 Extends(d, f) /\ ledger'[i] = Entry(d, f)
      <3>1. pc[c] \in {"temp", "appended"}
        BY <2>1, <2>3 DEF Extends, Entry
      <3>2. QED
        BY <1>1, <1>2, <3>1 DEF CallMoves, Paid, Present, Appending
    <2>4. QED
      BY <2>2, <2>3, NextEntries
  <1>5. payload'[c] = "lost" => pc'[c] \in Ended /\ c \notin kept' /\ crashes' > 0
    BY LostStep
  <1>6. payload'[c] # "absent" => pc'[c] # "new"
    BY <1>1 DEF CallMoves, IInv, PayloadOpened
  <1>7. QED
    BY <1>3, <1>4, <1>5, <1>6

(* Evidence a claim was accepted with is still there for its next step.    *)
LEMMA EvidenceKept ==
    ASSUME IInv, [Next]_vars, NEW c \in Calls, pc[c] \in Claimed, pc'[c] \in Claimed,
           NEW j \in 1..Len(ledger)
    PROVE  j \in 1..Len(ledger') /\ ledger'[j] = ledger[j]
  <1>1. TypeOK /\ LockHeld
    BY DEF IInv
  <1>2. ~AllDead
    BY DEF AllDead, Claimed, Paid, Appending, Ended
  <1>3. CASE ledger' = ledger
    BY <1>3
  <1>4. ASSUME NEW d \in Calls, NEW f \in PartialForms \cup {"whole"}, Extends(d, f)
        PROVE  j \in 1..Len(ledger') /\ ledger'[j] = ledger[j]
    <2>1. pc[d] = "temp" /\ lock = d
      BY <1>2, <1>4 DEF Extends
    <2>2. ledger[j].id \in Calls
      <3>1. ledger[j] \in Line
        BY <1>1, ElementOfSeq DEF TypeOK
      <3>2. QED
        BY <3>1 DEF Line
    <2>3. pc[ledger[j].id] # "appended"
      BY <1>1, <2>1, <2>2 DEF LockHeld, Appending
    <2>4. ~Emptied
      BY <1>2 DEF Emptied
    <2>5. QED
      BY <2>3, <2>4, SettledKept
  <1>5. QED
    BY <1>2, <1>3, <1>4, LedgerStep DEF Emptied

LEMMA ClaimHeldStep == IInv /\ [Next]_vars => ClaimHeld'
  <1> SUFFICES ASSUME IInv, [Next]_vars, NEW c \in ClaimCalls, pc'[c] \in Claimed
               PROVE  /\ cites'[c] # {}
                      /\ \A d \in cites'[c] :
                          /\ d \notin ClaimCalls
                          /\ \E j \in 1..Len(ledger') :
                               ledger'[j].id = d /\ ledger'[j].form # "torn"
    BY DEF ClaimHeld, Claimed, Paid
  <1>1. c \in Calls /\ CallMoves(c)
    BY CallStep DEF IInv
  <1>2. CASE EvaluateClaim(c)
    <2>1. /\ ledger' = ledger
          /\ cites' = cites
          /\ cites[c] # {}
          /\ cites[c] \cap ClaimCalls = {}
          /\ CanRead(ledger, cites[c])
      BY <1>2 DEF EvaluateClaim, Citable
    <2>2. ASSUME NEW d \in cites[c]
          PROVE  \E j \in 1..Len(ledger) : ledger[j].id = d /\ ledger[j].form # "torn"
      <3>1. PICK j \in 1..Len(ledger) :
               ledger[j].id = d /\ \A k \in 1..j : Parses(ledger, k)
        BY <2>1 DEF CanRead
      <3>2. Parses(ledger, j)
        BY <3>1
      <3>3. ledger[j].form # "torn"
        BY <3>2 DEF Parses
      <3>4. QED
        BY <3>1, <3>3
    <2>3. QED
      BY <2>1, <2>2
  <1>3. CASE pc[c] \in Claimed
    <2>1. /\ cites[c] # {}
          /\ \A d \in cites[c] :
              /\ d \notin ClaimCalls
              /\ \E j \in 1..Len(ledger) : ledger[j].id = d /\ ledger[j].form # "torn"
      BY <1>3 DEF IInv, ClaimHeld, Claimed, Paid
    <2>2. cites'[c] = cites[c]
      BY <1>1, <1>3 DEF CallMoves, Claimed, Paid, Appending
    <2>3. QED
      BY <1>1, <1>3, <2>1, <2>2, EvidenceKept
  <1>4. QED
    BY <1>1, <1>2, <1>3 DEF CallMoves

LEMMA GroundedStep == IInv /\ [Next]_vars => ClaimsGrounded'
  <1> DEFINE Grounds(d, j, n) ==
               j \in 1..(n - 1) /\ ledger'[j].id = d /\ ledger'[j].form # "torn"
  <1> SUFFICES ASSUME IInv, [Next]_vars, NEW i \in 1..Len(ledger'),
                      ledger'[i].id \in ClaimCalls
               PROVE  /\ cites'[ledger'[i].id] # {}
                      /\ \A d \in cites'[ledger'[i].id] :
                          /\ d \notin ClaimCalls
                          /\ \E j : Grounds(d, j, i)
    BY DEF ClaimsGrounded
  <1>1. TypeOK /\ TypeOK'
    BY TypeStep DEF IInv
  <1>2. Len(ledger) \in Nat /\ Len(ledger') \in Nat /\ Len(Settled) \in Nat
    BY <1>1, SettledType, LenProperties DEF TypeOK
  <1>3. CASE i <= Len(ledger) /\ ledger'[i] = ledger[i] /\ ledger[i].id \in Calls
    <2>1. i \in 1..Len(ledger)
      BY <1>2, <1>3
    <2>2. cites'[ledger[i].id] = cites[ledger[i].id]
      <3>1. pc[ledger[i].id] # "new"
        BY <2>1 DEF IInv, OncePerCall, Written
      <3>2. QED
        BY <1>1, <1>3, <3>1, CallStep DEF CallMoves, IInv
    <2>3. \A j \in 1..(i - 1) : ledger'[j] = ledger[j]
      <3>1. CASE ledger' = ledger
        BY <3>1
      <3>2. CASE ledger' = Settled
        BY <1>1, <1>2, <3>2, SettledType
      <3>3. ASSUME NEW c \in Calls, NEW f \in PartialForms \cup {"whole"}, Extends(c, f)
            PROVE  \A j \in 1..(i - 1) : ledger'[j] = ledger[j]
        BY <1>2, <3>3, Extension
      <3>4. CASE Emptied
        BY <3>4, EmptySeq DEF Emptied
      <3>5. QED
        BY <3>1, <3>2, <3>3, <3>4, LedgerStep
    <2>4. /\ cites[ledger[i].id] # {}
          /\ \A d \in cites[ledger[i].id] :
              /\ d \notin ClaimCalls
              /\ \E j \in 1..(i - 1) : ledger[j].id = d /\ ledger[j].form # "torn"
      BY <1>3, <2>1 DEF IInv, ClaimsGrounded
    <2>5. QED
      BY <1>3, <2>2, <2>3, <2>4
  <1>4. ASSUME NEW c \in Calls, NEW f \in PartialForms \cup {"whole"}, Extends(c, f),
               i = Len(Settled) + 1, ledger'[i] = Entry(c, f)
        PROVE  /\ cites'[ledger'[i].id] # {}
               /\ \A d \in cites'[ledger'[i].id] :
                   /\ d \notin ClaimCalls
                   /\ \E j : Grounds(d, j, i)
    <2>1. ledger'[i].id = c /\ c \in ClaimCalls
      BY <1>4 DEF Entry
    <2>2. pc[c] \in {"temp", "appended"}
      BY <1>4 DEF Extends
    <2>3. cites'[c] = cites[c]
      BY <2>2, CallStep DEF CallMoves, IInv
    <2>4. /\ cites[c] # {}
          /\ \A d \in cites[c] :
              /\ d \notin ClaimCalls
              /\ \E j \in 1..Len(ledger) : ledger[j].id = d /\ ledger[j].form # "torn"
      BY <2>1, <2>2 DEF IInv, ClaimHeld, Appending
    <2>5. ASSUME NEW d \in cites[c]
          PROVE  \E j : Grounds(d, j, i)
      <3>1. PICK j \in 1..Len(ledger) : ledger[j].id = d /\ ledger[j].form # "torn"
        BY <2>4
      <3>2. d # c
        BY <2>1, <2>4
      <3>3. j <= Len(Settled) /\ j \in 1..Len(Settled)
        BY <1>2, <1>4, <3>1, <3>2, Extension
      <3>4. ledger'[j] = ledger[j]
        BY <1>4, <3>3, Extension
      <3>5. QED
        BY <1>2, <1>4, <3>1, <3>3, <3>4
    <2>6. QED
      BY <2>1, <2>3, <2>4, <2>5
  <1>5. QED
    BY <1>3, <1>4, NextEntries


-----------------------------------------------------------------------------
(* The inductive invariant, and what follows from it.                      *)

LEMMA InitInv == Init => IInv
  <1> SUFFICES ASSUME Init
               PROVE  IInv
    OBVIOUS
  <1>1. ledger = <<>> /\ ledger \in Seq(Line) /\ Len(ledger) = 0
    BY EmptySeq DEF Init
  <1>2. TypeOK
    BY InitType
  <1>3. LockHeld /\ GateHeld /\ HeadFresh
    BY DEF Init, LockHeld, GateHeld, HeadFresh, Working, Appending
  <1>4. OncePerCall /\ LastIsUnsynced /\ AppendedCommitted
    BY <1>1 DEF Init, OncePerCall, UniqueIds, LastIsUnsynced, AppendedCommitted
  <1>5. PayloadOpened
    <2>1. \A c \in Calls : pc[c] = "new" /\ payload[c] = "absent"
      BY DEF Init
    <2>2. \A c \in Calls : ~InLedger(ledger, c)
      BY <1>1 DEF InLedger
    <2>3. QED
      BY <2>1, <2>2 DEF PayloadOpened, Appending
  <1>6. ChainLinked /\ ClaimsGrounded
    BY <1>1 DEF ChainLinked, Chained, ClaimsGrounded
  <1>7. ClaimHeld
    BY DEF Init, ClaimHeld, Appending
  <1>8. QED
    BY <1>2, <1>3, <1>4, <1>5, <1>6, <1>7 DEF IInv

LEMMA Inductive == IInv /\ [Next]_vars => IInv'
  BY TypeStep, HoldersStep, HeadStep, OnceStep, LastStep, CommitStep, PayloadStep,
     ChainStep, ClaimHeldStep, GroundedStep DEF IInv

(* IInv holds in every state of the server, whatever its calls, faults and *)
(* number of restarts.                                                     *)
THEOREM Invariance == Spec => []IInv
  BY InitInv, Inductive, PTL DEF Spec

(* Concurrent, failed, cancelled and crashed appends never fork or break   *)
(* the hash chain that verify_chain walks (audit.py, server.py ARCH-004).  *)
THEOREM ChainSafety == Spec => []ChainLinked
  <1>1. IInv => ChainLinked
    BY DEF IInv
  <1>2. QED
    BY <1>1, Invariance, PTL

(* The body of at most one call runs in serial mode (server.py, AC-5).     *)
THEOREM Serial == Spec => []SerialBodies
  <1>1. IInv => SerialBodies
    BY DEF IInv, GateHeld, SerialBodies
  <1>2. QED
    BY <1>1, Invariance, PTL

(* Whatever fails, is cancelled or crashes, a payload_ref of the ledger    *)
(* dangles only if the machine died, the call had ended and no earlier     *)
(* crash of the machine had left the payload in place (payload.py          *)
(* write_payload, server.py _emit_offloaded_response).                     *)
THEOREM NoDanglingReference == Spec => []EntryHasPayload
  <1>1. IInv => EntryHasPayload
    <2> SUFFICES ASSUME IInv, NEW i \in 1..Len(ledger)
                 PROVE  LET c == ledger[i].id IN
                        /\ payload[c] # "absent"
                        /\ payload[c] = "lost" =>
                             pc[c] \in Ended /\ c \notin kept /\ crashes > 0
      BY DEF EntryHasPayload
    <2>1. ledger[i] \in Line
      BY ElementOfSeq DEF IInv, TypeOK
    <2>2. ledger[i].id \in Calls
      BY <2>1 DEF Line
    <2>3. QED
      BY <2>2 DEF IInv, PayloadOpened, InLedger
  <1>2. QED
    BY <1>1, Invariance, PTL

(* An answer stands for a complete entry, after any later failure or crash *)
(* that leaves the ledger its name (audit.py append_entry, server.py       *)
(* _emit_offloaded_response).                                              *)
THEOREM AnswerDurable == Spec => []AnsweredCommitted
  <1>1. IInv => AnsweredCommitted
    BY DEF IInv, AppendedCommitted, AnsweredCommitted
  <1>2. QED
    BY <1>1, Invariance, PTL

(* Every finding on record rests on evidence recorded before it, although  *)
(* the gate reads the ledger outside the lock (server.py claim_finding).   *)
THEOREM Grounded == Spec => []ClaimsGrounded
  <1>1. IInv => ClaimsGrounded
    BY DEF IInv
  <1>2. QED
    BY <1>1, Invariance, PTL

(* An entry whose fsync returned is never removed, altered or moved, by a  *)
(* crash or by any other step, while the ledger has its name (audit.py     *)
(* append_entry).                                                          *)
THEOREM Immutable == Spec => SettledForever
  <1> DEFINE Kept ==
        \A i \in 1..Len(ledger) :
            IsSettled(i) => \/ i <= Len(ledger') /\ ledger'[i] = ledger[i]
                            \/ ledger' = <<>> /\ ledger[i].id \in erased'
  <1>1. IInv /\ IInv' /\ [Next]_vars => Kept
    <2> SUFFICES ASSUME IInv, [Next]_vars, NEW i \in 1..Len(ledger), IsSettled(i)
                 PROVE  \/ i <= Len(ledger') /\ ledger'[i] = ledger[i]
                        \/ ledger' = <<>> /\ ledger[i].id \in erased'
      OBVIOUS
    <2>1. \/ i \in 1..Len(ledger') /\ ledger'[i] = ledger[i]
          \/ Emptied
      BY SettledKept DEF IsSettled
    <2>2. Len(ledger') \in Nat
      BY NextEntries
    <2>3. QED
      BY <2>1, <2>2 DEF Emptied
  <1>2. IInv /\ IInv' /\ [Next]_vars => [Kept]_vars
    BY <1>1
  <1> HIDE DEF Kept
  <1>3. Spec => [][Kept]_vars
    BY <1>2, Invariance, PTL DEF Spec
  <1>4. QED
    BY <1>3 DEF SettledForever, Kept

(* A ledger with a line that does not parse is never extended again, also  *)
(* by a call that read the head before (audit.py _last_line_hash).         *)
THEOREM CorruptionContained == Spec => CorruptFrozen
  <1> DEFINE Frozen == Corrupt(ledger) => Len(ledger') <= Len(ledger)
  <1>1. IInv /\ [Next]_vars => Frozen
    <2> SUFFICES ASSUME IInv, [Next]_vars, Corrupt(ledger)
                 PROVE  Len(ledger') <= Len(ledger)
      OBVIOUS
    <2>1. TypeOK /\ Len(ledger) \in Nat
      BY LenProperties DEF IInv, TypeOK
    <2>2. CASE ledger' = ledger
      BY <2>1, <2>2
    <2>3. CASE ledger' = Settled
      BY <2>1, <2>3, SettledType
    <2>4. ASSUME NEW c \in Calls, NEW f \in PartialForms \cup {"whole"}, Extends(c, f)
          PROVE  Len(ledger') <= Len(ledger)
      <3>1. lock = c /\ pc[c] = "appended"
        BY <2>4 DEF Extends, IInv, HeadFresh
      <3>2. Len(ledger) > 0
        BY <3>1 DEF IInv, LastIsUnsynced
      <3>3. Len(Settled) = Len(ledger) - 1
        BY <2>1, <3>1, <3>2, SettledType
      <3>4. Len(ledger') = Len(Settled) + 1
        BY <2>4, Extension
      <3>5. QED
        BY <2>1, <3>3, <3>4
    <2>5. CASE Emptied
      BY <2>1, <2>5, EmptySeq DEF Emptied
    <2>6. QED
      BY <2>2, <2>3, <2>4, <2>5, LedgerStep
  <1> HIDE DEF Frozen
  <1>2. Spec => [][Frozen]_vars
    BY <1>1, Invariance, PTL DEF Spec
  <1>3. QED
    BY <1>2 DEF CorruptFrozen, Frozen

-----------------------------------------------------------------------------
(* The orphans.                                                            *)

(* The tool is past write_payload.                                         *)
Offloading == {"lock"} \cup Appending

(* A call is past write_payload exactly if that returned to it, and one    *)
(* that then fails has logged the orphan.                                  *)
LoggedOrphans ==
    \A c \in Calls :
        /\ pc[c] \in Offloading => c \in offloaded
        /\ c \in offloaded => pc[c] \in Offloading \cup Ended
        /\ c \in orphans => pc[c] = "failed"
        /\ pc[c] = "failed" => (c \in orphans <=> c \in offloaded)

LEMMA OrphansStep ==
    ASSUME TypeOK, LoggedOrphans, [Next]_vars
    PROVE  LoggedOrphans'
  <1> DEFINE Goal(c) == /\ pc'[c] \in Offloading => c \in offloaded'
                        /\ c \in offloaded' => pc'[c] \in Offloading \cup Ended
                        /\ c \in orphans' => pc'[c] = "failed"
                        /\ pc'[c] = "failed" => (c \in orphans' <=> c \in offloaded')
  <1> SUFFICES ASSUME NEW c \in Calls
               PROVE  Goal(c)
    BY DEF LoggedOrphans
  <1>0. /\ pc[c] \in Offloading => c \in offloaded
        /\ c \in offloaded => pc[c] \in Offloading \cup Ended
        /\ c \in orphans => pc[c] = "failed"
        /\ pc[c] = "failed" => (c \in orphans <=> c \in offloaded)
    BY DEF LoggedOrphans
  <1> USE DEF TypeOK, Offloading, Appending, Ended, Goto, End
  <1>1. ASSUME NEW d \in Calls, Arrive(d)
        PROVE  Goal(c)
    BY <1>0, <1>1 DEF Arrive
  <1>2. ASSUME NEW d \in Calls, EnterGate(d)
        PROVE  Goal(c)
    BY <1>0, <1>2 DEF EnterGate
  <1>3. ASSUME NEW d \in Calls, ReadEvidence(d)
        PROVE  Goal(c)
    BY <1>0, <1>3 DEF ReadEvidence
  <1>4. ASSUME NEW d \in Calls, EvidenceRefused(d)
        PROVE  Goal(c)
    BY <1>0, <1>4 DEF EvidenceRefused
  <1>5. ASSUME NEW d \in Calls, EvaluateClaim(d)
        PROVE  Goal(c)
    BY <1>0, <1>5 DEF EvaluateClaim
  <1>6. ASSUME NEW d \in Calls, RefuseClaim(d)
        PROVE  Goal(c)
    BY <1>0, <1>6 DEF RefuseClaim
  <1>7. ASSUME NEW d \in Calls, OpenPayload(d)
        PROVE  Goal(c)
    BY <1>0, <1>7 DEF OpenPayload
  <1>8. ASSUME NEW d \in Calls, WritePayload(d)
        PROVE  Goal(c)
    BY <1>0, <1>8 DEF WritePayload
  <1>9. ASSUME NEW d \in Calls, SyncPayload(d)
        PROVE  Goal(c)
    BY <1>0, <1>9 DEF SyncPayload
  <1>10. ASSUME NEW d \in Calls, PayloadFails(d)
         PROVE  Goal(c)
    BY <1>0, <1>10 DEF PayloadFails
  <1>11. ASSUME NEW d \in Calls, TakeLock(d)
         PROVE  Goal(c)
    BY <1>0, <1>11 DEF TakeLock
  <1>12. ASSUME NEW d \in Calls, ReadHead(d)
         PROVE  Goal(c)
    BY <1>0, <1>12 DEF ReadHead
  <1>13. ASSUME NEW d \in Calls, WriteTemp(d)
         PROVE  Goal(c)
    BY <1>0, <1>13 DEF WriteTemp
  <1>14. ASSUME NEW d \in Calls, AppendLine(d)
         PROVE  Goal(c)
    BY <1>0, <1>14 DEF AppendLine
  <1>15. ASSUME NEW d \in Calls, SyncLine(d)
         PROVE  Goal(c)
    BY <1>0, <1>15 DEF SyncLine
  <1>16. ASSUME NEW d \in Calls, UnlinkTemp(d)
         PROVE  Goal(c)
    BY <1>0, <1>16 DEF UnlinkTemp
  <1>17. ASSUME NEW d \in Calls, AppendFails(d)
         PROVE  Goal(c)
    BY <1>0, <1>17 DEF AppendFails
  <1>18. ASSUME NEW d \in Calls, Respond(d)
         PROVE  Goal(c)
    BY <1>0, <1>18 DEF Respond
  <1>19. ASSUME NEW d \in Calls, Cancel(d)
         PROVE  Goal(c)
    BY <1>0, <1>19 DEF Cancel, Cancellable
  <1>20. CASE Crash
    BY <1>0, <1>20 DEF Crash
  <1>21. CASE UNCHANGED vars
    BY <1>0, <1>21 DEF vars
  <1> QED
    BY <1>1, <1>2, <1>3, <1>4, <1>5, <1>6, <1>7, <1>8, <1>9, <1>10, <1>11,
       <1>12, <1>13, <1>14, <1>15, <1>16, <1>17, <1>18, <1>19, <1>20, <1>21
       DEF Next, Advance

(* What is in the ledger was offloaded first.                              *)
LedgerOffloaded ==
    \A i \in 1..Len(ledger) : ledger[i].id \in offloaded

LEMMA OffloadedStep ==
    ASSUME IInv, LoggedOrphans, LedgerOffloaded, [Next]_vars
    PROVE  LedgerOffloaded'
  <1> SUFFICES ASSUME NEW i \in 1..Len(ledger')
               PROVE  ledger'[i].id \in offloaded'
    BY DEF LedgerOffloaded
  <1>1. offloaded \subseteq offloaded'
    BY DEF Next, Advance, vars, Arrive, EnterGate, ReadEvidence, EvidenceRefused,
        EvaluateClaim, RefuseClaim, OpenPayload, WritePayload, SyncPayload,
        PayloadFails, TakeLock, ReadHead, WriteTemp, AppendLine, SyncLine,
        UnlinkTemp, AppendFails, Respond, Cancel, Crash
  <1>2. CASE i <= Len(ledger) /\ ledger'[i] = ledger[i]
    <2>1. i \in 1..Len(ledger)
      BY <1>2, LenProperties, NextEntries DEF IInv, TypeOK
    <2>2. QED
      BY <1>1, <1>2, <2>1 DEF LedgerOffloaded
  <1>3. CASE \E d \in Calls, f \in PartialForms \cup {"whole"} :
               Extends(d, f) /\ ledger'[i] = Entry(d, f)
    <2>1. ledger'[i].id \in Calls /\ pc[ledger'[i].id] \in {"temp", "appended"}
      BY <1>3 DEF Extends, Entry
    <2>2. QED
      BY <1>1, <2>1 DEF LoggedOrphans, Offloading, Appending
  <1>4. QED
    BY <1>2, <1>3, NextEntries

(* The AC-9 log tells of every failure after write_payload has returned    *)
(* and of none inside it, whatever else ran, was cancelled or crashed, and *)
(* a failed call it does not tell of has no entry (server.py,              *)
(* _emit_offloaded_response).                                              *)
THEOREM Orphaned == Spec => []OrphanReported
  <1>1. Init => LoggedOrphans /\ LedgerOffloaded
    BY DEF Init, LoggedOrphans, LedgerOffloaded, Offloading, Appending
  <1>2. TypeOK /\ LoggedOrphans /\ [Next]_vars => LoggedOrphans'
    BY OrphansStep
  <1>3. IInv /\ LoggedOrphans /\ LedgerOffloaded /\ [Next]_vars => LedgerOffloaded'
    BY OffloadedStep
  <1>4. LoggedOrphans /\ LedgerOffloaded /\ IInv => OrphanReported
    <2> SUFFICES ASSUME LoggedOrphans, LedgerOffloaded, NEW c \in Calls, pc[c] = "failed"
                 PROVE  /\ c \in orphans <=> c \in offloaded
                        /\ c \notin orphans => \A i \in 1..Len(ledger) : ledger[i].id # c
      BY DEF OrphanReported
    <2>1. c \in orphans <=> c \in offloaded
      BY DEF LoggedOrphans
    <2>2. QED
      BY <2>1 DEF LedgerOffloaded
  <1>5. IInv => TypeOK
    BY DEF IInv
  <1>6. QED
    BY <1>1, <1>2, <1>3, <1>4, <1>5, Invariance, PTL DEF Spec

-----------------------------------------------------------------------------
(* Reading back.                                                           *)

(* Only the last entry may be torn, and none lacks its newline alone.      *)
TornIsLast ==
    \A i \in 1..Len(ledger) :
        /\ ledger[i].form # "unterminated"
        /\ i < Len(ledger) => ledger[i].form = "whole"

LEMMA TornStep ==
    ASSUME "unterminated" \notin PartialForms, IInv, TornIsLast, [Next]_vars
    PROVE  TornIsLast'
  <1>1. TypeOK
    BY DEF IInv
  <1>2. /\ Len(ledger) \in Nat
        /\ Len(Settled) \in Nat
        /\ Len(Settled) <= Len(ledger)
        /\ \A i \in 1..Len(Settled) : Settled[i] = ledger[i]
    BY <1>1, SettledType, LenProperties DEF TypeOK
  <1>3. CASE ledger' = ledger
    BY <1>3 DEF TornIsLast
  <1>4. CASE ledger' = Settled
    BY <1>2, <1>4 DEF TornIsLast
  <1>5. ASSUME NEW c \in Calls, NEW f \in PartialForms \cup {"whole"}, Extends(c, f)
        PROVE  TornIsLast'
    <2>1. \A i \in 1..Len(Settled) : ledger[i].form = "whole"
      <3>1. lock = c /\ pc[c] \in {"temp", "appended"} /\ lock # Free
        BY <1>5, FreeIsNoCall DEF Extends
      <3>2. CASE pc[c] = "temp"
        <4>1. ~Corrupt(ledger)
          BY <3>2 DEF IInv, HeadFresh
        <4>2. \A i \in 1..Len(ledger) : Parses(ledger, i)
          BY <4>1 DEF Corrupt
        <4>3. \A i \in 1..Len(ledger) : ledger[i].form = "whole"
          BY <4>2 DEF Parses, TornIsLast
        <4>4. QED
          BY <1>2, <4>3
      <3>3. CASE pc[c] = "appended"
        <4>1. Len(ledger) > 0
          BY <3>3 DEF IInv, LastIsUnsynced
        <4>2. Len(Settled) = Len(ledger) - 1
          BY <1>1, <3>1, <3>3, <4>1, SettledType
        <4>3. QED
          BY <1>2, <4>2 DEF TornIsLast
      <3>4. QED
        BY <3>1, <3>2, <3>3
    <2>2. /\ Len(ledger') = Len(Settled) + 1
          /\ ledger'[Len(Settled) + 1] = Entry(c, f)
          /\ \A i \in 1..Len(Settled) : ledger'[i] = ledger[i]
      BY <1>5, Extension
    <2>3. Entry(c, f).form # "unterminated"
      BY <1>5 DEF Entry
    <2>4. QED
      BY <1>2, <2>1, <2>2, <2>3 DEF TornIsLast
  <1>6. CASE Emptied
    BY <1>6, EmptySeq DEF Emptied, TornIsLast
  <1>7. QED
    BY <1>3, <1>4, <1>5, <1>6, LedgerStep

LEMMA NeverErased ==
    ASSUME "nameless" \notin Faults, [Next]_vars
    PROVE  erased' = erased
  BY DEF Next, Advance, vars, Arrive, EnterGate, ReadEvidence, EvidenceRefused,
      EvaluateClaim, RefuseClaim, OpenPayload, WritePayload, SyncPayload,
      PayloadFails, TakeLock, ReadHead, WriteTemp, AppendLine, SyncLine,
      UnlinkTemp, AppendFails, Respond, Cancel, Crash, ProcessDies, MachineDies,
      LoseLedger

(* If no write loses the newline alone and no crash the ledger's name,     *)
(* every answer can be cited: the ledger parses up to its entry, although  *)
(* a torn line may follow it (audit.py _last_line_hash, finding.py         *)
(* _read_entries).                                                         *)
THEOREM Readable ==
    ASSUME "unterminated" \notin PartialForms, "nameless" \notin Faults
    PROVE  Spec => []AnsweredCitable
  <1> DEFINE RInv == TornIsLast /\ erased = {}
  <1>1. Init => RInv
    BY DEF Init, TornIsLast
  <1>2. IInv /\ RInv /\ [Next]_vars => RInv'
    BY TornStep, NeverErased
  <1>3. IInv /\ RInv => AnsweredCitable
    <2> SUFFICES ASSUME IInv, RInv, NEW c \in Calls, pc[c] = "answered"
                 PROVE  CanRead(ledger, {c})
      BY DEF AnsweredCitable
    <2>1. PICK i \in 1..Len(ledger) : ledger[i].id = c /\ ledger[i].form = "whole"
      BY DEF IInv, AppendedCommitted
    <2>2. Len(ledger) \in Nat
      BY LenProperties DEF IInv, TypeOK
    <2>3. \A j \in 1..i : ledger[j].form = "whole"
      BY <2>1, <2>2 DEF TornIsLast
    <2>4. \A j \in 1..i : Parses(ledger, j)
      BY <2>1, <2>2, <2>3 DEF Parses
    <2>5. QED
      BY <2>1, <2>4 DEF CanRead
  <1> HIDE DEF RInv
  <1>4. QED
    BY <1>1, <1>2, <1>3, Invariance, PTL DEF Spec

-----------------------------------------------------------------------------
(* The semaphore and the lock.                                             *)

(* Waiting ends: the lock is held by a call that is appending, and the     *)
(* semaphore by a call at work that need not wait for the lock in turn,    *)
(* whatever failed, was cancelled or crashed before (server.py,            *)
(* _serial_gate, _ledger_write_lock).                                      *)
WaitsEnd ==
    /\ lock # Free => pc[lock] \in Appending
    /\ gate # Free =>
         pc[gate] \in Working /\ (pc[gate] = "lock" => lock = Free)

(* Whoever has the semaphore is inside a tool, in serial mode.             *)
GateInUse == gate # Free => ~parallel /\ pc[gate] \in Working

LEMMA GateStep ==
    ASSUME TypeOK, GateInUse, [Next]_vars
    PROVE  GateInUse'
  <1>0. pc \in [Calls -> Points] /\ gate \in Calls \cup {Free}
    BY DEF TypeOK
  <1>1. ASSUME NEW c \in Calls, Arrive(c)
        PROVE  GateInUse'
    BY <1>0, <1>1 DEF Arrive, Goto, GateInUse, Working, Appending
  <1>2. ASSUME NEW c \in Calls, EnterGate(c)
        PROVE  GateInUse'
    BY <1>0, <1>2 DEF EnterGate, Goto, GateInUse, Working, Appending
  <1>3. ASSUME NEW c \in Calls, NEW from \in Working, NEW to \in Working,
               Goto(c, from, to), UNCHANGED <<gate, parallel>>
        PROVE  GateInUse'
    BY <1>0, <1>3 DEF Goto, GateInUse
  <1>4. ASSUME NEW c \in Calls, NEW how, End(c, how), parallel' = parallel
        PROVE  GateInUse'
    BY <1>0, <1>4 DEF End, Release, GateInUse
  <1>5. ASSUME NEW c \in Calls,
               \/ ReadEvidence(c) \/ EvaluateClaim(c) \/ OpenPayload(c)
               \/ WritePayload(c) \/ SyncPayload(c) \/ TakeLock(c) \/ ReadHead(c)
               \/ WriteTemp(c) \/ AppendLine(c) \/ SyncLine(c)
               \/ UnlinkTemp(c)
        PROVE  GateInUse'
    <2>1. \E from, to \in Working : Goto(c, from, to)
      BY <1>5, Zenon
         DEF ReadEvidence, EvaluateClaim, OpenPayload, WritePayload, SyncPayload,
             TakeLock, ReadHead, WriteTemp, AppendLine, SyncLine, UnlinkTemp,
             Working, Appending
    <2>2. UNCHANGED <<gate, parallel>>
      BY <1>5 DEF ReadEvidence, EvaluateClaim, OpenPayload, WritePayload, SyncPayload,
             TakeLock, ReadHead, WriteTemp, AppendLine, SyncLine, UnlinkTemp
    <2> QED
      BY <1>3, <2>1, <2>2
  <1>6. ASSUME NEW c \in Calls,
               \/ EvidenceRefused(c) \/ RefuseClaim(c) \/ PayloadFails(c)
               \/ AppendFails(c) \/ Respond(c) \/ Cancel(c)
        PROVE  GateInUse'
    BY <1>4, <1>6 DEF EvidenceRefused, RefuseClaim, PayloadFails, AppendFails,
                      Respond, Cancel
  <1>7. CASE Crash
    BY <1>7 DEF Crash, GateInUse
  <1>8. CASE UNCHANGED vars
    BY <1>8 DEF vars, GateInUse
  <1> QED
    BY <1>1, <1>2, <1>5, <1>6, <1>7, <1>8 DEF Next, Advance

(* No call waits for one that waits: the lock's holder is appending, and   *)
(* the semaphore's holder never finds the lock taken, since in serial mode *)
(* whoever has the lock has the semaphore too (server.py, AC-5, ARCH-004). *)
THEOREM NoDeadlock == Spec => []WaitsEnd
  <1>1. Init => GateInUse
    BY DEF Init, GateInUse
  <1>2. IInv /\ GateInUse /\ [Next]_vars => GateInUse'
    BY GateStep DEF IInv
  <1>3. IInv /\ GateInUse => WaitsEnd
    <2> SUFFICES ASSUME IInv, GateInUse PROVE WaitsEnd
      OBVIOUS
    <2>1. lock # Free => lock \in Calls /\ pc[lock] \in Appending
      BY DEF IInv, TypeOK, LockHeld
    <2>2. gate # Free => pc[gate] \in Working
      BY DEF GateInUse
    <2>3. ASSUME gate # Free, pc[gate] = "lock", lock # Free
          PROVE  FALSE
      <3>1. gate = lock
        BY <2>1, <2>3 DEF GateInUse, IInv, GateHeld, Working
      <3> QED
        BY <2>1, <2>3, <3>1 DEF Appending
    <2> QED
      BY <2>1, <2>2, <2>3 DEF WaitsEnd
  <1> QED
    BY <1>1, <1>2, <1>3, Invariance, PTL DEF Spec

=============================================================================
