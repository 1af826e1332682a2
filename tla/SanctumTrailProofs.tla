------------------------- MODULE SanctumTrailProofs -------------------------
(***************************************************************************)
(* The server implements the audit trail, for any number of calls, faults  *)
(* and restarts, if no partial write loses the newline alone and no crash  *)
(* the ledger's name: each step of the server is a step of AuditTrail or   *)
(* none.                                                                   *)
(***************************************************************************)
EXTENDS SanctumServerProofs

(* The number of entries that count.                                       *)
TrailLen == IF LastUnsettled THEN Len(ledger) - 1 ELSE Len(ledger)

(* The points of a call that has arrived and not ended.                    *)
Underway == {"gate"} \cup Working

TInv == IInv /\ TornIsLast

-----------------------------------------------------------------------------
(* The mapping.                                                            *)

LEMMA TrailShape ==
    ASSUME TypeOK
    PROVE  /\ Len(ledger) \in Nat
           /\ TrailLen \in Nat
           /\ TrailLen <= Len(ledger)
           /\ Trail \in Seq(Calls)
           /\ Len(Trail) = TrailLen
           /\ \A i \in 1..TrailLen : Trail[i] = ledger[i].id
  <1>1. ledger \in Seq(Line) /\ Len(ledger) \in Nat
    BY LenProperties DEF TypeOK
  <1>2. ledger # <<>> => Len(ledger) > 0
    BY <1>1, EmptySeq
  <1>3. TrailLen \in Nat /\ TrailLen <= Len(ledger)
    BY <1>1, <1>2 DEF TrailLen, LastUnsettled
  <1>4. \A i \in 1..TrailLen : ledger[i].id \in Calls
    <2>1. \A i \in 1..Len(ledger) : ledger[i] \in Line
      BY <1>1, ElementOfSeq
    <2>2. QED
      BY <1>1, <1>3, <2>1 DEF Line
  <1>5. Trail = [i \in 1..TrailLen |-> ledger[i].id]
    BY DEF Trail, TrailLen
  <1>6. Trail \in Seq(Calls) /\ Len(Trail) = TrailLen
    BY <1>3, <1>4, <1>5
  <1>7. QED
    BY <1>1, <1>3, <1>5, <1>6

(* The trail stays if the entries that count stay.                         *)
LEMMA TrailStays ==
    ASSUME TypeOK, TrailLen' = TrailLen,
           \A i \in 1..TrailLen : ledger'[i] = ledger[i]
    PROVE  Trail' = Trail
  <1>1. Trail = [i \in 1..TrailLen |-> ledger[i].id]
    BY DEF Trail, TrailLen
  <1>2. Trail' = [i \in 1..TrailLen' |-> ledger'[i].id]
    BY DEF Trail, TrailLen
  <1>3. QED
    BY <1>1, <1>2

(* It grows if one more entry counts.                                      *)
LEMMA TrailGrows ==
    ASSUME TypeOK, TypeOK', TrailLen' = TrailLen + 1,
           \A i \in 1..TrailLen : ledger'[i] = ledger[i],
           NEW c \in Calls, ledger'[TrailLen + 1].id = c
    PROVE  Trail' = Append(Trail, c)
  <1>1. /\ Trail \in Seq(Calls)
        /\ TrailLen \in Nat
        /\ Len(Trail) = TrailLen
        /\ \A i \in 1..TrailLen : Trail[i] = ledger[i].id
    BY TrailShape
  <1>2. Trail' = [i \in 1..(TrailLen + 1) |-> ledger'[i].id]
    BY DEF Trail, TrailLen
  <1>3. Trail' \in Seq(Calls) /\ Len(Trail') = TrailLen + 1
    <2>1. \A i \in 1..(TrailLen + 1) : ledger'[i].id \in Calls
      <3>1. Len(ledger') \in Nat /\ TrailLen' <= Len(ledger')
        BY LenProperties DEF TypeOK, TrailLen
      <3>2. \A i \in 1..Len(ledger') : ledger'[i] \in Line
        BY ElementOfSeq DEF TypeOK
      <3>3. QED
        BY <1>1, <3>1, <3>2 DEF Line
    <2>2. QED
      BY <1>1, <1>2, <2>1
  <1>4. /\ Append(Trail, c) \in Seq(Calls)
        /\ Len(Append(Trail, c)) = TrailLen + 1
        /\ \A i \in 1..TrailLen : Append(Trail, c)[i] = Trail[i]
        /\ Append(Trail, c)[TrailLen + 1] = c
    BY <1>1, AppendProperties
  <1>5. \A i \in 1..(TrailLen + 1) : Trail'[i] = Append(Trail, c)[i]
    BY <1>1, <1>2, <1>4
  <1>6. QED
    BY <1>1, <1>3, <1>4, <1>5, SeqEqual

(* A step that leaves the ledger alone changes the trail only through the  *)
(* writer of the entry not yet synced.                                     *)
LEMMA SameTrail ==
    ASSUME TypeOK, TypeOK', ledger' = ledger,
           \A c \in Calls : pc'[c] = "appended" <=> pc[c] = "appended"
    PROVE  Trail' = Trail
  <1>1. /\ Len(ledger) \in Nat
        /\ ledger # <<>> => Len(ledger) > 0
        /\ \A i \in 1..Len(ledger) : ledger[i] \in Line
    BY LenProperties, EmptySeq, ElementOfSeq DEF TypeOK
  <1>2. ledger # <<>> => ledger[Len(ledger)].id \in Calls
    BY <1>1 DEF Line
  <1>3. LastUnsettled' <=> LastUnsettled
    BY <1>2 DEF LastUnsettled
  <1>4. TrailLen' = TrailLen
    BY <1>3 DEF TrailLen
  <1>5. QED
    BY <1>4, TrailStays

(* A call under way is open.                                               *)
LEMMA StatusOf ==
    ASSUME TypeOK, NEW c \in Calls
    PROVE  /\ pc[c] \in Underway <=> Status[c] = "open"
           /\ pc[c] = "new" <=> Status[c] = "new"
  BY DEF TypeOK, Status, Points, Ended, Underway, Working, Appending

-----------------------------------------------------------------------------
(* The call that is about to write, or has written, its entry.             *)

LEMMA Whole ==
    ASSUME TInv, ~Corrupt(ledger)
    PROVE  \A i \in 1..Len(ledger) : ledger[i].form = "whole"
  <1>1. \A i \in 1..Len(ledger) : Parses(ledger, i)
    BY DEF Corrupt
  <1>2. QED
    BY <1>1 DEF Parses, TInv, TornIsLast

(* Exactly the settled entries count.                                      *)
LEMMA SettledCounts ==
    ASSUME TInv, NEW c \in Calls, lock = c, pc[c] \in {"temp", "appended"}
    PROVE  /\ TrailLen = Len(Settled)
           /\ \A i \in 1..Len(Settled) : ledger[i].form = "whole"
  <1>1. TypeOK /\ lock # Free
    BY FreeIsNoCall DEF TInv, IInv
  <1>2. /\ Len(ledger) \in Nat
        /\ ledger # <<>> => Len(ledger) > 0
        /\ \A i \in 1..Len(ledger) : ledger[i] \in Line
    BY <1>1, LenProperties, EmptySeq, ElementOfSeq DEF TypeOK
  <1>3. CASE pc[c] = "temp"
    <2>1. \A i \in 1..Len(ledger) : ledger[i].form = "whole"
      BY <1>3, Whole DEF TInv, IInv, HeadFresh
    <2>2. Settled = ledger
      BY <1>1, <1>3, SettledType
    <2>3. \A d \in Calls : pc[d] # "appended"
      BY <1>3 DEF TInv, IInv, LockHeld, Appending
    <2>4. ~LastUnsettled
      BY <1>2, <2>1, <2>3 DEF LastUnsettled, Line
    <2>5. QED
      BY <2>1, <2>2, <2>4 DEF TrailLen
  <1>4. CASE pc[c] = "appended"
    <2>1. Len(ledger) > 0 /\ ledger[Len(ledger)] = Entry(c, "whole")
      BY <1>4 DEF TInv, IInv, LastIsUnsynced
    <2>2. Len(Settled) = Len(ledger) - 1
      BY <1>1, <1>4, <2>1, SettledType
    <2>3. ledger # <<>>
      BY <2>1, EmptySeq
    <2>4. LastUnsettled
      BY <1>4, <2>1, <2>3 DEF LastUnsettled, Entry
    <2>5. \A i \in 1..Len(Settled) : ledger[i].form = "whole"
      BY <1>2, <2>2 DEF TInv, TornIsLast
    <2>6. QED
      BY <2>2, <2>4, <2>5 DEF TrailLen
  <1>5. QED
    BY <1>3, <1>4

(* Its entry may be recorded.                                              *)
LEMMA MayRecord ==
    ASSUME TInv, NEW c \in Calls, lock = c, pc[c] \in {"temp", "appended"}
    PROVE  A!Recordable(c)
  <1>1. TypeOK /\ TrailLen = Len(Settled)
    BY SettledCounts DEF TInv, IInv
  <1>2. /\ Len(Trail) = Len(Settled)
        /\ Len(Settled) \in Nat
        /\ Len(Settled) <= Len(ledger)
        /\ \A i \in 1..Len(Settled) : Trail[i] = ledger[i].id
        /\ \A i \in 1..Len(Settled) : Settled[i] = ledger[i]
    BY <1>1, TrailShape, SettledType
  <1>3. Status[c] = "open"
    BY <1>1, StatusOf DEF Underway, Working, Appending
  <1>4. c \notin A!Recorded
    <2>1. ~InLedger(Settled, c)
      BY SettledChain DEF TInv
    <2>2. QED
      BY <1>2, <2>1 DEF InLedger, A!Recorded
  <1>5. ASSUME c \in ClaimCalls
        PROVE  cites[c] # {} /\ cites[c] \subseteq A!Recorded \ ClaimCalls
    <2>1. /\ cites[c] # {}
          /\ \A d \in cites[c] :
               d \notin ClaimCalls /\ \E j \in 1..Len(ledger) : ledger[j].id = d
      BY <1>5 DEF TInv, IInv, ClaimHeld, Appending
    <2>2. ASSUME NEW d \in cites[c]
          PROVE  d \in A!Recorded \ ClaimCalls
      <3>1. PICK j \in 1..Len(ledger) : ledger[j].id = d
        BY <2>1
      <3>2. d \notin ClaimCalls /\ d # c
        BY <1>5, <2>1
      <3>3. d \in Calls
        BY <1>1, <2>2 DEF TypeOK
      <3>4. pc[d] # "appended"
        BY <3>2, <3>3 DEF TInv, IInv, LockHeld, Appending
      <3>5. j \in 1..Len(Settled)
        BY <1>2, <3>1, <3>4, SettledChain DEF TInv
      <3>6. QED
        BY <1>2, <3>1, <3>2, <3>5 DEF A!Recorded
    <2>3. QED
      BY <2>1, <2>2
  <1>6. QED
    BY <1>3, <1>4, <1>5 DEF A!Recordable

(* Past the fsync the entry counts.                                        *)
LEMMA CommittedCounts ==
    ASSUME TInv, NEW c \in Calls, pc[c] = "committed"
    PROVE  c \in A!Recorded
  <1>1. TypeOK
    BY DEF TInv, IInv
  <1>2. PICK i \in 1..Len(ledger) : ledger[i].id = c /\ ledger[i].form = "whole"
    BY DEF TInv, IInv, AppendedCommitted
  <1>3. /\ Len(ledger) \in Nat /\ TrailLen \in Nat /\ Len(Trail) = TrailLen
        /\ \A k \in 1..TrailLen : Trail[k] = ledger[k].id
    BY <1>1, TrailShape
  <1>4. i = Len(ledger) => ~LastUnsettled
    BY <1>2 DEF LastUnsettled
  <1>5. i \in 1..TrailLen
    BY <1>2, <1>3, <1>4 DEF TrailLen
  <1>6. QED
    BY <1>2, <1>3, <1>5 DEF A!Recorded

-----------------------------------------------------------------------------
(* Steps that no client sees, and steps that end a call.                   *)

LEMMA Quiet ==
    ASSUME TypeOK, NEW c \in Calls, NEW p \in Underway, pc[c] \in Underway,
           pc' = [pc EXCEPT ![c] = p], cites' = cites, Trail' = Trail
    PROVE  UNCHANGED A!avars
  <1>1. Status' = Status
    BY DEF TypeOK, Status, Underway, Working, Appending, Ended
  <1>2. QED
    BY <1>1 DEF A!avars

LEMMA QuietStep ==
    ASSUME TInv, TypeOK', NEW c \in Calls,
           EnterGate(c) \/ ReadEvidence(c) \/ EvaluateClaim(c) \/ OpenPayload(c)
             \/ WritePayload(c) \/ SyncPayload(c) \/ TakeLock(c) \/ ReadHead(c)
             \/ WriteTemp(c) \/ UnlinkTemp(c)
    PROVE  UNCHANGED A!avars
  <1>1. TypeOK
    BY DEF TInv, IInv
  <1>2. PICK p \in Underway \ {"appended"} :
            /\ pc[c] \in Underway \ {"appended"}
            /\ pc' = [pc EXCEPT ![c] = p]
            /\ cites' = cites /\ ledger' = ledger
    BY DEF EnterGate, ReadEvidence, EvaluateClaim, OpenPayload, WritePayload,
           SyncPayload, TakeLock, ReadHead, WriteTemp, UnlinkTemp, Goto, Underway, Working,
           Appending
  <1>3. \A d \in Calls : pc'[d] = "appended" <=> pc[d] = "appended"
    BY <1>1, <1>2 DEF TypeOK
  <1>4. Trail' = Trail
    BY <1>1, <1>2, <1>3, SameTrail
  <1>5. QED
    BY <1>1, <1>2, <1>4, Quiet

LEMMA Ending ==
    ASSUME TypeOK, NEW c \in Calls, NEW how \in {"failed", "cancelled"},
           pc[c] \in Underway, End(c, how), cites' = cites,
           \/ Trail' = Trail
           \/ A!Recordable(c) /\ Trail' = Append(Trail, c)
    PROVE  A!Refuse(c)
  <1>1. Status[c] = "open"
    BY StatusOf
  <1>2. Status' = [Status EXCEPT ![c] = "refused"]
    BY DEF TypeOK, End, Status, Ended
  <1>3. Trail' \in {Trail} \cup {Append(Trail, d) : d \in {e \in {c} : A!Recordable(e)}}
    OBVIOUS
  <1>4. QED
    BY <1>1, <1>2, <1>3 DEF A!Refuse

(* A call that ends without having touched the ledger.                     *)
LEMMA RefusedStep ==
    ASSUME TInv, TypeOK', NEW c \in Calls,
           EvidenceRefused(c) \/ RefuseClaim(c) \/ PayloadFails(c) \/ Cancel(c)
    PROVE  A!Refuse(c)
  <1>1. TypeOK
    BY DEF TInv, IInv
  <1>2. PICK how \in {"failed", "cancelled"} :
            /\ pc[c] \in Underway \ {"appended"}
            /\ End(c, how) /\ cites' = cites /\ ledger' = ledger
    BY DEF EvidenceRefused, RefuseClaim, PayloadFails, Cancel, Cancellable,
           Underway, Working, Appending
  <1>3. \A d \in Calls : pc'[d] = "appended" <=> pc[d] = "appended"
    BY <1>1, <1>2 DEF TypeOK, End
  <1>4. Trail' = Trail
    BY <1>1, <1>2, <1>3, SameTrail
  <1>5. QED
    BY <1>1, <1>2, <1>4, Ending

-----------------------------------------------------------------------------
(* The steps that change the ledger or what counts of it.                  *)

LEMMA LastCounts ==
    ASSUME TypeOK', NEW n \in Nat, Len(ledger') = n + 1,
           NEW c \in Calls, ledger'[n + 1].id = c
    PROVE  /\ (ledger'[n + 1].form # "whole" \/ pc'[c] = "appended") =>
                TrailLen' = n
           /\ (ledger'[n + 1].form = "whole" /\ pc'[c] # "appended") =>
                TrailLen' = n + 1
  <1>1. ledger' # <<>>
    BY EmptySeq
  <1>2. QED
    BY <1>1 DEF TrailLen, LastUnsettled

(* The write of the entry is not visible yet.                              *)
LEMMA AppendQuiet ==
    ASSUME TInv, TypeOK', NEW c \in Calls, AppendLine(c)
    PROVE  UNCHANGED A!avars
  <1>1. TypeOK /\ lock = c /\ pc[c] = "temp" /\ lock # Free
    BY FreeIsNoCall DEF TInv, IInv, LockHeld, AppendLine, Goto, Appending
  <1>2. Settled = ledger /\ TrailLen = Len(ledger)
    BY <1>1, SettledType, SettledCounts
  <1>3. ledger \in Seq(Line) /\ Len(ledger) \in Nat /\ Entry(c, "whole") \in Line
    BY <1>1, EntryType, LenProperties DEF TypeOK
  <1>4. /\ Len(ledger') = Len(ledger) + 1
        /\ ledger'[Len(ledger) + 1] = Entry(c, "whole")
        /\ \A i \in 1..Len(ledger) : ledger'[i] = ledger[i]
    BY <1>3, AppendProperties DEF AppendLine
  <1>5. pc' = [pc EXCEPT ![c] = "appended"] /\ cites' = cites
    BY DEF AppendLine, Goto
  <1>6. TrailLen' = Len(ledger)
    BY <1>1, <1>3, <1>4, <1>5, LastCounts DEF TypeOK, Entry
  <1>7. Trail' = Trail
    BY <1>1, <1>2, <1>4, <1>6, TrailStays
  <1>8. QED
    BY <1>1, <1>5, <1>7, Quiet DEF Underway, Working, Appending

(* What a step of the writer that keeps the ledger and leaves the point    *)
(* "appended" does: its entry counts from then on.                         *)
LEMMA EntryCounts ==
    ASSUME TInv, TypeOK', NEW c \in Calls, pc[c] = "appended",
           ledger' = ledger, pc'[c] # "appended"
    PROVE  A!Recordable(c) /\ Trail' = Append(Trail, c)
  <1>1. TypeOK /\ lock = c /\ lock # Free
    BY FreeIsNoCall DEF TInv, IInv, LockHeld, Appending
  <1>2. Len(ledger) > 0 /\ ledger[Len(ledger)] = Entry(c, "whole")
    BY DEF TInv, IInv, LastIsUnsynced
  <1>3. /\ Len(ledger) \in Nat
        /\ Len(Settled) = Len(ledger) - 1
        /\ TrailLen = Len(Settled)
    BY <1>1, <1>2, SettledType, SettledCounts, LenProperties DEF TypeOK
  <1>4. /\ TrailLen \in Nat
        /\ Len(ledger') = TrailLen + 1
        /\ ledger'[TrailLen + 1].id = c
        /\ ledger'[TrailLen + 1].form = "whole"
    BY <1>2, <1>3 DEF Entry
  <1>5. TrailLen' = TrailLen + 1
    BY <1>4, LastCounts
  <1>6. Trail' = Append(Trail, c)
    BY <1>1, <1>4, <1>5, TrailGrows
  <1>7. QED
    BY <1>1, <1>6, MayRecord

LEMMA SyncRecords ==
    ASSUME TInv, TypeOK', NEW c \in Calls, SyncLine(c)
    PROVE  A!Record(c)
  <1>1. TypeOK /\ pc[c] = "appended" /\ pc' = [pc EXCEPT ![c] = "synced"]
    BY DEF TInv, IInv, SyncLine, Goto
  <1>2. A!Recordable(c) /\ Trail' = Append(Trail, c)
    BY <1>1, EntryCounts DEF SyncLine, TypeOK
  <1>3. Status' = Status /\ cites' = cites
    BY <1>1 DEF SyncLine, TypeOK, Status, Ended
  <1>4. QED
    BY <1>2, <1>3 DEF A!Record

LEMMA FailureRefuses ==
    ASSUME TInv, TypeOK', NEW c \in Calls, AppendFails(c)
    PROVE  A!Refuse(c)
  <1>1. TypeOK /\ End(c, "failed") /\ cites' = cites
    BY DEF TInv, IInv, AppendFails
  <1>2. pc[c] \in Underway /\ pc[c] \in Appending
    BY DEF AppendFails, Underway, Working, Appending
  <1>3. pc' = [pc EXCEPT ![c] = "failed"]
    BY <1>1 DEF End
  <1>4. CASE pc[c] = "appended"
    <2>1. ledger' = ledger
      BY <1>4 DEF AppendFails
    <2>2. A!Recordable(c) /\ Trail' = Append(Trail, c)
      BY <1>1, <1>3, <1>4, <2>1, EntryCounts DEF TypeOK
    <2>3. QED
      BY <1>1, <1>2, <2>2, Ending
  <1>5. CASE pc[c] # "appended" /\ ledger' = ledger
    <2>1. \A d \in Calls : pc'[d] = "appended" <=> pc[d] = "appended"
      BY <1>1, <1>3, <1>5 DEF TypeOK
    <2>2. Trail' = Trail
      BY <1>1, <1>5, <2>1, SameTrail
    <2>3. QED
      BY <1>1, <1>2, <2>2, Ending
  <1>6. CASE pc[c] # "appended" /\ ledger' # ledger
    <2>1. PICK f \in PartialForms : ledger' = Append(ledger, Entry(c, f))
      BY <1>6 DEF AppendFails
    <2>2. pc[c] = "temp" /\ lock = c /\ lock # Free
      BY <1>2, <1>6, FreeIsNoCall DEF AppendFails, TInv, IInv, LockHeld
    <2>3. Settled = ledger /\ TrailLen = Len(ledger)
      BY <1>1, <2>2, SettledType, SettledCounts
    <2>4. ledger \in Seq(Line) /\ Len(ledger) \in Nat /\ Entry(c, f) \in Line
      BY <1>1, EntryType, LenProperties DEF TypeOK
    <2>5. /\ Len(ledger') = Len(ledger) + 1
          /\ ledger'[Len(ledger) + 1] = Entry(c, f)
          /\ \A i \in 1..Len(ledger) : ledger'[i] = ledger[i]
      BY <2>1, <2>4, AppendProperties
    <2>6. Entry(c, f).form # "whole" /\ Entry(c, f).id = c
      BY DEF Entry, PartialForms
    <2>7. TrailLen' = Len(ledger)
      BY <2>4, <2>5, <2>6, LastCounts
    <2>8. Trail' = Trail
      BY <1>1, <2>3, <2>5, <2>7, TrailStays
    <2>9. QED
      BY <1>1, <1>2, <2>8, Ending
  <1>7. QED
    BY <1>4, <1>5, <1>6

LEMMA AnswerStep ==
    ASSUME TInv, TypeOK', NEW c \in Calls, Respond(c)
    PROVE  A!Answer(c)
  <1>1. TypeOK
    BY DEF TInv, IInv
  <1>2. /\ pc[c] = "committed" /\ pc' = [pc EXCEPT ![c] = "answered"]
        /\ cites' = cites /\ ledger' = ledger
    BY DEF Respond, End
  <1>3. Status[c] = "open" /\ Status' = [Status EXCEPT ![c] = "answered"]
    BY <1>1, <1>2 DEF TypeOK, Status, Ended
  <1>4. \A d \in Calls : pc'[d] = "appended" <=> pc[d] = "appended"
    BY <1>1, <1>2 DEF TypeOK
  <1>5. Trail' = Trail
    BY <1>1, <1>2, <1>4, SameTrail
  <1>6. QED
    BY <1>2, <1>3, <1>5, CommittedCounts DEF A!Answer

LEMMA ArriveStep ==
    ASSUME TInv, TypeOK', NEW c \in Calls, Arrive(c)
    PROVE  A!Open(c)
  <1>1. TypeOK
    BY DEF TInv, IInv
  <1>2. /\ pc[c] = "new" /\ pc' = [pc EXCEPT ![c] = "gate"]
        /\ cites' \in {[cites EXCEPT ![c] = S] : S \in SUBSET Calls}
        /\ ledger' = ledger
    BY DEF Arrive, Goto
  <1>3. Status[c] = "new" /\ Status' = [Status EXCEPT ![c] = "open"]
    BY <1>1, <1>2 DEF TypeOK, Status, Ended
  <1>4. \A d \in Calls : pc'[d] = "appended" <=> pc[d] = "appended"
    BY <1>1, <1>2 DEF TypeOK
  <1>5. Trail' = Trail
    BY <1>1, <1>2, <1>4, SameTrail
  <1>6. QED
    BY <1>2, <1>3, <1>5 DEF A!Open

(* A crash refuses what is open, and may settle the entry in flight.       *)
LEMMA CrashStep ==
    ASSUME TInv, TypeOK', Crash, "nameless" \notin Faults
    PROVE  A!Restart
  <1>0. ledger' \in AfterCrash
    BY DEF Crash, ProcessDies, MachineDies, LoseLedger
  <1>1. TypeOK /\ cites' = cites
    BY DEF TInv, IInv, Crash
  <1>2. \A d \in Calls : pc'[d] # "appended"
    BY <1>1 DEF Crash, TypeOK, Ended
  <1>3. Status' = [c \in Calls |-> IF Status[c] = "open" THEN "refused" ELSE Status[c]]
    BY <1>1 DEF Crash, TypeOK, Status, Ended, Points, Working, Appending
  <1>4. /\ Settled \in Seq(Line) /\ Len(Settled) \in Nat
        /\ \A i \in 1..Len(Settled) : Settled[i] = ledger[i]
    BY <1>1, SettledType, LenProperties
  <1>5. CASE ledger' = Settled
    <2>1. CASE lock # Free /\ pc[lock] = "appended"
      <3>1. lock \in Calls
        BY <1>1, <2>1 DEF TypeOK
      <3>2. /\ TrailLen = Len(Settled)
            /\ \A i \in 1..Len(Settled) : ledger[i].form = "whole"
        BY <2>1, <3>1, SettledCounts
      <3>3. \A i \in 1..Len(Settled) : Settled[i].id \in Calls
        <4>1. \A i \in 1..Len(Settled) : Settled[i] \in Line
          BY <1>4, ElementOfSeq
        <4>2. QED
          BY <4>1 DEF Line
      <3>4. ledger' # <<>> => Len(Settled) > 0
        BY <1>4, <1>5, EmptySeq
      <3>5. ~LastUnsettled'
        BY <1>2, <1>4, <1>5, <3>2, <3>3, <3>4 DEF LastUnsettled
      <3>6. TrailLen' = TrailLen
        BY <1>5, <3>2, <3>5 DEF TrailLen
      <3>7. Trail' = Trail
        BY <1>1, <1>4, <1>5, <3>2, <3>6, TrailStays
      <3>8. QED
        BY <1>1, <1>3, <3>7 DEF A!Restart
    <2>2. CASE ~(lock # Free /\ pc[lock] = "appended")
      <3>1. Settled = ledger
        BY <1>1, <2>2, SettledType
      <3>2. \A d \in Calls : pc[d] # "appended"
        BY <2>2, FreeIsNoCall DEF TInv, IInv, LockHeld, Appending
      <3>3. Trail' = Trail
        BY <1>1, <1>2, <1>5, <3>1, <3>2, SameTrail
      <3>4. QED
        BY <1>1, <1>3, <3>3 DEF A!Restart
    <2>3. QED
      BY <2>1, <2>2
  <1>6. CASE ledger' # Settled
    <2>1. PICK c \in Calls, f \in PartialForms \cup {"whole"} :
              /\ lock = c /\ pc[c] \in {"temp", "appended"}
              /\ ledger' = Append(Settled, Entry(c, f))
      BY <1>0, <1>6 DEF AfterCrash
    <2>2. Entry(c, f) \in Line /\ Entry(c, f).id = c /\ Entry(c, f).form = f
      BY <1>1, EntryType DEF Entry
    <2>3. /\ Len(ledger') = Len(Settled) + 1
          /\ ledger'[Len(Settled) + 1] = Entry(c, f)
          /\ \A i \in 1..Len(Settled) : ledger'[i] = Settled[i]
      BY <1>4, <2>1, <2>2, AppendProperties
    <2>4. TrailLen = Len(Settled)
      BY <2>1, SettledCounts
    <2>5. CASE f = "whole"
      <3>1. TrailLen' = TrailLen + 1
        BY <1>2, <1>4, <2>2, <2>3, <2>4, <2>5, LastCounts
      <3>2. Trail' = Append(Trail, c)
        BY <1>1, <1>4, <2>2, <2>3, <2>4, <3>1, TrailGrows
      <3>3. A!Recordable(c)
        BY <2>1, MayRecord
      <3>4. QED
        BY <1>1, <1>3, <3>2, <3>3 DEF A!Restart
    <2>6. CASE f # "whole"
      <3>1. TrailLen' = TrailLen
        BY <1>4, <2>2, <2>3, <2>4, <2>6, LastCounts
      <3>2. Trail' = Trail
        BY <1>1, <1>4, <2>3, <2>4, <3>1, TrailStays
      <3>3. QED
        BY <1>1, <1>3, <3>2 DEF A!Restart
    <2>7. QED
      BY <2>5, <2>6
  <1>7. QED
    BY <1>5, <1>6

-----------------------------------------------------------------------------
LEMMA Stutters ==
    ASSUME UNCHANGED vars
    PROVE  UNCHANGED A!avars
  BY DEF vars, A!avars, Trail, Status, LastUnsettled

LEMMA MapsStep ==
    ASSUME TInv, TypeOK', [Next]_vars, "nameless" \notin Faults
    PROVE  [A!ANext]_(A!avars)
  <1>1. ASSUME NEW c \in Calls, Arrive(c)
        PROVE  A!ANext
    BY <1>1, ArriveStep DEF A!ANext
  <1>2. ASSUME NEW c \in Calls,
               EnterGate(c) \/ ReadEvidence(c) \/ EvaluateClaim(c)
                 \/ OpenPayload(c) \/ WritePayload(c) \/ SyncPayload(c)
                 \/ TakeLock(c) \/ ReadHead(c) \/ WriteTemp(c) \/ UnlinkTemp(c)
        PROVE  UNCHANGED A!avars
    BY <1>2, QuietStep
  <1>3. ASSUME NEW c \in Calls,
               EvidenceRefused(c) \/ RefuseClaim(c) \/ PayloadFails(c) \/ Cancel(c)
        PROVE  A!ANext
    BY <1>3, RefusedStep DEF A!ANext
  <1>4. ASSUME NEW c \in Calls, AppendLine(c)
        PROVE  UNCHANGED A!avars
    BY <1>4, AppendQuiet
  <1>5. ASSUME NEW c \in Calls, SyncLine(c)
        PROVE  A!ANext
    BY <1>5, SyncRecords DEF A!ANext
  <1>6. ASSUME NEW c \in Calls, AppendFails(c)
        PROVE  A!ANext
    BY <1>6, FailureRefuses DEF A!ANext
  <1>7. ASSUME NEW c \in Calls, Respond(c)
        PROVE  A!ANext
    BY <1>7, AnswerStep DEF A!ANext
  <1>8. CASE Crash
    BY <1>8, CrashStep DEF A!ANext
  <1>9. CASE UNCHANGED vars
    BY <1>9, Stutters
  <1>10. QED
    BY <1>1, <1>2, <1>3, <1>4, <1>5, <1>6, <1>7, <1>8, <1>9 DEF Next, Advance

(* The server is an atomic audit trail: calls are recorded one at a time,  *)
(* grounded in what is recorded, and before they are answered, through     *)
(* every interleaving, failure and crash, if no partial write loses the    *)
(* newline alone and no crash the ledger's name (server.py, audit.py       *)
(* append_entry).                                                          *)
THEOREM Implements ==
    ASSUME "unterminated" \notin PartialForms, "nameless" \notin Faults
    PROVE  Spec => ImplementsTrail
  <1>1. Init => TInv
    BY InitInv DEF Init, TInv, TornIsLast
  <1>2. TInv /\ [Next]_vars => TInv'
    BY Inductive, TornStep DEF TInv
  <1>3. TInv => TypeOK
    BY DEF TInv, IInv
  <1>4. Init => A!AInit
    <2> SUFFICES ASSUME Init
                 PROVE  A!AInit
      OBVIOUS
    <2>1. Trail = <<>>
      <3>1. ledger = <<>> /\ Len(ledger) = 0 /\ ~LastUnsettled
        BY EmptySeq DEF Init, LastUnsettled
      <3>2. Trail = [i \in 1..0 |-> ledger[i].id]
        BY <3>1 DEF Trail
      <3>3. QED
        BY <3>2
    <2>2. Status = [c \in Calls |-> "new"] /\ cites = [c \in Calls |-> {}]
      BY DEF Init, Status
    <2>3. QED
      BY <2>1, <2>2 DEF A!AInit
  <1>5. TInv /\ TypeOK' /\ [Next]_vars => [A!ANext]_(A!avars)
    BY MapsStep
  <1>6. QED
    BY <1>1, <1>2, <1>3, <1>4, <1>5, PTL DEF Spec, ImplementsTrail, A!ASpec

=============================================================================
