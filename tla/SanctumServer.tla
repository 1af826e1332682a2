--------------------------- MODULE SanctumServer ---------------------------
(***************************************************************************)
(* The MCP server of src/sanctum/server.py: concurrent tool calls, each an *)
(* asyncio task whose blocking steps run in worker threads, that offload a *)
(* write-once payload and then extend the hash-chained audit ledger.       *)
(*                                                                         *)
(* One process per tool call.  A control point is a place where another    *)
(* task, a worker thread, a cancellation or a crash can take over; what    *)
(* runs between two of them on the event loop is one action.  Inside       *)
(* append_entry, which runs in a worker thread, the points are its system  *)
(* calls.                                                                  *)
(***************************************************************************)
EXTENDS AuditLedger, FiniteSets

CONSTANTS
    ClaimCalls,   \* the calls of claim_finding; the others are get_* tools
    Faults,       \* the faults of the file system that may happen
    MaxCrashes,   \* bound: how often the server process is restarted
    Free          \* no holder of the lock or of the semaphore

ASSUME ClaimCallsAreCalls == ClaimCalls \subseteq Calls
ASSUME FaultsAssumption == Faults \subseteq {"torn", "unterminated", "short", "nameless"}
ASSUME MaxCrashesAssumption == MaxCrashes \in Nat
ASSUME FreeIsNoCall == Free \notin Calls

VARIABLES
    pc,          \* the control point of each call
    cites,       \* the audit_ids a claim_finding call was given
    parallel,    \* SANCTUM_PARALLEL_TOOLS = "1" in this server process
    gate,        \* holder of _serial_gate's Semaphore(1)
    lock,        \* holder of _ledger_write_lock
    payload,     \* the offloaded payload file of each call
    head,        \* prev_hash as append_entry read it
    offloaded,   \* calls whose write_payload returned its PayloadRef
    ledger,      \* the ledger file
    orphans,     \* calls whose payload was logged as an orphan (AC-9)
    crashes,     \* restarts so far
    kept,        \* calls whose payload's name a machine crash has left in place
    rooted,      \* a machine crash has left the ledger's name in place
    erased       \* calls whose entry was lost with the ledger's name

lasting == <<kept, rooted, erased>>

vars == <<pc, cites, parallel, gate, lock, payload, head, offloaded, ledger,
          orphans, crashes, lasting>>

-----------------------------------------------------------------------------
(* Control points.                                                         *)

Appending == {"locked", "head", "temp", "appended", "synced", "committed"}

Working ==
    {"case", "hash", "parse", "payload", "opened", "written", "lock"} \cup Appending

Ended == {"answered", "failed", "cancelled", "lost"}

Points == {"new", "gate"} \cup Working \cup Ended

(* Where a cancellation of the request is delivered: a wait for the        *)
(* semaphore or the lock, and the checkpoint before a worker thread is     *)
(* started.  A thread that has started is shielded until it returns.       *)
Cancellable == {"gate", "hash", "parse", "payload", "lock", "locked"}

PartialForms == Faults \cap {"torn", "unterminated"}

PayloadForms == {"absent", "partial", "whole", "lost"}

TypeOK ==
    /\ pc \in [Calls -> Points]
    /\ cites \in [Calls -> SUBSET Calls]
    /\ parallel \in BOOLEAN
    /\ gate \in Calls \cup {Free}
    /\ lock \in Calls \cup {Free}
    /\ payload \in [Calls -> PayloadForms]
    /\ head \in [Calls -> Calls \cup {Genesis}]
    /\ offloaded \subseteq Calls
    /\ ledger \in Seq(Line)
    /\ orphans \subseteq Calls
    /\ crashes \in 0..MaxCrashes
    /\ kept \subseteq Calls
    /\ rooted \in BOOLEAN
    /\ erased \subseteq Calls

Init ==
    /\ pc = [c \in Calls |-> "new"]
    /\ cites = [c \in Calls |-> {}]
    /\ parallel \in BOOLEAN
    /\ gate = Free
    /\ lock = Free
    /\ payload = [c \in Calls |-> "absent"]
    /\ head = [c \in Calls |-> Genesis]
    /\ offloaded = {}
    /\ ledger = <<>>
    /\ orphans = {}
    /\ crashes = 0
    /\ kept = {}
    /\ rooted = FALSE
    /\ erased = {}

-----------------------------------------------------------------------------
Goto(c, from, to) ==
    /\ pc[c] = from
    /\ pc' = [pc EXCEPT ![c] = to]

MutRelease(c) ==
    /\ gate' = IF gate = c THEN Free ELSE gate
    /\ UNCHANGED lock

(* Leaving the `async with` blocks, on the way out of a tool, releases     *)
(* whatever the task holds, whether it returns, raises or is cancelled.    *)
Release(c) ==
    /\ gate' = IF gate = c THEN Free ELSE gate
    /\ lock' = IF lock = c THEN Free ELSE lock

End(c, how) ==
    /\ pc' = [pc EXCEPT ![c] = how]
    /\ Release(c)

-----------------------------------------------------------------------------
(* The request reaches the server; claim_finding comes with the audit_ids  *)
(* the agent cites, which need not exist.                                  *)
Arrive(c) ==
    /\ Goto(c, "new", "gate")
    /\ cites' \in {[cites EXCEPT ![c] = S] :
                     S \in IF c \in ClaimCalls THEN SUBSET Calls ELSE {{}}}
    /\ UNCHANGED <<parallel, gate, lock, payload, head, offloaded, ledger,
                   orphans, crashes, lasting>>

MutEnterGate(c) ==
    /\ Goto(c, "gate", "case")
    /\ gate' = IF parallel THEN gate ELSE c
    /\ UNCHANGED <<cites, parallel, lock, payload, head, offloaded, ledger,
                   orphans, crashes, lasting>>

(* async with _serial_gate(): a no-op in parallel mode.                    *)
EnterGate(c) ==
    /\ Goto(c, "gate", "case")
    /\ \/ parallel /\ UNCHANGED gate
       \/ ~parallel /\ gate = Free /\ gate' = c
    /\ UNCHANGED <<cites, parallel, lock, payload, head, offloaded, ledger,
                   orphans, crashes, lasting>>

(* A get_* tool resolves the case directory, hashes the artifact, parses   *)
(* it into rows and mints the audit_id; get_prefetch hashes nothing.       *)
ReadEvidence(c) ==
    /\ c \notin ClaimCalls
    /\ \/ Goto(c, "case", "hash")
       \/ Goto(c, "case", "parse")
       \/ Goto(c, "hash", "parse")
       \/ Goto(c, "parse", "payload")
    /\ UNCHANGED <<cites, parallel, gate, lock, payload, head, offloaded,
                   ledger, orphans, crashes, lasting>>

(* An unsafe case_id, a missing case or artifact, or one that does not     *)
(* parse: the tool raises before it has written anything.                  *)
EvidenceRefused(c) ==
    /\ c \notin ClaimCalls
    /\ pc[c] \in {"case", "hash", "parse"}
    /\ End(c, "failed")
    /\ UNCHANGED <<cites, parallel, payload, head, offloaded, ledger, orphans,
                   crashes, lasting>>

(* evaluate_claim accepts: something is cited, every cited id is in the    *)
(* ledger, and every one is the entry of a tool that has a family, which   *)
(* claim_finding itself has not.                                           *)
Citable(c) ==
    /\ cites[c] # {}
    /\ CanRead(ledger, cites[c])
    /\ cites[c] \cap ClaimCalls = {}

MutEvaluateClaim(c) ==
    /\ c \in ClaimCalls
    /\ cites[c] # {} /\ cites[c] \cap ClaimCalls = {}
    /\ Goto(c, "case", "payload")
    /\ UNCHANGED <<cites, parallel, gate, lock, payload, head, offloaded,
                   ledger, orphans, crashes, lasting>>

(* claim_finding evaluates the gate on the event loop, without the ledger  *)
(* lock.                                                                   *)
EvaluateClaim(c) ==
    /\ c \in ClaimCalls
    /\ Citable(c)
    /\ Goto(c, "case", "payload")
    /\ UNCHANGED <<cites, parallel, gate, lock, payload, head, offloaded,
                   ledger, orphans, crashes, lasting>>

(* An unsafe case_id, or a claim the gate refuses.                         *)
RefuseClaim(c) ==
    /\ c \in ClaimCalls
    /\ pc[c] = "case"
    /\ End(c, "failed")
    /\ UNCHANGED <<cites, parallel, payload, head, offloaded, ledger, orphans,
                   crashes, lasting>>

-----------------------------------------------------------------------------
MutOpenPayload(c) ==
    /\ Goto(c, "payload", "lock")
    /\ UNCHANGED <<cites, parallel, gate, lock, payload, head, offloaded,
                   ledger, orphans, crashes, lasting>>

(* write_payload: O_CREAT | O_EXCL creates the file, empty ...             *)
OpenPayload(c) ==
    /\ payload[c] = "absent"
    /\ Goto(c, "payload", "opened")
    /\ payload' = [payload EXCEPT ![c] = "partial"]
    /\ UNCHANGED <<cites, parallel, gate, lock, head, offloaded, ledger,
                   orphans, crashes, lasting>>

(* ... one os.write fills it, whose return value is not looked at, so on   *)
(* a full disk a short write passes for a complete one ...                 *)
WritePayload(c) ==
    /\ Goto(c, "opened", "written")
    /\ \/ payload' = [payload EXCEPT ![c] = "whole"]
       \/ "short" \in Faults /\ UNCHANGED payload
    /\ UNCHANGED <<cites, parallel, gate, lock, head, offloaded, ledger, orphans,
                   crashes, lasting>>

(* ... and the file and the directory it is in, not the directories above  *)
(* that may be new as well, are synced before the PayloadRef is returned.  *)
SyncPayload(c) ==
    /\ Goto(c, "written", "lock")
    /\ offloaded' = offloaded \cup {c}
    /\ UNCHANGED <<cites, parallel, gate, lock, payload, head, ledger, orphans,
                   crashes, lasting>>

(* sanitize refuses the size, a path segment is unsafe, the file cannot be *)
(* created, or the write, fchmod or a sync fails: the tool raises, and     *)
(* what was written stays, be it the whole payload.  Nothing is logged:    *)
(* write_payload is called before the `try`.                               *)
PayloadFails(c) ==
    /\ pc[c] \in {"payload", "opened", "written"}
    /\ End(c, "failed")
    /\ UNCHANGED <<cites, parallel, payload, head, offloaded, ledger, orphans,
                   crashes, lasting>>

MutTakeLock(c) ==
    /\ Goto(c, "lock", "locked")
    /\ UNCHANGED <<cites, parallel, gate, lock, payload, head, offloaded,
                   ledger, orphans, crashes, lasting>>

(* async with _ledger_write_lock.                                          *)
TakeLock(c) ==
    /\ lock = Free
    /\ Goto(c, "lock", "locked")
    /\ lock' = c
    /\ UNCHANGED <<cites, parallel, gate, payload, head, offloaded, ledger,
                   orphans, crashes, lasting>>

-----------------------------------------------------------------------------
(* append_entry, in a worker thread and under the lock.                    *)

MutReadHead(c) ==
    /\ Goto(c, "locked", "head")
    /\ head' = [head EXCEPT ![c] = LastLineHash(ledger)]
    /\ UNCHANGED <<cites, parallel, gate, lock, payload, offloaded, ledger,
                   orphans, crashes, lasting>>

(* prev_hash = _last_line_hash(path), which refuses a corrupt ledger.      *)
ReadHead(c) ==
    /\ ~Corrupt(ledger)
    /\ Goto(c, "locked", "head")
    /\ head' = [head EXCEPT ![c] = LastLineHash(ledger)]
    /\ UNCHANGED <<cites, parallel, gate, lock, payload, offloaded, ledger,
                   orphans, crashes, lasting>>

(* The entry is written to a temp file beside the ledger and synced.  No   *)
(* code reads a temp file that is left behind, so the model has none.      *)
WriteTemp(c) ==
    /\ Goto(c, "head", "temp")
    /\ UNCHANGED <<cites, parallel, gate, lock, payload, head, offloaded, ledger,
                   orphans, crashes, lasting>>

Entry(c, form) == [id |-> c, prev |-> head[c], form |-> form]

MutAppendLine(c) ==
    /\ Goto(c, "temp", "appended")
    /\ ledger' = <<Entry(c, "whole")>>
    /\ UNCHANGED <<cites, parallel, gate, lock, payload, head, offloaded,
                   orphans, crashes, lasting>>

MutShortAppend(c) ==
    /\ Goto(c, "temp", "appended")
    /\ ledger' \in {Append(ledger, Entry(c, f)) : f \in PartialForms \cup {"whole"}}
    /\ UNCHANGED <<cites, parallel, gate, lock, payload, head, offloaded,
                   orphans, crashes, lasting>>

(* The ledger is opened for append and the entry written to it.            *)
AppendLine(c) ==
    /\ Goto(c, "temp", "appended")
    /\ ledger' = Append(ledger, Entry(c, "whole"))
    /\ UNCHANGED <<cites, parallel, gate, lock, payload, head, offloaded,
                   orphans, crashes, lasting>>

SyncLine(c) ==
    /\ Goto(c, "appended", "synced")
    /\ UNCHANGED <<cites, parallel, gate, lock, payload, head, offloaded,
                   ledger, orphans, crashes, lasting>>

UnlinkTemp(c) ==
    /\ Goto(c, "synced", "committed")
    /\ UNCHANGED <<cites, parallel, gate, lock, payload, head, offloaded, ledger,
                   orphans, crashes, lasting>>

MutAppendFails(c) ==
    /\ \/ pc[c] \in {"locked", "head", "appended", "synced"} /\ UNCHANGED ledger
       \/ /\ pc[c] = "temp"
          /\ ledger' \in {ledger} \cup
                         {Append(ledger, Entry(c, f)) : f \in PartialForms}
    /\ End(c, "failed")
    /\ UNCHANGED <<cites, parallel, payload, head, offloaded, orphans,
                   crashes, lasting>>

(* Any step of append_entry may raise: a corrupt ledger, a full disk, an   *)
(* I/O error.  A write that fails half way leaves what it wrote; a failed  *)
(* fsync or unlink leaves the whole entry.  The tool logs the payload as   *)
(* an orphan and re-raises (AC-9).                                         *)
AppendFails(c) ==
    /\ \/ pc[c] \in {"locked", "head", "appended", "synced"} /\ UNCHANGED ledger
       \/ /\ pc[c] = "temp"
          /\ ledger' \in {ledger} \cup
                         {Append(ledger, Entry(c, f)) : f \in PartialForms}
    /\ End(c, "failed")
    /\ orphans' = orphans \cup {c}
    /\ UNCHANGED <<cites, parallel, payload, head, offloaded, crashes,
                   lasting>>

(* The lock is released, the summary built and returned.                   *)
Respond(c) ==
    /\ pc[c] = "committed"
    /\ End(c, "answered")
    /\ UNCHANGED <<cites, parallel, payload, head, offloaded, ledger, orphans,
                   crashes, lasting>>

-----------------------------------------------------------------------------
(* The client cancels the request.                                         *)
Cancel(c) ==
    /\ pc[c] \in Cancellable
    /\ End(c, "cancelled")
    /\ UNCHANGED <<cites, parallel, payload, head, offloaded, ledger, orphans,
                   crashes, lasting>>

(* The ledger a crash leaves, of the process or of the machine: an entry   *)
(* not yet synced may be missing, partial or whole.                        *)
Settled ==
    IF lock # Free /\ pc[lock] = "appended"
    THEN SubSeq(ledger, 1, Len(ledger) - 1)
    ELSE ledger

AfterCrash ==
    {Settled} \cup
    {Append(Settled, Entry(c, f)) :
        c \in {d \in Calls : lock = d /\ pc[d] \in {"temp", "appended"}},
        f \in PartialForms \cup {"whole"}}

(* What a crash of the machine leaves of a payload: itself, part of it if  *)
(* it was not synced yet, or no name.  The name may go although the file   *)
(* is synced, because write_payload does not sync the directories above.   *)
MayRemain(c, f) ==
    \/ f = payload[c]
    \/ f = "partial" /\ payload[c] = "whole" /\ c \notin offloaded
    \/ /\ f = "lost" /\ payload[c] # "absent" /\ c \notin kept
       /\ c \in offloaded => "nameless" \in Faults

(* The name of the ledger goes in the same way: no directory is synced     *)
(* when the file is created.                                               *)
LoseLedger ==
    /\ "nameless" \in Faults /\ ~rooted
    /\ ledger' = <<>>
    /\ erased' = erased \cup {ledger[i].id : i \in 1..Len(ledger)}
    /\ UNCHANGED rooted

MachineDies ==
    /\ payload' \in {p \in [Calls -> PayloadForms] : \A c \in Calls : MayRemain(c, p[c])}
    /\ kept' = {c \in Calls : payload'[c] \in {"partial", "whole"}}
    /\ \/ /\ ledger' \in AfterCrash
          /\ rooted' = (rooted \/ ledger' # <<>>)
          /\ UNCHANGED erased
       \/ LoseLedger

(* Dead without the machine, a process loses at most its unsynced entry.   *)
ProcessDies ==
    /\ ledger' \in AfterCrash
    /\ UNCHANGED <<payload, lasting>>

(* The server dies, alone or with the machine, and is started again.       *)
(* main() neither inspects the ledger nor removes what the last process    *)
(* left.                                                                   *)
Crash ==
    /\ crashes < MaxCrashes
    /\ crashes' = crashes + 1
    /\ pc' = [c \in Calls |-> IF pc[c] \in {"new"} \cup Ended
                              THEN pc[c] ELSE "lost"]
    /\ parallel' \in BOOLEAN
    /\ gate' = Free
    /\ lock' = Free
    /\ ProcessDies \/ MachineDies
    /\ UNCHANGED <<cites, head, offloaded, orphans>>

-----------------------------------------------------------------------------
Advance(c) ==
    \/ EnterGate(c)
    \/ ReadEvidence(c) \/ EvidenceRefused(c)
    \/ EvaluateClaim(c) \/ RefuseClaim(c)
    \/ OpenPayload(c) \/ WritePayload(c) \/ SyncPayload(c) \/ PayloadFails(c)
    \/ TakeLock(c)
    \/ ReadHead(c) \/ WriteTemp(c) \/ AppendLine(c) \/ SyncLine(c)
    \/ UnlinkTemp(c) \/ AppendFails(c)
    \/ Respond(c)

Next ==
    \/ \E c \in Calls : Arrive(c) \/ Advance(c) \/ Cancel(c)
    \/ Crash

Spec == Init /\ [][Next]_vars

(* The event loop runs every ready task, worker threads return, and the    *)
(* semaphore and the lock are FIFO.  Nothing forces a client to call, to   *)
(* cancel, or the server to crash.                                         *)
FairSpec == Spec /\ \A c \in Calls : WF_vars(Advance(c))

-----------------------------------------------------------------------------
(* What a correct audit trail asks of these interleavings.                 *)

(* Every entry is chained to the entry before it, whatever tasks were      *)
(* appending at once: verify_chain accepts the ledger.  Rests on the lock  *)
(* spanning the read of prev_hash and the append (server.py, ARCH-004).    *)
ChainLinked == Chained(ledger)

(* The tool body of at most one call runs at a time in serial mode, also   *)
(* after failures, cancellations and restarts (server.py, AC-5).           *)
SerialBodies ==
    ~parallel => \A c, d \in Calls :
                    pc[c] \in Working /\ pc[d] \in Working => c = d

(* Every entry of the ledger has its payload file, unless the machine died *)
(* after the entry's call had been served and before any crash of it had   *)
(* left the payload's new directories in place: no failure, cancellation   *)
(* or crash of the server alone makes a payload_ref dangle, and no payload *)
(* that is still being audited is missing (payload.py, write_payload).     *)
EntryHasPayload ==
    \A i \in 1..Len(ledger) :
        LET c == ledger[i].id IN
        /\ payload[c] # "absent"
        /\ payload[c] = "lost" => pc[c] \in Ended /\ c \notin kept /\ crashes > 0

(* A caller that was given a result finds a complete entry under its       *)
(* audit_id, now and ever after, unless the ledger's own name was lost.    *)
AnsweredCommitted ==
    \A c \in Calls :
        pc[c] = "answered" =>
            \/ \E i \in 1..Len(ledger) : ledger[i].id = c /\ ledger[i].form = "whole"
            \/ c \in erased

(* A finding in the ledger cites only evidence whose entries precede it,   *)
(* although the gate reads the ledger without the lock, and other calls    *)
(* append, fail and crash before the finding's own entry is written.       *)
ClaimsGrounded ==
    \A i \in 1..Len(ledger) :
        ledger[i].id \in ClaimCalls =>
            /\ cites[ledger[i].id] # {}
            /\ \A d \in cites[ledger[i].id] :
                /\ d \notin ClaimCalls
                /\ \E j \in 1..(i - 1) : ledger[j].id = d /\ ledger[j].form # "torn"

(* A tool that failed has logged its payload as an orphan exactly if       *)
(* write_payload returned, and one that has not logged it has no entry: so *)
(* a payload left by write_payload itself, whole if only a sync failed, is *)
(* never reported (server.py, AC-9).                                       *)
OrphanReported ==
    \A c \in Calls :
        pc[c] = "failed" =>
            /\ c \in orphans <=> c \in offloaded
            /\ c \notin orphans => \A i \in 1..Len(ledger) : ledger[i].id # c

(* Entry i is in the ledger for good: its writer is past the fsync.        *)
IsSettled(i) == pc[ledger[i].id] # "appended"

(* No step, a crash included, removes, alters or reorders an entry whose   *)
(* fsync returned: the ledger is only ever extended, or lost as a file.    *)
SettledForever ==
    [][\A i \in 1..Len(ledger) :
          IsSettled(i) => \/ i <= Len(ledger') /\ ledger'[i] = ledger[i]
                          \/ ledger' = <<>> /\ ledger[i].id \in erased']_vars

(* No entry is ever added to a ledger with a line that does not parse, so  *)
(* corruption stays where it happened (audit.py, _last_line_hash).         *)
CorruptFrozen == [][Corrupt(ledger) => Len(ledger') <= Len(ledger)]_vars

(* Every request ends, answered or refused: no failure or cancellation     *)
(* leaves the semaphore or the lock taken for ever.                        *)
EveryCallEnds == \A c \in Calls : pc[c] = "gate" ~> pc[c] \in Ended

-----------------------------------------------------------------------------
(* What the code's comments promise and its steps do not keep.             *)

(* audit.py, append_entry: no partial line, whatever crashes.              *)
NoPartialLine == \A i \in 1..Len(ledger) : ledger[i].form = "whole"

(* audit.py, _last_line_hash: a corrupt line is never extended, so a call  *)
(* that was answered can be cited.                                         *)
AnsweredCitable == \A c \in Calls : pc[c] = "answered" => CanRead(ledger, {c})

(* payload.py, write_payload: the file an entry refers to is the payload   *)
(* whose sha256 the entry records.                                         *)
EntryPayloadComplete ==
    \A i \in 1..Len(ledger) : payload[ledger[i].id] = "whole"

=============================================================================
