-------------------------- MODULE SanctumInvariant --------------------------
(***************************************************************************)
(* The inductive invariant of SanctumServer: how the control points of the *)
(* calls, the two holders, the ledger and the payload files hang together. *)
(***************************************************************************)
EXTENDS SanctumTrail

InLedger(L, c) == \E i \in 1..Len(L) : L[i].id = c

UniqueIds(L) ==
    \A i, j \in 1..Len(L) : L[i].id = L[j].id => i = j

(* The lock is held exactly by the call inside append_entry's region.      *)
LockHeld == \A c \in Calls : pc[c] \in Appending <=> lock = c

(* In serial mode a working call holds the semaphore.                      *)
GateHeld == ~parallel => \A c \in Calls : pc[c] \in Working => gate = c

(* The prev_hash in hand is still the head of a ledger that parses.        *)
HeadFresh ==
    \A c \in Calls :
        pc[c] \in {"head", "temp"} => head[c] = LastLineHash(ledger) /\ ~Corrupt(ledger)

(* A call is in the ledger at most once, and only after it has written.    *)
Written == {"appended", "synced", "committed", "answered", "failed", "lost"}

OncePerCall ==
    /\ UniqueIds(ledger)
    /\ \A i \in 1..Len(ledger) : pc[ledger[i].id] \in Written

(* The entry not yet synced is the last one.                               *)
LastIsUnsynced ==
    \A c \in Calls :
        pc[c] = "appended" =>
            Len(ledger) > 0 /\ ledger[Len(ledger)] = Entry(c, "whole")

(* A call past its append has its entry, complete, and an answered one may *)
(* have lost it with the ledger.                                           *)
AppendedCommitted ==
    \A c \in Calls :
        pc[c] \in {"appended", "synced", "committed", "answered"} =>
            \/ \E i \in 1..Len(ledger) : ledger[i].id = c /\ ledger[i].form = "whole"
            \/ pc[c] = "answered" /\ c \in erased

(* The payload file exists from the moment it is opened, and only a crash  *)
(* can take it from a call that it ends, or that has ended.                *)
PayloadOpened ==
    \A c \in Calls :
        /\ pc[c] \in {"opened", "written", "lock"} \cup Appending =>
              payload[c] \in {"partial", "whole"}
        /\ InLedger(ledger, c) => payload[c] # "absent"
        /\ payload[c] # "absent" => pc[c] # "new"
        /\ payload[c] = "lost" => pc[c] \in Ended /\ c \notin kept /\ crashes > 0

(* A claim past the gate cites evidence that is in the ledger.             *)
ClaimHeld ==
    \A c \in ClaimCalls :
        pc[c] \in {"payload", "opened", "written", "lock"} \cup Appending =>
            /\ cites[c] # {}
            /\ \A d \in cites[c] :
                /\ d \notin ClaimCalls
                /\ \E j \in 1..Len(ledger) : ledger[j].id = d /\ ledger[j].form # "torn"

(* The conjunction is inductive: each safety property of the runs follows  *)
(* from it, and every step of the server preserves it.                     *)
IInv ==
    /\ TypeOK
    /\ LockHeld
    /\ GateHeld
    /\ HeadFresh
    /\ OncePerCall
    /\ LastIsUnsynced
    /\ AppendedCommitted
    /\ PayloadOpened
    /\ ChainLinked
    /\ ClaimHeld
    /\ ClaimsGrounded

=============================================================================
