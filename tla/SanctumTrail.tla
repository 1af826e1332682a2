---------------------------- MODULE SanctumTrail ----------------------------
(***************************************************************************)
(* The server implements the audit trail.  An entry is recorded at the     *)
(* moment it is whole and synced, or has survived the crash or the error   *)
(* that ended its writer; everything else the server does is invisible.    *)
(***************************************************************************)
EXTENDS SanctumServer

(* The last entry does not count yet: it is partial, or not yet synced.    *)
LastUnsettled ==
    /\ ledger # <<>>
    /\ \/ ledger[Len(ledger)].form # "whole"
       \/ pc[ledger[Len(ledger)].id] = "appended"

Trail ==
    [i \in 1..(IF LastUnsettled THEN Len(ledger) - 1 ELSE Len(ledger)) |->
        ledger[i].id]

Status ==
    [c \in Calls |->
        IF pc[c] \in {"new", "answered"} THEN pc[c]
        ELSE IF pc[c] \in Ended THEN "refused" ELSE "open"]

A == INSTANCE AuditTrail WITH trail <- Trail, status <- Status

(* Every behaviour of the server is one of the audit trail: entries are    *)
(* recorded atomically, in one order, grounded, and before the answer.     *)
(* Holds unless a partial write can lose the newline alone, or a crash the *)
(* name of the ledger.                                                     *)
ImplementsTrail == A!ASpec

=============================================================================
