---------------------------- MODULE AuditLedger ----------------------------
(***************************************************************************)
(* The audit ledger file of src/sanctum/audit.py as its readers see it: a  *)
(* sequence of entries, each linked to its predecessor by prev_hash, and   *)
(* the walks the code makes over it.                                       *)
(*                                                                         *)
(* A line_hash is an HMAC over the entry, audit_id included, and every     *)
(* audit_id is a fresh uuid4, so the hash of an entry is abstracted to its *)
(* audit_id: prev is the audit_id of the entry this one was chained to.    *)
(* The bytes of an entry are abstracted to its form: "whole" (JSON and     *)
(* newline), "unterminated" (all of the JSON, the newline missing) or      *)
(* "torn" (a proper prefix of the JSON).  What is appended after an        *)
(* unterminated or torn entry continues the same physical line.            *)
(***************************************************************************)
EXTENDS Naturals, Sequences

CONSTANTS
    Calls,     \* tool calls, each named by the audit_id it mints
    Genesis    \* _GENESIS_PREV, the prev_hash of the first entry

ASSUME GenesisIsNoCall == Genesis \notin Calls

Forms == {"whole", "unterminated", "torn"}

Line == [id : Calls, prev : Calls \cup {Genesis}, form : Forms]

-----------------------------------------------------------------------------
(* json.loads of the physical line that holds entry i succeeds: the entry  *)
(* starts that line, ends it, and none of its JSON is missing.             *)
Parses(L, i) ==
    /\ i > 1 => L[i - 1].form = "whole"
    /\ \/ L[i].form = "whole"
       \/ L[i].form = "unterminated" /\ i = Len(L)

Corrupt(L) == \E i \in 1..Len(L) : ~Parses(L, i)

MutLastLineHash(L) == IF L = <<>> THEN Genesis ELSE L[1].id

(* _last_line_hash on a ledger it does not refuse.                         *)
LastLineHash(L) == IF L = <<>> THEN Genesis ELSE L[Len(L)].id

MutCanRead(L, wanted) == TRUE

(* _read_entries(path, wanted) returns an entry for every wanted id.  The  *)
(* scan stops as soon as the last one is found, so an unparsable line      *)
(* matters only before that point.                                         *)
CanRead(L, wanted) ==
    \A w \in wanted :
        \E i \in 1..Len(L) : L[i].id = w /\ \A j \in 1..i : Parses(L, j)

(* verify_chain's verdict on a ledger it can parse: every prev_hash is the *)
(* line_hash of the entry before it.                                       *)
Chained(L) ==
    \A i \in 1..Len(L) :
        L[i].prev = IF i = 1 THEN Genesis ELSE L[i - 1].id

=============================================================================
