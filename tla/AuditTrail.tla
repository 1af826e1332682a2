----------------------------- MODULE AuditTrail -----------------------------
(***************************************************************************)
(* What the audited server promises its clients, without files, locks or   *)
(* threads: a trail that grows by one call at a time, in one atomic step   *)
(* and only by calls that are grounded in it, and an answer that is given  *)
(* only for a recorded call.                                               *)
(***************************************************************************)
EXTENDS Naturals, Sequences

CONSTANTS Calls, ClaimCalls

VARIABLES
    trail,     \* the recorded calls, oldest first
    status,    \* what became of each call
    cites      \* the calls a claim was given as its evidence

avars == <<trail, status, cites>>

Recorded == {trail[i] : i \in 1..Len(trail)}

AInit ==
    /\ trail = <<>>
    /\ status = [c \in Calls |-> "new"]
    /\ cites = [c \in Calls |-> {}]

Open(c) ==
    /\ status[c] = "new"
    /\ status' = [status EXCEPT ![c] = "open"]
    /\ cites' \in {[cites EXCEPT ![c] = S] : S \in SUBSET Calls}
    /\ UNCHANGED trail

(* c can be recorded: it is open and new to the trail, and a claim cites   *)
(* evidence that is recorded already.                                      *)
Recordable(c) ==
    /\ status[c] = "open"
    /\ c \notin Recorded
    /\ c \in ClaimCalls => cites[c] # {} /\ cites[c] \subseteq Recorded \ ClaimCalls

Record(c) ==
    /\ Recordable(c)
    /\ trail' = Append(trail, c)
    /\ UNCHANGED <<status, cites>>

Answer(c) ==
    /\ status[c] = "open"
    /\ c \in Recorded
    /\ status' = [status EXCEPT ![c] = "answered"]
    /\ UNCHANGED <<trail, cites>>

(* A refused call may have been recorded, in the same step at the latest.  *)
Refuse(c) ==
    /\ status[c] = "open"
    /\ status' = [status EXCEPT ![c] = "refused"]
    /\ trail' \in {trail} \cup {Append(trail, d) : d \in {e \in {c} : Recordable(e)}}
    /\ UNCHANGED cites

(* A restart refuses every open call; one of them may just be recorded.    *)
Restart ==
    /\ status' = [c \in Calls |-> IF status[c] = "open" THEN "refused" ELSE status[c]]
    /\ trail' \in {trail} \cup {Append(trail, d) : d \in {e \in Calls : Recordable(e)}}
    /\ UNCHANGED cites

ANext ==
    \/ \E c \in Calls : Open(c) \/ Record(c) \/ Answer(c) \/ Refuse(c)
    \/ Restart

ASpec == AInit /\ [][ANext]_avars

=============================================================================
