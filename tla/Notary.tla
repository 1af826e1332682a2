------------------------------- MODULE Notary -------------------------------
(***************************************************************************)
(* The notary of src/sanctum/notary.py: it has an outside authority stamp  *)
(* the head of the audit ledger and archives request and reply beside it.  *)
(* Calls of stamp_head, and of its wrapper stamp_head_or_log that falls    *)
(* back instead of raising, run in processes of their own while the server *)
(* extends the ledger.  The archive names hold the time in whole seconds,  *)
(* so that two calls of one second write the same two files.               *)
(***************************************************************************)
EXTENDS AuditLedger

CONSTANTS
    Stampers,   \* the calls
    Wrapped,    \* those made through stamp_head_or_log
    None,       \* no file, no outcome, not yet read
    MaxTime     \* bound: seconds that pass

ASSUME StampersAssumption ==
    /\ Wrapped \subseteq Stampers
    /\ None \notin Stampers \cup Nat
    /\ MaxTime \in Nat

VARIABLES
    ledger,    \* the entries, as in AuditLedger
    clock,     \* the second it is
    pc,        \* where each call is
    first,     \* length of the ledger when the wrapper read the head
    head,      \* length of the ledger when stamp_head read the head
    tag,       \* the second in the archive names of the call
    granted,   \* the authority granted the request of this call
    replied,   \* what arrived of the authority: none, an error status, a body
    tsq,       \* <ledger>.tsq.<ts>: whose request it is, and for which head
    tsr,       \* <ledger>.tsr.<ts>: to which call and for which head
    outcome    \* what the call returned or raised

vars == <<ledger, clock, pc, first, head, tag, granted, replied, tsq, tsr,
          outcome>>

Times == 0..MaxTime

(* A head is named by the number of entries it closes: entries are never   *)
(* removed, and line hashes do not repeat.                                 *)
CurrentHead == Len(ledger)

Init ==
    /\ ledger = <<>>
    /\ clock = 0
    /\ pc = [s \in Stampers |-> "start"]
    /\ first = [s \in Stampers |-> None]
    /\ head = [s \in Stampers |-> None]
    /\ tag = [s \in Stampers |-> None]
    /\ granted = [s \in Stampers |-> FALSE]
    /\ replied = [s \in Stampers |-> "none"]
    /\ tsq = [t \in Times |-> None]
    /\ tsr = [t \in Times |-> None]
    /\ outcome = [s \in Stampers |-> None]

-----------------------------------------------------------------------------
(* The surroundings: the server appends an entry, or crashes within the    *)
(* write; time passes.                                                     *)

AppendEntry ==
    /\ ~Corrupt(ledger)
    /\ \E c \in Calls, form \in {"whole", "torn"} :
         /\ \A i \in 1..Len(ledger) : ledger[i].id # c
         /\ ledger' = Append(ledger, [id |-> c, prev |-> LastLineHash(ledger),
                                      form |-> form])
    /\ UNCHANGED <<clock, pc, first, head, tag, granted, replied, tsq, tsr,
                   outcome>>

Tick ==
    /\ clock < MaxTime
    /\ clock' = clock + 1
    /\ UNCHANGED <<ledger, pc, first, head, tag, granted, replied, tsq, tsr,
                   outcome>>

-----------------------------------------------------------------------------
(* The two calls.                                                          *)

At(s, here, there) == pc[s] = here /\ pc' = [pc EXCEPT ![s] = there]

Ends(s, here, result) ==
    /\ At(s, here, "done")
    /\ outcome' = [outcome EXCEPT ![s] = result]

MutFellBack(s, cause, reachable) ==
    [rung |-> 1, reachable |-> reachable, cause |-> cause, head |-> head[s]]

(* The wrapper's answer to a failure it knows, with the head it read.      *)
FellBack(s, cause, reachable) ==
    [rung |-> 1, reachable |-> reachable, cause |-> cause, head |-> first[s]]

Raised(cause) == [rung |-> 0, reachable |-> FALSE, cause |-> cause,
                  head |-> None]

Granted(s) == [rung |-> 2, reachable |-> TRUE, cause |-> None,
               head |-> head[s]]

Fails(s, here, cause, reachable) ==
    Ends(s, here, IF s \in Wrapped THEN FellBack(s, cause, reachable)
                                   ELSE Raised(cause))

(* An error the wrapper does not know either leaves both: a ledger that    *)
(* does not parse, a file that cannot be written, an openssl that fails.   *)
Escapes(s, here, cause) == Ends(s, here, Raised(cause))

(* stamp_head_or_log reads the head on its own account, before its try.    *)
ReadFirst(s) ==
    /\ s \in Wrapped
    /\ \/ /\ ~Corrupt(ledger)
          /\ At(s, "start", "which")
          /\ first' = [first EXCEPT ![s] = CurrentHead]
          /\ UNCHANGED outcome
       \/ /\ Corrupt(ledger)
          /\ Escapes(s, "start", "ledger")
          /\ UNCHANGED first
    /\ UNCHANGED <<ledger, clock, head, tag, granted, replied, tsq, tsr>>

(* shutil.which; the caller of stamp_head itself begins here.              *)
FindOpenssl(s) ==
    LET here == IF s \in Wrapped THEN "which" ELSE "start" IN
    /\ \/ At(s, here, "head") /\ UNCHANGED outcome
       \/ Fails(s, here, "openssl_missing", FALSE)
    /\ UNCHANGED <<ledger, clock, first, head, tag, granted, replied, tsq,
                   tsr>>

ReadHead(s) ==
    /\ \/ /\ ~Corrupt(ledger)
          /\ At(s, "head", "name")
          /\ head' = [head EXCEPT ![s] = CurrentHead]
          /\ UNCHANGED outcome
       \/ /\ Corrupt(ledger)
          /\ Escapes(s, "head", "ledger")
          /\ UNCHANGED head
    /\ UNCHANGED <<ledger, clock, first, tag, granted, replied, tsq, tsr>>

(* mkdir of the archive, and the names of the two files.                   *)
NameFiles(s) ==
    /\ \/ /\ At(s, "name", "query")
          /\ tag' = [tag EXCEPT ![s] = clock]
          /\ UNCHANGED outcome
       \/ Escapes(s, "name", "file") /\ UNCHANGED tag
    /\ UNCHANGED <<ledger, clock, first, head, granted, replied, tsq, tsr>>

MutWriteQuery(s) ==
    /\ At(s, "query", "post")
    /\ tsq' = [tsq EXCEPT ![tag[s]] = [call |-> s, head |-> CurrentHead]]
    /\ UNCHANGED <<ledger, clock, first, head, tag, granted, replied, tsr,
                   outcome>>

MutWriteFirst(s) ==
    /\ At(s, "query", "post")
    /\ tsq' = [tsq EXCEPT ![tag[s]] = [call |-> s, head |-> first[s]]]
    /\ UNCHANGED <<ledger, clock, first, head, tag, granted, replied, tsr,
                   outcome>>

(* _build_timestamp_query, and the request is archived.                    *)
WriteQuery(s) ==
    /\ \/ /\ At(s, "query", "post")
          /\ tsq' = [tsq EXCEPT ![tag[s]] = [call |-> s, head |-> head[s]]]
          /\ UNCHANGED outcome
       \/ Escapes(s, "query", "openssl") /\ UNCHANGED tsq
       \/ Escapes(s, "query", "file") /\ UNCHANGED tsq
    /\ UNCHANGED <<ledger, clock, first, head, tag, granted, replied, tsr>>

(* The request is posted.  A URLError is a failure the wrapper knows, and  *)
(* a reply with an error status is raised as one; a time-out while the     *)
(* reply is awaited or read is none.                                       *)
Post(s) ==
    /\ \/ /\ At(s, "post", "reply")
          /\ replied' = [replied EXCEPT ![s] = "body"]
          /\ \E g \in BOOLEAN : granted' = [granted EXCEPT ![s] = g]
          /\ UNCHANGED outcome
       \/ /\ Fails(s, "post", "network", FALSE)
          /\ \E got \in {"none", "http_error"} :
               replied' = [replied EXCEPT ![s] = got]
          /\ UNCHANGED granted
       \/ /\ Escapes(s, "post", "timeout")
          /\ UNCHANGED <<granted, replied>>
    /\ UNCHANGED <<ledger, clock, first, head, tag, tsq, tsr>>

WriteReply(s) ==
    /\ \/ /\ At(s, "reply", "parse")
          /\ tsr' = [tsr EXCEPT ![tag[s]] = [call |-> s, head |-> head[s],
                                             granted |-> granted[s]]]
          /\ UNCHANGED outcome
       \/ Escapes(s, "reply", "file") /\ UNCHANGED tsr
    /\ UNCHANGED <<ledger, clock, first, head, tag, granted, replied, tsq>>

MutParseReply(s) ==
    /\ Ends(s, "parse", Granted(s))
    /\ UNCHANGED <<ledger, clock, first, head, tag, granted, replied, tsq,
                   tsr>>

(* The status is that of the file, which need not be the reply of this     *)
(* call any more.                                                          *)
ParseReply(s) ==
    /\ pc[s] = "parse"
    /\ \/ tsr[tag[s]].granted /\ Ends(s, "parse", Granted(s))
       \/ /\ ~tsr[tag[s]].granted
          /\ Fails(s, "parse", "tsa_reject", TRUE)
       \/ Escapes(s, "parse", "openssl")
    /\ UNCHANGED <<ledger, clock, first, head, tag, granted, replied, tsq,
                   tsr>>

Stamp(s) ==
    \/ ReadFirst(s) \/ FindOpenssl(s) \/ ReadHead(s) \/ NameFiles(s)
    \/ WriteQuery(s) \/ Post(s) \/ WriteReply(s) \/ ParseReply(s)

Next == AppendEntry \/ Tick \/ \E s \in Stampers : Stamp(s)

Spec == Init /\ [][Next]_vars

-----------------------------------------------------------------------------
(* Properties.                                                             *)

Heads == Nat

Requests == [call : Stampers, head : Heads]

Replies == [call : Stampers, head : Heads, granted : BOOLEAN]

Outcomes == [rung : 0..2, reachable : BOOLEAN,
             cause : {None, "openssl_missing", "network", "tsa_reject",
                      "ledger", "file", "openssl", "timeout"},
             head : Heads \cup {None}]

ASSUME NoneAssumption ==
    /\ None \notin Requests
    /\ None \notin Replies
    /\ None \notin Outcomes
    /\ None \notin {"openssl_missing", "network", "tsa_reject", "ledger",
                     "file", "openssl", "timeout"}

(* The variables keep their shape.                                         *)
TypeOK ==
    /\ ledger \in Seq(Line)
    /\ clock \in Times
    /\ pc \in [Stampers -> {"start", "which", "head", "name", "query", "post",
                            "reply", "parse", "done"}]
    /\ first \in [Stampers -> Heads \cup {None}]
    /\ head \in [Stampers -> Heads \cup {None}]
    /\ tag \in [Stampers -> Times \cup {None}]
    /\ granted \in [Stampers -> BOOLEAN]
    /\ replied \in [Stampers -> {"none", "http_error", "body"}]
    /\ tsq \in [Times -> Requests \cup {None}]
    /\ tsr \in [Times -> Replies \cup {None}]
    /\ outcome \in [Stampers -> Outcomes \cup {None}]

(* No other call named its files in the second of this one.                *)
Alone(s) == \A t \in Stampers \ {s} : tag[t] = tag[s] => tag[s] = None

(* A stamp that is returned is on file: if no other call named its files   *)
(* in the same second, the archive holds the request and the granted reply *)
(* of this very call, both for the head it returns, whatever was appended  *)
(* or stamped meanwhile.                                                   *)
StampArchived ==
    \A s \in Stampers :
      (outcome[s] # None /\ outcome[s].rung = 2 /\ Alone(s)) =>
        /\ tsq[tag[s]] = [call |-> s, head |-> outcome[s].head]
        /\ tsr[tag[s]] = [call |-> s, head |-> outcome[s].head,
                          granted |-> TRUE]

(* A fallback pins a head: the head it reports is that of the ledger       *)
(* when the call began, never newer than the head of the request it sent,  *)
(* although the ledger is read twice and may grow in between.              *)
FallbackPinsHead ==
    \A s \in Stampers :
      (outcome[s] # None /\ outcome[s].rung = 1) =>
        /\ outcome[s].head \in 0..Len(ledger)
        /\ \A t \in Times :
             (tsq[t] # None /\ tsq[t].call = s) =>
               outcome[s].head <= tsq[t].head

(* What a call whose second is its own says of the authority is what       *)
(* happened between them: a stamp exactly if its own reply granted it, a   *)
(* rejection exactly if a reply came whose body granted nothing, a network *)
(* failure only if the request was sent and no such reply came, and a      *)
(* missing openssl only if nothing was sent.  An authority is reachable    *)
(* exactly if it sent a reply with a body to be read: one that answers     *)
(* with an error status is reported as unreachable.                        *)
OutcomeHonest ==
    \A s \in Stampers :
      (outcome[s] # None /\ outcome[s].rung # 0 /\ Alone(s)) =>
        /\ outcome[s].rung = 2 <=> granted[s]
        /\ outcome[s].reachable <=> replied[s] = "body"
        /\ outcome[s].cause = "tsa_reject" <=>
             replied[s] = "body" /\ ~granted[s]
        /\ outcome[s].cause = "network" =>
             tag[s] # None /\ tsq[tag[s]] # None /\ replied[s] # "body"
        /\ outcome[s].cause = "openssl_missing" =>
             tag[s] = None /\ replied[s] = "none"
        /\ replied[s] = "http_error" => outcome[s].cause = "network"

=============================================================================
