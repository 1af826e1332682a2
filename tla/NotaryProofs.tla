---------------------------- MODULE NotaryProofs ----------------------------
(***************************************************************************)
(* Proofs about Notary, for every number of calls, every ledger and every  *)
(* length of time.                                                         *)
(***************************************************************************)
EXTENDS Notary, SequenceTheorems, TLAPS

USE GenesisIsNoCall, StampersAssumption

-----------------------------------------------------------------------------
(* The inductive invariant.                                                *)

Unnamed == {"start", "which", "head", "name"}

Named == {"query", "post", "reply", "parse"}

(* The heads a call has read are prefixes of the ledger, in their order.   *)
HeadsOk(s) ==
    /\ head[s] # None => head[s] <= Len(ledger)
    /\ first[s] # None => first[s] <= Len(ledger)
    /\ (s \in Wrapped /\ pc[s] \notin {"start", "done"}) => first[s] # None
    /\ (s \in Wrapped /\ head[s] # None) =>
         first[s] # None /\ first[s] <= head[s]
    /\ pc[s] \in Named \cup {"name"} => head[s] # None

(* What a call knows at each of its points.                                *)
PointOk(s) ==
    /\ pc[s] = "done" <=> outcome[s] # None
    /\ pc[s] \in Unnamed => tag[s] = None
    /\ pc[s] \in Unnamed \ {"name"} => head[s] = None
    /\ pc[s] = "start" => first[s] = None
    /\ pc[s] \in Named => tag[s] # None
    /\ pc[s] \in Unnamed \cup {"query", "post"} => ~granted[s]
    /\ pc[s] \in Unnamed \cup {"query", "post"} => replied[s] = "none"
    /\ pc[s] \in {"reply", "parse"} => replied[s] = "body"
    /\ pc[s] \in {"post", "reply", "parse"} => tsq[tag[s]] # None
    /\ pc[s] = "parse" => tsr[tag[s]] # None

(* Another call has named its files in the second of s.                    *)
Shared(s) == tag[s] # None /\ ~Alone(s)

(* Why a call fell back.                                                   *)
CauseOk(s) ==
    \/ /\ outcome[s].cause = "openssl_missing"
       /\ outcome[s].reachable = FALSE
       /\ tag[s] = None
       /\ replied[s] = "none"
    \/ /\ outcome[s].cause = "network"
       /\ outcome[s].reachable = FALSE
       /\ tag[s] # None
       /\ tsq[tag[s]] # None
       /\ replied[s] \in {"none", "http_error"}
    \/ /\ outcome[s].cause = "tsa_reject"
       /\ outcome[s].reachable = TRUE
       /\ tag[s] # None
       /\ replied[s] = "body"

(* What an outcome says of the call.                                       *)
OutcomeOk(s) ==
    outcome[s] # None =>
      /\ outcome[s].rung = 2 =>
           /\ tag[s] # None
           /\ head[s] # None
           /\ outcome[s].head = head[s]
           /\ outcome[s].reachable = TRUE
           /\ outcome[s].cause = None
           /\ replied[s] = "body"
           /\ tsq[tag[s]] # None
           /\ tsr[tag[s]] # None
           /\ granted[s] \/ Shared(s)
      /\ outcome[s].rung = 1 =>
           /\ s \in Wrapped
           /\ first[s] # None
           /\ outcome[s].head = first[s]
           /\ ~granted[s] \/ Shared(s)
           /\ CauseOk(s)

CallOk(s) == HeadsOk(s) /\ PointOk(s) /\ OutcomeOk(s)

(* A file holds what the call it names has sent or received.               *)
QueryOk(t) ==
    tsq[t] # None =>
      /\ tag[tsq[t].call] = t
      /\ head[tsq[t].call] # None
      /\ tsq[t].head = head[tsq[t].call]

ReplyOk(t) ==
    tsr[t] # None =>
      /\ tag[tsr[t].call] = t
      /\ tsr[t].head = head[tsr[t].call]
      /\ tsr[t].granted = granted[tsr[t].call]
      /\ replied[tsr[t].call] = "body"

FilesOk == \A t \in Times : QueryOk(t) /\ ReplyOk(t)

IInv == TypeOK /\ (\A s \in Stampers : CallOk(s)) /\ FilesOk

-----------------------------------------------------------------------------
(* Types.                                                                  *)

LEMMA LedgerGrows ==
    ASSUME TypeOK, AppendEntry
    PROVE  ledger' \in Seq(Line) /\ Len(ledger') = Len(ledger) + 1
  <1>1. PICK c \in Calls, form \in {"whole", "torn"} :
          ledger' = Append(ledger, [id |-> c, prev |-> LastLineHash(ledger),
                                    form |-> form])
    BY DEF AppendEntry
  <1>2. LastLineHash(ledger) \in Calls \cup {Genesis}
    <2>1. CASE ledger = <<>>
      BY <2>1 DEF LastLineHash
    <2>2. CASE ledger # <<>>
      <3>1. ledger[Len(ledger)] \in Line
        BY <2>2 DEF TypeOK
      <3> QED
        BY <2>2, <3>1 DEF LastLineHash, Line
    <2> QED
      BY <2>1, <2>2
  <1>3. [id |-> c, prev |-> LastLineHash(ledger), form |-> form] \in Line
    BY <1>2 DEF Line, Forms
  <1> QED
    BY <1>1, <1>3 DEF TypeOK

LEMMA OutcomeTypes ==
    ASSUME TypeOK, NEW s \in Stampers
    PROVE  /\ \A cause \in {"openssl_missing", "network", "tsa_reject",
                            "ledger", "file", "openssl", "timeout"} :
                /\ Raised(cause) \in Outcomes
                /\ \A reachable \in BOOLEAN :
                     FellBack(s, cause, reachable) \in Outcomes
           /\ Granted(s) \in Outcomes
           /\ CurrentHead \in Heads
  BY DEF TypeOK, Raised, FellBack, Granted, Outcomes, Heads, CurrentHead

(* How a call ends, by itself or by the wrapper, has the type of outcomes. *)
LEMMA EndsType ==
    ASSUME TypeOK, NEW s \in Stampers, NEW here, NEW result \in Outcomes,
           Ends(s, here, result)
    PROVE  /\ pc' = [pc EXCEPT ![s] = "done"]
           /\ outcome' = [outcome EXCEPT ![s] = result]
           /\ pc' \in [Stampers -> Unnamed \cup Named \cup {"done"}]
           /\ outcome' \in [Stampers -> Outcomes \cup {None}]
  BY DEF TypeOK, Ends, At, Unnamed, Named

(* The two ways out of a step that fails.                                  *)
LEMMA FailureTypes ==
    ASSUME TypeOK, NEW s \in Stampers, NEW here,
           NEW cause \in {"openssl_missing", "network", "tsa_reject",
                          "ledger", "file", "openssl", "timeout"},
           NEW reachable \in BOOLEAN,
           Fails(s, here, cause, reachable) \/ Escapes(s, here, cause)
    PROVE  /\ pc' = [pc EXCEPT ![s] = "done"]
           /\ pc' \in [Stampers -> Unnamed \cup Named \cup {"done"}]
           /\ outcome' \in [Stampers -> Outcomes \cup {None}]
  <1>1. PICK result \in Outcomes : Ends(s, here, result)
    BY OutcomeTypes DEF Fails, Escapes
  <1> QED
    BY <1>1, EndsType

LEMMA PointTypes ==
    ASSUME IInv, NEW s \in Stampers, pc[s] \in Named
    PROVE  /\ tag[s] \in Times
           /\ head[s] \in Heads
           /\ [call |-> s, head |-> head[s]] \in Requests
           /\ [call |-> s, head |-> head[s], granted |-> granted[s]]
                \in Replies
  <1>1. tag[s] \in Times /\ head[s] \in Heads
    BY DEF IInv, TypeOK, CallOk, HeadsOk, PointOk
  <1>2. granted[s] \in BOOLEAN
    BY DEF IInv, TypeOK
  <1> QED
    BY <1>1, <1>2 DEF Requests, Replies

LEMMA TypeStep ==
    ASSUME IInv, [Next]_vars
    PROVE  TypeOK'
  <1> USE DEF Unnamed, Named
  <1>0. TypeOK
    BY DEF IInv
  <1>1. CASE UNCHANGED vars
    BY <1>0, <1>1 DEF TypeOK, vars
  <1>2. CASE AppendEntry
    BY <1>0, <1>2, LedgerGrows DEF TypeOK, AppendEntry
  <1>3. CASE Tick
    BY <1>0, <1>3 DEF TypeOK, Tick, Times
  <1>4. ASSUME NEW s \in Stampers, Stamp(s)
        PROVE  TypeOK'
    <2>0. Heads = Nat
      BY DEF Heads
    <2>1. CASE ReadFirst(s)
      BY <1>0, <2>1, OutcomeTypes, FailureTypes DEF TypeOK, ReadFirst, At
    <2>2. CASE FindOpenssl(s)
      <3>1. CASE Fails(s, IF s \in Wrapped THEN "which" ELSE "start",
                       "openssl_missing", FALSE)
        BY <1>0, <2>2, <3>1, FailureTypes DEF TypeOK, FindOpenssl
      <3>2. CASE At(s, IF s \in Wrapped THEN "which" ELSE "start", "head")
                 /\ UNCHANGED outcome
        BY <1>0, <2>2, <3>2 DEF TypeOK, FindOpenssl, At
      <3> QED
        BY <2>2, <3>1, <3>2 DEF FindOpenssl
    <2>3. CASE ReadHead(s)
      BY <1>0, <2>3, OutcomeTypes, FailureTypes DEF TypeOK, ReadHead, At
    <2>4. CASE NameFiles(s)
      BY <1>0, <2>4, OutcomeTypes, FailureTypes DEF TypeOK, NameFiles, At
    <2>5. CASE WriteQuery(s)
      <3>1. CASE At(s, "query", "post")
                 /\ tsq' = [tsq EXCEPT ![tag[s]] = [call |-> s,
                                                    head |-> head[s]]]
                 /\ UNCHANGED outcome
        <4>1. tsq' \in [Times -> Requests \cup {None}]
          BY <1>0, <3>1, PointTypes DEF TypeOK, At
        <4> QED
          BY <1>0, <2>5, <3>1, <4>1 DEF TypeOK, WriteQuery, At
      <3>2. CASE (Escapes(s, "query", "openssl")
                  \/ Escapes(s, "query", "file")) /\ UNCHANGED tsq
        BY <1>0, <2>5, <3>2, FailureTypes DEF TypeOK, WriteQuery
      <3> QED
        BY <2>5, <3>1, <3>2 DEF WriteQuery
    <2>6. CASE Post(s)
      <3>1. CASE /\ At(s, "post", "reply")
                 /\ replied' = [replied EXCEPT ![s] = "body"]
                 /\ \E g \in BOOLEAN : granted' = [granted EXCEPT ![s] = g]
                 /\ UNCHANGED outcome
        <4>1. granted' \in [Stampers -> BOOLEAN]
              /\ replied' \in [Stampers -> {"none", "http_error", "body"}]
          BY <1>0, <3>1 DEF TypeOK
        <4> QED
          BY <1>0, <2>6, <3>1, <4>1 DEF TypeOK, Post, At
      <3>2. CASE /\ Fails(s, "post", "network", FALSE)
                 /\ \E got \in {"none", "http_error"} :
                      replied' = [replied EXCEPT ![s] = got]
                 /\ UNCHANGED granted
        <4>1. replied' \in [Stampers -> {"none", "http_error", "body"}]
          BY <1>0, <3>2 DEF TypeOK
        <4>2. /\ pc' \in [Stampers -> Unnamed \cup Named \cup {"done"}]
              /\ outcome' \in [Stampers -> Outcomes \cup {None}]
          BY <1>0, <3>2, FailureTypes
        <4> QED
          BY <1>0, <2>6, <3>2, <4>1, <4>2 DEF TypeOK, Post
      <3>3. CASE /\ Escapes(s, "post", "timeout")
                 /\ UNCHANGED <<granted, replied>>
        BY <1>0, <2>6, <3>3, FailureTypes DEF TypeOK, Post
      <3> QED
        BY <2>6, <3>1, <3>2, <3>3 DEF Post
    <2>7. CASE WriteReply(s)
      <3>1. CASE At(s, "reply", "parse")
                 /\ tsr' = [tsr EXCEPT ![tag[s]] =
                              [call |-> s, head |-> head[s],
                               granted |-> granted[s]]]
                 /\ UNCHANGED outcome
        <4>1. tsr' \in [Times -> Replies \cup {None}]
          BY <1>0, <3>1, PointTypes DEF TypeOK, At
        <4> QED
          BY <1>0, <2>7, <3>1, <4>1 DEF TypeOK, WriteReply, At
      <3>2. CASE Escapes(s, "reply", "file") /\ UNCHANGED tsr
        BY <1>0, <2>7, <3>2, FailureTypes DEF TypeOK, WriteReply
      <3> QED
        BY <2>7, <3>1, <3>2 DEF WriteReply
    <2>8. CASE ParseReply(s)
      <3>1. CASE Ends(s, "parse", Granted(s))
        BY <1>0, <2>8, <3>1, OutcomeTypes, EndsType DEF TypeOK, ParseReply
      <3>2. CASE Fails(s, "parse", "tsa_reject", TRUE)
                 \/ Escapes(s, "parse", "openssl")
        BY <1>0, <2>8, <3>2, FailureTypes DEF TypeOK, ParseReply
      <3> QED
        BY <2>8, <3>1, <3>2 DEF ParseReply
    <2> QED
      BY <1>4, <2>1, <2>2, <2>3, <2>4, <2>5, <2>6, <2>7, <2>8 DEF Stamp
  <1> QED
    BY <1>1, <1>2, <1>3, <1>4 DEF Next

-----------------------------------------------------------------------------
(* What one step of a call may touch.                                      *)

(* A step of one call leaves what the others have read, named, got and     *)
(* answered, and the ledger.                                               *)
LEMMA OwnStep ==
    ASSUME TypeOK, NEW s \in Stampers, Stamp(s), NEW u \in Stampers \ {s}
    PROVE  /\ pc'[u] = pc[u]
           /\ first'[u] = first[u]
           /\ head'[u] = head[u]
           /\ tag'[u] = tag[u]
           /\ granted'[u] = granted[u]
           /\ replied'[u] = replied[u]
           /\ outcome'[u] = outcome[u]
           /\ ledger' = ledger
  <1> USE DEF TypeOK, At, Ends, Fails, Escapes
  <1>1. CASE ReadFirst(s)      BY <1>1 DEF ReadFirst
  <1>2. CASE FindOpenssl(s)    BY <1>2 DEF FindOpenssl
  <1>3. CASE ReadHead(s)       BY <1>3 DEF ReadHead
  <1>4. CASE NameFiles(s)      BY <1>4 DEF NameFiles
  <1>5. CASE WriteQuery(s)     BY <1>5 DEF WriteQuery
  <1>6. CASE Post(s)           BY <1>6 DEF Post
  <1>7. CASE WriteReply(s)     BY <1>7 DEF WriteReply
  <1>8. CASE ParseReply(s)     BY <1>8 DEF ParseReply
  <1> QED
    BY <1>1, <1>2, <1>3, <1>4, <1>5, <1>6, <1>7, <1>8 DEF Stamp

(* What a call has read or named it keeps.                                 *)
LEMMA Kept ==
    ASSUME IInv, NEW s \in Stampers, Stamp(s)
    PROVE  /\ tag[s] # None => tag'[s] = tag[s]
           /\ head[s] # None => head'[s] = head[s]
           /\ replied[s] = "body" =>
                replied'[s] = "body" /\ granted'[s] = granted[s]
  <1>0. TypeOK /\ PointOk(s)
    BY DEF IInv, CallOk
  <1> USE <1>0 DEF TypeOK, PointOk, At, Ends, Fails, Escapes, Unnamed
  <1>1. CASE ReadFirst(s)      BY <1>1 DEF ReadFirst
  <1>2. CASE FindOpenssl(s)    BY <1>2 DEF FindOpenssl
  <1>3. CASE ReadHead(s)       BY <1>3 DEF ReadHead
  <1>4. CASE NameFiles(s)      BY <1>4 DEF NameFiles
  <1>5. CASE WriteQuery(s)     BY <1>5 DEF WriteQuery
  <1>6. CASE Post(s)           BY <1>6 DEF Post
  <1>7. CASE WriteReply(s)     BY <1>7 DEF WriteReply
  <1>8. CASE ParseReply(s)     BY <1>8 DEF ParseReply
  <1> QED
    BY <1>1, <1>2, <1>3, <1>4, <1>5, <1>6, <1>7, <1>8 DEF Stamp

(* A file changes only when a call writes it, to what this call sends or   *)
(* has received.                                                           *)
LEMMA FileSteps ==
    ASSUME IInv, NEW s \in Stampers, Stamp(s), NEW t \in Times
    PROVE  /\ \/ tsq'[t] = tsq[t]
              \/ /\ pc[s] = "query"
                 /\ t = tag[s]
                 /\ tsq'[t] = [call |-> s, head |-> head[s]]
           /\ \/ tsr'[t] = tsr[t]
              \/ /\ pc[s] = "reply"
                 /\ t = tag[s]
                 /\ tsr'[t] = [call |-> s, head |-> head[s],
                               granted |-> granted[s]]
  <1>0. TypeOK
    BY DEF IInv
  <1> USE <1>0 DEF TypeOK, At
  <1>1. CASE ReadFirst(s)      BY <1>1 DEF ReadFirst
  <1>2. CASE FindOpenssl(s)    BY <1>2 DEF FindOpenssl
  <1>3. CASE ReadHead(s)       BY <1>3 DEF ReadHead
  <1>4. CASE NameFiles(s)      BY <1>4 DEF NameFiles
  <1>5. CASE WriteQuery(s)     BY <1>5 DEF WriteQuery
  <1>6. CASE Post(s)           BY <1>6 DEF Post
  <1>7. CASE WriteReply(s)     BY <1>7 DEF WriteReply
  <1>8. CASE ParseReply(s)     BY <1>8 DEF ParseReply
  <1> QED
    BY <1>1, <1>2, <1>3, <1>4, <1>5, <1>6, <1>7, <1>8 DEF Stamp

(* A file once written stays.                                              *)
LEMMA FilesStay ==
    ASSUME IInv, NEW s \in Stampers, Stamp(s), NEW t \in Times
    PROVE  /\ tsq[t] # None => tsq'[t] # None
           /\ tsr[t] # None => tsr'[t] # None
  <1>1. pc[s] \in Named =>
          /\ [call |-> s, head |-> head[s]] # None
          /\ [call |-> s, head |-> head[s], granted |-> granted[s]] # None
    BY PointTypes, NoneAssumption
  <1> QED
    BY <1>1, FileSteps DEF Named

(* Calls that share a second keep sharing it.                              *)
LEMMA SharedStays ==
    ASSUME IInv, NEW s \in Stampers, Stamp(s), NEW u \in Stampers, Shared(u)
    PROVE  Shared(u)'
  <1>1. \A v \in Stampers : tag[v] # None => tag'[v] = tag[v]
    BY OwnStep, Kept DEF IInv
  <1> QED
    BY <1>1 DEF Shared, Alone

-----------------------------------------------------------------------------
(* The calls that do not move.                                             *)

LEMMA OthersStep ==
    ASSUME IInv, NEW s \in Stampers, Stamp(s), NEW u \in Stampers \ {s}
    PROVE  CallOk(u)'
  <1>0. TypeOK /\ HeadsOk(u) /\ PointOk(u) /\ OutcomeOk(u)
    BY DEF IInv, CallOk
  <1>1. /\ pc'[u] = pc[u]
        /\ first'[u] = first[u]
        /\ head'[u] = head[u]
        /\ tag'[u] = tag[u]
        /\ granted'[u] = granted[u]
        /\ replied'[u] = replied[u]
        /\ outcome'[u] = outcome[u]
        /\ ledger' = ledger
    BY <1>0, OwnStep
  <1>2. tag[u] # None =>
          /\ tsq[tag[u]] # None => tsq'[tag'[u]] # None
          /\ tsr[tag[u]] # None => tsr'[tag'[u]] # None
    BY <1>0, <1>1, FilesStay DEF TypeOK
  <1>3. HeadsOk(u)'
    BY <1>0, <1>1 DEF HeadsOk
  <1>4. PointOk(u)'
    BY <1>0, <1>1, <1>2 DEF PointOk, Named
  <1>5. OutcomeOk(u)'
    <2>1. CauseOk(u) => CauseOk(u)'
      BY <1>1, <1>2 DEF CauseOk
    <2> QED
      BY <1>0, <1>1, <1>2, <2>1, SharedStays DEF OutcomeOk
  <1> QED
    BY <1>3, <1>4, <1>5 DEF CallOk

-----------------------------------------------------------------------------
(* The files.                                                              *)

LEMMA FilesStep ==
    ASSUME IInv, NEW s \in Stampers, Stamp(s)
    PROVE  FilesOk'
  <1> SUFFICES ASSUME NEW t \in Times
               PROVE  QueryOk(t)' /\ ReplyOk(t)'
    BY DEF FilesOk, Times
  <1>0. TypeOK /\ QueryOk(t) /\ ReplyOk(t)
    BY DEF IInv, FilesOk
  <1>1. \A u \in Stampers :
          /\ tag[u] # None => tag'[u] = tag[u]
          /\ head[u] # None => head'[u] = head[u]
          /\ replied[u] = "body" =>
               replied'[u] = "body" /\ granted'[u] = granted[u]
    BY <1>0, OwnStep, Kept
  <1>2. t # None
    BY DEF Times
  <1>3. QueryOk(t)'
    <2>1. CASE tsq'[t] = tsq[t]
      <3>1. tsq[t] # None => tsq[t].call \in Stampers
        BY <1>0 DEF TypeOK, Requests
      <3> QED
        BY <1>0, <1>1, <1>2, <2>1, <3>1 DEF QueryOk
    <2>2. CASE /\ pc[s] = "query"
               /\ t = tag[s]
               /\ tsq'[t] = [call |-> s, head |-> head[s]]
      <3>1. head[s] # None
        BY <2>2, PointTypes DEF Named, Heads
      <3> QED
        BY <1>1, <1>2, <2>2, <3>1 DEF QueryOk
    <2> QED
      BY <2>1, <2>2, FileSteps
  <1>4. ReplyOk(t)'
    <2>1. CASE tsr'[t] = tsr[t]
      <3>1. tsr[t] # None => tsr[t].call \in Stampers
                             /\ tsr[t].head # None
        BY <1>0 DEF TypeOK, Replies, Heads
      <3> QED
        BY <1>0, <1>1, <1>2, <2>1, <3>1 DEF ReplyOk
    <2>2. CASE /\ pc[s] = "reply"
               /\ t = tag[s]
               /\ tsr'[t] = [call |-> s, head |-> head[s],
                             granted |-> granted[s]]
      <3>1. head[s] # None
        BY <2>2, PointTypes DEF Named, Heads
      <3>2. replied[s] = "body"
        BY <2>2 DEF IInv, CallOk, PointOk
      <3> QED
        BY <1>1, <1>2, <2>2, <3>1, <3>2 DEF ReplyOk
    <2> QED
      BY <2>1, <2>2, FileSteps
  <1> QED
    BY <1>3, <1>4

-----------------------------------------------------------------------------
(* The call that moves.                                                    *)

(* How a call that fails or escapes leaves.                                *)
LEMMA Leaves ==
    ASSUME TypeOK, NEW s \in Stampers, NEW here,
           NEW cause \in {"openssl_missing", "network", "tsa_reject",
                          "ledger", "file", "openssl", "timeout"},
           NEW reachable \in BOOLEAN,
           Fails(s, here, cause, reachable) \/ Escapes(s, here, cause)
    PROVE  /\ pc[s] = here
           /\ pc'[s] = "done"
           /\ outcome'[s] # None
           /\ outcome'[s].rung # 2
           /\ outcome'[s].rung = 1 =>
                /\ s \in Wrapped
                /\ outcome'[s].head = first[s]
                /\ outcome'[s].reachable = reachable
                /\ outcome'[s].cause = cause
                /\ Fails(s, here, cause, reachable)
  <1>1. CASE Fails(s, here, cause, reachable) /\ s \in Wrapped
    <2>1. outcome'[s] = FellBack(s, cause, reachable)
      BY <1>1 DEF TypeOK, Fails, Ends
    <2>2. FellBack(s, cause, reachable) # None
      BY OutcomeTypes, NoneAssumption
    <2> QED
      BY <1>1, <2>1, <2>2 DEF TypeOK, Fails, Ends, At, FellBack
  <1>2. CASE \/ Fails(s, here, cause, reachable) /\ s \notin Wrapped
             \/ Escapes(s, here, cause)
    <2>1. outcome'[s] = Raised(cause)
      BY <1>2 DEF TypeOK, Fails, Escapes, Ends
    <2>2. Raised(cause) # None
      BY OutcomeTypes, NoneAssumption
    <2> QED
      BY <1>2, <2>1, <2>2 DEF TypeOK, Fails, Escapes, Ends, At, Raised
  <1> QED
    BY <1>1, <1>2

LEMMA MoverReadFirst ==
    ASSUME IInv, NEW s \in Stampers, ReadFirst(s)
    PROVE  CallOk(s)'
  <1>0. TypeOK /\ HeadsOk(s) /\ PointOk(s) /\ OutcomeOk(s)
    BY DEF IInv, CallOk
  <1> USE DEF TypeOK, CallOk, HeadsOk, PointOk, OutcomeOk, Unnamed, Named
  <1>1. CASE At(s, "start", "which")
             /\ first' = [first EXCEPT ![s] = CurrentHead]
             /\ UNCHANGED outcome
    BY <1>0, <1>1 DEF ReadFirst, At, CurrentHead
  <1>2. CASE Escapes(s, "start", "ledger") /\ UNCHANGED first
    BY <1>0, <1>2, Leaves DEF ReadFirst
  <1> QED
    BY <1>1, <1>2 DEF ReadFirst

LEMMA MoverFindOpenssl ==
    ASSUME IInv, NEW s \in Stampers, FindOpenssl(s)
    PROVE  CallOk(s)'
  <1>0. TypeOK /\ HeadsOk(s) /\ PointOk(s) /\ OutcomeOk(s)
    BY DEF IInv, CallOk
  <1> DEFINE here == IF s \in Wrapped THEN "which" ELSE "start"
  <1> USE DEF TypeOK, CallOk, HeadsOk, PointOk, OutcomeOk, Unnamed, Named
  <1>1. CASE At(s, here, "head") /\ UNCHANGED outcome
    BY <1>0, <1>1 DEF FindOpenssl, At
  <1>2. CASE Fails(s, here, "openssl_missing", FALSE)
    <2>1. /\ pc[s] \in {"start", "which"}
          /\ pc[s] = "start" => s \notin Wrapped
          /\ pc'[s] = "done"
          /\ outcome'[s] # None
          /\ outcome'[s].rung # 2
          /\ outcome'[s].rung = 1 =>
               /\ s \in Wrapped
               /\ outcome'[s].head = first[s]
               /\ outcome'[s].reachable = FALSE
               /\ outcome'[s].cause = "openssl_missing"
      <3>1. here \in {"start", "which"} /\ (here = "start" => s \notin Wrapped)
        OBVIOUS
      <3> HIDE DEF here
      <3> QED
        BY <1>0, <1>2, <3>1, Leaves
    <2> QED
      <3>1. outcome'[s].rung = 1 => CauseOk(s)'
        BY <1>0, <2>1 DEF FindOpenssl, CauseOk
      <3> QED
        BY <1>0, <2>1, <3>1 DEF FindOpenssl
  <1> QED
    BY <1>1, <1>2 DEF FindOpenssl

LEMMA MoverReadHead ==
    ASSUME IInv, NEW s \in Stampers, ReadHead(s)
    PROVE  CallOk(s)'
  <1>0. TypeOK /\ HeadsOk(s) /\ PointOk(s) /\ OutcomeOk(s)
    BY DEF IInv, CallOk
  <1> USE DEF TypeOK, CallOk, HeadsOk, PointOk, OutcomeOk, Unnamed, Named
  <1>1. CASE At(s, "head", "name")
             /\ head' = [head EXCEPT ![s] = CurrentHead]
             /\ UNCHANGED outcome
    BY <1>0, <1>1 DEF ReadHead, At, CurrentHead
  <1>2. CASE Escapes(s, "head", "ledger") /\ UNCHANGED head
    BY <1>0, <1>2, Leaves DEF ReadHead
  <1> QED
    BY <1>1, <1>2 DEF ReadHead

LEMMA MoverNameFiles ==
    ASSUME IInv, NEW s \in Stampers, NameFiles(s)
    PROVE  CallOk(s)'
  <1>0. TypeOK /\ HeadsOk(s) /\ PointOk(s) /\ OutcomeOk(s)
    BY DEF IInv, CallOk
  <1> USE DEF TypeOK, CallOk, HeadsOk, PointOk, OutcomeOk, Unnamed, Named
  <1>1. CASE At(s, "name", "query") /\ tag' = [tag EXCEPT ![s] = clock]
             /\ UNCHANGED outcome
    BY <1>0, <1>1 DEF NameFiles, At, Times
  <1>2. CASE Escapes(s, "name", "file") /\ UNCHANGED tag
    BY <1>0, <1>2, Leaves DEF NameFiles
  <1> QED
    BY <1>1, <1>2 DEF NameFiles

LEMMA MoverWriteQuery ==
    ASSUME IInv, NEW s \in Stampers, WriteQuery(s)
    PROVE  CallOk(s)'
  <1>0. TypeOK /\ HeadsOk(s) /\ PointOk(s) /\ OutcomeOk(s)
    BY DEF IInv, CallOk
  <1> USE DEF TypeOK, CallOk, HeadsOk, PointOk, OutcomeOk, Unnamed, Named
  <1>1. CASE At(s, "query", "post")
             /\ tsq' = [tsq EXCEPT ![tag[s]] = [call |-> s,
                                                head |-> head[s]]]
             /\ UNCHANGED outcome
    <2>1. tsq'[tag'[s]] # None
      <3>1. tag' = tag /\ tag[s] \in Times
        BY <1>1, PointTypes DEF WriteQuery, At
      <3>2. [call |-> s, head |-> head[s]] # None
        BY <1>1, PointTypes, NoneAssumption DEF At
      <3> QED
        BY <1>0, <1>1, <3>1, <3>2
    <2> QED
      BY <1>0, <1>1, <2>1 DEF WriteQuery, At
  <1>2. CASE (Escapes(s, "query", "openssl")
              \/ Escapes(s, "query", "file")) /\ UNCHANGED tsq
    BY <1>0, <1>2, Leaves DEF WriteQuery
  <1> QED
    BY <1>1, <1>2 DEF WriteQuery

LEMMA MoverPost ==
    ASSUME IInv, NEW s \in Stampers, Post(s)
    PROVE  CallOk(s)'
  <1>0. TypeOK /\ HeadsOk(s) /\ PointOk(s) /\ OutcomeOk(s)
    BY DEF IInv, CallOk
  <1> USE DEF TypeOK, CallOk, HeadsOk, PointOk, OutcomeOk, Unnamed, Named
  <1>1. CASE /\ At(s, "post", "reply")
             /\ replied' = [replied EXCEPT ![s] = "body"]
             /\ UNCHANGED outcome
    BY <1>0, <1>1 DEF Post, At
  <1>2. CASE /\ Fails(s, "post", "network", FALSE)
             /\ \E got \in {"none", "http_error"} :
                  replied' = [replied EXCEPT ![s] = got]
             /\ UNCHANGED granted
    <2>1. /\ pc[s] = "post"
          /\ pc'[s] = "done"
          /\ outcome'[s] # None
          /\ outcome'[s].rung # 2
          /\ outcome'[s].rung = 1 =>
               /\ s \in Wrapped
               /\ outcome'[s].head = first[s]
               /\ outcome'[s].reachable = FALSE
               /\ outcome'[s].cause = "network"
      BY <1>0, <1>2, Leaves
    <2>2. replied'[s] \in {"none", "http_error"}
      BY <1>0, <1>2
    <2>3. tag'[s] # None /\ tsq'[tag'[s]] # None
      BY <1>0, <2>1 DEF Post
    <2>4. UNCHANGED <<ledger, first, head, tag, granted, tsq, tsr>>
      BY <1>2 DEF Post
    <2>5. outcome'[s].rung = 1 => CauseOk(s)'
      BY <2>1, <2>2, <2>3 DEF CauseOk
    <2> QED
      BY <1>0, <2>1, <2>2, <2>3, <2>4, <2>5
  <1>3. CASE Escapes(s, "post", "timeout") /\ UNCHANGED <<granted, replied>>
    <2>1. /\ pc'[s] = "done"
          /\ outcome'[s] # None
          /\ outcome'[s].rung = 0
      <3>1. outcome'[s] = Raised("timeout") /\ pc'[s] = "done"
        BY <1>0, <1>3 DEF Escapes, Ends, At
      <3>2. Raised("timeout") # None
        BY <1>0, OutcomeTypes, NoneAssumption
      <3> QED
        BY <3>1, <3>2 DEF Raised
    <2> QED
      BY <1>0, <1>3, <2>1 DEF Post
  <1> QED
    BY <1>1, <1>2, <1>3 DEF Post

LEMMA MoverWriteReply ==
    ASSUME IInv, NEW s \in Stampers, WriteReply(s)
    PROVE  CallOk(s)'
  <1>0. TypeOK /\ HeadsOk(s) /\ PointOk(s) /\ OutcomeOk(s)
    BY DEF IInv, CallOk
  <1> USE DEF TypeOK, CallOk, HeadsOk, PointOk, OutcomeOk, Unnamed, Named
  <1>1. CASE At(s, "reply", "parse")
             /\ tsr' = [tsr EXCEPT ![tag[s]] =
                          [call |-> s, head |-> head[s],
                           granted |-> granted[s]]]
             /\ UNCHANGED outcome
    <2>1. tsr'[tag'[s]] # None
      <3>1. tag' = tag /\ tag[s] \in Times
        BY <1>1, PointTypes DEF WriteReply, At
      <3>2. [call |-> s, head |-> head[s], granted |-> granted[s]] # None
        BY <1>1, PointTypes, NoneAssumption DEF At
      <3> QED
        BY <1>0, <1>1, <3>1, <3>2
    <2> QED
      BY <1>0, <1>1, <2>1 DEF WriteReply, At
  <1>2. CASE Escapes(s, "reply", "file") /\ UNCHANGED tsr
    BY <1>0, <1>2, Leaves DEF WriteReply
  <1> QED
    BY <1>1, <1>2 DEF WriteReply

(* The reply on file is the own one, unless another call shares the        *)
(* second.                                                                 *)
LEMMA FileIsOwn ==
    ASSUME IInv, NEW s \in Stampers, pc[s] = "parse"
    PROVE  tsr[tag[s]].granted = granted[s] \/ Shared(s)
  <1>1. tag[s] \in Times /\ tsr[tag[s]] # None
    BY PointTypes DEF IInv, CallOk, PointOk, Named
  <1>2. /\ tsr[tag[s]].call \in Stampers
        /\ tag[tsr[tag[s]].call] = tag[s]
        /\ tsr[tag[s]].granted = granted[tsr[tag[s]].call]
    BY <1>1 DEF IInv, TypeOK, Replies, FilesOk, ReplyOk
  <1>3. tag[s] # None
    BY <1>1 DEF Times
  <1> QED
    BY <1>2, <1>3 DEF Shared, Alone

LEMMA MoverParseReply ==
    ASSUME IInv, NEW s \in Stampers, ParseReply(s)
    PROVE  CallOk(s)'
  <1>0. TypeOK /\ HeadsOk(s) /\ PointOk(s) /\ OutcomeOk(s)
    BY DEF IInv, CallOk
  <1>1. pc[s] = "parse" /\ tsr[tag[s]] # None /\ replied[s] = "body"
        /\ tag[s] # None /\ head[s] # None /\ tsq[tag[s]] # None
    BY <1>0 DEF ParseReply, PointOk, HeadsOk, Named
  <1>2. tsr[tag[s]].granted = granted[s] \/ Shared(s)
    BY <1>1, FileIsOwn
  <1>3. UNCHANGED <<ledger, clock, first, head, tag, granted, replied, tsq,
                    tsr>>
    BY DEF ParseReply
  <1>4. (Shared(s))' <=> Shared(s)
    BY <1>3 DEF Shared, Alone
  <1> USE DEF TypeOK, CallOk, HeadsOk, PointOk, OutcomeOk, Unnamed, Named
  <1>5. CASE tsr[tag[s]].granted /\ Ends(s, "parse", Granted(s))
    <2>1. Granted(s) # None
      BY <1>0, OutcomeTypes, NoneAssumption
    <2>2. outcome'[s] = Granted(s) /\ pc'[s] = "done"
      BY <1>0, <1>5 DEF Ends, At
    <2>3. HeadsOk(s)' /\ PointOk(s)'
      BY <1>0, <1>1, <1>3, <2>1, <2>2
    <2>4. granted'[s] \/ Shared(s)'
      BY <1>0, <1>2, <1>3, <1>4, <1>5
    <2>5. /\ outcome'[s].rung = 2
          /\ outcome'[s].head = head[s]
          /\ outcome'[s].reachable = TRUE
          /\ outcome'[s].cause = None
      BY <2>2 DEF Granted
    <2>6. OutcomeOk(s)'
      BY <1>0, <1>1, <1>3, <2>4, <2>5
    <2> QED
      BY <2>3, <2>6
  <1>6. CASE ~tsr[tag[s]].granted /\ Fails(s, "parse", "tsa_reject", TRUE)
    BY <1>0, <1>1, <1>2, <1>3, <1>4, <1>6, Leaves DEF CauseOk
  <1>7. CASE Escapes(s, "parse", "openssl")
    <2>1. /\ pc'[s] = "done"
          /\ outcome'[s] # None
          /\ outcome'[s].rung = 0
      <3>1. outcome'[s] = Raised("openssl") /\ pc'[s] = "done"
        BY <1>0, <1>7 DEF Escapes, Ends, At
      <3>2. Raised("openssl") # None
        BY <1>0, OutcomeTypes, NoneAssumption
      <3> QED
        BY <3>1, <3>2 DEF Raised
    <2> QED
      BY <1>0, <1>1, <1>3, <2>1
  <1> QED
    BY <1>5, <1>6, <1>7 DEF ParseReply

LEMMA MoverStep ==
    ASSUME IInv, NEW s \in Stampers, Stamp(s)
    PROVE  CallOk(s)'
  BY MoverReadFirst, MoverFindOpenssl, MoverReadHead, MoverNameFiles,
     MoverWriteQuery, MoverPost, MoverWriteReply, MoverParseReply DEF Stamp

-----------------------------------------------------------------------------
(* The invariant.                                                          *)

LEMMA InitIInv == Init => IInv
  <1> SUFFICES ASSUME Init
               PROVE  IInv
    OBVIOUS
  <1>1. TypeOK
    BY DEF Init, TypeOK, Times
  <1>2. ASSUME NEW s \in Stampers
        PROVE  CallOk(s)
    BY DEF Init, CallOk, HeadsOk, PointOk, OutcomeOk, Unnamed, Named
  <1>3. FilesOk
    BY DEF Init, FilesOk, QueryOk, ReplyOk
  <1> QED
    BY <1>1, <1>2, <1>3 DEF IInv

(* The surroundings only lengthen the ledger.                              *)
LEMMA SurroundingsStep ==
    ASSUME IInv, AppendEntry \/ Tick \/ UNCHANGED vars
    PROVE  (\A s \in Stampers : CallOk(s)') /\ FilesOk'
  <1>1. /\ UNCHANGED <<pc, first, head, tag, granted, replied, tsq, tsr,
                       outcome>>
        /\ Len(ledger) \in Nat
        /\ Len(ledger') \in Nat
        /\ Len(ledger) <= Len(ledger')
    <2>0. TypeOK /\ Len(ledger) \in Nat
      BY DEF IInv, TypeOK
    <2>1. CASE AppendEntry
      <3>1. Len(ledger') = Len(ledger) + 1
        BY <2>0, <2>1, LedgerGrows
      <3> QED
        BY <2>0, <2>1, <3>1 DEF AppendEntry
    <2>2. CASE Tick \/ UNCHANGED vars
      BY <2>0, <2>2 DEF Tick, vars
    <2> QED
      BY <2>1, <2>2
  <1>2. ASSUME NEW s \in Stampers
        PROVE  CallOk(s)'
    <2>1. HeadsOk(s) /\ PointOk(s) /\ OutcomeOk(s)
          /\ first[s] \in Nat \cup {None} /\ head[s] \in Nat \cup {None}
      BY DEF IInv, CallOk, TypeOK, Heads
    <2>2. HeadsOk(s)'
      BY <1>1, <2>1 DEF HeadsOk
    <2>3. PointOk(s)'
      BY <1>1, <2>1 DEF PointOk
    <2>4. OutcomeOk(s)'
      BY <1>1, <2>1 DEF OutcomeOk, CauseOk, Shared, Alone
    <2> QED
      BY <2>2, <2>3, <2>4 DEF CallOk
  <1>3. FilesOk'
    BY <1>1 DEF IInv, FilesOk, QueryOk, ReplyOk, Times
  <1> QED
    BY <1>2, <1>3

LEMMA NextIInv == IInv /\ [Next]_vars => IInv'
  <1> SUFFICES ASSUME IInv, [Next]_vars
               PROVE  IInv'
    OBVIOUS
  <1>1. TypeOK'
    BY TypeStep
  <1>2. CASE AppendEntry \/ Tick \/ UNCHANGED vars
    BY <1>1, <1>2, SurroundingsStep DEF IInv
  <1>3. ASSUME NEW s \in Stampers, Stamp(s)
        PROVE  IInv'
    <2>1. \A u \in Stampers : CallOk(u)'
      BY <1>3, OthersStep, MoverStep
    <2>2. FilesOk'
      BY <1>3, FilesStep
    <2> QED
      BY <1>1, <2>1, <2>2 DEF IInv
  <1> QED
    BY <1>2, <1>3 DEF Next

LEMMA Invariance == Spec => []IInv
  BY InitIInv, NextIInv, PTL DEF Spec

-----------------------------------------------------------------------------
(* The theorems.                                                           *)

(* Every call keeps its control point, heads, files and outcome in their   *)
(* types, whatever fails (notary.py stamp_head, stamp_head_or_log).        *)
THEOREM Typing == Spec => []TypeOK
  <1>1. IInv => TypeOK
    BY DEF IInv
  <1> QED
    BY <1>1, Invariance, PTL

(* However many calls and appends interleave: the archive of a stamp that  *)
(* was returned holds the request and the granted reply of this very call, *)
(* for the head it returned, unless another call named its files in the    *)
(* same second.                                                            *)
THEOREM Archived == Spec => []StampArchived
  <1>1. IInv => StampArchived
    <2> SUFFICES ASSUME IInv, NEW s \in Stampers, outcome[s] # None,
                        outcome[s].rung = 2, Alone(s)
                 PROVE  /\ tsq[tag[s]] = [call |-> s,
                                          head |-> outcome[s].head]
                        /\ tsr[tag[s]] = [call |-> s,
                                          head |-> outcome[s].head,
                                          granted |-> TRUE]
      BY DEF StampArchived
    <2>0. TypeOK
      BY DEF IInv
    <2>1. /\ tag[s] # None
          /\ outcome[s].head = head[s]
          /\ tsq[tag[s]] # None
          /\ tsr[tag[s]] # None
          /\ granted[s]
      BY DEF IInv, CallOk, OutcomeOk, Shared
    <2>2. tag[s] \in Times
      BY <2>0, <2>1 DEF TypeOK
    <2>3. tsq[tag[s]] \in Requests /\ tsr[tag[s]] \in Replies
      BY <2>0, <2>1, <2>2 DEF TypeOK
    <2>4. QueryOk(tag[s]) /\ ReplyOk(tag[s])
      BY <2>2 DEF IInv, FilesOk
    <2>5. tsq[tag[s]].call = s /\ tsr[tag[s]].call = s
      BY <2>1, <2>3, <2>4 DEF Requests, Replies, QueryOk, ReplyOk, Alone
    <2>6. tsr[tag[s]].granted = TRUE
      BY <2>0, <2>1, <2>4, <2>5 DEF ReplyOk, TypeOK
    <2> QED
      BY <2>1, <2>3, <2>4, <2>5, <2>6
      DEF Requests, Replies, QueryOk, ReplyOk
  <1> QED
    BY <1>1, Invariance, PTL

(* The head a fallback reports was a head of the ledger, and no request of *)
(* the same call is for an older one.                                      *)
THEOREM Pinned == Spec => []FallbackPinsHead
  <1>1. IInv => FallbackPinsHead
    <2> SUFFICES ASSUME IInv, NEW s \in Stampers, outcome[s] # None,
                        outcome[s].rung = 1
                 PROVE  /\ outcome[s].head \in 0..Len(ledger)
                        /\ \A t \in Times :
                             (tsq[t] # None /\ tsq[t].call = s) =>
                               outcome[s].head <= tsq[t].head
      BY DEF FallbackPinsHead
    <2>0. TypeOK /\ HeadsOk(s)
      BY DEF IInv, CallOk
    <2>1. s \in Wrapped /\ first[s] # None /\ outcome[s].head = first[s]
      BY DEF IInv, CallOk, OutcomeOk
    <2>2. first[s] \in Nat /\ Len(ledger) \in Nat
      BY <2>0, <2>1 DEF TypeOK, Heads
    <2>3. outcome[s].head \in 0..Len(ledger)
      BY <2>0, <2>1, <2>2 DEF HeadsOk
    <2>4. ASSUME NEW t \in Times, tsq[t] # None, tsq[t].call = s
          PROVE  outcome[s].head <= tsq[t].head
      <3>1. head[s] # None /\ tsq[t].head = head[s]
        BY <2>4 DEF IInv, FilesOk, QueryOk
      <3> QED
        BY <2>0, <2>1, <3>1 DEF HeadsOk
    <2> QED
      BY <2>3, <2>4
  <1> QED
    BY <1>1, Invariance, PTL

(* What a call says of the authority is what the authority did, unless     *)
(* another call named its files in the same second.                        *)
THEOREM Honest == Spec => []OutcomeHonest
  <1>1. IInv => OutcomeHonest
    <2> SUFFICES ASSUME IInv, NEW s \in Stampers, outcome[s] # None,
                        outcome[s].rung # 0, Alone(s)
                 PROVE  /\ outcome[s].rung = 2 <=> granted[s]
                        /\ outcome[s].reachable <=> replied[s] = "body"
                        /\ outcome[s].cause = "tsa_reject" <=>
                             replied[s] = "body" /\ ~granted[s]
                        /\ outcome[s].cause = "network" =>
                             /\ tag[s] # None
                             /\ tsq[tag[s]] # None
                             /\ replied[s] # "body"
                        /\ outcome[s].cause = "openssl_missing" =>
                             tag[s] = None /\ replied[s] = "none"
                        /\ replied[s] = "http_error" =>
                             outcome[s].cause = "network"
      BY DEF OutcomeHonest
    <2>1. outcome[s].rung \in 0..2 /\ OutcomeOk(s) /\ ~Shared(s)
      BY DEF IInv, TypeOK, Outcomes, CallOk, Shared
    <2>2. CASE outcome[s].rung = 2
      <3>1. None \notin {"openssl_missing", "network", "tsa_reject"}
        BY NoneAssumption
      <3> QED
        BY <2>1, <2>2, <3>1 DEF OutcomeOk
    <2>3. CASE outcome[s].rung = 1
      <3>1. ~granted[s] /\ CauseOk(s)
        BY <2>1, <2>3 DEF OutcomeOk
      <3> QED
        BY <2>3, <3>1 DEF CauseOk
    <2> QED
      BY <2>1, <2>2, <2>3
  <1> QED
    BY <1>1, Invariance, PTL

=============================================================================
