-------------------------- MODULE EvalDriverProofs --------------------------
(***************************************************************************)
(* Proofs about EvalDriver for every plan, every limit and every price of  *)
(* a call.                                                                 *)
(***************************************************************************)
EXTENDS EvalDriver, SequenceTheorems, FiniteSetTheorems, TLAPS

USE LimitsAssumption

-----------------------------------------------------------------------------
(* The inductive invariant: the types, the control flow and the servers    *)
(* (Shape), and on top of them the money and the time.                     *)

InJob == {"ask", "waiting", "reading", "listing", "turn", "tools", "close",
          "terminate", "kill", "score"}

Talking == {"waiting", "reading", "listing", "turn", "tools"}

Receiving == {"waiting", "reading"}

Control == {"initialize", "tools/list"}

(* The most one request takes, and a question until its server is closed.  *)
OneCall == PerQuestion + LineTime

OneAnswer == PerQuestion + Overrun

(* A job is under way only if there is one, and a tool is called only if   *)
(* the model has asked for one.                                            *)
ControlInv ==
    /\ pc \in InJob => job <= Total
    /\ pc = "tools" => q.todo >= 1
    /\ pc \in Receiving /\ srv.tool \notin Control => q.todo >= 1

Shape == TypeOK /\ ControlInv /\ ServersReaped

(* The cap was not reached when the job began, and each turn has cost one  *)
(* call at most.                                                           *)
CostInv ==
    /\ pc \in InJob => spent + Projected < Cap
    /\ pc \notin InJob \cup {"aborted"} => q.cost = 0
    /\ pc = "ask" => q.cost = 0
    /\ q.cost = 0 \/ spent + Projected < Cap
    /\ pc \in Talking => q.cost <= q.turn * MaxCall
    /\ q.cost <= TurnLimit * MaxCall
    /\ spent = 0 \/ spent + Projected < Cap + TurnLimit * MaxCall

(* What a question may still take: a full time-out for each tool use of    *)
(* the answer at hand, on top of what it has taken, and then close().      *)
TimeInv ==
    /\ pc \in Receiving /\ srv.tool = "initialize" => q.elapsed = 0
    /\ pc = "listing" => q.elapsed <= Handshake + LineTime
    /\ pc \in Receiving /\ srv.tool = "tools/list" =>
         q.elapsed <= Handshake + LineTime
    /\ pc = "tools" => q.elapsed + q.todo * OneCall <= OneAnswer
    /\ pc \in Receiving /\ srv.tool \notin Control =>
         q.elapsed + q.todo * OneCall <= OneAnswer
    /\ pc = "kill" => q.elapsed <= OneAnswer + Grace
    /\ pc \notin {"kill", "score", "aborted"} => q.elapsed <= OneAnswer
    /\ OverrunBounded

-----------------------------------------------------------------------------
(* The jobs.                                                               *)

(* The lengths of the loops of run_eval are natural numbers.               *)
LEMMA Lengths ==
    ASSUME plan \in Plans
    PROVE  /\ NArms \in Nat \ {0}
           /\ NQuestions \in Nat
           /\ Total \in Nat
  <1>1. /\ plan.arms \in Seq(Arms)
        /\ plan.arms # <<>>
        /\ Len(plan.questions) \in Nat
    BY PlansAssumption, LenProperties
  <1>2. NArms \in Nat \ {0}
    BY <1>1, LenProperties, EmptySeq DEF NArms
  <1>3. NQuestions \in Nat
    BY <1>1 DEF NQuestions
  <1>4. Runs * NQuestions \in Nat
    BY <1>3
  <1> QED
    BY <1>2, <1>3, <1>4 DEF Total

(* A job within the loops has an arm of the plan and one of its questions. *)
LEMMA JobIsPlanned ==
    ASSUME plan \in Plans, NEW j \in Nat, 1 <= j, j <= Total
    PROVE  /\ Arm(j) \in ArmNames
           /\ Question(j).uses \in 1..MaxTools
           /\ Question(j).families \subseteq Tools
  <1>1. NArms \in Nat \ {0} /\ NQuestions \in Nat /\ Total \in Nat
    BY Lengths
  <1>2. (j - 1) % NArms \in 0..(NArms - 1)
    BY <1>1
  <1>3. Arm(j) \in ArmNames
    BY <1>1, <1>2 DEF Arm, ArmNames
  <1>4. NQuestions # 0
    BY <1>1 DEF Total
  <1>5. (j - 1) \div NArms \in Int
    BY <1>1
  <1>6. ((j - 1) \div NArms) % NQuestions \in 0..(NQuestions - 1)
    BY <1>1, <1>4, <1>5
  <1>7. (((j - 1) \div NArms) % NQuestions) + 1 \in 1..Len(plan.questions)
    <2>1. \A n \in Nat : \A k \in 0..(n - 1) : k + 1 \in 1..n
      OBVIOUS
    <2> QED
      BY <1>1, <1>6, <2>1 DEF NQuestions
  <1>8. plan.questions \in Seq([type : QuestionTypes,
                                families : SUBSET Tools,
                                uses : 1..MaxTools])
    BY PlansAssumption
  <1>9. Question(j) \in [type : QuestionTypes, families : SUBSET Tools,
                         uses : 1..MaxTools]
    BY <1>7, <1>8, ElementOfSeq DEF Question
  <1> QED
    BY <1>3, <1>9

-----------------------------------------------------------------------------
(* Type correctness.                                                       *)

LEMMA InitType == Init => TypeOK /\ ControlInv
  <1> SUFFICES ASSUME Init PROVE TypeOK /\ ControlInv
    OBVIOUS
  <1> USE DEF Init
  <1>1. CacheTypeOK
    BY DEF CacheInit, CacheTypeOK
  <1>2. Total \in Nat
    BY Lengths
  <1>3. q \in QuestionStates
    BY FS_EmptySet DEF Fresh, QuestionStates, Verdicts, SomeIds
  <1>4. srv \in Servers
    <2>1. <<0, 0>> \in Ids
      BY DEF Ids
    <2> QED
      BY <2>1 DEF NoServer, Servers, Verdicts
  <1>5. ledger \in Seq(Entries)
    OBVIOUS
  <1>6. armCost \in [ArmNames -> Nat]
    OBVIOUS
  <1>7. /\ job \in 1..(Total + 1) /\ torn \in 0..Total /\ unended \in 0..Total
        /\ tail \in {"whole", "unended", "torn", "ended"}
        /\ leaked \subseteq 1..Total /\ late \subseteq Entries
        /\ exits \in 0..MaxFaults /\ pc \in Points
    BY <1>2 DEF Points
  <1>8. TypeOK
    BY <1>1, <1>3, <1>4, <1>5, <1>6, <1>7 DEF TypeOK
  <1> QED
    BY <1>8 DEF ControlInv, InJob, Receiving

(* The entry a server writes is well-typed.                                *)
LEMMA EntryType ==
    ASSUME TypeOK
    PROVE  Entry \in Entries
  <1>1. job \in Nat
    BY Lengths DEF TypeOK
  <1>2. srv \in Servers
    BY DEF TypeOK
  <1> QED
    BY <1>1, <1>2 DEF Entry, Entries, Servers

(* So is the ledger, whatever a write leaves of an entry.                  *)
FileOK ==
    /\ ledger \in Seq(Entries)
    /\ tail \in {"whole", "unended", "torn", "ended"}
    /\ torn \in 0..Total
    /\ unended \in 0..Total

LEMMA WriteType ==
    ASSUME TypeOK, NEW e \in Entries, e.job \in 1..Total, Total' = Total,
           NEW part \in {"whole", "unended", "torn"}, Write(e, part)
    PROVE  FileOK'
  <1>1. /\ ledger \in Seq(Entries) /\ torn \in 0..Total
        /\ unended \in 0..Total /\ Total \in Nat
    BY Lengths DEF TypeOK
  <1>2. FirstOf(torn, e) \in 0..Total /\ FirstOf(unended, e) \in 0..Total
    BY <1>1 DEF FirstOf
  <1>3. CASE tail \in {"whole", "ended"}
    <2>1. Append(ledger, e) \in Seq(Entries)
      BY <1>1, AppendProperties
    <2> QED
      BY <1>1, <1>2, <1>3, <2>1 DEF Write, FileOK
  <1>4. CASE tail \notin {"whole", "ended"}
    <2>1. SubSeq(ledger, 1, Len(ledger) - 1) \in Seq(Entries)
      <3>1. Len(ledger) \in Nat
        BY <1>1, LenProperties
      <3>2. \A i \in 1..(Len(ledger) - 1) : i \in 1..Len(ledger)
        BY <3>1
      <3>3. \A i \in 1..Len(ledger) : ledger[i] \in Entries
        BY <1>1, ElementOfSeq
      <3>4. \A i \in 1..(Len(ledger) - 1) : ledger[i] \in Entries
        BY <3>2, <3>3
      <3> QED
        BY <1>1, <3>1, <3>4, SubSeqProperties
    <2> QED
      BY <1>1, <1>2, <1>4, <2>1 DEF Write, FileOK
  <1> QED
    BY <1>3, <1>4

LEMMA FileStays ==
    ASSUME TypeOK, Total' = Total, UNCHANGED ledgerFile
    PROVE  FileOK'
  BY DEF TypeOK, ledgerFile, FileOK

LEMMA CutShortType ==
    ASSUME TypeOK, NEW e \in Entries, e.job \in 1..Total, Total' = Total,
           CutShort(e)
    PROVE  FileOK'
  BY WriteType, FileStays DEF CutShort

(* Where the variables of the driver's own state stay, only these are left *)
(* to look at.                                                             *)
LEMMA SetupType ==
    ASSUME Shape, Setup \/ FetchAlone
    PROVE  Shape'
  <1> USE DEF Shape
  <1>1. UNCHANGED runVars
    BY DEF Setup, FetchAlone, LoadLocal, FetchFirst, Hydrate, LoadCached,
           LoadMissing
  <1>2. UNCHANGED <<plan, job, q, srv, ledger, tail, torn, unended, leaked,
                    late, spent, armCost, partial, exits>>
    BY <1>1 DEF runVars, driverVars, ledgerVars, ledgerFile
  <1>3. /\ pc' \in {"corpus", "fetching", "hydrate", "exited", "next"}
        /\ ~srv.up
    BY DEF Setup, FetchAlone, LoadLocal, FetchFirst, Hydrate, LoadCached,
           LoadMissing, TypeOK, ServersReaped, Between
  <1>4. CacheTypeOK'
    BY DEF Setup, FetchAlone, LoadLocal, FetchFirst, Hydrate, LoadCached,
           LoadMissing, TypeOK, CacheTypeOK, StartFetch, FetchStep,
           Downloaded, WriteBodyTemp, WriteProvTemp, ReplaceBody, ReplaceProv,
           FetchFails, corpusVars, cacheVars
  <1>5. /\ given' \in Revisions \cup {None}
        /\ commit' \in Revisions \cup {None}
        /\ loaded' \in Revisions \cup {None}
    BY DEF Setup, FetchAlone, LoadLocal, FetchFirst, Hydrate, LoadCached,
           LoadMissing, TypeOK, CacheTypeOK, corpusVars
  <1>6. TypeOK'
    BY <1>2, <1>3, <1>4, <1>5
       DEF TypeOK, Points, Total, NArms, NQuestions, ArmNames
  <1>7. ControlInv' /\ ServersReaped'
    BY <1>2, <1>3 DEF ControlInv, ServersReaped, InJob, Receiving, Total,
                      NArms, NQuestions
  <1> QED
    BY <1>6, <1>7

(* What a server does with its pipe keeps its shape.                       *)
LEMMA RespondType ==
    ASSUME srv \in Servers, NEW a \in Replies, Respond(a)
    PROVE  srv' \in Servers /\ srv'.tool = srv.tool /\ srv'.up = srv.up
  <1>1. PICK h \in BOOLEAN :
          srv' = [srv EXCEPT !.at = "idle", !.answer = a, !.half = h,
                             !.cites = {}, !.prev = 0, !.tier = None]
    BY DEF Respond
  <1> QED
    BY <1>1 DEF Servers, Verdicts

(* The verdicts of the gate.                                               *)
LEMMA VerdictType ==
    ASSUME NEW cites
    PROVE  EvaluateClaim(cites) \subseteq Verdicts
  <1>1. ClassifyConfidence(cites) \in {"DRAFT", "CORROBORATED", "FINAL"}
    BY DEF ClassifyConfidence
  <1>2. \A t \in DOMAIN TEMPORAL_DEMOTION : TEMPORAL_DEMOTION[t] \in Verdicts
    BY DEF TEMPORAL_DEMOTION, Verdicts
  <1> QED
    BY <1>1, <1>2 DEF EvaluateClaim, Verdicts

(* The steps of the servers.                                               *)
LEMMA ServerType ==
    ASSUME Shape, Server
    PROVE  Shape'
  <1> USE DEF Shape
  <1>0. /\ UNCHANGED <<corpusVars, driverVars, pc, q>>
        /\ Total \in Nat /\ job \in 1..(Total + 1)
        /\ srv \in Servers /\ Entry \in Entries
    BY EntryType, Lengths DEF TypeOK, Server, ServeHandshake, RefuseTool,
       ReadHead, BeginWrite, AppendEntry, EndLine, ServerExits, LateWrite
  <1>1. Servers' = Servers /\ Total' = Total /\ ArmNames' = ArmNames
    BY <1>0 DEF driverVars, Total, NArms, NQuestions, ArmNames
  <1>2. /\ srv' \in Servers
        /\ srv'.tool = srv.tool
        /\ srv'.up => srv.up
    <2>1. Silence \in Replies
      BY FS_EmptySet DEF Silence, Replies, SomeIds, Verdicts
    <2>2. [ids |-> {srv.id}, tier |-> srv.tier] \in Replies
      <3>1. srv.id \in Ids /\ srv.tier \in Verdicts
        BY <1>0 DEF Servers
      <3>2. {srv.id} \in SomeIds
        BY <3>1, FS_Singleton DEF SomeIds
      <3> QED
        BY <3>1, <3>2 DEF Replies
    <2>3. Len(ledger) \in Nat
      BY LenProperties DEF TypeOK
    <2>4. CASE ReadHead
      <3>1. PICK t \in Verdicts :
              srv' = [srv EXCEPT !.at = "writing", !.prev = Len(ledger),
                                 !.cites = {}, !.tier = t]
        BY <2>4, VerdictType DEF ReadHead, BeginWrite, Verdicts
      <3> QED
        BY <1>0, <2>3, <3>1 DEF Servers
    <2>5. CASE ServerExits
      BY <1>0, <2>5 DEF ServerExits, Servers, Verdicts
    <2>6. CASE LateWrite
      BY <1>0, <2>6 DEF LateWrite
    <2>7. CASE ServeHandshake \/ RefuseTool \/ AppendEntry
      BY <1>0, <2>1, <2>2, <2>7, RespondType
         DEF ServeHandshake, RefuseTool, AppendEntry
    <2>8. CASE EndLine
      BY <1>0, <2>8 DEF EndLine, Servers
    <2> QED
      BY <2>4, <2>5, <2>6, <2>7, <2>8 DEF Server
  <1>3. FileOK' /\ leaked' = leaked /\ late' \subseteq late
    <2>1. Entry.job = job
      BY DEF Entry
    <2>2. srv.up => job \in 1..Total
      BY <1>0 DEF ServersReaped, ControlInv, Between, InJob, TypeOK, Points
    <2>3. CASE ServerExits
      <3>1. CutShort(Entry) => FileOK'
        BY <1>0, <1>1, <2>1, <2>2, <2>3, CutShortType DEF ServerExits
      <3> QED
        BY <1>1, <2>3, <3>1, FileStays DEF ServerExits, ServerDies
    <2>4. CASE LateWrite
      <3>1. PICK e \in late : CutShort(e) /\ late' = late \ {e}
        BY <2>4 DEF LateWrite
      <3>2. e \in Entries /\ e.job \in 1..Total
        BY DEF TypeOK, ServersReaped
      <3>3. FileOK'
        BY <1>1, <3>1, <3>2, CutShortType
      <3> QED
        BY <2>4, <3>1, <3>3 DEF LateWrite
    <2>5. CASE AppendEntry
      <3>1. Land(Entry) /\ job \in 1..Total /\ leaked' = leaked /\ late' = late
        BY <2>2, <2>5 DEF AppendEntry, ServerRuns
      <3> QED
        BY <1>0, <1>1, <2>1, <3>1, WriteType DEF Land
    <2>6. CASE ServeHandshake \/ RefuseTool \/ ReadHead \/ EndLine
      BY <1>1, <2>6, FileStays
         DEF ServeHandshake, RefuseTool, ReadHead, BeginWrite, EndLine,
             ledgerVars
    <2> QED
      BY <2>3, <2>4, <2>5, <2>6 DEF Server
  <1>4. exits' \in 0..MaxFaults
    <2>1. Server => exits' = exits \/ (ServerExits /\ exits' = exits + 1)
      BY DEF Server, ServeHandshake, RefuseTool, ReadHead, BeginWrite,
             AppendEntry, EndLine, ServerExits, LateWrite
    <2>2. ServerExits => exits + Cardinality(leaked) < MaxFaults
      BY DEF ServerExits
    <2>3. IsFiniteSet(leaked) /\ Cardinality(leaked) \in Nat
      <3>1. IsFiniteSet(1..Total)
        BY <1>0, FS_Interval
      <3>2. leaked \in SUBSET (1..Total)
        BY DEF TypeOK
      <3> QED
        BY <3>1, <3>2, FS_Subset, FS_CardinalityType
    <2> QED
      BY <2>1, <2>2, <2>3 DEF TypeOK
  <1>5. TypeOK'
    BY <1>0, <1>1, <1>2, <1>3, <1>4
       DEF TypeOK, FileOK, CacheTypeOK, corpusVars, cacheVars, driverVars
  <1>6. ControlInv'
    BY <1>0, <1>1, <1>2 DEF ControlInv, driverVars
  <1>7. ServersReaped'
    BY <1>0, <1>2, <1>3 DEF ServersReaped
  <1> QED
    BY <1>5, <1>6, <1>7

(* A step of the driver that leaves the job, the ledger and the money      *)
(* alone keeps the types if the question and the server keep theirs.       *)
LEMMA QuietStep ==
    ASSUME Shape,
           UNCHANGED <<corpusVars, plan, job, spent, armCost, partial,
                       ledgerVars, exits>>,
           pc' \in Points, q' \in QuestionStates, srv' \in Servers
    PROVE  /\ TypeOK'
           /\ pc' \in InJob => (ControlInv' <=>
                /\ job <= Total
                /\ pc' = "tools" => q'.todo >= 1
                /\ pc' \in Receiving /\ srv'.tool \notin Control =>
                     q'.todo >= 1)
           /\ pc' \notin InJob => ControlInv'
           /\ (pc' \in Between => ~srv'.up) => ServersReaped'
  <1>1. /\ Total' = Total /\ ArmNames' = ArmNames /\ job' = job
        /\ ledger' = ledger /\ tail' = tail /\ torn' = torn
        /\ unended' = unended /\ leaked' = leaked /\ late' = late
    BY DEF ledgerVars, ledgerFile, Total, NArms, NQuestions, ArmNames
  <1>2. TypeOK'
    BY <1>1 DEF Shape, TypeOK, CacheTypeOK, corpusVars, cacheVars
  <1>3. ServersReaped' <=> (pc' \in Between => ~srv'.up)
    BY <1>1 DEF Shape, ServersReaped
  <1> QED
    BY <1>1, <1>2, <1>3 DEF ControlInv, InJob, Receiving

(* Sending a request keeps the types.                                      *)
LEMMA RequestType ==
    ASSUME Shape, NEW tool \in Methods, NEW c \in SUBSET Ids,
           Request(tool, c), pc \in InJob
    PROVE  /\ q' \in QuestionStates /\ srv' \in Servers
           /\ q'.todo = q.todo
           /\ \/ pc' = "waiting" /\ srv'.tool = tool
              \/ pc' = "close"
  <1>1. q \in QuestionStates /\ srv \in Servers /\ job \in Nat
    BY Lengths DEF Shape, TypeOK
  <1>2. <<job, Cardinality(q.ids)>> \in Ids
    BY <1>1, FS_CardinalityType DEF Ids, SomeIds, QuestionStates
  <1>3. CASE srv.up
    BY <1>1, <1>2, <1>3 DEF Request, Servers
  <1>4. CASE ~srv.up
    BY <1>1, <1>4 DEF Request, Fail, QuestionStates, Markers
  <1> QED
    BY <1>3, <1>4

(* The answers that come back, and the time-outs.                          *)
LEMMA AnswerType ==
    ASSUME Shape,
           Initialized \/ ListTools \/ Listed \/ ToolAnswered
             \/ ReadLine \/ SawExit \/ TimedOut
    PROVE  Shape'
  <1>0. /\ UNCHANGED <<corpusVars, driverVars, ledgerVars, exits>>
        /\ pc \in {"waiting", "reading", "listing"} /\ job <= Total
        /\ q \in QuestionStates /\ srv \in Servers
    BY DEF Initialized, ListTools, Listed, ToolAnswered, ReadLine, SawExit,
           TimedOut, Answered, CutOff, Shape, ControlInv, InJob, TypeOK
  <1>1. UNCHANGED <<plan, job, spent, armCost, partial>>
    BY <1>0 DEF driverVars
  <1>2. /\ Timeout \in Nat /\ Latest \in Nat
        /\ \A d \in Nat : Spend(d) \in Nat
    BY <1>0, TimeAssumption DEF Timeout, Latest, Spend, QuestionStates
  <1>3. CASE ListTools
    <2>1. "tools/list" \in Methods /\ Request("tools/list", {})
      BY <1>3 DEF Methods, ListTools
    <2>2. /\ q' \in QuestionStates /\ srv' \in Servers
          /\ \/ pc' = "waiting" /\ srv'.tool = "tools/list"
             \/ pc' = "close"
      BY <1>0, <2>1, RequestType DEF InJob
    <2> QED
      BY <1>0, <1>1, <2>2, QuietStep
         DEF Shape, Points, InJob, Receiving, Control, Between
  <1>4. CASE ToolAnswered
    <2>0. pc \in Receiving /\ srv.answer # None /\ srv.tool \notin Control
      BY <1>4 DEF ToolAnswered, Answered, Receiving, Control
    <2>1. srv.answer \in Replies /\ q.todo \in 1..MaxTools
      <3>1. srv.answer \in Replies
        BY <1>0, <2>0 DEF Servers
      <3>2. q.todo >= 1
        BY <2>0 DEF Shape, ControlInv
      <3>3. q.todo \in 0..MaxTools
        BY <1>0 DEF QuestionStates
      <3> QED
        BY <3>1, <3>2, <3>3
    <2>2. PICK d \in 0..Latest :
            q' = [q EXCEPT !.elapsed = Spend(d),
                           !.todo = @ - 1,
                           !.ids = @ \cup srv.answer.ids,
                           !.claim = IF srv.answer.tier # None
                                     THEN srv.answer.tier ELSE @]
      BY <1>4 DEF ToolAnswered
    <2>3. /\ srv' = srv
          /\ pc' = IF q.todo = 1 THEN "turn" ELSE "tools"
      BY <1>4 DEF ToolAnswered
    <2>4. Spend(d) \in Nat
      BY <1>2, <2>2
    <2>5. q.todo - 1 \in 0..MaxTools
      BY <2>1
    <2>6. q.ids \cup srv.answer.ids \in SomeIds
      BY <1>0, <2>1, FS_Union DEF QuestionStates, Replies, SomeIds
    <2>7. q' \in QuestionStates /\ q'.todo = q.todo - 1
      BY <1>0, <2>1, <2>2, <2>4, <2>5, <2>6 DEF QuestionStates, Replies
    <2>8. pc' = "turn" \/ (pc' = "tools" /\ q'.todo >= 1)
      BY <2>1, <2>3, <2>7
    <2> QED
      BY <1>0, <1>1, <2>3, <2>7, <2>8, QuietStep
         DEF Shape, Points, InJob, Receiving, Between
  <1>5. CASE Initialized \/ Listed \/ SawExit \/ TimedOut
    <2>1. q' \in QuestionStates /\ srv' = srv
      <3>1. PICK d \in Nat, p \in {q.predicted, "<subprocess_crash>",
                                  "<subprocess_timeout>"} :
              q' = [q EXCEPT !.predicted = p, !.elapsed = Spend(d)]
        <4>1. 0..Latest \subseteq Nat /\ Timeout..Latest \subseteq Nat
          BY <1>2
        <4>2. CASE Initialized \/ Listed
          <5>1. \E d \in Nat : q' = [q EXCEPT !.elapsed = Spend(d)]
            BY <4>1, <4>2 DEF Initialized, Listed, Takes
          <5>2. \A d \in Nat :
                  [q EXCEPT !.elapsed = Spend(d)] =
                  [q EXCEPT !.predicted = q.predicted, !.elapsed = Spend(d)]
            BY <1>0 DEF QuestionStates
          <5> QED
            BY <5>1, <5>2
        <4>3. CASE SawExit
          BY <4>1, <4>3 DEF SawExit
        <4>4. CASE TimedOut
          BY <4>1, <4>4 DEF TimedOut
        <4> QED
          BY <1>5, <4>2, <4>3, <4>4
      <3>2. srv' = srv
        BY <1>5 DEF Initialized, Listed, SawExit, TimedOut
      <3> QED
        BY <1>0, <1>2, <3>1, <3>2 DEF QuestionStates, Markers
    <2>2. pc' \in {"listing", "turn", "close"}
      BY <1>5 DEF Initialized, Listed, SawExit, TimedOut
    <2> QED
      BY <1>0, <1>1, <2>1, <2>2, QuietStep
         DEF Shape, Points, InJob, Receiving, Between
  <1>6. CASE ReadLine
    <2>1. pc = "waiting" /\ pc' = "reading" /\ q' = q /\ srv' = srv
      BY <1>6 DEF ReadLine
    <2>2. srv.tool \notin Control => q.todo >= 1
      BY <2>1 DEF Shape, ControlInv, Receiving
    <2> QED
      BY <1>0, <1>1, <2>1, <2>2, QuietStep
         DEF Shape, Points, InJob, Receiving, Between
  <1> QED
    BY <1>3, <1>4, <1>5, <1>6

(* The turns of the agentic loop.                                          *)
LEMMA TurnType ==
    ASSUME Shape,
           TurnsUsedUp \/ DeadlinePassed \/ WantsTools \/ FinalText
             \/ ModelFails \/ CallTool
    PROVE  Shape'
  <1>0. /\ UNCHANGED <<corpusVars, driverVars, ledgerVars, exits>>
        /\ pc \in {"turn", "tools"} /\ job <= Total
        /\ q \in QuestionStates /\ srv \in Servers
    BY DEF TurnsUsedUp, DeadlinePassed, WantsTools, FinalText, ModelFails,
           CallTool, MayAsk, Shape, ControlInv, InJob, TypeOK
  <1>1. UNCHANGED <<plan, job, spent, armCost, partial>>
    BY <1>0 DEF driverVars
  <1>2. /\ \A d \in 0..ApiTime : Spend(d) \in Nat
        /\ \A c \in CallCosts : q.cost + c \in Nat
    BY <1>0, TimeAssumption, CostAssumption DEF Spend, QuestionStates
  <1>3. MayAsk => q.turn + 1 \in 0..TurnLimit
    BY <1>0 DEF MayAsk, QuestionStates
  <1>4. CASE CallTool
    <2>1. /\ Offered(Question(job)) \subseteq Methods \ Control
          /\ "claim_finding" \in Methods \ Control
      <3>1. job \in Nat /\ 1 <= job /\ plan \in Plans
        BY Lengths DEF Shape, TypeOK
      <3>2. Question(job).families \subseteq Tools
        BY <1>0, <3>1, JobIsPlanned
      <3> QED
        BY <3>2, ToolsAssumption DEF Offered, Methods, Control
    <2>2. q.ids \subseteq Ids
      BY <1>0 DEF QuestionStates, SomeIds
    <2>3. PICK tool \in Methods \ Control, c \in SUBSET Ids : Request(tool, c)
      <3>1. CASE \E tool \in Offered(Question(job)) : Request(tool, {})
        BY <2>1, <3>1
      <3>2. CASE \E c \in SUBSET q.ids : Request("claim_finding", c)
        BY <2>1, <2>2, <3>2
      <3> QED
        BY <1>4, <3>1, <3>2 DEF CallTool
    <2>4. /\ q' \in QuestionStates /\ srv' \in Servers
          /\ q'.todo = q.todo
          /\ pc' \in {"waiting", "close"}
      BY <1>0, <2>3, RequestType DEF InJob
    <2>5. q.todo >= 1
      BY <1>4 DEF CallTool, Shape, ControlInv
    <2> QED
      BY <1>0, <1>1, <2>4, <2>5, QuietStep
         DEF Shape, Points, InJob, Receiving, Between
  <1>5. CASE TurnsUsedUp \/ DeadlinePassed
    BY <1>0, <1>1, <1>5, QuietStep
       DEF TurnsUsedUp, DeadlinePassed, Fail, QuestionStates, Markers,
           Shape, Points, InJob, Receiving, Between
  <1>6. CASE WantsTools
    <2>1. PICK d \in 0..ApiTime, c \in CallCosts,
               n \in 1..Question(job).uses :
            q' = [q EXCEPT !.turn = @ + 1, !.elapsed = Spend(d),
                           !.cost = @ + c, !.todo = n]
      BY <1>6 DEF WantsTools
    <2>2. Question(job).uses \in 1..MaxTools
      BY <1>0, JobIsPlanned, Lengths DEF Shape, TypeOK
    <2>3. n \in 0..MaxTools /\ n >= 1
      BY <2>1, <2>2
    <2>4. /\ q.turn + 1 \in 0..TurnLimit /\ Spend(d) \in Nat
          /\ q.cost + c \in Nat
      BY <1>2, <1>3, <1>6, <2>1 DEF WantsTools
    <2>5. q' \in QuestionStates /\ q'.todo = n
      BY <1>0, <2>1, <2>3, <2>4 DEF QuestionStates
    <2>6. pc' = "tools" /\ srv' = srv
      BY <1>6 DEF WantsTools
    <2>7. q'.todo >= 1
      BY <2>3, <2>5
    <2> QED
      BY <1>0, <1>1, <2>5, <2>6, <2>7, QuietStep
         DEF Shape, Points, InJob, Receiving, Between
  <1>7. CASE FinalText
    <2>1. q' \in QuestionStates
      BY <1>0, <1>2, <1>3, <1>7 DEF FinalText, QuestionStates
    <2> QED
      BY <1>0, <1>1, <1>7, <2>1, QuietStep
         DEF FinalText, Shape, Points, InJob, Receiving, Between
  <1>8. CASE ModelFails
    <2>1. q' \in QuestionStates
      BY <1>0, <1>2, <1>8 DEF ModelFails, QuestionStates, Markers
    <2> QED
      BY <1>0, <1>1, <1>8, <2>1, QuietStep
         DEF ModelFails, Shape, Points, InJob, Receiving, Between
  <1> QED
    BY <1>4, <1>5, <1>6, <1>7, <1>8

(* A job begins.                                                           *)
LEMMA StartType ==
    ASSUME Shape, StartGated \/ SpawnFails \/ StartUngated
    PROVE  Shape'
  <1>0. /\ UNCHANGED <<corpusVars, driverVars, ledgerVars, exits>>
        /\ pc = "next" /\ job <= Total /\ q' = Fresh /\ ~srv.up
    BY DEF StartGated, SpawnFails, StartUngated, StartJob, Shape,
           ServersReaped, Between
  <1>1. UNCHANGED <<plan, job, spent, armCost, partial>>
    BY <1>0 DEF driverVars
  <1>2. q' \in QuestionStates
    BY <1>0, FS_EmptySet DEF Fresh, QuestionStates, SomeIds, Verdicts
  <1>3. /\ srv' \in Servers
        /\ \/ pc' = "waiting" /\ srv'.tool = "initialize"
           \/ pc' \in {"aborted", "ask"} /\ srv' = srv
    <2>1. <<0, 0>> \in Ids
      BY DEF Ids
    <2>2. CASE StartGated
      BY <2>1, <2>2 DEF StartGated, NoServer, Servers, Methods, Verdicts
    <2>3. CASE SpawnFails \/ StartUngated
      BY <2>3 DEF SpawnFails, StartUngated, Shape, TypeOK
    <2> QED
      BY <2>2, <2>3
  <1>4. CASE pc' = "waiting" /\ srv'.tool = "initialize"
    BY <1>0, <1>1, <1>2, <1>3, <1>4, QuietStep
       DEF Shape, Points, InJob, Receiving, Between, Control
  <1>5. CASE pc' \in {"aborted", "ask"} /\ srv' = srv
    BY <1>0, <1>1, <1>2, <1>3, <1>5, QuietStep
       DEF Shape, Points, InJob, Receiving, Between
  <1> QED
    BY <1>3, <1>4, <1>5

(* The end of a server; what it was writing may be left behind.            *)
LEMMA CloseType ==
    ASSUME Shape, ClosePipes \/ Terminate \/ Kill
    PROVE  Shape'
  <1> USE DEF Shape
  <1>0. /\ UNCHANGED <<corpusVars, driverVars, exits>>
        /\ pc \in {"close", "terminate", "kill"}
        /\ pc' \in {"terminate", "kill", "score"}
        /\ srv' \in {srv, NoServer}
        /\ pc' = "score" => srv' = NoServer
    BY DEF ClosePipes, Terminate, Kill
  <1>1. /\ Total \in Nat /\ job \in 1..Total /\ job <= Total
        /\ srv \in Servers /\ Entry \in Entries /\ Entry.job = job
    BY <1>0, EntryType, Lengths DEF ControlInv, InJob, TypeOK, Entry
  <1>2. Total' = Total /\ ArmNames' = ArmNames
    BY <1>0 DEF driverVars, Total, NArms, NQuestions, ArmNames
  <1>3. NoServer \in Servers /\ NoServer.up = FALSE
    <2>1. <<0, 0>> \in Ids
      BY DEF Ids
    <2> QED
      BY <2>1 DEF NoServer, Servers, Verdicts
  <1>4. ServerDies => FileOK'
    <2>1. CutShort(Entry) => FileOK'
      BY <1>1, <1>2, CutShortType
    <2> QED
      BY <1>2, <2>1, FileStays DEF ServerDies
  <1>5. /\ FileOK'
        /\ leaked' \subseteq 1..Total /\ late' \subseteq Entries
        /\ \A e \in late' : e.job \in leaked'
    <2>1. CASE ClosePipes
      BY <1>2, <2>1, FileStays DEF ClosePipes, ledgerVars, TypeOK, ServersReaped
    <2>2. CASE Terminate
      BY <1>2, <1>4, <2>2, FileStays DEF Terminate, TypeOK, ServersReaped
    <2>3. CASE Kill
      <3>1. CASE ServerDies /\ UNCHANGED <<leaked, late>>
        BY <1>4, <3>1 DEF TypeOK, ServersReaped
      <3>2. CASE /\ leaked' = leaked \cup {job}
                 /\ late' = late \cup (IF srv.at = "writing" THEN {Entry}
                                       ELSE {})
                 /\ UNCHANGED ledgerFile
        BY <1>1, <1>2, <3>2, FileStays DEF TypeOK, ServersReaped
      <3> QED
        BY <2>3, <3>1, <3>2 DEF Kill
    <2> QED
      BY <2>1, <2>2, <2>3
  <1>6. q' \in QuestionStates
    <2>1. \A d \in Nat : Spend(d) \in Nat
      BY DEF Spend, TypeOK, QuestionStates
    <2>2. q' = q \/ \E d \in Nat : Takes(d)
      BY TimeAssumption DEF ClosePipes, Terminate, Kill
    <2> QED
      BY <2>1, <2>2 DEF Takes, TypeOK, QuestionStates
  <1>7. TypeOK'
    BY <1>0, <1>1, <1>2, <1>3, <1>5, <1>6
       DEF TypeOK, FileOK, CacheTypeOK, corpusVars, cacheVars, driverVars,
           Points
  <1>8. ControlInv'
    BY <1>0, <1>1, <1>2 DEF ControlInv, Receiving, driverVars
  <1>9. ServersReaped'
    BY <1>0, <1>3, <1>5 DEF ServersReaped, Between
  <1> QED
    BY <1>7, <1>8, <1>9

(* The arms without a server, and the end of a question and of the loops.  *)
LEMMA LoopType ==
    ASSUME Shape,
           Halt \/ Overflows \/ Ask \/ Abort \/ Score \/ Finish \/ WriteReport
    PROVE  Shape'
  <1> USE DEF Shape
  <1>0. /\ UNCHANGED <<corpusVars, plan, srv, ledgerVars, exits>>
        /\ pc \in {"next", "ask", "score", "report"}
        /\ q \in QuestionStates /\ ~srv.up
        /\ Total \in Nat /\ job \in 1..(Total + 1)
        /\ pc \in {"ask", "score"} => job <= Total
    BY Lengths DEF Halt, Overflows, StructuredBareOverflows, BareOverflows,
       GivesUp, Ask, AskStructuredBare, AskBare, AskPromptOnly, Asks, Abort,
       Score, Finish, WriteReport, driverVars, TypeOK, ServersReaped,
       ControlInv, InJob, Between
  <1>1. Total' = Total /\ ArmNames' = ArmNames
    BY <1>0 DEF Total, NArms, NQuestions, ArmNames
  <1>2. /\ pc' \in {"report", "score", "aborted", "next", "done"}
        /\ pc' = "score" => pc = "ask" /\ job' = job
    BY DEF Halt, Overflows, StructuredBareOverflows, BareOverflows, GivesUp,
       Ask, AskStructuredBare, AskBare, AskPromptOnly, Asks, Abort, Score,
       Finish, WriteReport, driverVars
  <1>3. q' \in QuestionStates
    <2>1. CASE Overflows
      BY <1>0, <2>1 DEF Overflows, StructuredBareOverflows, BareOverflows,
         GivesUp, QuestionStates, Markers
    <2>2. CASE Ask
      <3>1. \A c \in CallCosts : c \in Nat
        BY CostAssumption
      <3> QED
        BY <1>0, <2>2, <3>1 DEF Ask, AskStructuredBare, AskBare, AskPromptOnly,
           Asks, QuestionStates, Markers
    <2>3. CASE Score
      BY <2>3, FS_EmptySet DEF Score, Fresh, QuestionStates, SomeIds, Verdicts
    <2>4. CASE Halt \/ Abort \/ Finish \/ WriteReport
      BY <1>0, <2>4 DEF Halt, Abort, Finish, WriteReport
    <2> QED
      BY <2>1, <2>2, <2>3, <2>4
  <1>4. /\ job' \in 1..(Total + 1) /\ spent' \in Nat
        /\ armCost' \in [ArmNames -> Nat] /\ partial' \in BOOLEAN
    <2>1. CASE Score
      <3>1. job <= Total /\ q.cost \in Nat /\ spent \in Nat
        BY <1>0, <2>1 DEF Score, QuestionStates, TypeOK
      <3>2. armCost[Arm(job)] + q.cost \in Nat
        <4>1. Arm(job) \in ArmNames
          BY <1>0, <3>1, JobIsPlanned DEF TypeOK
        <4> QED
          BY <3>1, <4>1 DEF TypeOK
      <3>3. armCost' \in [ArmNames -> Nat]
        BY <2>1, <3>2 DEF Score, TypeOK
      <3>4. job' \in 1..(Total + 1)
        BY <1>0, <2>1, <3>1 DEF Score
      <3>5. spent' \in Nat /\ partial' \in BOOLEAN
        BY <2>1, <3>1 DEF Score, TypeOK
      <3> QED
        BY <3>3, <3>4, <3>5
    <2>2. CASE Halt \/ Overflows \/ Ask \/ Abort \/ Finish \/ WriteReport
      BY <2>2 DEF Halt, Overflows, StructuredBareOverflows, BareOverflows,
         GivesUp, Ask, AskStructuredBare, AskBare, AskPromptOnly, Asks, Abort,
         Finish, WriteReport, driverVars, TypeOK
    <2> QED
      BY <2>1, <2>2
  <1>5. TypeOK'
    BY <1>0, <1>1, <1>2, <1>3, <1>4
       DEF TypeOK, CacheTypeOK, corpusVars, cacheVars, ledgerVars, ledgerFile,
           Points
  <1>6. ControlInv'
    BY <1>0, <1>1, <1>2 DEF ControlInv, InJob, Receiving
  <1>7. ServersReaped'
    BY <1>0 DEF ServersReaped, ledgerVars
  <1> QED
    BY <1>5, <1>6, <1>7

LEMMA NextType == Shape /\ [Next]_vars => Shape'
  <1> SUFFICES ASSUME Shape, [Next]_vars PROVE Shape'
    OBVIOUS
  <1>1. CASE Setup \/ FetchAlone
    BY <1>1, SetupType
  <1>2. CASE Server
    BY <1>2, ServerType
  <1>3. CASE Driver
    BY <1>3, StartType, AnswerType, TurnType, CloseType, LoopType DEF Driver
  <1>4. CASE UNCHANGED vars
    <2>1. /\ UNCHANGED <<corpusVars, plan, job, spent, armCost, partial,
                         ledgerVars, exits>>
          /\ pc' = pc /\ q' = q /\ srv' = srv
      BY <1>4 DEF vars, driverVars
    <2>2. pc \in Points /\ q \in QuestionStates /\ srv \in Servers
      BY DEF Shape, TypeOK
    <2> QED
      BY <2>1, <2>2, QuietStep DEF Shape, ControlInv, ServersReaped
  <1> QED
    BY <1>1, <1>2, <1>3, <1>4 DEF Next

LEMMA InitReaped == Init => ServersReaped
  BY DEF Init, ServersReaped, NoServer

(* The variables keep their shape; the loop over the turns ends at its     *)
(* limit and the index of the job never leaves the plan                    *)
(* (run_dfir_metric_eval.py run_eval, _run_one_sanctum_question).          *)
THEOREM TypeCorrect == Spec => []TypeOK
  <1>1. Init => Shape
    BY InitType, InitReaped DEF Shape
  <1>2. Shape => TypeOK
    BY DEF Shape
  <1> QED
    BY <1>1, <1>2, NextType, PTL DEF Spec

(* Between two questions no server runs but those recorded as leaked       *)
(* (SanctumServerSubprocess.close).                                        *)
THEOREM Reaped == Spec => []ServersReaped
  <1>1. Init => Shape
    BY InitType, InitReaped DEF Shape
  <1>2. Shape => ServersReaped
    BY DEF Shape
  <1> QED
    BY <1>1, <1>2, NextType, PTL DEF Spec

-----------------------------------------------------------------------------
(* Money.                                                                  *)

(* Products of natural numbers: one call more, and more calls.             *)
LEMMA CallsCost ==
    ASSUME NEW t \in Nat, NEW n \in Nat, NEW m \in Nat
    PROVE  /\ t * m \in Nat
           /\ (t + 1) * m = t * m + m
           /\ t <= n => t * m <= n * m
  <1>1. t * m \in Nat /\ (t + 1) * m = t * m + m
    OBVIOUS
  <1>2. ASSUME t <= n PROVE t * m <= n * m
    <2>1. PICK k \in Nat : n = t + k
      <3>1. n - t \in Nat /\ n = t + (n - t)
        BY <1>2
      <3> QED
        BY <3>1
    <2>2. n * m = t * m + k * m /\ k * m \in Nat
      BY <2>1
    <2> QED
      BY <1>1, <2>2
  <1> QED
    BY <1>1, <1>2

(* A step that spends nothing and does not enter a job keeps CostInv.      *)
LEMMA FreeStep ==
    ASSUME CostInv, spent' = spent, q'.cost = q.cost, q'.turn = q.turn,
           pc' \in InJob => pc \in InJob,
           pc' \in Talking => pc \in Talking,
           pc' = "ask" => pc = "ask",
           pc' \notin InJob \cup {"aborted"} =>
             pc \notin InJob \cup {"aborted"}
    PROVE  CostInv'
  BY DEF CostInv

(* The cap plus the calls that were not projected is never reached.        *)
LEMMA CostStep ==
    ASSUME Shape, CostInv, [Next]_vars
    PROVE  CostInv'
  <1>0. /\ q \in QuestionStates /\ spent \in Nat
        /\ q.cost \in Nat /\ q.turn \in 0..TurnLimit
        /\ MaxCall \in Nat /\ Projected \in Nat /\ Cap \in Nat
        /\ TurnLimit * MaxCall \in Nat
    BY CostAssumption, CallsCost DEF Shape, TypeOK, QuestionStates
  <1>1. \A c \in CallCosts : c \in Nat /\ c <= MaxCall
    BY CostAssumption
  <1>2. CASE \/ Setup \/ FetchAlone \/ Server \/ UNCHANGED vars
    <2>1. spent' = spent /\ q' = q
      BY <1>2 DEF Setup, FetchAlone, LoadLocal, FetchFirst, Hydrate,
         LoadCached, LoadMissing, runVars, Server, ServeHandshake, RefuseTool,
         ReadHead, BeginWrite, AppendEntry, EndLine, ServerExits, LateWrite,
         vars, driverVars
    <2>2. \/ pc' = pc
          \/ /\ pc \in {"corpus", "fetching", "hydrate"}
             /\ pc' \in {"corpus", "fetching", "hydrate", "exited", "next"}
      BY <1>2 DEF Setup, FetchAlone, LoadLocal, FetchFirst, Hydrate,
         LoadCached, LoadMissing, Server, ServeHandshake, RefuseTool,
         ReadHead, BeginWrite, AppendEntry, EndLine, ServerExits, LateWrite,
         vars
    <2> QED
      BY <2>1, <2>2, FreeStep DEF InJob, Talking
  <1>3. CASE StartGated \/ SpawnFails \/ StartUngated
    <2>1. q' = Fresh /\ spent' = spent /\ pc' \in {"waiting", "aborted", "ask"}
          /\ spent + Projected < Cap
      BY <1>3 DEF StartGated, SpawnFails, StartUngated, StartJob, Affordable,
                  driverVars
    <2>2. q'.cost = 0 /\ q'.turn = 0 /\ 0 * MaxCall = 0
      BY <1>0, <2>1 DEF Fresh
    <2> QED
      BY <1>0, <2>1, <2>2 DEF CostInv, InJob, Talking
  <1>4. CASE WantsTools \/ FinalText
    <2>1. PICK c \in CallCosts : q'.cost = q.cost + c
      BY <1>0, <1>4 DEF WantsTools, FinalText, QuestionStates
    <2>2. /\ q'.turn = q.turn + 1 /\ q.turn < TurnLimit /\ spent' = spent
          /\ pc = "turn" /\ pc' \in {"tools", "close"}
      BY <1>0, <1>4 DEF WantsTools, FinalText, MayAsk, QuestionStates,
                        driverVars
    <2>3. (q.turn + 1) * MaxCall = q.turn * MaxCall + MaxCall
          /\ q.turn * MaxCall \in Nat
      BY <1>0, CallsCost
    <2>4. (q.turn + 1) * MaxCall <= TurnLimit * MaxCall
      <3>1. q.turn + 1 \in Nat /\ q.turn + 1 <= TurnLimit
        BY <1>0, <2>2
      <3> QED
        BY <1>0, <3>1, CallsCost
    <2>5. q.cost <= q.turn * MaxCall /\ spent + Projected < Cap
      BY <2>2 DEF CostInv, InJob, Talking
    <2>6. q'.cost <= q'.turn * MaxCall /\ q'.cost <= TurnLimit * MaxCall
      <3>1. q.cost + c <= q.turn * MaxCall + MaxCall
        BY <1>0, <1>1, <2>3, <2>5
      <3>2. q.cost + c <= (q.turn + 1) * MaxCall
        BY <2>3, <3>1
      <3>3. (q.turn + 1) * MaxCall \in Int /\ q.cost + c \in Int
        BY <1>0, <1>1, <2>3
      <3>4. q.cost + c <= TurnLimit * MaxCall
        BY <1>0, <2>4, <3>2, <3>3
      <3> QED
        BY <2>1, <2>2, <3>2, <3>4
    <2>7. spent' = 0 \/ spent' + Projected < Cap + TurnLimit * MaxCall
      BY <2>2 DEF CostInv
    <2> QED
      BY <2>2, <2>5, <2>6, <2>7 DEF CostInv, InJob, Talking
  <1>5. CASE Ask
    <2>1. /\ spent' = spent /\ pc' = "score" /\ pc = "ask"
          /\ q'.cost = 0 \/ \E c \in CallCosts : q'.cost = c
      BY <1>0, <1>5 DEF Ask, AskStructuredBare, AskBare, AskPromptOnly, Asks,
         QuestionStates, CostInv, driverVars
    <2>2. MaxCall <= TurnLimit * MaxCall
      <3>1. 1 * MaxCall <= TurnLimit * MaxCall
        BY <1>0, CallsCost
      <3> QED
        BY <1>0, <3>1
    <2>3. q'.cost <= TurnLimit * MaxCall
      BY <1>0, <1>1, <2>1, <2>2
    <2> QED
      BY <2>1, <2>3 DEF CostInv, InJob, Talking
  <1>6. CASE Score
    <2>1. /\ spent' = spent + q.cost /\ q'.cost = 0 /\ pc' = "next"
          /\ pc = "score"
      BY <1>6 DEF Score, Fresh
    <2>2. spent + Projected < Cap /\ q.cost <= TurnLimit * MaxCall
      BY <2>1 DEF CostInv, InJob
    <2>3. spent' + Projected < Cap + TurnLimit * MaxCall
      BY <1>0, <2>1, <2>2
    <2> QED
      BY <1>0, <2>1, <2>3 DEF CostInv, InJob, Talking
  <1>7. CASE \/ Initialized \/ ListTools \/ Listed \/ ToolAnswered
             \/ ReadLine \/ SawExit \/ TimedOut \/ TurnsUsedUp
             \/ DeadlinePassed \/ ModelFails \/ CallTool
    <2>1. /\ spent' = spent /\ pc \in Talking
          /\ pc' \in {"waiting", "reading", "listing", "turn", "tools",
                      "close"}
      BY <1>7 DEF Initialized, ListTools, Listed, ToolAnswered, ReadLine,
         SawExit, TimedOut, Answered, CutOff, TurnsUsedUp, DeadlinePassed,
         ModelFails, CallTool, MayAsk, Request, Fail, Talking, driverVars
    <2>2. q'.cost = q.cost /\ q'.turn = q.turn
      BY <1>0, <1>7 DEF Initialized, ListTools, Listed, ToolAnswered,
         ReadLine, SawExit, TimedOut, TurnsUsedUp, DeadlinePassed, ModelFails,
         CallTool, Takes, Request, Fail, QuestionStates
    <2> QED
      BY <2>1, <2>2, FreeStep DEF InJob, Talking
  <1>8. CASE \/ ClosePipes \/ Terminate \/ Kill \/ Overflows \/ Abort
             \/ Halt \/ Finish \/ WriteReport
    <2>1. /\ spent' = spent
          /\ \/ /\ pc \in {"close", "terminate", "kill", "ask", "score"}
                /\ pc' \in {"terminate", "kill", "score", "aborted"}
             \/ /\ pc \in {"next", "report"}
                /\ pc' \in {"report", "done", "aborted"}
      BY <1>8 DEF ClosePipes, Terminate, Kill, Overflows,
         StructuredBareOverflows, BareOverflows, GivesUp, Abort, Halt, Finish,
         WriteReport, driverVars
    <2>2. q'.cost = q.cost /\ q'.turn = q.turn
      BY <1>0, <1>8 DEF ClosePipes, Terminate, Kill, Takes, Overflows,
         StructuredBareOverflows, BareOverflows, GivesUp, Abort, Halt, Finish,
         WriteReport, QuestionStates
    <2> QED
      BY <2>1, <2>2, FreeStep DEF InJob, Talking
  <1> QED
    BY <1>2, <1>3, <1>4, <1>5, <1>6, <1>7, <1>8 DEF Next, Driver

LEMMA InitCost == Init => CostInv
  <1> SUFFICES ASSUME Init PROVE CostInv
    OBVIOUS
  <1>1. TurnLimit * MaxCall \in Nat
    BY CostAssumption, CallsCost
  <1>2. q.cost = 0 /\ spent = 0 /\ pc = "corpus"
    BY DEF Init, Fresh
  <1> QED
    BY <1>1, <1>2 DEF CostInv, InJob, Talking

(* The cap is overrun by less than the calls of one question that were not *)
(* projected, whatever a call costs (run_dfir_metric_eval.py run_eval).    *)
THEOREM CostOverrun == Spec => []CostBounded
  <1>1. Init => Shape /\ CostInv
    BY InitType, InitReaped, InitCost DEF Shape
  <1>2. Shape /\ CostInv /\ [Next]_vars => (Shape /\ CostInv)'
    BY NextType, CostStep
  <1>3. Shape /\ CostInv => CostBounded
    <2> SUFFICES ASSUME Shape, CostInv PROVE CostBounded
      OBVIOUS
    <2>1. /\ q.cost \in Nat /\ spent \in Nat /\ Projected \in Nat
          /\ Cap \in Nat /\ TurnLimit * MaxCall \in Nat
      BY CostAssumption, CallsCost DEF Shape, TypeOK, QuestionStates
    <2>2. CASE q.cost = 0
      BY <2>1, <2>2 DEF CostInv, CostBounded
    <2>3. CASE spent + Projected < Cap
      BY <2>1, <2>3 DEF CostInv, CostBounded
    <2> QED
      BY <2>2, <2>3 DEF CostInv
  <1> QED
    BY <1>1, <1>2, <1>3, PTL DEF Spec

-----------------------------------------------------------------------------
(* Time.                                                                   *)

(* What is added up below is a natural number, and what may be taken       *)
(* beyond the limit is enough for an answer and for the handshake.         *)
LEMMA TimeNumbers ==
    ASSUME Shape
    PROVE  /\ q \in QuestionStates /\ srv \in Servers
           /\ q.elapsed \in Nat /\ q.todo \in 0..MaxTools /\ q.todo \in Nat
           /\ q.todo * OneCall \in Nat
           /\ PerQuestion \in Nat /\ ApiTime \in Nat /\ Handshake \in Nat
           /\ LineTime \in Nat /\ Grace \in Nat
           /\ OneCall = PerQuestion + LineTime /\ OneCall \in Nat
           /\ MaxTools * OneCall \in Nat
           /\ OneCall <= MaxTools * OneCall
           /\ Overrun \in Nat
           /\ ApiTime + MaxTools * OneCall <= Overrun
           /\ Handshake + 2 * LineTime <= Overrun
           /\ OneAnswer = PerQuestion + Overrun /\ OneAnswer \in Nat
  <1>1. /\ q \in QuestionStates /\ q.elapsed \in Nat /\ q.todo \in 0..MaxTools
        /\ srv \in Servers
    BY DEF Shape, TypeOK, QuestionStates
  <1>2. /\ PerQuestion \in Nat /\ ApiTime \in Nat /\ Handshake \in Nat
        /\ LineTime \in Nat /\ Grace \in Nat
    BY TimeAssumption
  <1>3. OneCall = PerQuestion + LineTime /\ OneCall \in Nat
    BY <1>2 DEF OneCall
  <1>4. q.todo \in Nat
    BY <1>1
  <1>5. q.todo * OneCall \in Nat /\ MaxTools * OneCall \in Nat
    BY <1>3, <1>4, CallsCost
  <1>6. 1 * OneCall <= MaxTools * OneCall
    BY <1>3, CallsCost
  <1>7. /\ Overrun \in Nat
        /\ ApiTime + MaxTools * OneCall <= Overrun
        /\ Handshake + 2 * LineTime <= Overrun
    <2>1. \A a, b \in Nat : LET m == IF a >= b THEN a ELSE b
                            IN  m \in Nat /\ a <= m /\ b <= m
      OBVIOUS
    <2>2. Overrun = LET a == ApiTime + MaxTools * OneCall
                        b == Handshake + 2 * LineTime
                    IN  IF a >= b THEN a ELSE b
      BY DEF Overrun, OneCall
    <2>3. /\ ApiTime + MaxTools * OneCall \in Nat
          /\ Handshake + 2 * LineTime \in Nat
      BY <1>2, <1>5
    <2> QED
      BY <2>1, <2>2, <2>3
  <1>8. OneAnswer = PerQuestion + Overrun /\ OneAnswer \in Nat
    BY <1>2, <1>7 DEF OneAnswer
  <1> QED
    BY <1>1, <1>2, <1>3, <1>4, <1>5, <1>6, <1>7, <1>8

(* What the driver waits for is the tool it has asked for.                 *)
LEMMA RequestTool ==
    ASSUME srv \in Servers, NEW t, NEW c, Request(t, c), pc' = "waiting"
    PROVE  srv'.tool = t
  BY DEF Request, Fail, Servers

(* A step after which nothing is waited for, or that takes no time.        *)
LEMMA IdleStep ==
    ASSUME Shape, q'.elapsed \in Nat, q'.elapsed <= OneAnswer,
           pc' \notin {"waiting", "reading", "listing", "tools"}
    PROVE  TimeInv'
  <1>1. OneAnswer' = OneAnswer
    BY DEF OneAnswer, Overrun
  <1>2. q'.elapsed <= OneAnswer + Grace /\ q'.elapsed <= OneAnswer + 2 * Grace
    BY TimeNumbers
  <1> QED
    BY <1>1, <1>2, TimeNumbers DEF TimeInv, Receiving, OverrunBounded

(* What a wait for an answer may take.                                     *)
LEMMA LatestBounds ==
    ASSUME Shape
    PROVE  /\ Latest \in Nat
           /\ srv.tool = "initialize" => Latest <= Handshake + LineTime
           /\ srv.tool # "initialize" => Latest <= OneCall
  BY TimeNumbers DEF Latest, Timeout

(* A step after which the driver waits for an answer, ...                  *)
LEMMA WaitingStep ==
    ASSUME Shape, q'.elapsed \in Nat, q'.elapsed <= OneAnswer,
           pc' = "waiting",
           srv'.tool = "initialize" => q'.elapsed = 0,
           srv'.tool = "tools/list" => q'.elapsed <= Handshake + LineTime,
           srv'.tool \notin Control =>
             q'.elapsed + q'.todo * OneCall <= OneAnswer
    PROVE  TimeInv'
  <1>1. OneAnswer' = OneAnswer /\ OneCall' = OneCall
    BY DEF OneAnswer, Overrun, OneCall
  <1>2. q'.elapsed <= OneAnswer + 2 * Grace
    BY TimeNumbers
  <1> QED
    BY <1>1, <1>2, TimeNumbers DEF TimeInv, Receiving, OverrunBounded, Control

(* ... is about to list the tools, ...                                     *)
LEMMA ListingStep ==
    ASSUME Shape, q'.elapsed \in Nat, q'.elapsed <= OneAnswer,
           pc' = "listing", q'.elapsed <= Handshake + LineTime
    PROVE  TimeInv'
  <1>1. OneAnswer' = OneAnswer
    BY DEF OneAnswer, Overrun
  <1>2. q'.elapsed <= OneAnswer + 2 * Grace
    BY TimeNumbers
  <1> QED
    BY <1>1, <1>2, TimeNumbers DEF TimeInv, Receiving, OverrunBounded

(* ... or to call one.                                                     *)
LEMMA ToolsStep ==
    ASSUME Shape, q'.elapsed \in Nat, q'.elapsed <= OneAnswer,
           pc' = "tools", q'.elapsed + q'.todo * OneCall <= OneAnswer
    PROVE  TimeInv'
  <1>1. OneAnswer' = OneAnswer /\ OneCall' = OneCall
    BY DEF OneAnswer, Overrun, OneCall
  <1>2. q'.elapsed <= OneAnswer + 2 * Grace
    BY TimeNumbers
  <1> QED
    BY <1>1, <1>2, TimeNumbers DEF TimeInv, Receiving, OverrunBounded

(* However late the answers come, a question keeps to its limit, one more  *)
(* call of the model and, for each tool of one answer, a time-out and the  *)
(* end of a line; then close() takes its two waits.                        *)
LEMMA TimeStep ==
    ASSUME Shape, TimeInv, [Next]_vars
    PROVE  TimeInv'
  <1> USE TimeNumbers
  <1>0. OneAnswer' = OneAnswer
    BY DEF OneAnswer, Overrun
  <1>1. pc \notin {"kill", "score", "aborted"} => q.elapsed <= OneAnswer
    BY DEF TimeInv
  <1>2. CASE \/ Setup \/ FetchAlone \/ Server \/ UNCHANGED vars
    <2>1. q' = q
      BY <1>2 DEF Setup, FetchAlone, LoadLocal, FetchFirst, Hydrate,
         LoadCached, LoadMissing, runVars, Server, ServeHandshake, RefuseTool,
         ReadHead, BeginWrite, AppendEntry, EndLine, ServerExits, LateWrite,
         vars
    <2>2. \/ /\ pc \in {"corpus", "fetching", "hydrate"}
             /\ pc' \in {"corpus", "fetching", "hydrate", "exited", "next"}
          \/ pc' = pc /\ srv'.tool = srv.tool
      <3>1. CASE Server
        <4>1. pc' = pc
          BY <3>1 DEF Server, ServeHandshake, RefuseTool, ReadHead,
             BeginWrite, AppendEntry, EndLine, ServerExits, LateWrite
        <4>2. srv'.tool = srv.tool
          BY <3>1 DEF Server, ServeHandshake, RefuseTool, ReadHead,
             BeginWrite, AppendEntry, EndLine, ServerExits, LateWrite,
             Respond, Servers
        <4> QED
          BY <4>1, <4>2
      <3>2. CASE \/ Setup \/ FetchAlone \/ UNCHANGED vars
        BY <3>2 DEF Setup, FetchAlone, LoadLocal, FetchFirst, Hydrate,
           LoadCached, LoadMissing, runVars, vars
      <3> QED
        BY <1>2, <3>1, <3>2
    <2>3. CASE /\ pc \in {"corpus", "fetching", "hydrate"}
               /\ pc' \in {"corpus", "fetching", "hydrate", "exited", "next"}
      BY <1>1, <2>1, <2>3, IdleStep
    <2>4. CASE pc' = pc /\ srv'.tool = srv.tool
      BY <1>0, <2>1, <2>4 DEF TimeInv, OverrunBounded, Overrun, OneCall
    <2> QED
      BY <2>2, <2>3, <2>4
  <1>3. CASE StartGated \/ SpawnFails \/ StartUngated
    <2>1. q' = Fresh /\ q'.elapsed = 0
      BY <1>3 DEF StartGated, SpawnFails, StartUngated, StartJob, Fresh
    <2>2. \/ pc' = "waiting" /\ srv'.tool = "initialize"
          \/ pc' \in {"aborted", "ask"}
      BY <1>3 DEF StartGated, SpawnFails, StartUngated, NoServer
    <2>3. CASE pc' = "waiting" /\ srv'.tool = "initialize"
      BY <1>0, <2>1, <2>3, WaitingStep DEF Control
    <2>4. CASE pc' \in {"aborted", "ask"}
      BY <2>1, <2>4, IdleStep
    <2> QED
      BY <2>2, <2>3, <2>4
  <1>4. CASE Initialized
    <2>1. /\ pc \in Receiving /\ srv.tool = "initialize" /\ pc' = "listing"
          /\ q.elapsed = 0
      BY <1>4 DEF Initialized, Answered, Receiving, TimeInv
    <2>2. PICK d \in 0..Latest : q'.elapsed = q.elapsed + d
      BY <1>4 DEF Initialized, Takes, Spend, QuestionStates
    <2>3. q'.elapsed \in Nat /\ q'.elapsed <= Handshake + LineTime
      BY <2>1, <2>2, LatestBounds
    <2>4. q'.elapsed <= OneAnswer
      BY <2>3
    <2> QED
      BY <2>1, <2>3, <2>4, ListingStep
  <1>5. CASE ListTools
    <2>1. /\ pc = "listing" /\ q.elapsed <= Handshake + LineTime
          /\ q'.elapsed = q.elapsed
          /\ \/ pc' = "waiting" /\ srv'.tool = "tools/list"
             \/ pc' = "close"
      BY <1>5 DEF ListTools, Request, Fail, QuestionStates, Servers, TimeInv
    <2>2. CASE pc' = "waiting" /\ srv'.tool = "tools/list"
      BY <1>1, <2>1, <2>2, WaitingStep DEF Control
    <2>3. CASE pc' = "close"
      BY <1>1, <2>1, <2>3, IdleStep
    <2> QED
      BY <2>1, <2>2, <2>3
  <1>6. CASE Listed
    <2>1. /\ pc \in Receiving /\ srv.tool = "tools/list" /\ pc' = "turn"
          /\ q.elapsed <= Handshake + LineTime
      BY <1>6 DEF Listed, Answered, Receiving, TimeInv
    <2>2. PICK d \in 0..Latest : q'.elapsed = q.elapsed + d
      BY <1>6 DEF Listed, Takes, Spend, QuestionStates
    <2>3. q'.elapsed \in Nat /\ q'.elapsed <= OneAnswer
      BY <2>1, <2>2, LatestBounds
    <2> QED
      BY <2>1, <2>3, IdleStep
  <1>7. CASE ToolAnswered
    <2>1. /\ pc \in Receiving /\ srv.tool \notin Control /\ q.todo >= 1
          /\ q.elapsed + q.todo * OneCall <= OneAnswer
          /\ pc' \in {"turn", "tools"}
      BY <1>7 DEF ToolAnswered, Answered, Receiving, Control, Shape,
                  ControlInv, TimeInv
    <2>2. PICK d \in 0..Latest :
            q'.elapsed = q.elapsed + d /\ q'.todo = q.todo - 1
      BY <1>7 DEF ToolAnswered, Spend, QuestionStates
    <2>3. d \in Nat /\ d <= OneCall
      <3>1. Latest \in Nat /\ Latest <= OneCall
        BY <2>1, LatestBounds DEF Control
      <3> QED
        BY <3>1
    <2>4. q.todo - 1 \in Nat /\ (q.todo - 1) * OneCall \in Nat
          /\ q.todo * OneCall = (q.todo - 1) * OneCall + OneCall
      <3>1. q.todo - 1 \in Nat /\ (q.todo - 1) + 1 = q.todo
        BY <2>1
      <3> QED
        BY <3>1, CallsCost
    <2>5. /\ q'.elapsed + q'.todo * OneCall <= OneAnswer
          /\ q'.elapsed \in Nat /\ q'.elapsed <= OneAnswer
      <3>1. q'.elapsed + q'.todo * OneCall =
              q.elapsed + d + (q.todo - 1) * OneCall
        BY <2>2
      <3> QED
        BY <2>1, <2>2, <2>3, <2>4, <3>1
    <2>6. CASE pc' = "turn"
      BY <2>5, <2>6, IdleStep
    <2>7. CASE pc' = "tools"
      BY <2>5, <2>7, ToolsStep
    <2> QED
      BY <2>1, <2>6, <2>7
  <1>8. CASE SawExit \/ TimedOut
    <2>1. pc \in Receiving /\ pc' = "close"
      BY <1>8 DEF SawExit, TimedOut, CutOff, Receiving
    <2>2. \E d \in 0..Latest : q'.elapsed = q.elapsed + d
      <3>1. \A d \in Timeout..Latest : d \in 0..Latest
        BY DEF Timeout
      <3> QED
        BY <1>8, <3>1 DEF SawExit, TimedOut, Spend, QuestionStates
    <2>3. q'.elapsed \in Nat /\ q'.elapsed <= OneAnswer
      <3>1. CASE srv.tool = "initialize"
        BY <2>1, <2>2, <3>1, LatestBounds DEF TimeInv
      <3>2. CASE srv.tool = "tools/list"
        BY <2>1, <2>2, <3>2, LatestBounds DEF TimeInv
      <3>3. CASE srv.tool \notin Control
        <4>1. /\ q.elapsed + q.todo * OneCall <= OneAnswer
              /\ 1 <= q.todo
          BY <2>1, <3>3 DEF TimeInv, Shape, ControlInv
        <4>2. 1 * OneCall <= q.todo * OneCall
          BY <4>1, CallsCost
        <4>3. q.elapsed + OneCall <= OneAnswer
          BY <4>1, <4>2
        <4>4. Latest \in Nat /\ Latest <= OneCall
          BY <3>3, LatestBounds DEF Control
        <4> QED
          BY <2>2, <4>3, <4>4
      <3> QED
        BY <3>1, <3>2, <3>3 DEF Control
    <2> QED
      BY <2>1, <2>3, IdleStep
  <1>9. CASE ReadLine
    <2>1. /\ pc = "waiting" /\ pc' = "reading" /\ q' = q /\ srv' = srv
      BY <1>9 DEF ReadLine
    <2> QED
      BY <1>0, <2>1 DEF TimeInv, OverrunBounded, Overrun, OneCall, Receiving
  <1>10. CASE WantsTools
    <2>1. PICK d \in 0..ApiTime, n \in 1..Question(job).uses :
            q'.elapsed = q.elapsed + d /\ q'.todo = n
      BY <1>10 DEF WantsTools, Spend, QuestionStates
    <2>2. pc' = "tools" /\ q.elapsed <= PerQuestion
      BY <1>10 DEF WantsTools, MayAsk
    <2>3. n \in Nat /\ n <= MaxTools
      <3>1. Question(job).uses \in 1..MaxTools
        BY <1>10, JobIsPlanned, Lengths
           DEF WantsTools, MayAsk, Shape, TypeOK, ControlInv, InJob
      <3> QED
        BY <2>1, <3>1
    <2>4. n * OneCall <= MaxTools * OneCall /\ n * OneCall \in Nat
      BY <2>3, CallsCost
    <2>5. q'.elapsed \in Nat /\ q'.elapsed + q'.todo * OneCall <= OneAnswer
          /\ q'.elapsed <= OneAnswer
      BY <2>1, <2>2, <2>4
    <2> QED
      BY <2>2, <2>5, ToolsStep
  <1>11. CASE FinalText \/ ModelFails
    <2>1. /\ \E d \in 0..ApiTime : q'.elapsed = q.elapsed + d
          /\ pc' = "close" /\ q.elapsed <= PerQuestion
      BY <1>11 DEF FinalText, ModelFails, MayAsk, Spend, QuestionStates
    <2>2. q'.elapsed \in Nat /\ q'.elapsed <= OneAnswer
      BY <2>1
    <2> QED
      BY <2>1, <2>2, IdleStep
  <1>12. CASE CallTool
    <2>1. pc = "tools" /\ q.elapsed + q.todo * OneCall <= OneAnswer
      BY <1>12 DEF CallTool, TimeInv
    <2>2. /\ q'.elapsed = q.elapsed /\ q'.todo = q.todo
          /\ pc' \in {"waiting", "close"}
      BY <1>12 DEF CallTool, Request, Fail, QuestionStates
    <2>3. pc' = "waiting" => srv'.tool \notin Control
      <3>1. Offered(Question(job)) \subseteq Tools
        <4>1. pc \in InJob /\ job \in Nat /\ 1 <= job /\ plan \in Plans
          BY <2>1, Lengths DEF InJob, Shape, TypeOK
        <4> QED
          BY <4>1, JobIsPlanned DEF Offered, Shape, ControlInv
      <3>2. \A t \in Tools \cup {"claim_finding"} : t \notin Control
        BY ToolsAssumption DEF Control
      <3>3. PICK t \in Tools \cup {"claim_finding"} :
              \E c \in SUBSET q.ids \cup {{}} : Request(t, c)
        BY <1>12, <3>1 DEF CallTool
      <3> QED
        BY <3>2, <3>3, RequestTool
    <2>4. CASE pc' = "waiting"
      <3>1. q'.elapsed + q'.todo * OneCall <= OneAnswer
        BY <2>1, <2>2
      <3>2. q'.elapsed \in Nat /\ q'.elapsed <= OneAnswer
        BY <1>1, <2>1, <2>2
      <3> QED
        BY <2>3, <2>4, <3>1, <3>2, WaitingStep DEF Control
    <2>5. CASE pc' = "close"
      BY <1>1, <2>1, <2>2, <2>5, IdleStep
    <2> QED
      BY <2>2, <2>4, <2>5
  <1>13. CASE Terminate \/ Kill
    <2>1. PICK d \in 0..Grace : q'.elapsed = q.elapsed + d
      <3>1. Grace \in 0..Grace
        OBVIOUS
      <3> QED
        BY <1>13, <3>1 DEF Terminate, Kill, Takes, Spend, QuestionStates
    <2>2. \/ /\ pc = "terminate" /\ pc' \in {"kill", "score"}
             /\ q.elapsed <= OneAnswer
          \/ /\ pc = "kill" /\ pc' = "score"
             /\ q.elapsed <= OneAnswer + Grace
      BY <1>13 DEF Terminate, Kill, TimeInv
    <2>3. /\ q'.elapsed <= OneAnswer + 2 * Grace
          /\ pc' = "kill" => q'.elapsed <= OneAnswer + Grace
      BY <2>1, <2>2
    <2> QED
      BY <1>0, <2>2, <2>3 DEF TimeInv, OverrunBounded, Receiving, OneAnswer,
                              Overrun
  <1>14. CASE \/ TurnsUsedUp \/ DeadlinePassed \/ ClosePipes \/ Overflows
              \/ Ask \/ Score \/ Halt \/ Finish \/ WriteReport
    <2>1. \/ q'.elapsed = 0
          \/ q'.elapsed = q.elapsed /\ q.elapsed <= OneAnswer
      <3>1. CASE ClosePipes \/ Halt \/ Finish \/ WriteReport
        BY <1>1, <3>1 DEF ClosePipes, Halt, Finish, WriteReport
      <3>2. CASE TurnsUsedUp \/ DeadlinePassed \/ Overflows \/ Ask
        BY <1>1, <3>2 DEF TurnsUsedUp, DeadlinePassed, Overflows,
           StructuredBareOverflows, BareOverflows, GivesUp, Ask,
           AskStructuredBare, AskBare, AskPromptOnly, Asks, Fail,
           QuestionStates
      <3>3. CASE Score
        BY <3>3 DEF Score, Fresh
      <3> QED
        BY <1>14, <3>1, <3>2, <3>3
    <2>2. pc' \notin {"waiting", "reading", "listing", "tools", "kill"}
      BY <1>14 DEF TurnsUsedUp, DeadlinePassed, ClosePipes, Overflows,
         StructuredBareOverflows, BareOverflows, GivesUp, Ask,
         AskStructuredBare, AskBare, AskPromptOnly, Asks, Score,
         Halt, Finish, WriteReport, Fail
    <2> QED
      BY <2>1, <2>2, IdleStep
  <1>15. CASE Abort
    <2>1. q' = q /\ pc' = "aborted"
      BY <1>15 DEF Abort
    <2> QED
      BY <1>0, <2>1 DEF TimeInv, OverrunBounded, Receiving, OneAnswer, Overrun
  <1> QED
    BY <1>2, <1>3, <1>4, <1>5, <1>6, <1>7, <1>8, <1>9, <1>10, <1>11, <1>12,
       <1>13, <1>14, <1>15 DEF Next, Driver

LEMMA InitTime == Init => TimeInv
  <1> SUFFICES ASSUME Init PROVE TimeInv
    OBVIOUS
  <1>1. q.elapsed = 0 /\ pc = "corpus"
    BY DEF Init, Fresh
  <1>2. OneAnswer \in Nat /\ Grace \in Nat /\ OneAnswer = PerQuestion + Overrun
    BY InitType, InitReaped, TimeNumbers DEF Shape
  <1> QED
    BY <1>1, <1>2 DEF TimeInv, OverrunBounded, Receiving

(* A question takes its limit, one call of the model and, for each tool    *)
(* use of one answer, a time-out and the end of a line that has begun, at  *)
(* most, and then the two waits of close(): as long as no line takes       *)
(* longer to end than LineTime (run_dfir_metric_eval.py                    *)
(* _run_one_sanctum_question, _MCPClient._recv, close).                    *)
THEOREM TimeOverrun == Spec => []OverrunBounded
  <1>1. Init => Shape /\ TimeInv
    BY InitType, InitReaped, InitTime DEF Shape
  <1>2. Shape /\ TimeInv /\ [Next]_vars => (Shape /\ TimeInv)'
    BY NextType, TimeStep
  <1>3. Shape /\ TimeInv => OverrunBounded
    BY DEF TimeInv
  <1> QED
    BY <1>1, <1>2, <1>3, PTL DEF Spec

-----------------------------------------------------------------------------
(* Steps left.                                                             *)

(* How many steps of its own the evaluation may still take: five to fetch  *)
(* a corpus; for each job the handshake, then in each turn a call of the   *)
(* model and three steps for each tool it wants, then close() and the     *)
(* score.                                                                  *)
TurnSteps == 1 + 3 * MaxTools

JobSteps == TurnLimit * TurnSteps + 11

FetchAhead == [download |-> 5, verified |-> 4, body |-> 3, both |-> 2,
               replaced |-> 1, idle |-> 0]

ClosingSteps == [ask |-> 2, close |-> 4, terminate |-> 3, kill |-> 2,
                 score |-> 1]

EndSteps == [report |-> 1, done |-> 0, exited |-> 0, aborted |-> 0]

JobsAhead == (Total - job) * JobSteps + 2

TurnsAhead == (TurnLimit - q.turn) * TurnSteps + ClosingSteps["close"]

WaitingSteps ==
    CASE srv.tool = "initialize" -> 6
      [] srv.tool = "tools/list" -> 3
      [] OTHER -> 3 * q.todo

StepsLeft ==
    CASE pc \in DOMAIN EndSteps -> EndSteps[pc]
      [] pc \in DOMAIN ClosingSteps -> JobsAhead + ClosingSteps[pc]
      [] pc = "turn" -> JobsAhead + TurnsAhead + 1
      [] pc = "tools" -> JobsAhead + TurnsAhead + 3 * q.todo + 1
      [] pc = "waiting" -> JobsAhead + TurnsAhead + WaitingSteps
      [] pc = "reading" -> JobsAhead + TurnsAhead + WaitingSteps - 1
      [] pc = "listing" -> JobsAhead + TurnsAhead + 4
      [] pc = "next" -> JobsAhead + JobSteps
      [] pc = "hydrate" -> JobsAhead + JobSteps + 1
      [] pc = "fetching" -> JobsAhead + JobSteps + 1 + FetchAhead[fetch]
      [] pc = "corpus" -> JobsAhead + JobSteps + 7

(* No failure, refusal or time-out sends an evaluation round in circles:   *)
(* each step of its own brings it nearer to its end, and no server,        *)
(* whatever it does, takes it further away (run_eval and the loops in it). *)
RunsDown ==
    [][/\ StepsLeft' \in 0..StepsLeft
       /\ Driver \/ Setup => StepsLeft' < StepsLeft]_vars

(* What StepsLeft is at each point.                                        *)
Counted ==
    /\ pc \in {"done", "exited", "aborted"} => StepsLeft = 0
    /\ pc = "report" => StepsLeft = 1
    /\ pc = "score" => StepsLeft = JobsAhead + 1
    /\ pc \in {"ask", "kill"} => StepsLeft = JobsAhead + 2
    /\ pc = "terminate" => StepsLeft = JobsAhead + 3
    /\ pc = "close" => StepsLeft = JobsAhead + 4
    /\ pc = "turn" => StepsLeft = JobsAhead + TurnsAhead + 1
    /\ pc = "tools" => StepsLeft = JobsAhead + TurnsAhead + 3 * q.todo + 1
    /\ pc = "waiting" => StepsLeft = JobsAhead + TurnsAhead + WaitingSteps
    /\ pc = "reading" => StepsLeft = JobsAhead + TurnsAhead + WaitingSteps - 1
    /\ pc = "listing" => StepsLeft = JobsAhead + TurnsAhead + 4
    /\ pc = "next" => StepsLeft = JobsAhead + JobSteps
    /\ pc = "hydrate" => StepsLeft = JobsAhead + JobSteps + 1
    /\ pc = "fetching" =>
         StepsLeft = JobsAhead + JobSteps + 1 + FetchAhead[fetch]
    /\ pc = "corpus" => StepsLeft = JobsAhead + JobSteps + 7

LEMMA CountedAlways == Counted /\ Counted'
  BY DEF Counted, StepsLeft, EndSteps, ClosingSteps

(* The parts of the sum are numbers, and there is a job ahead of each job  *)
(* that is under way.                                                      *)
LEMMA StepNumbers ==
    ASSUME Shape
    PROVE  /\ TurnSteps \in Nat /\ JobSteps \in Nat
           /\ JobSteps = TurnLimit * TurnSteps + 11
           /\ TurnLimit * TurnSteps \in Nat
           /\ JobsAhead \in Int /\ JobsAhead + JobSteps >= 2
           /\ job <= Total => JobsAhead >= 2
           /\ TurnsAhead \in Nat /\ TurnsAhead >= 4
           /\ TurnsAhead <= TurnLimit * TurnSteps + 4
           /\ q.turn = 0 => TurnsAhead = TurnLimit * TurnSteps + 4
           /\ q.todo \in Nat /\ q.todo <= MaxTools
           /\ FetchAhead[fetch] \in 0..5
  <1>1. /\ q.turn \in 0..TurnLimit /\ q.todo \in 0..MaxTools
        /\ Total \in Nat /\ job \in 1..(Total + 1)
        /\ FetchAhead[fetch] \in 0..5
    BY Lengths DEF Shape, TypeOK, CacheTypeOK, QuestionStates, FetchAhead
  <1>2. TurnSteps \in Nat
    BY DEF TurnSteps
  <1>3. TurnLimit * TurnSteps \in Nat
    BY <1>2, CallsCost
  <1>4. JobSteps \in Nat /\ JobSteps = TurnLimit * TurnSteps + 11
    BY <1>3 DEF JobSteps
  <1>5. (TurnLimit - q.turn) * TurnSteps \in Nat
        /\ (TurnLimit - q.turn) * TurnSteps <= TurnLimit * TurnSteps
    <2>1. TurnLimit - q.turn \in Nat /\ TurnLimit - q.turn <= TurnLimit
      BY <1>1
    <2> HIDE <1>1
    <2> QED
      BY <1>2, <2>1, CallsCost
  <1>6. /\ TurnsAhead \in Nat /\ TurnsAhead >= 4
        /\ TurnsAhead <= TurnLimit * TurnSteps + 4
        /\ q.turn = 0 => TurnsAhead = TurnLimit * TurnSteps + 4
    BY <1>1, <1>3, <1>5 DEF TurnsAhead, ClosingSteps
  <1>7. CASE job <= Total
    <2>1. Total - job \in Nat
      BY <1>1, <1>7
    <2>2. (Total - job) * JobSteps \in Nat
      BY <1>4, <2>1, CallsCost
    <2> QED
      BY <1>1, <1>2, <1>3, <1>4, <1>6, <2>2 DEF JobsAhead
  <1>8. CASE job = Total + 1
    <2>1. Total - job = -1
      BY <1>1, <1>8
    <2>2. JobsAhead = (-1) * JobSteps + 2
      BY <2>1 DEF JobsAhead
    <2>3. \A n \in Nat : (-1) * n + 2 \in Int /\ (-1) * n + 2 + n >= 2
      OBVIOUS
    <2>4. JobsAhead \in Int /\ JobsAhead + JobSteps >= 2
      BY <1>4, <2>2, <2>3
    <2> QED
      BY <1>1, <1>2, <1>3, <1>4, <1>6, <1>8, <2>4
  <1> QED
    BY <1>1, <1>7, <1>8

LEMMA StepsAreLeft == Shape => StepsLeft \in Nat
  <1> SUFFICES ASSUME Shape PROVE StepsLeft \in Nat
    OBVIOUS
  <1> USE StepNumbers, CountedAlways
  <1>1. CASE pc \in {"done", "exited", "aborted", "report"}
    BY <1>1 DEF Counted
  <1>2. CASE pc \in {"corpus", "fetching", "hydrate", "next"}
    BY <1>2 DEF Counted
  <1>3. CASE pc \in {"turn", "tools", "waiting", "reading", "listing"}
    BY <1>3 DEF Counted, Receiving, WaitingSteps, Shape, ControlInv, InJob
  <1>4. CASE pc \in {"ask", "close", "terminate", "kill", "score"}
    BY <1>4 DEF Counted, Shape, ControlInv, InJob
  <1> QED
    BY <1>1, <1>2, <1>3, <1>4 DEF Shape, TypeOK, Points

LEMMA StepsStayLeft == (Shape => StepsLeft \in Nat)'
  BY StepsAreLeft, PTL

LEMMA SameJob ==
    ASSUME UNCHANGED <<plan, job>>
    PROVE  JobsAhead' = JobsAhead
  BY DEF JobsAhead, Total, NArms, NQuestions

LEMMA SameTurn ==
    ASSUME q'.turn = q.turn
    PROVE  TurnsAhead' = TurnsAhead
  BY DEF TurnsAhead

(* The steps that are not the evaluation's own.                            *)
LEMMA OthersStepsStay ==
    ASSUME Shape, Server \/ FetchAlone \/ UNCHANGED vars
    PROVE  StepsLeft' = StepsLeft
  <1>1. /\ UNCHANGED <<plan, job, q>>
        /\ pc' = pc
    BY DEF Server, ServeHandshake, RefuseTool, ReadHead, BeginWrite,
           AppendEntry, EndLine, ServerExits, LateWrite, FetchAlone,
           runVars, driverVars, vars
  <1>2. pc \in Receiving => srv'.tool = srv.tool
    <2>1. srv \in Servers
      BY DEF Shape, TypeOK
    <2> QED
      BY <2>1 DEF Server, ServeHandshake, RefuseTool, ReadHead, BeginWrite,
                  AppendEntry, EndLine, ServerExits, LateWrite, Respond,
                  FetchAlone, runVars, vars, Servers
  <1>3. pc = "fetching" => fetch' = fetch
    BY DEF Server, ServeHandshake, RefuseTool, ReadHead, BeginWrite,
           AppendEntry, EndLine, ServerExits, LateWrite, FetchAlone,
           corpusVars, cacheVars, vars
  <1>4. pc \in Receiving => WaitingSteps' = WaitingSteps
    BY <1>1, <1>2 DEF WaitingSteps
  <1>5. JobsAhead' = JobsAhead /\ TurnsAhead' = TurnsAhead
    BY <1>1, SameJob, SameTurn
  <1>6. pc \in Points
    BY DEF Shape, TypeOK
  <1> QED
    BY <1>1, <1>3, <1>4, <1>5, <1>6, CountedAlways
       DEF Counted, Points, Receiving

LEMMA SetupRunsDown ==
    ASSUME Shape, Setup
    PROVE  StepsLeft' < StepsLeft
  <1>1. UNCHANGED <<plan, job>>
    BY DEF Setup, LoadLocal, FetchFirst, Hydrate, LoadCached, LoadMissing,
           runVars, driverVars
  <1>2. JobsAhead' = JobsAhead
    BY <1>1, SameJob
  <1>3. \/ pc = "corpus" /\ pc' \in {"hydrate", "exited"}
        \/ pc = "corpus" /\ pc' = "fetching" /\ FetchAhead[fetch'] = 5
        \/ pc = "fetching" /\ pc' = "hydrate" /\ FetchAhead[fetch] = 1
        \/ pc = "fetching" /\ pc' = "exited"
        \/ /\ pc = "fetching" /\ pc' = "fetching"
           /\ FetchAhead[fetch'] = FetchAhead[fetch] - 1
        \/ pc = "hydrate" /\ pc' \in {"next", "exited"}
    BY DEF Setup, LoadLocal, FetchFirst, Hydrate, LoadCached, LoadMissing,
           StartFetch, FetchStep, Downloaded, WriteBodyTemp, WriteProvTemp,
           ReplaceBody, ReplaceProv, FetchAhead
  <1>4. CASE pc = "corpus"
    BY <1>2, <1>3, <1>4, StepNumbers, CountedAlways DEF Counted
  <1>5. CASE pc = "fetching" /\ pc' = "fetching"
    BY <1>2, <1>3, <1>5, StepNumbers, CountedAlways DEF Counted
  <1>6. CASE pc \in {"fetching", "hydrate"} /\ pc' # "fetching"
    BY <1>2, <1>3, <1>6, StepNumbers, CountedAlways DEF Counted
  <1> QED
    BY <1>3, <1>4, <1>5, <1>6

(* The steps that enter or leave a question.                               *)
LEMMA LoopRunsDown ==
    ASSUME Shape,
           \/ Halt \/ StartGated \/ SpawnFails \/ StartUngated
           \/ Abort \/ Score \/ Finish \/ WriteReport
    PROVE  StepsLeft' < StepsLeft
  <1> USE StepNumbers, CountedAlways
  <1>1. CASE Halt \/ Finish
    <2>1. pc = "next" /\ pc' = "report"
      BY <1>1 DEF Halt, Finish
    <2> QED
      BY <2>1 DEF Counted
  <1>2. CASE StartGated \/ SpawnFails \/ StartUngated
    <2>1. /\ pc = "next" /\ job <= Total /\ UNCHANGED <<plan, job>>
          /\ q'.turn = 0
          /\ \/ pc' = "waiting" /\ srv'.tool = "initialize"
             \/ pc' \in {"aborted", "ask"}
      <3>1. \E arm : StartJob(arm)
        BY <1>2, Zenon DEF StartGated, SpawnFails, StartUngated
      <3>2. /\ pc = "next" /\ job <= Total /\ UNCHANGED <<plan, job>>
            /\ q'.turn = 0
        BY <3>1 DEF StartJob, driverVars, Fresh
      <3>3. \/ pc' = "waiting" /\ srv'.tool = "initialize"
            \/ pc' \in {"aborted", "ask"}
        BY <1>2 DEF StartGated, SpawnFails, StartUngated, NoServer
      <3> QED
        BY <3>2, <3>3
    <2>2. JobsAhead' = JobsAhead
      BY <2>1, SameJob
    <2>3. TurnsAhead' = TurnLimit * TurnSteps + 4
      <3>1. TurnsAhead' = (TurnLimit - 0) * TurnSteps + 4
        BY <2>1 DEF TurnsAhead, ClosingSteps
      <3>2. TurnLimit - 0 = TurnLimit
        OBVIOUS
      <3> QED
        BY <3>1, <3>2
    <2>4. pc' = "waiting" => WaitingSteps' = 6
      BY <2>1 DEF WaitingSteps
    <2> QED
      BY <2>1, <2>2, <2>3, <2>4 DEF Counted
  <1>3. CASE Abort
    <2>1. pc = "score" /\ pc' = "aborted"
      BY <1>3 DEF Abort
    <2> QED
      BY <2>1 DEF Counted, Shape, ControlInv, InJob
  <1>4. CASE Score
    <2>1. pc = "score" /\ pc' = "next" /\ job' = job + 1 /\ plan' = plan
      BY <1>4 DEF Score
    <2>2. job <= Total /\ Total' = Total /\ Total - job \in Nat
      <3>1. Total' = Total
        BY <2>1 DEF Total, NArms, NQuestions
      <3>2. job <= Total /\ job \in 1..(Total + 1)
        BY <2>1 DEF Shape, TypeOK, ControlInv, InJob
      <3>3. Total \in Nat
        BY Lengths DEF Shape, TypeOK
      <3> QED
        BY <3>1, <3>2, <3>3
    <2>3. JobsAhead' = JobsAhead - JobSteps
      <3>1. PICK k \in Nat : k = Total - job
        BY <2>2
      <3>2. Total - (job + 1) = k - 1 /\ job \in Nat /\ Total \in Nat
        BY <3>1, Lengths DEF Shape, TypeOK
      <3>3. \A n \in Nat : (k - 1) * n = k * n - n /\ k * n \in Int
        OBVIOUS
      <3> QED
        BY <2>1, <2>2, <3>1, <3>2, <3>3 DEF JobsAhead
    <2> QED
      BY <2>1, <2>2, <2>3 DEF Counted
  <1>5. CASE WriteReport
    <2>1. pc = "report" /\ pc' \in {"done", "aborted"}
      BY <1>5 DEF WriteReport
    <2> QED
      BY <2>1 DEF Counted
  <1> QED
    BY <1>1, <1>2, <1>3, <1>4, <1>5

(* The turns of a question, its tools and what the server answers.         *)
LEMMA QuestionRunsDown ==
    ASSUME Shape,
           \/ Initialized \/ ListTools \/ Listed \/ ToolAnswered
           \/ ReadLine \/ SawExit \/ TimedOut
           \/ TurnsUsedUp \/ DeadlinePassed \/ WantsTools \/ FinalText
           \/ ModelFails \/ CallTool
           \/ ClosePipes \/ Terminate \/ Kill \/ Overflows \/ Ask
    PROVE  StepsLeft' < StepsLeft
  <1> USE StepNumbers, CountedAlways
  <1>0. /\ q \in QuestionStates /\ srv \in Servers
        /\ UNCHANGED <<plan, job>>
    BY DEF Initialized, ListTools, Listed, ToolAnswered, ReadLine, SawExit,
           TimedOut, TurnsUsedUp, DeadlinePassed, WantsTools, FinalText,
           ModelFails, CallTool, ClosePipes, Terminate, Kill, Overflows, Ask,
           StructuredBareOverflows, BareOverflows, GivesUp,
           AskStructuredBare, AskBare, AskPromptOnly, Asks, driverVars,
           Shape, TypeOK
  <1>1. JobsAhead' = JobsAhead
    BY <1>0, SameJob
  <1>2. /\ pc \in InJob => JobsAhead >= 2
        /\ pc \in Receiving => WaitingSteps \in Nat /\ WaitingSteps >= 3
    BY DEF Shape, ControlInv, WaitingSteps, Control, Receiving
  <1>3. CASE \/ SawExit \/ TimedOut \/ TurnsUsedUp \/ DeadlinePassed
             \/ FinalText \/ ModelFails
    <2>1. pc \in {"waiting", "reading", "turn"} /\ pc' = "close"
      BY <1>3 DEF SawExit, TimedOut, CutOff, TurnsUsedUp, DeadlinePassed,
                  FinalText, ModelFails, MayAsk, Fail
    <2> QED
      BY <1>1, <1>2, <2>1 DEF Counted, Receiving
  <1>4. CASE ClosePipes \/ Terminate \/ Kill \/ Overflows \/ Ask
    <2>1. \/ pc = "close" /\ pc' \in {"terminate", "score"}
          \/ pc = "terminate" /\ pc' \in {"kill", "score"}
          \/ pc \in {"kill", "ask"} /\ pc' = "score"
      BY <1>4 DEF ClosePipes, Terminate, Kill, Overflows, Ask,
           StructuredBareOverflows, BareOverflows, GivesUp,
           AskStructuredBare, AskBare, AskPromptOnly, Asks
    <2> QED
      BY <1>1, <1>2, <2>1 DEF Counted, InJob
  <1>5. CASE Initialized \/ Listed
    <2>1. /\ pc \in Receiving /\ q'.turn = q.turn
          /\ \/ srv.tool = "initialize" /\ pc' = "listing"
             \/ srv.tool = "tools/list" /\ pc' = "turn"
      BY <1>0, <1>5 DEF Initialized, Listed, Answered, Takes, Receiving,
                        QuestionStates
    <2>2. TurnsAhead' = TurnsAhead
      BY <2>1, SameTurn
    <2> QED
      BY <1>1, <2>1, <2>2 DEF Counted, WaitingSteps, Receiving
  <1>6. CASE ListTools
    <2>1. /\ pc = "listing" /\ q'.turn = q.turn
          /\ \/ pc' = "waiting" /\ srv'.tool = "tools/list"
             \/ pc' = "close"
      BY <1>0, <1>6 DEF ListTools, Request, Fail, QuestionStates, Servers
    <2>2. TurnsAhead' = TurnsAhead
      BY <2>1, SameTurn
    <2>3. pc' = "waiting" => WaitingSteps' = 3
      BY <2>1 DEF WaitingSteps
    <2> QED
      BY <1>1, <2>1, <2>2, <2>3 DEF Counted
  <1>7. CASE ToolAnswered
    <2>1. /\ pc \in Receiving /\ srv.tool \notin Control /\ q.todo >= 1
          /\ q'.turn = q.turn /\ q'.todo = q.todo - 1
          /\ pc' = IF q.todo = 1 THEN "turn" ELSE "tools"
      BY <1>0, <1>7 DEF ToolAnswered, Answered, Receiving, QuestionStates,
                        Control, Shape, ControlInv
    <2>2. TurnsAhead' = TurnsAhead
      BY <2>1, SameTurn
    <2>3. WaitingSteps = 3 * q.todo
      BY <2>1 DEF WaitingSteps, Control
    <2> QED
      BY <1>1, <2>1, <2>2, <2>3 DEF Counted, Receiving
  <1>8. CASE CallTool
    <2>1. /\ pc = "tools" /\ q'.turn = q.turn /\ q'.todo = q.todo
          /\ \/ pc' = "waiting"
             \/ pc' = "close"
      BY <1>0, <1>8 DEF CallTool, Request, Fail, QuestionStates
    <2>2. pc' = "waiting" => WaitingSteps' = 3 * q.todo
      <3>1. Offered(Question(job)) \subseteq Tools
        <4>1. pc \in InJob /\ job \in Nat /\ 1 <= job /\ plan \in Plans
          BY <2>1, Lengths DEF InJob, Shape, TypeOK
        <4> QED
          BY <4>1, JobIsPlanned DEF Offered, Shape, ControlInv
      <3>2. \A t \in Tools \cup {"claim_finding"} : t \notin Control
        BY ToolsAssumption DEF Control
      <3>3. PICK t \in Tools \cup {"claim_finding"} :
              \E c \in SUBSET q.ids \cup {{}} : Request(t, c)
        BY <1>8, <3>1 DEF CallTool
      <3>4. pc' = "waiting" => srv'.tool \notin Control
        BY <1>0, <3>2, <3>3, RequestTool
      <3> QED
        BY <2>1, <3>4 DEF WaitingSteps, Control
    <2>3. TurnsAhead' = TurnsAhead
      BY <2>1, SameTurn
    <2> QED
      BY <1>1, <2>1, <2>2, <2>3 DEF Counted
  <1>9. CASE WantsTools
    <2>1. PICK n \in 1..Question(job).uses :
            /\ pc = "turn" /\ pc' = "tools" /\ q.turn < TurnLimit
            /\ q'.turn = q.turn + 1 /\ q'.todo = n
      BY <1>0, <1>9 DEF WantsTools, MayAsk, QuestionStates
    <2>2. n \in Nat /\ n <= MaxTools
      <3>1. Question(job).uses \in 1..MaxTools
        BY <2>1, JobIsPlanned, Lengths DEF Shape, TypeOK, ControlInv, InJob
      <3> QED
        BY <2>1, <3>1
    <2>3. TurnsAhead = TurnsAhead' + TurnSteps /\ TurnsAhead' \in Nat
      <3>1. PICK k \in Nat : k = TurnLimit - (q.turn + 1)
        BY <1>0, <2>1 DEF QuestionStates
      <3>2. TurnLimit - q.turn = k + 1
        BY <1>0, <3>1 DEF QuestionStates
      <3>3. (k + 1) * TurnSteps = k * TurnSteps + TurnSteps
            /\ k * TurnSteps \in Nat
        BY CallsCost
      <3>4. TurnsAhead' = k * TurnSteps + 4
            /\ TurnsAhead = (k + 1) * TurnSteps + 4
        BY <2>1, <3>1, <3>2 DEF TurnsAhead, ClosingSteps
      <3> QED
        BY <3>3, <3>4
    <2> QED
      BY <1>1, <2>1, <2>2, <2>3 DEF Counted, TurnSteps
  <1>10. CASE ReadLine
    <2>1. pc = "waiting" /\ pc' = "reading" /\ q' = q /\ srv' = srv
      BY <1>10 DEF ReadLine
    <2>2. TurnsAhead' = TurnsAhead /\ WaitingSteps' = WaitingSteps
      BY <2>1, SameTurn DEF WaitingSteps
    <2> QED
      BY <1>1, <1>2, <2>1, <2>2 DEF Counted, Receiving
  <1> QED
    BY <1>3, <1>4, <1>5, <1>6, <1>7, <1>8, <1>9, <1>10

(* An evaluation does not run in circles: whatever fails, is refused or    *)
(* times out, each step of its own reduces the number it has left, and no  *)
(* step of a server raises it (run_eval, _run_one_sanctum_question).       *)
THEOREM NoCircles == Spec => RunsDown
  <1>1. Init => Shape
    BY InitType, InitReaped DEF Shape
  <1>2. ASSUME Shape, [Next]_vars, Driver \/ Setup
        PROVE  StepsLeft' < StepsLeft
    BY <1>2, SetupRunsDown, LoopRunsDown, QuestionRunsDown DEF Driver
  <1>3. ASSUME Shape, Shape', [Next]_vars
        PROVE  StepsLeft' \in 0..StepsLeft
    <2>1. StepsLeft \in Nat
      BY <1>3, StepsAreLeft
    <2>2. StepsLeft' \in Nat
      BY <1>3, StepsStayLeft
    <2>3. StepsLeft' <= StepsLeft
      BY <1>2, <1>3, <2>1, <2>2, OthersStepsStay DEF Next
    <2> QED
      BY <2>1, <2>2, <2>3
  <1>4. Shape /\ Shape' /\ [Next]_vars =>
          [/\ StepsLeft' \in 0..StepsLeft
           /\ Driver \/ Setup => StepsLeft' < StepsLeft]_vars
    BY <1>2, <1>3
  <1> QED
    BY <1>1, <1>4, NextType, PTL DEF Spec, RunsDown

=============================================================================
