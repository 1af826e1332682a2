-------------------------- MODULE EvalReportProofs --------------------------
(***************************************************************************)
(* Proofs about what EvalDriver reports: which corpus it used, that it is  *)
(* complete or says it is not, that its verdicts are on the ledger all the *)
(* servers of the evaluation share, and that its aggregates add up.        *)
(***************************************************************************)
EXTENDS EvalDriverProofs, FoldInduction

-----------------------------------------------------------------------------
(* The corpus.                                                             *)

Loading == {"corpus", "fetching", "hydrate"}

(* The two replacements of a fetch, seen from in between.                  *)
CacheInv ==
    /\ fetch = "both" => "prov" \in temps
    /\ fetch = "replaced" => body = want
    /\ StaleProvenanceLeavesTemp

CorpusInv ==
    /\ CacheInv
    /\ loaded # None => pc \notin Loading
    /\ pc = "fetching" => given = want
    /\ (pc = "hydrate" /\ plan.source = "upstream") =>
         /\ given \in {None, body}
         /\ "prov" \notin temps => commit = body
    /\ VerifiedCorpus

(* The fetcher's own steps.                                                *)
LEMMA FetchSteps ==
    ASSUME CacheInv,
           \/ FetchStep \/ ReplaceProv \/ FetchFails
           \/ \E sha \in Revisions \cup {None} : StartFetch(sha)
    PROVE  CacheInv'
  <1>1. CASE FetchStep
    BY <1>1 DEF FetchStep, Downloaded, WriteBodyTemp, WriteProvTemp,
       ReplaceBody, CacheInv, StaleProvenanceLeavesTemp
  <1>2. CASE ReplaceProv
    BY <1>2 DEF ReplaceProv, CacheInv, StaleProvenanceLeavesTemp
  <1>3. CASE FetchFails
    BY <1>3 DEF FetchFails, CacheInv, StaleProvenanceLeavesTemp
  <1>4. CASE \E sha \in Revisions \cup {None} : StartFetch(sha)
    BY <1>4 DEF StartFetch, CacheInv, StaleProvenanceLeavesTemp
  <1> QED
    BY <1>1, <1>2, <1>3, <1>4

LEMMA CorpusQuiet ==
    ASSUME CorpusInv, UNCHANGED corpusVars, plan' = plan,
           pc' = pc \/ pc' \notin Loading
    PROVE  CorpusInv'
  BY DEF CorpusInv, CacheInv, StaleProvenanceLeavesTemp, VerifiedCorpus,
     corpusVars, cacheVars, Loading

LEMMA CorpusSetup ==
    ASSUME Shape, CorpusInv, Setup \/ FetchAlone
    PROVE  CorpusInv'
  <1> USE DEF CorpusInv, VerifiedCorpus, Loading
  <1>0. plan' = plan
    BY DEF Setup, FetchAlone, LoadLocal, FetchFirst, Hydrate, LoadCached,
           LoadMissing, runVars, driverVars
  <1>1. CASE FetchAlone
    <2>1. CacheInv'
      BY <1>1, FetchSteps DEF FetchAlone
    <2> QED
      BY <1>0, <1>1, <2>1 DEF FetchAlone
  <1>2. CASE LoadLocal
    BY <1>0, <1>2 DEF LoadLocal, CacheInv, StaleProvenanceLeavesTemp,
       corpusVars, cacheVars
  <1>3. CASE FetchFirst
    <2>1. CacheInv'
      BY <1>3, FetchSteps DEF FetchFirst
    <2>2. CASE ReplaceProv /\ pc' = "hydrate" /\ commit' = want
      BY <1>0, <1>3, <2>1, <2>2 DEF FetchFirst, ReplaceProv, CacheInv
    <2>3. CASE FetchStep /\ UNCHANGED <<pc, commit>>
      <3>1. want' = want
        BY <2>3 DEF FetchStep, Downloaded, WriteBodyTemp, WriteProvTemp,
           ReplaceBody
      <3> QED
        BY <1>0, <1>3, <2>1, <2>3, <3>1 DEF FetchFirst
    <2>4. CASE FetchFails /\ pc' = "exited" /\ UNCHANGED commit
      BY <1>0, <1>3, <2>1, <2>4 DEF FetchFirst
    <2> QED
      BY <1>3, <2>2, <2>3, <2>4 DEF FetchFirst
  <1>4. CASE Hydrate
    <2>1. plan.source \in {"local", "upstream"}
      BY PlansAssumption DEF Shape, TypeOK
    <2> QED
      BY <1>0, <1>4, <2>1 DEF Hydrate, CacheInv, StaleProvenanceLeavesTemp,
         cacheVars
  <1>5. ASSUME NEW sha \in Revisions \cup {None}, LoadCached(sha)
        PROVE  CorpusInv'
    BY <1>0, <1>5 DEF LoadCached, DigestOk, CacheInv,
       StaleProvenanceLeavesTemp, cacheVars
  <1>6. ASSUME NEW sha \in Revisions \cup {None}, LoadMissing(sha)
        PROVE  CorpusInv'
    <2>1. CASE sha = None
      BY <1>0, <1>6, <2>1 DEF LoadMissing, CacheInv,
         StaleProvenanceLeavesTemp, cacheVars
    <2>2. CASE sha # None
      <3>1. StartFetch(sha) /\ pc' = "fetching" /\ given' = sha
        BY <1>6, <2>2 DEF LoadMissing
      <3>2. CacheInv'
        BY <1>6, <3>1, FetchSteps
      <3> QED
        BY <1>0, <1>6, <3>1, <3>2 DEF LoadMissing, StartFetch
    <2> QED
      BY <2>1, <2>2
  <1> QED
    BY <1>1, <1>2, <1>3, <1>4, <1>5, <1>6 DEF Setup

(* The evaluation itself leaves the corpus alone.                          *)
LEMMA CorpusRun ==
    ASSUME Driver \/ Server \/ UNCHANGED vars
    PROVE  UNCHANGED corpusVars /\ plan' = plan /\ (pc' = pc \/ pc' \notin Loading)
  <1> USE DEF driverVars, Loading
  <1>1. CASE Server \/ UNCHANGED vars
    BY <1>1 DEF Server, ServeHandshake, RefuseTool, ReadHead, BeginWrite,
       AppendEntry, EndLine, ServerExits, LateWrite, vars
  <1>2. CASE \/ Halt \/ StartGated \/ SpawnFails \/ StartUngated
             \/ Finish \/ Score \/ Abort \/ WriteReport
    BY <1>2 DEF Halt, StartGated, SpawnFails, StartUngated, StartJob, Finish,
       Score, Abort, WriteReport
  <1>3. CASE \/ Initialized \/ ListTools \/ Listed \/ ToolAnswered
             \/ ReadLine \/ SawExit \/ TimedOut \/ CallTool
    BY <1>3 DEF Initialized, ListTools, Listed, ToolAnswered, ReadLine,
       SawExit, TimedOut, Answered, CutOff, CallTool, Request, Fail
  <1>4. CASE TurnsUsedUp \/ DeadlinePassed \/ WantsTools \/ FinalText \/ ModelFails
    BY <1>4 DEF TurnsUsedUp, DeadlinePassed, WantsTools, FinalText,
       ModelFails, Fail
  <1>5. CASE ClosePipes \/ Terminate \/ Kill \/ Overflows \/ Ask
    BY <1>5 DEF ClosePipes, Terminate, Kill, Overflows, Ask,
       StructuredBareOverflows, BareOverflows, AskStructuredBare, AskBare,
       AskPromptOnly, GivesUp, Asks
  <1> QED
    BY <1>1, <1>2, <1>3, <1>4, <1>5 DEF Driver

LEMMA CorpusStep == Shape /\ CorpusInv /\ [Next]_vars => CorpusInv'
  BY CorpusSetup, CorpusRun, CorpusQuiet DEF Next

LEMMA InitCorpus == Init => CorpusInv
  BY NoneIsNoRevision DEF Init, CacheInit, CorpusInv, CacheInv,
     StaleProvenanceLeavesTemp, VerifiedCorpus

(* A record of provenance that is not that of the cached corpus has its    *)
(* temporary file beside it (fetch_dfir_metric.py fetch_upstream).         *)
THEOREM StaleIsTold == Spec => []StaleProvenanceLeavesTemp
  <1>1. Init => Shape /\ CorpusInv
    BY InitType, InitReaped, InitCorpus DEF Shape
  <1>2. Shape /\ CorpusInv /\ [Next]_vars => (Shape /\ CorpusInv)'
    BY NextType, CorpusStep
  <1>3. CorpusInv => StaleProvenanceLeavesTemp
    BY DEF CorpusInv, CacheInv
  <1> QED
    BY <1>1, <1>2, <1>3, PTL DEF Spec

(* The questions come from the corpus whose digest was given, and the      *)
(* report names it (run_dfir_metric_eval.py main, hydrate).                *)
THEOREM CorpusVerified == Spec => []VerifiedCorpus
  <1>1. Init => Shape /\ CorpusInv
    BY InitType, InitReaped, InitCorpus DEF Shape
  <1>2. Shape /\ CorpusInv /\ [Next]_vars => (Shape /\ CorpusInv)'
    BY NextType, CorpusStep
  <1>3. CorpusInv => VerifiedCorpus
    BY DEF CorpusInv
  <1> QED
    BY <1>1, <1>2, <1>3, PTL DEF Spec

-----------------------------------------------------------------------------
(* The rows and the loop.                                                  *)

RowSet ==
    [job : Nat, arm : Arms,
     predicted : Markers \cup Answers \cup {Escaped, None},
     correct : BOOLEAN, claim : Verdicts, ids : SUBSET Ids]

Over == {"report", "done", "aborted"}

(* One row for each job that is over; the report is partial exactly if a   *)
(* job is left.                                                            *)
PartInv ==
    /\ rows \in Seq(RowSet)
    /\ Len(rows) = job - 1
    /\ partial \in BOOLEAN
    /\ partial => pc \in Over /\ job <= Total
    /\ (pc \in {"report", "done"} /\ ~partial) => job = Total + 1

LEMMA ArmsOfPlan == Shape => ArmNames \subseteq Arms
  <1> SUFFICES ASSUME Shape PROVE ArmNames \subseteq Arms
    OBVIOUS
  <1>1. plan.arms \in Seq(Arms)
    BY PlansAssumption DEF Shape, TypeOK
  <1> QED
    BY <1>1, ElementOfSeq DEF ArmNames, NArms

LEMMA RowType ==
    ASSUME Shape, pc = "score"
    PROVE  Row \in RowSet
  <1>1. q \in QuestionStates /\ job \in Nat /\ 1 <= job /\ job <= Total
    BY Lengths DEF Shape, TypeOK, ControlInv, InJob
  <1>2. Arm(job) \in Arms
    <2>1. Arm(job) \in ArmNames
      BY <1>1, JobIsPlanned DEF Shape, TypeOK
    <2> QED
      BY <2>1, ArmsOfPlan
  <1>3. Correct(Arm(job), Question(job)) \in BOOLEAN
    <2>1. ASSUME NEW x PROVE GatedCorrect(x) \in BOOLEAN
      <3>1. CASE IsAdversarial(x)
        BY <3>1 DEF GatedCorrect
      <3>2. CASE ~IsAdversarial(x)
        BY <3>2 DEF GatedCorrect
      <3> QED
        BY <3>1, <3>2
    <2>2. /\ \A x : StructuredBareCorrect(x) \in BOOLEAN
          /\ \A x : PromptOnlyCorrect(x) \in BOOLEAN
          /\ BareCorrect \in BOOLEAN
      BY DEF StructuredBareCorrect, PromptOnlyCorrect, BareCorrect, Matches
    <2> QED
      BY <2>1, <2>2 DEF Correct
  <1> QED
    BY <1>1, <1>2, <1>3 DEF Row, RowSet, QuestionStates, SomeIds

(* All steps but those that write a row or go to the report.               *)
LEMMA PlainStep ==
    ASSUME [Next]_vars, ~Halt, ~Finish, ~Score, ~WriteReport
    PROVE  /\ UNCHANGED <<plan, job, rows, partial>>
           /\ \/ pc' = pc
              \/ pc \notin Over /\ pc' \notin {"report", "done"}
  <1> USE DEF driverVars, Over
  <1>1. CASE Server \/ UNCHANGED vars
    BY <1>1 DEF Server, ServeHandshake, RefuseTool, ReadHead, BeginWrite,
       AppendEntry, EndLine, ServerExits, LateWrite, vars
  <1>2. CASE Setup \/ FetchAlone
    BY <1>2 DEF Setup, FetchAlone, LoadLocal, FetchFirst, Hydrate,
       LoadCached, LoadMissing, runVars
  <1>3. CASE StartGated \/ SpawnFails \/ StartUngated \/ Abort
    BY <1>3 DEF StartGated, SpawnFails, StartUngated, StartJob, Abort
  <1>4. CASE \/ Initialized \/ ListTools \/ Listed \/ ToolAnswered
             \/ ReadLine \/ SawExit \/ TimedOut \/ CallTool
    BY <1>4 DEF Initialized, ListTools, Listed, ToolAnswered, ReadLine,
       SawExit, TimedOut, Answered, CutOff, CallTool, Request, Fail
  <1>5. CASE TurnsUsedUp \/ DeadlinePassed \/ WantsTools \/ FinalText \/ ModelFails
    BY <1>5 DEF TurnsUsedUp, DeadlinePassed, WantsTools, FinalText,
       ModelFails, Fail, MayAsk
  <1>6. CASE ClosePipes \/ Terminate \/ Kill \/ Overflows \/ Ask
    BY <1>6 DEF ClosePipes, Terminate, Kill, Overflows, Ask,
       StructuredBareOverflows, BareOverflows, AskStructuredBare, AskBare,
       AskPromptOnly, GivesUp, Asks
  <1> QED
    BY <1>1, <1>2, <1>3, <1>4, <1>5, <1>6 DEF Next, Driver

LEMMA PartStep == Shape /\ PartInv /\ [Next]_vars => PartInv'
  <1> SUFFICES ASSUME Shape, PartInv, [Next]_vars
               PROVE  PartInv'
    OBVIOUS
  <1>0. Total \in Nat /\ job \in 1..(Total + 1)
    BY Lengths DEF Shape, TypeOK
  <1>1. plan' = plan => Total' = Total
    BY DEF Total, NArms, NQuestions
  <1> USE DEF PartInv, Over
  <1>2. CASE ~Halt /\ ~Finish /\ ~Score /\ ~WriteReport
    BY <1>1, <1>2, PlainStep
  <1>3. CASE Halt
    BY <1>1, <1>3 DEF Halt
  <1>4. CASE Finish
    BY <1>0, <1>1, <1>4 DEF Finish, driverVars
  <1>5. CASE WriteReport
    BY <1>1, <1>5 DEF WriteReport
  <1>6. CASE Score
    <2>1. /\ Row \in RowSet /\ rows' = Append(rows, Row) /\ job' = job + 1
          /\ pc = "score" /\ pc' = "next" /\ partial' = partial /\ plan' = plan
      BY <1>6, RowType DEF Score
    <2>2. rows' \in Seq(RowSet) /\ Len(rows') = Len(rows) + 1
      BY <2>1, AppendProperties
    <2> QED
      BY <1>0, <2>1, <2>2
  <1> QED
    BY <1>2, <1>3, <1>4, <1>5, <1>6

LEMMA InitPart == Init => PartInv
  <1> SUFFICES ASSUME Init PROVE PartInv
    OBVIOUS
  <1>1. rows = <<>> /\ job = 1 /\ pc = "corpus"
    BY DEF Init
  <1>2. partial \in BOOLEAN /\ ~partial
    BY DEF Init
  <1>3. pc \notin Over
    BY <1>1 DEF Over
  <1>4. rows \in Seq(RowSet) /\ Len(rows) = 0
    BY <1>1, EmptySeq
  <1> QED
    BY <1>1, <1>2, <1>3, <1>4 DEF PartInv, Over

(* A report that was written is complete, or says that it is partial       *)
(* (run_dfir_metric_eval.py run_eval).                                     *)
THEOREM Complete == Spec => []PartialIsHonest
  <1>1. Init => Shape /\ PartInv
    BY InitType, InitReaped, InitPart DEF Shape
  <1>2. Shape /\ PartInv /\ [Next]_vars => (Shape /\ PartInv)'
    BY NextType, PartStep
  <1>3. Shape /\ PartInv => PartialIsHonest
    <2>1. Shape => Total \in Nat /\ job \in 1..(Total + 1)
      BY Lengths DEF Shape, TypeOK
    <2> QED
      BY <2>1 DEF PartInv, PartialIsHonest
  <1> QED
    BY <1>1, <1>2, <1>3, PTL DEF Spec

-----------------------------------------------------------------------------
(* Invariants about families.  An id begins with the job of the request    *)
(* that made it, and the tools of a job are those of its question.         *)

Claim == "claim_finding"

EntryOk(e) == e.tool = Claim \/ e.tool \in Question(e.id[1]).families

Hedged(tier, j) ==
    Cardinality(Question(j).families) = 1 => tier \in {None, "DRAFT"}

Own(ids) == \A id \in ids : id[1] = job

LedgerFam == \A k \in DOMAIN ledger : EntryOk(ledger[k])

LateFam == \A e \in late : EntryOk(e)

(* A request is one of this job, and cites what this job was answered; the *)
(* verdict a server is writing has been found already.                     *)
RequestFam ==
    /\ (srv.at # "idle" /\ srv.tool \notin Control) =>
         /\ srv.id[1] = job
         /\ Own(srv.cites)
         /\ srv.tool = Claim \/ srv.tool \in Question(job).families
    /\ srv.at = "writing" => srv.tool \notin Control /\ Hedged(srv.tier, job)

AnswerFam ==
    srv.answer # None => Own(srv.answer.ids) /\ Hedged(srv.answer.tier, job)

QuestionFam == Own(q.ids) /\ Hedged(q.claim, job)

RowFam == \A i \in DOMAIN rows : Hedged(rows[i].claim, rows[i].job)

Apart == pc \in Between => srv.at = "idle" /\ srv.answer = None

FamInv ==
    /\ LedgerFam /\ LateFam /\ RequestFam /\ AnswerFam /\ QuestionFam
    /\ RowFam /\ Apart

-----------------------------------------------------------------------------
(* Invariants about the trail, as long as no server has been left behind.  *)

(* The lines of the ledger whose newline is there: no write changes them.  *)
Ended == IF tail = "unended" THEN 1..(Len(ledger) - 1) ELSE 1..Len(ledger)

Damage == IF unended # 0 THEN unended ELSE torn

(* The ids and the verdict are on the ledger, made in job j, and there are *)
(* none if the ledger was damaged before that job; except for the one id   *)
(* of the entry that was written after one without its newline.            *)
Lone(ids) == \E id \in ids : ids = {id}

Backed(ids, tier, j) ==
    /\ \/ \A id \in ids :
            \E k \in Ended : ledger[k].id = id /\ ledger[k].job = j
       \/ unended \in 1..(torn - 1) /\ j = torn /\ Lone(ids)
    /\ tier # None =>
         \E k \in Ended :
           /\ ledger[k].job = j /\ ledger[k].id \in ids
           /\ ledger[k].tier = tier
    /\ (Damage # 0 /\ Damage < j) =>
         /\ tier = None
         /\ ids = {} \/ (j = torn /\ Lone(ids))

ChainOk == \A i \in DOMAIN ledger : ledger[i].prev = i - 1

TailParses == tail \in {"whole", "unended"}

Begun == InJob \cup {"aborted"}

(* How the last line and the jobs that damaged it belong together: the     *)
(* server of such a job is gone, and the next write tears the ledger.      *)
TailOk ==
    /\ torn <= job /\ unended <= job
    /\ torn = 0 <=> TailParses
    /\ torn = 0 => (unended # 0 <=> tail = "unended")
    /\ torn # 0 => unended < torn
    /\ tail = "unended" => unended < job \/ (~srv.up /\ pc \in Begun)

(* With such a line there is nothing to cite, and so no verdict.           *)
WriteOk ==
    /\ srv.at = "request" => srv.cites \subseteq q.ids
    /\ srv.at = "writing" => /\ torn = 0 /\ srv.prev = Len(ledger)
                             /\ unended # 0 => srv.tier = None

Verdict(answer) == IF answer.tier # None THEN answer.tier ELSE q.claim

AnswerOk ==
    srv.answer # None =>
      Backed(q.ids \cup srv.answer.ids, Verdict(srv.answer), job)

RowsOk ==
    \A i \in DOMAIN rows :
      rows[i].job < job /\ Backed(rows[i].ids, rows[i].claim, rows[i].job)

Alone ==
    /\ TailOk /\ ChainOk /\ WriteOk /\ AnswerOk /\ RowsOk
    /\ Backed(q.ids, q.claim, job)

TrailInv == leaked = {} => Alone

EvalInv == Shape /\ PartInv /\ FamInv /\ TrailInv

-----------------------------------------------------------------------------
(* What the types say, in the form the steps below need it.                *)
LEMMA Types ==
    ASSUME Shape, PartInv
    PROVE  /\ plan \in Plans /\ job \in Nat /\ 1 <= job
           /\ torn \in Nat /\ unended \in Nat
           /\ tail \in {"whole", "unended", "torn", "ended"}
           /\ q \in QuestionStates /\ srv \in Servers
           /\ ledger \in Seq(Entries) /\ Entry \in Entries
           /\ rows \in Seq(RowSet)
           /\ Len(ledger) \in Nat /\ DOMAIN ledger = 1..Len(ledger)
           /\ Len(rows) \in Nat /\ DOMAIN rows = 1..Len(rows)
           /\ \A k \in DOMAIN ledger : ledger[k] \in Entries
           /\ \A i \in DOMAIN rows : rows[i] \in RowSet
           /\ \A e \in late : e \in Entries
  <1>1. /\ plan \in Plans /\ job \in Nat /\ 1 <= job
        /\ torn \in Nat /\ unended \in Nat
        /\ tail \in {"whole", "unended", "torn", "ended"}
        /\ q \in QuestionStates /\ srv \in Servers
        /\ ledger \in Seq(Entries) /\ Entry \in Entries
        /\ \A e \in late : e \in Entries
    BY EntryType, Lengths DEF Shape, TypeOK
  <1>2. rows \in Seq(RowSet)
    BY DEF PartInv
  <1>3. /\ Len(ledger) \in Nat /\ DOMAIN ledger = 1..Len(ledger)
        /\ Len(rows) \in Nat /\ DOMAIN rows = 1..Len(rows)
    BY <1>1, <1>2, LenProperties
  <1>4. /\ \A k \in DOMAIN ledger : ledger[k] \in Entries
        /\ \A i \in DOMAIN rows : rows[i] \in RowSet
    BY <1>1, <1>2, <1>3, ElementOfSeq
  <1> QED
    BY <1>1, <1>2, <1>3, <1>4

LEMMA EntryFields ==
    /\ Entry.id = srv.id /\ Entry.job = job /\ Entry.tool = srv.tool
    /\ Entry.prev = srv.prev /\ Entry.tier = srv.tier
  BY DEF Entry

(* The plan of an evaluation is never changed.                             *)
LEMMA PlanStays ==
    ASSUME plan' = plan
    PROVE  \A j : Question(j)' = Question(j)
  BY DEF Question, NArms, NQuestions

-----------------------------------------------------------------------------
(* While a server runs, the driver is within a job.                        *)
LEMMA Running ==
    ASSUME Shape, srv.up
    PROVE  pc \in InJob \ {"ask", "score"} /\ 1 <= job /\ job <= Total
  <1>1. pc \in Points /\ job \in 1..(Total + 1) /\ pc \notin Between
    BY DEF Shape, TypeOK, ServersReaped
  <1>2. pc \in InJob \ {"ask", "score"}
    BY <1>1 DEF Points, Between, InJob
  <1> QED
    BY <1>1, <1>2, Lengths DEF Shape, TypeOK, ControlInv

(* A claim over evidence of one family is hedged: it is a draft, and a     *)
(* draft is not demoted.                                                   *)
LEMMA OneFamily ==
    ASSUME EvalInv, srv.at = "request", srv.tool = Claim, Citable(srv.cites),
           1 <= job, job <= Total, NEW t \in EvaluateClaim(srv.cites)
    PROVE  Hedged(t, job)
  <1> DEFINE F == Question(job).families
             G == FamiliesOf(srv.cites)
  <1>1. Shape /\ PartInv /\ LedgerFam /\ RequestFam
    BY DEF EvalInv, FamInv
  <1>2. G \subseteq F
    <2>1. /\ Own(srv.cites)
          /\ \A k \in DOMAIN ledger :
               ledger[k].id \in srv.cites => ledger[k].tool # Claim
      BY <1>1 DEF RequestFam, Control, Claim, Citable, FamiliesOf
    <2>2. ASSUME NEW k \in DOMAIN ledger, ledger[k].id \in srv.cites
          PROVE  ledger[k].tool \in F
      <3>1. ledger[k].id[1] = job
        BY <2>1, <2>2 DEF Own
      <3> QED
        BY <1>1, <2>1, <2>2, <3>1 DEF LedgerFam, EntryOk
    <2> QED
      BY <2>2 DEF FamiliesOf
  <1>3. IsFiniteSet(F)
    <2>1. F \subseteq Tools
      BY <1>1, Types, JobIsPlanned
    <2> QED
      BY <2>1, ToolsAssumption, FS_Subset
  <1>4. Cardinality(F) = 1 => Cardinality(G) <= 1
    BY <1>2, <1>3, FS_Subset
  <1>5. Cardinality(G) <= 1 => ClassifyConfidence(srv.cites) = "DRAFT"
    BY DEF ClassifyConfidence
  <1>6. ClassifyConfidence(srv.cites) = "DRAFT" => t = "DRAFT"
    <2>1. DOMAIN TEMPORAL_DEMOTION = {"FINAL", "CORROBORATED"}
      BY DEF TEMPORAL_DEMOTION
    <2> QED
      BY <2>1 DEF EvaluateClaim
  <1> QED
    BY <1>4, <1>5, <1>6 DEF Hedged

-----------------------------------------------------------------------------
(* Steps that touch neither the ledger nor the rows, nor what the server   *)
(* of the question is doing.                                               *)

Untouched == UNCHANGED <<plan, job, rows, ledgerFile, leaked, late>>

SameServer ==
    /\ srv'.up = srv.up /\ srv'.at = srv.at /\ srv'.tool = srv.tool
    /\ srv'.cites = srv.cites /\ srv'.id = srv.id /\ srv'.prev = srv.prev
    /\ srv'.tier = srv.tier /\ srv'.answer = srv.answer

SameQuestion == q'.ids = q.ids /\ q'.claim = q.claim

NewQuestion == pc \in Between /\ q'.ids = {} /\ q'.claim = None

Quiet ==
    /\ Untouched
    /\ SameServer
    /\ SameQuestion \/ NewQuestion
    /\ pc' \in Between => pc \in Between
    /\ pc \in Begun => pc' \in Begun

QuietSteps ==
    \/ Setup \/ FetchAlone \/ UNCHANGED vars
    \/ Halt \/ SpawnFails \/ StartUngated \/ Abort \/ Finish \/ WriteReport
    \/ Initialized \/ Listed \/ ReadLine \/ SawExit \/ TimedOut
    \/ TurnsUsedUp \/ DeadlinePassed \/ WantsTools \/ FinalText \/ ModelFails
    \/ Overflows \/ Ask \/ EndLine

LEMMA QuietEffect ==
    ASSUME Shape, QuietSteps
    PROVE  Quiet
  <1> USE DEF Quiet, Untouched, SameServer, SameQuestion, NewQuestion, Between,
              Begun, InJob, driverVars, ledgerVars
  <1>0. q \in QuestionStates /\ srv \in Servers
    BY DEF Shape, TypeOK
  <1>1. CASE Setup \/ FetchAlone
    BY <1>1 DEF Setup, FetchAlone, LoadLocal, FetchFirst, Hydrate,
       LoadCached, LoadMissing, runVars
  <1>2. CASE UNCHANGED vars
    BY <1>2 DEF vars
  <1>3. CASE Halt \/ Abort \/ Finish \/ WriteReport
    BY <1>3 DEF Halt, Abort, Finish, WriteReport
  <1>4. CASE SpawnFails \/ StartUngated
    <2>1. q' = Fresh /\ srv' = srv /\ pc = "next" /\ pc' \in {"aborted", "ask"}
      BY <1>4 DEF SpawnFails, StartUngated, StartJob
    <2>2. Untouched
      BY <1>4 DEF SpawnFails, StartUngated, StartJob
    <2> QED
      BY <2>1, <2>2 DEF Fresh
  <1>5. CASE Initialized \/ Listed \/ ReadLine \/ SawExit \/ TimedOut
    <2>1. /\ Untouched /\ srv' = srv /\ pc \in Receiving
          /\ pc' \in {"reading", "listing", "turn", "close"}
      BY <1>5 DEF Initialized, Listed, ReadLine, SawExit, TimedOut, Answered,
                  CutOff, Receiving
    <2>2. q'.ids = q.ids /\ q'.claim = q.claim
      BY <1>0, <1>5 DEF Initialized, Listed, ReadLine, SawExit, TimedOut,
                        Takes, QuestionStates
    <2> QED
      BY <2>1, <2>2 DEF Receiving
  <1>6. CASE TurnsUsedUp \/ DeadlinePassed \/ WantsTools \/ FinalText \/ ModelFails
    <2>1. /\ Untouched /\ srv' = srv /\ pc = "turn" /\ pc' \in {"tools", "close"}
      BY <1>6 DEF TurnsUsedUp, DeadlinePassed, WantsTools, FinalText,
         ModelFails, Fail, MayAsk
    <2>2. q'.ids = q.ids /\ q'.claim = q.claim
      BY <1>0, <1>6 DEF TurnsUsedUp, DeadlinePassed, WantsTools, FinalText,
         ModelFails, Fail, QuestionStates
    <2> QED
      BY <2>1, <2>2
  <1>7. CASE Overflows \/ Ask
    <2>1. ASSUME NEW arm, GivesUp(arm) \/ Asks(arm) PROVE Quiet
      <3>1. /\ Untouched /\ srv' = srv /\ pc = "ask" /\ pc' = "score"
        BY <2>1 DEF GivesUp, Asks
      <3>2. q'.ids = q.ids /\ q'.claim = q.claim
        BY <1>0, <2>1 DEF GivesUp, Asks, QuestionStates
      <3> QED
        BY <3>1, <3>2
    <2> QED
      BY <1>7, <2>1 DEF Overflows, Ask, StructuredBareOverflows,
         BareOverflows, AskStructuredBare, AskBare, AskPromptOnly
  <1>8. CASE EndLine
    <2>1. Untouched /\ q' = q /\ pc' = pc
      BY <1>8 DEF EndLine
    <2>2. SameServer
      BY <1>0, <1>8 DEF EndLine, Servers
    <2> QED
      BY <2>1, <2>2
  <1> QED
    BY <1>1, <1>2, <1>3, <1>4, <1>5, <1>6, <1>7, <1>8 DEF QuietSteps

(* What does not touch the ledger leaves backed what is.                   *)
LEMMA FileKeeps ==
    ASSUME UNCHANGED ledgerFile
    PROVE  /\ \A ids, tier, j : Backed(ids, tier, j)' = Backed(ids, tier, j)
           /\ TailParses' = TailParses
  <1>1. ledger' = ledger /\ tail' = tail /\ torn' = torn /\ unended' = unended
    BY DEF ledgerFile
  <1>2. Ended' = Ended /\ Damage' = Damage
    BY <1>1 DEF Ended, Damage
  <1> QED
    BY <1>1, <1>2 DEF Backed, TailParses

(* Nothing is always backed.                                               *)
LEMMA NothingBacked ==
    ASSUME NEW j
    PROVE  Backed({}, None, j)
  BY DEF Backed

(* Whatever happens to the server, the ledger and what is on it stay.      *)
LEMMA AloneStays ==
    ASSUME Alone, Untouched, Shape, PartInv,
           WriteOk', AnswerOk',
           SameQuestion \/ NewQuestion,
           srv'.up => srv.up,
           pc \in Begun => pc' \in Begun
    PROVE  Alone'
  <1>1. /\ ledger' = ledger /\ tail' = tail /\ torn' = torn
        /\ unended' = unended /\ job' = job /\ rows' = rows
    BY DEF Untouched, ledgerFile
  <1>2. TailOk' /\ ChainOk' /\ RowsOk'
    BY <1>1, FileKeeps DEF Alone, TailOk, TailParses, ChainOk, RowsOk,
                           Untouched
  <1>3. Backed(q.ids, q.claim, job)'
    BY <1>1, FileKeeps, NothingBacked
       DEF Alone, Untouched, SameQuestion, NewQuestion
  <1> QED
    BY <1>2, <1>3 DEF Alone

LEMMA QuietInv ==
    ASSUME EvalInv, Quiet
    PROVE  FamInv' /\ TrailInv'
  <1>1. Shape /\ PartInv /\ FamInv /\ TrailInv /\ (\A j : Question(j)' = Question(j))
    BY PlanStays DEF EvalInv, Quiet, Untouched
  <1>2. /\ UNCHANGED <<job, rows, ledger, torn, unended, leaked, late>>
    BY DEF Quiet, Untouched, ledgerFile
  <1>3. FamInv'
    BY <1>1, <1>2 DEF Quiet, SameServer, SameQuestion, NewQuestion, FamInv,
       LedgerFam, LateFam, RequestFam, AnswerFam, QuestionFam, RowFam, Apart,
       EntryOk, Hedged, Own
  <1>4. TrailInv'
    <2> SUFFICES ASSUME leaked = {} PROVE Alone'
      BY <1>2 DEF TrailInv
    <2>1. Alone
      BY <1>1 DEF TrailInv
    <2>2. NewQuestion => srv.at = "idle" /\ srv.answer = None
      BY <1>1 DEF NewQuestion, FamInv, Apart
    <2>3. WriteOk'
      BY <1>2, <2>1, <2>2 DEF Alone, WriteOk, Quiet, SameServer, SameQuestion
    <2>4. AnswerOk'
      <3>1. SameQuestion => AnswerOk'
        BY <1>2, <2>1, FileKeeps DEF Alone, AnswerOk, Verdict, Quiet,
           Untouched, SameServer, SameQuestion
      <3>2. NewQuestion => AnswerOk'
        BY <2>2 DEF AnswerOk, Quiet, SameServer
      <3> QED
        BY <3>1, <3>2 DEF Quiet
    <2> QED
      BY <1>1, <2>1, <2>3, <2>4, AloneStays DEF Quiet, SameServer
  <1> QED
    BY <1>3, <1>4

-----------------------------------------------------------------------------
(* Steps that change the server, but not the ledger.                       *)

(* The first request of a job, ...                                         *)
LEMMA StartInv ==
    ASSUME EvalInv, StartGated
    PROVE  FamInv' /\ TrailInv'
  <1>1. /\ Untouched /\ q' = Fresh /\ pc = "next" /\ pc' = "waiting"
    BY DEF StartGated, StartJob, Untouched, driverVars, ledgerVars
  <1>2. srv'.at = "request" /\ srv'.answer = None /\ srv'.tool \in Control
        /\ srv'.cites = {}
    BY DEF StartGated, NoServer, Control
  <1>3. Shape /\ PartInv /\ FamInv /\ TrailInv /\ (\A j : Question(j)' = Question(j))
    BY <1>1, PlanStays DEF EvalInv, Untouched
  <1>4. /\ UNCHANGED <<job, rows, ledger, tail, torn, unended, leaked, late>>
        /\ q'.ids = {} /\ q'.claim = None
    BY <1>1 DEF Untouched, ledgerFile, Fresh
  <1>5. FamInv'
    BY <1>1, <1>2, <1>3, <1>4 DEF FamInv, LedgerFam, LateFam, RequestFam,
       AnswerFam, QuestionFam, RowFam, Apart, EntryOk, Hedged, Own, Between
  <1>6. TrailInv'
    <2> SUFFICES ASSUME leaked = {} PROVE Alone'
      BY <1>4 DEF TrailInv
    <2>1. Alone
      BY <1>3 DEF TrailInv
    <2>2. TailOk'
      BY <1>1, <1>4, <2>1 DEF Alone, TailOk, TailParses, Begun, InJob
    <2>3. WriteOk' /\ AnswerOk'
      BY <1>2 DEF WriteOk, AnswerOk
    <2>4. ChainOk' /\ RowsOk'
      BY <1>1, <1>4, <2>1, FileKeeps DEF Alone, ChainOk, RowsOk, Untouched
    <2>5. Backed(q.ids, q.claim, job)'
      BY <1>1, <1>4, FileKeeps, NothingBacked DEF Untouched
    <2> QED
      BY <2>2, <2>3, <2>4, <2>5 DEF Alone
  <1> QED
    BY <1>5, <1>6

(* ... and the later ones, with nothing but what the model has seen.       *)
LEMMA RequestInv ==
    ASSUME EvalInv, ListTools \/ CallTool
    PROVE  FamInv' /\ TrailInv'
  <1>0. /\ q \in QuestionStates /\ srv \in Servers /\ job \in Nat
        /\ Shape /\ PartInv /\ FamInv /\ TrailInv
    BY Types DEF EvalInv
  <1>1. PICK tool, cites :
          /\ Request(tool, cites)
          /\ cites \subseteq q.ids
          /\ tool \in Control \cup {Claim} \cup Question(job).families
    <2>1. CASE ListTools
      BY <2>1 DEF ListTools, Control
    <2>2. CASE CallTool
      <3>1. CASE \E tool \in Offered(Question(job)) : Request(tool, {})
        BY <3>1 DEF Offered
      <3>2. CASE \E cites \in SUBSET q.ids : Request("claim_finding", cites)
        BY <3>2 DEF Claim
      <3> QED
        BY <2>2, <3>1, <3>2 DEF CallTool
    <2> QED
      BY <2>1, <2>2
  <1>2. Untouched /\ pc \in {"listing", "tools"}
    BY DEF ListTools, CallTool, Untouched, driverVars, ledgerVars
  <1>3. CASE srv.up
    <2>1. /\ srv' = [srv EXCEPT !.at = "request", !.tool = tool,
                                !.cites = cites, !.answer = None,
                                !.half = FALSE,
                                !.id = <<job, Cardinality(q.ids)>>]
          /\ pc' = "waiting" /\ q' = q
      BY <1>1, <1>3 DEF Request
    <2>2. /\ srv'.at = "request" /\ srv'.answer = None /\ srv'.tool = tool
          /\ srv'.cites = cites /\ srv'.id = <<job, Cardinality(q.ids)>>
          /\ srv'.up = srv.up
      BY <1>0, <2>1 DEF Servers
    <2>3. srv'.id[1] = job
      BY <2>2
    <2>4. \A j : Question(j)' = Question(j)
      BY <1>2, PlanStays DEF Untouched
    <2>5. UNCHANGED <<job, rows, ledger, leaked, late>>
      BY <1>2 DEF Untouched, ledgerFile
    <2>6. RequestFam'
      <3>1. Own(cites)
        BY <1>0, <1>1 DEF FamInv, QuestionFam, Own
      <3> QED
        BY <1>1, <2>2, <2>3, <2>4, <2>5, <3>1 DEF RequestFam, Own
    <2>7. FamInv'
      BY <1>0, <2>1, <2>2, <2>4, <2>5, <2>6 DEF FamInv, LedgerFam, LateFam,
         AnswerFam, QuestionFam, RowFam, Apart, EntryOk, Hedged, Own, Between
    <2>8. TrailInv'
      <3> SUFFICES ASSUME leaked = {} PROVE Alone'
        BY <2>5 DEF TrailInv
      <3>1. WriteOk' /\ AnswerOk' /\ SameQuestion
        BY <1>1, <2>1, <2>2 DEF WriteOk, AnswerOk, SameQuestion
      <3> QED
        BY <1>0, <1>2, <2>1, <2>2, <3>1, AloneStays
           DEF TrailInv, Begun, InJob
    <2> QED
      BY <2>7, <2>8
  <1>4. CASE ~srv.up
    <2>1. /\ srv' = srv /\ pc' = "close"
          /\ q' = [q EXCEPT !.predicted = "<subprocess_crash>"]
      BY <1>1, <1>4 DEF Request, Fail
    <2>2. q'.ids = q.ids /\ q'.claim = q.claim
      BY <1>0, <2>1 DEF QuestionStates
    <2>3. Quiet
      BY <1>2, <2>1, <2>2
         DEF Quiet, SameServer, SameQuestion, Between, Begun, InJob
    <2> QED
      BY <2>3, QuietInv
  <1> QED
    BY <1>3, <1>4

(* The answer of a tool is added to what the question has.                 *)
LEMMA AnswerInv ==
    ASSUME EvalInv, ToolAnswered
    PROVE  FamInv' /\ TrailInv'
  <1>1. /\ Shape /\ PartInv /\ FamInv /\ TrailInv /\ q \in QuestionStates
        /\ Untouched /\ srv' = srv /\ srv.answer # None
        /\ pc \in Receiving /\ pc' \in {"turn", "tools"}
    BY Types DEF EvalInv, ToolAnswered, Answered, Receiving, Untouched,
       driverVars, ledgerVars
  <1>2. q'.ids = q.ids \cup srv.answer.ids /\ q'.claim = Verdict(srv.answer)
    BY <1>1 DEF ToolAnswered, Verdict, QuestionStates
  <1>3. \A j : Question(j)' = Question(j)
    BY <1>1, PlanStays DEF Untouched
  <1>4. UNCHANGED <<job, rows, ledger, tail, torn, unended, leaked, late>>
    BY <1>1 DEF Untouched, ledgerFile
  <1>5. Own(q'.ids) /\ Hedged(q'.claim, job)
    BY <1>1, <1>2 DEF FamInv, AnswerFam, QuestionFam, Own, Hedged, Verdict
  <1>6. FamInv'
    BY <1>1, <1>3, <1>4, <1>5 DEF FamInv, LedgerFam, LateFam, RequestFam,
       AnswerFam, QuestionFam, RowFam, Apart, EntryOk, Hedged, Own, Between
  <1>7. TrailInv'
    <2> SUFFICES ASSUME leaked = {} PROVE Alone'
      BY <1>4 DEF TrailInv
    <2>1. Alone /\ Backed(q'.ids, q'.claim, job)
      BY <1>1, <1>2 DEF TrailInv, Alone, AnswerOk
    <2>2. AnswerOk'
      <3>1. q'.ids \cup srv.answer.ids = q'.ids
        BY <1>2
      <3>2. Verdict(srv.answer)' = q'.claim
        BY <1>1, <1>2 DEF Verdict
      <3> QED
        BY <1>1, <1>4, <2>1, <3>1, <3>2, FileKeeps DEF AnswerOk, Untouched
    <2>3. TailOk' /\ ChainOk' /\ RowsOk' /\ WriteOk'
      BY <1>1, <1>2, <1>4, <2>1, FileKeeps DEF Alone, TailOk, TailParses,
         ChainOk, RowsOk, WriteOk, Untouched, Receiving, Begun, InJob
    <2>4. Backed(q.ids, q.claim, job)'
      BY <1>1, <1>4, <2>1, FileKeeps DEF Untouched
    <2> QED
      BY <2>2, <2>3, <2>4 DEF Alone
  <1> QED
    BY <1>6, <1>7

(* The server goes, or answers with nothing.                               *)
LEMMA IdleInv ==
    ASSUME EvalInv, Untouched, SameQuestion,
           srv'.at = "idle", srv'.answer \in {None, Silence, srv.answer},
           srv'.up => srv.up,
           pc' \in Between => srv'.answer = None,
           pc \in Begun => pc' \in Begun
    PROVE  FamInv' /\ TrailInv'
  <1>1. Shape /\ PartInv /\ FamInv /\ TrailInv /\ (\A j : Question(j)' = Question(j))
    BY PlanStays DEF EvalInv, Untouched
  <1>2. UNCHANGED <<job, rows, ledger, leaked, late>>
    BY DEF Untouched, ledgerFile
  <1>3. FamInv'
    BY <1>1, <1>2 DEF SameQuestion, FamInv, LedgerFam, LateFam, RequestFam,
       Silence, AnswerFam, QuestionFam, RowFam, Apart, EntryOk, Hedged, Own
  <1>4. TrailInv'
    <2> SUFFICES ASSUME leaked = {} PROVE Alone'
      BY <1>2 DEF TrailInv
    <2>1. Alone
      BY <1>1 DEF TrailInv
    <2>2. WriteOk'
      BY DEF WriteOk
    <2>3. AnswerOk'
      <3>1. CASE srv'.answer = None
        BY <3>1 DEF AnswerOk
      <3>2. CASE srv'.answer = Silence
        <4>1. q'.ids \cup srv'.answer.ids = q.ids
              /\ Verdict(srv.answer)' = q.claim
          BY <3>2 DEF Silence, Verdict, SameQuestion
        <4> QED
          BY <1>2, <2>1, <4>1, FileKeeps DEF Alone, AnswerOk, Untouched
      <3>3. CASE srv'.answer = srv.answer
        BY <1>2, <2>1, <3>3, FileKeeps
           DEF Alone, AnswerOk, Verdict, SameQuestion, Untouched
      <3> QED
        BY <3>1, <3>2, <3>3
    <2> QED
      BY <1>1, <2>1, <2>2, <2>3, AloneStays
  <1> QED
    BY <1>3, <1>4

LEMMA RefuseInv ==
    ASSUME EvalInv, ServeHandshake \/ RefuseTool
    PROVE  FamInv' /\ TrailInv'
  <1>1. srv \in Servers /\ pc \notin Between
    BY Types DEF EvalInv, Shape, ServersReaped, ServeHandshake, RefuseTool,
       ServerRuns
  <1>2. Untouched /\ SameQuestion /\ pc' = pc /\ Respond(Silence)
    BY DEF ServeHandshake, RefuseTool, Untouched, SameQuestion, driverVars,
           ledgerVars
  <1>3. srv'.at = "idle" /\ srv'.answer = Silence /\ srv'.up = srv.up
    BY <1>1, <1>2 DEF Respond, Servers
  <1> QED
    BY <1>1, <1>2, <1>3, IdleInv

LEMMA ClosePipesInv ==
    ASSUME EvalInv, ClosePipes
    PROVE  FamInv' /\ TrailInv'
  <1>1. Untouched /\ SameQuestion /\ pc = "close"
    BY DEF ClosePipes, Untouched, SameQuestion, driverVars, ledgerVars
  <1>2. CASE srv.up
    <2>1. srv' = srv /\ pc' = "terminate"
      BY <1>2 DEF ClosePipes
    <2>2. Quiet
      BY <1>1, <2>1 DEF Quiet, SameServer, Between, Begun, InJob
    <2> QED
      BY <2>2, QuietInv
  <1>3. CASE ~srv.up
    <2>1. srv' = NoServer /\ pc' = "score"
      BY <1>3 DEF ClosePipes
    <2>2. srv'.at = "idle" /\ srv'.answer = None /\ ~srv'.up
      BY <2>1 DEF NoServer
    <2> QED
      BY <1>1, <2>1, <2>2, IdleInv DEF Begun, InJob
  <1> QED
    BY <1>2, <1>3

(* What the head of the chain is when the write begins, and the verdict.   *)
LEMMA HeadInv ==
    ASSUME EvalInv, ReadHead
    PROVE  FamInv' /\ TrailInv'
  <1>1. /\ Shape /\ PartInv /\ FamInv /\ TrailInv /\ srv \in Servers
        /\ Untouched /\ q' = q /\ pc' = pc /\ pc \notin Between
        /\ LedgerParses /\ srv.at = "request" /\ srv.up
        /\ srv.tool \notin Control
        /\ srv.tool = Claim => Citable(srv.cites)
    BY Types DEF EvalInv, ReadHead, BeginWrite, Untouched, driverVars,
       ledgerVars, Control, Claim, Shape, ServersReaped, ServerRuns
  <1>2. PICK t \in IF srv.tool = Claim
                   THEN EvaluateClaim(srv.cites) ELSE {None} :
          srv' = [srv EXCEPT !.at = "writing", !.prev = Len(ledger),
                             !.cites = {}, !.tier = t]
    BY DEF ReadHead, BeginWrite, Claim
  <1>3. /\ srv'.at = "writing" /\ srv'.prev = Len(ledger)
        /\ srv'.tool = srv.tool /\ srv'.cites = {} /\ srv'.tier = t
        /\ srv'.id = srv.id /\ srv'.answer = srv.answer /\ srv'.up = srv.up
    BY <1>1, <1>2 DEF Servers
  <1>4. \A j : Question(j)' = Question(j)
    BY <1>1, PlanStays DEF Untouched
  <1>5. UNCHANGED <<job, rows, ledger, torn, unended, leaked, late>>
    BY <1>1 DEF Untouched, ledgerFile
  <1>6. Hedged(t, job)
    <2>1. 1 <= job /\ job <= Total
      BY <1>1, Running
    <2>2. CASE srv.tool = Claim
      BY <1>1, <1>2, <2>1, <2>2, OneFamily
    <2>3. CASE srv.tool # Claim
      BY <1>2, <2>3 DEF Hedged
    <2> QED
      BY <2>2, <2>3
  <1>7. FamInv'
    BY <1>1, <1>3, <1>4, <1>5, <1>6 DEF FamInv, LedgerFam, LateFam,
       RequestFam, AnswerFam, QuestionFam, RowFam, Apart, EntryOk, Hedged, Own
  <1>8. TrailInv'
    <2> SUFFICES ASSUME leaked = {} PROVE Alone'
      BY <1>5 DEF TrailInv
    <2>1. Alone /\ torn = 0 /\ job \in Nat /\ 1 <= job /\ unended \in Nat
      BY <1>1, Types DEF TrailInv, Alone, LedgerParses
    <2>2. unended # 0 => t = None
      <3> SUFFICES ASSUME unended # 0 PROVE t = None
        OBVIOUS
      <3>1. unended < job
        BY <1>1, <2>1 DEF Alone, TailOk
      <3>2. q.ids = {}
        BY <2>1, <3>1 DEF Alone, Backed, Damage
      <3>3. srv.cites = {}
        BY <1>1, <2>1, <3>2 DEF Alone, WriteOk
      <3> QED
        BY <1>1, <1>2, <3>3 DEF Citable
    <2>3. WriteOk'
      BY <1>3, <1>5, <2>1, <2>2 DEF WriteOk
    <2>4. AnswerOk'
      BY <1>1, <1>3, <1>5, <2>1, FileKeeps
         DEF Alone, AnswerOk, Verdict, Untouched
    <2> QED
      BY <1>1, <1>3, <2>1, <2>3, <2>4, AloneStays DEF SameQuestion
  <1> QED
    BY <1>7, <1>8

-----------------------------------------------------------------------------
(* The row.                                                                *)

LEMMA ScoreInv ==
    ASSUME EvalInv, Score
    PROVE  FamInv' /\ TrailInv'
  <1>1. /\ Shape /\ PartInv /\ FamInv /\ TrailInv /\ job \in Nat
        /\ UNCHANGED <<plan, srv, ledgerFile, leaked, late>>
        /\ pc = "score" /\ pc' = "next" /\ job' = job + 1
        /\ q'.ids = {} /\ q'.claim = None
        /\ rows' = Append(rows, Row)
    BY Types DEF EvalInv, Score, ledgerVars, Fresh
  <1>2. \A j : Question(j)' = Question(j)
    BY <1>1, PlanStays
  <1>3. Row.job = job /\ Row.ids = q.ids /\ Row.claim = q.claim
    BY DEF Row
  <1>4. \A i \in DOMAIN rows' :
          \/ i \in DOMAIN rows /\ rows'[i] = rows[i]
          \/ rows'[i] = Row
    <2>1. rows \in Seq(RowSet) /\ Row \in RowSet
      BY <1>1, Types, RowType
    <2> QED
      BY <1>1, <2>1, AppendProperties, LenProperties
  <1>5. srv.at = "idle" /\ srv.answer = None
    BY <1>1 DEF FamInv, Apart, Between
  <1>6. RowFam'
    <2>1. ASSUME NEW i \in DOMAIN rows'
          PROVE  Hedged(rows'[i].claim, rows'[i].job)
      BY <1>1, <1>3, <1>4 DEF FamInv, RowFam, QuestionFam
    <2> QED
      BY <1>2, <2>1 DEF RowFam, Hedged
  <1>7. FamInv'
    <2>1. LedgerFam' /\ LateFam'
      BY <1>1, <1>2 DEF FamInv, LedgerFam, LateFam, EntryOk, ledgerFile
    <2>2. RequestFam' /\ AnswerFam' /\ Apart'
      BY <1>1, <1>5 DEF RequestFam, AnswerFam, Apart
    <2>3. QuestionFam'
      BY <1>1 DEF QuestionFam, Own, Hedged
    <2> QED
      BY <1>6, <2>1, <2>2, <2>3 DEF FamInv
  <1>8. TrailInv'
    <2> SUFFICES ASSUME leaked = {} PROVE Alone'
      BY <1>1 DEF TrailInv
    <2>1. /\ Alone /\ torn \in Nat /\ unended \in Nat
          /\ UNCHANGED <<ledger, tail, torn, unended>>
      BY <1>1, Types DEF TrailInv, ledgerFile
    <2>2. ChainOk' /\ WriteOk' /\ AnswerOk'
      BY <1>1, <1>5, <2>1 DEF Alone, ChainOk, WriteOk, AnswerOk
    <2>3. RowsOk'
      <3>1. ASSUME NEW i \in DOMAIN rows'
            PROVE  /\ rows'[i].job < job + 1
                   /\ Backed(rows'[i].ids, rows'[i].claim, rows'[i].job)
        <4>1. CASE rows'[i] = Row
          BY <1>1, <1>3, <2>1, <4>1 DEF Alone
        <4>2. CASE i \in DOMAIN rows /\ rows'[i] = rows[i]
          <5>1. rows[i].job \in Nat
            BY <1>1, <4>2, Types DEF RowSet
          <5> QED
            BY <1>1, <2>1, <4>2, <5>1 DEF Alone, RowsOk
        <4> QED
          BY <1>4, <4>1, <4>2
      <3> QED
        BY <1>1, <3>1, FileKeeps DEF RowsOk
    <2>4. Backed(q.ids, q.claim, job)'
      BY <1>1, FileKeeps, NothingBacked
    <2>5. TailOk'
      BY <1>1, <2>1 DEF Alone, TailOk, TailParses
    <2> QED
      BY <2>2, <2>3, <2>4, <2>5 DEF Alone
  <1> QED
    BY <1>7, <1>8

-----------------------------------------------------------------------------
(* Writes.                                                                 *)

(* A ledger without its last line.                                         *)
LEMMA FrontOf ==
    ASSUME ledger \in Seq(Entries), Len(ledger) \in Nat,
           DOMAIN ledger = 1..Len(ledger)
    PROVE  LET front == SubSeq(ledger, 1, Len(ledger) - 1) IN
           /\ DOMAIN front = 1..(Len(ledger) - 1)
           /\ Len(front) = IF ledger = <<>> THEN 0 ELSE Len(ledger) - 1
           /\ \A k \in 1..(Len(ledger) - 1) :
                k \in DOMAIN ledger /\ front[k] = ledger[k]
  <1> DEFINE n == Len(ledger) - 1
             front == SubSeq(ledger, 1, n)
  <1>1. n \in Int /\ \A k \in 1..n : k \in DOMAIN ledger
    OBVIOUS
  <1>2. \A k \in 1..n : ledger[k] \in Entries
    BY <1>1, ElementOfSeq
  <1>3. /\ front \in Seq(Entries)
        /\ Len(front) = IF 1 <= n THEN n - 1 + 1 ELSE 0
        /\ \A i \in 1 .. n - 1 + 1 : front[i] = ledger[1 + i - 1]
    <2> HIDE DEF n
    <2> QED
      BY <1>1, <1>2, SubSeqProperties
  <1>4. \A k \in 1..n : front[k] = ledger[k]
    <2>1. ASSUME NEW k \in 1..n PROVE front[k] = ledger[k]
      <3>1. 1 + k - 1 = k /\ k \in 1 .. n - 1 + 1
        BY <1>1
      <3>2. front[k] = ledger[1 + k - 1]
        BY <1>3, <3>1
      <3> QED
        BY <3>1, <3>2
    <2> QED
      BY <2>1
  <1>5. DOMAIN front = 1..Len(front)
    BY <1>3, LenProperties
  <1>6. Len(ledger) = 0 <=> ledger = <<>>
    BY EmptySeq
  <1>7. /\ 1..Len(front) = 1..n
        /\ Len(front) = IF ledger = <<>> THEN 0 ELSE n
    <2>1. CASE 1 <= n
      BY <1>3, <1>6, <2>1
    <2>2. CASE ~(1 <= n)
      BY <1>3, <1>6, <2>2
    <2> QED
      BY <2>1, <2>2
  <1> QED
    BY <1>1, <1>4, <1>5, <1>7

(* What a write leaves are lines that were there, and perhaps its own.     *)
LEMMA Landing ==
    ASSUME Shape, PartInv, NEW e \in Entries, CutShort(e)
    PROVE  \A k \in DOMAIN ledger' :
             \/ k \in DOMAIN ledger /\ ledger'[k] = ledger[k]
             \/ ledger'[k] = e
  <1>1. /\ ledger \in Seq(Entries) /\ Len(ledger) \in Nat
        /\ DOMAIN ledger = 1..Len(ledger)
    BY Types
  <1>2. CASE ledger' = ledger
    BY <1>2
  <1>3. CASE ledger' = Append(ledger, e)
    BY <1>1, <1>3, AppendProperties, LenProperties
  <1>4. CASE ledger' = SubSeq(ledger, 1, Len(ledger) - 1)
    BY <1>1, <1>4, FrontOf
  <1>5. \/ ledger' = ledger
        \/ ledger' = Append(ledger, e)
        \/ ledger' = SubSeq(ledger, 1, Len(ledger) - 1)
    BY DEF CutShort, Write, ledgerFile
  <1> QED
    BY <1>2, <1>3, <1>4, <1>5

(* The write of a server that is the only one.                             *)
LEMMA AloneWrites ==
    ASSUME Shape, PartInv, TailOk, torn = 0, srv.up, NEW e \in Entries,
           e.job = job, NEW part \in {"whole", "unended", "torn"},
           Write(e, part)
    PROVE  /\ \A k \in Ended : k \in Ended' /\ ledger'[k] = ledger[k]
           /\ \/ /\ tail = "whole" /\ unended = 0
                 /\ \/ /\ part = "whole" /\ tail' = "whole"
                       /\ torn' = 0 /\ unended' = 0
                       /\ Len(ledger) + 1 \in Ended'
                       /\ ledger'[Len(ledger) + 1] = e
                    \/ /\ part = "unended" /\ tail' = "unended"
                       /\ torn' = 0 /\ unended' = job
                    \/ /\ part = "torn" /\ tail' = "torn"
                       /\ torn' = job /\ unended' = 0
              \/ /\ tail = "unended" /\ unended \in 1..(job - 1)
                 /\ tail' \in {"ended", "torn"}
                 /\ torn' = job /\ unended' = unended
  <1>1. /\ ledger \in Seq(Entries) /\ Len(ledger) \in Nat
        /\ DOMAIN ledger = 1..Len(ledger)
        /\ job \in Nat /\ unended \in Nat
    BY Types
  <1>2. CASE tail = "whole"
    <2>1. unended = 0
      BY <1>2 DEF TailOk
    <2>2. CASE part = "torn"
      BY <1>2, <2>1, <2>2 DEF Write, FirstOf, Ended
    <2>3. CASE part # "torn"
      <3>1. ledger' = Append(ledger, e) /\ tail' = part /\ torn' = 0
            /\ unended' = IF part = "unended" THEN job ELSE 0
        BY <1>2, <2>1, <2>3 DEF Write, FirstOf
      <3>2. /\ Len(ledger') = Len(ledger) + 1
            /\ ledger'[Len(ledger) + 1] = e
            /\ \A k \in 1..Len(ledger) : ledger'[k] = ledger[k]
        BY <1>1, <3>1, AppendProperties
      <3>3. Len(ledger') - 1 = Len(ledger)
        BY <1>1, <3>2
      <3> QED
        BY <1>1, <1>2, <2>1, <2>3, <3>1, <3>2, <3>3 DEF Ended
    <2> QED
      BY <2>2, <2>3
  <1>3. CASE tail = "unended"
    <2>1. unended \in 1..(job - 1)
      <3>1. unended # 0 /\ unended < job
        BY <1>3 DEF TailOk
      <3> QED
        BY <1>1, <3>1
    <2>2. /\ ledger' = SubSeq(ledger, 1, Len(ledger) - 1)
          /\ tail' \in {"ended", "torn"} /\ torn' = job /\ unended' = unended
      BY <1>3 DEF Write, FirstOf
    <2>3. /\ DOMAIN ledger' = 1..(Len(ledger) - 1)
          /\ \A k \in 1..(Len(ledger) - 1) : ledger'[k] = ledger[k]
      BY <1>1, <2>2, FrontOf
    <2>4. Ended' = DOMAIN ledger' /\ Ended = 1..(Len(ledger) - 1)
      <3>1. DOMAIN ledger' = 1..Len(ledger')
        <4>1. Len(ledger') = IF ledger = <<>> THEN 0 ELSE Len(ledger) - 1
          BY <1>1, <2>2, FrontOf
        <4>2. Len(ledger) = 0 <=> ledger = <<>>
          BY <1>1, EmptySeq
        <4>3. 1..Len(ledger') = 1..(Len(ledger) - 1)
          <5>1. CASE ledger = <<>>
            <6>1. 1..0 = {} /\ 1..(0 - 1) = {}
              OBVIOUS
            <6> QED
              BY <4>1, <4>2, <5>1, <6>1
          <5>2. CASE ledger # <<>>
            BY <4>1, <5>2
          <5> QED
            BY <5>1, <5>2
        <4> QED
          BY <2>3, <4>3
      <3> QED
        BY <1>3, <2>2, <3>1 DEF Ended
    <2> QED
      BY <1>3, <2>1, <2>2, <2>3, <2>4
  <1> QED
    BY <1>2, <1>3 DEF TailOk, TailParses

(* What is backed stays so.                                                *)
LEMMA BackedStays ==
    ASSUME Shape, PartInv, TailOk, torn = 0, srv.up, NEW e \in Entries,
           e.job = job, NEW part \in {"whole", "unended", "torn"},
           Write(e, part),
           NEW ids, NEW tier, NEW j \in Nat, j <= job, Backed(ids, tier, j)
    PROVE  Backed(ids, tier, j)'
  <1>1. job \in Nat /\ unended \in Nat
    BY Types
  <1>2. \A k \in Ended : k \in Ended' /\ ledger'[k] = ledger[k]
    BY AloneWrites
  <1>3. \A id \in ids : \E k \in Ended' :
          ledger'[k].id = id /\ ledger'[k].job = j
    <2>1. ~(unended \in 1..(torn - 1))
      BY <1>1
    <2> QED
      BY <1>2, <2>1 DEF Backed
  <1>4. tier # None =>
          \E k \in Ended' :
            /\ ledger'[k].job = j /\ ledger'[k].id \in ids
            /\ ledger'[k].tier = tier
    BY <1>2 DEF Backed
  <1>5. (Damage' # 0 /\ Damage' < j) =>
          tier = None /\ (ids = {} \/ (j = torn' /\ Lone(ids)))
    <2>1. Damage' \in {0, job} \/ (Damage' = Damage /\ Damage = unended
                                   /\ unended # 0)
      BY AloneWrites DEF Damage
    <2>2. CASE Damage' \in {0, job}
      BY <1>1, <2>2
    <2>3. CASE Damage' = Damage /\ Damage = unended /\ unended # 0
      BY <1>1, <2>3 DEF Backed
    <2> QED
      BY <2>1, <2>2, <2>3
  <1> QED
    BY <1>3, <1>4, <1>5 DEF Backed, Lone

LEMMA WriteInv ==
    ASSUME EvalInv, srv.up, srv.at = "writing",
           NEW part \in {"whole", "unended", "torn"}, Write(Entry, part),
           UNCHANGED <<plan, job, rows, leaked, late>>, SameQuestion,
           srv'.at = "idle",
           \/ srv'.answer \in {None, srv.answer}
           \/ /\ part = "whole"
              /\ srv'.answer = [ids |-> {srv.id}, tier |-> srv.tier],
           part = "unended" => ~srv'.up,
           pc' \in Begun,
           pc' \in Between => srv'.answer = None
    PROVE  FamInv' /\ TrailInv'
  <1>1. /\ Shape /\ PartInv /\ FamInv /\ TrailInv /\ Entry \in Entries
        /\ job \in Nat /\ torn \in Nat /\ unended \in Nat
        /\ Len(ledger) \in Nat /\ DOMAIN ledger = 1..Len(ledger)
        /\ 1 <= job /\ job <= Total
        /\ \A j : Question(j)' = Question(j)
    BY Types, Running, PlanStays DEF EvalInv
  <1>2. \A k \in DOMAIN ledger' :
          \/ k \in DOMAIN ledger /\ ledger'[k] = ledger[k]
          \/ ledger'[k] = Entry
    BY <1>1, Landing DEF CutShort
  <1>3. /\ srv.tool \notin Control /\ srv.id[1] = job
        /\ srv.tool = Claim \/ srv.tool \in Question(job).families
        /\ Hedged(srv.tier, job)
    BY <1>1 DEF FamInv, RequestFam
  <1>4. EntryOk(Entry)
    BY <1>3, EntryFields DEF EntryOk
  <1>5. FamInv'
    <2>1. LedgerFam'
      BY <1>1, <1>2, <1>4 DEF FamInv, LedgerFam, EntryOk
    <2>2. LateFam'
      BY <1>1 DEF FamInv, LateFam, EntryOk
    <2>3. RequestFam' /\ Apart'
      BY DEF RequestFam, Apart
    <2>4. AnswerFam'
      BY <1>1, <1>3 DEF FamInv, AnswerFam, Own, Hedged
    <2>5. QuestionFam' /\ RowFam'
      BY <1>1 DEF FamInv, QuestionFam, RowFam, Own, Hedged, SameQuestion
    <2> QED
      BY <2>1, <2>2, <2>3, <2>4, <2>5 DEF FamInv
  <1>6. TrailInv'
    <2> SUFFICES ASSUME leaked = {} PROVE Alone'
      BY DEF TrailInv
    <2>1. /\ Alone /\ TailOk /\ torn = 0 /\ srv.prev = Len(ledger)
          /\ unended # 0 => srv.tier = None
      BY <1>1 DEF TrailInv, Alone, WriteOk
    <2>2. Entry.job = job
      BY EntryFields
    <2>3. \A ids, tier : \A j \in Nat :
            j <= job /\ Backed(ids, tier, j) => Backed(ids, tier, j)'
      <3> TAKE ids, tier
      <3> TAKE j \in Nat
      <3> HAVE j <= job /\ Backed(ids, tier, j)
      <3> QED
        BY <1>1, <2>1, <2>2, BackedStays
    <2>4. TailOk'
      BY <1>1, <2>1, <2>2, AloneWrites DEF TailOk, TailParses
    <2>5. ChainOk'
      <3>1. ASSUME NEW k \in DOMAIN ledger'
            PROVE  ledger'[k].prev = k - 1
        <4>1. CASE k \in DOMAIN ledger /\ ledger'[k] = ledger[k]
          BY <2>1, <4>1 DEF Alone, ChainOk
        <4>2. CASE ~(k \in DOMAIN ledger /\ ledger'[k] = ledger[k])
          <5>1. ledger' = Append(ledger, Entry) \/
                  ledger' = SubSeq(ledger, 1, Len(ledger) - 1) \/
                  ledger' = ledger
            BY DEF Write
          <5>2. ledger' = Append(ledger, Entry)
            BY <1>1, <4>2, <5>1, FrontOf, Types
          <5>3. k = Len(ledger) + 1 /\ ledger'[k] = Entry
            BY <1>1, <1>2, <4>2, <5>2, Types, AppendProperties, LenProperties
          <5> QED
            BY <1>1, <2>1, <5>3, EntryFields
        <4> QED
          BY <4>1, <4>2
      <3> QED
        BY <3>1 DEF ChainOk
    <2>6. WriteOk'
      BY DEF WriteOk
    <2>7. AnswerOk'
      <3>1. CASE srv'.answer = None
        BY <3>1 DEF AnswerOk
      <3>2. CASE srv'.answer = srv.answer
        BY <1>1, <2>1, <2>3, <3>2 DEF Alone, AnswerOk, Verdict, SameQuestion
      <3>3. CASE /\ part = "whole"
                 /\ srv'.answer = [ids |-> {srv.id}, tier |-> srv.tier]
        <4>1. /\ q'.ids \cup srv'.answer.ids = q.ids \cup {srv.id}
              /\ Verdict(srv.answer)' =
                   IF srv.tier # None THEN srv.tier ELSE q.claim
          BY <3>3 DEF Verdict, SameQuestion
        <4> DEFINE ids == q.ids \cup {srv.id}
                   tier == IF srv.tier # None THEN srv.tier ELSE q.claim
        <4>2. Backed(q.ids, q.claim, job) /\ Backed(q.ids, q.claim, job)'
          BY <1>1, <2>1, <2>3 DEF Alone, SameQuestion
        <4>3. CASE tail = "whole"
          <5>1. /\ torn' = 0 /\ unended' = 0
                /\ Len(ledger) + 1 \in Ended'
                /\ ledger'[Len(ledger) + 1] = Entry
            BY <1>1, <2>1, <2>2, <3>3, <4>3, AloneWrites
          <5>2. Damage' = 0 /\ unended' \notin 1..(torn' - 1)
            BY <5>1 DEF Damage
          <5>3. \A id \in ids : \E k \in Ended' :
                  ledger'[k].id = id /\ ledger'[k].job = job
            <6>1. \A id \in q.ids : \E k \in Ended' :
                    ledger'[k].id = id /\ ledger'[k].job = job
              BY <4>2, <5>2 DEF Backed, SameQuestion
            <6> QED
              BY <5>1, <6>1, EntryFields
          <5>4. tier # None =>
                  \E k \in Ended' :
                    /\ ledger'[k].job = job /\ ledger'[k].id \in ids
                    /\ ledger'[k].tier = tier
            <6>1. CASE srv.tier # None
              BY <5>1, <6>1, EntryFields
            <6>2. CASE srv.tier = None
              BY <4>2, <6>2 DEF Backed, SameQuestion
            <6> QED
              BY <6>1, <6>2
          <5> HIDE DEF ids, tier
          <5> QED
            BY <4>1, <5>2, <5>3, <5>4 DEF AnswerOk, Backed, ids, tier
        <4>4. CASE tail = "unended"
          <5>1. /\ unended \in 1..(job - 1) /\ torn' = job
                /\ unended' = unended
            BY <1>1, <2>1, <2>2, <4>4, AloneWrites
          <5>2. q.ids = {} /\ q.claim = None /\ srv.tier = None
            BY <1>1, <2>1, <4>2, <5>1 DEF Backed, Damage
          <5>3. /\ q'.ids \cup srv'.answer.ids = {srv.id}
                /\ Verdict(srv.answer)' = None
            BY <4>1, <5>2
          <5>4. job' = job /\ unended' \in 1..(torn' - 1) /\ job' = torn'
            BY <5>1
          <5>5. Lone({srv.id})
            BY DEF Lone
          <5> QED
            BY <5>3, <5>4, <5>5 DEF AnswerOk, Backed, Lone
        <4> QED
          BY <2>1, <4>3, <4>4 DEF TailOk, TailParses
      <3> QED
        BY <3>1, <3>2, <3>3
    <2>8. RowsOk'
      <3>1. \A i \in DOMAIN rows : rows[i].job \in Nat /\ rows[i].job < job
        BY <1>1, <2>1, Types DEF Alone, RowsOk, RowSet
      <3> QED
        BY <1>1, <2>1, <2>3, <3>1 DEF Alone, RowsOk
    <2>9. Backed(q.ids, q.claim, job)'
      BY <1>1, <2>1, <2>3 DEF Alone, SameQuestion
    <2> QED
      BY <2>4, <2>5, <2>6, <2>7, <2>8, <2>9 DEF Alone
  <1> QED
    BY <1>5, <1>6

LEMMA AppendInv ==
    ASSUME EvalInv, AppendEntry
    PROVE  FamInv' /\ TrailInv'
  <1>1. /\ srv \in Servers /\ srv.up /\ srv.at = "writing"
        /\ Write(Entry, "whole")
        /\ UNCHANGED <<plan, job, rows, leaked, late>>
        /\ SameQuestion /\ pc' = pc
        /\ pc \in Begun /\ pc \notin Between
    BY Types, Running DEF EvalInv, AppendEntry, ServerRuns, driverVars, Land,
       Shape, ServersReaped, SameQuestion, Begun
  <1>2. /\ srv'.at = "idle"
        /\ srv'.answer = [ids |-> {srv.id}, tier |-> srv.tier]
    BY <1>1 DEF AppendEntry, Respond, Servers
  <1> QED
    BY <1>1, <1>2, WriteInv

(* The end of a server, inside a write or not.                             *)
LEMMA DeathInv ==
    ASSUME EvalInv, ServerDies,
           UNCHANGED <<plan, job, rows, leaked, late>>, SameQuestion,
           ~srv'.up, srv'.at = "idle", srv'.answer \in {None, srv.answer},
           pc' \in Between => srv'.answer = None,
           pc' \in Begun
    PROVE  FamInv' /\ TrailInv'
  <1>1. CASE UNCHANGED ledgerFile
    <2>1. Untouched
      BY <1>1 DEF Untouched
    <2> QED
      BY <2>1, IdleInv
  <1>2. CASE ~UNCHANGED ledgerFile
    <2>1. srv.up /\ srv.at = "writing"
          /\ \E part \in {"whole", "unended", "torn"} : Write(Entry, part)
      BY <1>2 DEF ServerDies, CutShort
    <2> QED
      BY <2>1, WriteInv
  <1> QED
    BY <1>1, <1>2

LEMMA ExitInv ==
    ASSUME EvalInv, ServerExits
    PROVE  FamInv' /\ TrailInv'
  <1>1. /\ srv \in Servers /\ srv.up /\ ServerDies
        /\ UNCHANGED <<plan, job, rows, leaked, late>>
        /\ SameQuestion /\ pc' = pc
        /\ pc \in Begun /\ pc \notin Between
    BY Types, Running DEF EvalInv, ServerExits, driverVars, Shape,
       ServersReaped, SameQuestion, Begun
  <1>2. ~srv'.up /\ srv'.at = "idle" /\ srv'.answer = srv.answer
    BY <1>1 DEF ServerExits, Servers
  <1> QED
    BY <1>1, <1>2, DeathInv

LEMMA TerminateInv ==
    ASSUME EvalInv, Terminate
    PROVE  FamInv' /\ TrailInv'
  <1>1. /\ UNCHANGED <<plan, job, rows, leaked, late>>
        /\ pc = "terminate" /\ q \in QuestionStates
    BY Types DEF EvalInv, Terminate, driverVars
  <1>2. SameQuestion
    BY <1>1 DEF Terminate, Takes, SameQuestion, QuestionStates
  <1>3. CASE pc' = "score" /\ srv' = NoServer /\ ServerDies
    <2>1. srv'.at = "idle" /\ srv'.answer = None /\ ~srv'.up
      BY <1>3 DEF NoServer
    <2> QED
      BY <1>1, <1>2, <1>3, <2>1, DeathInv DEF Begun, InJob
  <1>4. CASE pc' = "kill" /\ UNCHANGED <<srv, ledgerFile>>
    <2>1. Quiet
      BY <1>1, <1>2, <1>4
         DEF Quiet, Untouched, SameServer, Between, Begun, InJob
    <2> QED
      BY <2>1, QuietInv
  <1> QED
    BY <1>3, <1>4 DEF Terminate

(* A server that is left behind takes the write it is in with it.          *)
LEMMA KillInv ==
    ASSUME EvalInv, Kill
    PROVE  FamInv' /\ TrailInv'
  <1>1. /\ UNCHANGED <<plan, job, rows>> /\ q \in QuestionStates
        /\ pc = "kill" /\ pc' = "score" /\ srv' = NoServer
    BY Types DEF EvalInv, Kill, driverVars
  <1>2. srv'.at = "idle" /\ srv'.answer = None /\ ~srv'.up
    BY <1>1 DEF NoServer
  <1>3. SameQuestion
    BY <1>1 DEF Kill, Takes, SameQuestion, QuestionStates
  <1>4. CASE ServerDies /\ UNCHANGED <<leaked, late>>
    BY <1>1, <1>2, <1>3, <1>4, DeathInv DEF Begun, InJob
  <1>5. CASE /\ leaked' = leaked \cup {job} /\ UNCHANGED ledgerFile
             /\ late' = late \cup
                          (IF srv.at = "writing" THEN {Entry} ELSE {})
    <2>1. TrailInv'
      BY <1>5 DEF TrailInv
    <2>2. /\ FamInv /\ \A j : Question(j)' = Question(j)
      BY <1>1, PlanStays DEF EvalInv
    <2>3. srv.at = "writing" => EntryOk(Entry)
      BY <2>2, EntryFields DEF FamInv, RequestFam, EntryOk
    <2>4. LateFam'
      BY <1>1, <1>5, <2>2, <2>3 DEF FamInv, LateFam, EntryOk
    <2>5. LedgerFam' /\ QuestionFam' /\ RowFam'
      BY <1>1, <1>3, <1>5, <2>2 DEF FamInv, LedgerFam, QuestionFam, RowFam,
         EntryOk, Own, Hedged, SameQuestion, ledgerFile
    <2>6. RequestFam' /\ AnswerFam' /\ Apart'
      BY <1>2 DEF RequestFam, AnswerFam, Apart
    <2> QED
      BY <2>1, <2>4, <2>5, <2>6 DEF FamInv
  <1> QED
    BY <1>4, <1>5 DEF Kill

(* Such a write lands among those of later jobs.                           *)
LEMMA LateInv ==
    ASSUME EvalInv, LateWrite
    PROVE  FamInv' /\ TrailInv'
  <1>1. PICK e \in late : CutShort(e) /\ late' = late \ {e}
    BY DEF LateWrite
  <1>2. /\ Shape /\ PartInv /\ FamInv /\ e \in Entries
        /\ UNCHANGED <<plan, job, rows, leaked>> /\ q' = q /\ pc' = pc
        /\ srv' = srv /\ \A j : Question(j)' = Question(j)
    BY <1>1, Types, PlanStays DEF EvalInv, LateWrite, driverVars
  <1>3. leaked # {}
    BY <1>1, <1>2 DEF Shape, ServersReaped
  <1>4. TrailInv'
    BY <1>2, <1>3 DEF TrailInv
  <1>5. \A k \in DOMAIN ledger' :
          \/ k \in DOMAIN ledger /\ ledger'[k] = ledger[k]
          \/ ledger'[k] = e
    BY <1>1, <1>2, Landing
  <1>6. EntryOk(e)
    BY <1>1, <1>2 DEF FamInv, LateFam
  <1>7. LedgerFam'
    BY <1>2, <1>5, <1>6 DEF FamInv, LedgerFam, EntryOk
  <1>8. LateFam'
    BY <1>1, <1>2 DEF FamInv, LateFam, EntryOk
  <1>9. RequestFam' /\ AnswerFam' /\ QuestionFam' /\ RowFam' /\ Apart'
    BY <1>2 DEF FamInv, RequestFam, AnswerFam, QuestionFam, RowFam, Apart,
                Own, Hedged
  <1> QED
    BY <1>4, <1>7, <1>8, <1>9 DEF FamInv

-----------------------------------------------------------------------------
(* The invariant and what follows from it.                                 *)

LEMMA InitEval == Init => EvalInv
  <1> SUFFICES ASSUME Init PROVE EvalInv
    OBVIOUS
  <1>1. Shape /\ PartInv
    BY InitType, InitReaped, InitPart DEF Shape
  <1>2. /\ ledger = <<>> /\ rows = <<>> /\ late = {} /\ job = 1 /\ torn = 0
        /\ unended = 0 /\ tail = "whole"
        /\ q.ids = {} /\ q.claim = None
        /\ srv.at = "idle" /\ srv.answer = None
    BY DEF Init, Fresh, NoServer
  <1>3. DOMAIN ledger = {} /\ DOMAIN rows = {}
    BY <1>2
  <1>4. FamInv
    BY <1>2, <1>3 DEF FamInv, LedgerFam, LateFam, RequestFam, AnswerFam,
       QuestionFam, RowFam, Apart, Own, Hedged
  <1>5. TailOk /\ ChainOk /\ WriteOk /\ AnswerOk /\ RowsOk
    BY <1>2, <1>3 DEF TailOk, TailParses, ChainOk, WriteOk, AnswerOk, RowsOk
  <1>6. TrailInv
    BY <1>2, <1>5, NothingBacked DEF TrailInv, Alone
  <1> QED
    BY <1>1, <1>4, <1>6 DEF EvalInv

LEMMA NextEval == EvalInv /\ [Next]_vars => EvalInv'
  <1> SUFFICES ASSUME EvalInv, [Next]_vars
               PROVE  EvalInv'
    OBVIOUS
  <1>1. Shape' /\ PartInv'
    BY NextType, PartStep DEF EvalInv
  <1>2. FamInv' /\ TrailInv'
    <2>1. CASE QuietSteps
      BY <2>1, QuietEffect, QuietInv DEF EvalInv
    <2>2. CASE StartGated
      BY <2>2, StartInv
    <2>3. CASE ListTools \/ CallTool
      BY <2>3, RequestInv
    <2>4. CASE ToolAnswered
      BY <2>4, AnswerInv
    <2>5. CASE ClosePipes
      BY <2>5, ClosePipesInv
    <2>6. CASE Terminate
      BY <2>6, TerminateInv
    <2>7. CASE Kill
      BY <2>7, KillInv
    <2>8. CASE Score
      BY <2>8, ScoreInv
    <2>9. CASE ServeHandshake \/ RefuseTool
      BY <2>9, RefuseInv
    <2>10. CASE ReadHead
      BY <2>10, HeadInv
    <2>11. CASE AppendEntry
      BY <2>11, AppendInv
    <2>12. CASE ServerExits
      BY <2>12, ExitInv
    <2>13. CASE LateWrite
      BY <2>13, LateInv
    <2> QED
      BY <2>1, <2>2, <2>3, <2>4, <2>5, <2>6, <2>7, <2>8, <2>9, <2>10, <2>11,
         <2>12, <2>13 DEF QuietSteps, Next, Driver, Server
  <1> QED
    BY <1>1, <1>2 DEF EvalInv

LEMMA Invariant == Spec => []EvalInv
  BY InitEval, NextEval, PTL DEF Spec

(* A question that offers the tools of one family is never corroborated,   *)
(* although a server left behind may write to the ledger it reads          *)
(* (finding.py evaluate_claim, run_dfir_metric_eval.py run_eval).      *)
THEOREM FamilyHedged == Spec => []SingleFamilyHedged
  <1>1. EvalInv => SingleFamilyHedged
    BY DEF EvalInv, FamInv, RowFam, Hedged, SingleFamilyHedged
  <1> QED
    BY <1>1, Invariant, PTL

(* The chain of the shared ledger is forked only by a server that was left *)
(* behind (run_dfir_metric_eval.py close).                                 *)
THEOREM NoForkAlone == Spec => []ForkNeedsLeak
  <1>1. EvalInv => ForkNeedsLeak
    BY DEF EvalInv, TrailInv, Alone, ChainOk, ForkNeedsLeak
  <1> QED
    BY <1>1, Invariant, PTL

(* The ids and the verdict of a row are on the ledger, made for its job,   *)
(* although writes are cut short anywhere; all but one id, that of the     *)
(* first entry written after one without its newline                       *)
(* (run_dfir_metric_eval.py run_eval, audit.py append_entry).              *)
THEOREM Recorded == Spec => []RowsGrounded
  <1>1. EvalInv => RowsGrounded
    <2> SUFFICES ASSUME EvalInv, leaked = {}, NEW i \in DOMAIN rows
                 PROVE  LET made == {k \in DOMAIN ledger :
                                       ledger[k].job = rows[i].job} IN
                        /\ \/ rows[i].ids \subseteq {ledger[k].id : k \in made}
                           \/ /\ unended \in 1..(torn - 1)
                              /\ rows[i].job = torn
                              /\ \E id \in rows[i].ids : rows[i].ids = {id}
                        /\ rows[i].claim # None =>
                             \E k \in made :
                               /\ ledger[k].id \in rows[i].ids
                               /\ ledger[k].tier = rows[i].claim
      BY DEF RowsGrounded
    <2>1. Backed(rows[i].ids, rows[i].claim, rows[i].job)
      BY DEF EvalInv, TrailInv, Alone, RowsOk
    <2>2. Ended \subseteq DOMAIN ledger
      BY Types DEF EvalInv, Ended
    <2> QED
      BY <2>1, <2>2 DEF Backed, Lone
  <1> QED
    BY <1>1, Invariant, PTL

(* After a write was cut short, in the middle of its line or before its    *)
(* newline, no later question has a verdict, and none an id but the one    *)
(* whose entry ran into the line that was not ended, which has one         *)
(* (audit.py _last_line_hash, run_dfir_metric_eval.py close).              *)
THEOREM TearSilences == Spec => []NothingAfterTear
  <1>1. EvalInv => NothingAfterTear
    BY DEF EvalInv, TrailInv, Alone, RowsOk, Backed, Damage, Lone,
           NothingAfterTear
  <1> QED
    BY <1>1, Invariant, PTL

-----------------------------------------------------------------------------
(* What the aggregates add up to.                                          *)

SumOf(f) == FoldFunction(+, 0, f)

Chosen(s) == CHOOSE x \in s : TRUE

(* it adds up f over every subset of A.                                    *)
Adds(it, A, f) ==
    /\ it[{}] = 0
    /\ \A s \in SUBSET A : s # {} =>
         /\ Chosen(s) \in s /\ it[s \ {Chosen(s)}] \in Nat
         /\ it[s] = f[Chosen(s)] + it[s \ {Chosen(s)}]

LEMMA SumRun ==
    ASSUME NEW A, IsFiniteSet(A), NEW f \in [A -> Nat]
    PROVE  \E it \in [SUBSET A -> Nat] : Adds(it, A, f) /\ SumOf(f) = it[A]
  <1> DEFINE op == [p \in A \X Nat |-> f[p[1]] + p[2]]
             ch == [s \in SUBSET A |-> Chosen(s)]
             Is(g) == g = [s \in SUBSET A |->
                             IF s = {} THEN 0
                             ELSE f[Chosen(s)] + g[s \ {Chosen(s)}]]
             run == CHOOSE g : Is(g)
  <1>1. /\ op \in [A \X Nat -> Nat]
        /\ \A x \in A, v \in Nat : op[<<x, v>>] = f[x] + v
    OBVIOUS
  <1>2. \A s \in SUBSET A : s # {} => Chosen(s) \in s
    BY DEF Chosen
  <1>3. \A s \in SUBSET A : ch[s] = Chosen(s)
    OBVIOUS
  <1> HIDE DEF op, ch
  <1>4. \E g : Is(g)
    <2>1. PICK g \in [SUBSET A -> Nat] : FoldOf(g, A, 0, op, ch)
      <3>1. \A s \in SUBSET A : s # {} => ch[s] \in s
        BY <1>2, <1>3
      <3> HIDE DEF Is
      <3> QED
        BY <1>1, <3>1, FoldExists
    <2>2. ASSUME NEW s \in SUBSET A, s # {}
          PROVE  g[s] = f[Chosen(s)] + g[s \ {Chosen(s)}]
      <3>1. g[s] = op[<<ch[s], g[s \ {ch[s]}]>>]
        BY <2>1, <2>2 DEF FoldOf
      <3>2. ch[s] = Chosen(s) /\ Chosen(s) \in A /\ g[s \ {ch[s]}] \in Nat
        BY <1>2, <1>3, <2>2
      <3> QED
        BY <1>1, <3>1, <3>2
    <2>3. g[{}] = 0
      BY <2>1 DEF FoldOf
    <2>4. Is(g)
      BY <2>2, <2>3
    <2> HIDE DEF Is
    <2> QED
      BY <2>4
  <1>5. Is(run)
    <2> HIDE DEF Is
    <2> QED
      BY <1>4, Zenon
  <1>6. SumOf(f) = run[A]
    <2>1. SumOf(f) = run[DOMAIN f]
      BY DEF SumOf, FoldFunction, FoldFunctionOnSet, MapThenFoldSet, Chosen
    <2> QED
      BY <2>1
  <1> HIDE DEF run
  <1>7. \A s \in SUBSET A : run[s] \in Nat
    <2> DEFINE Good == {s \in SUBSET A : run[s] \in Nat}
    <2>1. ASSUME NEW s \in SUBSET A, \A t \in SUBSET s : t # s => t \in Good
          PROVE  s \in Good
      <3>1. CASE s = {}
        BY <1>5, <3>1
      <3>2. CASE s # {}
        <4>1. Chosen(s) \in s /\ s \ {Chosen(s)} \in Good
          BY <1>2, <2>1, <3>2
        <4>2. run[s] = f[Chosen(s)] + run[s \ {Chosen(s)}]
          BY <1>5, <3>2
        <4> QED
          BY <4>1, <4>2
      <3> QED
        BY <3>1, <3>2
    <2> HIDE DEF Good
    <2>2. SUBSET A \subseteq Good
      BY <2>1, SubsetInduction
    <2> QED
      BY <2>2 DEF Good
  <1>8. run \in [SUBSET A -> Nat]
    BY <1>5, <1>7
  <1>9. Adds(run, A, f)
    BY <1>2, <1>5, <1>7 DEF Adds
  <1> QED
    BY <1>6, <1>8, <1>9

(* A sum is a number, and one summand that grows makes it grow as much.    *)
LEMMA SumGrows ==
    ASSUME NEW A, IsFiniteSet(A), NEW f \in [A -> Nat], NEW a \in A,
           NEW c \in Nat
    PROVE  SumOf([f EXCEPT ![a] = @ + c]) = SumOf(f) + c
  <1> DEFINE g == [f EXCEPT ![a] = @ + c]
             Extra(s) == IF a \in s THEN c ELSE 0
  <1>1. g \in [A -> Nat] /\ \A x \in A : g[x] = f[x] + Extra({x})
    OBVIOUS
  <1> HIDE DEF g
  <1>2. PICK i \in [SUBSET A -> Nat] : Adds(i, A, f) /\ SumOf(f) = i[A]
    BY SumRun
  <1>3. PICK j \in [SUBSET A -> Nat] : Adds(j, A, g) /\ SumOf(g) = j[A]
    BY <1>1, SumRun
  <1> DEFINE Good == {s \in SUBSET A : j[s] = i[s] + Extra(s)}
  <1>4. ASSUME NEW s \in SUBSET A, \A t \in SUBSET s : t # s => t \in Good
        PROVE  s \in Good
    <2>1. CASE s = {}
      BY <1>2, <1>3, <2>1 DEF Adds
    <2>2. CASE s # {}
      <3> DEFINE x == Chosen(s)
                 t == s \ {x}
      <3>1. /\ x \in s
            /\ i[s] = f[x] + i[t] /\ j[s] = g[x] + j[t]
        BY <1>2, <1>3, <2>2 DEF Adds
      <3> HIDE DEF x
      <3>2. t \in Good
        BY <1>4, <3>1
      <3>3. j[t] = i[t] + Extra(t) /\ i[t] \in Nat /\ j[t] \in Nat
        BY <3>2
      <3>4. g[x] = f[x] + Extra({x}) /\ f[x] \in Nat /\ g[x] \in Nat
        BY <1>1, <3>1
      <3>5. Extra({x}) + Extra(t) = Extra(s) /\ Extra({x}) \in Nat
            /\ Extra(t) \in Nat
        BY <3>1
      <3> HIDE DEF Extra, t
      <3> QED
        BY <3>1, <3>3, <3>4, <3>5
    <2> QED
      BY <2>1, <2>2
  <1>5. A \in Good
    <2> HIDE DEF Good
    <2>1. SUBSET A \subseteq Good
      BY <1>4, SubsetInduction
    <2> QED
      BY <2>1
  <1> QED
    BY <1>2, <1>3, <1>5 DEF g

LEMMA SumOfZeros ==
    ASSUME NEW A, IsFiniteSet(A)
    PROVE  SumOf([a \in A |-> 0]) = 0
  <1> DEFINE f == [a \in A |-> 0]
  <1>1. f \in [A -> Nat] /\ \A a \in A : f[a] = 0
    OBVIOUS
  <1> HIDE DEF f
  <1>2. PICK i \in [SUBSET A -> Nat] : Adds(i, A, f) /\ SumOf(f) = i[A]
    BY <1>1, SumRun
  <1> DEFINE Good == {s \in SUBSET A : i[s] = 0}
  <1>3. ASSUME NEW s \in SUBSET A, \A t \in SUBSET s : t # s => t \in Good
        PROVE  s \in Good
    <2>1. CASE s = {}
      BY <1>2, <2>1 DEF Adds
    <2>2. CASE s # {}
      <3>1. Chosen(s) \in s /\ i[s] = f[Chosen(s)] + i[s \ {Chosen(s)}]
        BY <1>2, <2>2 DEF Adds
      <3>2. s \ {Chosen(s)} \in Good
        BY <1>3, <3>1
      <3> QED
        BY <1>1, <3>1, <3>2
    <2> QED
      BY <2>1, <2>2
  <1>4. A \in Good
    <2> HIDE DEF Good
    <2>1. SUBSET A \subseteq Good
      BY <1>3, SubsetInduction
    <2> QED
      BY <2>1
  <1> QED
    BY <1>2, <1>4 DEF f

LEMMA ArmsFinite == Shape => IsFiniteSet(ArmNames)
  <1>1. IsFiniteSet(Arms)
    <2>1. IsFiniteSet({})
      BY FS_EmptySet
    <2>2. IsFiniteSet({} \cup {"sanctum"})
      BY <2>1, FS_AddElement
    <2>3. IsFiniteSet({"sanctum"} \cup {"parallel"})
      BY <2>2, FS_AddElement
    <2>4. IsFiniteSet({"sanctum", "parallel"} \cup {"bare"})
      BY <2>3, FS_AddElement
    <2>5. IsFiniteSet({"sanctum", "parallel", "bare"} \cup {"structured_bare"})
      BY <2>4, FS_AddElement
    <2>6. IsFiniteSet({"sanctum", "parallel", "bare", "structured_bare"}
                        \cup {"prompt_only"})
      BY <2>5, FS_AddElement
    <2>7. Arms = {"sanctum", "parallel", "bare", "structured_bare"}
                   \cup {"prompt_only"}
      BY DEF Arms
    <2> QED
      BY <2>6, <2>7
  <1>2. Shape => ArmNames \subseteq Arms
    BY ArmsOfPlan
  <1> QED
    BY <1>1, <1>2, FS_Subset

(* What has been spent is what the arms have cost, and a report says so    *)
(* for the rows it was made from.                                          *)
SumInv ==
    /\ spent = SumOf(armCost)
    /\ report # None =>
         /\ pc = "done"
         /\ report = [a \in ArmNames |-> Aggregate(a)]

(* All steps but those that write a row or the report.                     *)
LEMMA MoneyStays ==
    ASSUME [Next]_vars, ~Score, ~WriteReport
    PROVE  /\ UNCHANGED <<plan, rows, spent, armCost, report>>
           /\ pc = "done" => pc' = "done"
  <1> USE DEF driverVars
  <1>1. CASE Server \/ UNCHANGED vars
    BY <1>1 DEF Server, ServeHandshake, RefuseTool, ReadHead, BeginWrite,
       AppendEntry, EndLine, ServerExits, LateWrite, vars
  <1>2. CASE Setup \/ FetchAlone
    BY <1>2 DEF Setup, FetchAlone, LoadLocal, FetchFirst, Hydrate,
       LoadCached, LoadMissing, runVars
  <1>3. CASE \/ StartGated \/ SpawnFails \/ StartUngated \/ Abort \/ Halt
             \/ Finish
    BY <1>3 DEF StartGated, SpawnFails, StartUngated, StartJob, Abort, Halt,
       Finish
  <1>4. CASE \/ Initialized \/ ListTools \/ Listed \/ ToolAnswered
             \/ ReadLine \/ SawExit \/ TimedOut \/ CallTool
    BY <1>4 DEF Initialized, ListTools, Listed, ToolAnswered, ReadLine,
       SawExit, TimedOut, Answered, CutOff, CallTool, Request, Fail
  <1>5. CASE \/ TurnsUsedUp \/ DeadlinePassed \/ WantsTools \/ FinalText
             \/ ModelFails
    BY <1>5 DEF TurnsUsedUp, DeadlinePassed, WantsTools, FinalText,
       ModelFails, Fail, MayAsk
  <1>6. CASE ClosePipes \/ Terminate \/ Kill \/ Overflows \/ Ask
    BY <1>6 DEF ClosePipes, Terminate, Kill, Overflows, Ask,
       StructuredBareOverflows, BareOverflows, AskStructuredBare, AskBare,
       AskPromptOnly, GivesUp, Asks
  <1> QED
    BY <1>1, <1>2, <1>3, <1>4, <1>5, <1>6 DEF Next, Driver

LEMMA InitSum == Init => SumInv
  <1> SUFFICES ASSUME Init PROVE SumInv
    OBVIOUS
  <1>1. IsFiniteSet(ArmNames)
    BY InitType, InitReaped, ArmsFinite DEF Shape
  <1>2. SumOf([a \in ArmNames |-> 0]) = 0
    <2> HIDE DEF ArmNames
    <2> QED
      BY <1>1, SumOfZeros
  <1> QED
    BY <1>2 DEF Init, SumInv

LEMMA SumStep == Shape /\ SumInv /\ [Next]_vars => SumInv'
  <1> SUFFICES ASSUME Shape, SumInv, [Next]_vars
               PROVE  SumInv'
    OBVIOUS
  <1>1. CASE ~Score /\ ~WriteReport
    <2>1. /\ UNCHANGED <<plan, rows, spent, armCost, report>>
          /\ pc = "done" => pc' = "done"
      BY <1>1, MoneyStays
    <2>2. ArmNames' = ArmNames /\ \A a : (Aggregate(a))' = Aggregate(a)
      BY <2>1 DEF ArmNames, NArms, Aggregate, RowsOf, FalseConfidence,
         PrecisionAtCorroborated, Corroborated, Abstention, BareConfident,
         Rate
    <2> QED
      BY <2>1, <2>2 DEF SumInv
  <1>2. CASE WriteReport
    <2>1. UNCHANGED <<plan, rows, spent, armCost>>
      BY <1>2 DEF WriteReport
    <2>2. ArmNames' = ArmNames /\ \A a : (Aggregate(a))' = Aggregate(a)
      BY <2>1 DEF ArmNames, NArms, Aggregate, RowsOf, FalseConfidence,
         PrecisionAtCorroborated, Corroborated, Abstention, BareConfident,
         Rate
    <2> QED
      BY <1>2, <2>1, <2>2 DEF SumInv, WriteReport
  <1>3. CASE Score
    <2>1. /\ spent' = spent + q.cost
          /\ armCost' = [armCost EXCEPT ![Arm(job)] = @ + q.cost]
          /\ report' = report /\ pc = "score"
      BY <1>3 DEF Score
    <2>2. armCost \in [ArmNames -> Nat] /\ q.cost \in Nat
      BY DEF Shape, TypeOK, QuestionStates
    <2>3. Arm(job) \in ArmNames
      BY <2>1, JobIsPlanned, Lengths DEF Shape, TypeOK, ControlInv, InJob
    <2>4. SumOf(armCost') = SumOf(armCost) + q.cost
      <3>1. IsFiniteSet(ArmNames)
        BY ArmsFinite
      <3> QED
        BY <2>1, <2>2, <2>3, <3>1, SumGrows
    <2> QED
      BY <2>1, <2>4 DEF SumInv
  <1> QED
    BY <1>1, <1>2, <1>3

(* The corroborated rows of an arm are right or wrong.                     *)
LEMMA RatesAddUp ==
    ASSUME rows \in Seq(RowSet), NEW arm
    PROVE  LET wrong == FalseConfidence(arm)
               right == PrecisionAtCorroborated(arm)
           IN  /\ (wrong = None) <=> (right = None)
               /\ wrong # None => wrong[1] + right[1] = wrong[2]
  <1> DEFINE C == Corroborated(arm)
             W == {i \in C : ~rows[i].correct}
             R == {i \in C : rows[i].correct}
  <1>1. C \subseteq 1..Len(rows) /\ Len(rows) \in Nat
    BY DEF Corroborated, RowsOf
  <1>2. IsFiniteSet(C)
    <2>1. IsFiniteSet(1..Len(rows))
      BY <1>1, FS_Interval
    <2> QED
      BY <1>1, <2>1, FS_Subset
  <1> HIDE DEF C
  <1>3. W \cup R = C /\ W \cap R = {} /\ IsFiniteSet(W) /\ IsFiniteSet(R)
    <2>1. W \cup R = C /\ W \cap R = {} /\ W \in SUBSET C /\ R \in SUBSET C
      OBVIOUS
    <2> HIDE DEF W, R
    <2> QED
      BY <1>2, <2>1, FS_Subset
  <1>4. /\ FalseConfidence(arm) = Rate(W, C)
        /\ PrecisionAtCorroborated(arm) = Rate(R, C)
    BY DEF FalseConfidence, PrecisionAtCorroborated, C
  <1> HIDE DEF W, R
  <1>5. /\ Cardinality(W) \in Nat /\ Cardinality(R) \in Nat
        /\ Cardinality(C) = Cardinality(W) + Cardinality(R)
    <2>1. Cardinality({}) = 0
      BY FS_EmptySet
    <2>2. Cardinality(W \cup R)
            = Cardinality(W) + Cardinality(R) - Cardinality(W \cap R)
      BY <1>3, FS_Union
    <2>3. Cardinality(W) \in Nat /\ Cardinality(R) \in Nat
      BY <1>3, FS_CardinalityType
    <2>4. Cardinality(W \cup R) = Cardinality(C)
          /\ Cardinality(W \cap R) = Cardinality({})
      BY <1>3
    <2> QED
      BY <2>1, <2>2, <2>3, <2>4
  <1>6. CASE C = {}
    <2>1. Rate(W, C) = None /\ Rate(R, C) = None
      BY <1>6 DEF Rate
    <2> QED
      BY <1>4, <2>1
  <1>7. CASE C # {}
    <2>1. /\ Rate(W, C) = <<Cardinality(W), Cardinality(C)>>
          /\ Rate(R, C) = <<Cardinality(R), Cardinality(C)>>
      BY <1>7 DEF Rate
    <2>2. Rate(W, C) # None /\ Rate(R, C) # None
      BY <1>5, <2>1, RatesAssumption
    <2>3. Rate(W, C)[1] + Rate(R, C)[1] = Rate(W, C)[2]
      BY <1>5, <2>1
    <2> QED
      BY <1>4, <2>2, <2>3
  <1> QED
    BY <1>6, <1>7

(* The costs the report gives the arms sum up to what was spent, and the   *)
(* right and the wrong among the corroborated rows to all of them, for any *)
(* number of arms, runs, questions and any costs                           *)
(* (run_dfir_metric_eval.py run_eval, _aggregate).                         *)
THEOREM AddsUp == Spec => []AggregatesAddUp
  <1> DEFINE Inv == Shape /\ PartInv /\ SumInv
  <1>1. Init => Inv
    BY InitType, InitReaped, InitPart, InitSum DEF Shape
  <1>2. Inv /\ [Next]_vars => Inv'
    BY NextType, PartStep, SumStep
  <1>3. Inv => AggregatesAddUp
    <2> SUFFICES ASSUME Inv, report # None
                 PROVE  AggregatesAddUp
      BY DEF AggregatesAddUp
    <2>1. /\ armCost \in [ArmNames -> Nat] /\ rows \in Seq(RowSet)
          /\ spent = SumOf(armCost)
          /\ report = [a \in ArmNames |-> Aggregate(a)]
      BY DEF Shape, TypeOK, PartInv, SumInv
    <2>2. \A a \in ArmNames : report[a].cost = armCost[a]
      BY <2>1 DEF Aggregate
    <2>3. [a \in ArmNames |-> report[a].cost] = armCost
      BY <2>1, <2>2
    <2>4. spent = FoldFunction(+, 0, [a \in ArmNames |-> report[a].cost])
      BY <2>1, <2>3 DEF SumOf
    <2>5. ASSUME NEW a \in Gated \cap ArmNames
          PROVE  LET wrong == report[a].false_confidence_rate
                     right == report[a].precision
                 IN  /\ (wrong = None) <=> (right = None)
                     /\ wrong # None => wrong[1] + right[1] = wrong[2]
      <3>1. a \notin {"bare", "prompt_only"}
        BY DEF Gated
      <3>2. /\ report[a].false_confidence_rate = FalseConfidence(a)
            /\ report[a].precision = PrecisionAtCorroborated(a)
        BY <2>1, <3>1 DEF Aggregate
      <3> QED
        BY <2>1, <3>2, RatesAddUp
    <2> QED
      BY <2>4, <2>5 DEF AggregatesAddUp
  <1> QED
    BY <1>1, <1>2, <1>3, PTL DEF Spec

=============================================================================
