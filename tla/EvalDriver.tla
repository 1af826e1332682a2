----------------------------- MODULE EvalDriver -----------------------------
(***************************************************************************)
(* The evaluation driver of src/scripts/run_dfir_metric_eval.py: it asks   *)
(* every question of every run in every arm, one after the other, under a  *)
(* cost cap.  A question of the sanctum arm spawns an MCP server of its    *)
(* own and talks to it over pipes while the model asks for tools; all the  *)
(* servers of one evaluation share one ledger file.                        *)
(*                                                                         *)
(* Two processes: the driver and the server of the current question, with  *)
(* at most one request between them.  Time and money are counted in units; *)
(* wallclock readings, prompts and token counts are left out.              *)
(***************************************************************************)
EXTENDS CorpusCache, Integers, Sequences, FiniteSets, Functions

CONSTANTS
    Plans,        \* what may be asked of it: [source, arms, questions]
    Tools,        \* the get_* tools, one for each family
    Fits,         \* revisions of the corpus with every record SUBSET names
    Runs,         \* n_runs
    TurnLimit,    \* turns of the agentic loop; 8 in the code
    MaxTools,     \* bound: tool uses in one answer of the model
    Handshake,    \* handshake_timeout_s
    PerQuestion,  \* per_q_timeout_s, also the timeout of each request
    ApiTime,      \* bound: time one call of the model takes
    LineTime,     \* bound: time the end of a line takes once it has begun
    Grace,        \* seconds close() waits after each signal
    CallCosts,    \* what one call of the model may cost, ...
    MaxCall,      \* ... and the most it costs
    Projected,    \* projected_next_call_usd
    Cap,          \* max_cost_usd
    MaxFaults     \* bound: servers that exit on their own or resist SIGKILL

Arms == {"sanctum", "parallel", "bare", "structured_bare", "prompt_only"}

QuestionTypes == {"factual", "adversarial_single_family"}

ASSUME PlansAssumption ==
    Plans \subseteq [source : {"local", "upstream"},
                    arms : Seq(Arms) \ {<<>>},
                    questions : Seq([type : QuestionTypes,
                                     families : SUBSET Tools,
                                     uses : 1..MaxTools])]
ASSUME ToolsAssumption ==
    /\ IsFiniteSet(Tools)
    /\ Tools \cap {"initialize", "tools/list", "claim_finding"} = {}
ASSUME FitsAssumption == Fits \subseteq Revisions
ASSUME LimitsAssumption ==
    /\ Runs \in Nat /\ MaxTools \in Nat \ {0} /\ MaxFaults \in Nat
    /\ TurnLimit \in Nat \ {0}
ASSUME TimeAssumption ==
    /\ Handshake \in Nat /\ PerQuestion \in Nat /\ ApiTime \in Nat
    /\ LineTime \in Nat /\ Grace \in Nat
ASSUME CostAssumption ==
    /\ MaxCall \in Nat /\ Projected \in Nat /\ Cap \in Nat
    /\ CallCosts \subseteq 0..MaxCall
ASSUME RatesAssumption == None \notin Nat \X Nat

VARIABLES
    given,    \* --sha256
    commit,   \* dfir_metric_commit_sha
    loaded,   \* the corpus the questions are hydrated from
    plan,     \* the arms and the questions of this evaluation
    pc,       \* where run_eval is
    job,      \* the question, run and arm it is at, counted in loop order
    q,        \* the local state of the question
    srv,      \* the server process of the question, and the pipe to it
    ledger,   \* the lines of the ledger that parse
    tail,     \* the last line of the ledger
    torn,     \* the job that first left a line that does not parse, or 0
    unended,  \* the job that first left an entry without its newline, or 0
    leaked,   \* jobs whose server SIGKILL did not reap (_leaked_pids)
    late,     \* the writes such servers were in the middle of
    rows,     \* rows of the report
    spent,    \* total_cost_usd
    armCost,  \* per_arm_cost
    partial,  \* the report is partial
    report,   \* the aggregates written at the end
    exits     \* servers that exited on their own so far

driverVars == <<plan, job, rows, spent, armCost, partial, report>>
corpusVars == <<cacheVars, given, commit, loaded>>
ledgerFile == <<ledger, tail, torn, unended>>
ledgerVars == <<ledgerFile, leaked, late>>
vars == <<corpusVars, driverVars, pc, q, srv, ledgerVars, exits>>

-----------------------------------------------------------------------------
(* The jobs in the order of the three loops of run_eval: runs, questions,  *)
(* arms.                                                                   *)

NArms == Len(plan.arms)

NQuestions == Len(plan.questions)

Total == Runs * NQuestions * NArms

Arm(j) == plan.arms[((j - 1) % NArms) + 1]

Question(j) == plan.questions[(((j - 1) \div NArms) % NQuestions) + 1]

Gated == {"sanctum", "parallel"}

ArmNames == {plan.arms[i] : i \in 1..NArms}

-----------------------------------------------------------------------------
(* Rows and scores.                                                        *)

Markers == {"<subprocess_timeout>", "<subprocess_crash>", "<api_error>",
            "<turn_limit_exceeded>", "<context_overflow>"}

(* What the model may answer: "<right>" matches the pattern and begins     *)
(* with the character the driver takes for a marker's.                     *)
Answers == {"right", "wrong", "<right>"}

(* The exception that is no API error and leaves run_eval.                 *)
Escaped == "escaped"

Fresh == [turn |-> 0, todo |-> 0, elapsed |-> 0, cost |-> 0, ids |-> {},
          claim |-> None, predicted |-> None]

IsMarker(p) == p \in Markers \cup {"<right>"}

Matches(p) == p \in {"right", "<right>"}

IsAdversarial(question) == question.type = "adversarial_single_family"

(* With a gate an adversarial question is scored by the verdict alone, and *)
(* an answer only if it does not look like a marker.                       *)
GatedCorrect(question) ==
    IF IsAdversarial(question)
    THEN q.claim \in {"DRAFT", "DRAFT_TAMPER_SUSPECTED"}
    ELSE ~IsMarker(q.predicted) /\ Matches(q.predicted)

(* Without a gate there is no point for an adversarial question, ...       *)
StructuredBareCorrect(question) ==
    ~IsAdversarial(question) /\ Matches(q.predicted)

PromptOnlyCorrect(question) ==
    ~IsAdversarial(question) /\ Matches(q.predicted)

(* ... except in the arm bare, which scores it by the pattern.             *)
BareCorrect == Matches(q.predicted)

Correct(arm, question) ==
    CASE arm \in Gated -> GatedCorrect(question)
      [] arm = "structured_bare" -> StructuredBareCorrect(question)
      [] arm = "prompt_only" -> PromptOnlyCorrect(question)
      [] OTHER -> BareCorrect

Row == [job |-> job, arm |-> Arm(job), predicted |-> q.predicted,
        correct |-> Correct(Arm(job), Question(job)), claim |-> q.claim,
        ids |-> q.ids]

-----------------------------------------------------------------------------
(* Aggregates: a rate is a pair <<k, n>>, None when it is undefined.       *)

RowsOf(arm) == {i \in DOMAIN rows : rows[i].arm = arm}

Rate(K, N) == IF N = {} THEN None ELSE <<Cardinality(K), Cardinality(N)>>

Corroborated(arm) == {i \in RowsOf(arm) : rows[i].claim = "CORROBORATED"}

FalseConfidence(arm) ==
    Rate({i \in Corroborated(arm) : ~rows[i].correct}, Corroborated(arm))

MutPrecision(arm) ==
    LET hedged == {i \in RowsOf(arm) : rows[i].claim = "DRAFT"} IN
    Rate({i \in Corroborated(arm) : rows[i].correct},
         Corroborated(arm) \cup hedged)

PrecisionAtCorroborated(arm) ==
    Rate({i \in Corroborated(arm) : rows[i].correct}, Corroborated(arm))

(* A row without a verdict counts as an abstention, unless no row has one. *)
Abstention(arm) ==
    IF \A i \in RowsOf(arm) : rows[i].claim = None
    THEN None
    ELSE Rate({i \in RowsOf(arm) :
                 rows[i].claim \in {None, "DRAFT", "DRAFT_TAMPER_SUSPECTED"}},
              RowsOf(arm))

BareConfident(arm) ==
    IF arm \in Gated
    THEN None
    ELSE Rate({i \in RowsOf(arm) : ~IsMarker(rows[i].predicted)}, RowsOf(arm))

Aggregate(arm) ==
    LET bare == arm \in {"bare", "prompt_only"} IN
    [accuracy |-> IF RowsOf(arm) = {} THEN <<0, 1>>
                  ELSE Rate({i \in RowsOf(arm) : rows[i].correct},
                            RowsOf(arm)),
     false_confidence_rate |-> IF bare THEN None ELSE FalseConfidence(arm),
     precision |-> IF bare THEN None ELSE PrecisionAtCorroborated(arm),
     abstention_rate |-> IF bare THEN None ELSE Abstention(arm),
     bare_confident_rate |-> BareConfident(arm),
     cost |-> armCost[arm]]

-----------------------------------------------------------------------------
(* The server of a question, as far as the driver can tell.                *)

NoServer == [up |-> FALSE, at |-> "idle", tool |-> None, cites |-> {},
             id |-> <<0, 0>>, prev |-> 0, tier |-> None, answer |-> None,
             half |-> FALSE]

Silence == [ids |-> {}, tier |-> None]

Init ==
    /\ CacheInit
    /\ given = None /\ commit = None /\ loaded = None
    /\ plan \in Plans
    /\ pc = "corpus"
    /\ job = 1
    /\ q = Fresh
    /\ srv = NoServer
    /\ ledger = <<>> /\ tail = "whole" /\ torn = 0 /\ unended = 0
    /\ leaked = {} /\ late = {}
    /\ rows = <<>>
    /\ spent = 0
    /\ armCost = [a \in ArmNames |-> 0]
    /\ partial = FALSE
    /\ report = None
    /\ exits = 0

IdsIn(lines) == {lines[i].id : i \in DOMAIN lines}

FamiliesOf(cites) ==
    {ledger[i].tool : i \in {k \in DOMAIN ledger : ledger[k].id \in cites}}

(* evaluate_claim: every cited entry is in the ledger and is evidence.     *)
Citable(cites) ==
    /\ cites # {}
    /\ cites \subseteq IdsIn(ledger)
    /\ "claim_finding" \notin FamiliesOf(cites)

ClassifyConfidence(cites) ==
    LET n == Cardinality(FamiliesOf(cites)) IN
    CASE n <= 1 -> "DRAFT" [] n = 2 -> "CORROBORATED" [] OTHER -> "FINAL"

(* The temporal check, whose times are left out, may cost the claim a tier. *)
TEMPORAL_DEMOTION == [FINAL |-> "CORROBORATED", CORROBORATED |-> "DRAFT"]

EvaluateClaim(cites) ==
    LET base == ClassifyConfidence(cites) IN
    {base} \cup {TEMPORAL_DEMOTION[t] :
                   t \in {base} \cap DOMAIN TEMPORAL_DEMOTION}

Entry ==
    [id |-> srv.id, job |-> job, tool |-> srv.tool, prev |-> srv.prev,
     tier |-> srv.tier]

(* Every line of the file parses: whether the last one has its newline is  *)
(* not looked at.                                                          *)
LedgerParses == torn = 0

FirstOf(history, e) == IF history = 0 THEN e.job ELSE history

(* A write puts all of an entry into the file, all but the newline, or a   *)
(* part.  Onto a line that was not ended it makes one line of two that     *)
(* does not parse: both entries are lost, one of them perhaps answered.    *)
Write(e, part) ==
    IF tail \in {"whole", "ended"}
    THEN /\ ledger' = IF part = "torn" THEN ledger ELSE Append(ledger, e)
         /\ tail' = part
         /\ torn' = IF part = "torn" THEN FirstOf(torn, e) ELSE torn
         /\ unended' = IF part = "unended" THEN FirstOf(unended, e) ELSE unended
    ELSE /\ ledger' = IF tail = "unended"
                      THEN SubSeq(ledger, 1, Len(ledger) - 1) ELSE ledger
         /\ tail' = IF part = "whole" THEN "ended" ELSE "torn"
         /\ torn' = FirstOf(torn, e)
         /\ UNCHANGED unended

MutLand(e) == UNCHANGED ledgerFile

Land(e) == Write(e, "whole")

(* What is left of a write whose process is killed inside it.              *)
CutShort(e) ==
    \/ UNCHANGED ledgerFile
    \/ \E part \in {"whole", "unended", "torn"} : Write(e, part)

ServerDies ==
    IF srv.up /\ srv.at = "writing"
    THEN CutShort(Entry)
    ELSE UNCHANGED ledgerFile

(* SIGTERM ends the interpreter; only the system call it is in may still   *)
(* finish.                                                                 *)
ServerRuns == srv.up /\ pc # "kill"

(* The answer is written into the pipe, the end of its line perhaps later. *)
Respond(answer) ==
    \E h \in BOOLEAN :
      srv' = [srv EXCEPT !.at = "idle", !.answer = answer, !.half = h,
                         !.cites = {}, !.prev = 0, !.tier = None]

EndLine ==
    /\ ServerRuns /\ srv.half
    /\ srv' = [srv EXCEPT !.half = FALSE]
    /\ UNCHANGED <<corpusVars, driverVars, pc, q, ledgerVars, exits>>

ServeHandshake ==
    /\ ServerRuns /\ srv.at = "request"
    /\ srv.tool \in {"initialize", "tools/list"}
    /\ Respond(Silence)
    /\ UNCHANGED <<corpusVars, driverVars, pc, q, ledgerVars, exits>>

(* A tool call that fails is answered by a text without an audit_id: a     *)
(* missing artifact, a claim the gate refuses, a ledger that does not      *)
(* parse.                                                                  *)
RefuseTool ==
    /\ ServerRuns /\ srv.at = "request"
    /\ srv.tool \notin {"initialize", "tools/list"}
    /\ \/ srv.tool # "claim_finding"
       \/ torn # 0
       \/ ~Citable(srv.cites)
    /\ Respond(Silence)
    /\ UNCHANGED <<corpusVars, driverVars, pc, q, ledgerVars, exits>>

BeginWrite ==
    /\ ServerRuns /\ srv.at = "request"
    /\ srv.tool \notin {"initialize", "tools/list"}
    /\ srv.tool = "claim_finding" => Citable(srv.cites)
    /\ \E t \in IF srv.tool = "claim_finding"
                THEN EvaluateClaim(srv.cites) ELSE {None} :
         srv' = [srv EXCEPT !.at = "writing", !.prev = Len(ledger),
                            !.cites = {}, !.tier = t]
    /\ UNCHANGED <<corpusVars, driverVars, pc, q, ledgerVars, exits>>

MutReadHead == BeginWrite

(* append_entry reads the whole file for the head of the chain, and it     *)
(* refuses one with a line that does not parse.                            *)
ReadHead == LedgerParses /\ BeginWrite

AppendEntry ==
    /\ ServerRuns /\ srv.at = "writing"
    /\ Land(Entry)
    /\ Respond([ids |-> {srv.id}, tier |-> srv.tier])
    /\ UNCHANGED <<corpusVars, driverVars, pc, q, leaked, late, exits>>

(* The server exits on its own, before the driver has to end it.           *)
ServerExits ==
    /\ srv.up /\ exits + Cardinality(leaked) < MaxFaults
    /\ pc \notin {"terminate", "kill"}
    /\ exits' = exits + 1
    /\ srv' = [srv EXCEPT !.up = FALSE, !.at = "idle", !.cites = {},
                         !.prev = 0, !.tier = None]
    /\ ServerDies
    /\ UNCHANGED <<corpusVars, driverVars, pc, q, leaked, late>>

(* A server that was left behind finishes the write it was in.             *)
LateWrite ==
    /\ \E e \in late : CutShort(e) /\ late' = late \ {e}
    /\ UNCHANGED <<corpusVars, driverVars, pc, q, srv, leaked, exits>>

-----------------------------------------------------------------------------
(* The pipe to the server: one request at a time, then its answer.         *)

Fail(marker) ==
    /\ q' = [q EXCEPT !.predicted = marker]
    /\ pc' = "close"

(* _send writes into a pipe that is broken once the server is gone.  The   *)
(* audit_id the call would get is new in its job: a call whose entry is    *)
(* written and not answered is the last of its question.                   *)
Request(tool, cites) ==
    \/ /\ srv.up
       /\ srv' = [srv EXCEPT !.at = "request", !.tool = tool,
                             !.cites = cites, !.answer = None, !.half = FALSE,
                             !.id = <<job, Cardinality(q.ids)>>]
       /\ pc' = "waiting"
       /\ UNCHANGED q
    \/ /\ ~srv.up
       /\ Fail("<subprocess_crash>")
       /\ UNCHANGED srv

Timeout == IF srv.tool = "initialize" THEN Handshake ELSE PerQuestion

Spend(time) == q.elapsed + time

Takes(d) == q' = [q EXCEPT !.elapsed = Spend(d)]

(* select has seen data, and readline returns only with the whole line or  *)
(* at the end of the file: no deadline is looked at in between.            *)
ReadLine ==
    /\ pc = "waiting" /\ srv.half
    /\ pc' = "reading"
    /\ UNCHANGED <<corpusVars, driverVars, q, srv, ledgerVars, exits>>

Stuck == pc = "reading" /\ srv.up /\ srv.half

CutOff == pc = "reading" /\ ~srv.up /\ srv.half

Answered == pc \in {"waiting", "reading"} /\ srv.answer # None /\ ~srv.half

Latest == Timeout + (IF pc = "reading" THEN LineTime ELSE 0)

(* _recv looks at the process before it reads the pipe, so the answer of a *)
(* server that has exited since may be lost.                               *)
SawExit ==
    /\ CutOff \/ (pc = "waiting" /\ ~srv.up)
    /\ \E d \in 0..Latest :
         q' = [q EXCEPT !.predicted = "<subprocess_crash>",
                        !.elapsed = Spend(d)]
    /\ pc' = "close"
    /\ UNCHANGED <<corpusVars, driverVars, srv, ledgerVars, exits>>

TimedOut ==
    /\ CutOff \/ pc = "waiting"
    /\ \E d \in Timeout..Latest :
         q' = [q EXCEPT !.predicted = "<subprocess_timeout>",
                        !.elapsed = Spend(d)]
    /\ pc' = "close"
    /\ UNCHANGED <<corpusVars, driverVars, srv, ledgerVars, exits>>

(* initialize returns after its notification is sent, list_tools follows.  *)
Initialized ==
    /\ Answered /\ srv.tool = "initialize"
    /\ \E d \in 0..Latest : Takes(d)
    /\ pc' = "listing"
    /\ UNCHANGED <<corpusVars, driverVars, srv, ledgerVars, exits>>

ListTools ==
    /\ pc = "listing"
    /\ Request("tools/list", {})
    /\ UNCHANGED <<corpusVars, driverVars, ledgerVars, exits>>

Listed ==
    /\ Answered /\ srv.tool = "tools/list"
    /\ \E d \in 0..Latest : Takes(d)
    /\ pc' = "turn"
    /\ UNCHANGED <<corpusVars, driverVars, srv, ledgerVars, exits>>

(* The answer of a tool: its audit_id, and the tier if it is a finding.    *)
ToolAnswered ==
    /\ Answered /\ srv.tool \notin {"initialize", "tools/list"}
    /\ \E d \in 0..Latest :
         q' = [q EXCEPT !.elapsed = Spend(d),
                        !.todo = @ - 1,
                        !.ids = @ \cup srv.answer.ids,
                        !.claim = IF srv.answer.tier # None
                                  THEN srv.answer.tier ELSE @]
    /\ pc' = IF q.todo = 1 THEN "turn" ELSE "tools"
    /\ UNCHANGED <<corpusVars, driverVars, srv, ledgerVars, exits>>

-----------------------------------------------------------------------------
(* The command line: fetch_dfir_metric on its own, and the evaluation,     *)
(* which loads a local corpus, the cached one or a fetched one.  Whoever   *)
(* runs them runs one at a time.                                           *)

runVars == <<driverVars, q, srv, ledgerVars, exits>>

FetchAlone ==
    /\ pc = "corpus" /\ plan.source = "upstream"
    /\ \/ \E r \in Revisions : StartFetch(r)
       \/ FetchStep
       \/ ReplaceProv
       \/ FetchFails
    /\ UNCHANGED <<runVars, pc, given, commit, loaded>>

LoadLocal ==
    /\ pc = "corpus" /\ plan.source = "local"
    /\ pc' \in {"hydrate", "exited"}
    /\ UNCHANGED <<runVars, corpusVars>>

MutDigestOk(sha) == TRUE

(* A cached corpus is verified only if a digest is given.                  *)
DigestOk(sha) == sha \in {None, body}

LoadCached(sha) ==
    /\ pc = "corpus" /\ plan.source = "upstream"
    /\ fetch = "idle" /\ body # None
    /\ given' = sha
    /\ IF DigestOk(sha)
       THEN pc' = "hydrate" /\ commit' = prov
       ELSE pc' = "exited" /\ UNCHANGED commit
    /\ UNCHANGED <<runVars, cacheVars, loaded>>

LoadMissing(sha) ==
    /\ pc = "corpus" /\ plan.source = "upstream"
    /\ body = None
    /\ given' = sha
    /\ IF sha = None
       THEN fetch = "idle" /\ pc' = "exited" /\ UNCHANGED cacheVars
       ELSE StartFetch(sha) /\ pc' = "fetching"
    /\ UNCHANGED <<runVars, commit, loaded>>

FetchFirst ==
    /\ pc = "fetching"
    /\ \/ FetchStep /\ UNCHANGED <<pc, commit>>
       \/ ReplaceProv /\ pc' = "hydrate" /\ commit' = want
       \/ FetchFails /\ pc' = "exited" /\ UNCHANGED commit
    /\ UNCHANGED <<runVars, given, loaded>>

(* hydrate_questions_from_corpus reads the file and raises for a record    *)
(* that is missing or has no question.                                     *)
Hydrate ==
    /\ pc = "hydrate"
    /\ loaded' = IF plan.source = "local" THEN None ELSE body
    /\ \/ /\ plan.source = "local" \/ body \in Fits
          /\ pc' = "next"
       \/ /\ plan.source = "local" \/ body \notin Fits
          /\ pc' = "exited"
    /\ UNCHANGED <<runVars, cacheVars, given, commit>>

Setup ==
    \/ LoadLocal \/ FetchFirst \/ Hydrate
    \/ \E sha \in Revisions \cup {None} : LoadCached(sha) \/ LoadMissing(sha)

-----------------------------------------------------------------------------
(* run_eval.                                                               *)

MutAffordable == spent < Cap

Affordable == spent + Projected < Cap

MutHalt ==
    /\ pc = "next" /\ job <= Total /\ ~Affordable
    /\ pc' = "report"
    /\ UNCHANGED <<corpusVars, driverVars, q, srv, ledgerVars, exits>>

Halt ==
    /\ pc = "next" /\ job <= Total /\ ~Affordable
    /\ partial' = TRUE
    /\ pc' = "report"
    /\ UNCHANGED <<corpusVars, plan, job, rows, spent, armCost, report, q, srv,
                   ledgerVars, exits>>

StartJob(arm) ==
    /\ pc = "next" /\ job <= Total /\ Affordable
    /\ arm = Arm(job)
    /\ q' = Fresh
    /\ UNCHANGED <<corpusVars, driverVars, ledgerVars, exits>>

(* The server is spawned and sent initialize.                              *)
StartGated ==
    /\ \E arm \in Gated : StartJob(arm)
    /\ srv' = [NoServer EXCEPT !.up = TRUE, !.at = "request",
                               !.tool = "initialize"]
    /\ pc' = "waiting"

(* subprocess.Popen raises outside of every handler.                       *)
SpawnFails ==
    /\ \E arm \in Gated : StartJob(arm)
    /\ pc' = "aborted"
    /\ UNCHANGED srv

StartUngated ==
    /\ \E arm \in Arms \ Gated : StartJob(arm)
    /\ pc' = "ask"
    /\ UNCHANGED srv

(* The loop is over after TurnLimit turns; the deadline is looked at here  *)
(* and nowhere else.                                                       *)
TurnsUsedUp ==
    /\ pc = "turn" /\ q.turn = TurnLimit
    /\ Fail("<turn_limit_exceeded>")
    /\ UNCHANGED <<corpusVars, driverVars, srv, ledgerVars, exits>>

DeadlinePassed ==
    /\ pc = "turn" /\ q.turn < TurnLimit /\ q.elapsed > PerQuestion
    /\ Fail("<subprocess_timeout>")
    /\ UNCHANGED <<corpusVars, driverVars, srv, ledgerVars, exits>>

MutMayAsk == pc = "turn" /\ q.turn < TurnLimit

MutMayAskOnce ==
    pc = "turn" /\ q.turn <= TurnLimit /\ q.elapsed <= PerQuestion

MayAsk == pc = "turn" /\ q.turn < TurnLimit /\ q.elapsed <= PerQuestion

(* messages.create returns the tools the model wants called, ...           *)
WantsTools ==
    /\ MayAsk
    /\ \E d \in 0..ApiTime, c \in CallCosts, n \in 1..Question(job).uses :
         q' = [q EXCEPT !.turn = @ + 1, !.elapsed = Spend(d),
                        !.cost = @ + c, !.todo = n]
    /\ pc' = "tools"
    /\ UNCHANGED <<corpusVars, driverVars, srv, ledgerVars, exits>>

(* ... or a text with the answer, ...                                      *)
FinalText ==
    /\ MayAsk
    /\ \E d \in 0..ApiTime, c \in CallCosts, a \in Answers :
         q' = [q EXCEPT !.turn = @ + 1, !.elapsed = Spend(d),
                        !.cost = @ + c, !.predicted = a]
    /\ pc' = "close"
    /\ UNCHANGED <<corpusVars, driverVars, srv, ledgerVars, exits>>

(* ... or raises; what the failed call cost is not known to the driver.    *)
ModelFails ==
    /\ MayAsk
    /\ \E d \in 0..ApiTime, p \in {"<api_error>", Escaped} :
         q' = [q EXCEPT !.elapsed = Spend(d), !.predicted = p]
    /\ pc' = "close"
    /\ UNCHANGED <<corpusVars, driverVars, srv, ledgerVars, exits>>

MutOffered(question) == Tools

Offered(question) == question.families

(* The tool uses of one answer are called in turn: the API returns uses of *)
(* the tools it was sent.  A finding cites ids the model has seen.         *)
CallTool ==
    /\ pc = "tools"
    /\ \/ \E tool \in Offered(Question(job)) : Request(tool, {})
       \/ \E cites \in SUBSET q.ids : Request("claim_finding", cites)
    /\ UNCHANGED <<corpusVars, driverVars, ledgerVars, exits>>

-----------------------------------------------------------------------------
(* close(): pipes, SIGTERM, two seconds, SIGKILL, two seconds.             *)

ClosePipes ==
    /\ pc = "close"
    /\ IF srv.up
       THEN pc' = "terminate" /\ UNCHANGED srv
       ELSE pc' = "score" /\ srv' = NoServer
    /\ UNCHANGED <<corpusVars, driverVars, q, ledgerVars, exits>>

MutTerminateWaits ==
    /\ pc = "terminate" /\ ~srv.up
    /\ pc' = "score"
    /\ UNCHANGED <<corpusVars, driverVars, q, srv, ledgerVars, exits>>

MutTerminate ==
    /\ pc = "terminate"
    /\ pc' = "score"
    /\ UNCHANGED <<corpusVars, driverVars, q, srv, ledgerVars, exits>>

Terminate ==
    /\ pc = "terminate"
    /\ \/ /\ pc' = "score" /\ srv' = NoServer /\ ServerDies
          /\ \E d \in 0..Grace : Takes(d)
       \/ /\ srv.up /\ pc' = "kill"
          /\ Takes(Grace)
          /\ UNCHANGED <<srv, ledgerFile>>
    /\ UNCHANGED <<corpusVars, driverVars, leaked, late, exits>>

MutKill ==
    /\ pc = "kill"
    /\ pc' = "score"
    /\ srv' = NoServer
    /\ \/ ServerDies /\ UNCHANGED <<leaked, late>>
       \/ /\ late' = late \cup (IF srv.at = "writing" THEN {Entry} ELSE {})
          /\ UNCHANGED <<ledgerFile, leaked>>
    /\ UNCHANGED <<corpusVars, driverVars, q, exits>>

(* A server SIGKILL does not reap in time is recorded and left behind.     *)
Kill ==
    /\ pc = "kill"
    /\ pc' = "score"
    /\ srv' = NoServer
    /\ \/ /\ ServerDies /\ UNCHANGED <<leaked, late>>
          /\ \E d \in 0..Grace : Takes(d)
       \/ /\ srv.up /\ exits + Cardinality(leaked) < MaxFaults
          /\ leaked' = leaked \cup {job}
          /\ late' = late \cup (IF srv.at = "writing" THEN {Entry} ELSE {})
          /\ Takes(Grace)
          /\ UNCHANGED ledgerFile
    /\ UNCHANGED <<corpusVars, driverVars, exits>>

-----------------------------------------------------------------------------
(* The arms without a server ask once.  structured_bare sends the parsed   *)
(* rows along, bare the raw evidence, and they give up beforehand when it  *)
(* is too long.                                                            *)

GivesUp(arm) ==
    /\ pc = "ask" /\ Arm(job) = arm
    /\ q' = [q EXCEPT !.predicted = "<context_overflow>"]
    /\ pc' = "score"
    /\ UNCHANGED <<corpusVars, driverVars, srv, ledgerVars, exits>>

Asks(arm) ==
    /\ pc = "ask" /\ Arm(job) = arm
    /\ \/ \E c \in CallCosts, a \in Answers :
            q' = [q EXCEPT !.cost = c, !.predicted = a]
       \/ \E p \in {"<api_error>", Escaped} : q' = [q EXCEPT !.predicted = p]
    /\ pc' = "score"
    /\ UNCHANGED <<corpusVars, driverVars, srv, ledgerVars, exits>>

StructuredBareOverflows == GivesUp("structured_bare")

BareOverflows == GivesUp("bare")

AskStructuredBare == Asks("structured_bare")

AskBare == Asks("bare")

AskPromptOnly == Asks("prompt_only")

Overflows == StructuredBareOverflows \/ BareOverflows

Ask == AskStructuredBare \/ AskBare \/ AskPromptOnly

(* The exception leaves run_eval, and the rows so far are lost with it.    *)
Abort ==
    /\ pc = "score" /\ q.predicted = Escaped
    /\ pc' = "aborted"
    /\ UNCHANGED <<corpusVars, driverVars, q, srv, ledgerVars, exits>>

Score ==
    /\ pc = "score" /\ q.predicted # Escaped
    /\ rows' = Append(rows, Row)
    /\ spent' = spent + q.cost
    /\ armCost' = [armCost EXCEPT ![Arm(job)] = @ + q.cost]
    /\ job' = job + 1
    /\ q' = Fresh
    /\ pc' = "next"
    /\ UNCHANGED <<corpusVars, plan, partial, report, srv, ledgerVars, exits>>

Finish ==
    /\ pc = "next" /\ job > Total
    /\ pc' = "report"
    /\ UNCHANGED <<corpusVars, driverVars, q, srv, ledgerVars, exits>>

(* The file may fail to be written, and then nothing is left of the rows.  *)
WriteReport ==
    /\ pc = "report"
    /\ \/ /\ report' = [a \in ArmNames |-> Aggregate(a)]
          /\ pc' = "done"
       \/ pc' = "aborted" /\ UNCHANGED report
    /\ UNCHANGED <<corpusVars, plan, job, rows, spent, armCost, partial, q,
                   srv, ledgerVars, exits>>

-----------------------------------------------------------------------------
Driver ==
    \/ Halt \/ StartGated \/ SpawnFails \/ StartUngated
    \/ Initialized \/ ListTools \/ Listed \/ ToolAnswered
    \/ ReadLine \/ SawExit \/ TimedOut
    \/ TurnsUsedUp \/ DeadlinePassed \/ WantsTools \/ FinalText \/ ModelFails
    \/ CallTool
    \/ ClosePipes \/ Terminate \/ Kill
    \/ Overflows \/ Ask \/ Abort \/ Score \/ Finish \/ WriteReport

Server ==
    \/ ServeHandshake \/ RefuseTool \/ ReadHead \/ AppendEntry \/ EndLine
    \/ ServerExits \/ LateWrite

Next == Setup \/ FetchAlone \/ Driver \/ Server

Spec == Init /\ [][Next]_vars

(* The evaluation, once started, is a running program: it takes its next   *)
(* step unless it is stuck in readline.  Nothing is assumed of the servers *)
(* or of the operator.                                                     *)
FairSpec == Spec /\ WF_vars(Driver \/ (pc # "corpus" /\ Setup))

-----------------------------------------------------------------------------
(* Properties.                                                             *)

Points == {"corpus", "fetching", "hydrate", "exited", "next", "ask",
           "waiting", "reading", "listing", "turn", "tools", "close",
           "terminate", "kill", "score", "report", "done", "aborted"}

Between == {"corpus", "fetching", "hydrate", "exited", "next", "ask",
            "score", "report", "done", "aborted"}

Verdicts == {None, "DRAFT", "CORROBORATED", "FINAL"}

Ids == Nat \X Nat

SomeIds == {ids \in SUBSET Ids : IsFiniteSet(ids)}

Replies == [ids : SomeIds, tier : Verdicts]

QuestionStates ==
    [turn : 0..TurnLimit, todo : 0..MaxTools, elapsed : Nat, cost : Nat,
     ids : SomeIds, claim : Verdicts,
     predicted : Markers \cup Answers \cup {Escaped, None}]

Methods == Tools \cup {"initialize", "tools/list", "claim_finding"}

Servers ==
    [up : BOOLEAN, at : {"idle", "request", "writing"},
     tool : Methods \cup {None}, cites : SUBSET Ids, id : Ids,
     prev : Nat, tier : Verdicts, answer : Replies \cup {None},
     half : BOOLEAN]

Entries ==
    [id : Ids, job : Nat, tool : Methods \cup {None}, prev : Nat, tier : Verdicts]

(* The variables keep their shape; in particular the loop over the turns   *)
(* ends at its limit and a question is never asked beyond the last job.    *)
TypeOK ==
    /\ CacheTypeOK
    /\ given \in Revisions \cup {None}
    /\ commit \in Revisions \cup {None}
    /\ loaded \in Revisions \cup {None}
    /\ plan \in Plans
    /\ pc \in Points
    /\ job \in 1..(Total + 1)
    /\ q \in QuestionStates
    /\ srv \in Servers
    /\ ledger \in Seq(Entries)
    /\ tail \in {"whole", "unended", "torn", "ended"}
    /\ torn \in 0..Total
    /\ unended \in 0..Total
    /\ leaked \subseteq 1..Total
    /\ late \subseteq Entries
    /\ spent \in Nat
    /\ armCost \in [ArmNames -> Nat]
    /\ partial \in BOOLEAN
    /\ exits \in 0..MaxFaults

(* The cap is checked before a question, with one call projected, while a  *)
(* question may make TurnLimit calls: what is spent stays below the cap    *)
(* plus the calls of one question that were not projected.                 *)
CostBounded ==
    LET total == spent + q.cost IN
    total = 0 \/ total + Projected < Cap + TurnLimit * MaxCall

(* What a question may take beyond its own limit: one more call of the     *)
(* model and every tool of its answer, each to its time-out and to the end *)
(* of a line that began before it; or the handshake and the list of tools. *)
Overrun ==
    LET answer == ApiTime + MaxTools * (PerQuestion + LineTime)
        start  == Handshake + 2 * LineTime
    IN  IF answer >= start THEN answer ELSE start

(* However the time-outs of the turns, the tools and the handshake fall    *)
(* together, and with a server that resists both signals, a question takes *)
(* no longer than that.  Of the code's limits this holds only as far as    *)
(* the server ends its lines in LineTime: the driver itself sets no bound  *)
(* to the end of a line (EvalEnds).                                        *)
OverrunBounded == q.elapsed <= PerQuestion + Overrun + 2 * Grace

(* Between two questions no server is left running, except those recorded  *)
(* as leaked, and only these may have a write under way.                   *)
ServersReaped ==
    /\ pc \in Between => ~srv.up
    /\ \A e \in late : e.job \in leaked

(* Only a leaked server can chain an entry of the shared ledger to a line  *)
(* that is not the one before it.                                          *)
ForkNeedsLeak ==
    (\E i \in DOMAIN ledger : ledger[i].prev # i - 1) => leaked # {}

(* The report cites the ledger: the audit_ids of a row are entries made    *)
(* for that very job, and its verdict is one the gate gave in that job,    *)
(* through time-outs, crashes and killed writes.  The one exception is the *)
(* id of the first entry written after one that had lost its newline.      *)
RowsGrounded ==
    leaked = {} =>
      \A i \in DOMAIN rows :
        LET made == {k \in DOMAIN ledger : ledger[k].job = rows[i].job} IN
        /\ \/ rows[i].ids \subseteq {ledger[k].id : k \in made}
           \/ /\ unended \in 1..(torn - 1) /\ rows[i].job = torn
              /\ \E id \in rows[i].ids : rows[i].ids = {id}
        /\ rows[i].claim # None =>
             \E k \in made : /\ ledger[k].id \in rows[i].ids
                             /\ ledger[k].tier = rows[i].claim

(* Once a killed server has damaged the shared ledger, no later question   *)
(* gets a verdict, and none gets an audit_id except the first to write     *)
(* after an entry that had lost its newline, which gets one.               *)
NothingAfterTear ==
    leaked = {} =>
      \A i \in DOMAIN rows :
        LET damage == IF unended # 0 THEN unended ELSE torn IN
        (damage # 0 /\ rows[i].job > damage) =>
          /\ rows[i].claim = None
          /\ \/ rows[i].ids = {}
             \/ rows[i].job = torn /\ \E id \in rows[i].ids : rows[i].ids = {id}

(* A question that offers the tools of one family only is never answered   *)
(* with a corroborated verdict, however often the tools are called.        *)
SingleFamilyHedged ==
    \A i \in DOMAIN rows :
      Cardinality(Question(rows[i].job).families) = 1 =>
        rows[i].claim \in {None, "DRAFT"}

(* A written report has one row for every question, run and arm, unless it *)
(* says that it is partial.                                                *)
PartialIsHonest ==
    pc = "done" => (partial <=> Len(rows) < Total)

(* The aggregates add up: over the arms to the money spent, and over the   *)
(* corroborated rows to all of them.                                       *)
AggregatesAddUp ==
    report # None =>
      /\ spent = FoldFunction(+, 0, [a \in ArmNames |-> report[a].cost])
      /\ \A a \in Gated \cap ArmNames :
           LET wrong == report[a].false_confidence_rate
               right == report[a].precision
           IN  /\ (wrong = None) <=> (right = None)
               /\ wrong # None => wrong[1] + right[1] = wrong[2]

(* With --sha256 the questions come from the corpus of that digest; and a  *)
(* report names the corpus it used, unless an interrupted fetch has left   *)
(* its temporary file.                                                     *)
VerifiedCorpus ==
    loaded # None =>
      /\ given \in {None, loaded}
      /\ "prov" \notin temps => commit = loaded

(* Every evaluation that is started ends, with a report, with an error or  *)
(* with the exception it met, unless it is stuck for good in readline, on  *)
(* a server that has begun a line and neither ends it nor exits.           *)
EvalEnds ==
    []<>(~Stuck) => (pc # "corpus" ~> pc \in {"exited", "done", "aborted"})

(* What src/scripts/run_dfir_metric_eval.py:936-937 says: "A marker        *)
(* (timeout/crash) scores as incorrect - the test infrastructure failed,   *)
(* not the gate."                                                          *)
MarkerScoresIncorrect ==
    \A i \in DOMAIN rows :
      rows[i].predicted \in {"<subprocess_timeout>", "<subprocess_crash>"} =>
        ~rows[i].correct

=============================================================================
