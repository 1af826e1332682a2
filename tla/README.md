# Sanctum in TLA+

Sanctum is an MCP server that lets an agent query forensic artifacts. Each tool call
writes its rows once to a payload file and then extends a hash-chained audit ledger; a
claim about the evidence passes a gate that counts how many independent artifact
families support it. This directory models the parts of that program where several
things can happen at once or half happen: concurrent calls, worker threads, partial
writes, cancellations and restarts, and the gate's composition of several demotions. It
also models what feeds that core and what uses it: the parsers, the sanitizer and the
tamper checks that evidence goes through, the notary that has the ledger's head stamped,
and the evaluation driver that runs servers as subprocesses and reports on what they
recorded.

Source paths below are relative to `src/src/sanctum/` unless they start with `src/`.

## 1. Inventory

| Part | State | Operations | Hard behaviour | What makes it correct |
|---|---|---|---|---|
| MCP server, `server.py` | semaphore of the serial gate, ledger lock, one asyncio task per call | six `get_*` tools, `claim_finding`, `_emit_offloaded_response` | tasks interleave at every `await`; worker threads are not interrupted by a cancellation; any step may raise | one tool body at a time in serial mode; gate and lock are always given back; an answer means a durable entry; a failed call reports its orphan |
| Audit ledger, `audit.py` | the JSONL file and temp files beside it | `append_entry`, `_last_line_hash`, `verify_chain` | read-the-head and append must not interleave; a crash or a full disk during the append; nothing is repaired at restart | the chain is never forked; settled entries never change; a corrupt ledger is not extended |
| Payload offload, `payload.py` | one write-once file per call | `write_payload` | failure between create, write and sync | an entry's payload exists and is what its digest says |
| Finding gate, `finding.py`, `families.py`, tables in `audit.py` | none of its own; reads the ledger without the lock | `evaluate_claim`, `claim_finding` (library and server tool) | order and repetition of citations, two demotions composed, stale read | a tier is earned by distinct families; demotions only demote; findings rest on recorded evidence |
| Deception checks, `deception.py` | none | three predicates | boundaries of time windows, skewed clocks | a signal never gets milder as the evidence gets worse |
| Sanitizer, `sanitize.py` | none | `sanitize`, `wrap_evidence` | order of filters, size limits in bytes, the cut | nothing filtered reappears; innocent text stays as it is |
| Notary, `notary.py` | `.tsq`/`.tsr` archive files | `stamp_head`, `stamp_head_or_log` | the ledger grows while the head is stamped; names are made of seconds; TSA failures | what a call reports is what the archive, the ledger and the authority say |
| Artifact parsers, `parsers/`, `events.py` | none | six `parse_*`, the fixture sidecar mode | corrupt rows, broken iterators, caps, control sets | the usable rows, all of them, in order; an unreadable artifact never looks like a short one |
| Corpus cache, `src/scripts/fetch_dfir_metric.py` | corpus, provenance record, their temporary files | `fetch_upstream` | two files replaced one after the other | what is verified is what is used |
| Evaluation driver, `src/scripts/run_dfir_metric_eval.py` | server subprocess and pipe, spent cost, rows, leaked servers | five arms, JSON-RPC over stdio, agent loop, cost cap, `close()`, scoring, aggregates | late and missing answers, deadlines, a subprocess that will not die, one ledger for many servers | cost and time are bounded; a row cites entries of its own job; every evaluation ends |
| Prompt-injection evaluation, reports, figures, demos, `src/scripts/*` | none | straight-line scripts | none | not a matter of interleaving |

How they interact: the MCP runtime starts one task per request. A `get_*` task reads
evidence in a worker thread, writes its payload in another and appends its entry in a
third, the last under `_ledger_write_lock`. `claim_finding` reads the ledger on the
event loop, without the lock, evaluates the gate and continues as the other tools do.
The notary reads the ledger from another process. The evaluation driver spawns a server
for each question, talks to it through pipes, one request at a time, and kills it at the
end of the question; these servers follow each other on one ledger file, except when one
of them survives its SIGKILL.

The hazards this leads to are listed, each at its line, in `PROJECT.json`.

## 2. Modules

| Module | Models | Notes |
|---|---|---|
| `AuditLedger` | the ledger file as its readers see it: `Parses`, `LastLineHash`, `CanRead`, `Chained` | pure operators |
| `SanctumServer` | `server.py`, `payload.py`, `append_entry`: one process per call, one action per step between two points where another party can act | properties of interleaving |
| `AuditTrail` | the abstract specification: a trail that grows atomically by grounded calls, and answers only for recorded ones | what a client relies on |
| `SanctumTrail` | the refinement mapping from `SanctumServer` to `AuditTrail` | `ImplementsTrail` |
| `SanctumInvariant` | the inductive invariant `IInv` | checked by TLC and proved |
| `MCSanctumServer` | the instance for TLC, with its symmetry | |
| `SanctumServerProofs` | proofs about `SanctumServer` | section 5 |
| `FindingGate` | `evaluate_claim` with the family and tier tables, and its two callers | pure operators over a ledger that grows by evidence and findings |
| `FindingGateProofs` | proofs about `FindingGate` | section 5 |
| `SanctumTrailProofs` | the proof that `SanctumServer` implements `AuditTrail` | section 5 |
| `CorpusCache` | `fetch_upstream`, file by file | part of `EvalDriver`, and on its own (`FetchAlone`) |
| `EvalDriver` | `run_eval` with its arms, the agent loop, the pipe to the server, `close()`, scoring and aggregates | composes `CorpusCache`, the driver, a server, and servers left behind |
| `MCEvalDriver` | six plans for TLC | |
| `EvalDriverProofs`, `EvalReportProofs` | proofs about `EvalDriver`: its bounds, processes and progress; its corpus, rows, ledger and report | section 5 |
| `Notary` | `stamp_head`, `stamp_head_or_log`, with the ledger of `AuditLedger` growing meanwhile | one process per call |
| `MCNotary`, `NotaryProofs` | its instance and its proofs | |
| `ArtifactParsers` | the six parsers, row by row | a sequential state machine |
| `Sanitizer`, `DeceptionChecks` | `sanitize` and the three checks | pure operators |
| `Evidence` | composes the three: what happens to evidence before it votes | |
| `MCEvidence`, `EvidenceProofs` | its instance and its proofs | |
| `FoldInduction` | facts about recursion over sequences and finite sets, used by `EvalReportProofs` and `EvidenceProofs` | section 5 |

### SanctumServer

A call is named by the audit_id it mints. Its control point `pc[c]` runs

    new, gate, case, hash, parse, payload, opened, written, lock,
    locked, head, temp, appended, synced, committed, answered

and may leave it for `failed`, `cancelled` or `lost` (in a crash). `claim_finding` goes
from `case` to `payload` in one step, because it evaluates the gate without an `await`.
The points from `locked` to `committed` are the inside of `async with
_ledger_write_lock`, where `append_entry` runs in a worker thread; each system call of
it (read of the ledger, temp file, append, fsync, unlink) is an action, so that a
failure or a crash may fall between any two.

| Variable | Code |
|---|---|
| `gate`, `parallel` | holder of `_serial_gate`'s semaphore; `SANCTUM_PARALLEL_TOOLS`, chosen anew by each server process |
| `lock` | holder of `_ledger_write_lock` |
| `payload`, `offloaded` | the file of `write_payload`: absent, partial, whole, or lost with its name; the calls to which `write_payload` has returned |
| `head` | `prev_hash`, between its read and the append |
| `ledger` | the ledger file |
| `orphans` | calls whose orphan payload was logged |
| `cites` | the `audit_ids` of a `claim_finding` request, any set, ids that do not exist included |
| `kept`, `rooted`, `erased` | names of payloads and of the ledger that a crash of the machine has found on disk; entries that went with the ledger's name |

Abstractions, and why they lose nothing the properties could see:

- A `line_hash` is an HMAC over an entry that contains a fresh uuid4, so the hash of an
  entry is its audit_id, and `prev` is the audit_id it was chained to.
- The bytes of an entry are its form: `whole`, `unterminated` (only the newline is
  missing) or `torn`. Whatever is appended after a line that is not whole continues the
  same physical line, which is what `Parses` says.
- Rows, summaries and hashes of evidence are left out. That a family has to exist for a
  cited tool is kept as "not a claim"; the families themselves are in `FindingGate`.
- A cancellation is delivered where a task waits: for the semaphore, for the lock, and
  at the checkpoint before a worker thread starts. A thread that runs is shielded until
  it returns, as `anyio.to_thread.run_sync` does by default.
- `Crash` is the death of the process (`ProcessDies`) or of the machine (`MachineDies`).
  An entry not yet synced may survive whole, in part or not at all; an entry whose fsync
  returned survives. When the machine dies, a payload that was not synced may be cut, and
  with the fault `nameless` a file may be gone although it was synced: `write_payload`
  syncs the file and the directory of its audit_id (`payload.py:155-157`), but not the
  directories above that `mkdir` may just have made (`payload.py:136`), and nobody syncs
  the directory of the ledger (`audit.py:349`). A name that one crash of the machine has
  left in place (`kept`, `rooted`) is on disk for good. One thing is taken to be durable
  although the code does not ensure it: an entry whose fsync reported an error and that
  the process outlived.
- `write_payload` is three steps: create, write, sync. `PayloadFails` may follow each, and
  leaves what is there: nothing, a part, or the whole payload when only `fchmod` or a sync
  has raised. None of these is logged, because `write_payload` is called before the `try`
  (`server.py:321`).
- The temp files of `append_entry` are steps, because a failure or a crash may fall
  between them, but not state: nobody reads one that was left behind.
- That an artifact could change between being hashed and being parsed is not modelled:
  the evidence is required to be mounted read-only (`_validate_evidence_mount`).
- The startup checks of `main` have no state: a server that does not start is a server
  to which no call arrives.

### FindingGate

An audit_id is the position of its entry in the ledger, a timestamp a number, an
optional timestamp a set of at most one, and the deception signals are whether there is
any, which is all the gate looks at. `Spokesmen` picks, as the code's loop does, the
first citation of each family. `dict.fromkeys` is implicit: a repeated citation is never
the first of its family and adds nothing to a set. The case of an entry is left out
because the gate does not look at it.

### EvalDriver and CorpusCache

An evaluation loads its questions (`Setup`: a local corpus, the cached one or a fetched
one), then goes through its jobs, the triples of run, question and arm in the order of
the code's loops, and writes its report. `pc` is where `run_eval` is:

    corpus, fetching, hydrate, next, ask, waiting, reading, listing, turn,
    tools, close, terminate, kill, score, report, done

with `exited` for an error message and `aborted` for an exception that nobody catches.
The gated arms (`sanctum`, `parallel`) go through the server and the agent loop, the
others make one call of the model.

| Variable | Code |
|---|---|
| `body`, `prov`, `temps`, `fetch`, `want` | the cached corpus, its provenance record, temporary files, and a fetch under way |
| `given`, `commit`, `loaded` | `--sha256`, `dfir_metric_commit_sha`, the corpus the questions come from |
| `plan`, `job` | arms and questions of the evaluation, and the position in the loops |
| `q` | locals of a question: turn, tool uses left, time, cost, audit_ids seen, verdict, `predicted` |
| `srv` | the server process: idle, at a request, or inside its write; and the pipe, which holds at most one answer, perhaps without the end of its line (`half`) |
| `ledger`, `tail` | the lines of the shared ledger that parse; what its last line is: whole, without its newline, torn, or torn and ended |
| `torn`, `unended` | the job that first left a line that does not parse, and the first that left an entry without its newline |
| `leaked`, `late` | `_leaked_pids`; writes in which such servers are |
| `rows`, `spent`, `armCost`, `partial`, `report` | what `run_eval` accumulates and returns |

A server of `EvalDriver` is `SanctumServer` as seen by a client with one request at a
time: it reads the head, writes, answers, or refuses. SIGTERM, SIGKILL or an exit of its
own may hit it inside the write (`CutShort`: nothing is left, the whole line, a part of
it, or all but its newline). The next write goes onto a line that has no newline
(`Write`): the two make one line that does not parse, although the ledger was accepted
for it (finding 1) and its call is answered. A server whose own append fails, on a full
disk, is in `SanctumServer` only; here it refuses without a trace.

The driver waits as `_recv` does: `select` with a deadline (`TimedOut`), and then
`readline`, which returns with the end of the line or of the file. `ReadLine` leaves the
deadline behind (point `reading`); the server ends its line (`EndLine`), exits, or does
neither, and then the driver is `Stuck`. That `_readline_with_timeout` says in its
docstring that the deadline is enforced (`run_dfir_metric_eval.py:680`) is true of the
`select` only. Time spent in `close()` counts, as it does for `wallclock_ms`. A request
is taken to fit into the pipe, so that `_send` does not block.

Time and money are numbers; prompts, tokens and texts are left out. What the model
answers is chosen: any tool that is offered (the API returns uses of the tools it was
sent), a claim that cites any ids seen, a right or wrong answer, one that looks like a
marker, an API error, or an exception. The tier of a claim is that of its families or,
because the times of entries are left out, one less (`EvaluateClaim`). `RefuseTool`
allows more than the code: a torn ledger may refuse a claim at any point of it.

### Notary

A head is named by the length of the ledger: entries are not removed and hashes do not
repeat. `first` is the head that `stamp_head_or_log` reads, `head` the one `stamp_head`
reads again, `tag` the second in the archive names, `tsq` and `tsr` the archive, with
the call each file is of. `granted` and `replied` record what the authority did and what
arrived of it (nothing, an error status, a body), in order to compare it with `outcome`.
An exception the wrapper does not know is rung 0. An `HTTPError` is a `URLError`: a reply
arrived, and the call falls back as if none had.

### Evidence

`ArtifactParsers` reads an artifact that is chosen as it is read; a row is the defects
the parsers tell apart. The keys of BAM (a SID each) and UserAssist (a GUID each) are
rows among the others, because a broken one drops the values under it. `seen` is what
was read, `out` the events built, `fault` what could not be read, whatever became of the
exception: the control set, the blob of the ShimCache, the values of a key, a row, the
iterator, or the artifact as such (`Failures`). `Sanitizer` works on texts of six symbols: characters of one and of two
bytes, an invisible codepoint of three, and three halves of two injection patterns with
a half in common. The marker has two symbols, so that the cut can fall into it.
`DeceptionChecks` are the three predicates. `Evidence` runs one job of the three; they
share no state.

## 3. Runs

| Run | Question | States, and what it shows |
|---|---|---|
| `server_safety` | do the safety properties survive every interleaving? | about 1 420 000 states: two `get_*` calls and a claim, both modes, two restarts of the process or the machine, every partial write, every failure and cancellation. `IInv` is checked as well, on the same states |
| `server_trail` | is the server an atomic audit trail, and does every call end? | about 550 000 states, one restart, under fairness, with partial writes that lose more than the newline and crashes that keep the names of synced files |
| `glued_line` | is an answered call citable if a write loses only its newline? | no: finding 1 |
| `partial_line` | does the temp file keep partial lines out of the ledger? | no: finding 2 |
| `short_payload` | is a referenced payload complete? | no: finding 3 |
| `gate` | is every tier earned, for every claim? | about 98 000 ledgers of up to three entries of four families and one finding, every citation of up to three ids |
| `gate_order` | does the order of citations matter? | yes: finding 4 |
| `gate_tamper` | does a signal mean DRAFT_TAMPER_SUSPECTED? | no: finding 5 |
| `eval` | does an evaluation stay within its bounds and report what is on the ledger? | about 1 220 000 states: six plans over all five arms, a server that exits, stops within a line, is killed inside a write or resists SIGKILL, fetches that fail, under fairness |
| `eval_marker` | is a question that timed out scored as incorrect? | no: finding 6 |
| `notary` | does a stamp or a fallback report what happened? | about 88 000 states: two calls, a ledger that grows or is torn, every failure |
| `evidence` | are parsers, sanitizer and checks faithful? | about 151 000 states: all artifacts of up to three rows, texts of up to four symbols, and facts |

Safety properties of the server (`SanctumServer`):

- `ChainLinked`: the chain is never forked, however appends interleave, fail and crash.
- `SerialBodies`: at most one tool body runs in serial mode.
- `EntryHasPayload`: the payload of an entry was created, and is missing only if the
  machine died after the call had ended and before a crash of it had left the payload in
  place. So no failure, cancellation or crash of the process makes an entry dangle.
- `AnsweredCommitted`: an answer means a complete entry, then and for ever, unless a crash
  of the machine takes the name of the ledger.
- `ClaimsGrounded`: a finding cites only evidence recorded before it, though the gate
  read the ledger earlier and without the lock.
- `OrphanReported`: a tool that failed has logged an orphan exactly if `write_payload` had
  returned, and one that logged none has no entry. A payload that is whole and only was
  not synced is therefore never reported; an orphan may be reported of a call whose entry
  is in the ledger.
- `SettledForever`, an action property: no step changes or removes a synced entry, unless
  the whole file goes with its name.
- `CorruptFrozen`, an action property: an unparsable ledger is not extended.
- `EveryCallEnds`, liveness: every request is eventually answered or refused.
- `ImplementsTrail`, refinement: all of it together, as one atomic trail.

Properties of the gate (`FindingGate`):

- `TierEarned`: CORROBORATED takes two entries of different families and FINAL three,
  all recorded earlier and none a finding.
- `FinalIsCoherent`: any two dated execution families of a FINAL finding can be
  reconciled within the window, and no signal was raised.
- `SignalCosts`: a signal costs a tier also where the temporal check has cost one.
- `RedundantCitation`: citing a family again, after it has spoken, changes nothing.
- `AppCompatTimeless`: the timestamps of AppCompat entries never move a tier.

Properties of the evaluation (`EvalDriver`):

- `CostBounded`: the cap projects one call and a question makes many, so the money spent
  stays below the cap plus the calls of one question.
- `OverrunBounded`: the deadline is looked at once per turn, so a question overruns by
  at most one model call, a time-out and the end of a line for every tool of one answer,
  and the two waits of `close()`. The end of a line is bounded by `LineTime`, which is an
  assumption about the server: the driver sets no limit to it.
- `ServersReaped`: between questions no server runs but those listed as leaked.
- `ForkNeedsLeak`: only a leaked server can fork the chain of the shared ledger.
- `RowsGrounded`: the audit_ids and the verdict of a row are on the ledger, made for
  that job. One exception exists, and the model reaches it: the first entry written after
  one without its newline is answered and is on no line that parses.
- `NothingAfterTear`: after a damaged write no later question gets a verdict, nor an
  audit_id, except for that one.
- `SingleFamilyHedged`: a question with the tools of one family is never corroborated.
- `PartialIsHonest`, `AggregatesAddUp`: a report misses rows only if it says so; its
  costs add up to the money spent and its two rates over corroborated rows to one.
- `StaleProvenanceLeavesTemp`, `VerifiedCorpus`: a provenance record of another corpus
  has its temporary file beside it; the corpus is the one whose digest was asked for.
- `EvalEnds`, liveness: every evaluation that is started ends, unless it is stuck for good
  in `readline`. Without that condition it is false: a server that stops within a line
  holds the driver for ever.

Properties of the notary: `StampArchived` (a returned stamp is on file, request and
reply of this call for the head it names), `FallbackPinsHead` (the head a fallback logs
is never newer than the one that was sent), `OutcomeHonest` (a stamp, a rejection, a
network failure and a missing openssl as they happened; reachable exactly if a body came,
so not for an error status). The first and the last are of calls that have their second to themselves: of
two calls in one second the later overwrites the files of the other, and nothing is
promised.

Properties of evidence: `ParseFaithful` (the events are the usable rows, numbered
without gaps), `NeverShort` (what could not be read shows in the answer, except for what
each parser passes over on purpose: a control set that cannot be determined, a blob of
the ShimCache, the values of one key, one row),
`SanitizedClean` (no invisible and no pattern survives, what is innocent is not changed,
and a second pass changes nothing), `SuspicionMonotone` (a check never gets milder as
evidence gets worse, and skewed clocks accuse nobody).

Each property of a passing run is paired in `PROJECT.json` with a mutant of the modelled
code (a dropped lock, a missing refusal, a release that forgets the lock, the last
citation instead of the first, a server that is not killed, the filters in the wrong
order) under which it fails.

### Bounds

- Calls: two `get_*` and one claim. Two appenders are enough to fork a chain or to glue
  two lines together, and the claim is a third party to both. The proofs cover any
  number.
- `MaxCrashes` = 2 in the safety run: a crash in each of two appends. The run with
  liveness has one, since more multiply the states and add no new kind of step.
- Gate: three entries, because FINAL takes three families; four families, of which one
  (AppCompat) has no execution time; times 0..2 with a window of 1, the least in which
  two timestamps can be equal, just inside and just outside of it; up to three
  citations, repetitions included.
- Evaluation: plans of at most two questions and two arms, which is enough for a
  question to follow another on the ledger, for two arms of one question, and for every
  arm. `TurnLimit` is 3 where the code has 8: the first turn, one in the middle and the
  last; `MaxTools` is 2, so that a time-out may hit the first or the second tool of an
  answer. `LineTime` and `Grace` are 1, so that the end of a line and each wait of
  `close()` count. `CallCosts` is {1} and `Cap` 4, so that the cap is passed inside a
  question.
  `ApiTime` is 0: the time of a call of the model is a constant of the proof and adds no
  new order of events. `MaxFaults` = 1 counts servers that exit on their own and servers
  that survive SIGKILL. Evaluations and fetches are run one at a time, as an operator
  does.
- Notary: a call through the wrapper and one without, two seconds (the same and
  another), two entries, so that the ledger grows between any two reads. Symmetry is
  over the names of entries.
- Evidence: rows with at most one defect each, three of them and caps of 2; texts of
  four symbols, so that a redaction can join two halves of another pattern, with limits
  of 4 and 9 bytes that fall inside a character and inside a marker; counts and instants
  on, before and after every threshold.
- The configurations set `CHECK_DEADLOCK FALSE` because a system in which every call has
  ended, or the ledger has reached its bound, has no more to do.

### Fairness

`FairSpec` has weak fairness of `Advance(c)` for each call, which is what the code's
scheduling gives: the event loop runs every ready task, a worker thread returns or
raises, and asyncio's semaphore and lock wake waiters in order of arrival. (Weak
fairness is enough: with finitely many calls, each of which holds a lock once, a waiting
call is not overtaken for ever.) Nothing is assumed of clients (`Arrive`, `Cancel`) or
of crashes.

In `EvalDriver`, `FairSpec` has weak fairness of the driver's steps, and of `Setup` once
an evaluation has been started. The code justifies it by a time-out at every wait
but one: requests to the server, the model's client, the two waits of `close()`. In
`readline` there is none, and the model has no step of the driver that leaves it before
the line or the file ends: weak fairness says nothing there, and `EvalEnds` excepts it.
Nothing is assumed of the servers, which may stay silent or stop within a line for ever,
or of the operator. `Notary` and
`Evidence` have no liveness property: each of their calls is straight-line code.

## 4. Findings

1. `glued_line`, a bug. If a write loses only the newline, the last line still parses,
   so `_last_line_hash` (`audit.py:285`) accepts the ledger and the next entry is
   written onto the same line. That call is answered, and then neither entry parses: the
   audit_id cannot be cited and no entry can be appended.
2. `partial_line`. `append_entry`'s docstring (`audit.py:330`) says that entries are
   written by rename. They are copied by a plain append, which a crash can cut.
3. `short_payload`, a bug. `os.write` may write less than it was given
   (`payload.py:147`); the entry then has the digest of the whole payload.
4. `gate_order`. The timestamp of the first-cited entry of a family is compared
   (`finding.py:249`), the document speaks of the family's earliest. The tier depends on
   the order of the citations.
5. `gate_tamper`. `src/docs/FAILURE_MODES.md` promises DRAFT_TAMPER_SUSPECTED for any
   signal. The code demotes one tier.
6. `eval_marker`. The comment at `src/scripts/run_dfir_metric_eval.py:936` says that a
   marker scores as incorrect. In a gated arm an adversarial question is scored by the
   verdict alone, so one that timed out after the gate said DRAFT is scored as correct.

Smaller observations, without a run of their own:

- When the fsync or the unlink fails after the append, the payload is logged as an
  orphan although its entry is in the ledger (`server.py:358`).
- The server's `claim_finding` records no `demoted_for_temporal`, the library's does.
- `src/scripts/run_dfir_metric_eval.py:1258` says that bare scores an adversarial
  question as false; it is scored by the pattern (`BareCorrect`).
- `src/scripts/fetch_dfir_metric.py:96` says that neither file lands after a failure;
  between the two replacements one has. `StaleProvenanceLeavesTemp` says what is left to
  tell.
- `sanitize.py:147` says that the result is never longer than `max_bytes`; the note is
  appended after the cut. `SanitizedClean` allows for the note.
- The notary reports an authority that answered with an HTTP error as unreachable
  (`notary.py:236`); the docstring of `StampOutcome` (`notary.py:91-96`) keeps
  unreachable for a POST that never completed.
- A payload whose `fchmod` or sync fails stays on disk, whole, and no orphan is logged
  (`payload.py:148-157`, `server.py:321`).
- A crash of the machine may take the name of a synced payload, or of the ledger
  (`payload.py:136`, `audit.py:349`).
- The blocking `readline` of the evaluation driver, see `EvalDriver` above.

## 5. Proofs

TLAPS checks all theorems of the eight proof modules, for every value of the constants
that satisfies the named assumptions of the modules (a genesis hash that is no entry's,
`Free` that is no call, tools that have families, a price that is at
most `MaxCall`, an undefined rate that is not a pair, and the like).

**Server.** None of the safety properties is inductive. `IInv` adds what ties them
together:

- `LockHeld`: a call is inside the region of the ledger lock exactly if it holds it, so
  all the steps of `append_entry` belong to one call;
- `HeadFresh`: the head that a call has read is still the head of a ledger that parses.
  It is preserved because only the lock's holder, or a crash, changes the ledger. From
  it and `AppendLine` follow `ChainLinked` and `CorruptFrozen`;
- `OncePerCall` and `LastIsUnsynced`: a call has at most one entry, and the entry not
  yet synced is the last one. So what a crash cuts off is never another's entry, from
  which `SettledForever` and `AnsweredCommitted` follow;
- `ClaimHeld`: evidence seen by the gate is still there when the claim appends. The gate
  may have seen an entry that is not yet synced, but only a crash takes such an entry
  away, and then the claim is lost too. From it follows `ClaimsGrounded`;
- `GateHeld`, `PayloadOpened`, `AppendedCommitted`: the same for the semaphore, the
  payload files and answered calls, as far as crashes of the machine leave their names.

`Invariance` proves `Spec => []IInv` with one step for each action and, under it, one
for each conjunct it can disturb; `Typing`, `ChainSafety`, `Serial`,
`NoDanglingReference`, `AnswerDurable`, `Grounded`, `Immutable` and
`CorruptionContained` are its consequences.

`NoDeadlock` proves `WaitsEnd`, which no run checks (it is stated beside its proof): the
holder of the lock is appending, and the holder of the semaphore is at work and need not
wait for the lock in turn. It takes one invariant more: whoever has the semaphore is
inside a tool, in serial mode (`GateInUse`). In serial mode the holder of the lock has
the semaphore too, so the holder of the semaphore never finds the lock taken.

`Orphaned` adds to `IInv` that a failed call is among the orphans exactly if
`write_payload` had returned to it. `Readable` (an answered call can be cited) needs the
assumptions that no partial write loses the newline alone, which the run `glued_line`
shows to be necessary, and that no crash takes the name of a synced file; it rests on `TornIsLast`: only the last line can be torn, because a ledger with a torn
line is not extended.

**Refinement.** `Implements` proves `Spec => ImplementsTrail` under the same assumptions.
`TInv` is `IInv` with `TornIsLast`. Every action maps to one of four: the sync of an
entry (or a crash or error that an unsynced entry survives) records it, `Respond`
answers, a refusal ends a call, and all else leaves trail and status as they are. That a
recorded claim is grounded follows from `ClaimHeld`, that an answer is of a recorded
entry from `AppendedCommitted`.

**Gate.** `TiersAreEarned` proves `Spec => []TierEarned`. It rests on lemmas about
cardinality: a set of families with two (three) members has two (three) members that
differ, each family is that of a cited entry, and an entry is judged by the part of the
ledger before it, which never changes. `SignalsCost` proves `Spec => []SignalCosts` by
cases on the number of families and the temporal verdict. `FinalsCohere` goes through an
invariant that a FINAL entry has a coherent set of times of its spokesmen;
`RepeatsNeutral` and `AppCompatNeutral` show that neither the first citation of a family
nor its execution times change. `SetsDecide` proves `OrderMattersForDates`,
which no run checks: unless entries of one family differ in their times, the verdict is
`Deserved`, a definition over the set of the cited entries that knows no order. Each
family has a spokesman, and if its entries agree it is no matter which. So the cause of
finding 4 is its only one.

**Evaluation.** `EvalDriverProofs` proves `Shape` inductive: types, what `pc` says of
the server (`ControlInv`), and `ServersReaped`. `CostInv` adds where in a turn the money
is spent: a question that was affordable when it began has spent at most `turn *
MaxCall`. `TimeInv` adds how much of one answer's time is left: `elapsed` is within the
limit when the model is asked, each tool use left may cost one time-out and the end of
one line more, and `close()` adds its waits when the rest is over.
`CostOverrun` and `TimeOverrun` follow. `NoCircles` proves `RunsDown`,
which no run checks: every step of the driver reduces `StepsLeft`, a bound on the steps
it may still take, and no step of a server raises it. This is what `EvalEnds` rests on
beside fairness, and unlike it says how long an evaluation may take: at most `JobSteps` =
`TurnLimit * (1 + 3 * MaxTools) + 11` steps for each job, and nine to load and report. It
follows from `Shape` alone, because the measure is written so that each action changes one
summand of it: a job is worth `JobSteps`, a turn `TurnSteps`, a tool use of the answer
at hand three (call, begin to read, answer). `EvalReportProofs` proves the corpus properties
from `CorpusInv`, which sees the two replacements of a fetch from in between, and
`PartialIsHonest` from `PartInv`: rows are one less than the job, and the report is
partial exactly if the loop stopped early. It proves the properties of
rows from two invariants. `FamInv` says of every id which job it is of, so that an entry
of a server left behind, which may land at any time, is never among those that a later
claim cites; a claim is then over the tools of its own question. `TrailInv` holds as
long as no server has been left behind: what a server in its write has read is still the
head of a ledger that parses (`WriteOk`), and whatever the driver has seen (an answer in
the pipe, the question, the rows) is on a line of the ledger that has its newline already
(`Backed`: such lines stay), or is nothing if the ledger was damaged before the job. An
entry without its newline is never among these, because its server is gone (`TailOk`)
and so is its answer; the write that follows tears the ledger, and what it answers is the
one id excepted. `AddsUp` rests on `SumInv`: the money spent is the sum over the
arms, which grows by what is added to one summand (`SumGrows`), and a report that exists
is that of the rows at the end. That the two rates add up is a matter of cardinality: the
corroborated rows of an arm are the right ones and the wrong ones.

**Notary.** `IInv` relates each call's control point to what it has read and written:
`HeadsOk` (the heads are of the ledger, the first not newer), `PointOk` (while its names
are its own, the files hold what it wrote), `OutcomeOk`; `FilesOk` says whose files are
in the archive. `Archived`, `Pinned` and `Honest` are its consequences for any number of
calls, seconds and entries.

**Evidence.** `NothingCutShort` from `ShortInv` (before the end only what a parser passes
over has failed, caps kept while reading); `ParsersFaithful` from `FaithInv`: the slots of the events are exactly
the usable rows so far, and `open` says whether the last key was accepted.
`ChecksAreMonotone` is arithmetic over the three predicates, for every threshold and
instant. `Typing` follows from `TypeInv`: the types with the invariants of the three
parts.

`SanitizerCleans` proves `SanitizedClean` for every text and every limit, along the
order of the filters. Each filter is a fold, described by what it has kept after each
prefix of the text (`StripsTo`, `RedactsTo`). `RedactFacts` says what a redaction can do
to neighbours (`Beside`): its own pattern is gone, and symbols that are neighbours
afterwards were so before, unless one is a bracket of the marker, so that a marker joins
no two halves. Hence the second pattern cannot bring the first one back, nor can either
bring back an invisible (`CleanedFacts`). The cut keeps a prefix, which has no neighbours
of its own (`TruncateFacts`), and the filters leave an innocent text alone, which makes a
second pass the identity.

**Induction over data.** A recursive function is a `CHOOSE` for the prover: that its
equation has a solution has to be proved before the equation can be used, and the
induction theorems of the library take a predicate as a parameter, which the provers at
hand cannot instantiate. `FoldInduction` does without: an induction hypothesis is the
*set* of the instances that satisfy it, and if it were not the whole domain there would
be a least counterexample (`SubsetInduction` for finite sets, `NatInductionSet` and
`UptoInduction` for numbers). From these follow that a fold over a set or a sequence
exists and obeys its equation (`FoldExists`, `LeftFoldExists`), which is what
`SumOf` and the folds of `Sanitizer` need.

Only model-checked: `EveryCallEnds` and `EvalEnds`, which are liveness properties. Their
safety halves are proved: `NoDeadlock` (a call waits only for one that need not wait) and
`NoCircles`. What remains for TLC is that a step which is due can be taken, which is a
matter of ENABLED.

## 6. Plan

Done, in this order because each part relies on those before it: the ledger, the server,
the gate; the refinement; the driver with its cache; the notary; parsers, sanitizer and
checks; the proofs, the inductions over texts and sums last. Left:

1. A run in which the evaluation's server is `SanctumServer` itself, step by step,
   instead of the client's view of it. The instance would have both state spaces
   multiplied; what the client's view assumes (one entry per answered call, no append to
   a torn ledger) is what `AuditTrail` and `CorruptFrozen` promise.

## 7. Not modelled

The content of rows and payloads, the text of summaries and errors, the HMAC itself, the
byte formats below the parsers (the hive, Prefetch and event log libraries are what they
may return or raise), the startup guards, `wrap_evidence` (it concatenates), the
prompt-injection evaluation `src/scripts/eval_llm_injection.py` (one loop over a
built-in corpus without a server, a ledger or a retry of its own), and the reporting,
plotting, fixture and demo scripts: stateless code, for which unit tests are the better
tool. The limiter of anyio's worker threads (forty at once) is not modelled: a call
holds at most one thread and waits for nothing while it does. Temp files left by a crash
or a failed append have no state, because nobody reads them. In the evaluation, a request
that does not fit into the pipe, a line on stdout that is no answer to the request at
hand, and an append that fails without the server being killed are left out.
