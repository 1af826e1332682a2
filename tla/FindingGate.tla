---------------------------- MODULE FindingGate ----------------------------
(***************************************************************************)
(* The family-corroboration gate of src/sanctum/finding.py: what tier a    *)
(* claim earns from the ledger entries it cites, and what is put on record *)
(* by its two callers, the library's claim_finding and the server's tool.  *)
(*                                                                         *)
(* An audit_id is abstracted to the position of its entry in the ledger,   *)
(* an event timestamp to a number, an optional one to a set of at most     *)
(* one, and the deception signals to whether there is any, which is all    *)
(* the gate looks at.  How the entries reach the ledger is SanctumServer.  *)
(***************************************************************************)
EXTENDS Integers, Sequences, FiniteSets

CONSTANTS
    Tools,        \* the get_* tools in use
    Times,        \* the event times their rows carry
    Window,       \* SANCTUM_TEMPORAL_COUPLING_WINDOW_SECONDS
    MaxEvidence,  \* bound: entries of get_* tools
    MaxFindings,  \* bound: entries of claim_finding
    MaxCites      \* bound: audit_ids cited by one claim

(* families.py.  The claim_finding tool is absent on purpose.              *)
TOOL_TO_FAMILY ==
    [get_amcache      |-> "AppCompat",
     get_shimcache    |-> "AppCompat",
     get_mft_timeline |-> "AppCompat",
     get_usnjrnl      |-> "AppCompat",
     get_userassist   |-> "Explorer/NTUSER",
     get_bam          |-> "Background-service",
     get_sysmon_4688  |-> "Kernel-ETW",
     get_prefetch     |-> "SysMain"]

EXECUTION_TIME_FAMILIES ==
    {"Explorer/NTUSER", "Background-service", "Kernel-ETW", "SysMain"}

ASSUME ToolsHaveFamilies == Tools \subseteq DOMAIN TOOL_TO_FAMILY
ASSUME TimesAreInstants == Times \subseteq Int
ASSUME WindowAssumption == Window \in Nat
ASSUME BoundsAssumption ==
    MaxEvidence \in Nat /\ MaxFindings \in Nat /\ MaxCites \in Nat

VARIABLE ledger

Tiers == {"DRAFT_TAMPER_SUSPECTED", "DRAFT", "CORROBORATED", "FINAL"}

Rank(tier) ==
    CASE tier = "DRAFT_TAMPER_SUSPECTED" -> 0
      [] tier = "DRAFT" -> 1
      [] tier = "CORROBORATED" -> 2
      [] tier = "FINAL" -> 3

-----------------------------------------------------------------------------
(* The tier tables of audit.py and finding.py.                             *)

DEMOTION ==
    [FINAL                  |-> "CORROBORATED",
     CORROBORATED           |-> "DRAFT",
     DRAFT                  |-> "DRAFT_TAMPER_SUSPECTED",
     DRAFT_TAMPER_SUSPECTED |-> "DRAFT_TAMPER_SUSPECTED"]

(* DRAFT is absent: the temporal check leaves it alone.                    *)
TEMPORAL_DEMOTION ==
    [FINAL                  |-> "CORROBORATED",
     CORROBORATED           |-> "DRAFT",
     DRAFT_TAMPER_SUSPECTED |-> "DRAFT_TAMPER_SUSPECTED"]

ClassifyConfidence(n, signal) ==
    LET base == IF n <= 1 THEN "DRAFT" ELSE IF n = 2 THEN "CORROBORATED" ELSE "FINAL"
    IN  IF signal THEN DEMOTION[base] ELSE base

-----------------------------------------------------------------------------
(* evaluate_claim on the audit_ids ids, in the order they are cited.       *)

Family(L, a) == TOOL_TO_FAMILY[L[a].tool]

Cited(ids) == {ids[k] : k \in DOMAIN ids}

(* Every refusal of the gate: nothing cited, an id that is not in the      *)
(* ledger, an entry of a tool without a family.                            *)
Citable(L, ids) ==
    /\ ids # <<>>
    /\ \A a \in Cited(ids) : a \in DOMAIN L /\ L[a].tool \in DOMAIN TOOL_TO_FAMILY

Families(L, ids) == {Family(L, a) : a \in Cited(ids)}

MutCountFamilies(L, ids) == Cardinality(Cited(ids))

CountFamilies(L, ids) == Cardinality(Families(L, ids))

MutSpokesmen(L, ids) ==
    {k \in DOMAIN ids :
        \A m \in DOMAIN ids : m > k => Family(L, ids[m]) # Family(L, ids[k])}

(* The citations whose first_event_ts stands for their family: the first   *)
(* one of each family.                                                     *)
Spokesmen(L, ids) ==
    {k \in DOMAIN ids :
        \A m \in DOMAIN ids : m < k => Family(L, ids[m]) # Family(L, ids[k])}

MutFamilyTimes(L, ids) == UNION {L[ids[k]].first : k \in Spokesmen(L, ids)}

(* family_ts, restricted to the families whose timestamp is the execution. *)
FamilyTimes(L, ids) ==
    UNION {L[ids[k]].first :
             k \in {m \in Spokesmen(L, ids) :
                      Family(L, ids[m]) \in EXECUTION_TIME_FAMILIES}}

MutIncoherent(times) == \E s, t \in times : t - s > Window + 1

(* _check_temporal_coherence: fewer than two timestamps span nothing.      *)
Incoherent(times) == \E s, t \in times : t - s > Window

MutEvaluateClaim(L, ids, signal) ==
    LET tier == ClassifyConfidence(CountFamilies(L, ids), signal)
        late == ~signal /\ Incoherent(FamilyTimes(L, ids)) /\ tier \in DOMAIN TEMPORAL_DEMOTION
    IN  [tier |-> IF late THEN TEMPORAL_DEMOTION[tier] ELSE tier,
         demoted |-> (IF signal THEN {"tamper"} ELSE {})
                     \cup (IF late THEN {"temporal"} ELSE {})]

EvaluateClaim(L, ids, signal) ==
    LET tier == ClassifyConfidence(CountFamilies(L, ids), signal)
        late == Incoherent(FamilyTimes(L, ids)) /\ tier \in DOMAIN TEMPORAL_DEMOTION
    IN  [tier |-> IF late THEN TEMPORAL_DEMOTION[tier] ELSE tier,
         demoted |-> (IF signal THEN {"tamper"} ELSE {})
                     \cup (IF late THEN {"temporal"} ELSE {})]

-----------------------------------------------------------------------------
(* The entries on record.                                                  *)

Evidence == [tool : DOMAIN TOOL_TO_FAMILY, first : SUBSET Times]

FindingEntry ==
    [tool : {"claim_finding"}, cited : SUBSET Nat, tier : Tiers,
     signal : BOOLEAN, demoted : SUBSET {"tamper", "temporal"}]

TypeOK ==
    /\ ledger \in Seq(Evidence \cup FindingEntry)
    /\ \A i \in 1..Len(ledger) :
        ledger[i] \in Evidence => \A s, t \in ledger[i].first : s = t

Init == ledger = <<>>

FindingsAt == {i \in 1..Len(ledger) : ledger[i].tool = "claim_finding"}

MutEarliest(rows) == rows

(* _first_event_ts of the rows of a tool's payload: the earliest, if any.  *)
Earliest(rows) == {t \in rows : \A u \in rows : t <= u}

(* A get_* tool's entry, whatever case it is for and however few its rows. *)
RecordEvidence(tool, rows) ==
    /\ Len(ledger) - Cardinality(FindingsAt) < MaxEvidence
    /\ ledger' = Append(ledger, [tool |-> tool, first |-> Earliest(rows)])

Finding(ids, signal, tier, demoted) ==
    [tool |-> "claim_finding", cited |-> Cited(ids), tier |-> tier,
     signal |-> signal, demoted |-> demoted]

(* finding.claim_finding: the library call, with deception signals.        *)
LibraryClaim(ids, signal) ==
    /\ Cardinality(FindingsAt) < MaxFindings
    /\ Citable(ledger, ids)
    /\ LET e == EvaluateClaim(ledger, ids, signal)
       IN  ledger' = Append(ledger, Finding(ids, signal, e.tier, e.demoted))

(* server.claim_finding: the tool passes no signals on, and its payload    *)
(* has no demoted_for_temporal.                                            *)
ServerClaim(ids) ==
    /\ Cardinality(FindingsAt) < MaxFindings
    /\ Citable(ledger, ids)
    /\ LET e == EvaluateClaim(ledger, ids, FALSE)
       IN  ledger' = Append(ledger, Finding(ids, FALSE, e.tier, e.demoted \ {"temporal"}))

Citations == UNION {[1..n -> 1..(MaxEvidence + MaxFindings)] : n \in 0..MaxCites}

Next ==
    \/ \E tool \in Tools, rows \in SUBSET Times : RecordEvidence(tool, rows)
    \/ \E ids \in Citations : ServerClaim(ids)
    \/ \E ids \in Citations, signal \in BOOLEAN : LibraryClaim(ids, signal)

Spec == Init /\ [][Next]_ledger

-----------------------------------------------------------------------------
(* What the gate guarantees of the findings on record ...                  *)

Disagree(L, a, b) == Family(L, a) # Family(L, b)

Earned(L, i) ==
    LET C == L[i].cited IN
    /\ C # {}
    /\ \A a \in C : a \in 1..(i - 1) /\ L[a].tool # "claim_finding"
    /\ L[i].tier = "CORROBORATED" => \E a, b \in C : Disagree(L, a, b)
    /\ L[i].tier = "FINAL" =>
         \E a, b, c \in C : Disagree(L, a, b) /\ Disagree(L, b, c) /\ Disagree(L, a, c)

(* A finding rests on evidence recorded before it, never on findings, and  *)
(* nobody can count one family twice: CORROBORATED takes two entries of    *)
(* different families and FINAL three (finding.py, families.py).           *)
TierEarned == \A i \in FindingsAt : Earned(ledger, i)

(* The families of a FINAL finding agree on when: of any two execution     *)
(* families with a timestamp for every citation, some two are within the   *)
(* window; and no tamper signal was raised (finding.py, Layer 3).          *)
FinalIsCoherent ==
    \A i \in FindingsAt :
        ledger[i].tier = "FINAL" =>
            LET Stamps(f) == UNION {ledger[a].first :
                                      a \in {c \in ledger[i].cited : Family(ledger, c) = f}}
                Dated == {f \in EXECUTION_TIME_FAMILIES :
                            \A a \in ledger[i].cited :
                                Family(ledger, a) = f => ledger[a].first # {}}
                Voted == {f \in Dated : Stamps(f) # {}}
            IN  /\ ~ledger[i].signal
                /\ \A f, g \in Voted :
                      \E s \in Stamps(f), t \in Stamps(g) : t - s \in (-Window)..Window

(* ... and of any claim the agent may make next.                           *)
Claims == {ids \in Citations : Citable(ledger, ids)}

CostsATier(ids) ==
    \/ Rank(EvaluateClaim(ledger, ids, TRUE).tier)
         < Rank(EvaluateClaim(ledger, ids, FALSE).tier)
    \/ /\ EvaluateClaim(ledger, ids, TRUE).tier = "DRAFT"
       /\ "temporal" \in EvaluateClaim(ledger, ids, FALSE).demoted

(* A tamper signal costs a tier, also when the temporal check has already  *)
(* cost one, down to DRAFT (audit.py classify_confidence, ARCH-002).       *)
SignalCosts == \A ids \in Claims : CostsATier(ids)

(* Citing a family once more, after it has spoken, changes nothing: an     *)
(* agent cannot argue a finding up, nor an old entry argue it down.        *)
RedundantCitation ==
    \A ids \in Claims : \A a \in DOMAIN ledger :
        ledger[a].tool \in DOMAIN TOOL_TO_FAMILY /\ Family(ledger, a) \in Families(ledger, ids) =>
            EvaluateClaim(ledger, Append(ids, a), FALSE) = EvaluateClaim(ledger, ids, FALSE)

(* No AppCompat timestamp, which dates a file and not an execution, can    *)
(* move a tier (families.py, EXECUTION_TIME_FAMILIES).                     *)
AppCompatTimeless ==
    \A ids \in Claims :
        LET blank == [i \in DOMAIN ledger |->
                        IF ledger[i] \in Evidence /\ Family(ledger, i) = "AppCompat"
                        THEN [ledger[i] EXCEPT !.first = {}] ELSE ledger[i]]
        IN  EvaluateClaim(ledger, ids, FALSE) = EvaluateClaim(blank, ids, FALSE)

-----------------------------------------------------------------------------
(* What the documents promise and the code does not do.                    *)

(* THREAT_MODEL_TRIANGULATION.md: the earliest timestamps of the families  *)
(* are compared, so the order of the citations cannot matter.              *)
OrderIrrelevant ==
    \A ids, ods \in Claims :
        Cited(ids) = Cited(ods) =>
            EvaluateClaim(ledger, ids, FALSE) = EvaluateClaim(ledger, ods, FALSE)

(* FAILURE_MODES.md, State 9: a signal means DRAFT_TAMPER_SUSPECTED.       *)
TamperSuspected ==
    \A i \in FindingsAt :
        ledger[i].signal => ledger[i].tier = "DRAFT_TAMPER_SUSPECTED"

=============================================================================
