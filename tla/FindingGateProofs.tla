------------------------- MODULE FindingGateProofs -------------------------
(***************************************************************************)
(* Proofs about FindingGate for every set of tools, every event time, every*)
(* window and ledgers and claims of every length.                          *)
(***************************************************************************)
EXTENDS FindingGate, SequenceTheorems, FiniteSetTheorems, TLAPS

-----------------------------------------------------------------------------
(* Counting.                                                               *)

LEMMA TwoMembers ==
    ASSUME NEW S, IsFiniteSet(S), Cardinality(S) >= 2
    PROVE  \E x, y \in S : x # y
  <1>1. PICK x \in S : TRUE
    BY FS_EmptySet
  <1>2. IsFiniteSet(S \ {x}) /\ Cardinality(S \ {x}) = Cardinality(S) - 1
    BY <1>1, FS_RemoveElement
  <1>3. Cardinality(S) \in Nat
    BY FS_CardinalityType
  <1>4. S \ {x} # {}
    BY <1>2, <1>3, FS_EmptySet
  <1>5. QED
    BY <1>1, <1>4

LEMMA ThreeMembers ==
    ASSUME NEW S, IsFiniteSet(S), Cardinality(S) >= 3
    PROVE  \E x, y, z \in S : x # y /\ y # z /\ x # z
  <1>1. PICK x \in S : TRUE
    BY FS_EmptySet
  <1>2. IsFiniteSet(S \ {x}) /\ Cardinality(S \ {x}) = Cardinality(S) - 1
    BY <1>1, FS_RemoveElement
  <1>3. Cardinality(S) \in Nat
    BY FS_CardinalityType
  <1>4. \E y, z \in S \ {x} : y # z
    BY <1>2, <1>3, TwoMembers
  <1>5. QED
    BY <1>1, <1>4

(* Whatever is cited, it speaks for finitely many families.                *)
LEMMA FamiliesFinite ==
    ASSUME NEW L, NEW ids, Citable(L, ids)
    PROVE  /\ IsFiniteSet(Families(L, ids))
           /\ CountFamilies(L, ids) \in Nat
  <1>1. IsFiniteSet({"AppCompat", "Explorer/NTUSER", "Background-service",
                     "Kernel-ETW", "SysMain"})
    <2>1. IsFiniteSet({} \cup {"AppCompat"})
      BY FS_EmptySet, FS_AddElement
    <2>2. IsFiniteSet({} \cup {"AppCompat"} \cup {"Explorer/NTUSER"})
      BY <2>1, FS_AddElement
    <2>3. IsFiniteSet({} \cup {"AppCompat"} \cup {"Explorer/NTUSER"}
                      \cup {"Background-service"})
      BY <2>2, FS_AddElement
    <2>4. IsFiniteSet({} \cup {"AppCompat"} \cup {"Explorer/NTUSER"}
                      \cup {"Background-service"} \cup {"Kernel-ETW"})
      BY <2>3, FS_AddElement
    <2>5. IsFiniteSet({} \cup {"AppCompat"} \cup {"Explorer/NTUSER"}
                      \cup {"Background-service"} \cup {"Kernel-ETW"} \cup {"SysMain"})
      BY <2>4, FS_AddElement
    <2>6. {} \cup {"AppCompat"} \cup {"Explorer/NTUSER"} \cup {"Background-service"}
            \cup {"Kernel-ETW"} \cup {"SysMain"}
          = {"AppCompat", "Explorer/NTUSER", "Background-service", "Kernel-ETW", "SysMain"}
      OBVIOUS
    <2>7. QED
      BY <2>5, <2>6
  <1>2. Families(L, ids) \subseteq
          {"AppCompat", "Explorer/NTUSER", "Background-service", "Kernel-ETW", "SysMain"}
    BY DEF Citable, Families, Family, TOOL_TO_FAMILY
  <1>3. IsFiniteSet(Families(L, ids))
    BY <1>1, <1>2, FS_Subset
  <1>4. QED
    BY <1>3, FS_CardinalityType DEF CountFamilies

-----------------------------------------------------------------------------
(* The tier of a claim.                                                    *)

(* No signal and no timestamp lifts a claim above what its families earn.  *)
LEMMA TierBounded ==
    ASSUME NEW L, NEW ids, Citable(L, ids), NEW signal \in BOOLEAN,
           NEW e, e = EvaluateClaim(L, ids, signal)
    PROVE  /\ e.tier \in Tiers
           /\ e.demoted \in SUBSET {"tamper", "temporal"}
           /\ e.tier = "CORROBORATED" => CountFamilies(L, ids) >= 2
           /\ e.tier = "FINAL" => CountFamilies(L, ids) >= 3
  <1> DEFINE n == CountFamilies(L, ids)
             tier == ClassifyConfidence(n, signal)
             late == Incoherent(FamilyTimes(L, ids)) /\ tier \in DOMAIN TEMPORAL_DEMOTION
  <1>1. n \in Nat
    BY FamiliesFinite
  <1>2. /\ tier \in Tiers
        /\ tier = "CORROBORATED" => n >= 2
        /\ tier = "FINAL" => n >= 3
    BY <1>1 DEF ClassifyConfidence, DEMOTION, Tiers
  <1>3. /\ e.tier = IF late THEN TEMPORAL_DEMOTION[tier] ELSE tier
        /\ e.demoted \in SUBSET {"tamper", "temporal"}
    BY DEF EvaluateClaim
  <1> HIDE DEF n, tier
  <1>4. late => TEMPORAL_DEMOTION[tier] \in Tiers
                /\ (TEMPORAL_DEMOTION[tier] = "CORROBORATED" => tier = "FINAL")
                /\ TEMPORAL_DEMOTION[tier] # "FINAL"
    BY DEF TEMPORAL_DEMOTION, Tiers
  <1>5. QED
    BY <1>1, <1>2, <1>3, <1>4 DEF n

(* A finding appended for a claim has earned its tier.                     *)
LEMMA EarnedNew ==
    ASSUME NEW L \in Seq(Evidence \cup FindingEntry), NEW ids \in Citations,
           NEW signal \in BOOLEAN, Citable(L, ids), NEW demoted,
           NEW e, e = EvaluateClaim(L, ids, signal),
           NEW M, M = Append(L, Finding(ids, signal, e.tier, demoted))
    PROVE  Earned(M, Len(L) + 1)
  <1> DEFINE f == Finding(ids, signal, e.tier, demoted)
             C == Cited(ids)
  <1>1. Len(L) \in Nat /\ DOMAIN L = 1..Len(L)
    BY LenProperties
  <1>2. M[Len(L) + 1] = f /\ \A i \in 1..Len(L) : M[i] = L[i]
    BY <1>1 DEF f
  <1>3. f.cited = C /\ f.tier = e.tier
    BY DEF Finding
  <1>4. /\ C # {}
        /\ \A a \in C : a \in 1..Len(L) /\ L[a].tool # "claim_finding"
    <2>1. PICK n \in Nat : ids \in [1..n -> 1..(MaxEvidence + MaxFindings)]
      BY BoundsAssumption DEF Citations
    <2>2. n # 0
      BY <2>1, EmptySeq DEF Citable
    <2>3. C # {}
      BY <2>1, <2>2 DEF Cited
    <2>4. \A a \in C : a \in 1..Len(L) /\ L[a].tool # "claim_finding"
      BY <1>1 DEF Citable, TOOL_TO_FAMILY
    <2>5. QED
      BY <2>3, <2>4
  <1>5. \A a \in C : Family(M, a) = Family(L, a)
    BY <1>2, <1>4 DEF Family
  <1>6. e.tier = "CORROBORATED" => \E a, b \in C : Disagree(M, a, b)
    <2> SUFFICES ASSUME e.tier = "CORROBORATED"
                 PROVE  \E a, b \in C : Disagree(M, a, b)
      OBVIOUS
    <2>1. \E x, y \in Families(L, ids) : x # y
      BY TierBounded, FamiliesFinite, TwoMembers DEF CountFamilies
    <2>2. QED
      BY <1>5, <2>1 DEF Families, Disagree
  <1>7. e.tier = "FINAL" =>
          \E a, b, c \in C : Disagree(M, a, b) /\ Disagree(M, b, c) /\ Disagree(M, a, c)
    <2> SUFFICES ASSUME e.tier = "FINAL"
                 PROVE  \E a, b, c \in C :
                           Disagree(M, a, b) /\ Disagree(M, b, c) /\ Disagree(M, a, c)
      OBVIOUS
    <2>1. \E x, y, z \in Families(L, ids) : x # y /\ y # z /\ x # z
      BY TierBounded, FamiliesFinite, ThreeMembers DEF CountFamilies
    <2>2. QED
      BY <1>5, <2>1 DEF Families, Disagree
  <1>8. \A a \in C : a \in 1..(Len(L) + 1 - 1) /\ M[a].tool # "claim_finding"
    BY <1>1, <1>2, <1>4
  <1>9. QED
    BY <1>2, <1>3, <1>4, <1>6, <1>7, <1>8 DEF Earned

(* What is appended later does not touch what a finding has earned.        *)
LEMMA EarnedKept ==
    ASSUME NEW L \in Seq(Evidence \cup FindingEntry),
           NEW x \in Evidence \cup FindingEntry,
           NEW i \in 1..Len(L), Earned(L, i)
    PROVE  Earned(Append(L, x), i)
  <1> DEFINE M == Append(L, x)
  <1>1. Len(L) \in Nat /\ \A j \in 1..Len(L) : M[j] = L[j]
    BY LenProperties, AppendProperties
  <1>2. \A a \in L[i].cited : a \in 1..(i - 1) /\ L[a].tool # "claim_finding"
    BY DEF Earned
  <1>3. \A a \in L[i].cited : a \in 1..Len(L) /\ M[a] = L[a] /\ Family(M, a) = Family(L, a)
    BY <1>1, <1>2 DEF Family
  <1>4. M[i] = L[i]
    BY <1>1
  <1> HIDE DEF M
  <1>5. Earned(M, i)
    BY <1>2, <1>3, <1>4 DEF Earned, Disagree
  <1>6. QED
    BY <1>5 DEF M

-----------------------------------------------------------------------------
(* Every step of the gate.                                                 *)

GateInv == TypeOK /\ TierEarned

(* What a step appends: evidence, or a finding that has earned its tier.   *)
Grows(x) ==
    /\ ledger' = Append(ledger, x)
    /\ \/ x \in Evidence /\ \A s, t \in x.first : s = t
       \/ x \in FindingEntry /\ Earned(ledger', Len(ledger) + 1)

LEMMA NextGrows ==
    ASSUME GateInv, Next
    PROVE  \E x : Grows(x)
  <1>1. ASSUME NEW tool \in Tools, NEW rows \in SUBSET Times, RecordEvidence(tool, rows)
        PROVE  \E x : Grows(x)
    <2> DEFINE x == [tool |-> tool, first |-> Earliest(rows)]
    <2>1. x \in Evidence
      BY ToolsHaveFamilies DEF Evidence, Earliest
    <2>2. \A s, t \in x.first : s = t
      BY TimesAreInstants DEF Earliest
    <2>3. QED
      BY <1>1, <2>1, <2>2 DEF RecordEvidence, Grows
  <1>2. ASSUME NEW ids \in Citations, NEW signal \in BOOLEAN, NEW demoted \in SUBSET {"tamper", "temporal"},
               NEW e, e = EvaluateClaim(ledger, ids, signal), Citable(ledger, ids),
               ledger' = Append(ledger, Finding(ids, signal, e.tier, demoted))
        PROVE  \E x : Grows(x)
    <2>1. e.tier \in Tiers
      BY <1>2, TierBounded
    <2>2. Cited(ids) \in SUBSET Nat
      BY BoundsAssumption DEF Citations, Cited
    <2>3. Finding(ids, signal, e.tier, demoted) \in FindingEntry
      BY <2>1, <2>2 DEF Finding, FindingEntry
    <2>4. Earned(ledger', Len(ledger) + 1)
      BY <1>2, EarnedNew DEF GateInv, TypeOK
    <2>5. QED
      BY <1>2, <2>3, <2>4 DEF Grows
  <1>3. ASSUME NEW ids \in Citations, ServerClaim(ids)
        PROVE  \E x : Grows(x)
    BY <1>2, <1>3, TierBounded DEF ServerClaim
  <1>4. ASSUME NEW ids \in Citations, NEW signal \in BOOLEAN, LibraryClaim(ids, signal)
        PROVE  \E x : Grows(x)
    BY <1>2, <1>4, TierBounded DEF LibraryClaim
  <1>5. QED
    BY <1>1, <1>3, <1>4 DEF Next

LEMMA GateStep == GateInv /\ [Next]_ledger => GateInv'
  <1> SUFFICES ASSUME GateInv, [Next]_ledger
               PROVE  GateInv'
    OBVIOUS
  <1>1. CASE UNCHANGED ledger
    BY <1>1 DEF GateInv, TypeOK, TierEarned, FindingsAt, Earned, Disagree, Family
  <1>2. CASE Next
    <2>1. PICK x : Grows(x)
      BY <1>2, NextGrows
    <2>2. /\ ledger \in Seq(Evidence \cup FindingEntry)
          /\ x \in Evidence \cup FindingEntry
          /\ Len(ledger) \in Nat
      BY <2>1, LenProperties DEF GateInv, TypeOK, Grows
    <2>3. /\ ledger' \in Seq(Evidence \cup FindingEntry)
          /\ Len(ledger') = Len(ledger) + 1
          /\ ledger'[Len(ledger) + 1] = x
          /\ \A i \in 1..Len(ledger) : ledger'[i] = ledger[i]
      BY <2>1, <2>2, AppendProperties DEF Grows
    <2>4. FindingEntry \cap Evidence = {}
      BY DEF FindingEntry, Evidence, TOOL_TO_FAMILY
    <2>5. TypeOK'
      BY <2>1, <2>2, <2>3, <2>4 DEF GateInv, TypeOK, Grows
    <2>6. ASSUME NEW i \in 1..Len(ledger'), ledger'[i].tool = "claim_finding"
          PROVE  Earned(ledger', i)
      <3>1. CASE i = Len(ledger) + 1
        <4>1. x \notin Evidence
          BY <2>3, <2>6, <3>1 DEF Evidence, TOOL_TO_FAMILY
        <4>2. QED
          BY <2>1, <3>1, <4>1 DEF Grows
      <3>2. CASE i # Len(ledger) + 1
        <4>1. i \in 1..Len(ledger)
          BY <2>2, <2>3, <3>2
        <4>2. Earned(ledger, i)
          BY <2>3, <2>6, <4>1 DEF GateInv, TierEarned, FindingsAt
        <4>3. QED
          BY <2>1, <2>2, <4>1, <4>2, EarnedKept DEF Grows
      <3>3. QED
        BY <3>1, <3>2
    <2>7. TierEarned'
      BY <2>6 DEF TierEarned, FindingsAt
    <2>8. QED
      BY <2>5, <2>7 DEF GateInv
  <1>3. QED
    BY <1>1, <1>2

(* The ledger holds well-formed evidence and findings only, whichever of   *)
(* the two callers of the gate writes them (finding.py claim_finding,      *)
(* server.py claim_finding).                                               *)
THEOREM Typing == Spec => []TypeOK
  <1>1. Init => GateInv
    BY EmptySeq DEF Init, GateInv, TypeOK, TierEarned, FindingsAt
  <1>2. GateInv /\ [Next]_ledger => GateInv'
    BY GateStep
  <1>3. GateInv => TypeOK
    BY DEF GateInv
  <1>4. QED
    BY <1>1, <1>2, <1>3, PTL DEF Spec

(* CORROBORATED and FINAL stand for two and for three different families,  *)
(* in every ledger and however often, in whatever order and beside which   *)
(* fabricated ids entries are cited (finding.py evaluate_claim).           *)
THEOREM TiersAreEarned == Spec => []TierEarned
  <1>1. Init => GateInv
    BY EmptySeq DEF Init, GateInv, TypeOK, TierEarned, FindingsAt
  <1>2. GateInv /\ [Next]_ledger => GateInv'
    BY GateStep
  <1>3. GateInv => TierEarned
    BY DEF GateInv
  <1>4. QED
    BY <1>1, <1>2, <1>3, PTL DEF Spec

LEMMA NextRank ==
    \A x, y : /\ x = 0 /\ y = 1 => x < y
              /\ x = 1 /\ y = 2 => x < y
              /\ x = 2 /\ y = 3 => x < y
  OBVIOUS

(* A tamper signal costs every claim a tier, on top of the temporal check, *)
(* down to DRAFT (audit.py classify_confidence, finding.py evaluate_claim).*)
THEOREM SignalsCost == Spec => []SignalCosts
  <1>1. SignalCosts
    <2> SUFFICES ASSUME NEW ids \in Citations, Citable(ledger, ids)
                 PROVE  CostsATier(ids)
      BY DEF SignalCosts, Claims
    <2> DEFINE n == CountFamilies(ledger, ids)
               incoherent == Incoherent(FamilyTimes(ledger, ids))
    <2>1. n \in Nat
      BY FamiliesFinite
    <2> HIDE DEF n
    <2>2. /\ Rank("DRAFT_TAMPER_SUSPECTED") = 0
          /\ Rank("DRAFT") = 1
          /\ Rank("CORROBORATED") = 2
          /\ Rank("FINAL") = 3
      BY DEF Rank
    <2>3. CASE n <= 1
      <3>1. EvaluateClaim(ledger, ids, TRUE).tier = "DRAFT_TAMPER_SUSPECTED"
        BY <2>1, <2>3 DEF n, EvaluateClaim, ClassifyConfidence, DEMOTION, TEMPORAL_DEMOTION
      <3>2. EvaluateClaim(ledger, ids, FALSE).tier = "DRAFT"
        BY <2>1, <2>3 DEF n, EvaluateClaim, ClassifyConfidence, TEMPORAL_DEMOTION
      <3>3. /\ Rank(EvaluateClaim(ledger, ids, TRUE).tier) = 0
            /\ Rank(EvaluateClaim(ledger, ids, FALSE).tier) = 1
        BY <2>2, <3>1, <3>2
      <3>4. QED
        BY <3>3, NextRank, Zenon DEF CostsATier
    <2>4. CASE n = 2
      <3>1. EvaluateClaim(ledger, ids, TRUE).tier = "DRAFT"
        BY <2>1, <2>4 DEF n, EvaluateClaim, ClassifyConfidence, DEMOTION, TEMPORAL_DEMOTION
      <3>2. IF incoherent THEN "temporal" \in EvaluateClaim(ledger, ids, FALSE).demoted
            ELSE EvaluateClaim(ledger, ids, FALSE).tier = "CORROBORATED"
        BY <2>1, <2>4 DEF n, EvaluateClaim, ClassifyConfidence, TEMPORAL_DEMOTION
      <3>3. CASE incoherent
        BY <3>1, <3>2, <3>3 DEF CostsATier
      <3>4. CASE ~incoherent
        <4>1. /\ Rank(EvaluateClaim(ledger, ids, TRUE).tier) = 1
              /\ Rank(EvaluateClaim(ledger, ids, FALSE).tier) = 2
          BY <2>2, <3>1, <3>2, <3>4
        <4>2. QED
          BY <4>1, NextRank, Zenon DEF CostsATier
      <3>5. QED
        BY <3>3, <3>4
    <2>5. CASE n >= 3
      <3>1. EvaluateClaim(ledger, ids, TRUE).tier = IF incoherent THEN "DRAFT" ELSE "CORROBORATED"
        BY <2>1, <2>5 DEF n, EvaluateClaim, ClassifyConfidence, DEMOTION, TEMPORAL_DEMOTION
      <3>2. EvaluateClaim(ledger, ids, FALSE).tier = IF incoherent THEN "CORROBORATED" ELSE "FINAL"
        BY <2>1, <2>5 DEF n, EvaluateClaim, ClassifyConfidence, TEMPORAL_DEMOTION
      <3>3. CASE incoherent
        <4>1. /\ Rank(EvaluateClaim(ledger, ids, TRUE).tier) = 1
              /\ Rank(EvaluateClaim(ledger, ids, FALSE).tier) = 2
          BY <2>2, <3>1, <3>2, <3>3
        <4>2. QED
          BY <4>1, NextRank, Zenon DEF CostsATier
      <3>4. CASE ~incoherent
        <4>1. /\ Rank(EvaluateClaim(ledger, ids, TRUE).tier) = 2
              /\ Rank(EvaluateClaim(ledger, ids, FALSE).tier) = 3
          BY <2>2, <3>1, <3>2, <3>4
        <4>2. QED
          BY <4>1, NextRank, Zenon DEF CostsATier
      <3>5. QED
        BY <3>3, <3>4
    <2>6. QED
      BY <2>1, <2>3, <2>4, <2>5
  <1>2. QED
    BY <1>1, PTL

-----------------------------------------------------------------------------
(* What cannot move a tier.                                                *)

(* Ledgers whose entries are of the same families, with the same time      *)
(* where it dates an execution, give every claim the same verdict.         *)
LEMMA SameFamilies ==
    ASSUME NEW L, NEW M, NEW ids, Citable(L, ids),
           \A a \in DOMAIN L :
             /\ Family(M, a) = Family(L, a)
             /\ Family(L, a) \in EXECUTION_TIME_FAMILIES =>
                  M[a].first = L[a].first
    PROVE  EvaluateClaim(L, ids, FALSE) = EvaluateClaim(M, ids, FALSE)
  <1>1. \A k \in DOMAIN ids : ids[k] \in DOMAIN L
    BY DEF Citable, Cited
  <1>2. Families(L, ids) = Families(M, ids)
    BY <1>1 DEF Families, Cited
  <1>3. Spokesmen(L, ids) = Spokesmen(M, ids) /\ Spokesmen(L, ids) \subseteq DOMAIN ids
    BY <1>1 DEF Spokesmen
  <1> DEFINE Voters(K) == {m \in Spokesmen(K, ids) :
                             Family(K, ids[m]) \in EXECUTION_TIME_FAMILIES}
  <1>4. Voters(L) = Voters(M)
    BY <1>1, <1>3
  <1>5. \A k \in Voters(L) : M[ids[k]].first = L[ids[k]].first
    BY <1>1, <1>3
  <1> HIDE DEF Voters
  <1>6. {L[ids[k]].first : k \in Voters(L)} = {M[ids[k]].first : k \in Voters(M)}
    BY <1>4, <1>5
  <1>7. FamilyTimes(L, ids) = FamilyTimes(M, ids)
    BY <1>6, Zenon DEF FamilyTimes, Voters
  <1>8. QED
    BY <1>2, <1>7, Zenon DEF EvaluateClaim, CountFamilies

(* The timestamps of AppCompat entries, which date a file and not an       *)
(* execution, move no tier, in whatever ledger (families.py,               *)
(* EXECUTION_TIME_FAMILIES; finding.py evaluate_claim).                    *)
THEOREM AppCompatNeutral == Spec => []AppCompatTimeless
  <1>1. AppCompatTimeless
    <2> DEFINE Blank(i) == IF ledger[i] \in Evidence /\ Family(ledger, i) = "AppCompat"
                           THEN [ledger[i] EXCEPT !.first = {}] ELSE ledger[i]
    <2> SUFFICES ASSUME NEW ids \in Citations, Citable(ledger, ids)
                 PROVE  EvaluateClaim(ledger, ids, FALSE)
                          = EvaluateClaim([i \in DOMAIN ledger |-> Blank(i)], ids, FALSE)
      BY DEF AppCompatTimeless, Claims
    <2>1. ASSUME NEW a \in DOMAIN ledger
          PROVE  /\ Blank(a).tool = ledger[a].tool
                 /\ Family(ledger, a) \in EXECUTION_TIME_FAMILIES =>
                      Blank(a).first = ledger[a].first
      BY DEF Evidence, EXECUTION_TIME_FAMILIES
    <2> HIDE DEF Blank
    <2>2. ASSUME NEW blank, blank = [i \in DOMAIN ledger |-> Blank(i)]
          PROVE  EvaluateClaim(ledger, ids, FALSE) = EvaluateClaim(blank, ids, FALSE)
      <3>1. \A a \in DOMAIN ledger :
              /\ Family(blank, a) = Family(ledger, a)
              /\ Family(ledger, a) \in EXECUTION_TIME_FAMILIES =>
                   blank[a].first = ledger[a].first
        BY <2>1, <2>2 DEF Family
      <3> HIDE <2>2
      <3>2. QED
        BY <3>1, SameFamilies, Zenon
    <2>3. QED
      BY <2>2
  <1>2. QED
    BY <1>1, PTL

(* Citing a family once more after it has spoken changes nothing, however  *)
(* long the claim and whatever the entry says (finding.py evaluate_claim). *)
THEOREM RepeatsNeutral == Spec => []RedundantCitation
  <1>1. RedundantCitation
    <2> SUFFICES ASSUME NEW ids \in Citations, Citable(ledger, ids),
                        NEW a \in DOMAIN ledger,
                        Family(ledger, a) \in Families(ledger, ids)
                 PROVE  EvaluateClaim(ledger, Append(ids, a), FALSE)
                          = EvaluateClaim(ledger, ids, FALSE)
      BY DEF RedundantCitation, Claims
    <2> DEFINE more == Append(ids, a)
    <2>1. PICK n \in Nat : ids \in [1..n -> 1..(MaxEvidence + MaxFindings)]
      BY BoundsAssumption DEF Citations
    <2>2. ids \in Seq(1..(MaxEvidence + MaxFindings)) /\ Len(ids) = n
      <3>1. ids \in Seq(1..(MaxEvidence + MaxFindings))
        BY <2>1, SeqDef
      <3>2. QED
        BY <2>1, <3>1, LenProperties
    <2>3. /\ DOMAIN ids = 1..n
          /\ DOMAIN more = 1..(n + 1)
          /\ more[n + 1] = a
          /\ \A k \in 1..n : more[k] = ids[k]
      BY <2>1, <2>2
    <2> HIDE DEF more
    <2>4. PICK j \in 1..n : Family(ledger, ids[j]) = Family(ledger, a)
      BY <2>3 DEF Families, Cited
    <2>5. Cited(more) = Cited(ids) \cup {a}
      BY <2>1, <2>3 DEF Cited
    <2>6. Families(ledger, more) = Families(ledger, ids)
      BY <2>5 DEF Families
    <2>7. n + 1 \notin Spokesmen(ledger, more)
      <3>1. j \in DOMAIN more /\ j < n + 1 /\ more[j] = ids[j]
        BY <2>1, <2>3
      <3>2. Family(ledger, more[j]) = Family(ledger, more[n + 1])
        BY <2>3, <2>4
      <3>3. QED
        BY <3>1, <3>2 DEF Spokesmen
    <2>8. ASSUME NEW k \in 1..n
          PROVE  k \in Spokesmen(ledger, more) <=> k \in Spokesmen(ledger, ids)
      <3>1. \A m \in 1..(n + 1) : m < k => m \in 1..n
        BY <2>1
      <3>2. 1..n \subseteq 1..(n + 1)
        BY <2>1
      <3>3. QED
        BY <2>3, <3>1, <3>2 DEF Spokesmen
    <2>9. Spokesmen(ledger, more) = Spokesmen(ledger, ids)
          /\ Spokesmen(ledger, ids) \subseteq 1..n
      <3>1. /\ Spokesmen(ledger, more) \subseteq 1..(n + 1)
            /\ Spokesmen(ledger, ids) \subseteq 1..n
        BY <2>3 DEF Spokesmen
      <3>2. 1..(n + 1) = 1..n \cup {n + 1}
        BY <2>1
      <3>3. QED
        BY <2>7, <2>8, <3>1, <3>2
    <2> DEFINE Voters(x) == {m \in Spokesmen(ledger, x) :
                               Family(ledger, x[m]) \in EXECUTION_TIME_FAMILIES}
    <2>10. Voters(more) = Voters(ids) /\ Voters(ids) \subseteq 1..n
      BY <2>3, <2>9
    <2> HIDE DEF Voters
    <2>11. {ledger[more[k]].first : k \in Voters(more)}
             = {ledger[ids[k]].first : k \in Voters(ids)}
      BY <2>3, <2>10
    <2>12. FamilyTimes(ledger, more) = FamilyTimes(ledger, ids)
      BY <2>11, Zenon DEF FamilyTimes, Voters
    <2>13. QED
      <3>1. EvaluateClaim(ledger, more, FALSE)
              = EvaluateClaim(ledger, ids, FALSE)
        BY <2>6, <2>12, Zenon DEF EvaluateClaim, CountFamilies
      <3>2. QED
        BY <3>1 DEF more
  <1>2. QED
    BY <1>1, PTL

-----------------------------------------------------------------------------
(* The families of a FINAL finding agree on when.                          *)

LEMMA LeastNumber ==
    ASSUME NEW S, S \subseteq Nat, S # {}
    PROVE  \E x \in S : \A y \in S : ~(y < x)
  <1>1. PICK x \in S : \A y \in S : <<y, x>> \notin OpToRel(<, Nat)
    BY NatLessThanWellFounded, WFMin, Zenon
  <1>2. QED
    BY <1>1 DEF OpToRel

Stamps(L, C, f) == UNION {L[a].first : a \in {c \in C : Family(L, c) = f}}

Dated(L, C, f) == \A a \in C : Family(L, a) = f => L[a].first # {}

Voted(L, C) == {f \in EXECUTION_TIME_FAMILIES :
                  Dated(L, C, f) /\ Stamps(L, C, f) # {}}

(* What FinalIsCoherent says of the finding at i.                          *)
Agreed(L, i) ==
    L[i].tier = "FINAL" =>
      /\ ~L[i].signal
      /\ \A f, g \in Voted(L, L[i].cited) :
           \E s \in Stamps(L, L[i].cited, f), t \in Stamps(L, L[i].cited, g) :
             t - s \in (-Window)..Window

LEMMA CoherentMeansAgreed ==
    FinalIsCoherent <=> \A i \in FindingsAt : Agreed(ledger, i)
  BY DEF FinalIsCoherent, Agreed, Voted, Dated, Stamps

(* A claim that is FINAL is so after both checks have passed it.           *)
LEMMA FinalPasses ==
    ASSUME NEW L, NEW ids, Citable(L, ids), NEW signal \in BOOLEAN,
           EvaluateClaim(L, ids, signal).tier = "FINAL"
    PROVE  ~signal /\ ~Incoherent(FamilyTimes(L, ids))
  <1> DEFINE n == CountFamilies(L, ids)
             tier == ClassifyConfidence(n, signal)
             late == Incoherent(FamilyTimes(L, ids)) /\ tier \in DOMAIN TEMPORAL_DEMOTION
  <1>1. n \in Nat
    BY FamiliesFinite
  <1>2. tier \in Tiers /\ (signal => tier # "FINAL")
    BY <1>1 DEF ClassifyConfidence, DEMOTION, Tiers
  <1>3. IF late THEN TEMPORAL_DEMOTION[tier] = "FINAL" ELSE tier = "FINAL"
    BY DEF EvaluateClaim
  <1> HIDE DEF n, tier
  <1>4. ~late
    BY <1>2, <1>3 DEF TEMPORAL_DEMOTION, Tiers
  <1>5. tier = "FINAL"
    BY <1>3, <1>4
  <1>6. QED
    BY <1>2, <1>4, <1>5 DEF TEMPORAL_DEMOTION

(* A family that has voted has a timestamp among those that are compared.  *)
LEMMA VotedIsCompared ==
    ASSUME NEW L, NEW ids \in Citations, NEW f \in Voted(L, Cited(ids))
    PROVE  \E s \in Stamps(L, Cited(ids), f) : s \in FamilyTimes(L, ids)
  <1> DEFINE Mine == {k \in DOMAIN ids : Family(L, ids[k]) = f}
  <1>1. DOMAIN ids \subseteq Nat
    BY DEF Citations
  <1>2. Mine # {}
    BY DEF Voted, Stamps, Cited
  <1>3. PICK k \in Mine : \A m \in Mine : ~(m < k)
    BY <1>1, <1>2, LeastNumber
  <1>4. k \in Spokesmen(L, ids)
    BY <1>3 DEF Spokesmen
  <1>5. ids[k] \in Cited(ids) /\ Family(L, ids[k]) = f
    BY <1>3 DEF Cited
  <1>6. PICK s \in L[ids[k]].first : TRUE
    BY <1>5 DEF Voted, Dated
  <1>7. s \in Stamps(L, Cited(ids), f)
    BY <1>5, <1>6 DEF Stamps
  <1>8. s \in FamilyTimes(L, ids)
    BY <1>4, <1>5, <1>6 DEF FamilyTimes, Voted
  <1>9. QED
    BY <1>7, <1>8

LEMMA StampsAreTimes ==
    ASSUME NEW L \in Seq(Evidence \cup FindingEntry), NEW ids \in Citations,
           Citable(L, ids), NEW f
    PROVE  Stamps(L, Cited(ids), f) \subseteq Int
  <1>1. \A a \in Cited(ids) : L[a] \in Evidence
    <2>1. \A a \in Cited(ids) : L[a] \in Evidence \cup FindingEntry
      BY DEF Citable
    <2>2. QED
      BY <2>1 DEF Citable, FindingEntry, TOOL_TO_FAMILY
  <1>2. QED
    BY <1>1, TimesAreInstants DEF Stamps, Evidence

(* A finding that is appended for a claim rests on families that agree.    *)
LEMMA AgreedNew ==
    ASSUME NEW L \in Seq(Evidence \cup FindingEntry), NEW ids \in Citations,
           NEW signal \in BOOLEAN, Citable(L, ids), NEW demoted,
           NEW e, e = EvaluateClaim(L, ids, signal),
           NEW M, M = Append(L, Finding(ids, signal, e.tier, demoted))
    PROVE  Agreed(M, Len(L) + 1)
  <1> DEFINE x == Finding(ids, signal, e.tier, demoted)
             C == Cited(ids)
  <1>1. Len(L) \in Nat /\ DOMAIN L = 1..Len(L)
    BY LenProperties
  <1>2. M[Len(L) + 1] = x /\ \A i \in 1..Len(L) : M[i] = L[i]
    BY <1>1 DEF x
  <1>3. x.cited = C /\ x.tier = e.tier /\ x.signal = signal
    BY DEF Finding
  <1>4. \A a \in C : M[a] = L[a] /\ Family(M, a) = Family(L, a)
    BY <1>1, <1>2 DEF Citable, Family
  <1>5. \A f : Stamps(M, C, f) = Stamps(L, C, f) /\ (Dated(M, C, f) <=> Dated(L, C, f))
    BY <1>4 DEF Stamps, Dated
  <1>6. Voted(M, C) = Voted(L, C)
    BY <1>5 DEF Voted
  <1>7. ASSUME e.tier = "FINAL", NEW f \in Voted(L, C), NEW g \in Voted(L, C)
        PROVE  \E s \in Stamps(L, C, f), t \in Stamps(L, C, g) :
                 t - s \in (-Window)..Window
    <2>1. PICK s \in Stamps(L, C, f) : s \in FamilyTimes(L, ids)
      BY VotedIsCompared
    <2>2. PICK t \in Stamps(L, C, g) : t \in FamilyTimes(L, ids)
      BY VotedIsCompared
    <2>3. ~(t - s > Window) /\ ~(s - t > Window)
      BY <1>7, <2>1, <2>2, FinalPasses DEF Incoherent
    <2>4. s \in Int /\ t \in Int
      BY <2>1, <2>2, StampsAreTimes
    <2>5. t - s \in (-Window)..Window
      BY <2>3, <2>4, WindowAssumption
    <2>6. QED
      BY <2>1, <2>2, <2>5
  <1>8. e.tier = "FINAL" => ~signal
    BY FinalPasses
  <1> HIDE DEF C, x
  <1>9. QED
    BY <1>2, <1>3, <1>5, <1>6, <1>7, <1>8 DEF Agreed

LEMMA AgreedKept ==
    ASSUME NEW L \in Seq(Evidence \cup FindingEntry),
           NEW x \in Evidence \cup FindingEntry,
           NEW i \in 1..Len(L), Earned(L, i), Agreed(L, i)
    PROVE  Agreed(Append(L, x), i)
  <1> DEFINE M == Append(L, x)
             C == L[i].cited
  <1>1. Len(L) \in Nat /\ \A j \in 1..Len(L) : M[j] = L[j]
    BY LenProperties, AppendProperties
  <1>2. \A a \in C : a \in 1..Len(L)
    BY <1>1 DEF Earned
  <1>3. M[i] = L[i] /\ \A a \in C : M[a] = L[a] /\ Family(M, a) = Family(L, a)
    BY <1>1, <1>2 DEF Family
  <1> HIDE DEF M
  <1>4. \A f : Stamps(M, C, f) = Stamps(L, C, f) /\ (Dated(M, C, f) <=> Dated(L, C, f))
    BY <1>3 DEF Stamps, Dated
  <1>5. Voted(M, C) = Voted(L, C)
    BY <1>4 DEF Voted
  <1>6. Agreed(M, i)
    BY <1>3, <1>4, <1>5 DEF Agreed
  <1>7. QED
    BY <1>6 DEF M

CoherentInv == GateInv /\ \A i \in FindingsAt : Agreed(ledger, i)

(* What a step appends: an entry that is no finding, or one that agrees.   *)
LEMMA NextAgrees ==
    ASSUME GateInv, Next
    PROVE  \E x \in Evidence \cup FindingEntry :
             /\ ledger' = Append(ledger, x)
             /\ x.tool = "claim_finding" => Agreed(ledger', Len(ledger) + 1)
  <1> DEFINE Goal == \E x \in Evidence \cup FindingEntry :
                       /\ ledger' = Append(ledger, x)
                       /\ x.tool = "claim_finding" => Agreed(ledger', Len(ledger) + 1)
  <1>1. ASSUME NEW tool \in Tools, NEW rows \in SUBSET Times, RecordEvidence(tool, rows)
        PROVE  Goal
    <2> DEFINE x == [tool |-> tool, first |-> Earliest(rows)]
    <2>1. x \in Evidence
      BY ToolsHaveFamilies DEF Evidence, Earliest
    <2>2. x.tool # "claim_finding"
      BY <2>1 DEF Evidence, TOOL_TO_FAMILY
    <2>3. ledger' = Append(ledger, x)
      BY <1>1 DEF RecordEvidence
    <2> HIDE DEF x
    <2>4. QED
      BY <2>1, <2>2, <2>3
  <1>2. ASSUME NEW ids \in Citations, NEW signal \in BOOLEAN, NEW demoted \in SUBSET {"tamper", "temporal"},
               NEW e, e = EvaluateClaim(ledger, ids, signal), Citable(ledger, ids),
               ledger' = Append(ledger, Finding(ids, signal, e.tier, demoted))
        PROVE  Goal
    <2>1. e.tier \in Tiers
      BY <1>2, TierBounded
    <2>2. Cited(ids) \in SUBSET Nat
      BY BoundsAssumption DEF Citations, Cited
    <2>3. Finding(ids, signal, e.tier, demoted) \in FindingEntry
      BY <2>1, <2>2 DEF Finding, FindingEntry
    <2>4. Agreed(ledger', Len(ledger) + 1)
      BY <1>2, AgreedNew DEF GateInv, TypeOK
    <2>5. QED
      BY <1>2, <2>3, <2>4
  <1>3. ASSUME NEW ids \in Citations, ServerClaim(ids)
        PROVE  Goal
    BY <1>2, <1>3, TierBounded DEF ServerClaim
  <1>4. ASSUME NEW ids \in Citations, NEW signal \in BOOLEAN, LibraryClaim(ids, signal)
        PROVE  Goal
    BY <1>2, <1>4, TierBounded DEF LibraryClaim
  <1>5. QED
    BY <1>1, <1>3, <1>4 DEF Next

LEMMA CoherentStep == CoherentInv /\ [Next]_ledger => CoherentInv'
  <1> SUFFICES ASSUME CoherentInv, [Next]_ledger
               PROVE  CoherentInv'
    OBVIOUS
  <1>1. GateInv'
    BY GateStep DEF CoherentInv
  <1>2. CASE UNCHANGED ledger
    <2>1. FindingsAt' = FindingsAt
      BY <1>2 DEF FindingsAt
    <2>2. ASSUME NEW i \in FindingsAt
          PROVE  Agreed(ledger', i)
      <3>1. Agreed(ledger, i)
        BY DEF CoherentInv
      <3>2. QED
        BY <1>2, <3>1
    <2>3. QED
      BY <1>1, <2>1, <2>2 DEF CoherentInv
  <1>3. CASE Next
    <2>1. PICK x \in Evidence \cup FindingEntry :
            /\ ledger' = Append(ledger, x)
            /\ x.tool = "claim_finding" => Agreed(ledger', Len(ledger) + 1)
      BY <1>3, NextAgrees DEF CoherentInv
    <2>2. ledger \in Seq(Evidence \cup FindingEntry) /\ Len(ledger) \in Nat
      BY LenProperties DEF CoherentInv, GateInv, TypeOK
    <2>3. /\ Len(ledger') = Len(ledger) + 1
          /\ ledger'[Len(ledger) + 1] = x
          /\ \A i \in 1..Len(ledger) : ledger'[i] = ledger[i]
      BY <2>1, <2>2, AppendProperties
    <2>4. ASSUME NEW i \in 1..Len(ledger'), ledger'[i].tool = "claim_finding"
          PROVE  Agreed(ledger', i)
      <3>1. CASE i = Len(ledger) + 1
        BY <2>1, <2>3, <2>4, <3>1
      <3>2. CASE i # Len(ledger) + 1
        <4>1. i \in 1..Len(ledger)
          BY <2>2, <2>3, <3>2
        <4>2. Earned(ledger, i) /\ Agreed(ledger, i)
          BY <2>3, <2>4, <4>1 DEF CoherentInv, GateInv, TierEarned, FindingsAt
        <4>3. QED
          BY <2>1, <2>2, <4>1, <4>2, AgreedKept
      <3>3. QED
        BY <3>1, <3>2
    <2>5. QED
      BY <1>1, <2>4 DEF CoherentInv, FindingsAt
  <1>4. QED
    BY <1>2, <1>3

(* Of a FINAL finding no signal was raised, and of any two families that   *)
(* date the execution some two timestamps are within the window, for every *)
(* window, ledger and claim (finding.py _check_temporal_coherence).        *)
THEOREM FinalsCohere == Spec => []FinalIsCoherent
  <1>1. Init => CoherentInv
    BY EmptySeq DEF Init, CoherentInv, GateInv, TypeOK, TierEarned, FindingsAt
  <1>2. CoherentInv /\ [Next]_ledger => CoherentInv'
    BY CoherentStep
  <1>3. CoherentInv => FinalIsCoherent
    BY CoherentMeansAgreed DEF CoherentInv
  <1>4. QED
    BY <1>1, <1>2, <1>3, PTL DEF Spec

-----------------------------------------------------------------------------
(* The gate and the set of the entries that are cited.                     *)

(* What a claim deserves, said of the set of the entries C that it cites:  *)
(* a tier for each family up to three, less one if two execution times of  *)
(* theirs are too far apart and there was more than one tier.              *)
Deserved(C) ==
    LET families == {Family(ledger, a) : a \in C}
        n == Cardinality(families)
        times == UNION {ledger[a].first :
                          a \in {b \in C : Family(ledger, b) \in EXECUTION_TIME_FAMILIES}}
        late == n > 1 /\ \E s, t \in times : t - s > Window
        rungs == (IF n < 3 THEN n ELSE 3) - (IF late THEN 1 ELSE 0)
    IN  [tier |-> <<"DRAFT", "CORROBORATED", "FINAL">>[rungs],
         demoted |-> IF late THEN {"temporal"} ELSE {}]

(* Two entries of one family that dates executions give the same time.     *)
SameDates(C) ==
    \A a, b \in C :
        Family(ledger, a) = Family(ledger, b) /\ Family(ledger, a) \in EXECUTION_TIME_FAMILIES
            => ledger[a].first = ledger[b].first

(* The order of the citations and their repetition matter only where the   *)
(* entries of one family differ in their times: otherwise the verdict is   *)
(* what the set of the entries deserves (finding.py evaluate_claim).       *)
OrderMattersForDates ==
    \A ids \in Claims :
        SameDates(Cited(ids)) => EvaluateClaim(ledger, ids, FALSE) = Deserved(Cited(ids))

TimesOf(L, C) ==
    UNION {L[a].first : a \in {b \in C : Family(L, b) \in EXECUTION_TIME_FAMILIES}}

(* Each family has a spokesman, so if its entries have the same time it is *)
(* the time that is compared, whichever of them is cited first.            *)
LEMMA SpokesmanTimes ==
    ASSUME NEW ids \in Citations, SameDates(Cited(ids))
    PROVE  FamilyTimes(ledger, ids) = TimesOf(ledger, Cited(ids))
  <1>1. FamilyTimes(ledger, ids) \subseteq TimesOf(ledger, Cited(ids))
    BY DEF FamilyTimes, TimesOf, Spokesmen, Cited
  <1>2. ASSUME NEW t \in TimesOf(ledger, Cited(ids))
        PROVE  t \in FamilyTimes(ledger, ids)
    <2>1. PICK a \in Cited(ids) :
            /\ Family(ledger, a) \in EXECUTION_TIME_FAMILIES
            /\ t \in ledger[a].first
      BY <1>2 DEF TimesOf
    <2> DEFINE Mine == {k \in DOMAIN ids : Family(ledger, ids[k]) = Family(ledger, a)}
    <2>2. Mine \subseteq Nat /\ Mine # {}
      BY <2>1 DEF Citations, Cited
    <2>3. PICK k \in Mine : \A m \in Mine : ~(m < k)
      BY <2>2, LeastNumber
    <2>4. k \in Spokesmen(ledger, ids)
      BY <2>3 DEF Spokesmen
    <2>5. /\ ids[k] \in Cited(ids)
          /\ Family(ledger, ids[k]) = Family(ledger, a)
      BY <2>3 DEF Cited
    <2>6. ledger[ids[k]].first = ledger[a].first
      BY <2>1, <2>5 DEF SameDates
    <2> QED
      BY <2>1, <2>4, <2>5, <2>6 DEF FamilyTimes
  <1> QED
    BY <1>1, <1>2

(* The verdict is a matter of which entries are cited, not of how, unless  *)
(* entries of one family differ in their times (finding.py evaluate_claim, *)
(* THREAT_MODEL_TRIANGULATION.md).                                         *)
THEOREM SetsDecide == Spec => []OrderMattersForDates
  <1>1. OrderMattersForDates
    <2> SUFFICES ASSUME NEW ids \in Citations, Citable(ledger, ids),
                        SameDates(Cited(ids))
                 PROVE  EvaluateClaim(ledger, ids, FALSE) = Deserved(Cited(ids))
      BY DEF OrderMattersForDates, Claims
    <2> DEFINE n == CountFamilies(ledger, ids)
               far == Incoherent(TimesOf(ledger, Cited(ids)))
    <2>1. n \in Nat /\ n >= 1
      <3>1. IsFiniteSet(Families(ledger, ids)) /\ n \in Nat
        BY FamiliesFinite
      <3>2. Families(ledger, ids) # {}
        <4>1. PICK m \in Nat : ids \in [1..m -> 1..(MaxEvidence + MaxFindings)]
          BY BoundsAssumption DEF Citations
        <4>2. m # 0
          BY <4>1, SeqDef DEF Citable
        <4>3. ids[1] \in Cited(ids)
          BY <4>1, <4>2 DEF Cited
        <4> QED
          BY <4>3 DEF Families
      <3> QED
        BY <3>1, <3>2, FS_EmptySet DEF CountFamilies
    <2>2. far \in BOOLEAN /\ Incoherent(FamilyTimes(ledger, ids)) = far
      BY SpokesmanTimes DEF Incoherent
    <2>3. n = Cardinality({Family(ledger, a) : a \in Cited(ids)})
      BY DEF CountFamilies, Families
    <2>4. far <=> \E s, t \in TimesOf(ledger, Cited(ids)) : t - s > Window
      BY DEF Incoherent
    <2> DEFINE late == n > 1 /\ far
               rungs == (IF n < 3 THEN n ELSE 3) - (IF late THEN 1 ELSE 0)
    <2>5. Deserved(Cited(ids)) =
            [tier |-> <<"DRAFT", "CORROBORATED", "FINAL">>[rungs],
             demoted |-> IF late THEN {"temporal"} ELSE {}]
      BY <2>3, <2>4 DEF Deserved, TimesOf
    <2> DEFINE tier == ClassifyConfidence(n, FALSE)
               demoted == far /\ tier \in DOMAIN TEMPORAL_DEMOTION
    <2>6. EvaluateClaim(ledger, ids, FALSE) =
            [tier |-> IF demoted THEN TEMPORAL_DEMOTION[tier] ELSE tier,
             demoted |-> IF demoted THEN {"temporal"} ELSE {}]
      BY <2>2 DEF EvaluateClaim
    <2> HIDE DEF n, far
    <2>7. CASE n = 1
      <3>1. /\ tier = "DRAFT" /\ ~demoted /\ ~late /\ rungs = 1
        BY <2>7 DEF ClassifyConfidence, TEMPORAL_DEMOTION
      <3> HIDE DEF tier, demoted, late, rungs
      <3> QED
        BY <2>5, <2>6, <3>1
    <2>8. CASE n = 2
      <3>1. /\ tier = "CORROBORATED" /\ late = far /\ demoted = far
            /\ TEMPORAL_DEMOTION[tier] = "DRAFT"
            /\ rungs = IF far THEN 1 ELSE 2
        BY <2>2, <2>8 DEF ClassifyConfidence, TEMPORAL_DEMOTION
      <3> HIDE DEF tier, demoted, late, rungs
      <3>2. CASE far
        BY <2>5, <2>6, <3>1, <3>2
      <3>3. CASE ~far
        BY <2>5, <2>6, <3>1, <3>3
      <3> QED
        BY <3>2, <3>3
    <2>9. CASE n >= 3
      <3>1. /\ tier = "FINAL" /\ late = far /\ demoted = far
            /\ TEMPORAL_DEMOTION[tier] = "CORROBORATED"
            /\ rungs = IF far THEN 2 ELSE 3
        BY <2>1, <2>2, <2>9 DEF ClassifyConfidence, TEMPORAL_DEMOTION
      <3> HIDE DEF tier, demoted, late, rungs
      <3>2. CASE far
        BY <2>5, <2>6, <3>1, <3>2
      <3>3. CASE ~far
        BY <2>5, <2>6, <3>1, <3>3
      <3> QED
        BY <3>2, <3>3
    <2>10. n = 1 \/ n = 2 \/ n >= 3
      BY <2>1
    <2> HIDE DEF tier, demoted, late, rungs
    <2> QED
      BY <2>7, <2>8, <2>9, <2>10
  <1> QED
    BY <1>1, PTL

=============================================================================
