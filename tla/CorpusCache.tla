---------------------------- MODULE CorpusCache ----------------------------
(***************************************************************************)
(* The cached question corpus of the evaluation: the fetcher of            *)
(* src/scripts/fetch_dfir_metric.py, which puts a verified corpus and the  *)
(* record of its provenance into a directory, two files that are replaced  *)
(* one after the other.  A corpus is a revision, and so is its digest.     *)
(***************************************************************************)
CONSTANTS
    Revisions,   \* what the upstream file may contain
    None         \* no file, no digest

ASSUME NoneIsNoRevision == None \notin Revisions

VARIABLES
    body,        \* DFIR-Metric-CTF.json
    prov,        \* the digest in PROVENANCE.json
    temps,       \* which of the two temporary files exist
    fetch,       \* where fetch_upstream is
    want         \* the digest it was given

cacheVars == <<body, prov, temps, fetch, want>>

CacheTypeOK ==
    /\ body \in Revisions \cup {None}
    /\ prov \in Revisions \cup {None}
    /\ temps \subseteq {"body", "prov"}
    /\ fetch \in {"idle", "download", "verified", "body", "both", "replaced"}
    /\ want \in Revisions \cup {None}

CacheInit ==
    /\ body = None
    /\ prov = None
    /\ temps = {}
    /\ fetch = "idle"
    /\ want = None

StartFetch(sha) ==
    /\ fetch = "idle"
    /\ fetch' = "download"
    /\ want' = sha
    /\ UNCHANGED <<body, prov, temps>>

(* What was downloaded has the expected digest and is not too large.       *)
Downloaded ==
    /\ fetch = "download"
    /\ fetch' = "verified"
    /\ UNCHANGED <<body, prov, temps, want>>

WriteBodyTemp ==
    /\ fetch = "verified"
    /\ temps' = temps \cup {"body"}
    /\ fetch' = "body"
    /\ UNCHANGED <<body, prov, want>>

WriteProvTemp ==
    /\ fetch = "body"
    /\ temps' = temps \cup {"prov"}
    /\ fetch' = "both"
    /\ UNCHANGED <<body, prov, want>>

MutReplaceBody ==
    /\ fetch = "both"
    /\ prov' = want
    /\ temps' = temps \ {"prov"}
    /\ fetch' = "replaced"
    /\ UNCHANGED <<body, want>>

ReplaceBody ==
    /\ fetch = "both"
    /\ body' = want
    /\ temps' = temps \ {"body"}
    /\ fetch' = "replaced"
    /\ UNCHANGED <<prov, want>>

ReplaceProv ==
    /\ fetch = "replaced"
    /\ prov' = want
    /\ temps' = temps \ {"prov"}
    /\ fetch' = "idle"
    /\ UNCHANGED <<body, want>>

(* The network, a wrong digest, a full disk or a crash ends the fetch; the *)
(* files stay as they are.                                                 *)
FetchFails ==
    /\ fetch # "idle"
    /\ fetch' = "idle"
    /\ UNCHANGED <<body, prov, temps, want>>

FetchStep ==
    \/ Downloaded \/ WriteBodyTemp \/ WriteProvTemp \/ ReplaceBody

(* The fetch ends in success with the second replacement only: a record of *)
(* another corpus than the cached one, or none, leaves its temporary file  *)
(* behind to tell.                                                         *)
StaleProvenanceLeavesTemp == prov # body => "prov" \in temps

=============================================================================
