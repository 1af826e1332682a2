----------------------------- MODULE MCEvidence -----------------------------
(* A small instance of Evidence: rows with at most one defect each, texts  *)
(* of up to four symbols, and facts around every threshold.                *)
EXTENDS Evidence

Good == [kind |-> "run", path |-> "ok", time |-> "ok"]

MCValues ==
    {Good}
      \cup {[Good EXCEPT !.kind = k] :
              k \in {"corrupted", "unreadable", "housekeeping", "short",
                     "forbidden"}}
      \cup {[Good EXCEPT !.path = p] : p \in {"long", "delimiter", "missing"}}
      \cup {[Good EXCEPT !.time = t] : t \in {"overflow", "none"}}

MCTexts == UNION {[1..n -> Symbols] : n \in 0..4}

MCCounts == 0..2

MCInstants == 0..4

=============================================================================
