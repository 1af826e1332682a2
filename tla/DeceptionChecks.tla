-------------------------- MODULE DeceptionChecks --------------------------
(***************************************************************************)
(* The three checks of src/sanctum/deception.py.  Times are integers in    *)
(* seconds.  A check returns the reason of its signal, or "none".          *)
(***************************************************************************)
EXTENDS Integers

CONSTANTS
    FlushWindow,      \* flush_window
    Significance,     \* amcache_significance_threshold
    Epoch,            \* epoch_threshold
    BackdateWindow    \* backdate_window

ASSUME WindowsAssumption ==
    /\ FlushWindow \in Nat /\ Significance \in Nat
    /\ Epoch \in Int /\ BackdateWindow \in Nat

ServiceStates == {"Running", "Stopped", "Disabled", "Unknown"}

Reasons == {"none", "AMBIGUOUS", "TAMPER_LIKELY"}

MutAppcompatFlush(rows, write, acquired) ==
    LET delta == acquired - write
        flushed == rows <= 0 /\ delta <= FlushWindow
    IN CASE ~flushed -> "none"
         [] flushed /\ delta <= 1 -> "AMBIGUOUS"
         [] OTHER -> "TAMPER_LIKELY"

(* check_appcompat_flush: an empty ShimCache, and a SYSTEM hive written    *)
(* within the window before the acquisition, but not right before it.      *)
AppcompatFlush(rows, write, acquired) ==
    LET delta == acquired - write
        flushed == rows <= 0 /\ delta <= FlushWindow /\ delta >= 0
    IN CASE ~flushed -> "none"
         [] flushed /\ delta <= 1 -> "AMBIGUOUS"
         [] OTHER -> "TAMPER_LIKELY"

(* check_sysmain_suppression: programs ran, but left no Prefetch file.     *)
SysmainSuppression(rows, files, state) ==
    LET suppressed == rows >= Significance /\ files <= 0 /\ state # "Running"
    IN CASE ~suppressed -> "none"
         [] suppressed /\ state = "Disabled" -> "TAMPER_LIKELY"
         [] OTHER -> "AMBIGUOUS"

(* check_mft_timestomp: $SI is before the epoch and $FN is not, or $SI is  *)
(* further before $FN than the window.                                     *)
MftTimestomp(si, fn) ==
    IF (si < Epoch /\ fn >= Epoch) \/ si < fn - BackdateWindow
    THEN "TAMPER_LIKELY"
    ELSE "none"

-----------------------------------------------------------------------------
Severity(reason) ==
    CASE reason = "none" -> 0 [] reason = "AMBIGUOUS" -> 1 [] OTHER -> 2

=============================================================================
