------------------------------ MODULE Evidence ------------------------------
(***************************************************************************)
(* What happens to evidence before it votes: an artifact is parsed, a text *)
(* is sanitised on its way to the payload file or to the model, and facts  *)
(* of a case are checked for signs of tampering.  The three are functions  *)
(* of their input and share no state: a behaviour is one of these jobs.    *)
(***************************************************************************)
EXTENDS ArtifactParsers, Sanitizer, DeceptionChecks

CONSTANTS
    Texts,        \* the texts to sanitise
    MaxPayload,   \* MAX_PAYLOAD_BYTES
    MaxInput,     \* MAX_INPUT_BYTES
    Counts,       \* numbers of rows and files
    Instants      \* points of time

Facts == [shimcache : Counts, amcache : Counts, prefetch : Counts,
          service : ServiceStates, write : Instants, acquired : Instants,
          si : Instants, fn : Instants]

ASSUME TextsAssumption == Texts \subseteq Seq(Symbols)
ASSUME SizesAssumption == MaxPayload \in Nat /\ MaxInput \in Nat
ASSUME FactsAssumption == Counts \subseteq Nat /\ Instants \subseteq Int

VARIABLES
    text,     \* the text that is sanitised
    limit,    \* the max_bytes of the call
    clean,    \* what sanitize returned or raised
    facts,    \* the facts that are checked
    verdict   \* the signals of the three checks

restVars == <<text, limit, clean, facts, verdict>>

vars == <<parserVars, restVars>>

Idle ==
    /\ tool = None /\ fixture = FALSE /\ declared = None /\ active = None
    /\ pc = "idle" /\ cs = None /\ seen = <<>> /\ open = FALSE
    /\ out = <<>> /\ fault = {} /\ result = None

NoText == text = None /\ limit = MaxPayload

NoFacts == facts = None

(* The payload file gets MAX_INPUT_BYTES, the summary the default.         *)
Init ==
    /\ clean = None /\ verdict = None
    /\ \/ ParserInit /\ NoText /\ NoFacts
       \/ Idle /\ text \in Texts /\ limit \in {MaxPayload, MaxInput} /\ NoFacts
       \/ Idle /\ NoText /\ facts \in Facts

SanitizeText ==
    /\ text # None /\ clean = None
    /\ clean' = Sanitize(text, limit, MaxInput)
    /\ UNCHANGED <<parserVars, text, limit, facts, verdict>>

CheckFacts ==
    /\ facts # None /\ verdict = None
    /\ verdict' =
         [flush |-> AppcompatFlush(facts.shimcache, facts.write,
                                   facts.acquired),
          suppression |-> SysmainSuppression(facts.amcache, facts.prefetch,
                                             facts.service),
          timestomp |-> MftTimestomp(facts.si, facts.fn)]
    /\ UNCHANGED <<parserVars, text, limit, clean, facts>>

Next ==
    \/ ParserNext /\ UNCHANGED restVars
    \/ SanitizeText
    \/ CheckFacts

Spec == Init /\ [][Next]_vars

-----------------------------------------------------------------------------
(* Properties.                                                             *)

(* The variables keep their shape.                                         *)
TypeOK ==
    /\ pc = "idle" \/ ParserTypeOK
    /\ text \in Texts \cup {None}
    /\ limit \in {MaxPayload, MaxInput}
    /\ clean = None \/ clean.payload \in Seq(Symbols \cup {"[", "]", "T"})
    /\ facts \in Facts \cup {None}
    /\ verdict \in [flush : Reasons, suppression : Reasons,
                    timestomp : Reasons] \cup {None}

(* What sanitize returns holds no invisible codepoint and no injection     *)
(* pattern, even where an invisible hid it or the cut fell into it; it is  *)
(* over the limit by no more than the note; a text that is innocent and    *)
(* fits is not changed; and what is not truncated stays as it is when it   *)
(* is sanitised again.                                                     *)
SanitizedClean ==
    (clean # None /\ clean.kind = "sanitized") =>
      /\ Innocent(clean.payload)
      /\ Bytes(clean.payload) <= limit + Bytes(Note)
      /\ (Innocent(text) /\ Bytes(text) <= limit) => clean.payload = text
      /\ ~clean.truncated /\ Bytes(clean.payload) <= MaxInput =>
           Sanitize(clean.payload, limit, MaxInput).payload = clean.payload

(* The checks are monotone in the evidence: more ShimCache rows or more    *)
(* Prefetch files never accuse, more Amcache rows never acquit, a hive     *)
(* written earlier within the window is never the milder sign, and a $SI   *)
(* that is earlier or a $FN that is later never acquits.  A hive written   *)
(* after the acquisition and a $SI that is not before its $FN accuse       *)
(* nobody.                                                                 *)
SuspicionMonotone ==
    verdict # None =>
      /\ \A n \in Counts :
           /\ Severity(AppcompatFlush(facts.shimcache + n, facts.write,
                                      facts.acquired))
                <= Severity(verdict.flush)
           /\ Severity(SysmainSuppression(facts.amcache, facts.prefetch + n,
                                          facts.service))
                <= Severity(verdict.suppression)
           /\ Severity(SysmainSuppression(facts.amcache + n, facts.prefetch,
                                          facts.service))
                >= Severity(verdict.suppression)
      /\ \A t \in Instants :
           /\ (t <= facts.write /\ facts.acquired - t <= FlushWindow) =>
                Severity(AppcompatFlush(facts.shimcache, t, facts.acquired))
                  >= Severity(verdict.flush)
           /\ t <= facts.si =>
                Severity(MftTimestomp(t, facts.fn))
                  >= Severity(verdict.timestomp)
           /\ t >= facts.fn =>
                Severity(MftTimestomp(facts.si, t))
                  >= Severity(verdict.timestomp)
      /\ facts.write > facts.acquired => verdict.flush = "none"
      /\ facts.si >= facts.fn => verdict.timestomp = "none"

=============================================================================
