-------------------------- MODULE ArtifactParsers --------------------------
(***************************************************************************)
(* The six parsers of src/sanctum/parsers, each one call of parse_* on one *)
(* artifact, read row by row: the Amcache, the ShimCache, the BAM and the  *)
(* UserAssist keys of registry hives, a Prefetch file and an event log; in *)
(* fixture mode the sidecar file beside the artifact instead.              *)
(*                                                                         *)
(* What the artifact holds is chosen as it is read.  A row is abstracted   *)
(* to the defects the parsers tell apart: what kind of row it is, whether  *)
(* its path is usable and what its time converts to.  The keys of BAM (one *)
(* for each SID) and UserAssist (one for each GUID) are rows too.          *)
(***************************************************************************)
EXTENDS Naturals, Sequences, FiniteSets

CONSTANTS
    Values,    \* the values, subkeys, entries, slots or records to read
    MaxRows,   \* AMCACHE_MAX_ROWS, SYSMON_MAX_RECORDS
    MaxRead,   \* bound: rows of one artifact
    None

Parsers == {"get_amcache", "get_shimcache", "get_bam", "get_userassist",
            "get_prefetch", "get_sysmon_4688"}

(* Hives whose values lie one key further down.                            *)
Keyed == {"get_bam", "get_userassist"}

Capped == {"get_amcache", "get_sysmon_4688"}

(* "housekeeping": the path "None" of an empty ShimCache entry, Version of *)
(* BAM, a session counter of UserAssist, an event that is no process       *)
(* creation.  "short": data of the wrong length.  "forbidden": an XML that *)
(* declares entities.                                                      *)
Value == [kind : {"run", "corrupted", "unreadable", "housekeeping", "short",
                  "forbidden"},
          path : {"ok", "long", "delimiter", "missing"},
          time : {"ok", "overflow", "none"}]

Key == [kind : {"key"}, label : {"user", "orphan_oobe"},
        state : {"ok", "missing", "unreadable"}]

ASSUME ValuesAssumption == Values \subseteq Value
ASSUME BoundsAssumption == MaxRows \in Nat /\ MaxRead \in Nat
ASSUME NoneAssumption == None \notin {"dated", "1601"} /\ None \notin {1, 2}

VARIABLES
    tool,      \* the parser that is called
    fixture,   \* SANCTUM_USE_FIXTURE_SIDECAR is set
    declared,  \* the tool the sidecar names, None without fixture mode
    active,    \* the control set Select\Current names, None if unusable
    pc,        \* where the call is
    cs,        \* the control set that is read
    seen,      \* the rows read so far
    open,      \* the values that are read belong to an accepted key
    out,       \* the events built so far
    fault,     \* what could not be read
    result     \* the list returned or the exception raised

parserVars == <<tool, fixture, declared, active, pc, cs, seen, open, out,
                fault, result>>

Call == <<tool, fixture, declared, active>>

(* Where reading may fail: the control set that is current, the blob of    *)
(* the ShimCache, the values of one key, one row, the iterator of the      *)
(* rows, or the artifact as such.                                          *)
Failures == {"select", "blob", "key", "row", "stream", "artifact"}

ParserInit ==
    /\ tool \in Parsers
    /\ fixture \in BOOLEAN
    /\ declared \in IF fixture THEN Parsers ELSE {None}
    /\ active \in IF tool \in {"get_shimcache", "get_bam"} THEN {1, 2, None}
                                                           ELSE {None}
    /\ pc = "start"
    /\ cs = None
    /\ seen = <<>>
    /\ open = FALSE
    /\ out = <<>>
    /\ fault = {}
    /\ result = None

At(here, there) == pc = here /\ pc' = there /\ UNCHANGED result

Ends(here, kind, events) ==
    /\ pc = here
    /\ pc' = "done"
    /\ result' = [kind |-> kind, events |-> events]

(* The call ends with an exception because the artifact cannot be read.    *)
Fails(here, kind, events) ==
    Ends(here, kind, events) /\ fault' = fault \cup {"artifact"}

-----------------------------------------------------------------------------
(* Times.                                                                  *)

(* _wintime_to_aware_utc of the hive parsers: a FILETIME that overflows    *)
(* becomes 1601-01-01, the sentinel of the library.                        *)
HiveTime(time) ==
    CASE time = "ok" -> "dated"
      [] time = "overflow" -> "1601"
      [] OTHER -> None

(* The Prefetch parser drops the sentinel.                                 *)
PrefetchTime(time) ==
    IF HiveTime(time) = "1601" THEN None ELSE HiveTime(time)

(* _normalize_last_mod: the library has made an overflow None already.     *)
LastModTime(time) == IF time = "ok" THEN "dated" ELSE None

(* The ISO strings of event logs and sidecars.                             *)
IsoTime(time) == IF time = "ok" THEN "dated" ELSE None

-----------------------------------------------------------------------------
(* What a row becomes: the time of its event, or None if it is dropped.    *)

AmcacheRow(v) ==
    IF v.kind \notin {"unreadable", "corrupted"} /\ v.path = "ok"
    THEN HiveTime(v.time) ELSE None

ShimcacheRow(v) ==
    IF v.kind # "housekeeping" /\ v.path = "ok"
    THEN LastModTime(v.time) ELSE None

BamRow(v) ==
    IF v.kind \notin {"corrupted", "housekeeping", "short"} /\ v.path = "ok"
    THEN HiveTime(v.time) ELSE None

UserAssistRow(v) ==
    IF v.kind \notin {"corrupted", "housekeeping", "short"} /\ v.path = "ok"
    THEN HiveTime(v.time) ELSE None

(* A slot of lastRunTime; the path is that of the file.                    *)
PrefetchRow(v) == PrefetchTime(v.time)

SysmonRow(v) ==
    IF v.kind \notin {"unreadable", "housekeeping"} /\ v.path = "ok"
    THEN IsoTime(v.time) ELSE None

(* A row of a sidecar must name a path, a size and a time.                 *)
SidecarRow(v) ==
    IF v.kind = "run" /\ v.path = "ok" THEN IsoTime(v.time) ELSE None

(* The kinds of rows an artifact can have.                                 *)
Rows(kinds) == {v \in Values : v.kind \in kinds}

MutEvent(time) == [row |-> Len(seen), slot |-> Len(seen) + 1, time |-> time]

(* row_index counts the events and not the rows.                           *)
Event(time) == [row |-> Len(out), slot |-> Len(seen) + 1, time |-> time]

(* A row the library cannot read is passed over like any unusable one.     *)
Damage(v) == IF v.kind \in {"corrupted", "unreadable"} THEN {"row"} ELSE {}

MutKeep(v, time) ==
    /\ Len(seen) < MaxRead
    /\ seen' = Append(seen, v)
    /\ out' = Append(out, Event(time))
    /\ fault' = fault \cup Damage(v)
    /\ UNCHANGED <<Call, pc, cs, open, result>>

(* The next row is read and becomes an event or is dropped.                *)
Keep(v, time) ==
    /\ Len(seen) < MaxRead
    /\ seen' = Append(seen, v)
    /\ out' = IF time = None THEN out ELSE Append(out, Event(time))
    /\ fault' = fault \cup Damage(v)
    /\ UNCHANGED <<Call, pc, cs, open, result>>

-----------------------------------------------------------------------------
(* parse_*: the file, and fixture mode.                                    *)

NotAFile ==
    /\ Ends("start", "not_found", <<>>)
    /\ UNCHANGED <<Call, cs, seen, open, out, fault>>

Dispatch ==
    /\ At("start", IF fixture THEN "sidecar" ELSE "open")
    /\ UNCHANGED <<Call, cs, seen, open, out, fault>>

(* _validate_envelope: family and tool must both be the caller's.          *)
ValidEnvelope == declared = tool

(* No sidecar; one that cannot be read, which is no data fault; one that   *)
(* is too big or no JSON; one of another tool.                             *)
LoadSidecar ==
    /\ \/ Ends("sidecar", "not_implemented", <<>>) /\ UNCHANGED fault
       \/ Fails("sidecar", "raw", <<>>)
       \/ Fails("sidecar", "malformed", <<>>)
       \/ ValidEnvelope /\ At("sidecar", "sidecar_rows") /\ UNCHANGED fault
       \/ ~ValidEnvelope /\ Fails("sidecar", "malformed", <<>>)
    /\ UNCHANGED <<Call, cs, seen, open, out>>

ReadSidecar ==
    /\ pc = "sidecar_rows"
    /\ \E v \in Rows({"run"}) : SidecarRow(v) # None /\ Keep(v, SidecarRow(v))

(* One bad row refuses the whole sidecar.                                  *)
RefuseSidecar ==
    /\ Len(seen) < MaxRead
    /\ \E v \in Rows({"run"}) :
         /\ SidecarRow(v) = None
         /\ seen' = Append(seen, v)
    /\ Fails("sidecar_rows", "malformed", <<>>)
    /\ UNCHANGED <<Call, cs, open, out>>

SidecarEnds ==
    /\ Ends("sidecar_rows", "list", out)
    /\ UNCHANGED <<Call, cs, seen, open, out, fault>>

-----------------------------------------------------------------------------
(* _parse_*_real: open the artifact and find the rows in it.               *)

Opened(there) ==
    /\ At("open", there)
    /\ UNCHANGED <<Call, cs, seen, open, out, fault>>

Unopened(kinds) ==
    /\ \E kind \in kinds : Fails("open", kind, <<>>)
    /\ UNCHANGED <<Call, cs, seen, open, out>>

(* Only the Amcache parser knows the ConstError a hive that is too short   *)
(* raises; the other three hive parsers let it through.                    *)
OpenAmcache ==
    /\ tool = "get_amcache"
    /\ Opened("locate") \/ Unopened({"malformed"})

OpenShimcache ==
    /\ tool = "get_shimcache"
    /\ Opened("select") \/ Unopened({"malformed", "raw"})

OpenBam ==
    /\ tool = "get_bam"
    /\ Opened("select") \/ Unopened({"malformed", "raw"})

OpenUserAssist ==
    /\ tool = "get_userassist"
    /\ Opened("locate") \/ Unopened({"malformed", "raw"})

OpenPrefetch ==
    /\ tool = "get_prefetch"
    /\ Opened("locate") \/ Unopened({"malformed"})

OpenSysmon ==
    /\ tool = "get_sysmon_4688"
    /\ Opened("rows") \/ Unopened({"malformed"})

(* A Select key that is missing, unreadable or out of range means 1.       *)
ResolveActiveControlset ==
    /\ At("select", "locate")
    /\ cs' = IF active = None THEN 1 ELSE active
    /\ \/ fault' = fault
       \/ active = None /\ fault' = fault \cup {"select"}
    /\ UNCHANGED <<Call, seen, open, out>>

Located ==
    /\ At("locate", "rows")
    /\ UNCHANGED <<Call, cs, seen, open, out, fault>>

Absent ==
    /\ Ends("locate", "list", <<>>)
    /\ UNCHANGED <<Call, cs, seen, open, out, fault>>

Unlocated ==
    /\ Fails("locate", "malformed", <<>>)
    /\ UNCHANGED <<Call, cs, seen, open, out>>

(* A key that is missing is an empty answer, one that cannot be parsed is  *)
(* malformed.                                                              *)
LocateInventory == tool = "get_amcache" /\ (Located \/ Absent \/ Unlocated)

LocateUserSettings == tool = "get_bam" /\ (Located \/ Absent \/ Unlocated)

LocateUserAssist == tool = "get_userassist" /\ (Located \/ Absent \/ Unlocated)

(* The blob is flagged as corrupted, or listing the values has raised.     *)
Unreadable ==
    /\ Ends("locate", "list", <<>>)
    /\ fault' = fault \cup {"blob"}
    /\ UNCHANGED <<Call, cs, seen, open, out>>

(* A blob that is missing, too short or cannot be read is an empty answer  *)
(* too, a blob of an unknown format is malformed.                          *)
LoadShimcacheBlob ==
    /\ tool = "get_shimcache"
    /\ Located \/ Absent \/ Unreadable \/ Unlocated

(* No usable executable name, no slots or no usable slot.                  *)
LocateExecutable == tool = "get_prefetch" /\ (Located \/ Absent)

-----------------------------------------------------------------------------
(* The rows.                                                               *)

Reads(t) == pc = "rows" /\ tool = t

(* The caps count the rows that are read, not the events.                  *)
OverCap == tool \in Capped /\ Len(seen) >= MaxRows

ReadAmcache ==
    /\ Reads("get_amcache") /\ ~OverCap
    /\ \E v \in Rows({"run", "corrupted", "unreadable"}) :
         Keep(v, AmcacheRow(v))

ReadShimcache ==
    /\ Reads("get_shimcache")
    /\ \E v \in Rows({"run", "housekeeping"}) : Keep(v, ShimcacheRow(v))

(* _classify_sid: the values of an orphan SID are no evidence.             *)
Dropped(key) == key.label = "orphan_oobe"

(* A key whose values cannot be listed loses them all, without a sign.     *)
OpenKey(key, accepted) ==
    /\ Len(seen) < MaxRead
    /\ seen' = Append(seen, key)
    /\ open' = accepted
    /\ fault' = IF key.state = "unreadable" /\ ~Dropped(key)
                THEN fault \cup {"key"} ELSE fault
    /\ UNCHANGED <<Call, pc, cs, out, result>>

ReadSid ==
    /\ Reads("get_bam")
    /\ \E key \in {k \in Key : k.state # "missing"} :
         OpenKey(key, ~Dropped(key) /\ key.state = "ok")

ReadBam ==
    /\ Reads("get_bam") /\ open
    /\ \E v \in Rows({"run", "corrupted", "housekeeping", "short"}) :
         Keep(v, BamRow(v))

ReadGuid ==
    /\ Reads("get_userassist")
    /\ \E key \in {k \in Key : k.label = "user"} :
         OpenKey(key, key.state = "ok")

ReadUserAssist ==
    /\ Reads("get_userassist") /\ open
    /\ \E v \in Rows({"run", "corrupted", "housekeeping", "short"}) :
         Keep(v, UserAssistRow(v))

ReadPrefetch ==
    /\ Reads("get_prefetch")
    /\ \E v \in Rows({"run"}) : v.path = "ok" /\ Keep(v, PrefetchRow(v))

ReadSysmon ==
    /\ Reads("get_sysmon_4688") /\ ~OverCap
    /\ \E v \in Rows({"run", "housekeeping", "unreadable"}) :
         Keep(v, SysmonRow(v))

(* The exception for a forbidden XML is no ParseError: it does not drop    *)
(* the record but ends in the handler around the whole log.                *)
ReadForbidden ==
    /\ Reads("get_sysmon_4688") /\ ~OverCap
    /\ Len(seen) < MaxRead
    /\ \E v \in Rows({"forbidden"}) : seen' = Append(seen, v)
    /\ Fails("rows", "malformed", <<>>)
    /\ UNCHANGED <<Call, cs, open, out>>

ExceedCap ==
    /\ OverCap
    /\ Fails("rows", "malformed", <<>>)
    /\ UNCHANGED <<Call, cs, seen, open, out>>

(* The iterator of the keys raises, and nothing catches it.                *)
KeysBreak ==
    /\ tool \in Keyed \cup {"get_amcache"}
    /\ Fails("rows", "raw", <<>>)
    /\ UNCHANGED <<Call, cs, seen, open, out>>

MutStreamBreaks ==
    /\ tool \in {"get_shimcache", "get_sysmon_4688"}
    /\ Ends("rows", "list", out)
    /\ fault' = fault \cup {"stream"}
    /\ UNCHANGED <<Call, cs, seen, open, out>>

(* The iterator of the entries or records raises: PartialParseError.       *)
StreamBreaks ==
    /\ tool \in {"get_shimcache", "get_sysmon_4688"}
    /\ Ends("rows", "partial", out)
    /\ fault' = fault \cup {"stream"}
    /\ UNCHANGED <<Call, cs, seen, open, out>>

StreamEnds ==
    /\ Ends("rows", "list", out)
    /\ UNCHANGED <<Call, cs, seen, open, out, fault>>

ParserNext ==
    \/ NotAFile \/ Dispatch
    \/ LoadSidecar \/ ReadSidecar \/ RefuseSidecar \/ SidecarEnds
    \/ OpenAmcache \/ OpenShimcache \/ OpenBam \/ OpenUserAssist
    \/ OpenPrefetch \/ OpenSysmon
    \/ ResolveActiveControlset
    \/ LocateInventory \/ LoadShimcacheBlob \/ LocateUserSettings
    \/ LocateUserAssist \/ LocateExecutable
    \/ ReadAmcache \/ ReadShimcache \/ ReadSid \/ ReadBam \/ ReadGuid
    \/ ReadUserAssist \/ ReadPrefetch \/ ReadSysmon \/ ReadForbidden
    \/ ExceedCap \/ KeysBreak \/ StreamBreaks \/ StreamEnds

-----------------------------------------------------------------------------
(* Properties.                                                             *)

Events == [row : Nat, slot : Nat, time : {"dated", "1601"}]

Results == [kind : {"list", "partial", "malformed", "raw", "not_found",
                    "not_implemented"},
            events : Seq(Events)]

(* The variables keep their shape; in particular every event has a time.   *)
ParserTypeOK ==
    /\ tool \in Parsers
    /\ fixture \in BOOLEAN
    /\ declared \in Parsers \cup {None}
    /\ active \in {1, 2, None}
    /\ pc \in {"start", "sidecar", "sidecar_rows", "open", "select", "locate",
               "rows", "done"}
    /\ cs \in {1, 2, None}
    /\ seen \in Seq(Value \cup Key)
    /\ open \in BOOLEAN
    /\ out \in Seq(Events)
    /\ fault \subseteq Failures
    /\ result \in Results \cup {None}

(* The key whose values hold row i.                                        *)
KeyOf(i) ==
    {seen[k] : k \in {n \in 1..i :
        /\ seen[n].kind = "key"
        /\ \A m \in (n + 1)..i : seen[m].kind # "key"}}

(* Row i is a run with a path and a time, and not that of an orphan SID.   *)
Evident(i) ==
    /\ seen[i].kind = "run" /\ seen[i].path = "ok"
    /\ \/ seen[i].time = "ok"
       \/ /\ seen[i].time = "overflow" /\ ~fixture
          /\ tool \in Keyed \cup {"get_amcache"}
    /\ (tool \in Keyed /\ ~fixture) =>
         \A key \in KeyOf(i) : key.state = "ok" /\ key.label = "user"

(* The rows that are reported, whole or in part, are numbered without gaps *)
(* although rows are dropped in between, and they are exactly the usable   *)
(* rows that were read, in their order; they come from the active control  *)
(* set or from a sidecar of this very tool, and only a time of a hive is   *)
(* ever the sentinel of 1601.                                              *)
ParseFaithful ==
    (result # None /\ result.kind \in {"list", "partial"}) =>
      LET events == result.events IN
        /\ \A i \in 1..Len(events) :
             /\ events[i].row = i - 1
             /\ i > 1 => events[i - 1].slot < events[i].slot
             /\ events[i].time = "1601" =>
                  seen[events[i].slot].time = "overflow"
        /\ {events[i].slot : i \in 1..Len(events)} =
             {i \in 1..Len(seen) : Evident(i)}
        /\ active # None /\ ~fixture => cs = active
        /\ fixture => declared = tool

(* What a parser may fail to read and nevertheless answer with a list.     *)
Overlooked(failure) ==
    /\ ~fixture
    /\ \/ failure = "select" /\ tool \in {"get_shimcache", "get_bam"}
       \/ failure = "blob" /\ tool = "get_shimcache"
       \/ failure = "key" /\ tool \in Keyed
       \/ failure = "row" /\ tool \in Keyed \cup Capped

(* What could not be read shows in the answer, with four exceptions each   *)
(* parser makes on purpose: a control set that cannot be determined, a     *)
(* ShimCache blob that cannot be read, the values of one key, and one row. *)
(* Every other failure ends in an exception: a stream that breaks hands on *)
(* what was read as partial and never as a list, from the two parsers that *)
(* stream, and whatever else fails hands on nothing.  An unread blob gives *)
(* no event at all, the caps are kept, counted over all rows and not over  *)
(* the events, and a failure without one of the parsers' own types comes   *)
(* only from opening or listing a hive, or from reading a sidecar.         *)
NeverShort ==
    result # None =>
      /\ result.kind = "list" => \A failure \in fault : Overlooked(failure)
      /\ "blob" \in fault => result.kind = "list" /\ result.events = <<>>
      /\ (result.kind = "list" /\ tool \in Capped /\ ~fixture) =>
           Len(seen) <= MaxRows
      /\ result.kind \notin {"list", "partial"} => result.events = <<>>
      /\ result.kind = "partial" <=> "stream" \in fault
      /\ result.kind = "partial" =>
           tool \in {"get_shimcache", "get_sysmon_4688"}
      /\ result.kind \in {"malformed", "raw"} => "artifact" \in fault
      /\ result.kind = "raw" =>
           fixture \/ tool \notin {"get_prefetch", "get_sysmon_4688"}

=============================================================================
