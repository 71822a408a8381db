--------------------------- MODULE RebootTracker ---------------------------
(***************************************************************************)
(* RebootReasonTracker (reboot/mod.rs): one MAR entry per boot, with the   *)
(* reason why the previous boot ended.                                     *)
(*                                                                         *)
(* Reasons come from three places that survive a reboot: pstore, written   *)
(* by a panicking kernel; a custom file, written by memfaultctl reboot or  *)
(* by the customer's own software; and an internal file, written by the    *)
(* tracker when the daemon stops because the system does.  When the daemon *)
(* starts for the first time in a boot, the tracker reads and clears all   *)
(* three; the first one that has a reason wins.  The id of the boot is     *)
(* recorded before that, in a file that is truncated and then written.     *)
(*                                                                         *)
(* The daemon may die and the power may go between any two steps.  A       *)
(* reason is why the boot "of" ended, as far as its writer knew.           *)
(***************************************************************************)
EXTENDS Naturals, FiniteSets

CONSTANTS
  MaxBoots,    \* bound: boots of the system
  MaxFailures  \* bound: failing system calls, and crashes that tear the boot id file

ASSUME RebootAssumption == MaxBoots \in Nat \ {0} /\ MaxFailures \in Nat

Boot == 1..MaxBoots
NoBoot == 0
None == [why |-> "none", of |-> NoBoot]
Reason(why, of) == [why |-> why, of |-> of]
Whys == {"panic", "custom", "user", "unknown"}

VARIABLES
  \* The system.
  boot,       \* the current boot
  system,     \* what the service manager says: "running" or "stopping"
  \* Files.
  bootId,     \* last_tracked_boot_id: a boot, or NoBoot if missing or torn
  pstore, custom, internal,
  \* The daemon.
  pc, enable, \* enable_data_collection is read when the daemon starts
  last,       \* the boot id that was in the file
  found,      \* the reason found so far
  cleared,    \* whether all sources read so far could be cleared
  \* What an observer has seen.
  count,      \* number of entries written in each boot
  reported,   \* the entries: [boot, why, of]
  panicked,   \* boots that ended with a kernel panic
  completed,  \* boots in which all sources were read and cleared
  spoiled,    \* boots whose tracking was cut short, disabled, or could not be saved
  failures, torn

systemVars == <<boot, system>>
fileVars   == <<bootId, pstore, custom, internal>>
daemonVars == <<pc, enable, last, found, cleared>>
seenVars   == <<count, reported, panicked, completed, spoiled>>
faultVars  == <<failures, torn>>
vars == <<systemVars, fileVars, daemonVars, seenVars, faultVars>>

Init ==
  /\ boot = 1 /\ system = "running"
  /\ bootId = NoBoot /\ pstore = None /\ custom = None /\ internal = None
  /\ pc = "down" /\ enable = FALSE /\ last = NoBoot /\ found = None /\ cleared = TRUE
  /\ count = [b \in Boot |-> 0] /\ reported = {} /\ panicked = {} /\ completed = {}
  /\ spoiled = {}
  /\ failures = 0 /\ torn = 0

MayFail == failures + torn < MaxFailures
Fails == MayFail /\ failures' = failures + 1

-----------------------------------------------------------------------------
(* track_reboot.                                                           *)

StartDaemon ==
  /\ pc = "down" /\ system = "running" /\ pc' = "start"
  /\ enable' \in BOOLEAN
  /\ found' = None /\ cleared' = TRUE /\ last' = NoBoot
  /\ UNCHANGED <<systemVars, fileVars, seenVars, faultVars>>

\* check_boot_id_is_tracked reads the file and opens it for writing, which empties it.
ReadBootId ==
  /\ pc = "start" /\ pc' = "record"
  /\ last' = bootId
  /\ bootId' = NoBoot
  /\ UNCHANGED <<systemVars, pstore, custom, internal, enable, found, cleared, seenVars,
                 faultVars>>

\* Mutant: a missing boot id counts as tracked.
TrackedIfMissing == last \in {boot, NoBoot}

Tracked == last = boot

\* Mutant: the boot id is not written.
NeverRecorded == bootId' = bootId /\ UNCHANGED torn

\* The id is written; an error is logged and leaves the file as it was, or empty.
Recorded ==
  \/ bootId' = boot /\ UNCHANGED torn
  \/ MayFail /\ bootId' \in {last, NoBoot} /\ torn' = torn + 1

\* With data collection disabled the boot counts as tracked in any case.
RecordBootId ==
  /\ pc = "record"
  /\ Recorded
  /\ pc' = IF ~enable THEN "discard" ELSE IF Tracked THEN "running" ELSE "pstore"
  /\ spoiled' = IF enable THEN spoiled ELSE spoiled \cup {boot}
  /\ UNCHANGED <<systemVars, pstore, custom, internal, enable, last, found, cleared,
                 count, reported, panicked, completed, failures>>

\* Data collection is disabled: process_pstore_files, and the other sources are kept.
DiscardPstore ==
  /\ pc = "discard" /\ pc' = "running"
  /\ \/ pstore' = None /\ UNCHANGED failures
     \/ pstore # None /\ Fails /\ UNCHANGED pstore
  /\ UNCHANGED <<systemVars, bootId, custom, internal, enable, last, found, cleared,
                 seenVars, torn>>

\* resolve_reboot_reason: a reason from a later source is discarded.
FirstReason(new) == IF found = None THEN new ELSE found

\* A source is cleared when it is read; that may fail, and is only logged.
ReadAndClear(source, after) ==
  /\ found' = FirstReason(source)
  /\ \/ after = None /\ UNCHANGED <<cleared, failures>>
     \/ source # None /\ after = source /\ cleared' = FALSE /\ Fails

ReadPstore ==
  /\ pc = "pstore" /\ pc' = "custom"
  /\ pstore' \in {pstore, None} /\ ReadAndClear(pstore, pstore')
  /\ UNCHANGED <<systemVars, bootId, custom, internal, enable, last, seenVars, torn>>

ReadCustom ==
  /\ pc = "custom" /\ pc' = "internal"
  /\ custom' \in {custom, None} /\ ReadAndClear(custom, custom')
  /\ UNCHANGED <<systemVars, bootId, pstore, internal, enable, last, seenVars, torn>>

\* Mutant: the loop ends at the first source that has a reason.
ReadInternalIfNeeded ==
  /\ pc = "internal" /\ pc' = "save"
  /\ IF found # None
       THEN UNCHANGED <<internal, cleared, found, failures>>
       ELSE internal' \in {internal, None} /\ ReadAndClear(internal, internal')
  /\ completed' = IF cleared' THEN completed \cup {boot} ELSE completed
  /\ UNCHANGED <<systemVars, bootId, pstore, custom, enable, last, count, reported,
                 panicked, spoiled, torn>>

ReadInternal ==
  /\ pc = "internal" /\ pc' = "save"
  /\ internal' \in {internal, None} /\ ReadAndClear(internal, internal')
  /\ completed' = IF cleared' THEN completed \cup {boot} ELSE completed
  /\ UNCHANGED <<systemVars, bootId, pstore, custom, enable, last, count, reported,
                 panicked, spoiled, torn>>

\* The entry is built and saved, or an error ends track_reboot.
Save ==
  LET r == IF found = None THEN Reason("unknown", boot - 1) ELSE found IN
  /\ pc = "save" /\ pc' = "running"
  /\ \/ /\ count' = [count EXCEPT ![boot] = @ + 1]
        /\ reported' = reported \cup {[boot |-> boot, why |-> r.why, of |-> r.of]}
        /\ UNCHANGED <<spoiled, failures>>
     \/ Fails /\ spoiled' = spoiled \cup {boot} /\ UNCHANGED <<count, reported>>
  /\ UNCHANGED <<systemVars, fileVars, enable, last, found, cleared, panicked, completed,
                 torn>>

-----------------------------------------------------------------------------
(* The end of the daemon, and Drop for RebootReasonTracker.                *)

\* The file is created, which empties it, then written and synced.  Nothing is written
\* if the service manager is not stopping, or cannot be asked.
StopDaemon ==
  /\ pc = "running"
  /\ \/ system = "stopping" /\ internal' = Reason("unknown", boot) /\ pc' = "dropping"
     \/ pc' = "down" /\ UNCHANGED internal
  /\ UNCHANGED <<systemVars, bootId, pstore, custom, enable, last, found, cleared,
                 seenVars, faultVars>>

WriteUserReset ==
  /\ pc = "dropping" /\ pc' = "down"
  /\ internal' = Reason("user", boot)
  /\ UNCHANGED <<systemVars, bootId, pstore, custom, enable, last, found, cleared,
                 seenVars, faultVars>>

Tracking == {"pstore", "custom", "internal", "save"}

\* The process is gone, perhaps with the boot id file emptied and not written.
Gone ==
  /\ spoiled' = IF pc \in Tracking THEN spoiled \cup {boot} ELSE spoiled
  /\ pc' = "down"
  /\ UNCHANGED <<enable, last, found, cleared, count, reported, completed>>

DaemonDies ==
  /\ pc # "down" /\ Gone
  /\ IF pc = "record" THEN MayFail /\ torn' = torn + 1 ELSE UNCHANGED torn
  /\ UNCHANGED <<systemVars, fileVars, panicked, failures>>

-----------------------------------------------------------------------------
(* The system.                                                             *)

\* write_reboot_reason_and_reboot: the reason is written, then reboot is called, which
\* may fail.  The customer's software may write the file at any time, too.
WriteCustomReason ==
  /\ custom' = Reason("custom", boot)
  /\ UNCHANGED <<systemVars, bootId, pstore, internal, daemonVars, seenVars, faultVars>>

SystemStops ==
  /\ system = "running" /\ system' = "stopping"
  /\ UNCHANGED <<boot, fileVars, daemonVars, seenVars, faultVars>>

NewBoot ==
  /\ boot < MaxBoots
  /\ boot' = boot + 1 /\ system' = "running"
  /\ Gone
  /\ UNCHANGED <<bootId, internal, faultVars>>

\* The service manager kills what does not stop, and reboots.
Reboot ==
  /\ system = "stopping" /\ NewBoot
  /\ UNCHANGED <<pstore, custom, panicked>>

\* The custom file is not synced: without power its end may be missing.
PowerCut ==
  /\ NewBoot
  /\ custom' \in {custom} \cup
       (IF custom.of = boot THEN {None, Reason("unknown", boot)} ELSE {})
  /\ UNCHANGED <<pstore, panicked>>

KernelPanic ==
  /\ NewBoot
  /\ pstore' = Reason("panic", boot) /\ panicked' = panicked \cup {boot}
  /\ UNCHANGED custom

-----------------------------------------------------------------------------
Next ==
  \/ StartDaemon \/ ReadBootId \/ RecordBootId \/ DiscardPstore
  \/ ReadPstore \/ ReadCustom \/ ReadInternal \/ Save
  \/ StopDaemon \/ WriteUserReset \/ DaemonDies
  \/ WriteCustomReason \/ SystemStops \/ Reboot \/ PowerCut \/ KernelPanic

Spec == Init /\ [][Next]_vars

-----------------------------------------------------------------------------
(* Properties.                                                             *)

Reasons == [why : Whys, of : Boot \cup {NoBoot}] \cup {None}

\* Every variable of the reboot tracker keeps its type.
TypeOK ==
  /\ boot \in Boot /\ system \in {"running", "stopping"}
  /\ bootId \in Boot \cup {NoBoot} /\ last \in Boot \cup {NoBoot}
  /\ pstore \in Reasons /\ custom \in Reasons /\ internal \in Reasons
  /\ found \in Reasons
  /\ pc \in {"down", "start", "record", "discard", "running", "dropping"} \cup Tracking
  /\ enable \in BOOLEAN /\ cleared \in BOOLEAN
  /\ count \in [Boot -> Nat]
  /\ reported \subseteq [boot : Boot, why : Whys, of : Boot \cup {NoBoot}]
  /\ panicked \subseteq Boot /\ completed \subseteq Boot /\ spoiled \subseteq Boot
  /\ failures \in Nat /\ torn \in Nat /\ failures + torn <= MaxFailures

\* However often the daemon is restarted, a boot is reported once, and once more for
\* every time the record of the boot id was lost to an error or a crash.
OncePerBoot == \A b \in Boot : count[b] <= 1 + torn

\* A reason is reported for the boot that follows the one it ended.  It is only reported
\* later if no boot in between has read and cleared all sources, and only earlier if it
\* is a custom one, written before the tracker of its own boot had read it.
ReasonBelongs ==
  \A r \in reported :
    /\ \A b \in Boot : r.of < b /\ b < r.boot => b \notin completed
    /\ r.of >= r.boot => r.of = r.boot /\ r.why = "custom"

\* A kernel panic is never reported as anything else, also if it happened while the
\* system was shutting down on request and other reasons had already been written.
PanicIsReported ==
  torn = 0 => \A r \in reported : r.boot - 1 \in panicked => r.why = "panic"

\* "It will write the reboot reason to the MAR file if it has not been tracked yet":
\* once the daemon runs, the boot is reported, unless data collection was disabled, or
\* the tracking was cut short after the boot id was recorded, or could not be saved.
RebootIsReported ==
  pc = "running" /\ boot \notin spoiled => count[boot] > 0

\* A reason is reported for the boot it ended, and a panic hides behind no other reason.
ReasonIsRight == ReasonBelongs /\ PanicIsReported
=============================================================================
