------------------------ MODULE RebootTrackerProofs ------------------------
(***************************************************************************)
(* Proofs about RebootTracker, for any number of boots and of failures.    *)
(*                                                                         *)
(* The invariant says what the files mean between two boots.  The record   *)
(* of the boot id decides whether this boot may still be reported, so the  *)
(* number of entries is tied to it (Budget, Covered); a source that holds  *)
(* a reason tells how old the reason can be (SourcesAreRecent); and a      *)
(* panic stays at the head of the line until it is reported (PanicWaits).  *)
(***************************************************************************)
EXTENDS RebootTracker, TLAPS

\* The boot id is known to be recorded, or to be in the hands of the tracker: if this
\* holds, the next start of the daemon does not track the boot again.
Known == IF pc = "record" THEN last = boot ELSE bootId = boot

\* Nothing of what was seen is about a boot that is still to come.
PastOnly ==
  /\ bootId <= boot /\ (pc = "record" => last <= boot)
  /\ \A b \in Boot : b > boot => count[b] = 0
  /\ \A r \in reported : r.boot <= boot
  /\ \A b \in panicked : b < boot
  /\ \A b \in completed : b <= boot
  /\ \A b \in spoiled : b <= boot

\* The entries that may still be written in this boot have been paid for by the errors
\* and crashes that lost the record of it.
Budget ==
  /\ pc \in Tracking => count[boot] <= torn
  /\ ~Known => count[boot] + (IF pc \in Tracking THEN 1 ELSE 0) <= torn

\* A boot that counts as tracked was reported, is about to be, or was spoiled.
Covered ==
  /\ Known \/ pc \in {"running", "dropping"}
       => count[boot] > 0 \/ boot \in spoiled \/ pc \in Tracking
  /\ pc = "discard" => boot \in spoiled
  /\ pc = "record" => bootId = NoBoot

\* No boot since s was written has read and cleared all sources, save one that is not
\* before "end".
Recent(s, end) ==
  s # None => /\ s.of <= boot
              /\ \A b \in completed : s.of < b => b >= end

\* What each source can hold, and which sources are known to be empty.
SourcesAreRecent ==
  /\ Recent(pstore, boot + 1) /\ Recent(custom, boot + 1) /\ Recent(internal, boot + 1)
  /\ pstore # None => pstore.why = "panic" /\ pstore.of < boot
  /\ custom # None /\ custom.of = boot => custom.why = "custom"
  /\ internal # None /\ internal.of = boot
       => system = "stopping" /\ pc \in {"dropping", "down"}
  /\ pc = "dropping" => system = "stopping"
  /\ pc \in {"custom", "internal", "save"} /\ cleared => pstore = None
  /\ pc \in {"internal", "save"} /\ cleared => custom = None \/ custom.of = boot

\* The reason found so far is as recent as the source it came from.
FoundIsRecent ==
  pc \in {"pstore", "custom", "internal", "save"} =>
    /\ Recent(found, boot)
    /\ found # None /\ found.of = boot => found.why = "custom"

\* As long as the record of the boot id is never lost, a panic that ended the boot
\* before waits in pstore until the tracker reads it, before all other sources.
PanicWaits ==
  torn = 0 =>
    /\ pc \in Tracking \cup {"discard", "running", "dropping"} => bootId = boot
    /\ boot - 1 \in panicked =>
         /\ ~Known \/ pc = "pstore" => pstore.why = "panic"
         /\ pc \in {"custom", "internal", "save"} => found.why = "panic"

\* Before the sources are read, nothing has been found.
NothingFoundYet ==
  pc \in {"start", "record", "pstore"} => found = None

TrackerInv ==
  /\ TypeOK /\ PastOnly /\ Budget /\ OncePerBoot /\ Covered
  /\ SourcesAreRecent /\ FoundIsRecent /\ NothingFoundYet
  /\ ReasonBelongs /\ PanicWaits /\ PanicIsReported

USE DEF systemVars, fileVars, daemonVars, seenVars, faultVars

-----------------------------------------------------------------------------
\* What can be in a source, and in the entry that is made of it.
LEMMA ReasonsAreReasons ==
  /\ None \in Reasons
  /\ \A why \in Whys, of \in Boot \cup {NoBoot} : Reason(why, of) \in Reasons
  /\ \A r \in Reasons : r # None => r.why \in Whys /\ r.of \in Boot \cup {NoBoot}
  /\ "panic" \in Whys /\ "custom" \in Whys /\ "user" \in Whys /\ "unknown" \in Whys
  BY DEF Reasons, None, Reason, Whys

\* The fields of a reason.
LEMMA ReasonFields ==
  /\ \A why, of : Reason(why, of).why = why /\ Reason(why, of).of = of
  /\ None.why # "panic"
  BY DEF Reason, None

\* No step leaves the types.
LEMMA TypeStep ==
  ASSUME TypeOK, [Next]_vars
  PROVE  TypeOK'
<1>1. CASE StartDaemon
  BY <1>1, RebootAssumption, ReasonsAreReasons DEF StartDaemon, TypeOK, Boot, NoBoot, Tracking
<1>2. CASE ReadBootId
  BY <1>2, RebootAssumption, ReasonsAreReasons DEF ReadBootId, TypeOK, Boot, NoBoot, Tracking
<1>3. CASE RecordBootId
  <2>1. bootId' \in Boot \cup {NoBoot} /\ torn' \in Nat /\ failures + torn' <= MaxFailures
    BY <1>3, RebootAssumption DEF RecordBootId, Recorded, MayFail, TypeOK
  <2>2. spoiled' \subseteq Boot
    BY <1>3 DEF RecordBootId, TypeOK
  <2> QED BY <1>3, <2>1, <2>2 DEF RecordBootId, TypeOK, Tracking
<1>4. CASE DiscardPstore
  BY <1>4, RebootAssumption, ReasonsAreReasons DEF DiscardPstore, Fails, MayFail, TypeOK,
     Boot, NoBoot, Tracking
<1>5. CASE ReadPstore
  <2> USE DEF ReadPstore, ReadAndClear
  <2>1. found' \in Reasons /\ pstore' \in Reasons
    BY <1>5, ReasonsAreReasons DEF FirstReason, TypeOK
  <2>2. failures' \in Nat /\ torn' = torn /\ failures' + torn <= MaxFailures
    BY <1>5, RebootAssumption DEF Fails, MayFail, TypeOK
  <2>3. cleared' \in BOOLEAN
    BY <1>5 DEF TypeOK
  <2> QED BY <1>5, <2>1, <2>2, <2>3 DEF TypeOK, Tracking
<1>6. CASE ReadCustom
  <2> USE DEF ReadCustom, ReadAndClear
  <2>1. found' \in Reasons /\ custom' \in Reasons
    BY <1>6, ReasonsAreReasons DEF FirstReason, TypeOK
  <2>2. failures' \in Nat /\ torn' = torn /\ failures' + torn <= MaxFailures
    BY <1>6, RebootAssumption DEF Fails, MayFail, TypeOK
  <2>3. cleared' \in BOOLEAN
    BY <1>6 DEF TypeOK
  <2> QED BY <1>6, <2>1, <2>2, <2>3 DEF TypeOK, Tracking
<1>7. CASE ReadInternal
  <2> USE DEF ReadInternal, ReadAndClear
  <2>1. found' \in Reasons /\ internal' \in Reasons
    BY <1>7, ReasonsAreReasons DEF FirstReason, TypeOK
  <2>2. failures' \in Nat /\ torn' = torn /\ failures' + torn <= MaxFailures
    BY <1>7, RebootAssumption DEF Fails, MayFail, TypeOK
  <2>3. cleared' \in BOOLEAN
    BY <1>7 DEF TypeOK
  <2>4. completed' \subseteq Boot
    BY <1>7 DEF TypeOK
  <2> QED BY <1>7, <2>1, <2>2, <2>3, <2>4 DEF TypeOK, Tracking
<1>8. CASE Save
  <2> DEFINE r == IF found = None THEN Reason("unknown", boot - 1) ELSE found
  <2>1. r.why \in Whys /\ r.of \in Boot \cup {NoBoot}
    <3>1. CASE found = None
      BY <3>1, ReasonFields, ReasonsAreReasons, RebootAssumption DEF TypeOK, Boot, NoBoot
    <3>2. CASE found # None
      BY <3>2, ReasonsAreReasons DEF TypeOK
    <3> QED BY <3>1, <3>2
  <2> HIDE DEF r
  <2>2. reported' \subseteq reported \cup {[boot |-> boot, why |-> r.why, of |-> r.of]}
    BY <1>8 DEF Save, r
  <2>3. reported' \subseteq [boot : Boot, why : Whys, of : Boot \cup {NoBoot}]
    BY <2>1, <2>2 DEF TypeOK
  <2>4. count' \in [Boot -> Nat]
    BY <1>8 DEF Save, TypeOK
  <2>5. spoiled' \subseteq Boot
    BY <1>8 DEF Save, TypeOK
  <2>6. failures' \in Nat /\ failures' + torn <= MaxFailures
    BY <1>8, RebootAssumption DEF Save, Fails, MayFail, TypeOK
  <2> QED BY <1>8, <2>3, <2>4, <2>5, <2>6 DEF Save, TypeOK, Tracking
<1>9. CASE StopDaemon
  BY <1>9, RebootAssumption, ReasonsAreReasons DEF StopDaemon, TypeOK, Boot, NoBoot, Tracking
<1>10. CASE WriteUserReset
  BY <1>10, RebootAssumption, ReasonsAreReasons DEF WriteUserReset, TypeOK, Boot, NoBoot, Tracking
<1>11. CASE DaemonDies
  <2>1. spoiled' \subseteq Boot
    BY <1>11 DEF DaemonDies, Gone, TypeOK
  <2>2. torn' \in Nat /\ failures + torn' <= MaxFailures
    BY <1>11, RebootAssumption DEF DaemonDies, MayFail, TypeOK
  <2> QED BY <1>11, <2>1, <2>2 DEF DaemonDies, Gone, TypeOK
<1>12. CASE WriteCustomReason
  BY <1>12, RebootAssumption, ReasonsAreReasons DEF WriteCustomReason, TypeOK, Boot, NoBoot,
     Tracking
<1>13. CASE SystemStops
  BY <1>13, RebootAssumption, ReasonsAreReasons DEF SystemStops, TypeOK, Boot, NoBoot, Tracking
<1>14. CASE Reboot
  BY <1>14, RebootAssumption, ReasonsAreReasons DEF Reboot, NewBoot, Gone, TypeOK, Boot,
     NoBoot, Tracking
<1>15. CASE PowerCut
  BY <1>15, RebootAssumption, ReasonsAreReasons DEF PowerCut, NewBoot, Gone, TypeOK, Boot,
     NoBoot, Tracking
<1>16. CASE KernelPanic
  BY <1>16, RebootAssumption, ReasonsAreReasons DEF KernelPanic, NewBoot, Gone, TypeOK, Boot,
     NoBoot, Tracking
<1>17. CASE UNCHANGED vars
  BY <1>17 DEF vars, TypeOK, Boot, NoBoot, Tracking
<1> QED BY <1>1, <1>2, <1>3, <1>4, <1>5, <1>6, <1>7, <1>8, <1>9, <1>10, <1>11, <1>12, <1>13,
           <1>14, <1>15, <1>16, <1>17 DEF Next

\* Boots only ever become past.
LEMMA PastStep ==
  ASSUME TypeOK, PastOnly, [Next]_vars
  PROVE  PastOnly'
<1>1. CASE StartDaemon
  BY <1>1, RebootAssumption DEF StartDaemon, PastOnly, TypeOK, Boot, NoBoot, Tracking
<1>2. CASE ReadBootId
  BY <1>2, RebootAssumption DEF ReadBootId, PastOnly, TypeOK, Boot, NoBoot, Tracking
<1>3. CASE RecordBootId
  BY <1>3, RebootAssumption DEF RecordBootId, Recorded, Tracked, MayFail, PastOnly, TypeOK,
     Boot, NoBoot, Tracking
<1>4. CASE DiscardPstore
  BY <1>4, RebootAssumption DEF DiscardPstore, Fails, MayFail, PastOnly, TypeOK, Boot, NoBoot,
     Tracking
<1>5. CASE ReadPstore
  BY <1>5, RebootAssumption DEF ReadPstore, ReadAndClear, FirstReason, Fails, MayFail,
     PastOnly, TypeOK, Boot, NoBoot, Tracking
<1>6. CASE ReadCustom
  BY <1>6, RebootAssumption DEF ReadCustom, ReadAndClear, FirstReason, Fails, MayFail,
     PastOnly, TypeOK, Boot, NoBoot, Tracking
<1>7. CASE ReadInternal
  BY <1>7, RebootAssumption DEF ReadInternal, ReadAndClear, FirstReason, Fails, MayFail,
     PastOnly, TypeOK, Boot, NoBoot, Tracking
<1>8. CASE Save
  <2>1. \A b \in Boot : b > boot => count'[b] = 0
    <3>1. boot \in Nat
      BY DEF TypeOK, Boot
    <3>2. \A b \in Boot : b # boot => count'[b] = count[b]
      BY <1>8 DEF Save, TypeOK
    <3> QED BY <3>1, <3>2 DEF PastOnly, Boot
  <2>2. \A r \in reported' : r.boot <= boot
    BY <1>8 DEF Save, PastOnly, TypeOK, Boot
  <2>3. \A b \in spoiled' : b <= boot
    <3>1. spoiled' = spoiled \/ spoiled' = spoiled \cup {boot}
      BY <1>8 DEF Save
    <3>2. boot \in Nat
      BY DEF TypeOK, Boot
    <3> QED BY <3>1, <3>2 DEF PastOnly
  <2> QED BY <1>8, <2>1, <2>2, <2>3 DEF Save, PastOnly
<1>9. CASE StopDaemon
  BY <1>9, RebootAssumption DEF StopDaemon, PastOnly, TypeOK, Boot, NoBoot, Tracking
<1>10. CASE WriteUserReset
  BY <1>10, RebootAssumption DEF WriteUserReset, PastOnly, TypeOK, Boot, NoBoot, Tracking
<1>11. CASE DaemonDies
  BY <1>11, RebootAssumption DEF DaemonDies, Gone, MayFail, PastOnly, TypeOK, Boot, NoBoot,
     Tracking
<1>12. CASE WriteCustomReason
  BY <1>12, RebootAssumption DEF WriteCustomReason, PastOnly, TypeOK, Boot, NoBoot, Tracking
<1>13. CASE SystemStops
  BY <1>13, RebootAssumption DEF SystemStops, PastOnly, TypeOK, Boot, NoBoot, Tracking
<1>14. CASE Reboot
  BY <1>14, RebootAssumption DEF Reboot, NewBoot, Gone, PastOnly, TypeOK, Boot, NoBoot, Tracking
<1>15. CASE PowerCut
  BY <1>15, RebootAssumption DEF PowerCut, NewBoot, Gone, PastOnly, TypeOK, Boot, NoBoot, Tracking
<1>16. CASE KernelPanic
  BY <1>16, RebootAssumption DEF KernelPanic, NewBoot, Gone, PastOnly, TypeOK, Boot, NoBoot,
     Tracking
<1>17. CASE UNCHANGED vars
  BY <1>17 DEF vars, PastOnly, TypeOK, Boot, NoBoot, Tracking
<1> QED BY <1>1, <1>2, <1>3, <1>4, <1>5, <1>6, <1>7, <1>8, <1>9, <1>10, <1>11, <1>12, <1>13,
           <1>14, <1>15, <1>16, <1>17 DEF Next

\* The entries of a boot stay within what the lost records allow.
LEMMA BudgetStep ==
  ASSUME TypeOK, PastOnly, Budget, OncePerBoot, [Next]_vars
  PROVE  Budget' /\ OncePerBoot'
<1>1. CASE StartDaemon
  BY <1>1, RebootAssumption DEF StartDaemon, Budget, Known, OncePerBoot, PastOnly, TypeOK,
     Boot, NoBoot, Tracking
<1>2. CASE ReadBootId
  BY <1>2, RebootAssumption DEF ReadBootId, Budget, Known, OncePerBoot, PastOnly, TypeOK,
     Boot, NoBoot, Tracking
<1>3. CASE RecordBootId
  BY <1>3, RebootAssumption DEF RecordBootId, Recorded, Tracked, MayFail, Budget, Known,
     OncePerBoot, PastOnly, TypeOK, Boot, NoBoot, Tracking
<1>4. CASE DiscardPstore
  BY <1>4, RebootAssumption DEF DiscardPstore, Fails, MayFail, Budget, Known, OncePerBoot,
     PastOnly, TypeOK, Boot, NoBoot, Tracking
<1>5. CASE ReadPstore
  BY <1>5, RebootAssumption DEF ReadPstore, ReadAndClear, FirstReason, Fails, MayFail, Budget,
     Known, OncePerBoot, PastOnly, TypeOK, Boot, NoBoot, Tracking
<1>6. CASE ReadCustom
  BY <1>6, RebootAssumption DEF ReadCustom, ReadAndClear, FirstReason, Fails, MayFail, Budget,
     Known, OncePerBoot, PastOnly, TypeOK, Boot, NoBoot, Tracking
<1>7. CASE ReadInternal
  BY <1>7, RebootAssumption DEF ReadInternal, ReadAndClear, FirstReason, Fails, MayFail,
     Budget, Known, OncePerBoot, PastOnly, TypeOK, Boot, NoBoot, Tracking
<1>8. CASE Save
  <2>1. count[boot] <= torn /\ (bootId # boot => count[boot] + 1 <= torn)
    BY <1>8 DEF Save, Budget, Known, Tracking
  <2>2. \A b \in Boot : b # boot => count'[b] = count[b]
    BY <1>8 DEF Save, TypeOK
  <2>3. count'[boot] \in {count[boot], count[boot] + 1}
    BY <1>8 DEF Save, TypeOK
  <2>4. /\ boot \in Boot /\ torn \in Nat /\ count \in [Boot -> Nat]
        /\ boot' = boot /\ bootId' = bootId /\ torn' = torn /\ pc' = "running"
    BY <1>8 DEF Save, TypeOK
  <2>5. OncePerBoot'
    BY <2>1, <2>2, <2>3, <2>4 DEF OncePerBoot
  <2>6. Budget'
    BY <2>1, <2>3, <2>4 DEF Budget, Known, Tracking
  <2> QED BY <2>5, <2>6
<1>9. CASE StopDaemon
  BY <1>9, RebootAssumption DEF StopDaemon, Budget, Known, OncePerBoot, PastOnly, TypeOK,
     Boot, NoBoot, Tracking
<1>10. CASE WriteUserReset
  BY <1>10, RebootAssumption DEF WriteUserReset, Budget, Known, OncePerBoot, PastOnly, TypeOK,
     Boot, NoBoot, Tracking
<1>11. CASE DaemonDies
  BY <1>11, RebootAssumption DEF DaemonDies, Gone, MayFail, Budget, Known, OncePerBoot,
     PastOnly, TypeOK, Boot, NoBoot, Tracking
<1>12. CASE WriteCustomReason
  BY <1>12, RebootAssumption DEF WriteCustomReason, Budget, Known, OncePerBoot, PastOnly,
     TypeOK, Boot, NoBoot, Tracking
<1>13. CASE SystemStops
  BY <1>13, RebootAssumption DEF SystemStops, Budget, Known, OncePerBoot, PastOnly, TypeOK,
     Boot, NoBoot, Tracking
<1>14. CASE Reboot
  BY <1>14, RebootAssumption DEF Reboot, NewBoot, Gone, Budget, Known, OncePerBoot, PastOnly,
     TypeOK, Boot, NoBoot, Tracking
<1>15. CASE PowerCut
  BY <1>15, RebootAssumption DEF PowerCut, NewBoot, Gone, Budget, Known, OncePerBoot,
     PastOnly, TypeOK, Boot, NoBoot, Tracking
<1>16. CASE KernelPanic
  BY <1>16, RebootAssumption DEF KernelPanic, NewBoot, Gone, Budget, Known, OncePerBoot,
     PastOnly, TypeOK, Boot, NoBoot, Tracking
<1>17. CASE UNCHANGED vars
  BY <1>17 DEF vars, Budget, Known, OncePerBoot, PastOnly, TypeOK, Boot, NoBoot, Tracking
<1> QED BY <1>1, <1>2, <1>3, <1>4, <1>5, <1>6, <1>7, <1>8, <1>9, <1>10, <1>11, <1>12, <1>13,
           <1>14, <1>15, <1>16, <1>17 DEF Next

\* A boot that counts as tracked stays covered.
LEMMA CoveredStep ==
  ASSUME TypeOK, PastOnly, Covered, [Next]_vars
  PROVE  Covered'
<1>1. CASE StartDaemon
  BY <1>1, RebootAssumption DEF StartDaemon, Covered, Known, PastOnly, TypeOK, Boot, NoBoot,
     Tracking
<1>2. CASE ReadBootId
  BY <1>2, RebootAssumption DEF ReadBootId, Covered, Known, PastOnly, TypeOK, Boot, NoBoot,
     Tracking
<1>3. CASE RecordBootId
  BY <1>3, RebootAssumption DEF RecordBootId, Recorded, Tracked, MayFail, Covered, Known,
     PastOnly, TypeOK, Boot, NoBoot, Tracking
<1>4. CASE DiscardPstore
  BY <1>4, RebootAssumption DEF DiscardPstore, Fails, MayFail, Covered, Known, PastOnly,
     TypeOK, Boot, NoBoot, Tracking
<1>5. CASE ReadPstore
  BY <1>5, RebootAssumption DEF ReadPstore, ReadAndClear, FirstReason, Fails, MayFail,
     Covered, Known, PastOnly, TypeOK, Boot, NoBoot, Tracking
<1>6. CASE ReadCustom
  BY <1>6, RebootAssumption DEF ReadCustom, ReadAndClear, FirstReason, Fails, MayFail,
     Covered, Known, PastOnly, TypeOK, Boot, NoBoot, Tracking
<1>7. CASE ReadInternal
  BY <1>7, RebootAssumption DEF ReadInternal, ReadAndClear, FirstReason, Fails, MayFail,
     Covered, Known, PastOnly, TypeOK, Boot, NoBoot, Tracking
<1>8. CASE Save
  BY <1>8, RebootAssumption DEF Save, Fails, MayFail, Covered, Known, PastOnly, TypeOK, Boot,
     NoBoot, Tracking
<1>9. CASE StopDaemon
  BY <1>9, RebootAssumption DEF StopDaemon, Covered, Known, PastOnly, TypeOK, Boot, NoBoot,
     Tracking
<1>10. CASE WriteUserReset
  BY <1>10, RebootAssumption DEF WriteUserReset, Covered, Known, PastOnly, TypeOK, Boot,
     NoBoot, Tracking
<1>11. CASE DaemonDies
  <2>1. pc' = "down" /\ boot' = boot /\ bootId' = bootId /\ count' = count
    BY <1>11 DEF DaemonDies, Gone
  <2>2. spoiled \subseteq spoiled' /\ (pc \in Tracking => boot \in spoiled')
    BY <1>11 DEF DaemonDies, Gone
  <2>3. CASE pc = "record"
    BY <1>11, <2>1, <2>2, <2>3 DEF Covered, Known, Tracking, TypeOK, Boot, NoBoot
  <2>4. CASE pc # "record"
    BY <2>1, <2>2, <2>4 DEF Covered, Known, Tracking
  <2> QED BY <2>3, <2>4
<1>12. CASE WriteCustomReason
  BY <1>12, RebootAssumption DEF WriteCustomReason, Covered, Known, PastOnly, TypeOK, Boot,
     NoBoot, Tracking
<1>13. CASE SystemStops
  BY <1>13, RebootAssumption DEF SystemStops, Covered, Known, PastOnly, TypeOK, Boot, NoBoot,
     Tracking
<1>14. CASE Reboot
  BY <1>14, RebootAssumption DEF Reboot, NewBoot, Gone, Covered, Known, PastOnly, TypeOK,
     Boot, NoBoot, Tracking
<1>15. CASE PowerCut
  BY <1>15, RebootAssumption DEF PowerCut, NewBoot, Gone, Covered, Known, PastOnly, TypeOK,
     Boot, NoBoot, Tracking
<1>16. CASE KernelPanic
  BY <1>16, RebootAssumption DEF KernelPanic, NewBoot, Gone, Covered, Known, PastOnly, TypeOK,
     Boot, NoBoot, Tracking
<1>17. CASE UNCHANGED vars
  BY <1>17 DEF vars, Covered, Known, PastOnly, TypeOK, Boot, NoBoot, Tracking
<1> QED BY <1>1, <1>2, <1>3, <1>4, <1>5, <1>6, <1>7, <1>8, <1>9, <1>10, <1>11, <1>12, <1>13,
           <1>14, <1>15, <1>16, <1>17 DEF Next

\* The sources stay as recent as they were, and are older than the boot that cleared them.
LEMMA SourcesStep ==
  ASSUME TypeOK, PastOnly, SourcesAreRecent, [Next]_vars
  PROVE  SourcesAreRecent'
<1>1. CASE StartDaemon
  BY <1>1, RebootAssumption, ReasonFields DEF StartDaemon, SourcesAreRecent, Recent, PastOnly,
     TypeOK, Boot, NoBoot, Tracking
<1>2. CASE ReadBootId
  BY <1>2, RebootAssumption, ReasonFields DEF ReadBootId, SourcesAreRecent, Recent, PastOnly,
     TypeOK, Boot, NoBoot, Tracking
<1>3. CASE RecordBootId
  BY <1>3, RebootAssumption, ReasonFields DEF RecordBootId, Recorded, Tracked, MayFail,
     SourcesAreRecent, Recent, PastOnly, TypeOK, Boot, NoBoot, Tracking
<1>4. CASE DiscardPstore
  BY <1>4, RebootAssumption, ReasonFields DEF DiscardPstore, Fails, MayFail, SourcesAreRecent,
     Recent, PastOnly, TypeOK, Boot, NoBoot, Tracking
<1>5. CASE ReadPstore
  BY <1>5, RebootAssumption, ReasonFields DEF ReadPstore, ReadAndClear, FirstReason, Fails,
     MayFail, SourcesAreRecent, Recent, PastOnly, TypeOK, Boot, NoBoot, Tracking
<1>6. CASE ReadCustom
  BY <1>6, RebootAssumption, ReasonFields DEF ReadCustom, ReadAndClear, FirstReason, Fails,
     MayFail, SourcesAreRecent, Recent, PastOnly, TypeOK, Boot, NoBoot, Tracking
<1>7. CASE ReadInternal
  BY <1>7, RebootAssumption, ReasonFields DEF ReadInternal, ReadAndClear, FirstReason, Fails,
     MayFail, SourcesAreRecent, Recent, PastOnly, TypeOK, Boot, NoBoot, Tracking
<1>8. CASE Save
  BY <1>8, RebootAssumption, ReasonFields DEF Save, Fails, MayFail, SourcesAreRecent, Recent,
     PastOnly, TypeOK, Boot, NoBoot, Tracking
<1>9. CASE StopDaemon
  BY <1>9, RebootAssumption, ReasonFields DEF StopDaemon, SourcesAreRecent, Recent, PastOnly,
     TypeOK, Boot, NoBoot, Tracking
<1>10. CASE WriteUserReset
  BY <1>10, RebootAssumption, ReasonFields DEF WriteUserReset, SourcesAreRecent, Recent,
     PastOnly, TypeOK, Boot, NoBoot, Tracking
<1>11. CASE DaemonDies
  BY <1>11, RebootAssumption, ReasonFields DEF DaemonDies, Gone, MayFail, SourcesAreRecent,
     Recent, PastOnly, TypeOK, Boot, NoBoot, Tracking
<1>12. CASE WriteCustomReason
  BY <1>12, RebootAssumption, ReasonFields DEF WriteCustomReason, SourcesAreRecent, Recent,
     PastOnly, TypeOK, Boot, NoBoot, Tracking
<1>13. CASE SystemStops
  BY <1>13, RebootAssumption, ReasonFields DEF SystemStops, SourcesAreRecent, Recent,
     PastOnly, TypeOK, Boot, NoBoot, Tracking
<1>14. CASE Reboot
  <2>1. /\ boot \in Nat /\ boot' = boot + 1 /\ pc' = "down" /\ completed' = completed
        /\ internal' = internal /\ pstore' = pstore /\ custom' = custom
    BY <1>14 DEF Reboot, NewBoot, Gone, TypeOK, Boot
  <2>2. \A s \in Reasons : s # None => s.of \in Nat
    BY ReasonsAreReasons DEF Boot, NoBoot
  <2>3. \A b \in completed : b \in Nat /\ b <= boot
    BY DEF PastOnly, TypeOK, Boot
  <2>4. \A s \in Reasons : Recent(s, boot + 1) => Recent(s, boot + 1)' /\ (s # None => s.of < boot')
    BY <2>1, <2>2, <2>3 DEF Recent
  <2> QED BY <2>1, <2>2, <2>4, ReasonsAreReasons DEF SourcesAreRecent, Recent, TypeOK
<1>15. CASE PowerCut
  <2>1. /\ boot \in Nat /\ boot' = boot + 1 /\ pc' = "down" /\ completed' = completed
        /\ internal' = internal /\ pstore' = pstore
    BY <1>15 DEF PowerCut, NewBoot, Gone, TypeOK, Boot
  <2>2. \A s \in Reasons : s # None => s.of \in Nat
    BY ReasonsAreReasons DEF Boot, NoBoot
  <2>3. \A b \in completed : b \in Nat /\ b <= boot
    BY DEF PastOnly, TypeOK, Boot
  <2>4. \A s \in Reasons : Recent(s, boot + 1) => Recent(s, boot + 1)' /\ (s # None => s.of < boot')
    BY <2>1, <2>2, <2>3 DEF Recent
  <2>5. \/ custom' = custom \/ custom' = None
        \/ custom' = Reason("unknown", boot)
    BY <1>15 DEF PowerCut
  <2>6. Recent(Reason("unknown", boot), boot + 1)'
    BY <2>1, <2>3, ReasonFields DEF Recent
  <2>7. (Recent(custom, boot + 1) /\ (custom # None => custom.of < boot))'
    BY <2>1, <2>3, <2>4, <2>5, ReasonFields DEF Recent, SourcesAreRecent, TypeOK
  <2> QED BY <2>1, <2>2, <2>4, <2>7, ReasonsAreReasons DEF SourcesAreRecent, Recent, TypeOK
<1>16. CASE KernelPanic
  <2>1. /\ boot \in Nat /\ boot' = boot + 1 /\ pc' = "down" /\ completed' = completed
        /\ internal' = internal /\ custom' = custom /\ pstore' = Reason("panic", boot)
    BY <1>16 DEF KernelPanic, NewBoot, Gone, TypeOK, Boot
  <2>2. \A s \in Reasons : s # None => s.of \in Nat
    BY ReasonsAreReasons DEF Boot, NoBoot
  <2>3. \A b \in completed : b \in Nat /\ b <= boot
    BY DEF PastOnly, TypeOK, Boot
  <2>4. \A s \in Reasons : Recent(s, boot + 1) => Recent(s, boot + 1)' /\ (s # None => s.of < boot')
    BY <2>1, <2>2, <2>3 DEF Recent
  <2>5. Recent(Reason("panic", boot), boot + 1)'
    BY <2>1, <2>3, ReasonFields DEF Recent
  <2> QED BY <2>1, <2>2, <2>4, <2>5, ReasonFields, ReasonsAreReasons DEF SourcesAreRecent,
             Recent, TypeOK
<1>17. CASE UNCHANGED vars
  BY <1>17 DEF vars, SourcesAreRecent, Recent, PastOnly, TypeOK, Boot, NoBoot, Tracking
<1> QED BY <1>1, <1>2, <1>3, <1>4, <1>5, <1>6, <1>7, <1>8, <1>9, <1>10, <1>11, <1>12, <1>13,
           <1>14, <1>15, <1>16, <1>17 DEF Next

\* The tracker finds nothing before it reads the sources.
LEMMA NothingFoundStep ==
  ASSUME NothingFoundYet, [Next]_vars
  PROVE  NothingFoundYet'
<1>1. CASE StartDaemon
  BY <1>1, RebootAssumption DEF StartDaemon, NothingFoundYet, Tracking
<1>2. CASE ReadBootId
  BY <1>2, RebootAssumption DEF ReadBootId, NothingFoundYet, Tracking
<1>3. CASE RecordBootId
  BY <1>3, RebootAssumption DEF RecordBootId, Recorded, Tracked, MayFail, NothingFoundYet,
     Tracking
<1>4. CASE DiscardPstore
  BY <1>4, RebootAssumption DEF DiscardPstore, Fails, MayFail, NothingFoundYet, Tracking
<1>5. CASE ReadPstore
  BY <1>5, RebootAssumption DEF ReadPstore, ReadAndClear, FirstReason, Fails, MayFail,
     NothingFoundYet, Tracking
<1>6. CASE ReadCustom
  BY <1>6, RebootAssumption DEF ReadCustom, ReadAndClear, FirstReason, Fails, MayFail,
     NothingFoundYet, Tracking
<1>7. CASE ReadInternal
  BY <1>7, RebootAssumption DEF ReadInternal, ReadAndClear, FirstReason, Fails, MayFail,
     NothingFoundYet, Tracking
<1>8. CASE Save
  BY <1>8, RebootAssumption DEF Save, Fails, MayFail, NothingFoundYet, Tracking
<1>9. CASE StopDaemon
  BY <1>9, RebootAssumption DEF StopDaemon, NothingFoundYet, Tracking
<1>10. CASE WriteUserReset
  BY <1>10, RebootAssumption DEF WriteUserReset, NothingFoundYet, Tracking
<1>11. CASE DaemonDies
  BY <1>11, RebootAssumption DEF DaemonDies, Gone, MayFail, NothingFoundYet, Tracking
<1>12. CASE WriteCustomReason
  BY <1>12, RebootAssumption DEF WriteCustomReason, NothingFoundYet, Tracking
<1>13. CASE SystemStops
  BY <1>13, RebootAssumption DEF SystemStops, NothingFoundYet, Tracking
<1>14. CASE Reboot
  BY <1>14, RebootAssumption DEF Reboot, NewBoot, Gone, NothingFoundYet, Tracking
<1>15. CASE PowerCut
  BY <1>15, RebootAssumption DEF PowerCut, NewBoot, Gone, NothingFoundYet, Tracking
<1>16. CASE KernelPanic
  BY <1>16, RebootAssumption DEF KernelPanic, NewBoot, Gone, NothingFoundYet, Tracking
<1>17. CASE UNCHANGED vars
  BY <1>17 DEF vars, NothingFoundYet, Tracking
<1> QED BY <1>1, <1>2, <1>3, <1>4, <1>5, <1>6, <1>7, <1>8, <1>9, <1>10, <1>11, <1>12, <1>13,
           <1>14, <1>15, <1>16, <1>17 DEF Next

\* What the tracker finds is as recent as the sources.
LEMMA FoundStep ==
  ASSUME TypeOK, PastOnly, SourcesAreRecent, NothingFoundYet, FoundIsRecent, [Next]_vars
  PROVE  FoundIsRecent'
<1>1. CASE StartDaemon
  BY <1>1, RebootAssumption, ReasonFields DEF StartDaemon, FoundIsRecent, NothingFoundYet,
     SourcesAreRecent, Recent, PastOnly, TypeOK, Boot, NoBoot, Tracking
<1>2. CASE ReadBootId
  BY <1>2, RebootAssumption, ReasonFields DEF ReadBootId, FoundIsRecent, NothingFoundYet,
     SourcesAreRecent, Recent, PastOnly, TypeOK, Boot, NoBoot, Tracking
<1>3. CASE RecordBootId
  BY <1>3, RebootAssumption, ReasonFields DEF RecordBootId, Recorded, Tracked, MayFail,
     FoundIsRecent, NothingFoundYet, SourcesAreRecent, Recent, PastOnly, TypeOK, Boot, NoBoot,
     Tracking
<1>4. CASE DiscardPstore
  BY <1>4, RebootAssumption, ReasonFields DEF DiscardPstore, Fails, MayFail, FoundIsRecent,
     NothingFoundYet, SourcesAreRecent, Recent, PastOnly, TypeOK, Boot, NoBoot, Tracking
<1>5. CASE ReadPstore
  BY <1>5, RebootAssumption, ReasonFields DEF ReadPstore, ReadAndClear, FirstReason, Fails,
     MayFail, FoundIsRecent, NothingFoundYet, SourcesAreRecent, Recent, PastOnly, TypeOK,
     Boot, NoBoot, Tracking
<1>6. CASE ReadCustom
  BY <1>6, RebootAssumption, ReasonFields DEF ReadCustom, ReadAndClear, FirstReason, Fails,
     MayFail, FoundIsRecent, NothingFoundYet, SourcesAreRecent, Recent, PastOnly, TypeOK,
     Boot, NoBoot, Tracking
<1>7. CASE ReadInternal
  BY <1>7, RebootAssumption, ReasonFields DEF ReadInternal, ReadAndClear, FirstReason, Fails,
     MayFail, FoundIsRecent, NothingFoundYet, SourcesAreRecent, Recent, PastOnly, TypeOK,
     Boot, NoBoot, Tracking
<1>8. CASE Save
  BY <1>8, RebootAssumption, ReasonFields DEF Save, Fails, MayFail, FoundIsRecent,
     NothingFoundYet, SourcesAreRecent, Recent, PastOnly, TypeOK, Boot, NoBoot, Tracking
<1>9. CASE StopDaemon
  BY <1>9, RebootAssumption, ReasonFields DEF StopDaemon, FoundIsRecent, NothingFoundYet,
     SourcesAreRecent, Recent, PastOnly, TypeOK, Boot, NoBoot, Tracking
<1>10. CASE WriteUserReset
  BY <1>10, RebootAssumption, ReasonFields DEF WriteUserReset, FoundIsRecent, NothingFoundYet,
     SourcesAreRecent, Recent, PastOnly, TypeOK, Boot, NoBoot, Tracking
<1>11. CASE DaemonDies
  BY <1>11, RebootAssumption, ReasonFields DEF DaemonDies, Gone, MayFail, FoundIsRecent,
     NothingFoundYet, SourcesAreRecent, Recent, PastOnly, TypeOK, Boot, NoBoot, Tracking
<1>12. CASE WriteCustomReason
  BY <1>12, RebootAssumption, ReasonFields DEF WriteCustomReason, FoundIsRecent,
     NothingFoundYet, SourcesAreRecent, Recent, PastOnly, TypeOK, Boot, NoBoot, Tracking
<1>13. CASE SystemStops
  BY <1>13, RebootAssumption, ReasonFields DEF SystemStops, FoundIsRecent, NothingFoundYet,
     SourcesAreRecent, Recent, PastOnly, TypeOK, Boot, NoBoot, Tracking
<1>14. CASE Reboot
  BY <1>14, RebootAssumption, ReasonFields DEF Reboot, NewBoot, Gone, FoundIsRecent,
     NothingFoundYet, SourcesAreRecent, Recent, PastOnly, TypeOK, Boot, NoBoot, Tracking
<1>15. CASE PowerCut
  BY <1>15, RebootAssumption, ReasonFields DEF PowerCut, NewBoot, Gone, FoundIsRecent,
     NothingFoundYet, SourcesAreRecent, Recent, PastOnly, TypeOK, Boot, NoBoot, Tracking
<1>16. CASE KernelPanic
  BY <1>16, RebootAssumption, ReasonFields DEF KernelPanic, NewBoot, Gone, FoundIsRecent,
     NothingFoundYet, SourcesAreRecent, Recent, PastOnly, TypeOK, Boot, NoBoot, Tracking
<1>17. CASE UNCHANGED vars
  BY <1>17 DEF vars, FoundIsRecent, NothingFoundYet, SourcesAreRecent, Recent, PastOnly,
     TypeOK, Boot, NoBoot, Tracking
<1> QED BY <1>1, <1>2, <1>3, <1>4, <1>5, <1>6, <1>7, <1>8, <1>9, <1>10, <1>11, <1>12, <1>13,
           <1>14, <1>15, <1>16, <1>17 DEF Next

\* Only recent reasons are reported, and the past does not change.
LEMMA BelongsStep ==
  ASSUME TypeOK, PastOnly, FoundIsRecent, ReasonBelongs, [Next]_vars
  PROVE  ReasonBelongs'
<1>1. CASE StartDaemon
  BY <1>1, RebootAssumption, ReasonFields DEF StartDaemon, ReasonBelongs, FoundIsRecent,
     Recent, PastOnly, TypeOK, Boot, NoBoot, Tracking
<1>2. CASE ReadBootId
  BY <1>2, RebootAssumption, ReasonFields DEF ReadBootId, ReasonBelongs, FoundIsRecent,
     Recent, PastOnly, TypeOK, Boot, NoBoot, Tracking
<1>3. CASE RecordBootId
  BY <1>3, RebootAssumption, ReasonFields DEF RecordBootId, Recorded, Tracked, MayFail,
     ReasonBelongs, FoundIsRecent, Recent, PastOnly, TypeOK, Boot, NoBoot, Tracking
<1>4. CASE DiscardPstore
  BY <1>4, RebootAssumption, ReasonFields DEF DiscardPstore, Fails, MayFail, ReasonBelongs,
     FoundIsRecent, Recent, PastOnly, TypeOK, Boot, NoBoot, Tracking
<1>5. CASE ReadPstore
  BY <1>5, RebootAssumption, ReasonFields DEF ReadPstore, ReadAndClear, FirstReason, Fails,
     MayFail, ReasonBelongs, FoundIsRecent, Recent, PastOnly, TypeOK, Boot, NoBoot, Tracking
<1>6. CASE ReadCustom
  BY <1>6, RebootAssumption, ReasonFields DEF ReadCustom, ReadAndClear, FirstReason, Fails,
     MayFail, ReasonBelongs, FoundIsRecent, Recent, PastOnly, TypeOK, Boot, NoBoot, Tracking
<1>7. CASE ReadInternal
  BY <1>7, RebootAssumption, ReasonFields DEF ReadInternal, ReadAndClear, FirstReason, Fails,
     MayFail, ReasonBelongs, FoundIsRecent, Recent, PastOnly, TypeOK, Boot, NoBoot, Tracking
<1>8. CASE Save
  <2> DEFINE r == IF found = None THEN Reason("unknown", boot - 1) ELSE found
  <2> DEFINE new == [boot |-> boot, why |-> r.why, of |-> r.of]
  <2>1. /\ r.of \in Nat /\ boot \in Nat
        /\ \A b \in completed : b \in Nat /\ r.of < b => b >= boot
        /\ r.of >= boot => r.of = boot /\ r.why = "custom"
    <3>1. CASE found = None
      BY <3>1, ReasonFields DEF TypeOK, Boot
    <3>2. CASE found # None
      BY <1>8, <3>2, ReasonsAreReasons DEF Save, FoundIsRecent, Recent, TypeOK, Boot, NoBoot
    <3> QED BY <3>1, <3>2
  <2>2. completed' = completed /\ reported' \subseteq reported \cup {new}
    BY <1>8 DEF Save
  <2>3. new.boot = boot /\ new.of = r.of /\ new.why = r.why
    OBVIOUS
  <2> HIDE DEF r, new
  <2> QED BY <2>1, <2>2, <2>3 DEF ReasonBelongs, Boot
<1>9. CASE StopDaemon
  BY <1>9, RebootAssumption, ReasonFields DEF StopDaemon, ReasonBelongs, FoundIsRecent,
     Recent, PastOnly, TypeOK, Boot, NoBoot, Tracking
<1>10. CASE WriteUserReset
  BY <1>10, RebootAssumption, ReasonFields DEF WriteUserReset, ReasonBelongs, FoundIsRecent,
     Recent, PastOnly, TypeOK, Boot, NoBoot, Tracking
<1>11. CASE DaemonDies
  BY <1>11, RebootAssumption, ReasonFields DEF DaemonDies, Gone, MayFail, ReasonBelongs,
     FoundIsRecent, Recent, PastOnly, TypeOK, Boot, NoBoot, Tracking
<1>12. CASE WriteCustomReason
  BY <1>12, RebootAssumption, ReasonFields DEF WriteCustomReason, ReasonBelongs,
     FoundIsRecent, Recent, PastOnly, TypeOK, Boot, NoBoot, Tracking
<1>13. CASE SystemStops
  BY <1>13, RebootAssumption, ReasonFields DEF SystemStops, ReasonBelongs, FoundIsRecent,
     Recent, PastOnly, TypeOK, Boot, NoBoot, Tracking
<1>14. CASE Reboot
  BY <1>14, RebootAssumption, ReasonFields DEF Reboot, NewBoot, Gone, ReasonBelongs,
     FoundIsRecent, Recent, PastOnly, TypeOK, Boot, NoBoot, Tracking
<1>15. CASE PowerCut
  BY <1>15, RebootAssumption, ReasonFields DEF PowerCut, NewBoot, Gone, ReasonBelongs,
     FoundIsRecent, Recent, PastOnly, TypeOK, Boot, NoBoot, Tracking
<1>16. CASE KernelPanic
  BY <1>16, RebootAssumption, ReasonFields DEF KernelPanic, NewBoot, Gone, ReasonBelongs,
     FoundIsRecent, Recent, PastOnly, TypeOK, Boot, NoBoot, Tracking
<1>17. CASE UNCHANGED vars
  BY <1>17 DEF vars, ReasonBelongs, FoundIsRecent, Recent, PastOnly, TypeOK, Boot, NoBoot,
     Tracking
<1> QED BY <1>1, <1>2, <1>3, <1>4, <1>5, <1>6, <1>7, <1>8, <1>9, <1>10, <1>11, <1>12, <1>13,
           <1>14, <1>15, <1>16, <1>17 DEF Next

\* A panic keeps its place.
LEMMA PanicWaitsStep ==
  ASSUME TypeOK, PastOnly, SourcesAreRecent, NothingFoundYet, PanicWaits, [Next]_vars
  PROVE  PanicWaits'
<1>1. CASE StartDaemon
  BY <1>1, RebootAssumption, ReasonFields DEF StartDaemon, PanicWaits, Known, NothingFoundYet,
     SourcesAreRecent, PastOnly, TypeOK, Boot, NoBoot, Tracking
<1>2. CASE ReadBootId
  BY <1>2, RebootAssumption, ReasonFields DEF ReadBootId, PanicWaits, Known, NothingFoundYet,
     SourcesAreRecent, PastOnly, TypeOK, Boot, NoBoot, Tracking
<1>3. CASE RecordBootId
  BY <1>3, RebootAssumption, ReasonFields DEF RecordBootId, Recorded, Tracked, MayFail,
     PanicWaits, Known, NothingFoundYet, SourcesAreRecent, PastOnly, TypeOK, Boot, NoBoot,
     Tracking
<1>4. CASE DiscardPstore
  BY <1>4, RebootAssumption, ReasonFields DEF DiscardPstore, Fails, MayFail, PanicWaits,
     Known, NothingFoundYet, SourcesAreRecent, PastOnly, TypeOK, Boot, NoBoot, Tracking
<1>5. CASE ReadPstore
  BY <1>5, RebootAssumption, ReasonFields DEF ReadPstore, ReadAndClear, FirstReason, Fails,
     MayFail, PanicWaits, Known, NothingFoundYet, SourcesAreRecent, PastOnly, TypeOK, Boot,
     NoBoot, Tracking
<1>6. CASE ReadCustom
  BY <1>6, RebootAssumption, ReasonFields DEF ReadCustom, ReadAndClear, FirstReason, Fails,
     MayFail, PanicWaits, Known, NothingFoundYet, SourcesAreRecent, PastOnly, TypeOK, Boot,
     NoBoot, Tracking
<1>7. CASE ReadInternal
  BY <1>7, RebootAssumption, ReasonFields DEF ReadInternal, ReadAndClear, FirstReason, Fails,
     MayFail, PanicWaits, Known, NothingFoundYet, SourcesAreRecent, PastOnly, TypeOK, Boot,
     NoBoot, Tracking
<1>8. CASE Save
  BY <1>8, RebootAssumption, ReasonFields DEF Save, Fails, MayFail, PanicWaits, Known,
     NothingFoundYet, SourcesAreRecent, PastOnly, TypeOK, Boot, NoBoot, Tracking
<1>9. CASE StopDaemon
  BY <1>9, RebootAssumption, ReasonFields DEF StopDaemon, PanicWaits, Known, NothingFoundYet,
     SourcesAreRecent, PastOnly, TypeOK, Boot, NoBoot, Tracking
<1>10. CASE WriteUserReset
  BY <1>10, RebootAssumption, ReasonFields DEF WriteUserReset, PanicWaits, Known,
     NothingFoundYet, SourcesAreRecent, PastOnly, TypeOK, Boot, NoBoot, Tracking
<1>11. CASE DaemonDies
  BY <1>11, RebootAssumption, ReasonFields DEF DaemonDies, Gone, MayFail, PanicWaits, Known,
     NothingFoundYet, SourcesAreRecent, PastOnly, TypeOK, Boot, NoBoot, Tracking
<1>12. CASE WriteCustomReason
  BY <1>12, RebootAssumption, ReasonFields DEF WriteCustomReason, PanicWaits, Known,
     NothingFoundYet, SourcesAreRecent, PastOnly, TypeOK, Boot, NoBoot, Tracking
<1>13. CASE SystemStops
  BY <1>13, RebootAssumption, ReasonFields DEF SystemStops, PanicWaits, Known,
     NothingFoundYet, SourcesAreRecent, PastOnly, TypeOK, Boot, NoBoot, Tracking
<1>14. CASE Reboot
  BY <1>14, RebootAssumption, ReasonFields DEF Reboot, NewBoot, Gone, PanicWaits, Known,
     NothingFoundYet, SourcesAreRecent, PastOnly, TypeOK, Boot, NoBoot, Tracking
<1>15. CASE PowerCut
  BY <1>15, RebootAssumption, ReasonFields DEF PowerCut, NewBoot, Gone, PanicWaits, Known,
     NothingFoundYet, SourcesAreRecent, PastOnly, TypeOK, Boot, NoBoot, Tracking
<1>16. CASE KernelPanic
  BY <1>16, RebootAssumption, ReasonFields DEF KernelPanic, NewBoot, Gone, PanicWaits, Known,
     NothingFoundYet, SourcesAreRecent, PastOnly, TypeOK, Boot, NoBoot, Tracking
<1>17. CASE UNCHANGED vars
  BY <1>17 DEF vars, PanicWaits, Known, NothingFoundYet, SourcesAreRecent, PastOnly, TypeOK,
     Boot, NoBoot, Tracking
<1> QED BY <1>1, <1>2, <1>3, <1>4, <1>5, <1>6, <1>7, <1>8, <1>9, <1>10, <1>11, <1>12, <1>13,
           <1>14, <1>15, <1>16, <1>17 DEF Next

\* A panic that kept its place is what is reported.
LEMMA PanicReportedStep ==
  ASSUME TypeOK, PastOnly, PanicWaits, PanicIsReported, [Next]_vars
  PROVE  PanicIsReported'
<1>1. CASE StartDaemon
  BY <1>1, RebootAssumption, ReasonFields DEF StartDaemon, PanicIsReported, PanicWaits,
     PastOnly, TypeOK, Boot, NoBoot, Tracking
<1>2. CASE ReadBootId
  BY <1>2, RebootAssumption, ReasonFields DEF ReadBootId, PanicIsReported, PanicWaits,
     PastOnly, TypeOK, Boot, NoBoot, Tracking
<1>3. CASE RecordBootId
  BY <1>3, RebootAssumption, ReasonFields DEF RecordBootId, Recorded, Tracked, MayFail,
     PanicIsReported, PanicWaits, PastOnly, TypeOK, Boot, NoBoot, Tracking
<1>4. CASE DiscardPstore
  BY <1>4, RebootAssumption, ReasonFields DEF DiscardPstore, Fails, MayFail, PanicIsReported,
     PanicWaits, PastOnly, TypeOK, Boot, NoBoot, Tracking
<1>5. CASE ReadPstore
  BY <1>5, RebootAssumption, ReasonFields DEF ReadPstore, ReadAndClear, FirstReason, Fails,
     MayFail, PanicIsReported, PanicWaits, PastOnly, TypeOK, Boot, NoBoot, Tracking
<1>6. CASE ReadCustom
  BY <1>6, RebootAssumption, ReasonFields DEF ReadCustom, ReadAndClear, FirstReason, Fails,
     MayFail, PanicIsReported, PanicWaits, PastOnly, TypeOK, Boot, NoBoot, Tracking
<1>7. CASE ReadInternal
  BY <1>7, RebootAssumption, ReasonFields DEF ReadInternal, ReadAndClear, FirstReason, Fails,
     MayFail, PanicIsReported, PanicWaits, PastOnly, TypeOK, Boot, NoBoot, Tracking
<1>8. CASE Save
  <2> DEFINE r == IF found = None THEN Reason("unknown", boot - 1) ELSE found
  <2> DEFINE new == [boot |-> boot, why |-> r.why, of |-> r.of]
  <2>1. torn = 0 /\ boot - 1 \in panicked => r.why = "panic"
    BY <1>8, ReasonFields DEF Save, PanicWaits
  <2>2. /\ panicked' = panicked /\ torn' = torn
        /\ reported' \subseteq reported \cup {new}
    BY <1>8 DEF Save
  <2>3. new.boot = boot /\ new.why = r.why
    OBVIOUS
  <2> HIDE DEF r, new
  <2> QED BY <2>1, <2>2, <2>3 DEF PanicIsReported
<1>9. CASE StopDaemon
  BY <1>9, RebootAssumption, ReasonFields DEF StopDaemon, PanicIsReported, PanicWaits,
     PastOnly, TypeOK, Boot, NoBoot, Tracking
<1>10. CASE WriteUserReset
  BY <1>10, RebootAssumption, ReasonFields DEF WriteUserReset, PanicIsReported, PanicWaits,
     PastOnly, TypeOK, Boot, NoBoot, Tracking
<1>11. CASE DaemonDies
  BY <1>11, RebootAssumption, ReasonFields DEF DaemonDies, Gone, MayFail, PanicIsReported,
     PanicWaits, PastOnly, TypeOK, Boot, NoBoot, Tracking
<1>12. CASE WriteCustomReason
  BY <1>12, RebootAssumption, ReasonFields DEF WriteCustomReason, PanicIsReported, PanicWaits,
     PastOnly, TypeOK, Boot, NoBoot, Tracking
<1>13. CASE SystemStops
  BY <1>13, RebootAssumption, ReasonFields DEF SystemStops, PanicIsReported, PanicWaits,
     PastOnly, TypeOK, Boot, NoBoot, Tracking
<1>14. CASE Reboot
  BY <1>14, RebootAssumption, ReasonFields DEF Reboot, NewBoot, Gone, PanicIsReported,
     PanicWaits, PastOnly, TypeOK, Boot, NoBoot, Tracking
<1>15. CASE PowerCut
  BY <1>15, RebootAssumption, ReasonFields DEF PowerCut, NewBoot, Gone, PanicIsReported,
     PanicWaits, PastOnly, TypeOK, Boot, NoBoot, Tracking
<1>16. CASE KernelPanic
  BY <1>16, RebootAssumption, ReasonFields DEF KernelPanic, NewBoot, Gone, PanicIsReported,
     PanicWaits, PastOnly, TypeOK, Boot, NoBoot, Tracking
<1>17. CASE UNCHANGED vars
  BY <1>17 DEF vars, PanicIsReported, PanicWaits, PastOnly, TypeOK, Boot, NoBoot, Tracking
<1> QED BY <1>1, <1>2, <1>3, <1>4, <1>5, <1>6, <1>7, <1>8, <1>9, <1>10, <1>11, <1>12, <1>13,
           <1>14, <1>15, <1>16, <1>17 DEF Next

\* The first boot of a new device.
LEMMA InitTracker == Init => TrackerInv
<1> SUFFICES ASSUME Init PROVE TrackerInv
  OBVIOUS
<1>1. TypeOK
  <2>1. boot \in Boot /\ count \in [Boot -> Nat] /\ failures + torn <= MaxFailures
    BY RebootAssumption DEF Init, Boot
  <2> QED BY <2>1, ReasonsAreReasons DEF Init, TypeOK
<1>2. PastOnly /\ Budget /\ OncePerBoot /\ Covered
  BY RebootAssumption DEF Init, PastOnly, Budget, OncePerBoot, Covered, Known, Tracking, Boot,
     NoBoot
<1>3. SourcesAreRecent /\ FoundIsRecent /\ NothingFoundYet
  BY DEF Init, SourcesAreRecent, FoundIsRecent, NothingFoundYet, Recent
<1>4. ReasonBelongs /\ PanicWaits /\ PanicIsReported
  BY DEF Init, ReasonBelongs, PanicWaits, PanicIsReported, Tracking
<1> QED BY <1>1, <1>2, <1>3, <1>4 DEF TrackerInv

-----------------------------------------------------------------------------
\* What the tracker's files and its memory mean is an invariant of the specification.
THEOREM TrackerInvariance == Spec => []TrackerInv
<1>1. TrackerInv /\ [Next]_vars => TrackerInv'
  BY TypeStep, PastStep, BudgetStep, CoveredStep, SourcesStep, NothingFoundStep,
     FoundStep, BelongsStep, PanicWaitsStep, PanicReportedStep DEF TrackerInv
<1> QED BY InitTracker, <1>1, PTL DEF Spec

\* The types of RebootTracker hold in every reachable state.
THEOREM TrackerTypeCorrect == Spec => []TypeOK
<1>1. TrackerInv => TypeOK
  BY DEF TrackerInv
<1> QED BY TrackerInvariance, <1>1, PTL

\* track_reboot writes one entry per boot, however the daemon is restarted, and one more
\* for each time the record of the boot id was lost.
THEOREM ReportedOncePerBoot == Spec => []OncePerBoot
<1>1. TrackerInv => OncePerBoot
  BY DEF TrackerInv
<1> QED BY TrackerInvariance, <1>1, PTL

\* resolve_reboot_reason reports a reason for the boot it ended, and nothing hides a
\* panic: neither a restart, nor a reason written before it, nor one left by a boot that
\* could not clear its sources.
THEOREM ReasonsAreRight == Spec => []ReasonIsRight
<1>1. TrackerInv => ReasonIsRight
  BY DEF TrackerInv, ReasonIsRight
<1> QED BY TrackerInvariance, <1>1, PTL

\* When track_reboot has returned, the boot has its entry, unless data collection was
\* disabled, the tracking was cut short, or the entry could not be saved.
THEOREM EveryRebootIsReported == Spec => []RebootIsReported
<1>1. TrackerInv => RebootIsReported
  BY DEF TrackerInv, RebootIsReported, Covered, Tracking, TypeOK
<1> QED BY TrackerInvariance, <1>1, PTL
=============================================================================
