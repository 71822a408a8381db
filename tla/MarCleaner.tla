----------------------------- MODULE MarCleaner -----------------------------
(***************************************************************************)
(* MarStagingCleaner (mar/clean.rs): one call of clean(required_space).    *)
(*                                                                         *)
(* The cleaner reads the free space of the disk, then the entries of the   *)
(* staging area, decides which of them to delete (to get below the quota,  *)
(* to restore the headroom, or because they are too old), deletes them one *)
(* by one, and returns the space that may still be used.  Meanwhile other  *)
(* threads delete entries (after an upload or an export, or cleaning at    *)
(* the same time) and other threads and processes create them.             *)
(*                                                                         *)
(* Entries are numbered by age, the oldest first.  MarStaging models all   *)
(* the processes around the cleaner and abstracts from sizes; this module  *)
(* models the sizes.                                                       *)
(***************************************************************************)
EXTENDS Naturals, Sequences, FiniteSets, SequencesExt, DiskSize

CONSTANTS
  MaxEntries,   \* bound: entries in the staging area, including new ones
  EntrySizes,   \* the sizes of entries
  Quotas,       \* values of tmp_dir_max_usage
  Unlimited,    \* stands for u64::MAX, the inodes of DiskSize::new_capacity
  Headrooms,    \* values of tmp_dir_min_headroom and tmp_dir_min_inodes
  FreeSpaces,   \* free space on the disk when clean() is called
  Requireds     \* values of required_space

Entry == 1..MaxEntries

ASSUME CleanerAssumption ==
  /\ MaxEntries \in Nat /\ Unlimited \in Nat
  /\ EntrySizes \subseteq DiskSizes /\ Headrooms \subseteq DiskSizes
  /\ FreeSpaces \subseteq DiskSizes /\ Requireds \subseteq DiskSizes
  /\ Quotas \subseteq Nat

VARIABLES
  entries, size,        \* the entries in the staging area, and their sizes
  disk,                 \* free space on the disk
  maxTotal, minSpace,   \* arguments of clean_mar_staging
  expired,              \* entries up to this one are older than max_age
  pc,
  available,            \* the free space that clean() saw
  snapshot, used,       \* what collect_mar_entries returned
  marked,               \* entries still to be deleted, oldest first
  freed,                \* space_freed
  result,               \* what clean() returns
  victims,              \* all the entries that were marked
  newest,               \* the newest entry so far
  added                 \* space used by entries created since clean() began

inputVars == <<maxTotal, minSpace, expired>>
vars == <<entries, size, disk, inputVars, pc, available, snapshot, used, marked, freed,
          result, victims, newest, added>>

\* The sum of w over the entries in S.
SumOver(S, w) ==
  LET sum[n \in 0..MaxEntries] ==
        IF n = 0 THEN 0 ELSE sum[n - 1] + (IF n \in S THEN w[n] ELSE 0)
  IN  sum[MaxEntries]

Bytes(S)  == SumOver(S, [e \in Entry |-> size[e].bytes])
Inodes(S) == SumOver(S, [e \in Entry |-> size[e].inodes])
Total(S)  == [bytes |-> Bytes(S), inodes |-> Inodes(S)]

\* clean(): the required space is taken off the quota and added to the headroom.
Init ==
  /\ newest \in 0..MaxEntries /\ entries = 1..newest
  /\ size \in [Entry -> EntrySizes]
  /\ disk \in FreeSpaces
  /\ \E quota \in Quotas, headroom \in Headrooms, required \in Requireds :
       /\ maxTotal = SaturatingSub([bytes |-> quota, inodes |-> Unlimited], required)
       /\ minSpace = Plus(headroom, required)
  /\ expired \in 0..newest
  /\ pc = "statvfs" /\ available = Zero /\ snapshot = {} /\ used = Zero
  /\ marked = <<>> /\ freed = Zero /\ result = Zero /\ added = Zero /\ victims = {}

\* get_disk_space, or zero if it fails.
ReadFreeSpace ==
  /\ pc = "statvfs" /\ pc' = "collect"
  /\ available' \in {disk, Zero}
  /\ UNCHANGED <<entries, size, disk, inputVars, snapshot, used, marked, freed, result,
                 added, victims, newest>>

\* collect_mar_entries
Collect ==
  /\ pc = "collect" /\ pc' = "mark"
  /\ snapshot' = entries /\ used' = Total(entries)
  /\ UNCHANGED <<entries, size, disk, inputVars, available, marked, freed, result, added,
                 victims, newest>>

\* What the quotas ask for, in mark_entries_for_deletion.
NeedToFree ==
  LET overQuota    == ~Exceeds(maxTotal, used)
      overHeadroom == ~Exceeds(available, minSpace)
      quota        == IF overQuota THEN SaturatingSub(used, maxTotal) ELSE Zero
      headroom     == IF overHeadroom THEN SaturatingSub(minSpace, available) ELSE Zero
  IN  LargerSize(quota, headroom)

\* Mutant: once something has to be freed, every entry is marked.
MarkEveryEntry(acc, e) ==
  IF NeedToFree # Zero \/ e <= expired
    THEN [freed |-> Plus(acc.freed, size[e]), list |-> Append(acc.list, e)]
    ELSE acc

\* The loop over the entries, oldest first: the entry is marked for the quota as long
\* as too little is freed, and afterwards if it expired.
MarkEntry(acc, e) ==
  IF \/ NeedToFree # Zero /\ ~Exceeds(acc.freed, NeedToFree)
     \/ e <= expired
    THEN [freed |-> Plus(acc.freed, size[e]), list |-> Append(acc.list, e)]
    ELSE acc

\* Mutant: the order of the sort is reversed.
NewestFirst(S) ==
  CHOOSE q \in [1..Cardinality(S) -> S] :
    \A i, j \in 1..Cardinality(S) : i < j => q[i] > q[j]

\* The entries sorted by the time of their creation.
OldestFirst(S) ==
  CHOOSE q \in [1..Cardinality(S) -> S] :
    \A i, j \in 1..Cardinality(S) : i < j => q[i] < q[j]

\* The entries of q that the loop marks.
MarkedOf(q) ==
  LET acc[i \in 0..Len(q)] ==
        IF i = 0 THEN [freed |-> Zero, list |-> <<>>] ELSE MarkEntry(acc[i - 1], q[i])
  IN  acc[Len(q)].list

Mark ==
  /\ pc = "mark" /\ pc' = "remove"
  /\ marked' = MarkedOf(OldestFirst(snapshot))
  /\ victims' = ToSet(marked')
  /\ UNCHANGED <<entries, size, disk, inputVars, available, snapshot, used, freed, result,
                 added, newest>>

\* Mutant: an entry counts as freed even if it could not be removed.
RemoveCountsFailures ==
  /\ pc = "remove" /\ marked # <<>>
  /\ marked' = Tail(marked)
  /\ LET e == Head(marked) IN
       /\ freed' = Plus(freed, size[e])
       /\ \/ /\ e \in entries
             /\ entries' = entries \ {e} /\ disk' = Plus(disk, size[e])
          \/ UNCHANGED <<entries, disk>>
  /\ UNCHANGED <<size, inputVars, pc, available, snapshot, used, result, victims, newest,
                 added>>

\* remove_marked_entries: a directory that cannot be removed, or is gone, does not
\* count as freed.
RemoveMarked ==
  /\ pc = "remove" /\ marked # <<>>
  /\ marked' = Tail(marked)
  /\ LET e == Head(marked) IN
       \/ /\ e \in entries
          /\ entries' = entries \ {e} /\ disk' = Plus(disk, size[e])
          /\ freed' = Plus(freed, size[e])
       \/ UNCHANGED <<entries, disk, freed>>
  /\ UNCHANGED <<size, inputVars, pc, available, snapshot, used, result, added, victims, newest>>

\* The end of clean_mar_staging.
Return ==
  /\ pc = "remove" /\ marked = <<>> /\ pc' = "done"
  /\ result' = SmallerSize(SaturatingSub(maxTotal, SaturatingSub(used, freed)),
                       SaturatingSub(Plus(available, freed), minSpace))
  /\ UNCHANGED <<entries, size, disk, inputVars, available, snapshot, used, marked, freed,
                 added, victims, newest>>

\* Another thread deletes an entry, or completes a new one.
OtherRemoves ==
  /\ pc # "done"
  /\ \E e \in entries :
       /\ entries' = entries \ {e} /\ disk' = Plus(disk, size[e])
  /\ UNCHANGED <<size, inputVars, pc, available, snapshot, used, marked, freed, result,
                 victims, newest, added>>

OtherAdds ==
  LET e == newest + 1 IN
  /\ pc # "done" /\ e \in Entry
  /\ newest' = e /\ entries' = entries \cup {e}
  /\ AtLeast(disk, size[e]) /\ disk' = SaturatingSub(disk, size[e])
  /\ added' = Plus(added, size[e])
  /\ UNCHANGED <<size, inputVars, pc, available, snapshot, used, marked, freed, result,
                 victims>>

Next == \/ ReadFreeSpace \/ Collect \/ Mark \/ RemoveMarked \/ Return
        \/ OtherRemoves \/ OtherAdds
        \/ pc = "done" /\ UNCHANGED vars

Spec == Init /\ [][Next]_vars

-----------------------------------------------------------------------------
(* Properties.                                                             *)

\* Every variable of the cleaner keeps its type.
TypeOK ==
  /\ entries \subseteq Entry /\ size \in [Entry -> DiskSizes] /\ disk \in DiskSizes
  /\ maxTotal \in DiskSizes /\ minSpace \in DiskSizes /\ expired \in 0..MaxEntries
  /\ pc \in {"statvfs", "collect", "mark", "remove", "done"}
  /\ available \in DiskSizes /\ snapshot \subseteq Entry /\ used \in DiskSizes
  /\ marked \in Seq(Entry) /\ freed \in DiskSizes /\ result \in DiskSizes
  /\ victims \subseteq Entry /\ newest \in 0..MaxEntries /\ added \in DiskSizes

Marked == pc \in {"remove", "done"}

\* No entry is evicted before an older one.
EvictsOldestFirst ==
  Marked => \A e \in victims : {d \in snapshot : d < e} \subseteq victims

\* Unless everything is evicted, what is left is within the quota, and the headroom is
\* there, both for bytes and for inodes.
EvictsEnough ==
  Marked /\ victims # snapshot =>
    /\ AtLeast(Plus(maxTotal, Total(victims)), used)
    /\ AtLeast(Plus(available, Total(victims)), minSpace)

\* An entry that has not expired is only evicted if without it, after evicting all older
\* ones, the quota or the headroom would still be reached in bytes or in inodes.
EvictsNoneNeedlessly ==
  Marked => \A e \in victims : e > expired =>
    LET older == Total({d \in snapshot : d < e})
        AtLimit(a, b) == a.bytes >= b.bytes \/ a.inodes >= b.inodes
    IN  \/ AtLimit(used, Plus(maxTotal, older))
        \/ AtLimit(minSpace, Plus(available, older))

\* So the victims are what has to go and no more, whatever is added or removed meanwhile
\* (clean.rs:193).
EvictsExactlyEnough == EvictsEnough /\ EvictsNoneNeedlessly

\* "Returns the amount of space left until the max_total_size will be reached or until
\* min_headroom will be exceeded": using that much really stays within both, if we
\* leave aside what others have written since, and although some removals failed and
\* others deleted entries at the same time.
ResultIsHonest ==
  pc = "done" =>
    LET left == Total(entries) IN
    /\ result.bytes > 0 => /\ left.bytes + result.bytes <= maxTotal.bytes + added.bytes
                           /\ minSpace.bytes + result.bytes <= disk.bytes + added.bytes
    /\ result.inodes > 0 => /\ left.inodes + result.inodes <= maxTotal.inodes + added.inodes
                            /\ minSpace.inodes + result.inodes <= disk.inodes + added.inodes
=============================================================================
