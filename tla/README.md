# memfaultd in TLA+

This directory is a verification project for `memfaultd`, the Linux agent of the
Memfault SDK (`src/meta-memfault/recipes-memfault/memfaultd/files/memfaultd`).
Paths below are relative to the `src/` directory of that crate.

## 1. The system

`memfaultd` collects logs, metrics, reboot reasons and coredumps on a device, turns
each into a *MAR entry* (a directory with a manifest and, sometimes, a file) in the
*MAR staging directory*, and regularly uploads the entries. Two more programs take
part: `memfault-core-handler`, started by the kernel for each crashing process, and
`memfaultctl`, started by a user or a script.

| Component | State it keeps | Operations | Interacts with |
|---|---|---|---|
| Entry builder (`mar/mar_entry_builder.rs`) | a directory under construction | new, add_attachment, save (commit by rename), drop | staging directory; used by all writers |
| Uploader (`mar/upload.rs`, `network/client.rs`, `util/zip.rs`) | list of zips, position in the zip | gather, stream, three requests, delete | staging directory, server, device config (sampling) |
| Export endpoint (`mar/export.rs`) | the current export | GET, DELETE | staging directory, `memfaultctl export` |
| Cleaner (`mar/clean.rs`, `util/disk_size.rs`) | none between calls | clean(required space) | staging directory, disk; run by main loop and log thread |
| Log collector (`logs/log_collector.rs`, `logs/log_file.rs`) | current log, mutex | process_log_record, rotate, flush, close | collector thread, main loop, HTTP thread |
| Headroom and rate limiters (`logs/headroom.rs`, `util/rate_limiter.rs`) | shortage, counts of dropped lines | check, run_within_limits | log collector |
| Log recovery (`logs/recovery.rs`) | none | get_recovery, recover_old_logs | `log_tmp_path` after a crash |
| Main loop (`memfaultd.rs`, `util/task.rs`, `cli/memfaultd.rs`) | signal flags, error count, time of last refresh | one round of work, sleep, shutdown, relaunch | all of the above |
| Reboot tracker (`reboot/mod.rs`) | boot id file, reason files | track_reboot, Drop | staging directory, pstore |
| Metrics (`metrics/`) | reports behind one mutex, sessions | add, start/end session, heartbeat dump | HTTP, StatsD, collectd, battery, connectivity threads |
| Crash-free hours (`metrics/crashfree_interval.rs`) | interval counters, channel | capture crash, wait_and_update | core handler (over HTTP), metrics |
| Core handler (`cli/memfault_core_handler/`) | rate limiter file | process_corefile | staging directory, metrics endpoint |
| Configuration (`config/`, `util/disk_backed.rs`, `cli/memfaultctl/config_file.rs`) | runtime.conf, cached device config | enable and disable a setting, restart, refresh, confirm | uploader, server, staging directory, systemd |
| Archive formats (`util/zip.rs`, `mar/chunks/`) | position of each reader, offsets, check sums | read, stream_len | uploader, export endpoint |
| Fluent-bit receiver (`fluent_bit/mod.rs`) | bounded channel | connection threads, receive | log collector |

**What is hard here.** The staging directory is shared by several threads and two
processes, and no lock guards it: correctness rests on the rename of the manifest and
on every reader coping with files that disappear. The log collector is driven by two
threads through one mutex, and may be killed between any two system calls; chains of
logs have to survive that. The daemon is controlled by signals that arrive at any
time. Requests fail, or succeed with the answer lost. Disk space runs out in bytes or
in inodes. `PROJECT.json` lists the hazards line by line, each with the properties
that watch it.

**What makes each part correct.** Staging area: a committed entry is delivered or its loss is
accounted for; nothing half-built is taken; sampling is respected; repeated deliveries need a
fault. Cleaner: oldest first, enough, not more, and an honest result. Log collector: chains are
connected and in order, nothing twice, every dropped line is counted. Main loop: requests by
signal are served, retries are spaced as promised. Reboot tracker: at most one entry per boot,
with the reason of that boot. Metrics: no reading is counted twice or lost between a dump and
the next report, and time is counted once, but for what the checks of the connection do
(below). Settings: what a command has set stays set, the daemon comes back, and the server is
told of a revision only after the device has it. Core handler: the limit on captures holds; the
core that is staged is what its headers say and holds what could be found. Archives: what is
announced is what is sent, and it can be read.

## 2. Modules

| Module | Models | Proved in |
|---|---|---|
| `MarStaging` | builder, uploader, export endpoint, cleaner's races, crashes | `MarStagingProofs` |
| `MarCleaner` | one call of `clean()` with sizes, quotas and interference | `MarCleanerProofs` |
| `DiskSize` | `DiskSize` and its partial order | |
| `LogCollector` | collector, rotation, completion, headroom, rate limit, recovery | `LogCollectorProofs` |
| `MainLoop` | process life: signals, sleep, back-off, PID file, relaunch | `MainLoopProofs` |
| `RebootTracker` | reboot reasons across boots, crashes and power cuts | `RebootTrackerProofs` |
| `MarStream` | zip encoder, chunk readers, announced lengths, the list that an export keeps | `MarStreamProofs` |
| `MetricReport` | operators: time series, aggregation, one report | |
| `MetricStore` | heartbeat and sessions behind the mutex, and their dumps; extends `MetricReport` | `MetricsProofs` |
| `Metrics` | all sources of readings and their threads; extends `MetricStore` | `MetricsProofs` |
| `MetricLedger` | abstract: an event is published at most once, or dropped | `MetricsProofs` (refinement) |
| `Settings` | runtime.conf, restarts, device config cache and confirmation | `CoreHandlerProofs` |
| `CoreHandler` | the handlers' life and their rate limiter; extends `Settings`, whose files they read | `CoreHandlerProofs` |
| `CoreTransformer` | from the kernel's core file to the one that is staged | |
| `MC*` | small instances for TLC | |

### MarStaging

The directory is `dirs` (directories that exist), `manifests` (those with a
`manifest.json`) and `attachment`. Each *actor* (main loop, HTTP thread, every writer)
performs one system call per step: `create_dir`, the move or write of an attachment,
the rename that commits, each `open`, each `unlink`, `rmdir`. `RemoveFile`,
`RemoveDir` and `RemoveFails` are `remove_dir_all` on behalf of any actor; `todo[a]`
holds the directories that actor `a` is removing. The uploader's `listing`, `zips`
and `streamed` are the iterator over the directory, the groups made by
`gather_mar_entries_to_zip` and the position in the body being sent. The export
endpoint keeps `export`; clients keep the ETag (`token`) and what they downloaded
(`have`). `committed`, `received`, `downloaded` and `reason` are history: what a
perfect observer would know.

Abstractions. An entry is its kind; its size is a function of the kind. The kind
`reboot` stands for all kinds that fleet sampling never filters (reboots and
device-config confirmations). Which entries the cleaner evicts is any oldest-first
prefix here, and computed in `MarCleaner`. The three export formats are one here,
and told apart in `MarStream`. The wall
clock does not jump backwards, so that creation order is age order. Listing the
directory is one step; each entry is opened later, in a step of its own.

### LogCollector

`tmp` is `log_tmp_path` as a sequence of CIDs in the order of their mtimes; a flush
moves a file to its end, and recovery splits the sequence into empty files and others,
each part in its order (`InOrder`, stated by what it is and not by how it is computed, so
that proofs can use it). `memory` and `disk` split the lines of a file into those in
the encoder and those that reached the file; a crash loses the first. `pc` is what the
owner of the mutex does, and `then` what it returns to after a completion. A `Crash`
may happen in every state; `Start` is the recovery that follows. Log contents are
sets of line numbers. Files in `log_tmp_path` whose name is no CID are left out.

### MarCleaner

One call, one action per phase (`statvfs`, collect, mark, one removal at a time,
return), with `OtherRemoves` and `OtherAdds` between any two phases. Entry sizes, both
quotas, the age limit and the required space are chosen freely in `Init`. The sum of the
sizes (`SumOver`) and the loop that marks (`MarkedOf`) are recursive functions, so that
proofs can use their equations.

### MainLoop

`pc` walks through `main()`, `memfaultd_loop` and one round of
`loop_with_exponential_error_backoff`. `force`, `term` and `reload` are the flags that
signal handlers set; a signal moves the loop out of `sleeping` and out of no other
state, as `shuteye::sleep` does. Time is counted from the start of a round (`since`);
a round takes any time up to `MaxWork`. The configuration is chosen anew at every
start, since a relaunch reads the file again. `asked`, `granted`, `streak` and `work`
are history, kept independently of the flags and counters of the code. Signals,
deaths and restarts are unbounded. A service manager that starts the daemon again
and removes a stale PID file (systemd does; the unit has `PIDFile=`) is part of the
model. The registration of the handlers is one step.

### RebootTracker

One variable per file that survives a reboot, each holding a reason and the boot that
reason speaks of; one step per source read, for the truncation and the writing of the
boot id, and for the two halves of `Drop`. Boots end by `Reboot`, `PowerCut` or
`KernelPanic` in any state. The custom file is not synced by its writer, so a power
cut may lose or truncate it.

### MarStream

The chain of readers is one `stage` with a `cursor` in the part that is being read.
`Read(size)` is a call that returns bytes; the `...Ends` actions are what a reader does
when the one inside it returns nothing, and files may change between the two. A part
knows its exact length - the sum of the fields the code appends - while `StreamLen` adds
up the constants of `stream_len()`, so that the two are compared and not assumed equal.
A check sum is what it was computed over. `sent` is what the receiver has, as runs of
bytes of one part. Sums are recursive functions (`SumTo`), and a list of the files or of
the directory entries is the set of them `InOrder`. The receiver takes an answer for
complete when it has the announced number of bytes; the HTTP libraries stop there
(`AnswerIsCut`). `FileGrows` is the tail of an attachment whose entry was committed
early, `RemoveFile` and `RemoveDir` the cleaner and the uploader. `offered` is
`current_export`. Left out: an empty list of files, which no caller passes, and a buffer
of length 0, which none of the callers uses (a read of 0 bytes would make
`CRCPaddedStream` finish its CRC early).

### Metrics, MetricStore, MetricReport, MetricLedger

`MetricReport` has the time series as operators on records: a histogram, a counter, a
weighted average as numerator and denominator. `MetricStore` has the heartbeat and the
sessions; `TakeHeartbeat` and `EndSession` are what happens under the lock, `SaveReport`
the entry that is written after it is released, for each of the three threads that do so.
`Metrics` adds the threads: tracker of crash-free hours with its channel, battery timer,
connectivity timer, HTTP server (one request at a time), main loop, one thread per
fluent-bit connection, and the log collector at the end of a bounded channel. Timers may
be arbitrarily late. The clock of `Instant` never goes back; the wall clock, which dates
battery readings, may. An operation that reads the clock twice has a step for each:
`TrackerHours` and `TrackerCrashFree`, `CheckConnection` and `CheckElapsed`. The latter two
are `now` and `.elapsed()` in `update_connected_time`, of which the first is stored and the
second ends the span: what passes between them is counted by this check and again by the
next one, and the first check need not count 0. `Milli` is the number of ticks in a
millisecond; durations are added in whole ones (`as_millis`, `num_milliseconds`), so each
check and each reading drops what is left of the last. `conn.first`, `conn.between` and
`conn.checks` are history: from them `Watched` is the time that checks may count, and
`TimeIsCountedOnce` allows no more than that, and when no check is under way less by at
most `Milli - 1` ticks per check. `added`, `saved` and `lost` are history, and the state functions
of the refinement: `ImplementsLedger` says that `Metrics` implements `MetricLedger` with
what was reported to the daemon, what is on disk and what is known to be lost.

### Settings and CoreHandler

A file is missing, torn or holds a value; `CtlRead`, `CtlTruncate`, `CtlWrite` and
`CtlRestart` are the four steps of a command, `CacheTruncate`, `CacheWrite` and `Confirm`
those of a refresh. `RestartIfRunning` is the C code that asks systemd. Entries with a
confirmation are a set: `MarStaging` models what happens to entries. `promise` is
history: what the last finished command of each flag has set. `CoreHandler` adds the
processes that the kernel starts, with the configuration read at their start, the
history of captures they load, and the truncation and rewriting of that file after the
commit. Kills and power cuts are possible between any two steps of anybody.

### CoreTransformer

`crash` is the input: program headers, notes, the memory that can be read, mappings, the
linker's structures in that memory, limits. `pc` walks through reading notes, searching
(stacks, ELF headers and build ids, auxiliary vector, r_debug, link maps, names), merging
ranges, the size check, headers, and one segment at a time. `ProcessGoes` may happen at
any step and makes all memory unreadable. Addresses count units; a unit of the output
says where it comes from, so a byte in the wrong place is seen.

## 3. Runs

| Run | Bounds | Shows |
|---|---|---|
| `staging_races` | 2 entries, log + metrics + core writers, 1 fault | all writers, the cleaners and the uploader interleave: `NoSilentLoss`, `ConstructionUntouched`, `DuplicatesNeedFaults`, `OnlySampledAreSent` |
| `staging_export` | 2 entries, 2 clients, 1 fault | a client with If-Match and one without compete with uploads and evictions: `CarefulDeleteIsSafe`, `EventuallyDelivered` |
| `coredump_commit` | 2 entries, one writer | *violation* of `CommittedIsComplete`, see below |
| `mar_stream` | 2 entries with 3 files of 0 or 40 bytes, one of which may grow by 20; buffers of 25 and 100 bytes; 2 answers | `DirectoryIsTrue`, `AnswerIsReadable`, `ChunkIsIntact` |
| `log_chain` | 2 lines, 8 CIDs, 2 crashes, 1 failing call, size limit 2 | `ChainIsSound`, `NothingTwice`, `DropsAreCounted`, `EventuallyStaged` |
| `log_headroom` | as above, 1 crash | *violation* of `HeadroomNeverPanics` |
| `cleaner` | 3 entries, 2 sizes, 3 quotas, 2 headrooms, 3 free spaces | `EvictsOldestFirst`, `EvictsExactlyEnough`, `ResultIsHonest` |
| `main_loop` | period 5, retry 1, up to 4 failures in a row, rounds of up to 6 time units | `UploadsAreAllowed`, `OnSchedule`, `NeverBlockedByItself`, `SyncIsServed`, `TermIsObeyed` |
| `reboots` | 3 boots, 1 failing call or torn write | `OncePerBoot`, `ReasonIsRight`, `RebootIsReported` |
| `metrics` | 13 mixes of inputs | `CountsAreExact`, `TimeIsCountedOnce`, `AverageIsBounded`, `LinesStayInOrder`, `CrashFreeHasNoCrash`, `ImplementsLedger`, `CrashesAreReported` |
| `core_handler` | 9 mixes of events, 2 commands and 2 handlers at a time, 2 revisions | `SettingsStick`, `NeverBehindConfirmed`, `LimitHolds`, `DaemonComesBack`, `ConfigConverges` |
| `core_transformer` | 88 crashes of one small process | `MergeIsExact`, `EvidenceIsCaptured`, `StagedCoreIsGood`, `CaptureEnds` |

**Why these bounds.** Staging races need one entry that is removed and one that is
built, listed or sent at the same time; the zips hold one entry of two units or
several small ones, so both the split into zips and the grouping happen. One fault is
enough for a second delivery; the theorems cover any number. Log chains need a log,
its successor and one more for recovery; a recovery and two restarts use CIDs without
holding lines, hence eight. `Optional` keeps events that are not forced (a new line, a
crash, a shutdown) from using up the CIDs that forced rotations still need, so no
behaviour is cut off in the middle of a handler. The cleaner's sizes differ in both
dimensions so that bytes and inodes can be over the limit separately, and hit it
exactly. In `metrics` and `core_handler` a behaviour starts with a budget for each kind of
event, one of a few *mixes*: every pair of sources that touch the same state meets in one
of them, while sources that never meet are not multiplied with each other. A millisecond is two
ticks, the least that leaves a remainder, and time passes between the reads of a check, while
targets are tried, and between checks: dropping from the property either what is counted
again or what is rounded away makes the run fail. The tracker's hour is two ticks as well; no
property relates the two units. The stream's
files include an empty one, parts end in the middle and at the end of a buffer, and `U32`
is so small that the widths overflow for the largest archives, of which nothing is
promised (the code keeps zips to 10 MiB, but for a single larger entry). The crashes of
`core_transformer` vary one thing about a small process each: an unreadable unit at every
place that is looked at, lists that end, break or are cyclic, stacks that overlap or leave
their mapping, headers out of order, limits around the size of the output.

**Fairness.** `MarStaging`: the main loop and the threads that delete directories keep
taking steps (weak fairness: they are OS threads), and an upload that is tried
infinitely often succeeds infinitely often (strong fairness of `UploadOk`; without it
the network is simply down). Nothing is assumed of writers and clients.
`LogCollector`: the daemon is restarted, threads run, time passes; nobody has to ask
for a flush, so `EventuallyStaged` rests on rotation by age.
`MainLoop`: the process gets the CPU, its requests have time-outs and its sleeps end
(weak fairness of the loop and of start and stop). Signals may arrive forever and
nobody has to restart the daemon.
`Metrics`: the heartbeat timer, the tracker and the writing of reports run (weak
fairness: threads of the process). Nothing is assumed of clients, connections, the
battery and the network. `CoreHandler`: a command that was started goes on, systemd
starts the daemon, the main loop goes on, and a refresh or upload that is possible again
and again succeeds in the end (strong fairness; `ConfigConverges` is about a device that
stays online). Its handlers get no fairness. `CoreTransformer`: the process gets the CPU.
`MarStream` has no liveness.

`CHECK_DEADLOCK FALSE` is set where behaviours end: an answer, a capture, or a mix of
events that is used up.

**Findings.** Each violation run shows the code doing something other than a comment
of the repository says; `PROJECT.json` quotes the lines.

- `coredump_commit`: `process_corefile` commits the entry (`save()`) before the gzip
  writer of the attachment is finished. An upload in between takes a truncated file.
- `log_headroom`: if the available space equals `tmp_dir_min_headroom` exactly, the
  `match` that words the warning reaches `unreachable!()` with the mutex held.

Met while modelling, not runs of their own, and excepted by name in the properties next
to them: a signal between the second `condition()` and the sleep is noticed when the sleep
is over (`SyncIsServed`: late is not never); a battery average over no time is NaN
(`AverageIsBounded`); core handlers that overlap forget each other's captures
(`LimitHolds`); a command killed while it writes runtime.conf leaves a file on which the
daemon does not start (`DaemonComesBack`); a cyclic link map is followed forever
(`CaptureEnds`); a file that grows after the list was made truncates the archive
(`AnswerIsReadable`); time between the two reads of the clock in a check of the connection
is counted twice, and every check forgets up to a millisecond (`TimeIsCountedOnce`); a level
that is no number counts its discharge time and leaves the time of the last reading as it was
(`TimeIsCountedOnce`); the size that core_writer.rs:26 calls a worst case leaves out headers
that the input did not have and one alignment, so a core may exceed its limit by these
(`StagedCoreIsGood`).

## 4. Proofs

`MarStagingProofs` proves, for any number of entries, writers, clients, faults and any
sizes satisfying `StagingAssumption`, that `IInv` is an inductive invariant, and from
it `TypeOK`, `NoSilentLoss`, `ConstructionUntouched`, `DuplicatesNeedFaults`,
`CarefulDeleteIsSafe` and the action property `OnlySampledAreSent`.

None of these is inductive by itself. `IInv` adds:

- `Fresh`: nothing exists for a number not yet handed out. Without it, creating an
  entry could resurrect one.
- `Builders`: a builder owns its uncommitted entry alone, and only a builder that
  drops its directory removes it with reason "drop"; so a failed builder cannot take a
  committed entry with it.
- `Accounted`: a committed entry is readable or has a reason. A removal sets the reason
  with the first file it unlinks.
- `Uploader`: what waits in a zip is committed and sampled, and what is being deleted
  after an upload was received. The sampling clause is inductive because the device
  config is only refreshed by the main loop itself, before it gathers.
- `Exporter`: the ETag a client holds names entries it has, or is about to stream.
- `AtMostOnce`: zips are disjoint from each other and from what is still listed, and a
  readable entry that is not being deleted has been received no more often than there
  were faults. This is what makes a second delivery cost a fault.

The proof of inductiveness has one lemma per action with one step per conjunct the
action can disturb; the temporal theorems combine them with PTL.

`MainLoopProofs` proves `UploadsAreAllowed`, `OnSchedule` and `NeverBlockedByItself` for
any period, retry time, work time and number of errors, from the inductive `LoopInv`.
Its parts: `FlagIsHonest` (the flag is set exactly while a request waits, and a round
is forced exactly if one waited), `Timing` (the error count equals the streak of
failures, a sleeping loop is not overdue, and a loop that is about to start a round
without a flag is exactly on time) and `PidFile` (a stale PID file exists only while
nothing runs). The type of `due` is left out: it needs that a power of two is a
natural number, which the backends cannot show; the proof only compares times.

`RebootTrackerProofs` proves `OncePerBoot`, `ReasonIsRight`, `RebootIsReported` and the
types for any number of boots and of failures, from `TrackerInv`. What a boot may still
report depends on one file, so the invariant says what the files mean between two boots:
`Budget` (a boot whose id is not on record has been reported no more often than its record
was lost), `Covered` (a boot on record was reported, is about to be, or something spoiled
it), `SourcesAreRecent` and `FoundIsRecent` (no boot that ran through the tracking since a
source was written has left it there) and `PanicWaits` (while nothing was torn, the panic
of the boot before is in pstore or is what was found). `PastOnly` keeps boots that are
still to come out of all of them.

`CoreHandlerProofs` proves `SettingsStick`, `NeverBehindConfirmed` and the types of
`Settings`, for any set of commands and any set of revisions, beside core handlers that
only read; and `LimitHolds` of `CoreHandler`. `SettingsInv` says of every copy of the
flags - the file, what a command is about to write, what the daemon has read - when it
agrees with the promises, and that a daemon which does not know the current flags is about
to be restarted (`Pending`). `RevisionInv` orders the revisions: confirmed, in the answer
being applied, in memory, in the file, assigned by the server. `NeverBehindConfirmed`
alone is not inductive: a torn file says nothing, so the order must also be kept in the
daemon's memory, and the proof needs that the file is torn only while memory has the
newer value or nothing was confirmed.

`LimitInv` is about the captures there have been and the few that the file remembers. The
file *covers* them (`Covers`): a capture it has forgotten is no later than any it still
has, and if it is not full nothing was forgotten. So the oldest one that a full file has
decides whether one more fits (`Allowed`), in every window at once. A handler between
loading and saving holds a list that covers the file and its own capture, and the one
that rewrites the file has written a prefix of it (`HandlerAgrees`). `disturbed` excludes
what the code does not promise: overlapping handlers, a handler that was killed before it
had saved, a power cut that lost the file. A clock that is set back is included.

`MarCleanerProofs` proves `EvictsOldestFirst`, `EvictsExactlyEnough`, `ResultIsHonest` and
the types for any set of entries, any sizes, quotas, age limit and interference, from
`CleanerInv`. The victims are right from the moment they are marked (`RightVictims`): an
initial part of the snapshot in order of age, enough, and each either expired or needed
after all older ones. That is the induction over the marking loop, done once
(`MarkedAreRight`). What makes the result honest is `SpaceIsAccounted`: what has been
removed is counted as freed and nothing else, so the entries that are left and the space
freed never exceed what was used and what others have added, in bytes and in inodes.

`MarStreamProofs` proves `DirectoryIsTrue`, `AnswerIsReadable` and `ChunkIsIntact`, for any
files, sizes of files and of reads, growth, widths of fields and number of answers, from
`StreamInv`. The properties speak of a stream as its receiver sees it; the encoder knows
only a counter, an offset and where it is. `StreamInv` connects them by the list `fin` of
the runs that are finished (`Story`):

- `Shown`: what has been sent is `fin` and a run of what was read of the current part.
- `LengthOK`, `CountsOK`: the lengths of `fin` add up to what the stage implies, which is
  what the encoder has counted; and a file takes its two headers and what was *read* of it.
- `FilesOK`, `CurrentOK`: header, data and descriptor of each file that has been sent are
  in `fin` behind one another, behind as many bytes as the files before it take. `OffsetsOK`
  says that this is the offset in the encoder's list, modulo the width of its field.
- `CentralOK`: behind the files there are the headers of the directory, in the order of
  the list, and the end record; and none of them is anywhere else.
- `LeadOK`, `DigestOK`: the headers of a chunk come first, and the running CRC has seen
  the runs behind them, `sent` itself while the message is read and `fin` after it.
- `SizesOK`, `AmountsOK`, `DataOK`: what is read of a file is at least what was announced
  and at most what is on disk, and this differs from what was announced by one growth.

The last part gives the bound that no offset exceeds `declared + Growth * Len(Files)`,
which `InWidth` keeps within its field. `AnswerIsReadable` needs besides that an answer of
unchanged files is not as long as announced before the end record was sent, and no longer
after it. Neither of the properties is inductive: a header that is true now says nothing of
what is sent next.

`MetricsProofs` proves `CountsAreExact`, `TimeIsCountedOnce`, `AverageIsBounded`,
`LinesStayInOrder`, the action property `CrashFreeHasNoCrash`, the types, and that `Metrics`
implements `MetricLedger`, for any keys, sessions, connections, streams of messages, intervals,
clock rates and payloads that satisfy `StoreAssumption`, `MilliAssumption` and
`MetricsAssumption`. The first and the last state what the code takes for granted of other
programs: collectd does not post values under the daemon's own names, and a key that is used as
a counter is posted as a count of statsd. There is one invariant per question: `StoreInv` (each
unit of a counter is in one place; every session started with what `base` says), `SourceInv`
(the marks and counts of the tracker and of the two monitors agree with the clock and with what
was added: of the time that checks have watched, all but `Pending`, the part that a check under
way has yet to add, is counted, up to the rounding), `LinesInv` (the channel holds, per
connection, exactly the lines between what was collected and what was read, and lines that are
waiting are in order) and `AverageInv` (the sum of every average lies between 0 and the largest
level times the weight). The refinement needs all of them: an event of the ledger is a reading
of one source, and a source may note one only if it was not noted before. Sums run over a fixed
number of counters, so none of this needs induction over data; where a step has to be picked
from a finite set, or a sequence of messages is walked, the proof takes a least element of the
natural numbers instead.

`LogCollectorProofs` proves `NothingTwice`, `ChainIsSound`, `DropsAreCounted` and the types
for any number of lines, CIDs, crashes and failing calls, any size limit, any headroom and
any answers of `statvfs`. A chain is staged link by link, long after recovery or a rotation
decided on the link, so `LogInv` speaks of all logs that name a successor or will:

- `LinksInOrder`: the lines of a log, also those still in memory, are earlier than those of
  its successor. It survives because only the current log grows, by a line that is later
  than all others, and the current log has no successor yet.
- `FilesInOrder`: the mtimes of the files agree with the order of their lines. Recovery has
  nothing else to go by. The delicate step is a rotation, where the old log is flushed
  after the next file was opened: until the flush that file has no lines.
- `LinksAreKnown`: a CID that is named has a file, an entry or a reservation, is being
  completed, or is known to be lost. It needs `Recovery`: what `get_recovery` deletes is
  either abandoned or reserved again.
- `Contents`, `LinesOnce`, `StagedOnce`, `Fresh`: a line is in one log, an entry holds the
  lines its file had on disk, that file is gone, and nothing exists for a CID to come.
- `Accounts`: until something fails, the lines received are those in the logs, those the
  limiters count and the one up for decision, and every log with lines has a place.
- `Control`: what the owner of the mutex holds at each step.

The lemmas on `InOrder`, `Without` and `Touch` say that a part of a directory listing
exists, holds what it should, once each, and keeps the order.

Recursive functions (sums, the marking loop) are handled in the same way in all of these
modules: that the function exists and obeys its equations is shown with a least
counterexample among the natural numbers, and so is every fact about it that needs
induction. The library's induction theorems, which take an operator as a parameter, are
not used.

Only model-checked, and why. All liveness - `EventuallyDelivered`, `EventuallyStaged`,
`SyncIsServed`, `TermIsObeyed`, `CrashesAreReported`, `DaemonComesBack`, `ConfigConverges`,
`CaptureEnds` - since fairness and `ENABLED` are outside the prover's reach.
`CoreTransformer`: `MergeIsExact`, `EvidenceIsCaptured` and `StagedCoreIsGood` are about
ranges that are built by folds over notes, segments and mappings and sorted with `SortSeq`.
Nothing the installed provers can use is known about either operator, and what they compute
depends on the data and hardly on the interleaving, so the run enumerates the data.
`CommittedIsComplete` and `HeadroomNeverPanics` do not hold (section 3).

## 5. Not modelled

- Encodings: the manifest's JSON, msgpack and its time stamps, the byte layout of ELF
  notes and registers, gzip. They are data here: a kind, a value, readable or not.
- SWUpdate configuration (`swupdate/`, `swupdate.c`): a file generated once at start.
- `memfaultctl trigger-coredump`, `show-settings` and the output of all commands.
- systemd's limit on starts per interval, after which it gives up on the daemon.
- NT_FILE notes are parsed by the code but the result is not used.
- A core of more than 65535 segments, for which `core_writer.rs:131` fails, and cores whose
  program headers do not follow the ELF header: the offset of the headers is a constant.
- Options that are read at start and never change are constants.

`PROJECT.json` says so component by component.

## 6. Plan

Modelled and checked: the staging area, logs, cleaner, main loop, reboots, metrics,
settings, core handler, core files and archives. Proved: every safety property that a
passing run checks, but for the three of `CoreTransformer`. What is left:

1. `CoreTransformer` with the merge and the walk over notes as recursive functions in the
   place of the folds, and a listing of ranges stated by what it is; then `MergeIsExact` by
   the method of `MarCleanerProofs`, and `EvidenceIsCaptured` from it.
2. Handlers of `CoreHandler` that overlap: `LimitHolds` promises nothing of them, and how
   many captures they can start at most is an open question.
