----------------------------- MODULE MarStaging -----------------------------
(***************************************************************************)
(* The MAR staging directory and everybody who works on it.                *)
(*                                                                         *)
(* A MAR entry is a directory holding an optional attachment (a log file   *)
(* or a coredump) and a manifest.json, whose appearance by rename(2)       *)
(* commits the entry.  No lock guards the directory.  It is shared by      *)
(*   - writers: the log collector, the metrics threads and the reboot      *)
(*     tracker of memfaultd, and memfault-core-handler, a separate process;*)
(*   - the cleaner, run by the main loop and by the log writer;            *)
(*   - the main loop, which zips committed entries, uploads the zips and   *)
(*     deletes what it uploaded;                                           *)
(*   - the HTTP thread, which serves the same entries to local clients     *)
(*     (memfaultctl export) and deletes them on DELETE.                    *)
(* Every unlink, rename and file read is a step of its own, so all the     *)
(* races between them are explored, together with crashes, lost responses  *)
(* and failing deletions.                                                  *)
(*                                                                         *)
(* Entries are numbered in the order of their creation, which is also the  *)
(* order of their ages (the wall clock is assumed not to jump backwards).  *)
(***************************************************************************)
EXTENDS Naturals, Sequences, FiniteSets, FiniteSetsExt

CONSTANTS
  MaxEntries,     \* bound: number of entries ever created
  MaxFaults,      \* bound: crashes, lost responses and failed deletions
  Writers,        \* threads and processes that create entries
  WriterKinds,    \* the kinds of entry each writer creates
  DaemonWriters,  \* the writers that are threads of memfaultd
  Clients,        \* HTTP clients of the export endpoint
  CarefulClients, \* the clients that send If-Match (memfaultctl does)
  Size,           \* zip size of an entry, by kind
  MaxZip,         \* mar_file_max_size: largest zip with several entries
  MaxExportZip,   \* DEFAULT_MAX_ZIP_FILE: the same for an export
  Samplings       \* the fleet-sampling settings a device config may carry

Kinds == {"log", "coredump", "metrics", "reboot"}

\* Metadata::attachments: only logs and coredumps carry a file.
HasAttachment(k) == k \in {"log", "coredump"}

Entry == 1..MaxEntries
Actors == {"main", "http"} \cup Writers

ASSUME StagingAssumption ==
  /\ MaxEntries \in Nat /\ MaxFaults \in Nat
  /\ MaxZip \in Nat /\ MaxExportZip \in Nat
  /\ Size \in [Kinds -> Nat \ {0}]
  /\ WriterKinds \in [Writers -> SUBSET Kinds]
  /\ DaemonWriters \subseteq Writers
  /\ CarefulClients \subseteq Clients
  /\ {"main", "http"} \cap Writers = {}
  /\ Samplings \subseteq SUBSET {"log", "coredump", "metrics"}
  /\ Samplings # {}

VARIABLES
  \* The staging directory.
  dirs,        \* entries whose directory exists
  manifests,   \* entries whose manifest.json exists
  attachment,  \* "none", "partial" (still buffered by its writer) or "full"
  kind,        \* the metadata of each entry
  next,        \* the number of the next entry
  \* The writers.
  wpc, wentry, \* what each writer does, and the entry it is building
  \* The main loop.
  mpc, listing, zips, zipSize, streamed, sampling,
  \* The HTTP thread and its clients.
  hpc, hclient, hleft, export, token, have,
  \* Directories each actor is about to remove (remove_dir_all in progress).
  todo,
  \* What the outside world has seen, and why entries disappeared.
  committed, received, downloaded, reason, faults

stagingVars == <<dirs, manifests, attachment, kind, next>>
writerVars  == <<wpc, wentry>>
mainVars    == <<mpc, listing, zips, zipSize, streamed, sampling>>
httpVars    == <<hpc, hclient, hleft, export, token, have>>
worldVars   == <<committed, received, downloaded, reason, faults>>
vars == <<stagingVars, writerVars, mainVars, httpVars, todo, worldVars>>

NoClient == "none"

Init ==
  /\ dirs = {} /\ manifests = {} /\ next = 1
  /\ attachment = [e \in Entry |-> "none"]
  /\ kind = [e \in Entry |-> "reboot"]
  /\ wpc = [w \in Writers |-> "idle"] /\ wentry = [w \in Writers |-> 0]
  /\ mpc = "idle" /\ listing = {} /\ zips = <<>> /\ zipSize = 0
  /\ streamed = {} /\ sampling \in Samplings
  /\ hpc = "idle" /\ hclient = NoClient /\ hleft = {} /\ export = {}
  /\ token = [c \in Clients |-> {}] /\ have = [c \in Clients |-> {}]
  /\ todo = [a \in Actors |-> {}]
  /\ committed = {} /\ downloaded = {} /\ faults = 0
  /\ received = [e \in Entry |-> 0]
  /\ reason = [e \in Entry |-> "none"]

Oldest(e, S) == e \in S /\ \A d \in S : e <= d

\* Mutant: a directory without manifest.json counts as an entry.
ReadableWithoutManifest(e) ==
  e \in dirs /\ (HasAttachment(kind[e]) => attachment[e] # "none")

\* MarEntry::from_path and the File::open of every file it names succeed.
Readable(e) ==
  /\ e \in dirs /\ e \in manifests
  /\ HasAttachment(kind[e]) => attachment[e] # "none"

-----------------------------------------------------------------------------
(* Writers: MarEntryBuilder.                                               *)

\* MarEntryBuilder::new: create_dir under a fresh uuid.
BuilderNew(w) ==
  /\ wpc[w] = "idle" /\ next <= MaxEntries
  /\ \E k \in WriterKinds[w] :
       /\ kind' = [kind EXCEPT ![next] = k]
       /\ wpc' = [wpc EXCEPT ![w] = IF k = "log" THEN "quota" ELSE "building"]
  /\ dirs' = dirs \cup {next}
  /\ wentry' = [wentry EXCEPT ![w] = next]
  /\ next' = next + 1
  /\ UNCHANGED <<manifests, attachment, mainVars, httpVars, todo, worldVars>>

\* on_log_completion makes room for the log before it is moved: clean() lists
\* every directory, its own included, and marks an oldest-first prefix.
LogClean(w) ==
  /\ wpc[w] = "quota"
  /\ \E n \in 0..MaxEntries : todo' = [todo EXCEPT ![w] = {e \in dirs : e <= n}]
  /\ wpc' = [wpc EXCEPT ![w] = "cleaning"]
  /\ UNCHANGED <<stagingVars, wentry, mainVars, httpVars, worldVars>>

LogCleaned(w) ==
  /\ wpc[w] = "cleaning" /\ todo[w] = {}
  /\ wpc' = [wpc EXCEPT ![w] = "building"]
  /\ UNCHANGED <<stagingVars, wentry, mainVars, httpVars, todo, worldVars>>

\* The attachment appears in the entry: save() moves a log file in one rename; the
\* core handler creates its file here.  Both are written through an encoder and a
\* buffer that their owner still holds.  Only a log file that was recovered after
\* a restart has no writer any more.
Attach(w) ==
  LET e == wentry[w] IN
  /\ wpc[w] = "building" /\ HasAttachment(kind[e]) /\ e \in dirs
  /\ \E content \in {"partial"} \cup (IF kind[e] = "log" THEN {"full"} ELSE {}) :
       attachment' = [attachment EXCEPT ![e] = content]
  /\ wpc' = [wpc EXCEPT ![w] = "attached"]
  /\ UNCHANGED <<dirs, manifests, kind, next, wentry, mainVars, httpVars, todo,
                 worldVars>>

\* save(): manifest.tmp is written and renamed to manifest.json.  A coredump's
\* attachment is its own target, so it must still be there; a log's was moved
\* by the previous step of save().
Commit(w) ==
  LET e == wentry[w] IN
  /\ \/ wpc[w] = "attached"
     \/ wpc[w] = "building" /\ ~HasAttachment(kind[e])
  /\ e \in dirs
  /\ kind[e] = "coredump" => attachment[e] # "none"
  /\ manifests' = manifests \cup {e}
  /\ committed' = committed \cup {e}
  /\ wpc' = [wpc EXCEPT ![w] = IF HasAttachment(kind[e]) THEN "flushing" ELSE "idle"]
  /\ UNCHANGED <<dirs, attachment, kind, next, wentry, mainVars, httpVars, todo,
                 received, downloaded, reason, faults>>

\* process_corefile or dispatch_on_log_completion returns: only now is the encoder
\* dropped, and with it the end of the stream written to the file.
FlushAttachment(w) ==
  LET e == wentry[w] IN
  /\ wpc[w] = "flushing"
  /\ attachment' = [attachment EXCEPT ![e] = IF @ = "partial" THEN "full" ELSE @]
  /\ wpc' = [wpc EXCEPT ![w] = "idle"]
  /\ UNCHANGED <<dirs, manifests, kind, next, wentry, mainVars, httpVars, todo,
                 worldVars>>

\* Any step of a builder fails (its directory is gone, the disk is full, the
\* transformer gives up): Drop for MarEntryDir removes the directory.
BuildFails(w) ==
  /\ wpc[w] \in {"quota", "building", "attached"}
  /\ wpc' = [wpc EXCEPT ![w] = "dropping"]
  /\ todo' = [todo EXCEPT ![w] = {wentry[w]}]
  /\ UNCHANGED <<stagingVars, wentry, mainVars, httpVars, worldVars>>

Dropped(w) ==
  /\ wpc[w] = "dropping" /\ todo[w] = {}
  /\ wpc' = [wpc EXCEPT ![w] = "idle"]
  /\ UNCHANGED <<stagingVars, wentry, mainVars, httpVars, todo, worldVars>>

-----------------------------------------------------------------------------
(* The main loop: refresh the device config, clean, gather, upload, delete.*)

\* Mutant: the device config is refreshed by a thread of its own.
RefreshInBackground ==
  /\ sampling' \in Samplings
  /\ UNCHANGED <<stagingVars, writerVars, mpc, listing, zips, zipSize, streamed,
                 httpVars, todo, worldVars>>

\* Config::refresh_device_config replaces the cached sampling settings.
RefreshDeviceConfig ==
  /\ mpc = "idle"
  /\ sampling' \in Samplings
  /\ UNCHANGED <<stagingVars, writerVars, mpc, listing, zips, zipSize, streamed,
                 httpVars, todo, worldVars>>

\* mar_cleaner.clean(DiskSize::ZERO)
MainClean ==
  /\ mpc = "idle"
  /\ \E n \in 0..MaxEntries :
       todo' = [todo EXCEPT !["main"] = {e \in dirs : e <= n}]
  /\ mpc' = "cleaning"
  /\ UNCHANGED <<stagingVars, writerVars, listing, zips, zipSize, streamed,
                 sampling, httpVars, worldVars>>

\* iterate_from_container: one read_dir, sorted from oldest to newest.
ListStaging ==
  /\ mpc = "cleaning" /\ todo["main"] = {}
  /\ listing' = dirs /\ zips' = <<>> /\ zipSize' = 0
  /\ mpc' = "gathering"
  /\ UNCHANGED <<stagingVars, writerVars, streamed, sampling, httpVars, todo,
                 worldVars>>

\* applicable_resolution: reboots are always uploaded.
Sampled(e) == kind[e] = "reboot" \/ kind[e] \in sampling

\* gather_mar_entries_to_zip on one entry: a readable entry that fleet sampling
\* lets through joins the current zip, or opens a new one if it does not fit.
\* The size of each file is read here, before the file is streamed.
AddToZip(e) ==
  LET size == Size[kind[e]]
      fits == zipSize + size <= MaxZip
      last == Len(zips)
  IN  /\ Readable(e) /\ Sampled(e)
      /\ zips' = IF fits /\ last > 0 THEN [zips EXCEPT ![last] = @ \cup {e}]
                                    ELSE Append(zips, {e})
      /\ zipSize' = IF fits THEN zipSize + size ELSE size

SkipEntry(e) ==
  ~(Readable(e) /\ Sampled(e)) /\ UNCHANGED <<zips, zipSize>>

GatherEntry ==
  /\ mpc = "gathering"
  /\ \E e \in listing : /\ Oldest(e, listing)
                        /\ listing' = listing \ {e}
                        /\ AddToZip(e) \/ SkipEntry(e)
  /\ UNCHANGED <<stagingVars, writerVars, mpc, streamed, sampling, httpVars, todo,
                 worldVars>>

\* Mutant: off by one, a single zip is not sent.
GatherDoneOffByOne ==
  /\ mpc = "gathering" /\ listing = {}
  /\ mpc' = IF Len(zips) <= 1 THEN "idle" ELSE "uploading"
  /\ zips' = IF Len(zips) <= 1 THEN <<>> ELSE zips
  /\ streamed' = {}
  /\ UNCHANGED <<stagingVars, writerVars, listing, zipSize, sampling, httpVars, todo,
                 worldVars>>

GatherDone ==
  /\ mpc = "gathering" /\ listing = {}
  /\ mpc' = IF zips = <<>> THEN "idle" ELSE "uploading"
  /\ streamed' = {}
  /\ UNCHANGED <<stagingVars, writerVars, listing, zips, zipSize, sampling,
                 httpVars, todo, worldVars>>

\* An error in upload_mar_entries returns from the loop over the zips.
AbortUpload ==
  /\ mpc' = "idle" /\ zips' = <<>> /\ streamed' = {} /\ zipSize' = 0
  /\ UNCHANGED <<listing, sampling>>

\* put_file streams the zip: ZipEncoder opens each file when it gets to it, and
\* fails the whole request if the file is gone.
StreamEntry ==
  /\ mpc = "uploading"
  /\ \E e \in Head(zips) \ streamed :
       /\ Oldest(e, Head(zips) \ streamed)
       /\ \/ /\ Readable(e)
             /\ streamed' = streamed \cup {e}
             /\ UNCHANGED <<mpc, listing, zips, zipSize, sampling>>
          \/ ~Readable(e) /\ AbortUpload
  /\ UNCHANGED <<stagingVars, writerVars, httpVars, todo, worldVars>>

\* The server has the zip once POST /upload/mar reaches it.
ServerReceives(S) ==
  received' = [e \in Entry |-> IF e \in S THEN received[e] + 1 ELSE received[e]]

\* Mutant: the callback that deletes the uploaded entries is not called.
UploadOkKeepsEntries ==
  /\ mpc = "uploading" /\ streamed = Head(zips)
  /\ ServerReceives(Head(zips))
  /\ mpc' = "deleting"
  /\ UNCHANGED <<stagingVars, writerVars, listing, zips, zipSize, streamed, sampling,
                 httpVars, todo, committed, downloaded, reason, faults>>

\* upload_mar_file returns Ok: the callback deletes the entries of this zip.
UploadOk ==
  /\ mpc = "uploading" /\ streamed = Head(zips)
  /\ ServerReceives(Head(zips))
  /\ todo' = [todo EXCEPT !["main"] = Head(zips)]
  /\ mpc' = "deleting"
  /\ UNCHANGED <<stagingVars, writerVars, listing, zips, zipSize, streamed,
                 sampling, httpVars, committed, downloaded, reason, faults>>

\* Mutant: the entries are deleted whether or not the upload succeeded.
UploadFailsButDeletes ==
  /\ mpc = "uploading" /\ streamed = Head(zips)
  /\ todo' = [todo EXCEPT !["main"] = Head(zips)]
  /\ mpc' = "deleting"
  /\ UNCHANGED <<stagingVars, writerVars, listing, zips, zipSize, streamed, sampling,
                 httpVars, worldVars>>

\* The network or the server fails any of the three requests.
UploadFails ==
  /\ mpc = "uploading" /\ streamed = Head(zips)
  /\ AbortUpload
  /\ UNCHANGED <<stagingVars, writerVars, httpVars, todo, worldVars>>

\* The server processed the last request but its answer is lost.
UploadResponseLost ==
  /\ mpc = "uploading" /\ streamed = Head(zips) /\ faults < MaxFaults
  /\ ServerReceives(Head(zips))
  /\ AbortUpload
  /\ faults' = faults + 1
  /\ UNCHANGED <<stagingVars, writerVars, httpVars, todo, committed, downloaded,
                 reason>>

ZipDeleted ==
  /\ mpc = "deleting" /\ todo["main"] = {}
  /\ zips' = Tail(zips) /\ streamed' = {}
  /\ mpc' = IF Len(zips) = 1 THEN "idle" ELSE "uploading"
  /\ UNCHANGED <<stagingVars, writerVars, listing, zipSize, sampling,
                 httpVars, todo, worldVars>>

-----------------------------------------------------------------------------
(* The export endpoint: one HTTP thread serves one request at a time.      *)

\* The first group gather_mar_entries_to_zip makes of S.
FirstZip(S) ==
  {e \in S : \/ Oldest(e, S)
             \/ MapThenSumSet(LAMBDA d : Size[kind[d]], {d \in S : d <= e})
                  <= MaxExportZip}

\* handle_get_mar: keep offering the current export while its directories exist,
\* else prepare a new one.
Offer ==
  IF export # {} /\ export \subseteq dirs
    THEN export ELSE FirstZip({e \in dirs : Readable(e)})

\* The answer is the zip and its ETag, or 204 when there is nothing, or 406 when
\* the Accept header names no known format; the export is prepared in any case.
ExportGet(c) ==
  /\ hpc = "idle" /\ token[c] = {}
  /\ export' = Offer
  /\ \/ UNCHANGED <<hpc, hclient, hleft, token, have>>
     \/ /\ Offer # {}
        /\ hpc' = "streaming" /\ hclient' = c /\ hleft' = Offer
        /\ token' = [token EXCEPT ![c] = Offer]
        /\ have' = [have EXCEPT ![c] = {}]
  /\ UNCHANGED <<stagingVars, writerVars, mainVars, todo, worldVars>>

\* Mutant: the client takes a response that broke off for a complete one.
ExportStreamIgnoresErrors ==
  /\ hpc = "streaming"
  /\ \E e \in hleft :
       /\ Oldest(e, hleft)
       /\ hleft' = hleft \ {e}
       /\ hpc' = IF hleft = {e} THEN "idle" ELSE hpc
       /\ IF Readable(e)
            THEN /\ have' = [have EXCEPT ![hclient] = @ \cup {e}]
                 /\ downloaded' = downloaded \cup {e}
            ELSE UNCHANGED <<have, downloaded>>
  /\ UNCHANGED <<stagingVars, writerVars, mainVars, hclient, export, token, todo,
                 committed, received, reason, faults>>

\* The response body is read from the files as it is sent.  A file that is gone
\* breaks the response, and the client gives up without a DELETE.
ExportStream ==
  /\ hpc = "streaming"
  /\ \E e \in hleft :
       /\ Oldest(e, hleft)
       /\ \/ /\ Readable(e)
             /\ hleft' = hleft \ {e}
             /\ have' = [have EXCEPT ![hclient] = @ \cup {e}]
             /\ downloaded' = downloaded \cup {e}
             /\ hpc' = IF hleft = {e} THEN "idle" ELSE hpc
             /\ UNCHANGED token
          \/ /\ ~Readable(e)
             /\ hpc' = "idle" /\ hleft' = {}
             /\ token' = [token EXCEPT ![hclient] = {}]
             /\ have' = [have EXCEPT ![hclient] = {}]
             /\ UNCHANGED downloaded
  /\ UNCHANGED <<stagingVars, writerVars, mainVars, hclient, export, todo, committed,
                 received, reason, faults>>

\* handle_delete: 404 without an export, 412 if If-Match names another one.
ExportDelete(c) ==
  /\ hpc = "idle" /\ token[c] # {}
  /\ token' = [token EXCEPT ![c] = {}]
  /\ IF export # {} /\ (c \in CarefulClients => token[c] = export)
       THEN /\ todo' = [todo EXCEPT !["http"] = export]
            /\ export' = {} /\ hpc' = "deleting" /\ hclient' = c
       ELSE UNCHANGED <<todo, export, hpc, hclient>>
  /\ UNCHANGED <<stagingVars, writerVars, mainVars, hleft, have, worldVars>>

ExportDeleted ==
  /\ hpc = "deleting" /\ todo["http"] = {}
  /\ hpc' = "idle"
  /\ UNCHANGED <<stagingVars, writerVars, mainVars, hclient, hleft, export, token,
                 have, todo, worldVars>>

\* A client that keeps the data on the device (--do-not-delete) or goes away.
ClientLeaves(c) ==
  /\ token[c] # {} /\ ~(hpc = "streaming" /\ hclient = c)
  /\ token' = [token EXCEPT ![c] = {}]
  /\ UNCHANGED <<stagingVars, writerVars, mainVars, hpc, hclient, hleft, export, have,
                 todo, worldVars>>

-----------------------------------------------------------------------------
(* remove_dir_all, one system call at a time.                              *)

\* On whose behalf actor a removes directories.
Purpose(a) ==
  CASE a = "main" -> (IF mpc = "cleaning" THEN "clean" ELSE "upload")
    [] a = "http" -> (IF hclient \in CarefulClients THEN "export" ELSE "blind")
    [] OTHER      -> (IF wpc[a] = "cleaning" THEN "clean" ELSE "drop")

Blame(a, e) ==
  reason' = [reason EXCEPT ![e] = IF @ = "none" THEN Purpose(a) ELSE @]

\* The files of a directory are unlinked in the order readdir returns them.
RemoveFile(a) ==
  \E e \in todo[a] :
    /\ Oldest(e, todo[a])
    /\ \/ /\ e \in manifests
          /\ manifests' = manifests \ {e} /\ UNCHANGED attachment
       \/ /\ attachment[e] # "none"
          /\ attachment' = [attachment EXCEPT ![e] = "none"] /\ UNCHANGED manifests
    /\ Blame(a, e)
    /\ UNCHANGED <<dirs, kind, next, writerVars, mainVars, httpVars, todo, committed,
                   received, downloaded, faults>>

\* rmdir of the emptied directory (or nothing left to remove).
RemoveDir(a) ==
  \E e \in todo[a] :
    /\ Oldest(e, todo[a])
    /\ e \notin manifests /\ attachment[e] = "none"
    /\ dirs' = dirs \ {e}
    /\ todo' = [todo EXCEPT ![a] = @ \ {e}]
    /\ Blame(a, e)
    /\ UNCHANGED <<manifests, attachment, kind, next, writerVars, mainVars, httpVars,
                   committed, received, downloaded, faults>>

\* remove_dir_all returns an error, which every caller ignores: an I/O error, a
\* file that somebody else unlinked first, or one added to the directory since.
RemoveFails(a) ==
  \E e \in todo[a] :
    /\ Oldest(e, todo[a])
    /\ IF Readable(e) THEN faults < MaxFaults /\ faults' = faults + 1
                      ELSE UNCHANGED faults
    /\ todo' = [todo EXCEPT ![a] = @ \ {e}]
    /\ UNCHANGED <<stagingVars, writerVars, mainVars, httpVars, committed, received,
                   downloaded, reason>>

-----------------------------------------------------------------------------
(* Crashes.  What is on disk stays as it is.                               *)

\* memfaultd dies (or exits: its threads are not joined) and is restarted.  A
\* client in the middle of a download sees its connection reset.
DaemonCrash ==
  /\ faults < MaxFaults /\ faults' = faults + 1
  /\ wpc' = [w \in Writers |-> IF w \in DaemonWriters THEN "idle" ELSE wpc[w]]
  /\ todo' = [a \in Actors |->
                IF a \in Writers \ DaemonWriters THEN todo[a] ELSE {}]
  /\ mpc' = "idle" /\ listing' = {} /\ zips' = <<>> /\ zipSize' = 0
  /\ streamed' = {}
  /\ hpc' = "idle" /\ hleft' = {} /\ export' = {}
  /\ token' = IF hpc = "streaming" THEN [token EXCEPT ![hclient] = {}] ELSE token
  /\ UNCHANGED <<stagingVars, wentry, sampling, hclient, have, committed, received,
                 downloaded, reason>>

\* The core handler is killed.
HandlerKilled(w) ==
  /\ w \notin DaemonWriters /\ wpc[w] # "idle"
  /\ wpc' = [wpc EXCEPT ![w] = "idle"]
  /\ todo' = [todo EXCEPT ![w] = {}]
  /\ UNCHANGED <<stagingVars, wentry, mainVars, httpVars, worldVars>>

-----------------------------------------------------------------------------
WriterStep(w) ==
  \/ BuilderNew(w) \/ LogClean(w) \/ LogCleaned(w) \/ Attach(w) \/ Commit(w)
  \/ FlushAttachment(w) \/ BuildFails(w) \/ Dropped(w) \/ HandlerKilled(w)

MainStep ==
  \/ MainClean \/ ListStaging \/ GatherEntry \/ GatherDone \/ StreamEntry
  \/ UploadOk \/ UploadFails \/ UploadResponseLost \/ ZipDeleted

ExportStep ==
  \/ \E c \in Clients : ExportGet(c) \/ ExportDelete(c) \/ ClientLeaves(c)
  \/ ExportStream \/ ExportDeleted

RemoveStep(a) == RemoveFile(a) \/ RemoveDir(a) \/ RemoveFails(a)

Next ==
  \/ \E w \in Writers : WriterStep(w)
  \/ RefreshDeviceConfig
  \/ MainStep
  \/ ExportStep
  \/ \E a \in Actors : RemoveStep(a)
  \/ DaemonCrash

Spec == Init /\ [][Next]_vars
(***************************************************************************)
(* Properties.                                                             *)
(***************************************************************************)
WriterPC == {"idle", "quota", "cleaning", "building", "attached", "flushing",
             "dropping"}
Reasons == {"none", "clean", "upload", "export", "blind", "drop"}

\* Every variable of the staging area keeps its type.
TypeOK ==
  /\ dirs \subseteq Entry /\ manifests \subseteq Entry
  /\ attachment \in [Entry -> {"none", "partial", "full"}]
  /\ kind \in [Entry -> Kinds] /\ next \in 1..(MaxEntries + 1)
  /\ wpc \in [Writers -> WriterPC] /\ wentry \in [Writers -> 0..MaxEntries]
  /\ mpc \in {"idle", "cleaning", "gathering", "uploading", "deleting"}
  /\ listing \subseteq Entry /\ zips \in Seq(SUBSET Entry) /\ zipSize \in Nat
  /\ streamed \subseteq Entry /\ sampling \in Samplings
  /\ hpc \in {"idle", "streaming", "deleting"}
  /\ hclient \in Clients \cup {NoClient}
  /\ hleft \subseteq Entry /\ export \subseteq Entry
  /\ token \in [Clients -> SUBSET Entry] /\ have \in [Clients -> SUBSET Entry]
  /\ todo \in [Actors -> SUBSET Entry]
  /\ committed \subseteq Entry /\ downloaded \subseteq Entry
  /\ received \in [Entry -> Nat] /\ reason \in [Entry -> Reasons]
  /\ faults \in 0..MaxFaults

\* A committed entry only ever becomes unreadable because the cleaner evicted it,
\* because the server already has it (collect_and_upload), or because an export
\* client deleted it, having downloaded it if it sent If-Match (handle_delete).
\* No crash, failed upload or failed builder destroys a committed entry.
NoSilentLoss ==
  /\ \A e \in committed :
       ~Readable(e) => reason[e] \in {"clean", "upload", "export", "blind"}
  /\ \A e \in Entry : reason[e] = "upload" => received[e] > 0
  /\ \A e \in Entry : reason[e] = "export" => e \in downloaded

\* collect_and_upload and the export endpoint leave directories "under
\* construction" alone: they only ever remove entries that were committed.
ConstructionUntouched ==
  \A e \in Entry : reason[e] \in {"upload", "export", "blind"} => e \in committed

\* Delivery is at least once, and every further delivery of an entry is paid for
\* by a fault: a crash, a lost response or a failed deletion.
DuplicatesNeedFaults == \A e \in Entry : received[e] <= 1 + faults

\* "Rename the manifest to signal that this folder is complete"
\* (MarEntryBuilder::save): a manifest.json promises that the files of the entry
\* are final.
CommittedIsComplete == \A e \in manifests : attachment[e] # "partial"

\* A DELETE with If-Match removes only data that this very client has downloaded,
\* whatever other clients, the uploader and the cleaner did since its GET.
CarefulDeleteIsSafe ==
  hpc = "deleting" /\ hclient \in CarefulClients
    => todo["http"] \subseteq have[hclient]

\* An entry is only uploaded while fleet sampling lets its kind through: the
\* filter is applied when entries are gathered, long before they are sent.
OnlySampledAreSent ==
  [][\A e \in Entry : received'[e] > received[e] => Sampled(e)]_vars

-----------------------------------------------------------------------------
\* The main loop and the threads that delete directories keep running, and an
\* upload that is retried forever succeeds once in a while.
Fairness ==
  /\ WF_vars(MainStep)
  /\ SF_vars(UploadOk)
  /\ \A a \in Actors : WF_vars(RemoveStep(a))

FairSpec == Spec /\ Fairness

\* Every committed entry eventually reaches the server, unless it is evicted or
\* exported first, although later entries keep arriving and uploads keep failing.
EventuallyDelivered ==
  \A e \in Entry :
    (e \in committed /\ Readable(e)) ~> (received[e] > 0 \/ ~Readable(e))
=============================================================================
