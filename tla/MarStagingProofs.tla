-------------------------- MODULE MarStagingProofs --------------------------
(***************************************************************************)
(* Proofs of the safety properties of MarStaging for any number of         *)
(* entries, writers, clients and faults.                                   *)
(*                                                                         *)
(* None of the properties is inductive by itself: they speak of history    *)
(* (who removed an entry, how often the server got it) and follow from     *)
(* what each actor currently intends.  IInv adds those intentions:         *)
(*   Fresh       entries not created yet have left no trace;               *)
(*   Builders    a builder owns its entry, which is not committed, and     *)
(*               only a failed builder's own directory is ever dropped;    *)
(*   Accounted   a committed entry is readable or somebody is to blame;    *)
(*   Uploader    gathered zips hold committed, sampled entries, and what   *)
(*               the uploader deletes has been received;                   *)
(*   Exporter    what a client can ask to delete is what it was sent;      *)
(*   AtMostOnce  an entry that can still be sent was received at most      *)
(*               once per fault.                                           *)
(***************************************************************************)
EXTENDS MarStaging, TLAPS

Building(w) == wpc[w] \in {"quota", "cleaning", "building", "attached", "dropping"}

Fresh ==
  \A e \in Entry : e >= next =>
    /\ e \notin dirs /\ e \notin committed
    /\ attachment[e] = "none" /\ reason[e] = "none"
    /\ \A a \in Actors : e \notin todo[a]

Builders ==
  /\ \A w \in Writers : Building(w) =>
       /\ wentry[w] \in Entry /\ wentry[w] < next /\ wentry[w] \notin committed
       /\ wpc[w] # "dropping" => reason[wentry[w]] # "drop"
  /\ \A v, w \in Writers : Building(v) /\ Building(w) /\ wentry[v] = wentry[w] => v = w
  /\ \A w \in Writers : todo[w] # {} => wpc[w] \in {"cleaning", "dropping"}
  /\ \A w \in Writers : wpc[w] = "dropping" => todo[w] \subseteq {wentry[w]}
  /\ \A w \in Writers : wpc[w] = "attached" =>
       attachment[wentry[w]] # "none" \/ reason[wentry[w]] # "none"

Accounted ==
  /\ manifests \subseteq committed
  /\ \A e \in committed : reason[e] # "drop" /\ (Readable(e) \/ reason[e] # "none")

Uploader ==
  /\ todo["main"] # {} => mpc \in {"cleaning", "deleting"}
  /\ mpc = "deleting" => \A e \in todo["main"] : received[e] > 0
  /\ mpc \in {"uploading", "deleting"} => zips # <<>>
  /\ mpc \in {"idle", "cleaning"} => zips = <<>>
  /\ \A i \in 1..Len(zips) : \A e \in zips[i] : e \in committed /\ Sampled(e)
  /\ \A e \in Entry : received[e] > 0 => e \in committed
  /\ \A e \in Entry : reason[e] = "upload" => received[e] > 0

Exporter ==
  /\ todo["http"] # {} => hpc = "deleting"
  /\ hpc # "idle" => hclient \in Clients
  /\ export \subseteq committed /\ todo["http"] \subseteq committed
  /\ \A c \in Clients : have[c] \subseteq downloaded
  /\ \A c \in Clients : token[c] \subseteq
       have[c] \cup (IF hpc = "streaming" /\ hclient = c THEN hleft ELSE {})
  /\ hpc = "deleting" /\ hclient \in CarefulClients => todo["http"] \subseteq have[hclient]
  /\ \A e \in Entry : reason[e] = "export" => e \in downloaded
  /\ \A e \in Entry : reason[e] \in {"export", "blind"} => e \in committed

\* The zips that have not been sent: all of them, or all but the first.
Unsent == IF mpc = "deleting" THEN 2..Len(zips) ELSE 1..Len(zips)

AtMostOnce ==
  /\ \A e \in Entry : received[e] <= 1 + faults
  /\ \A e \in Entry : Readable(e) /\ ~(mpc = "deleting" /\ e \in todo["main"])
       => received[e] <= faults
  /\ \A i \in Unsent : \A e \in zips[i] : received[e] <= faults
  /\ \A i, j \in 1..Len(zips) : i # j => zips[i] \cap zips[j] = {}
  /\ \A i \in 1..Len(zips) : zips[i] \cap listing = {}

IInv == /\ TypeOK /\ Fresh /\ Builders /\ Accounted /\ Uploader /\ Exporter
        /\ AtMostOnce

USE DEF stagingVars, writerVars, mainVars, httpVars, worldVars

-----------------------------------------------------------------------------
\* What Head and Tail do to a non-empty sequence of zips.
LEMMA HeadTail ==
  ASSUME NEW S, NEW s \in Seq(S), s # <<>>
  PROVE  /\ Len(s) \in Nat /\ Len(s) >= 1
         /\ Head(s) = s[1] /\ s[1] \in S
         /\ Tail(s) \in Seq(S) /\ Len(Tail(s)) = Len(s) - 1
         /\ \A i \in 1..(Len(s) - 1) : Tail(s)[i] = s[i + 1]
  OBVIOUS

\* The empty sequence is the one of length zero.
LEMMA EmptySeq ==
  ASSUME NEW S, NEW s \in Seq(S)
  PROVE  Len(s) = 0 <=> s = <<>>
  OBVIOUS

\* AddToZip changes one zip, by one entry, and leaves the others alone.
LEMMA AddToZipExtends ==
  ASSUME TypeOK, NEW e \in Entry, AddToZip(e)
  PROVE  /\ zips' \in Seq(SUBSET Entry) /\ zipSize' \in Nat
         /\ Len(zips) <= Len(zips')
         /\ \E k \in 1..Len(zips') :
              /\ \A i \in 1..Len(zips') :
                   i # k => i \in 1..Len(zips) /\ zips'[i] = zips[i]
              /\ \/ zips'[k] = {e}
                 \/ k \in 1..Len(zips) /\ zips'[k] = zips[k] \cup {e}
<1> DEFINE n == Len(zips)
<1>1. /\ zips \in Seq(SUBSET Entry) /\ n \in Nat
      /\ zipSize \in Nat /\ Size[kind[e]] \in Nat
  BY StagingAssumption DEF TypeOK
<1>2. zipSize' \in Nat
  BY <1>1 DEF AddToZip
<1>3. CASE n > 0 /\ zips' = [zips EXCEPT ![n] = @ \cup {e}]
  <2>1. /\ zips' \in Seq(SUBSET Entry) /\ Len(zips') = n
        /\ \A i \in 1..n : i # n => zips'[i] = zips[i]
        /\ zips'[n] = zips[n] \cup {e}
    BY <1>1, <1>3
  <2>2. n \in 1..n
    BY <1>1, <1>3
  <2> QED BY <1>1, <1>2, <2>1, <2>2
<1>4. CASE zips' = Append(zips, {e})
  <2>1. /\ zips' \in Seq(SUBSET Entry) /\ Len(zips') = n + 1
        /\ \A i \in 1..n : zips'[i] = zips[i]
        /\ zips'[n + 1] = {e}
    BY <1>1, <1>4
  <2>2. n + 1 \in 1..Len(zips')
    BY <1>1, <2>1
  <2> QED BY <1>1, <1>2, <2>1, <2>2
<1> QED BY <1>1, <1>3, <1>4 DEF AddToZip

\* The zip being sent is not empty of meaning: its entries are committed.
LEMMA HeadIsCommitted ==
  ASSUME IInv, mpc \in {"uploading", "deleting"}
  PROVE  /\ zips \in Seq(SUBSET Entry) /\ zips # <<>> /\ 1 \in 1..Len(zips)
         /\ Head(zips) = zips[1] /\ Head(zips) \subseteq Entry
         /\ Head(zips) \subseteq committed
<1>1. zips \in Seq(SUBSET Entry) /\ zips # <<>>
  BY DEF IInv, TypeOK, Uploader
<1>2. Len(zips) \in Nat /\ Len(zips) >= 1 /\ Head(zips) = zips[1]
  BY <1>1, HeadTail
<1>3. 1 \in 1..Len(zips)
  BY <1>2
<1>4. zips[1] \subseteq Entry
  BY <1>1, <1>3
<1> QED BY <1>1, <1>2, <1>3, <1>4 DEF IInv, Uploader

\* What actor a removes an entry for tells what has happened to the entry.
LEMMA PurposeFacts ==
  ASSUME IInv, NEW a \in Actors, NEW e \in todo[a]
  PROVE  /\ e \in Entry /\ e < next
         /\ Purpose(a) \in {"clean", "upload", "export", "blind", "drop"}
         /\ Purpose(a) = "upload" => received[e] > 0
         /\ Purpose(a) = "export" => e \in downloaded
         /\ Purpose(a) \in {"export", "blind"} => e \in committed
         /\ Purpose(a) = "drop" => /\ a \in Writers /\ wpc[a] = "dropping"
                                  /\ e = wentry[a]
<1>1. e \in Entry /\ e < next
  BY DEF IInv, TypeOK, Fresh, Entry
<1>2. CASE a = "main"
  BY <1>1, <1>2 DEF IInv, Uploader, Purpose
<1>3. CASE a = "http"
  BY <1>1, <1>3 DEF IInv, Exporter, Purpose
<1>4. CASE a \in Writers
  BY <1>1, <1>4, StagingAssumption DEF IInv, Builders, Purpose
<1> QED BY <1>2, <1>3, <1>4 DEF Actors

\* What the next export offers is committed.
LEMMA OfferIsCommitted ==
  ASSUME IInv PROVE Offer \subseteq committed /\ Offer \subseteq Entry
  BY DEF IInv, TypeOK, Accounted, Exporter, Offer, FirstZip, Readable

\* One step of the proof that IInv is inductive: a builder creates its directory.
LEMMA BuilderNewInv ==
  ASSUME IInv, NEW w \in Writers, BuilderNew(w)
  PROVE  IInv'
<1>1. TypeOK'
  <2>1. next \in Entry /\ next + 1 \in 1..(MaxEntries + 1)
    BY StagingAssumption DEF IInv, TypeOK, BuilderNew, Entry
  <2>2. kind' \in [Entry -> Kinds] /\ wpc' \in [Writers -> WriterPC]
    <3>1. PICK k \in WriterKinds[w] :
            /\ kind' = [kind EXCEPT ![next] = k]
            /\ wpc' = [wpc EXCEPT ![w] = IF k = "log" THEN "quota" ELSE "building"]
      BY DEF BuilderNew
    <3>2. k \in Kinds
      BY StagingAssumption
    <3> QED BY <2>1, <3>1, <3>2 DEF IInv, TypeOK, WriterPC
  <2>3. wentry' \in [Writers -> 0..MaxEntries]
    BY StagingAssumption, <2>1 DEF IInv, TypeOK, BuilderNew, Entry
  <2> QED BY <2>1, <2>2, <2>3 DEF IInv, TypeOK, BuilderNew
<1>2. Fresh'
  BY DEF IInv, TypeOK, Fresh, BuilderNew, Actors, Entry
<1>3. Builders'
  <2>1. next \in Entry /\ next \notin committed /\ reason[next] = "none" /\ next < next'
    BY StagingAssumption DEF IInv, TypeOK, Fresh, BuilderNew, Entry
  <2>2. wpc'[w] \in {"quota", "building"} /\ wentry'[w] = next /\ todo[w] = {}
    BY DEF IInv, TypeOK, Builders, BuilderNew
  <2>3. \A v \in Writers : v # w => wpc'[v] = wpc[v] /\ wentry'[v] = wentry[v]
    BY DEF IInv, TypeOK, BuilderNew
  <2>4. UNCHANGED <<attachment, committed, reason, todo>> /\ next' = next + 1
    BY DEF BuilderNew
  <2>5. next \in Nat
    BY DEF IInv, TypeOK
  <2>6. \A v \in Writers : v # w /\ Building(v) => wentry[v] \in Entry /\ wentry[v] < next
    BY DEF IInv, Builders
  <2>7. \A v \in Writers : Building(v)' =>
          /\ wentry'[v] \in Entry /\ wentry'[v] < next' /\ wentry'[v] \notin committed'
          /\ wpc'[v] # "dropping" => reason'[wentry'[v]] # "drop"
    <3> SUFFICES ASSUME NEW v \in Writers, Building(v)'
                 PROVE  /\ wentry'[v] \in Entry /\ wentry'[v] < next'
                        /\ wentry'[v] \notin committed'
                        /\ wpc'[v] # "dropping" => reason'[wentry'[v]] # "drop"
      OBVIOUS
    <3>1. CASE v = w
      BY <2>1, <2>2, <2>4, <3>1
    <3>2. CASE v # w
      BY <2>3, <2>4, <2>5, <3>2 DEF IInv, Builders, Building, Entry
    <3> QED BY <3>1, <3>2
  <2>8. \A u, v \in Writers : Building(u)' /\ Building(v)' /\ wentry'[u] = wentry'[v] => u = v
    BY <2>2, <2>3, <2>5, <2>6 DEF IInv, Builders, Building, Entry
  <2> QED BY <2>2, <2>3, <2>4, <2>7, <2>8 DEF IInv, Builders
<1>4. Accounted'
  BY StagingAssumption DEF IInv, TypeOK, Fresh, Builders, Building, Accounted, Readable,
            BuilderNew, Entry, Actors, HasAttachment, Kinds
<1>5. Uploader'
  BY StagingAssumption DEF IInv, TypeOK, Fresh, Accounted, Uploader, Readable, Sampled,
            BuilderNew, Entry, Actors, HasAttachment, Kinds
<1>6. Exporter'
  BY DEF IInv, Exporter, BuilderNew
<1>7. AtMostOnce'
  BY StagingAssumption DEF IInv, TypeOK, Fresh, Builders, Building, Accounted, Uploader,
     AtMostOnce, Unsent,
            Readable,
            BuilderNew, Entry, Actors, HasAttachment, Kinds
<1> QED BY <1>1, <1>2, <1>3, <1>4, <1>5, <1>6, <1>7 DEF IInv

\* One step of the proof that IInv is inductive: the log writer lists what to evict.
LEMMA LogCleanInv ==
  ASSUME IInv, NEW w \in Writers, LogClean(w)
  PROVE  IInv'
<1>1. TypeOK'
  BY DEF IInv, TypeOK, LogClean, WriterPC, Reasons, Actors, NoClient
<1>2. Fresh'
  BY DEF IInv, Fresh, LogClean
<1>3. Builders'
  BY DEF IInv, TypeOK, Builders, Building, LogClean
<1>4. Accounted'
  BY DEF IInv, Accounted, Readable, LogClean
<1>5. Uploader'
  BY StagingAssumption DEF IInv, TypeOK, Uploader, Sampled, LogClean, Actors, Entry
<1>6. Exporter'
  BY StagingAssumption DEF IInv, TypeOK, Exporter, LogClean, Actors, Entry
<1>7. AtMostOnce'
  BY StagingAssumption DEF IInv, TypeOK, AtMostOnce, Unsent, Readable, LogClean, Actors,
         Entry
<1> QED BY <1>1, <1>2, <1>3, <1>4, <1>5, <1>6, <1>7 DEF IInv

\* One step of the proof that IInv is inductive: the log writer has made room.
LEMMA LogCleanedInv ==
  ASSUME IInv, NEW w \in Writers, LogCleaned(w)
  PROVE  IInv'
<1>1. TypeOK'
  BY DEF IInv, TypeOK, LogCleaned, WriterPC, Reasons, Actors, NoClient
<1>2. Fresh'
  BY DEF IInv, Fresh, LogCleaned
<1>3. Builders'
  <2>1. wpc'[w] = "building" /\ wpc[w] = "cleaning" /\ todo[w] = {}
    BY DEF IInv, TypeOK, LogCleaned
  <2>2. \A v \in Writers : v # w => wpc'[v] = wpc[v]
    BY DEF IInv, TypeOK, LogCleaned
  <2>3. UNCHANGED <<attachment, committed, reason, todo, next, wentry>>
    BY DEF LogCleaned
  <2>4. \A v \in Writers : Building(v)' => Building(v)
    BY <2>1, <2>2 DEF Building
  <2> QED BY <2>1, <2>2, <2>3, <2>4 DEF IInv, Builders
<1>4. Accounted'
  BY DEF IInv, Accounted, Readable, LogCleaned
<1>5. Uploader'
  BY DEF IInv, Uploader, Sampled, LogCleaned
<1>6. Exporter'
  BY DEF IInv, Exporter, LogCleaned
<1>7. AtMostOnce'
  BY DEF IInv, AtMostOnce, Unsent, Readable, LogCleaned
<1> QED BY <1>1, <1>2, <1>3, <1>4, <1>5, <1>6, <1>7 DEF IInv

\* One step of the proof that IInv is inductive: an attachment appears.
LEMMA AttachInv ==
  ASSUME IInv, NEW w \in Writers, Attach(w)
  PROVE  IInv'
<1>1. TypeOK'
  BY DEF IInv, TypeOK, Attach, WriterPC, Reasons, Actors, NoClient
<1>2. Fresh'
  BY DEF IInv, Fresh, Attach
<1>3. Builders'
  BY DEF IInv, TypeOK, Builders, Building, Attach
<1>4. Accounted'
  BY DEF IInv, Accounted, Readable, Attach
<1>5. Uploader'
  BY DEF IInv, Uploader, Sampled, Attach
<1>6. Exporter'
  BY DEF IInv, Exporter, Attach
<1>7. AtMostOnce'
  BY StagingAssumption DEF IInv, TypeOK, Fresh, Builders, Building, Accounted, Uploader,
     AtMostOnce, Unsent,
            Readable,
            Attach, Entry, Actors, HasAttachment, Kinds
<1> QED BY <1>1, <1>2, <1>3, <1>4, <1>5, <1>6, <1>7 DEF IInv

\* One step of the proof that IInv is inductive: the manifest is renamed into place.
LEMMA CommitInv ==
  ASSUME IInv, NEW w \in Writers, Commit(w)
  PROVE  IInv'
<1>1. TypeOK'
  BY DEF IInv, TypeOK, Commit, WriterPC, Reasons, Actors, NoClient
<1>2. Fresh'
  BY DEF IInv, Fresh, Commit
<1>3. Builders'
  BY DEF IInv, TypeOK, Builders, Building, Commit
<1>4. Accounted'
  <2> DEFINE e == wentry[w]
  <2>1. e \in Entry /\ e \notin committed /\ reason[e] # "drop"
    BY DEF IInv, Builders, Building, Commit
  <2>2. e \in dirs /\ e \in manifests' /\ e \in committed'
    BY DEF Commit
  <2>3. HasAttachment(kind[e]) => attachment[e] # "none" \/ reason[e] # "none"
    BY DEF IInv, Builders, Commit
  <2>4. Readable(e)' \/ reason'[e] # "none"
    BY <2>2, <2>3 DEF Commit, Readable
  <2>5. \A d \in committed : Readable(d) => Readable(d)'
    BY DEF Commit, Readable
  <2> QED BY <2>1, <2>4, <2>5 DEF IInv, Accounted, Commit
<1>5. Uploader'
  BY DEF IInv, Uploader, Sampled, Commit
<1>6. Exporter'
  BY DEF IInv, Exporter, Commit
<1>7. AtMostOnce'
  BY StagingAssumption DEF IInv, TypeOK, Fresh, Builders, Building, Accounted, Uploader,
     AtMostOnce, Unsent,
            Readable,
            Commit, Entry, Actors, HasAttachment, Kinds
<1> QED BY <1>1, <1>2, <1>3, <1>4, <1>5, <1>6, <1>7 DEF IInv

\* One step of the proof that IInv is inductive: the end of an attachment is written.
LEMMA FlushAttachmentInv ==
  ASSUME IInv, NEW w \in Writers, FlushAttachment(w)
  PROVE  IInv'
<1>1. TypeOK'
  BY DEF IInv, TypeOK, FlushAttachment, WriterPC, Reasons, Actors, NoClient
<1>2. Fresh'
  BY DEF IInv, Fresh, FlushAttachment
<1>3. Builders'
  BY DEF IInv, Builders, Building, FlushAttachment
<1>4. Accounted'
  BY DEF IInv, Accounted, Readable, FlushAttachment
<1>5. Uploader'
  BY DEF IInv, Uploader, Sampled, FlushAttachment
<1>6. Exporter'
  BY DEF IInv, Exporter, FlushAttachment
<1>7. AtMostOnce'
  BY DEF IInv, AtMostOnce, Unsent, Readable, FlushAttachment
<1> QED BY <1>1, <1>2, <1>3, <1>4, <1>5, <1>6, <1>7 DEF IInv

\* One step of the proof that IInv is inductive: a builder gives up.
LEMMA BuildFailsInv ==
  ASSUME IInv, NEW w \in Writers, BuildFails(w)
  PROVE  IInv'
<1>1. TypeOK'
  <2>1. wentry[w] \in Entry
    BY DEF IInv, Builders, Building, BuildFails
  <2>2. todo' \in [Actors -> SUBSET Entry]
    BY <2>1 DEF IInv, TypeOK, BuildFails, Actors
  <2> QED BY <2>2 DEF IInv, TypeOK, BuildFails, WriterPC
<1>2. Fresh'
  <2>1. wentry[w] \in Entry /\ wentry[w] < next
    BY DEF IInv, Builders, Building, BuildFails
  <2> QED BY <2>1 DEF IInv, TypeOK, Fresh, BuildFails, Entry, Actors
<1>3. Builders'
  BY DEF IInv, TypeOK, Builders, Building, BuildFails
<1>4. Accounted'
  BY DEF IInv, Accounted, Readable, BuildFails
<1>5. Uploader'
  BY StagingAssumption DEF IInv, TypeOK, Uploader, Sampled, BuildFails, Actors, Entry
<1>6. Exporter'
  BY StagingAssumption DEF IInv, TypeOK, Exporter, BuildFails, Actors, Entry
<1>7. AtMostOnce'
  BY StagingAssumption DEF IInv, TypeOK, AtMostOnce, Unsent, Readable, BuildFails,
         Actors, Entry
<1> QED BY <1>1, <1>2, <1>3, <1>4, <1>5, <1>6, <1>7 DEF IInv

\* One step of the proof that IInv is inductive: the directory of a failed builder is gone.
LEMMA DroppedInv ==
  ASSUME IInv, NEW w \in Writers, Dropped(w)
  PROVE  IInv'
<1>1. TypeOK'
  BY DEF IInv, TypeOK, Dropped, WriterPC, Reasons, Actors, NoClient
<1>2. Fresh'
  BY DEF IInv, Fresh, Dropped
<1>3. Builders'
  BY DEF IInv, Builders, Building, Dropped
<1>4. Accounted'
  BY DEF IInv, Accounted, Readable, Dropped
<1>5. Uploader'
  BY DEF IInv, Uploader, Sampled, Dropped
<1>6. Exporter'
  BY DEF IInv, Exporter, Dropped
<1>7. AtMostOnce'
  BY DEF IInv, AtMostOnce, Unsent, Readable, Dropped
<1> QED BY <1>1, <1>2, <1>3, <1>4, <1>5, <1>6, <1>7 DEF IInv

\* One step of the proof that IInv is inductive: the core handler is killed.
LEMMA HandlerKilledInv ==
  ASSUME IInv, NEW w \in Writers, HandlerKilled(w)
  PROVE  IInv'
<1>1. TypeOK'
  BY DEF IInv, TypeOK, HandlerKilled, WriterPC, Reasons, Actors, NoClient
<1>2. Fresh'
  BY DEF IInv, Fresh, HandlerKilled
<1>3. Builders'
  BY DEF IInv, TypeOK, Builders, Building, HandlerKilled, Actors, Entry
<1>4. Accounted'
  BY DEF IInv, Accounted, Readable, HandlerKilled
<1>5. Uploader'
  BY DEF IInv, Uploader, Sampled, HandlerKilled
<1>6. Exporter'
  BY DEF IInv, Exporter, HandlerKilled
<1>7. AtMostOnce'
  BY StagingAssumption DEF IInv, TypeOK, AtMostOnce, Unsent, Readable, HandlerKilled,
         Actors, Entry
<1> QED BY <1>1, <1>2, <1>3, <1>4, <1>5, <1>6, <1>7 DEF IInv

\* One step of the proof that IInv is inductive: new sampling settings.
LEMMA RefreshDeviceConfigInv ==
  ASSUME IInv, RefreshDeviceConfig
  PROVE  IInv'
<1>1. TypeOK'
  BY DEF IInv, TypeOK, RefreshDeviceConfig, WriterPC, Reasons, Actors, NoClient
<1>2. Fresh'
  BY DEF IInv, Fresh, RefreshDeviceConfig
<1>3. Builders'
  BY DEF IInv, Builders, Building, RefreshDeviceConfig
<1>4. Accounted'
  BY DEF IInv, Accounted, Readable, RefreshDeviceConfig
<1>5. Uploader'
  BY DEF IInv, Uploader, Sampled, RefreshDeviceConfig
<1>6. Exporter'
  BY DEF IInv, Exporter, RefreshDeviceConfig
<1>7. AtMostOnce'
  BY DEF IInv, AtMostOnce, Unsent, Readable, RefreshDeviceConfig
<1> QED BY <1>1, <1>2, <1>3, <1>4, <1>5, <1>6, <1>7 DEF IInv

\* One step of the proof that IInv is inductive: the main loop lists what to evict.
LEMMA MainCleanInv ==
  ASSUME IInv, MainClean
  PROVE  IInv'
<1>1. TypeOK'
  BY DEF IInv, TypeOK, MainClean, WriterPC, Reasons, Actors, NoClient
<1>2. Fresh'
  BY DEF IInv, Fresh, MainClean
<1>3. Builders'
  BY StagingAssumption DEF IInv, TypeOK, Builders, Building, MainClean, Actors, Entry
<1>4. Accounted'
  BY DEF IInv, Accounted, Readable, MainClean
<1>5. Uploader'
  BY DEF IInv, Uploader, Sampled, MainClean
<1>6. Exporter'
  BY DEF IInv, Exporter, MainClean
<1>7. AtMostOnce'
  BY DEF IInv, AtMostOnce, Unsent, Readable, MainClean
<1> QED BY <1>1, <1>2, <1>3, <1>4, <1>5, <1>6, <1>7 DEF IInv

\* One step of the proof that IInv is inductive: the staging directory is read.
LEMMA ListStagingInv ==
  ASSUME IInv, ListStaging
  PROVE  IInv'
<1>1. TypeOK'
  BY DEF IInv, TypeOK, ListStaging, WriterPC, Reasons, Actors, NoClient
<1>2. Fresh'
  BY DEF IInv, Fresh, ListStaging
<1>3. Builders'
  BY DEF IInv, Builders, Building, ListStaging
<1>4. Accounted'
  BY DEF IInv, Accounted, Readable, ListStaging
<1>5. Uploader'
  BY DEF IInv, Uploader, Sampled, ListStaging
<1>6. Exporter'
  BY DEF IInv, Exporter, ListStaging
<1>7. AtMostOnce'
  BY DEF IInv, AtMostOnce, Unsent, Readable, ListStaging
<1> QED BY <1>1, <1>2, <1>3, <1>4, <1>5, <1>6, <1>7 DEF IInv

\* One step of the proof that IInv is inductive: an entry is added to a zip or skipped.
LEMMA GatherEntryInv ==
  ASSUME IInv, GatherEntry
  PROVE  IInv'
<1> PICK e \in listing : listing' = listing \ {e} /\ (AddToZip(e) \/ SkipEntry(e))
  BY DEF GatherEntry
<1> e \in Entry
  BY DEF IInv, TypeOK
<1>a. CASE SkipEntry(e)
  <2>1. TypeOK'
    BY <1>a DEF IInv, TypeOK, GatherEntry, SkipEntry
  <2>2. Uploader'
    BY <1>a DEF IInv, Uploader, Sampled, GatherEntry, SkipEntry
  <2>3. AtMostOnce'
    BY <1>a DEF IInv, AtMostOnce, Unsent, Readable, GatherEntry, SkipEntry
  <2>4. (Fresh /\ Builders /\ Accounted /\ Exporter)'
    BY DEF IInv, Fresh, Builders, Building, Accounted, Exporter, Readable, GatherEntry
  <2> QED BY <2>1, <2>2, <2>3, <2>4 DEF IInv
<1>b. ASSUME AddToZip(e) PROVE IInv'
  <2>0. TypeOK /\ Readable(e) /\ Sampled(e) /\ e \in committed
    BY <1>b DEF IInv, AddToZip, Accounted, Readable
  <2>1. PICK k \in 1..Len(zips') :
          /\ \A i \in 1..Len(zips') :
               i # k => i \in 1..Len(zips) /\ zips'[i] = zips[i]
          /\ \/ zips'[k] = {e}
             \/ k \in 1..Len(zips) /\ zips'[k] = zips[k] \cup {e}
    BY <1>b, <2>0, AddToZipExtends
  <2>2. \A i \in 1..Len(zips') : \A d \in zips'[i] :
          d = e \/ (i \in 1..Len(zips) /\ d \in zips[i])
    BY <2>1
  <2>3. mpc = "gathering" /\ mpc' = "gathering"
    BY DEF GatherEntry
  <2>4. TypeOK'
    <3>1. zips' \in Seq(SUBSET Entry) /\ zipSize' \in Nat
      BY <1>b, <2>0, AddToZipExtends
    <3>2. listing' \subseteq Entry
      BY <1>b, <2>0 DEF AddToZip, TypeOK
    <3> QED BY <2>0, <3>1, <3>2 DEF TypeOK, GatherEntry
  <2>5. Uploader'
    <3>1. \A i \in 1..Len(zips') : \A d \in zips'[i] : d \in committed /\ Sampled(d)
      BY <2>0, <2>2 DEF IInv, Uploader
    <3> QED BY <2>3, <3>1 DEF IInv, Uploader, Sampled, GatherEntry
  <2>6. AtMostOnce'
    <3>1. \A i \in 1..Len(zips) : e \notin zips[i]
      BY DEF IInv, AtMostOnce
    <3>2. received[e] <= faults
      BY <2>0, <2>3 DEF IInv, AtMostOnce
    <3>3. \A i \in 1..Len(zips') : \A d \in zips'[i] : received[d] <= faults
      BY <2>2, <2>3, <3>2 DEF IInv, AtMostOnce, Unsent
    <3>4. \A i, j \in 1..Len(zips') : i # j => zips'[i] \cap zips'[j] = {}
      BY <2>1, <3>1 DEF IInv, AtMostOnce
    <3>5. \A i \in 1..Len(zips') : zips'[i] \cap listing' = {}
      BY <2>2 DEF IInv, AtMostOnce
    <3>6. \A d \in Entry : Readable(d)' => received[d] <= faults
      BY <2>3 DEF IInv, AtMostOnce, Readable, GatherEntry
    <3> QED BY <2>3, <3>3, <3>4, <3>5, <3>6 DEF IInv, AtMostOnce, Unsent, GatherEntry
  <2>8. (Fresh /\ Builders /\ Accounted /\ Exporter)'
    BY DEF IInv, Fresh, Builders, Building, Accounted, Exporter, Readable, GatherEntry
  <2> QED BY <2>4, <2>5, <2>6, <2>8 DEF IInv
<1> QED BY <1>a, <1>b

\* One step of the proof that IInv is inductive: the zips are complete.
LEMMA GatherDoneInv ==
  ASSUME IInv, GatherDone
  PROVE  IInv'
<1>1. TypeOK'
  BY DEF IInv, TypeOK, GatherDone, WriterPC, Reasons, Actors, NoClient
<1>2. Fresh'
  BY DEF IInv, Fresh, GatherDone
<1>3. Builders'
  BY DEF IInv, Builders, Building, GatherDone
<1>4. Accounted'
  BY DEF IInv, Accounted, Readable, GatherDone
<1>5. Uploader'
  BY DEF IInv, Uploader, Sampled, GatherDone
<1>6. Exporter'
  BY DEF IInv, Exporter, GatherDone
<1>7. AtMostOnce'
  BY DEF IInv, AtMostOnce, Unsent, Readable, GatherDone
<1> QED BY <1>1, <1>2, <1>3, <1>4, <1>5, <1>6, <1>7 DEF IInv

\* One step of the proof that IInv is inductive: an entry is read into the request body.
LEMMA StreamEntryInv ==
  ASSUME IInv, StreamEntry
  PROVE  IInv'
<1>1. Head(zips) \subseteq Entry /\ mpc = "uploading"
  BY HeadIsCommitted DEF StreamEntry
<1>2. CASE AbortUpload
  <2>1. TypeOK'
    BY <1>2 DEF IInv, TypeOK, StreamEntry, AbortUpload
  <2>2. Uploader'
    BY <1>1, <1>2 DEF IInv, Uploader, Sampled, StreamEntry, AbortUpload
  <2>3. AtMostOnce'
    BY <1>1, <1>2 DEF IInv, AtMostOnce, Unsent, Readable, StreamEntry, AbortUpload
  <2>4. (Fresh /\ Builders /\ Accounted /\ Exporter)'
    BY <1>2 DEF IInv, Fresh, Builders, Building, Accounted, Exporter, Readable,
                StreamEntry, AbortUpload
  <2> QED BY <2>1, <2>2, <2>3, <2>4 DEF IInv
<1>3. CASE UNCHANGED <<mpc, listing, zips, zipSize, sampling>>
           /\ \E e \in Head(zips) : streamed' = streamed \cup {e}
  <2>1. TypeOK'
    BY <1>1, <1>3 DEF IInv, TypeOK, StreamEntry
  <2>2. Uploader'
    BY <1>3 DEF IInv, Uploader, Sampled, StreamEntry
  <2>3. AtMostOnce'
    BY <1>3 DEF IInv, AtMostOnce, Unsent, Readable, StreamEntry
  <2>4. (Fresh /\ Builders /\ Accounted /\ Exporter)'
    BY <1>3 DEF IInv, Fresh, Builders, Building, Accounted, Exporter, Readable,
                StreamEntry
  <2> QED BY <2>1, <2>2, <2>3, <2>4 DEF IInv
<1> QED BY <1>2, <1>3 DEF StreamEntry

\* One step of the proof that IInv is inductive: the server accepts a zip.
LEMMA UploadOkInv ==
  ASSUME IInv, UploadOk
  PROVE  IInv'
<1>0. /\ mpc = "uploading" /\ mpc' = "deleting" /\ zips \in Seq(SUBSET Entry)
      /\ zips # <<>> /\ 1 \in 1..Len(zips) /\ Head(zips) = zips[1]
      /\ Head(zips) \subseteq Entry /\ Head(zips) \subseteq committed
  BY HeadIsCommitted DEF UploadOk
<1>1. TypeOK'
  BY <1>0 DEF IInv, TypeOK, UploadOk, ServerReceives, Actors
<1>2. Fresh'
  BY <1>0 DEF IInv, TypeOK, Fresh, UploadOk, Actors
<1>3. Builders'
  BY StagingAssumption DEF IInv, TypeOK, Builders, Building, UploadOk, ServerReceives,
         Actors, Entry
<1>4. Accounted'
  BY DEF IInv, Accounted, Readable, UploadOk, ServerReceives
<1>5. Uploader'
  <2>1. received \in [Entry -> Nat]
    BY DEF IInv, TypeOK
  <2>2. \A e \in Entry : received'[e] = IF e \in zips[1] THEN received[e] + 1
                                                         ELSE received[e]
    BY <1>0 DEF UploadOk, ServerReceives
  <2>3. \A e \in Entry : received'[e] > 0 => e \in committed
    BY <1>0, <2>2 DEF IInv, Uploader
  <2>4. \A e \in Entry : received[e] > 0 => received'[e] > 0
    BY <2>1, <2>2
  <2>5. todo'["main"] = zips[1]
    BY <1>0 DEF IInv, TypeOK, UploadOk, Actors
  <2>6. \A e \in zips[1] : received'[e] > 0
    BY <1>0, <2>1, <2>2
  <2>7. \A i \in 1..Len(zips) : \A e \in zips[i] : e \in committed /\ Sampled(e)
    BY DEF IInv, Uploader
  <2>8. UNCHANGED <<zips, committed, reason, kind, sampling>>
    BY DEF UploadOk
  <2>9. \A e \in Entry : reason'[e] = "upload" => received'[e] > 0
    BY <2>4, <2>8 DEF IInv, Uploader
  <2> QED BY <1>0, <2>3, <2>5, <2>6, <2>7, <2>8, <2>9 DEF Uploader, Sampled
<1>6. Exporter'
  BY DEF IInv, Exporter, UploadOk, ServerReceives
<1>7. AtMostOnce'
  <2>1. \A e \in zips[1] : received[e] <= faults
    BY <1>0 DEF IInv, AtMostOnce, Unsent
  <2>2. \A e \in Entry : received'[e] = IF e \in zips[1] THEN received[e] + 1
                                                         ELSE received[e]
    BY <1>0 DEF UploadOk, ServerReceives
  <2>3. \A e \in Entry : received'[e] <= 1 + faults
    <3>1. faults \in Nat /\ received \in [Entry -> Nat]
      BY StagingAssumption DEF IInv, TypeOK
    <3>2. \A e \in Entry : received[e] <= 1 + faults
      BY DEF IInv, AtMostOnce
    <3> QED BY <2>1, <2>2, <3>1, <3>2
  <2>4. \A e \in Entry : Readable(e) /\ e \notin zips[1] => received'[e] <= faults
    BY <1>0, <2>2 DEF IInv, AtMostOnce
  <2>5. Len(zips) \in Nat
    BY <1>0, HeadTail
  <2>6. \A i \in 2..Len(zips) : \A e \in zips[i] :
          e \in Entry /\ e \notin zips[1] /\ received[e] <= faults
    BY <1>0, <2>5 DEF IInv, AtMostOnce, Unsent
  <2>7. \A i \in 2..Len(zips) : \A e \in zips[i] : received'[e] <= faults
    BY <2>2, <2>6
  <2>8. todo'["main"] = zips[1] /\ zips' = zips /\ listing' = listing /\ faults' = faults
    BY <1>0 DEF IInv, TypeOK, UploadOk, Actors
  <2>9. \A e \in Entry : Readable(e)' <=> Readable(e)
    BY DEF UploadOk, Readable
  <2> QED BY <1>0, <2>3, <2>4, <2>7, <2>8, <2>9 DEF IInv, AtMostOnce, Unsent
<1> QED BY <1>1, <1>2, <1>3, <1>4, <1>5, <1>6, <1>7 DEF IInv

\* One step of the proof that IInv is inductive: an upload fails.
LEMMA UploadFailsInv ==
  ASSUME IInv, UploadFails
  PROVE  IInv'
<1>1. TypeOK'
  BY DEF IInv, TypeOK, UploadFails, AbortUpload, WriterPC, Reasons, Actors, NoClient
<1>2. Fresh'
  BY DEF IInv, Fresh, UploadFails, AbortUpload
<1>3. Builders'
  BY DEF IInv, Builders, Building, UploadFails, AbortUpload
<1>4. Accounted'
  BY DEF IInv, Accounted, Readable, UploadFails, AbortUpload
<1>5. Uploader'
  BY DEF IInv, Uploader, Sampled, UploadFails, AbortUpload
<1>6. Exporter'
  BY DEF IInv, Exporter, UploadFails, AbortUpload
<1>7. AtMostOnce'
  BY DEF IInv, AtMostOnce, Unsent, Readable, UploadFails, AbortUpload
<1> QED BY <1>1, <1>2, <1>3, <1>4, <1>5, <1>6, <1>7 DEF IInv

\* One step of the proof that IInv is inductive: the answer to an upload is lost.
LEMMA UploadResponseLostInv ==
  ASSUME IInv, UploadResponseLost
  PROVE  IInv'
<1>0. /\ mpc = "uploading" /\ zips \in Seq(SUBSET Entry)
      /\ zips # <<>> /\ 1 \in 1..Len(zips) /\ Head(zips) = zips[1]
      /\ Head(zips) \subseteq Entry /\ Head(zips) \subseteq committed
  BY HeadIsCommitted DEF UploadResponseLost
<1>1. TypeOK'
  <2>1. received' \in [Entry -> Nat]
    BY <1>0 DEF IInv, TypeOK, UploadResponseLost, ServerReceives
  <2>2. faults' \in 0..MaxFaults
    BY StagingAssumption DEF IInv, TypeOK, UploadResponseLost
  <2>3. zips' \in Seq(SUBSET Entry)
    BY DEF UploadResponseLost, AbortUpload
  <2> QED BY <2>1, <2>2, <2>3 DEF IInv, TypeOK, UploadResponseLost, AbortUpload
<1>2. Fresh'
  BY DEF IInv, Fresh, UploadResponseLost, AbortUpload, ServerReceives
<1>3. Builders'
  BY DEF IInv, Builders, Building, UploadResponseLost, AbortUpload, ServerReceives
<1>4. Accounted'
  BY DEF IInv, Accounted, Readable, UploadResponseLost, AbortUpload, ServerReceives
<1>5. Uploader'
  <2>1. received \in [Entry -> Nat]
    BY DEF IInv, TypeOK
  <2>2. \A e \in Entry : received'[e] = IF e \in zips[1] THEN received[e] + 1
                                                         ELSE received[e]
    BY <1>0 DEF UploadResponseLost, ServerReceives
  <2>3. \A e \in Entry : received'[e] > 0 => e \in committed
    BY <1>0, <2>2 DEF IInv, Uploader
  <2>4. \A e \in Entry : received[e] > 0 => received'[e] > 0
    BY <2>1, <2>2
  <2>5. /\ mpc' = "idle" /\ zips' = <<>> /\ Len(zips') = 0
        /\ UNCHANGED <<todo, committed, reason>>
    BY DEF UploadResponseLost, AbortUpload
  <2>6. todo'["main"] = {}
    BY <1>0, <2>5 DEF IInv, Uploader
  <2>7. \A e \in Entry : reason'[e] = "upload" => received'[e] > 0
    BY <2>4, <2>5 DEF IInv, Uploader
  <2> QED BY <2>3, <2>5, <2>6, <2>7 DEF Uploader
<1>6. Exporter'
  BY DEF IInv, Exporter, UploadResponseLost, AbortUpload, ServerReceives
<1>7. AtMostOnce'
  <2>1. \A e \in zips[1] : received[e] <= faults
    BY <1>0 DEF IInv, AtMostOnce, Unsent
  <2>2. \A e \in Entry : received'[e] = IF e \in zips[1] THEN received[e] + 1
                                                         ELSE received[e]
    BY <1>0 DEF UploadResponseLost, ServerReceives
  <2>3. faults \in Nat /\ faults' = faults + 1
    BY StagingAssumption DEF IInv, TypeOK, UploadResponseLost
  <2>4. \A e \in Entry : received'[e] <= 1 + faults'
    <3>1. received \in [Entry -> Nat]
      BY DEF IInv, TypeOK
    <3>2. \A e \in Entry : received[e] <= 1 + faults
      BY DEF IInv, AtMostOnce
    <3> QED BY <2>1, <2>2, <2>3, <3>1, <3>2
  <2>5. \A e \in Entry : Readable(e) => received'[e] <= faults'
    BY <1>0, <2>1, <2>2, <2>3 DEF IInv, TypeOK, AtMostOnce
  <2>6. \A e \in Entry : Readable(e)' <=> Readable(e)
    BY DEF UploadResponseLost, Readable
  <2>7. Len(zips') = 0 /\ mpc' = "idle"
    BY DEF UploadResponseLost, AbortUpload
  <2> QED BY <2>4, <2>5, <2>6, <2>7 DEF AtMostOnce, Unsent
<1> QED BY <1>1, <1>2, <1>3, <1>4, <1>5, <1>6, <1>7 DEF IInv

\* One step of the proof that IInv is inductive: an uploaded zip is deleted.
LEMMA ZipDeletedInv ==
  ASSUME IInv, ZipDeleted
  PROVE  IInv'
<1>0. /\ zips \in Seq(SUBSET Entry) /\ zips # <<>> /\ zips' = Tail(zips)
      /\ mpc = "deleting" /\ todo["main"] = {}
  BY HeadIsCommitted DEF ZipDeleted
<1>a. /\ Len(zips) \in Nat /\ Len(zips) >= 1
      /\ zips' \in Seq(SUBSET Entry) /\ Len(zips') = Len(zips) - 1
      /\ \A i \in 1..(Len(zips) - 1) : zips'[i] = zips[i + 1]
  BY <1>0, HeadTail
<1>b. \A i \in 1..Len(zips') : i + 1 \in 2..Len(zips) /\ zips'[i] = zips[i + 1]
  BY <1>a
<1>c. IF Len(zips') = 0 THEN mpc' = "idle" /\ zips' = <<>>
                        ELSE mpc' = "uploading" /\ zips' # <<>>
  <2>1. Len(zips') = 0 <=> zips' = <<>>
    BY <1>a, EmptySeq
  <2>2. mpc' = IF Len(zips) = 1 THEN "idle" ELSE "uploading"
    BY DEF ZipDeleted
  <2> QED BY <1>a, <2>1, <2>2
<1>1. TypeOK'
  BY <1>a DEF IInv, TypeOK, ZipDeleted
<1>2. Fresh'
  BY DEF IInv, Fresh, ZipDeleted
<1>3. Builders'
  BY DEF IInv, Builders, Building, ZipDeleted
<1>4. Accounted'
  BY DEF IInv, Accounted, Readable, ZipDeleted
<1>5. Uploader'
  <2>1. \A i \in 1..Len(zips') : \A e \in zips'[i] : e \in committed /\ Sampled(e)
    BY <1>a, <1>b DEF IInv, Uploader
  <2> QED BY <1>0, <1>c, <2>1 DEF IInv, Uploader, Sampled, ZipDeleted
<1>6. Exporter'
  BY DEF IInv, Exporter, ZipDeleted
<1>7. AtMostOnce'
  <2>1. \A i \in 1..Len(zips') : \A e \in zips'[i] : received[e] <= faults
    BY <1>0, <1>b DEF IInv, AtMostOnce, Unsent
  <2>2. ASSUME NEW i \in 1..Len(zips'), NEW j \in 1..Len(zips'), i # j
        PROVE  zips'[i] \cap zips'[j] = {}
    <3>1. i + 1 \in 1..Len(zips) /\ j + 1 \in 1..Len(zips) /\ i + 1 # j + 1
      BY <1>a, <2>2
    <3>2. zips[i + 1] \cap zips[j + 1] = {}
      BY <3>1 DEF IInv, AtMostOnce
    <3> QED BY <1>b, <3>2
  <2>3. \A i \in 1..Len(zips') : zips'[i] \cap listing = {}
    BY <1>a, <1>b DEF IInv, AtMostOnce
  <2>4. \A e \in Entry : Readable(e) => received[e] <= faults
    BY <1>0 DEF IInv, AtMostOnce
  <2> QED BY <1>c, <2>1, <2>2, <2>3, <2>4
          DEF IInv, AtMostOnce, Unsent, Readable, ZipDeleted
<1> QED BY <1>1, <1>2, <1>3, <1>4, <1>5, <1>6, <1>7 DEF IInv

\* One step of the proof that IInv is inductive: a client asks for an export.
LEMMA ExportGetInv ==
  ASSUME IInv, NEW c \in Clients, ExportGet(c)
  PROVE  IInv'
<1>1. TypeOK'
  BY OfferIsCommitted DEF IInv, TypeOK, ExportGet
<1>2. Fresh'
  BY DEF IInv, Fresh, ExportGet, Offer, FirstZip
<1>3. Builders'
  BY DEF IInv, Builders, Building, ExportGet, Offer, FirstZip
<1>4. Accounted'
  BY DEF IInv, Accounted, Readable, ExportGet, Offer, FirstZip
<1>5. Uploader'
  BY DEF IInv, Uploader, Sampled, ExportGet, Offer, FirstZip
<1>6. Exporter'
  <2>1. Offer \subseteq committed /\ hpc = "idle" /\ todo["http"] = {}
    BY OfferIsCommitted DEF IInv, Exporter, ExportGet
  <2>2. CASE UNCHANGED <<hpc, hclient, hleft, token, have>>
    BY <2>1, <2>2 DEF IInv, Exporter, ExportGet
  <2>3. CASE /\ hpc' = "streaming" /\ hclient' = c /\ hleft' = Offer
             /\ token' = [token EXCEPT ![c] = Offer]
             /\ have' = [have EXCEPT ![c] = {}]
    <3>1. \A d \in Clients : have'[d] \subseteq downloaded
      BY <2>3 DEF IInv, TypeOK, Exporter
    <3>2. \A d \in Clients : token'[d] \subseteq
             have'[d] \cup (IF hclient' = d THEN hleft' ELSE {})
      BY <2>1, <2>3 DEF IInv, TypeOK, Exporter
    <3> QED BY <2>1, <2>3, <3>1, <3>2 DEF IInv, Exporter, ExportGet
  <2> QED BY <2>2, <2>3 DEF ExportGet
<1>7. AtMostOnce'
  BY DEF IInv, AtMostOnce, Unsent, Readable, ExportGet, Offer, FirstZip
<1> QED BY <1>1, <1>2, <1>3, <1>4, <1>5, <1>6, <1>7 DEF IInv

\* One step of the proof that IInv is inductive: an entry is sent to a client.
LEMMA ExportStreamInv ==
  ASSUME IInv, ExportStream
  PROVE  IInv'
<1>1. TypeOK'
  BY DEF IInv, TypeOK, ExportStream, WriterPC, Reasons, Actors, NoClient
<1>2. Fresh'
  BY DEF IInv, Fresh, ExportStream
<1>3. Builders'
  BY DEF IInv, Builders, Building, ExportStream
<1>4. Accounted'
  BY DEF IInv, Accounted, Readable, ExportStream
<1>5. Uploader'
  BY DEF IInv, Uploader, Sampled, ExportStream
<1>6. Exporter'
  <2>1. hclient \in Clients /\ hpc = "streaming" /\ todo["http"] = {}
    BY DEF IInv, Exporter, ExportStream
  <2>2. PICK e \in hleft :
          \/ /\ hleft' = hleft \ {e}
             /\ have' = [have EXCEPT ![hclient] = @ \cup {e}]
             /\ downloaded' = downloaded \cup {e}
             /\ hpc' = IF hleft = {e} THEN "idle" ELSE hpc
             /\ UNCHANGED token
          \/ /\ hpc' = "idle" /\ hleft' = {}
             /\ token' = [token EXCEPT ![hclient] = {}]
             /\ have' = [have EXCEPT ![hclient] = {}]
             /\ UNCHANGED downloaded
    BY DEF ExportStream
  <2>3. ASSUME NEW c \in Clients PROVE have'[c] \subseteq downloaded'
    <3>1. have \in [Clients -> SUBSET Entry] /\ have[c] \subseteq downloaded
      BY DEF IInv, TypeOK, Exporter
    <3>2. have'[c] \subseteq have[c] \cup {e} /\ (e \in have'[c] => e \in have[c] \cup downloaded')
      BY <2>1, <2>2, <3>1
    <3> QED BY <2>2, <3>1, <3>2
  <2>4. \A c \in Clients : token'[c] \subseteq
           have'[c] \cup (IF hpc' = "streaming" /\ hclient = c THEN hleft' ELSE {})
    BY <2>1, <2>2 DEF IInv, TypeOK, Exporter
  <2>5. hpc' # "deleting"
    BY <2>1, <2>2
  <2> QED BY <2>1, <2>2, <2>3, <2>4, <2>5 DEF IInv, Exporter, ExportStream
<1>7. AtMostOnce'
  BY DEF IInv, AtMostOnce, Unsent, Readable, ExportStream
<1> QED BY <1>1, <1>2, <1>3, <1>4, <1>5, <1>6, <1>7 DEF IInv

\* One step of the proof that IInv is inductive: a client asks for a deletion.
LEMMA ExportDeleteInv ==
  ASSUME IInv, NEW c \in Clients, ExportDelete(c)
  PROVE  IInv'
<1>0. \/ /\ todo' = [todo EXCEPT !["http"] = export] /\ export' = {}
         /\ hpc' = "deleting" /\ hclient' = c
         /\ c \in CarefulClients => token[c] = export
      \/ UNCHANGED <<todo, export, hpc, hclient>>
  BY DEF ExportDelete
<1>a. /\ "http" \in Actors /\ "http" \notin Writers /\ "main" # "http"
      /\ export \subseteq committed /\ export \subseteq Entry /\ hpc = "idle"
  BY StagingAssumption DEF IInv, TypeOK, Exporter, Actors, ExportDelete
<1>b. /\ \A b \in Actors \ {"http"} : todo'[b] = todo[b]
      /\ todo'["http"] \subseteq committed
      /\ todo' \in [Actors -> SUBSET Entry]
  BY <1>0, <1>a DEF IInv, TypeOK, Exporter
<1>1. TypeOK'
  BY <1>0, <1>b DEF IInv, TypeOK, ExportDelete
<1>2. Fresh'
  BY <1>b DEF IInv, Fresh, ExportDelete
<1>3. Builders'
  <2>1. \A w \in Writers : todo'[w] = todo[w]
    BY <1>a, <1>b DEF Actors
  <2> QED BY <2>1 DEF IInv, Builders, Building, ExportDelete
<1>4. Accounted'
  BY DEF IInv, Accounted, Readable, ExportDelete
<1>5. Uploader'
  <2>1. todo'["main"] = todo["main"]
    BY <1>a, <1>b DEF Actors
  <2> QED BY <2>1 DEF IInv, Uploader, Sampled, ExportDelete
<1>6. Exporter'
  <2>1. token[c] \subseteq have[c]
    BY <1>a DEF IInv, Exporter
  <2>2. \A d \in Clients : token'[d] \subseteq have[d]
    BY <1>a DEF IInv, TypeOK, Exporter, ExportDelete
  <2>3. todo["http"] = {}
    BY <1>a DEF IInv, Exporter
  <2>4. CASE UNCHANGED <<todo, export, hpc, hclient>>
    BY <1>a, <2>2, <2>3, <2>4 DEF IInv, Exporter, ExportDelete
  <2>5. CASE /\ todo' = [todo EXCEPT !["http"] = export] /\ export' = {}
             /\ hpc' = "deleting" /\ hclient' = c
             /\ c \in CarefulClients => token[c] = export
    <3>1. todo'["http"] = export
      BY <1>a, <2>5 DEF IInv, TypeOK
    <3> QED BY <1>a, <2>1, <2>2, <2>5, <3>1 DEF IInv, Exporter, ExportDelete
  <2> QED BY <1>0, <2>4, <2>5
<1>7. AtMostOnce'
  <2>1. todo'["main"] = todo["main"]
    BY <1>a, <1>b DEF Actors
  <2> QED BY <2>1 DEF IInv, AtMostOnce, Unsent, Readable, ExportDelete
<1> QED BY <1>1, <1>2, <1>3, <1>4, <1>5, <1>6, <1>7 DEF IInv

\* One step of the proof that IInv is inductive: an export is deleted.
LEMMA ExportDeletedInv ==
  ASSUME IInv, ExportDeleted
  PROVE  IInv'
<1>1. TypeOK'
  BY DEF IInv, TypeOK, ExportDeleted, WriterPC, Reasons, Actors, NoClient
<1>2. Fresh'
  BY DEF IInv, Fresh, ExportDeleted
<1>3. Builders'
  BY DEF IInv, Builders, Building, ExportDeleted
<1>4. Accounted'
  BY DEF IInv, Accounted, Readable, ExportDeleted
<1>5. Uploader'
  BY DEF IInv, Uploader, Sampled, ExportDeleted
<1>6. Exporter'
  BY DEF IInv, Exporter, ExportDeleted
<1>7. AtMostOnce'
  BY DEF IInv, AtMostOnce, Unsent, Readable, ExportDeleted
<1> QED BY <1>1, <1>2, <1>3, <1>4, <1>5, <1>6, <1>7 DEF IInv

\* One step of the proof that IInv is inductive: a client goes away.
LEMMA ClientLeavesInv ==
  ASSUME IInv, NEW c \in Clients, ClientLeaves(c)
  PROVE  IInv'
<1>1. TypeOK'
  BY DEF IInv, TypeOK, ClientLeaves, WriterPC, Reasons, Actors, NoClient
<1>2. Fresh'
  BY DEF IInv, Fresh, ClientLeaves
<1>3. Builders'
  BY DEF IInv, Builders, Building, ClientLeaves
<1>4. Accounted'
  BY DEF IInv, Accounted, Readable, ClientLeaves
<1>5. Uploader'
  BY DEF IInv, Uploader, Sampled, ClientLeaves
<1>6. Exporter'
  BY DEF IInv, Exporter, ClientLeaves
<1>7. AtMostOnce'
  BY DEF IInv, AtMostOnce, Unsent, Readable, ClientLeaves
<1> QED BY <1>1, <1>2, <1>3, <1>4, <1>5, <1>6, <1>7 DEF IInv

\* Whoever is blamed for the removal of an entry had a right to remove it: the
\* history variable reason keeps telling the truth.
LEMMA BlameIsJust ==
  ASSUME IInv, NEW a \in Actors, NEW e \in todo[a], Blame(a, e)
  PROVE  /\ reason' \in [Entry -> Reasons] /\ reason'[e] # "none"
         /\ \A d \in Entry : d # e => reason'[d] = reason[d]
         /\ \A d \in Entry : reason'[d] = "none" => reason[d] = "none"
         /\ \A d \in Entry : reason'[d] = "upload" => received[d] > 0
         /\ \A d \in Entry : reason'[d] = "export" => d \in downloaded
         /\ \A d \in Entry : reason'[d] \in {"export", "blind"} => d \in committed
         /\ \A d \in committed : reason'[d] # "drop"
         /\ \A w \in Writers : Building(w) /\ wpc[w] # "dropping"
                                 => reason'[wentry[w]] # "drop"
<1>1. /\ e \in Entry /\ reason \in [Entry -> Reasons] /\ committed \subseteq Entry
      /\ reason' = [reason EXCEPT ![e] = IF reason[e] = "none" THEN Purpose(a)
                                                            ELSE reason[e]]
  BY PurposeFacts DEF IInv, TypeOK, Blame
<1>2. /\ Purpose(a) \in {"clean", "upload", "export", "blind", "drop"}
      /\ Purpose(a) = "upload" => received[e] > 0
      /\ Purpose(a) = "export" => e \in downloaded
      /\ Purpose(a) \in {"export", "blind"} => e \in committed
      /\ Purpose(a) = "drop" => a \in Writers /\ wpc[a] = "dropping" /\ e = wentry[a]
  BY PurposeFacts
<1>3. /\ \A d \in Entry : d # e => reason'[d] = reason[d]
      /\ reason'[e] = reason[e] \/ reason'[e] = Purpose(a)
      /\ reason'[e] # "none" /\ reason' \in [Entry -> Reasons]
  BY <1>1, <1>2 DEF Reasons
<1>4. /\ \A d \in Entry : reason[d] = "upload" => received[d] > 0
      /\ \A d \in Entry : reason[d] = "export" => d \in downloaded
      /\ \A d \in Entry : reason[d] \in {"export", "blind"} => d \in committed
      /\ \A d \in committed : reason[d] # "drop"
  BY DEF IInv, Uploader, Exporter, Accounted
<1>5. ASSUME Purpose(a) = "drop" PROVE e \notin committed
  BY <1>2, <1>5 DEF IInv, Builders, Building
<1>6. ASSUME NEW w \in Writers, Building(w), wpc[w] # "dropping"
      PROVE  reason'[wentry[w]] # "drop"
  <2>1. wentry[w] \in Entry /\ reason[wentry[w]] # "drop"
    BY <1>6 DEF IInv, Builders
  <2>2. Purpose(a) = "drop" => wentry[w] # e
    BY <1>2, <1>6 DEF IInv, Builders, Building
  <2> QED BY <1>3, <2>1, <2>2
<1> QED BY <1>1, <1>2, <1>3, <1>4, <1>5, <1>6

\* One step of the proof that IInv is inductive: a file is unlinked.
LEMMA RemoveFileInv ==
  ASSUME IInv, NEW a \in Actors, RemoveFile(a)
  PROVE  IInv'
<1>1. PICK e \in todo[a] :
        /\ Blame(a, e)
        /\ \/ manifests' = manifests \ {e} /\ UNCHANGED attachment
           \/ attachment' = [attachment EXCEPT ![e] = "none"] /\ UNCHANGED manifests
  BY DEF RemoveFile
<1>2. /\ UNCHANGED <<dirs, kind, next, writerVars, mainVars, httpVars, todo, committed,
                     received, downloaded, faults>>
      /\ e \in Entry /\ e < next
  BY PurposeFacts DEF RemoveFile
<1>3. /\ attachment' \in [Entry -> {"none", "partial", "full"}]
      /\ manifests' \subseteq manifests
      /\ \A d \in Entry : attachment'[d] \in {attachment[d], "none"}
      /\ \A d \in Entry : d # e => attachment'[d] = attachment[d]
      /\ \A d \in Entry : d # e => (d \in manifests' <=> d \in manifests)
  BY <1>1, <1>2 DEF IInv, TypeOK
<1>4. /\ reason' \in [Entry -> Reasons] /\ reason'[e] # "none"
      /\ \A d \in Entry : d # e => reason'[d] = reason[d]
      /\ \A d \in Entry : reason'[d] = "none" => reason[d] = "none"
      /\ \A d \in Entry : reason'[d] = "upload" => received[d] > 0
      /\ \A d \in Entry : reason'[d] = "export" => d \in downloaded
      /\ \A d \in Entry : reason'[d] \in {"export", "blind"} => d \in committed
      /\ \A d \in committed : reason'[d] # "drop"
      /\ \A w \in Writers : Building(w) /\ wpc[w] # "dropping"
                              => reason'[wentry[w]] # "drop"
  BY <1>1, BlameIsJust
<1>5. \A d \in Entry : /\ Readable(d)' => Readable(d)
                       /\ d # e => (Readable(d)' <=> Readable(d))
  BY <1>2, <1>3 DEF Readable
<1>6. TypeOK'
  BY <1>2, <1>3, <1>4 DEF IInv, TypeOK
<1>7. Fresh'
  BY <1>2, <1>3, <1>4 DEF IInv, TypeOK, Fresh, Entry
<1>8. Builders'
  BY <1>2, <1>3, <1>4 DEF IInv, Builders, Building
<1>9. Accounted'
  BY <1>2, <1>3, <1>4, <1>5 DEF IInv, TypeOK, Accounted
<1>10. Uploader' /\ Exporter'
  BY <1>2, <1>4 DEF IInv, Uploader, Exporter, Sampled
<1>11. AtMostOnce'
  BY <1>2, <1>5 DEF IInv, AtMostOnce, Unsent
<1> QED BY <1>6, <1>7, <1>8, <1>9, <1>10, <1>11 DEF IInv

\* One step of the proof that IInv is inductive: a directory is removed.
LEMMA RemoveDirInv ==
  ASSUME IInv, NEW a \in Actors, RemoveDir(a)
  PROVE  IInv'
<1>1. PICK e \in todo[a] :
        /\ Blame(a, e) /\ e \notin manifests /\ attachment[e] = "none"
        /\ dirs' = dirs \ {e} /\ todo' = [todo EXCEPT ![a] = @ \ {e}]
  BY DEF RemoveDir
<1>2. /\ UNCHANGED <<manifests, attachment, kind, next, writerVars, mainVars, httpVars,
                     committed, received, downloaded, faults>>
      /\ e \in Entry /\ e < next
  BY PurposeFacts DEF RemoveDir
<1>3. /\ todo' \in [Actors -> SUBSET Entry]
      /\ \A b \in Actors : todo'[b] \subseteq todo[b]
      /\ \A b \in Actors : \A d \in todo[b] : d # e => d \in todo'[b]
  BY <1>1 DEF IInv, TypeOK
<1>4. /\ reason' \in [Entry -> Reasons] /\ reason'[e] # "none"
      /\ \A d \in Entry : d # e => reason'[d] = reason[d]
      /\ \A d \in Entry : reason'[d] = "none" => reason[d] = "none"
      /\ \A d \in Entry : reason'[d] = "upload" => received[d] > 0
      /\ \A d \in Entry : reason'[d] = "export" => d \in downloaded
      /\ \A d \in Entry : reason'[d] \in {"export", "blind"} => d \in committed
      /\ \A d \in committed : reason'[d] # "drop"
      /\ \A w \in Writers : Building(w) /\ wpc[w] # "dropping"
                              => reason'[wentry[w]] # "drop"
  BY <1>1, BlameIsJust
<1>5. /\ \A d \in Entry : Readable(d)' <=> Readable(d) /\ d # e
      /\ ~Readable(e)
  BY <1>1, <1>2 DEF Readable
<1>6. "main" \in Actors /\ "http" \in Actors /\ Writers \subseteq Actors
  BY DEF Actors
<1>7. TypeOK'
  BY <1>1, <1>2, <1>3, <1>4 DEF IInv, TypeOK
<1>8. Fresh'
  BY <1>1, <1>2, <1>3, <1>4 DEF IInv, TypeOK, Fresh, Entry
<1>9. Builders'
  BY <1>2, <1>3, <1>4, <1>6 DEF IInv, Builders, Building
<1>10. Accounted'
  BY <1>2, <1>4, <1>5 DEF IInv, TypeOK, Accounted
<1>11. Uploader'
  BY <1>2, <1>3, <1>4, <1>6 DEF IInv, Uploader, Sampled
<1>12. Exporter'
  BY <1>2, <1>3, <1>4, <1>6 DEF IInv, Exporter
<1>13. AtMostOnce'
  BY <1>2, <1>3, <1>5, <1>6 DEF IInv, AtMostOnce, Unsent
<1> QED BY <1>7, <1>8, <1>9, <1>10, <1>11, <1>12, <1>13 DEF IInv

\* One step of the proof that IInv is inductive: a removal is given up.
LEMMA RemoveFailsInv ==
  ASSUME IInv, NEW a \in Actors, RemoveFails(a)
  PROVE  IInv'
<1>1. PICK e \in todo[a] :
        /\ todo' = [todo EXCEPT ![a] = @ \ {e}]
        /\ IF Readable(e) THEN faults < MaxFaults /\ faults' = faults + 1
                          ELSE UNCHANGED faults
  BY DEF RemoveFails
<1>2. /\ UNCHANGED <<stagingVars, writerVars, mainVars, httpVars, committed, received,
                     downloaded, reason>>
      /\ e \in Entry /\ e < next
  BY PurposeFacts DEF RemoveFails
<1>3. /\ todo' \in [Actors -> SUBSET Entry]
      /\ \A b \in Actors : todo'[b] \subseteq todo[b]
      /\ \A b \in Actors : \A d \in todo[b] : d # e => d \in todo'[b]
  BY <1>1 DEF IInv, TypeOK
<1>4. /\ faults \in Nat /\ faults' \in 0..MaxFaults /\ faults <= faults'
      /\ Readable(e) => faults' = faults + 1
  BY <1>1, StagingAssumption DEF IInv, TypeOK
<1>5. \A d \in Entry : Readable(d)' <=> Readable(d)
  BY <1>2 DEF Readable
<1>6. "main" \in Actors /\ "http" \in Actors /\ Writers \subseteq Actors
  BY DEF Actors
<1>7. TypeOK'
  BY <1>2, <1>3, <1>4 DEF IInv, TypeOK
<1>8. Fresh' /\ Accounted'
  BY <1>2, <1>3, <1>5 DEF IInv, TypeOK, Fresh, Accounted
<1>9. Builders'
  BY <1>2, <1>3, <1>6 DEF IInv, Builders, Building
<1>10. Uploader' /\ Exporter'
  BY <1>2, <1>3, <1>6 DEF IInv, Uploader, Exporter, Sampled
<1>11. AtMostOnce'
  <2>1. received \in [Entry -> Nat] /\ zips \in Seq(SUBSET Entry)
    BY DEF IInv, TypeOK
  <2>2. \A d \in Entry : received[d] <= 1 + faults'
    BY <1>4, <2>1 DEF IInv, AtMostOnce
  <2>3. ASSUME NEW d \in Entry, Readable(d), ~(mpc = "deleting" /\ d \in todo'["main"])
        PROVE  received[d] <= faults'
    <3>1. CASE d = e
      BY <1>4, <2>1, <2>3, <3>1 DEF IInv, AtMostOnce
    <3>2. CASE d # e
      BY <1>3, <1>4, <1>6, <2>1, <2>3, <3>2 DEF IInv, AtMostOnce
    <3> QED BY <3>1, <3>2
  <2>4. \A i \in Unsent : \A d \in zips[i] : d \in Entry /\ received[d] <= faults
    BY <2>1 DEF IInv, AtMostOnce, Unsent
  <2>5. \A i \in Unsent : \A d \in zips[i] : received[d] <= faults'
    BY <1>4, <2>1, <2>4
  <2> QED BY <1>2, <1>5, <2>2, <2>3, <2>5 DEF IInv, AtMostOnce, Unsent
<1> QED BY <1>7, <1>8, <1>9, <1>10, <1>11 DEF IInv

\* One step of the proof that IInv is inductive: memfaultd crashes.
LEMMA DaemonCrashInv ==
  ASSUME IInv, DaemonCrash
  PROVE  IInv'
<1>1. TypeOK'
  <2>1. faults' \in 0..MaxFaults /\ zips' \in Seq(SUBSET Entry)
    BY StagingAssumption DEF IInv, TypeOK, DaemonCrash
  <2>2. wpc' \in [Writers -> WriterPC] /\ todo' \in [Actors -> SUBSET Entry]
    BY DEF IInv, TypeOK, DaemonCrash, WriterPC, Actors
  <2>3. token' \in [Clients -> SUBSET Entry]
    BY DEF IInv, TypeOK, DaemonCrash
  <2> QED BY <2>1, <2>2, <2>3 DEF IInv, TypeOK, DaemonCrash
<1>2. Fresh'
  BY DEF IInv, Fresh, DaemonCrash
<1>3. Builders'
  BY DEF IInv, TypeOK, Builders, Building, DaemonCrash, Actors, Entry
<1>4. Accounted'
  BY DEF IInv, Accounted, Readable, DaemonCrash
<1>5. Uploader'
  BY StagingAssumption DEF IInv, TypeOK, Uploader, Sampled, DaemonCrash, Actors, Entry
<1>6. Exporter'
  BY StagingAssumption DEF IInv, TypeOK, Exporter, DaemonCrash, Actors, Entry
<1>7. AtMostOnce'
  BY DEF IInv, TypeOK, AtMostOnce, Unsent, Readable, DaemonCrash
<1> QED BY <1>1, <1>2, <1>3, <1>4, <1>5, <1>6, <1>7 DEF IInv

-----------------------------------------------------------------------------
\* The initial state satisfies the inductive invariant.
LEMMA InitInv == Init => IInv
<1> SUFFICES ASSUME Init PROVE IInv
  OBVIOUS
<1>1. TypeOK
  <2>1. 0 \in 0..MaxFaults /\ 1 \in 1..(MaxEntries + 1) /\ 0 \in 0..MaxEntries
    BY StagingAssumption
  <2>2. zips \in Seq(SUBSET Entry)
    BY DEF Init
  <2> QED BY <2>1, <2>2 DEF Init, TypeOK, WriterPC, Reasons, Kinds
<1>2. Fresh /\ Builders /\ Accounted /\ Exporter
  BY StagingAssumption
     DEF Init, Fresh, Builders, Building, Accounted, Exporter, Actors, Entry
<1>3. Uploader /\ AtMostOnce
  BY DEF Init, Uploader, AtMostOnce, Unsent, Actors
<1> QED BY <1>1, <1>2, <1>3 DEF IInv

\* Every step of the system preserves the inductive invariant.
LEMMA NextInv == IInv /\ [Next]_vars => IInv'
<1> SUFFICES ASSUME IInv, [Next]_vars PROVE IInv'
  OBVIOUS
<1>1. ASSUME NEW w \in Writers, WriterStep(w) PROVE IInv'
  BY <1>1, BuilderNewInv, LogCleanInv, LogCleanedInv, AttachInv, CommitInv,
     FlushAttachmentInv, BuildFailsInv, DroppedInv, HandlerKilledInv DEF WriterStep
<1>2. CASE RefreshDeviceConfig
  BY <1>2, RefreshDeviceConfigInv
<1>3. CASE MainStep
  BY <1>3, MainCleanInv, ListStagingInv, GatherEntryInv, GatherDoneInv,
     StreamEntryInv, UploadOkInv, UploadFailsInv, UploadResponseLostInv,
     ZipDeletedInv DEF MainStep
<1>4. CASE ExportStep
  BY <1>4, ExportGetInv, ExportDeleteInv, ClientLeavesInv, ExportStreamInv,
     ExportDeletedInv DEF ExportStep
<1>5. ASSUME NEW a \in Actors, RemoveStep(a) PROVE IInv'
  BY <1>5, RemoveFileInv, RemoveDirInv, RemoveFailsInv DEF RemoveStep
<1>6. CASE DaemonCrash
  BY <1>6, DaemonCrashInv
<1>7. CASE UNCHANGED vars
  <2>1. TypeOK'
    BY <1>7 DEF IInv, TypeOK, vars
  <2>2. (Fresh /\ Builders /\ Accounted)'
    BY <1>7 DEF IInv, Fresh, Builders, Building, Accounted, Readable, vars
  <2>3. (Uploader /\ Exporter)'
    BY <1>7 DEF IInv, Uploader, Exporter, Sampled, vars
  <2>4. (AtMostOnce)'
    BY <1>7 DEF IInv, AtMostOnce, Unsent, Readable, vars
  <2> QED BY <2>1, <2>2, <2>3, <2>4 DEF IInv
<1> QED BY <1>1, <1>2, <1>3, <1>4, <1>5, <1>6, <1>7 DEF Next

\* The inductive invariant holds throughout every behaviour.
THEOREM Invariance == Spec => []IInv
  BY InitInv, NextInv, PTL DEF Spec

\* Every variable keeps its type, for any number of entries, writers and clients.
THEOREM TypeCorrect == Spec => []TypeOK
<1>1. IInv => TypeOK
  BY DEF IInv
<1> QED BY <1>1, Invariance, PTL

\* No committed entry is lost without a reason that accounts for it: eviction,
\* delivery to the server, or deletion by an export client.
THEOREM NothingLostSilently == Spec => []NoSilentLoss
<1>1. IInv => NoSilentLoss
  <2> SUFFICES ASSUME IInv PROVE NoSilentLoss
    OBVIOUS
  <2>1. \A e \in committed :
          ~Readable(e) => reason[e] \in {"clean", "upload", "export", "blind"}
    BY DEF IInv, TypeOK, Accounted, Reasons
  <2> QED BY <2>1 DEF IInv, Uploader, Exporter, NoSilentLoss
<1> QED BY <1>1, Invariance, PTL

\* The uploader and the export endpoint never remove a directory that is still
\* under construction.
THEOREM ConstructionIsUntouched == Spec => []ConstructionUntouched
<1>1. IInv => ConstructionUntouched
  BY DEF IInv, Uploader, Exporter, ConstructionUntouched
<1> QED BY <1>1, Invariance, PTL

\* The server receives an entry at most once more than there were faults.
THEOREM DuplicatesAreFaults == Spec => []DuplicatesNeedFaults
<1>1. IInv => DuplicatesNeedFaults
  BY DEF IInv, AtMostOnce, DuplicatesNeedFaults
<1> QED BY <1>1, Invariance, PTL

\* A DELETE with If-Match removes only what that client has downloaded.
THEOREM CarefulDelete == Spec => []CarefulDeleteIsSafe
<1>1. IInv => CarefulDeleteIsSafe
  BY DEF IInv, Exporter, CarefulDeleteIsSafe
<1> QED BY <1>1, Invariance, PTL

\* Only entries that fleet sampling currently lets through are sent.
THEOREM SamplingIsRespected == Spec => OnlySampledAreSent
<1>1. IInv /\ [Next]_vars
        => [\A e \in Entry : received'[e] > received[e] => Sampled(e)]_vars
  <2> SUFFICES ASSUME IInv, [Next]_vars, NEW e \in Entry, received'[e] > received[e]
               PROVE  Sampled(e)
    OBVIOUS
  <2>1. received[e] \in Nat
    BY DEF IInv, TypeOK
  <2>2. CASE (UploadOk \/ UploadResponseLost) /\ mpc = "uploading"
    <3>1. e \in Head(zips)
      BY <2>1, <2>2 DEF UploadOk, UploadResponseLost, ServerReceives
    <3> QED BY <2>2, <3>1, HeadIsCommitted DEF IInv, Uploader
  <2>3. CASE UNCHANGED received
    BY <2>1, <2>3
  <2> QED
    BY <2>2, <2>3 DEF Next, WriterStep, MainStep, ExportStep, RemoveStep, vars,
       BuilderNew, LogClean, LogCleaned, Attach, Commit, FlushAttachment, BuildFails,
       Dropped, HandlerKilled, RefreshDeviceConfig, MainClean, ListStaging,
       GatherEntry, GatherDone, StreamEntry, UploadOk, UploadFails,
       UploadResponseLost, ZipDeleted, ExportGet, ExportStream, ExportDelete,
       ExportDeleted, ClientLeaves, RemoveFile, RemoveDir, RemoveFails, DaemonCrash
<1> QED BY <1>1, Invariance, PTL DEF Spec, OnlySampledAreSent
=============================================================================
