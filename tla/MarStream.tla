------------------------------ MODULE MarStream -----------------------------
(***************************************************************************)
(* The archive that leaves the device: a zip that is encoded while it is   *)
(* read, bare for the upload and the export, or inside a Memfault chunk.   *)
(*                                                                         *)
(* Nothing is buffered on disk.  The length is announced from the sizes    *)
(* that the files had when the list was made; headers, offsets and check   *)
(* sums are produced as the bytes go by; every reader wraps another one    *)
(* and may be asked for any number of bytes at a time.  Meanwhile entries  *)
(* are deleted, and an attachment whose entry was committed early still    *)
(* grows.  The list of an export is kept and offered again.                *)
(*                                                                         *)
(* Which entries go into which list is the subject of MarStaging; here it  *)
(* is all that can be read.                                                *)
(*                                                                         *)
(* Bytes are counted exactly.  What a byte is is abstracted to the part of *)
(* the format it belongs to, and a check sum to what it was computed over. *)
(***************************************************************************)
EXTENDS Naturals, FiniteSets, Sequences, SequencesExt

CONSTANTS
  Files,        \* the files of the staging area, in order: [entry, name, grows]
  Lengths,      \* the lengths that files have at first
  Growth,       \* what is still to be written to a file that grows
  BufSizes,     \* the sizes of the buffers that callers pass to read()
  U16, U32,     \* the number of values of a u16 and of a u32
  MaxRequests   \* bound: answers that are started

ASSUME MarStreamAssumption ==
  /\ Files \in Seq([entry : Nat, name : Nat, grows : BOOLEAN])
  /\ Lengths \subseteq Nat /\ Growth \in Nat /\ MaxRequests \in Nat
  /\ BufSizes \subseteq Nat \ {0}
  /\ U16 \in Nat \ {0} /\ U32 \in Nat \ {0}

VARIABLES
  disk,      \* for each file its length, whether it has all its bytes, and whether it has a name
  dirs,      \* the entries whose directory exists
  offered,   \* current_export: the list that was made for clients; <<>> is None
  files,     \* the encoder's own list of files, which it completes as it goes
  format,    \* the format of the answer
  declared,  \* the length that was announced
  stage,     \* which reader is being read
  index,     \* the file that this reader is about
  cursor,    \* the part that is being read, and how much of it has been
  start,     \* start_offset of the central directory
  written,   \* bytes_written
  digest,    \* what the running CRC of the chunk has seen
  sent,      \* what the receiver has got: runs of bytes of one part
  out,       \* the answer: "none", "open", "complete" or "failed"
  requests

diskVars == <<disk, dirs>>
encoderVars == <<files, stage, index, cursor, start, written, digest>>
vars == <<diskVars, offered, encoderVars, format, declared, sent, out, requests>>

F == 1 .. Len(Files)
Formats == {"upload", "mar", "chunk", "chunk-wrapped"}
Zips == {"upload", "mar"}

\* The sum of the first n numbers of s, and of all of them.
SumTo(s, n) ==
  LET sum[i \in 0 .. n] == IF i = 0 THEN 0 ELSE sum[i - 1] + s[i]
  IN  sum[n]
Sum(s) == SumTo(s, Len(s))

\* The elements of a set of numbers, in order.
InOrder(S) ==
  CHOOSE q \in [1 .. Cardinality(S) -> S] : \A i, j \in DOMAIN q : i < j => q[i] < q[j]

-----------------------------------------------------------------------------
(* The parts.  Their lengths are those of the fields that are appended.    *)

NoPart == [kind |-> "none", length |-> 0]
NoCrc == [file |-> 0, amount |-> 0]
Crc(f, amount) == [file |-> f, amount |-> amount]

MakeLocalHeader(info) ==
  [kind |-> "local", file |-> info.file, crc |-> info.crc, size |-> info.size % U32,
   length |-> 4 + 2 + 2 + 2 + 2 + 2 + 4 + 4 + 4 + 2 + 2 + info.name]
MakeCentralHeader(info) ==
  [kind |-> "central", file |-> info.file, crc |-> info.crc, size |-> info.size % U32,
   offset |-> info.offset,
   length |-> 4 + 2 + 2 + 2 + 2 + 2 + 2 + 4 + 4 + 4 + 2 + 2 + 2 + 2 + 2 + 4 + 4 + info.name]
Data(f) == [kind |-> "data", file |-> f]
MakeDataDescriptor(crc) ==
  [kind |-> "descriptor", crc |-> crc, size |-> crc.amount % U32,
   length |-> 4 + 4 + 4 + 4]
MakeEndOfCentralDirectory(count, size, offset) ==
  [kind |-> "end", count |-> count % U16, size |-> size % U32, offset |-> offset % U32,
   length |-> 4 + 2 + 2 + 2 + 2 + 4 + 4 + 2]

WrapperHeader(length) == [kind |-> "wrapper", of |-> length % U32, length |-> 4 + 4]
ChunkHeader == [kind |-> "chunk", length |-> 1]
MessageType == [kind |-> "type", length |-> 1]
CrcBytes(seen) == [kind |-> "crc", of |-> seen, length |-> 2]

-----------------------------------------------------------------------------
(* The announced lengths: computed from the list, before anything is read. *)

HeaderSize(info, kind) == (IF kind = "local" THEN 30 ELSE 46) + info.name
\* Mutant: forgets the data descriptor.
ZipStreamLenWithoutDescriptor(info) ==
  HeaderSize(info, "local") + info.size + HeaderSize(info, "central")
ZipStreamLenForFile(info) ==
  HeaderSize(info, "local") + info.size + 16 + HeaderSize(info, "central")
ZipStreamLen(infos) == Sum([i \in DOMAIN infos |-> ZipStreamLenForFile(infos[i])]) + 22

MessageLen(infos) == 1 + ZipStreamLen(infos)
ChunkLen(infos) == 1 + MessageLen(infos) + 2
StreamLen(fmt, infos) ==
  IF fmt \in Zips THEN ZipStreamLen(infos)
  ELSE IF fmt = "chunk" THEN ChunkLen(infos) ELSE 8 + ChunkLen(infos)

-----------------------------------------------------------------------------
(* The list of files.  An entry with a file that cannot be opened is left  *)
(* out.                                                                    *)

Gatherable(f) ==
  \A g \in F : Files[g].entry = Files[f].entry => disk[g].named
ZipEntryInfo(f) ==
  [file |-> f, name |-> Files[f].name, size |-> disk[f].length, offset |-> 0, crc |-> NoCrc]
Gathered ==
  LET list == InOrder({f \in F : Gatherable(f)})
  IN  [i \in DOMAIN list |-> ZipEntryInfo(list[i])]

IsValid(infos) == \A i \in DOMAIN infos : Files[infos[i].file].entry \in dirs
Offer == IF offered # <<>> /\ IsValid(offered) THEN offered ELSE Gathered

-----------------------------------------------------------------------------
Init ==
  /\ disk \in [F -> [length : Lengths, partial : BOOLEAN, named : {TRUE}]]
  /\ \A f \in F : disk[f].partial => Files[f].grows
  /\ dirs = {Files[f].entry : f \in F}
  /\ offered = <<>> /\ files = <<>> /\ format = "upload" /\ declared = 0
  /\ stage = "done" /\ index = 0 /\ cursor = [part |-> NoPart, pos |-> 0]
  /\ start = 0 /\ written = 0 /\ digest = <<>> /\ sent = <<>>
  /\ out = "none" /\ requests = 0

\* The cursors of the chained readers that come before the zip.
FirstStage(fmt) ==
  IF fmt \in Zips THEN "init" ELSE IF fmt = "chunk" THEN "chunk" ELSE "wrapper"
FirstPart(fmt, infos) ==
  IF fmt \in Zips THEN NoPart
  ELSE IF fmt = "chunk" THEN ChunkHeader ELSE WrapperHeader(ChunkLen(infos))

Answer(fmt, infos) ==
  /\ files' = infos /\ format' = fmt /\ declared' = StreamLen(fmt, infos)
  /\ stage' = FirstStage(fmt) /\ cursor' = [part |-> FirstPart(fmt, infos), pos |-> 0]
  /\ index' = 0 /\ start' = 0 /\ written' = 0 /\ digest' = <<>> /\ sent' = <<>>
  /\ out' = "open"

NextRequest ==
  /\ out # "open" /\ requests < MaxRequests
  /\ requests' = requests + 1
  /\ UNCHANGED diskVars

\* The main loop lists the staging area and uploads what it finds.
UploadMarEntries ==
  /\ NextRequest
  /\ Gathered # <<>>
  /\ Answer("upload", Gathered)
  /\ UNCHANGED offered

\* GET /v1/export: the list of the last answer, if its entries still exist.
HandleGetMar(fmt) ==
  /\ NextRequest
  /\ offered' = Offer
  /\ Offer # <<>>
  /\ Answer(fmt, Offer)

\* GET /v1/export with an unknown Accept header, or without data.
RefuseGetMar ==
  /\ NextRequest
  /\ offered' = Offer
  /\ out' = "none"
  /\ UNCHANGED <<encoderVars, format, declared, sent>>

\* DELETE /v1/export: the entries of the list that was offered.
HandleDelete ==
  LET gone == {Files[offered[i].file].entry : i \in DOMAIN offered}
  IN /\ offered # <<>>
     /\ offered' = <<>>
     /\ dirs' = dirs \ gone
     /\ disk' = [f \in F |-> [disk[f] EXCEPT !.named = @ /\ Files[f].entry \notin gone]]
     /\ UNCHANGED <<encoderVars, format, declared, sent, out, requests>>

-----------------------------------------------------------------------------
(* Reading.  One call returns the bytes of one part, or finds that the     *)
(* part has ended and goes on with the next one.                           *)

ZipStages == {"header", "data", "descriptor", "central", "end"}
\* Mutant: the CRC starts behind the type of the message.
MessageWithoutType(st) == st \in ZipStages
\* CRCPaddedStream has seen what its own stream has returned.
Message(st) == st \in ZipStages \union {"type"}

Remaining ==
  (IF stage = "data" THEN disk[cursor.part.file].length ELSE cursor.part.length) - cursor.pos

\* n more bytes of part at the end of runs.
Extend(runs, part, n) ==
  IF runs # <<>> /\ Last(runs).part = part
  THEN [runs EXCEPT ![Len(runs)].n = @ + n]
  ELSE Append(runs, [part |-> part, n |-> n])

Read(size) ==
  LET n == IF size < Remaining THEN size ELSE Remaining
  IN /\ out = "open" /\ stage \notin {"init", "done"}
     /\ n > 0
     /\ cursor' = [cursor EXCEPT !.pos = @ + n]
     /\ written' = IF stage \in ZipStages THEN written + n ELSE written
     /\ digest' = IF format \notin Zips /\ Message(stage)
                  THEN Extend(digest, cursor.part, n) ELSE digest
     /\ sent' = Extend(sent, cursor.part, n)
     /\ UNCHANGED <<diskVars, offered, files, stage, index, start, format, declared, out,
                    requests>>

Ended(st) == out = "open" /\ stage = st /\ Remaining = 0
Outer == <<diskVars, offered, format, declared, sent, requests, written, digest>>
Goto(st, part) == stage' = st /\ cursor' = [part |-> part, pos |-> 0]

\* Chain: the next reader, when a non-empty buffer got nothing from this one.
WrapperEnds ==
  /\ Ended("wrapper") /\ Goto("chunk", ChunkHeader)
  /\ UNCHANGED <<Outer, files, index, start, out>>
ChunkHeaderEnds ==
  /\ Ended("chunk") /\ Goto("type", MessageType)
  /\ UNCHANGED <<Outer, files, index, start, out>>
MessageTypeEnds ==
  /\ Ended("type") /\ Goto("init", NoPart)
  /\ UNCHANGED <<Outer, files, index, start, out>>

\* LocalFileReader::new opens the file, or the read fails and with it the answer.
NewLocalFiles(i, infos) ==
  \/ /\ disk[infos[i].file].named
     /\ Goto("header", MakeLocalHeader(infos[i])) /\ index' = i
     /\ UNCHANGED out
  \/ /\ ~disk[infos[i].file].named
     /\ out' = "failed"
     /\ UNCHANGED <<stage, cursor, index>>

InitEnds ==
  /\ Ended("init")
  /\ NewLocalFiles(1, files)
  /\ UNCHANGED <<Outer, files, start>>

HeaderEnds ==
  /\ Ended("header") /\ Goto("data", Data(files[index].file))
  /\ UNCHANGED <<Outer, files, index, start, out>>

DataEnds ==
  /\ Ended("data")
  /\ Goto("descriptor", MakeDataDescriptor(Crc(files[index].file, cursor.pos)))
  /\ UNCHANGED <<Outer, files, index, start, out>>

\* Mutant: the offset of the next file is not recorded.
CompletedWithoutOffset(crc) == [files EXCEPT ![index].crc = crc]
Completed(crc) ==
  LET summed == [files EXCEPT ![index].crc = crc]
  IN IF index < Len(files) THEN [summed EXCEPT ![index + 1].offset = written % U32]
     ELSE summed

DescriptorEnds ==
  LET infos == Completed(cursor.part.crc)
  IN /\ Ended("descriptor")
     /\ files' = infos
     /\ \/ /\ index < Len(files)
           /\ NewLocalFiles(index + 1, infos)
           /\ UNCHANGED start
        \/ /\ index = Len(files)
           /\ Goto("central", MakeCentralHeader(infos[1])) /\ index' = 1
           /\ start' = written
           /\ UNCHANGED out
     /\ UNCHANGED Outer

CentralEnds ==
  /\ Ended("central")
  /\ \/ /\ index < Len(files)
        /\ Goto("central", MakeCentralHeader(files[index + 1])) /\ index' = index + 1
     \/ /\ index = Len(files)
        /\ Goto("end", MakeEndOfCentralDirectory(Len(files), written - start, start))
        /\ UNCHANGED index
  /\ UNCHANGED <<Outer, files, start, out>>

EndEnds ==
  /\ Ended("end") /\ Goto("done", NoPart)
  /\ UNCHANGED <<Outer, files, index, start, out>>

\* When the message has ended its CRC follows.
MessageEnds ==
  /\ Ended("done") /\ format \notin Zips
  /\ Goto("crc", CrcBytes(digest))
  /\ UNCHANGED <<Outer, files, index, start, out>>

-----------------------------------------------------------------------------
(* The receiver.  It was told a length.                                    *)

SentLen == Sum([k \in DOMAIN sent |-> sent[k].n])

\* Nothing is left to read: an answer that is too short is an error for the receiver.
AnswerEnds ==
  /\ Ended(IF format \in Zips THEN "done" ELSE "crc")
  /\ out' = IF SentLen < declared THEN "failed" ELSE "complete"
  /\ UNCHANGED <<diskVars, offered, encoderVars, format, declared, sent, requests>>

\* The HTTP library stops when it has passed on the announced number of bytes.
AnswerIsCut ==
  /\ out = "open" /\ SentLen >= declared
  /\ out' = "complete"
  /\ UNCHANGED <<diskVars, offered, encoderVars, format, declared, sent, requests>>

-----------------------------------------------------------------------------
(* The staging area.                                                       *)

Elsewhere == <<offered, encoderVars, format, declared, sent, out, requests>>

\* remove_dir_all, by the cleaner or after an upload: the files, then the directory.
RemoveFile(f) ==
  /\ disk[f].named
  /\ disk' = [disk EXCEPT ![f].named = FALSE]
  /\ UNCHANGED <<dirs, Elsewhere>>
RemoveDir(e) ==
  /\ \A f \in F : Files[f].entry = e => ~disk[f].named
  /\ dirs' = dirs \ {e}
  /\ UNCHANGED <<disk, Elsewhere>>

\* The writer of an attachment drops its encoder after the entry was committed.
FileGrows(f) ==
  /\ disk[f].partial
  /\ disk' = [disk EXCEPT ![f].partial = FALSE, ![f].length = @ + Growth]
  /\ UNCHANGED <<dirs, Elsewhere>>

Next ==
  \/ UploadMarEntries \/ RefuseGetMar \/ HandleDelete
  \/ \E fmt \in Formats \ {"upload"} : HandleGetMar(fmt)
  \/ \E size \in BufSizes : Read(size)
  \/ WrapperEnds \/ ChunkHeaderEnds \/ MessageTypeEnds
  \/ InitEnds \/ HeaderEnds \/ DataEnds \/ DescriptorEnds \/ CentralEnds \/ EndEnds
  \/ MessageEnds \/ AnswerEnds \/ AnswerIsCut
  \/ \E f \in F : RemoveFile(f) \/ FileGrows(f)
  \/ \E e \in dirs : RemoveDir(e)

Spec == Init /\ [][Next]_vars

-----------------------------------------------------------------------------
(* What the receiver can make of it.                                       *)

Kind(k) == sent[k].part.kind
Position(k) == SumTo([j \in DOMAIN sent |-> IF Kind(j) \in {"wrapper", "chunk", "type"}
                                           THEN 0 ELSE sent[j].n], k - 1)
Whole(k) == sent[k].n = sent[k].part.length
Directory == InOrder({k \in DOMAIN sent : Kind(k) = "central"})

\* The file that a directory entry describes is where it says, with these bytes.
FileAt(entry, n) ==
  \E k \in DOMAIN sent :
     /\ Kind(k) = "local" /\ sent[k].part.file = entry.file /\ Whole(k)
     /\ Position(k) = entry.offset
     /\ LET d == IF n = 0 THEN k + 1 ELSE k + 2
        IN /\ n > 0 => sent[k + 1] = [part |-> Data(entry.file), n |-> n]
           /\ Kind(d) = "descriptor" /\ Whole(d) /\ sent[d].part.crc = entry.crc

InWidth == declared + Growth * Len(Files) < U32 /\ Len(files) < U16
Unchanged == \A i \in DOMAIN files : files[i].size = disk[files[i].file].length

\* Whatever happens to the files while they are sent, an entry of the central directory
\* gives the place of its file in the stream and the check sum of the bytes that were sent:
\* ZipEncoder fills in offset before a file and crc after it, and writes headers later.
DirectoryIsTrue ==
  InWidth =>
    \A k \in DOMAIN sent :
       Kind(k) = "central" => FileAt(sent[k].part, sent[k].part.crc.amount)

\* An answer that its receiver takes for complete is an archive that can be read from its
\* end - the last record leads to the directory, the directory to every file of the list,
\* with the size it announces - unless a file has grown since the list was made.  Lengths
\* that are announced and lengths that are sent come from different code.
AnswerIsReadable ==
  out = "complete" /\ Unchanged /\ InWidth =>
    /\ SentLen = declared
    /\ \E last \in DOMAIN sent :
         LET end == sent[last].part
         IN /\ Kind(last) = "end" /\ Whole(last)
            /\ \A k \in DOMAIN sent : Kind(k) = "end" => k <= last
            /\ end.count = Len(files) /\ Len(Directory) = Len(files)
            /\ Position(Directory[1]) = end.offset
            /\ Position(last) = end.offset + end.size
    /\ \A i \in DOMAIN files :
         LET entry == sent[Directory[i]].part
         IN /\ Whole(Directory[i])
            /\ entry.file = files[i].file
            /\ FileAt(entry, entry.size)

\* A chunk can be taken apart: its CRC, wherever the reads were split, is computed over the
\* message and nothing else, and the length in front of a wrapped chunk is that of the chunk
\* unless a file has grown.
ChunkIsIntact ==
  \A k \in DOMAIN sent :
    /\ Kind(k) = "crc" =>
         \E m \in 0 .. k - 1 :
           /\ \A j \in 1 .. k - 1 : Kind(j) \in {"wrapper", "chunk"} <=> j <= m
           /\ sent[k].part.of = SubSeq(sent, m + 1, k - 1)
    /\ Kind(k) = "wrapper" /\ out = "complete" /\ Unchanged /\ InWidth =>
         sent[k].part.of = SentLen - sent[k].n
=============================================================================
