-------------------------- MODULE CoreTransformer ---------------------------
(***************************************************************************)
(* How the core handler turns the core file that the kernel pipes to it    *)
(* into the core file that it stages.                                      *)
(*                                                                         *)
(* The kernel's file is a stream: it is read once, forward.  Notes are     *)
(* copied from it.  Memory comes from /proc/<pid>/mem: all the segments    *)
(* that the kernel lists, or only what a debugger needs to unwind the      *)
(* threads, which is searched for in the memory of the process that has    *)
(* just crashed.  Any of that memory may be unreadable or wrong, and the   *)
(* process may go away while it is read.  The output is a stream too: the  *)
(* offsets are announced before the data is read.                          *)
(*                                                                         *)
(* Addresses and offsets count units of an arbitrary size.  A unit of the  *)
(* output says where it comes from.                                        *)
(***************************************************************************)
EXTENDS Naturals, FiniteSets, Sequences, SequencesExt

CONSTANTS
  Crashes,      \* the crashed processes, with the core files and the settings
  SIZEOF_EHDR, SIZEOF_PHDR, SIZEOF_PTR, SIZEOF_RDEBUG, SIZEOF_LINKMAP, PATH_MAX,
  MetadataSize, \* the size of the note with the metadata
  DebugSize,    \* the size of the note with the captured logs
  LogChannel,   \* CAPTURE_LOG_CHANNEL_SIZE
  U16           \* the number of values of a u16

ASSUME CoreTransformerAssumption ==
  /\ {SIZEOF_EHDR, SIZEOF_PHDR, SIZEOF_PTR, SIZEOF_RDEBUG, SIZEOF_LINKMAP, PATH_MAX,
      MetadataSize, DebugSize, LogChannel, U16} \subseteq Nat \ {0}

VARIABLES
  crash,     \* the process, its core file and the settings
  alive,     \* /proc/<pid> is still there
  pc,
  pos,       \* how far the core file has been read
  headers,   \* program headers that are still to be looked at
  notes,     \* the note segments that have been read
  maps,      \* the mappings that are still to be looked at
  ranges,    \* the memory to capture, as found so far
  link,      \* l_next: the link map to read next
  names,     \* names of shared objects that are still to be measured
  loads,     \* the PT_LOAD headers of the output
  logs,      \* lines in the channel, and lines dropped
  segments,  \* the segments of the output
  file,      \* what has been written
  found      \* observer: every range that was found

searchVars == <<maps, ranges, link, names, found>>
outputVars == <<segments, file>>
vars == <<crash, alive, pc, pos, headers, notes, searchVars, loads, logs, outputVars>>

Least(m, n) == IF m <= n THEN m ELSE n
Most(m, n) == IF m <= n THEN n ELSE m
Goto(label) == pc' = label

\* The logger never blocks: lines that do not fit into the channel are dropped.
Logged(n) ==
  [held |-> Least(LogChannel, logs.held + n),
   lost |-> logs.lost + (logs.held + n - Least(LogChannel, logs.held + n))]
Log(n) == logs' = Logged(n)

-----------------------------------------------------------------------------
(* MemoryRange.                                                            *)

MemoryRange(start, end) == [start |-> start, end |-> end]
FromStartAndSize(start, size) == MemoryRange(start, start + size)
HasAddress(r, addr) == r.start <= addr /\ addr < r.end
Overlaps(r, s) == r.start <= s.end /\ r.end > s.start
Addresses(r) == r.start .. (r.end - 1)

\* The first mapping that contains the address.
Containing(ms, addr) == SelectInSeq(ms, LAMBDA m : HasAddress(m, addr))

\* The stack grows down: it is what lies above the stack pointer.
FindStack(sp, ms) ==
  LET i == Containing(ms, sp)
  IN  IF i = 0 THEN {}
      ELSE {MemoryRange(sp, sp + Least(ms[i].end - sp, crash.maxThreadSize))}

-----------------------------------------------------------------------------
(* Streams.                                                                *)

\* What is readable of the process from an address on, without a gap.
Reach(addr) ==
  IF alive
  THEN CHOOSE n \in 0..Cardinality(crash.readable) :
         /\ \A i \in 0..(n - 1) : addr + i \in crash.readable
         /\ addr + n \notin crash.readable
  ELSE 0
CanRead(addr, size) == size <= Reach(addr)

\* ForwardOnlySeeker, on a stream that ends or fails at reach: seek and read_exact.
ReadForward(at, h, reach) ==
  [ok |-> at <= h.offset /\ h.offset + h.size <= reach,
   pos |-> IF h.offset < at THEN at ELSE Least(h.offset + h.size, Most(at, reach))]

SortedByOffset(hs) == SortSeq(hs, LAMBDA a, b : a.offset < b.offset)

AsInFile(hs) == hs

\* The table is sorted, because the segments can only be read in this order.
ReadProgramHeaders(hs) == SortedByOffset(hs)

-----------------------------------------------------------------------------
(* The core file of the kernel.                                            *)

\* The ELF header and the table that follows it.
OpenCore ==
  LET table == SIZEOF_EHDR + Len(crash.headers) * SIZEOF_PHDR
  IN  /\ pc = "open"
      /\ IF table <= crash.stream
         THEN Goto("notes") /\ pos' = table /\ headers' = ReadProgramHeaders(crash.headers)
         ELSE Goto("failed") /\ UNCHANGED <<pos, headers>>
      /\ UNCHANGED <<crash, alive, notes, searchVars, loads, logs, outputVars>>

\* A note segment that cannot be read is left out.
ReadNoteSegment ==
  LET h == Head(headers)
      r == ReadForward(pos, h, crash.stream)
  IN  /\ pc = "notes" /\ headers # <<>> /\ headers' = Tail(headers)
      /\ IF h.type = "NOTE"
         THEN pos' = r.pos /\ notes' = IF r.ok THEN Append(notes, h) ELSE notes
         ELSE UNCHANGED <<pos, notes>>
      /\ UNCHANGED <<crash, alive, pc, searchVars, loads, logs, outputVars>>

Threads == crash.strategy = "threads" /\ crash.supported

KernelSelection ==
  /\ pc = "notes" /\ headers = <<>> /\ ~Threads /\ Goto("add")
  /\ loads' = SelectSeq(ReadProgramHeaders(crash.headers), LAMBDA h : h.type = "LOAD")
  /\ UNCHANGED <<crash, alive, pos, headers, notes, searchVars, logs, outputVars>>

\* ElfNoteIterator stops at a note that is longer than what is left of the buffer.
Iterated(ns) ==
  LET short == SelectInSeq(ns, LAMBDA n : n.kind = "short")
  IN  IF short = 0 THEN ns ELSE SubSeq(ns, 1, short - 1)
ParsedNotes == FlattenSeq([i \in DOMAIN notes |-> Iterated(notes[i].notes)])
OfKind(kind) == SelectSeq(ParsedNotes, LAMBDA n : n.kind = kind)
StackPointers == {n.sp : n \in ToSet(OfKind("prstatus"))}

NoAuxv == [kind |-> "auxv", phdr |-> 0, phnum |-> 0]
Auxv == IF OfKind("auxv") = <<>> THEN NoAuxv ELSE Last(OfKind("auxv"))

Find(rs) == ranges' = ranges \cup rs /\ found' = found \cup rs

\* The mappings of the process, and the stacks of its threads.  A status note of
\* the wrong size, a buffer that is cut off and a thread without a stack are logged.
ProcMaps(ms) ==
  /\ pc = "notes" /\ headers = <<>> /\ Threads /\ Goto("elf")
  /\ maps' = ms /\ Find(UNION {FindStack(sp, ms) : sp \in StackPointers})
  /\ Log(Len(OfKind("badstatus"))
           + Cardinality({i \in DOMAIN notes : Iterated(notes[i].notes) # notes[i].notes})
           + Len(SelectSeq(OfKind("prstatus"), LAMBDA n : FindStack(n.sp, ms) = {})))
  /\ UNCHANGED <<crash, alive, pos, headers, notes, link, names, loads, outputVars>>

GetProcessMaps == alive /\ ProcMaps(crash.maps)

\* The process has gone: there is nothing to read, or nothing to open.
NoMaps == ~alive /\ ProcMaps(<<>>)
MapsFail ==
  /\ pc = "notes" /\ headers = <<>> /\ Threads /\ ~alive /\ Goto("failed")
  /\ UNCHANGED <<crash, alive, pos, headers, notes, searchVars, loads, logs, outputVars>>

-----------------------------------------------------------------------------
(* What a debugger needs.                                                  *)

\* The header and the build ID of an ELF file that is mapped at base.
BuildIdRange(base) ==
  LET image == crash.images[base]
      table == image.phoff + Len(image.notes) * SIZEOF_PHDR
      look(acc, n) ==
        LET r == ReadForward(acc.pos, n, Reach(base))
        IN  IF acc.note # <<>> THEN acc
            ELSE [pos |-> r.pos, note |-> IF r.ok /\ n.buildId THEN <<n>> ELSE <<>>]
      search == FoldLeft(look, [pos |-> table, note |-> <<>>], ReadProgramHeaders(image.notes))
      note == Head(search.note)
  IN  IF /\ base \in DOMAIN crash.images /\ CanRead(base, SIZEOF_EHDR)
         /\ image.phoff >= SIZEOF_EHDR /\ CanRead(base, table) /\ search.note # <<>>
      THEN {MemoryRange(base, base + Most(table, note.offset + note.size))}
      ELSE {}

\* Mappings from the start of a file, or of no file, are looked at.
ElfMetadata ==
  LET m == Head(maps)
      rs == BuildIdRange(m.start)
  IN  /\ pc = "elf" /\ maps # <<>> /\ maps' = Tail(maps)
      /\ IF m.offset = 0 THEN Find(rs) /\ Log(IF rs = {} THEN 1 ELSE 0)
         ELSE UNCHANGED <<ranges, found, logs>>
      /\ UNCHANGED <<crash, alive, pc, pos, headers, notes, link, names, loads, outputVars>>

\* The rest of find_dynamic_linker_ranges is skipped.
GiveUpLinker ==
  Goto("merge") /\ Log(1) /\ UNCHANGED <<ranges, found, link>>

LinkerStep(at, cond, rs, next) ==
  /\ pc = at
  /\ IF cond THEN Find(rs) /\ Goto(next) /\ UNCHANGED <<link, logs>> ELSE GiveUpLinker
  /\ UNCHANGED <<crash, alive, pos, headers, notes, maps, names, loads, outputVars>>

\* PT_PHDR in the table that the auxiliary vector points to.
Relocated(vaddr) == Auxv.phdr - crash.exec.phdr.vaddr + vaddr
FindPhdr ==
  /\ maps = <<>>
  /\ LinkerStep("elf",
       /\ Auxv.phdr # 0 /\ Auxv.phnum # 0 /\ CanRead(Auxv.phdr, Auxv.phnum * SIZEOF_PHDR)
       /\ crash.exec.phdr.size # 0,
       {FromStartAndSize(Relocated(crash.exec.phdr.vaddr), crash.exec.phdr.size)}, "dynamic")

FindDynamic ==
  LinkerStep("dynamic",
    /\ CanRead(Relocated(crash.exec.phdr.vaddr), crash.exec.phdr.size)
    /\ crash.exec.dynamic.size # 0,
    {FromStartAndSize(Relocated(crash.exec.dynamic.vaddr), crash.exec.dynamic.size)}, "debug")

FindRDebug ==
  LinkerStep("debug",
    /\ CanRead(Relocated(crash.exec.dynamic.vaddr), crash.exec.dynamic.size)
    /\ crash.exec.debug # 0,
    {FromStartAndSize(crash.exec.debug, SIZEOF_RDEBUG)}, "r_debug")

OpenRDebug ==
  /\ pc = "r_debug"
  /\ IF CanRead(crash.exec.debug, SIZEOF_RDEBUG)
     THEN link' = crash.exec.map /\ Goto("links") /\ UNCHANGED <<ranges, found, logs>>
     ELSE GiveUpLinker
  /\ UNCHANGED <<crash, alive, pos, headers, notes, maps, names, loads, outputVars>>

\* Memory that is not a link map is taken for one; here it holds zeros.
LinkMap(l) ==
  IF l \in DOMAIN crash.links THEN crash.links[l] ELSE [name |-> 0, next |-> 0]

NextLinkStays(l) == l

\* l_next of the link map that was read.
NextLink(l) == LinkMap(l).next

\* The list ends at a null pointer, or where it cannot be read.
FollowLink ==
  /\ pc = "links"
  /\ IF link # 0 /\ CanRead(link, SIZEOF_LINKMAP)
     THEN /\ Find({FromStartAndSize(link, SIZEOF_LINKMAP)})
          /\ names' = names \cup {LinkMap(link).name} /\ link' = NextLink(link)
          /\ UNCHANGED pc
     ELSE Goto("names") /\ UNCHANGED <<ranges, found, names, link>>
  /\ UNCHANGED <<crash, alive, pos, headers, notes, maps, loads, logs, outputVars>>

\* Up to the terminating NUL, the end of the mapping, or PATH_MAX.
ReadSize(addr) ==
  LET i == Containing(crash.maps, addr)
  IN  IF i = 0 THEN PATH_MAX ELSE Least(PATH_MAX, crash.maps[i].end - addr)
NulSize(addr) ==
  LET sizes == {n \in 1..ReadSize(addr) : addr + n - 1 \in crash.nuls}
  IN  IF sizes = {} THEN ReadSize(addr) ELSE CHOOSE n \in sizes : \A m \in sizes : n <= m

FindCString(name) ==
  LET ok == CanRead(name, ReadSize(name))
  IN  /\ pc = "names" /\ name \in names /\ names' = names \ {name}
      /\ Find({FromStartAndSize(name, IF ok THEN NulSize(name) ELSE ReadSize(name))})
      /\ Log(IF ok THEN 0 ELSE 1)
      /\ UNCHANGED <<crash, alive, pc, pos, headers, notes, maps, link, loads, outputVars>>

NamesDone ==
  /\ pc = "names" /\ names = {} /\ Goto("merge")
  /\ UNCHANGED <<crash, alive, pos, headers, notes, searchVars, loads, logs, outputVars>>

-----------------------------------------------------------------------------
(* merge_memory_ranges: in the order of their start, a range either extends  *)
(* the last one or follows it.                                               *)

LoadHeader(r) ==
  [type |-> "LOAD", vaddr |-> r.start, size |-> r.end - r.start, align |-> SIZEOF_PTR]
LoadRange(h) == FromStartAndSize(h.vaddr, h.size)

ExtendedToEnd(last, r) == MemoryRange(last.start, r.end)

Extended(last, r) == MemoryRange(last.start, Most(last.end, r.end))

MergeNext(r) ==
  /\ pc = "merge" /\ r \in ranges /\ \A o \in ranges : r.start <= o.start
  /\ ranges' = ranges \ {r}
  /\ loads' = IF loads # <<>> /\ Overlaps(LoadRange(Last(loads)), r)
              THEN Append(Front(loads), LoadHeader(Extended(LoadRange(Last(loads)), r)))
              ELSE Append(loads, LoadHeader(r))
  /\ UNCHANGED <<crash, alive, pc, pos, headers, notes, maps, link, names, found, logs,
                 outputVars>>

MergeDone ==
  /\ pc = "merge" /\ ranges = {} /\ Goto("add")
  /\ UNCHANGED <<crash, alive, pos, headers, notes, searchVars, loads, logs, outputVars>>

-----------------------------------------------------------------------------
(* The output.                                                             *)

Unit(from, at) == [from |-> from, at |-> at]
Repeated(from, n) == [i \in 1..n |-> Unit(from, 0)]
Buffered(from, start, n) == [i \in 1..n |-> Unit(from, start + i - 1)]

Segment(type, vaddr, size, align, data) ==
  [type |-> type, vaddr |-> vaddr, size |-> size, align |-> align, offset |-> 0, data |-> data]
NoteSegment(h) ==
  Segment("NOTE", 0, h.size, h.align, Buffered("core", h.offset, h.size))
LoadSegment(h) == Segment("LOAD", h.vaddr, h.size, h.align, <<>>)
MemfaultNote(from, n) == Segment("NOTE", 0, n, 0, Buffered(from, 0, n))

\* All notes, the memory, the metadata, and the logs if there are any.  A full
\* channel adds a line that says so.
AddSegments ==
  /\ pc = "add" /\ Goto("size")
  /\ segments' = [i \in DOMAIN notes |-> NoteSegment(notes[i])]
                 \o [i \in DOMAIN loads |-> LoadSegment(loads[i])]
                 \o <<MemfaultNote("metadata", MetadataSize)>>
                 \o (CASE logs.held = 0 -> <<>>
                       [] logs.held = LogChannel -> <<MemfaultNote("logs", DebugSize + 1)>>
                       [] OTHER -> <<MemfaultNote("logs", DebugSize)>>)
  /\ UNCHANGED <<crash, alive, pos, headers, notes, searchVars, loads, logs, file>>

AlignUp(n, align) == IF align <= 1 THEN n ELSE ((n + align - 1) \div align) * align

OutputSizeOfData(ss) == FoldLeft(LAMBDA n, s : n + s.size, 0, ss)

\* calc_output_size(): with the headers of the input, in the arithmetic of a u16.
OutputSize(ss) ==
  FoldLeft(LAMBDA n, s : AlignUp(n + s.size, s.align),
           (Len(crash.headers) * SIZEOF_PHDR + SIZEOF_EHDR) % U16, ss)

CheckOutputSize ==
  /\ pc = "size"
  /\ IF OutputSize(segments) > crash.maxSize THEN Goto("failed") ELSE Goto("head")
  /\ UNCHANGED <<crash, alive, pos, headers, notes, searchVars, loads, logs, outputVars>>

\* The ELF header and the program headers, with the offsets that the data will have.
Placed(ss) ==
  LET end[i \in 0..Len(ss)] ==
        IF i = 0 THEN SIZEOF_EHDR + Len(ss) * SIZEOF_PHDR
        ELSE AlignUp(end[i - 1], ss[i].align) + ss[i].size
  IN  [i \in DOMAIN ss |-> [ss[i] EXCEPT !.offset = end[i] - ss[i].size]]

WriteHeaders ==
  /\ pc = "head" /\ Goto("data")
  /\ segments' = Placed(segments)
  /\ file' = Repeated("header", SIZEOF_EHDR + Len(segments) * SIZEOF_PHDR)
  /\ headers' = Placed(segments)
  /\ UNCHANGED <<crash, alive, pos, notes, searchVars, loads, logs>>

PaddedTo(offset) == file \o Repeated("zero", offset - Len(file))
Copied(s, n) == Buffered("memory", s.vaddr, n)

\* When the memory cannot be read any further, the rest of the segment is filled.
Filled(s, out) == out \o Repeated("fill", s.offset + s.size - Len(out))

\* The next segment, from its buffer or from the memory of the process.
WriteSegment ==
  LET s == Head(headers)
      n == Least(s.size, Reach(s.vaddr))
  IN  /\ pc = "data" /\ headers # <<>> /\ headers' = Tail(headers)
      /\ file' = IF s.type = "NOTE" THEN PaddedTo(s.offset) \o s.data
                 ELSE IF alive /\ n < s.size
                 THEN Filled(s, PaddedTo(s.offset) \o Copied(s, n))
                 ELSE PaddedTo(s.offset) \o Copied(s, n)
      /\ UNCHANGED <<crash, alive, pc, pos, notes, searchVars, loads, logs, segments>>

\* The process goes away in the middle of a segment: an end of file, not an error.
WriteCutShort(n) ==
  LET s == Head(headers)
  IN  /\ pc = "data" /\ headers # <<>> /\ s.type = "LOAD" /\ alive
      /\ n < s.size /\ n <= Reach(s.vaddr)
      /\ alive' = FALSE /\ headers' = Tail(headers)
      /\ file' = PaddedTo(s.offset) \o Copied(s, n)
      /\ UNCHANGED <<crash, pc, pos, notes, searchVars, loads, logs, segments>>

WriteDone ==
  /\ pc = "data" /\ headers = <<>> /\ Goto("done")
  /\ UNCHANGED <<crash, alive, pos, headers, notes, searchVars, loads, logs, outputVars>>

\* The disk is full.
WriteFails ==
  /\ pc \in {"head", "data"} /\ Goto("failed")
  /\ UNCHANGED <<crash, alive, pos, headers, notes, searchVars, loads, logs, outputVars>>

\* The process is killed for good while its core is captured.
ProcessGoes ==
  /\ alive /\ pc \notin {"done", "failed"} /\ alive' = FALSE
  /\ UNCHANGED <<crash, pc, pos, headers, notes, searchVars, loads, logs, outputVars>>

-----------------------------------------------------------------------------
Init ==
  /\ crash \in Crashes /\ alive = TRUE /\ pc = "open" /\ pos = 0
  /\ headers = <<>> /\ notes = <<>> /\ maps = <<>> /\ ranges = {} /\ link = 0
  /\ names = {} /\ loads = <<>> /\ logs = [held |-> 0, lost |-> 0]
  /\ segments = <<>> /\ file = <<>> /\ found = {}

Step ==
  \/ OpenCore \/ ReadNoteSegment \/ KernelSelection
  \/ GetProcessMaps \/ NoMaps \/ MapsFail \/ ElfMetadata
  \/ FindPhdr \/ FindDynamic \/ FindRDebug \/ OpenRDebug \/ FollowLink
  \/ (\E name \in names : FindCString(name)) \/ NamesDone
  \/ (\E r \in ranges : MergeNext(r)) \/ MergeDone
  \/ AddSegments \/ CheckOutputSize \/ WriteHeaders \/ WriteSegment \/ WriteDone

Next ==
  \/ Step
  \/ ProcessGoes \/ WriteFails
  \/ pc = "data" /\ headers # <<>> /\ \E n \in 0..Head(headers).size : WriteCutShort(n)

Spec == Init /\ [][Next]_vars

\* The handler runs on.
FairSpec == Spec /\ WF_vars(Step)

-----------------------------------------------------------------------------
(* Properties.                                                             *)

TypeOK ==
  /\ crash \in Crashes /\ alive \in BOOLEAN
  /\ pc \in {"open", "notes", "elf", "dynamic", "debug", "r_debug", "links", "names",
             "merge", "add", "size", "head", "data", "done", "failed"}
  /\ pos \in Nat /\ pos <= crash.stream /\ link \in Nat
  /\ ranges \subseteq found /\ found \subseteq [start : Nat, end : Nat]
  /\ logs \in [held : 0..LogChannel, lost : Nat]

Collected == UNION {Addresses(r) : r \in found}
Covered(hs) == UNION {Addresses(LoadRange(hs[i])) : i \in DOMAIN hs}

\* The segments captured for the threads are exactly the memory that was found to be
\* needed, in the order of addresses and without overlap: a range inside a longer one
\* does not cut it short (memory_range.rs:50).
MergeIsExact ==
  Threads /\ pc \notin {"open", "notes"} =>
    /\ Covered(loads) \cup UNION {Addresses(r) : r \in ranges} = Collected
    /\ \A i, j \in DOMAIN loads : i < j => loads[i].vaddr + loads[i].size <= loads[j].vaddr

\* Every unit of the output is what its program header says, whatever could be read of
\* the process: memory is at the offset of its own address, what could not be read is
\* filled, nothing runs into the next segment, and if the process has not gone the file
\* has its full length (core_writer.rs:138).
OutputIsSound ==
  pc = "done" =>
    /\ \A i, j \in DOMAIN segments :
         i < j => segments[i].offset + segments[i].size <= segments[j].offset
    /\ \A i \in DOMAIN segments : \A k \in 1..segments[i].size :
         LET s == segments[i]
             u == file[s.offset + k]
         IN  IF s.offset + k > Len(file) THEN ~alive
             ELSE IF s.type = "NOTE" THEN u = s.data[k]
             ELSE LET mine == Unit("memory", s.vaddr + k - 1)
                      readable == (s.vaddr .. (s.vaddr + k - 1)) \subseteq crash.readable
                  IN  IF alive THEN u = IF readable THEN mine ELSE Unit("fill", 0)
                      ELSE u \in {mine, Unit("fill", 0), Unit("zero", 0)}
    /\ \A i \in DOMAIN segments :
         /\ segments[i].offset >= SIZEOF_EHDR + Len(segments) * SIZEOF_PHDR
         /\ AlignUp(segments[i].offset, segments[i].align) = segments[i].offset

\* The link maps that the list leads to, through those that can be read.
LinkReadable(l) == Addresses(FromStartAndSize(l, SIZEOF_LINKMAP)) \subseteq crash.readable
Reachable ==
  LET links == Cardinality(DOMAIN crash.links) + 1
      reach[n \in 0..links] ==
        IF n = 0 THEN {crash.exec.map}
        ELSE reach[n - 1] \cup {LinkMap(l).next : l \in {k \in reach[n - 1] : LinkReadable(k)}}
  IN  reach[links] \ {0}
LinkerIsReadable ==
  /\ Auxv.phdr # 0 /\ Auxv.phnum # 0 /\ crash.exec.phdr.size # 0 /\ crash.exec.dynamic.size # 0
  /\ crash.exec.debug # 0
  /\ \A r \in {FromStartAndSize(Auxv.phdr, Most(Auxv.phnum * SIZEOF_PHDR, crash.exec.phdr.size)),
               FromStartAndSize(Relocated(crash.exec.dynamic.vaddr), crash.exec.dynamic.size),
               FromStartAndSize(crash.exec.debug, SIZEOF_RDEBUG)} :
       Addresses(r) \subseteq crash.readable

\* A captured core has all that the crash left to find: every complete note, whatever
\* the order of the headers; of every thread, the stack up to the limit; and every
\* shared object that the linker's list leads to (core_transformer.rs:89).
EvidenceIsCaptured ==
  pc = "done" =>
    /\ \A i \in DOMAIN crash.headers :
         LET h == crash.headers[i]
         IN  h.type = "NOTE" /\ h.offset + h.size <= crash.stream =>
               \E j \in DOMAIN segments : segments[j].data = NoteSegment(h).data
    /\ Threads /\ alive =>
         /\ \A sp \in StackPointers : \A m \in ToSet(crash.maps) :
              HasAddress(m, sp) =>
                (sp .. (Least(sp + crash.maxThreadSize, m.end) - 1)) \subseteq Covered(loads)
         /\ LinkerIsReadable =>
              \A l \in Reachable : LinkReadable(l) =>
                /\ Addresses(FromStartAndSize(l, SIZEOF_LINKMAP)) \subseteq Covered(loads)
                /\ LinkMap(l).name \in Covered(loads)

\* The limit on the size is checked against an estimate.  The file is not larger than
\* the limit, but for the program headers that the input did not have, which the
\* estimate leaves out, and for one alignment.  In a core with so many headers that
\* their size does not fit into 16 bits the estimate is worthless (core_writer.rs:75).
LargestAlign == Max({SIZEOF_PTR} \cup {h.align : h \in ToSet(crash.headers)})
OutputFits ==
  pc = "done" /\ Len(crash.headers) * SIZEOF_PHDR + SIZEOF_EHDR < U16 =>
    Len(file) <= crash.maxSize + LargestAlign
                 + SIZEOF_PHDR * Most(0, Len(segments) - Len(crash.headers))

\* The capture comes to an end, unless the linker's list in the memory of the crashed
\* process is a cycle: then the handler follows it forever (r_debug.rs:84).
Cyclic ==
  Reachable # {} /\ \A l \in Reachable : LinkReadable(l) /\ LinkMap(l).next # 0
CaptureEnds == (pc = "open") ~> (pc \in {"done", "failed"} \/ Cyclic)

\* What is staged can be relied on: it is what its headers say, and it is within the
\* limit but for what OutputFits allows, which is more than the worst case that is
\* spoken of at core_writer.rs:26.
StagedCoreIsGood == OutputIsSound /\ OutputFits
=============================================================================
