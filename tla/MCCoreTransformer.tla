------------------------- MODULE MCCoreTransformer --------------------------
(* A small instance of CoreTransformer for TLC: one process with an executable at 2, *)
(* the linker's data at 10 and two stacks, and what may be different about it.       *)
EXTENDS CoreTransformer, TLC

Status(sp) == [kind |-> "prstatus", sp |-> sp]
AuxvNote(at) == [kind |-> "auxv", phdr |-> at, phnum |-> 2]
Other(kind) == [kind |-> kind]

Note(offset, size, align, ns) ==
  [type |-> "NOTE", offset |-> offset, size |-> size, align |-> align, vaddr |-> 0, notes |-> ns]
Load(offset, size, vaddr) ==
  [type |-> "LOAD", offset |-> offset, size |-> size, align |-> 4, vaddr |-> vaddr, notes |-> <<>>]

Map(start, end, offset) == [start |-> start, end |-> end, offset |-> offset]
Mapped == <<Map(2, 10, 0), Map(10, 18, 8), Map(20, 26, 0), Map(26, 30, 0)>>
AllReadable == UNION {Addresses(Mapped[i]) : i \in DOMAIN Mapped}

\* The build ID is in the second note, or missing.
Image(second) ==
  2 :> [phoff |-> 2, notes |-> <<[offset |-> 5, size |-> 2, buildId |-> second],
                                 [offset |-> 4, size |-> 1, buildId |-> FALSE]>>]

Exec(map) ==
  [phdr |-> [vaddr |-> 1, size |-> 2], dynamic |-> [vaddr |-> 7, size |-> 2],
   debug |-> 12, map |-> map]

\* Link maps at 13 and 15, with the second name next to the third mapping.
List(last) == 13 :> [name |-> 14, next |-> 15] @@ 15 :> [name |-> 16, next |-> last]

Threads1 == <<Status(22), AuxvNote(4), Status(24)>>

BaseCrash ==
  [strategy |-> "threads", supported |-> TRUE, maxThreadSize |-> 3, maxSize |-> 60,
   headers |-> <<Note(20, 3, 2, Threads1), Note(23, 1, 0, <<Other("file")>>), Load(28, 8, 2)>>,
   stream |-> 60, maps |-> Mapped, readable |-> AllReadable,
   images |-> Image(TRUE), exec |-> Exec(13), links |-> List(0), nuls |-> {14, 17}]

\* The kernel's file: headers in another order, cut off, with notes that do not parse.
CoreFiles ==
  {[BaseCrash EXCEPT !.headers = <<Note(23, 2, 2, <<Status(22)>>), Load(28, 8, 2),
                                   Note(20, 3, 2, <<AuxvNote(4), Status(24)>>)>>],
   [BaseCrash EXCEPT !.stream = 23],
   [BaseCrash EXCEPT !.stream = 4],
   [BaseCrash EXCEPT !.headers[1].notes = <<Other("badstatus"), AuxvNote(0), Status(28), Other("short"), Status(24)>>]}

\* The process: holes in its memory, broken and cyclic lists, stacks that overlap,
\* reach the end of a mapping or are not mapped.
Processes ==
  {[BaseCrash EXCEPT !.readable = AllReadable \ {hole}, !.maxThreadSize = m]
     : hole \in {3, 5, 8, 12, 13, 15, 16, 23, 25}, m \in {1, 3}}
  \cup {[BaseCrash EXCEPT !.links = List(last), !.readable = AllReadable \ {hole}]
          : last \in {13, 19, 17}, hole \in {0, 14, 23}}
  \cup {[BaseCrash EXCEPT !.images = Image(FALSE), !.maxThreadSize = m] : m \in {0, 1, 10}}
  \cup {[BaseCrash EXCEPT !.headers[1].notes = <<Status(a), Status(b), AuxvNote(4)>>]
          : a \in {18, 21, 25}, b \in {25, 26, 29}}

\* Everything that the kernel lists, with limits around the size of the output.
Kernel ==
  {[BaseCrash EXCEPT !.strategy = s, !.supported = FALSE, !.maxSize = m,
                     !.headers = @ \o <<Load(36, 4, l), Load(40, 4, 26)>>]
     : s \in {"kernel", "threads"}, m \in {26, 28, 29, 30, 60}, l \in {20, 18}}
  \cup {[BaseCrash EXCEPT !.strategy = "kernel", !.maxSize = 20,
                          !.headers = @ \o [i \in 1..12 |-> Load(36, 0, 20)]]}
  \cup {[BaseCrash EXCEPT !.maxSize = m] : m \in 18..40}

MCCrashes == {BaseCrash} \cup CoreFiles \cup Processes \cup Kernel
=============================================================================
