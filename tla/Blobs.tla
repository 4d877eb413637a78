-------------------------------- MODULE Blobs --------------------------------
(***************************************************************************)
(* The files of a live session on their way through the server:            *)
(* TeamBlobStore (src/src/team/blobs.ts) and the five verbs over it        *)
(* (src/src/web/blobs.ts).                                                 *)
(*                                                                         *)
(* Every operation awaits the disk, so requests are processes here, and an *)
(* action is what one of them does between two awaits.  An entry of the    *)
(* Map is an object that outlives its place in the Map: whoever was        *)
(* writing or reading goes on with the object, while the disk knows only   *)
(* the path.  A file is made and emptied by its path, written to through   *)
(* an open handle (which a removal does not close) and read by its path.   *)
(***************************************************************************)
EXTENDS Naturals, FiniteSets, SequencesExt, FiniteSetsExt

CONSTANTS
  Requests,   \* the requests of the instance, each sent once at most
  Sends,      \* what each request may be
  Names,      \* a project and a transfer: the key of an object and its path
  Projects,
  ProjectOf,  \* the project of each name
  Digests,    \* what a whole file is known by
  Limit,      \* BLOB_PROJECT_BYTES, in chunks
  DiskFails   \* whether what the disk is asked for may fail

\* A verb, its name, and what that verb takes; size is of the file a sender sends.
Calls ==
  [verb : {"POST"}, name : Names, length : Nat, digest : Digests]
  \cup [verb : {"PATCH"}, name : Names, offset : Nat, size : Nat, digest : Digests]
  \cup [verb : {"GET"}, name : Names, from : Nat]
  \cup [verb : {"DELETE"}, name : Names]

ASSUME BlobsAssumption ==
  /\ Sends \in [Requests -> SUBSET Calls]
  /\ ProjectOf \in [Names -> Projects]
  /\ Limit \in Nat
  /\ DiskFails \in BOOLEAN

VARIABLES
  entries,      \* Map: name -> object, which is named by the request that made it
  objects,      \* every object that was ever in the Map
  files,        \* the paths there are -> the file at each
  contents,     \* every file that ever was -> its chunks, <<digest, position>>
  directories,  \* projects with a directory
  stuck,        \* names whose file was left behind by what failed on the disk
  at,           \* where each request is
  call,         \* what is being reserved or removed, and by whom
  writer,       \* what each sender sends, and to which object
  handle,       \* the file each sender has open
  reader,       \* how far each reader has read, and what it got
  sweeper,      \* the sweep under way, and what it has yet to visit
  serving       \* whether the store has not been closed

store == <<entries, objects>>
disk  == <<files, contents, directories, stuck>>
bound == <<call, writer, handle, reader>>
vars  == <<store, disk, at, bound, sweeper, serving>>

MapSet(map, key, value) ==
  [k \in DOMAIN map \cup {key} |-> IF k = key THEN value ELSE map[k]]
MapDelete(map, keys) == Restrict(map, DOMAIN map \ keys)

Reading   == {"reading", "parked", "woken"}

Resting == [at |-> "resting"]

Init ==
  /\ entries = <<>> /\ objects = <<>>
  /\ files = <<>> /\ contents = <<>> /\ directories = {} /\ stuck = {}
  /\ at = [q \in Requests |-> "unsent"]
  /\ call = <<>> /\ writer = <<>> /\ handle = <<>> /\ reader = <<>>
  /\ sweeper = Resting
  /\ serving = TRUE

\* A request is let through to its verb: it has a token, the project is there and
\* the caller's installation is announced on it (permit).
Permitted(q, c) == serving /\ at[q] = "unsent" /\ c \in Sends[q]

GoesTo(q, place) == at' = [at EXCEPT ![q] = place]
Ends(q) == GoesTo(q, "answered")

\* wake: every reader parked at an object.
Waking(object, places) ==
  [q \in Requests |->
     IF places[q] = "parked" /\ reader[q].of = object THEN "woken" ELSE places[q]]

\* touchedAt: a sweep under way passes over what was touched since it began.
Touch(object) ==
  sweeper' = IF sweeper.at \in {"removing", "visiting"}
             THEN [sweeper EXCEPT !.left = @ \ {object}] ELSE sweeper

-----------------------------------------------------------------------------
(* POST: reserve.                                                          *)

ReservedFor(p) ==
  MapThenSumSet(LAMBDA n : objects[entries[n]].length,
                {n \in DOMAIN entries : ProjectOf[n] = p})

\* Whether somebody is about to make, or to remove, the file of a name.
UnderWay(n) ==
  \/ \E q \in DOMAIN call : at[q] # "unrecorded" /\ call[q].name = n
  \/ sweeper.at = "removing" /\ sweeper.name = n

\* The same reservation said again, or a name that is taken.
ReserveAgain(q, c) ==
  /\ Permitted(q, c) /\ c.verb = "POST"
  /\ c.name \in DOMAIN entries
  /\ LET o == entries[c.name]
     IN  IF objects[o].length = c.length /\ objects[o].digest = c.digest
         THEN Touch(o) ELSE UNCHANGED sweeper
  /\ Ends(q)
  /\ UNCHANGED <<store, disk, bound, serving>>

Reserve(q, c) ==
  /\ Permitted(q, c) /\ c.verb = "POST"
  /\ c.name \notin DOMAIN entries
  /\ IF ReservedFor(ProjectOf[c.name]) + c.length > Limit
     THEN Ends(q) /\ UNCHANGED call
     ELSE GoesTo(q, "making directory") /\ call' = MapSet(call, q, c)
  /\ UNCHANGED <<store, disk, writer, handle, reader, sweeper, serving>>

MakeDirectory(q) ==
  /\ at[q] = "making directory"
  /\ \/ /\ directories' = directories \cup {ProjectOf[call[q].name]}
        /\ GoesTo(q, "making file")
        /\ UNCHANGED call
     \/ /\ DiskFails
        /\ Ends(q)
        /\ call' = MapDelete(call, {q})
        /\ UNCHANGED directories
  /\ UNCHANGED <<store, files, contents, stuck, writer, handle, reader, sweeper, serving>>

\* open(path, "w") empties a file that is there already.  Where the handle then
\* fails to close, the file stays and the request ends without an entry.
MakeFile(q) ==
  LET n == call[q].name
  IN  /\ at[q] = "making file"
      /\ \/ /\ ProjectOf[n] \in directories
            /\ IF n \in DOMAIN files
               THEN contents' = [contents EXCEPT ![files[n]] = <<>>] /\ UNCHANGED files
               ELSE contents' = MapSet(contents, q, <<>>) /\ files' = MapSet(files, n, q)
            /\ \/ GoesTo(q, "recording") /\ stuck' = stuck \ {n}
               \/ DiskFails /\ GoesTo(q, "unrecorded") /\ stuck' = stuck \cup {n}
            /\ UNCHANGED call
         \/ /\ ProjectOf[n] \notin directories \/ DiskFails
            /\ Ends(q)
            /\ call' = MapDelete(call, {q})
            /\ UNCHANGED <<files, contents, stuck>>
      /\ UNCHANGED <<store, directories, writer, handle, reader, sweeper, serving>>

\* An entry of nobody's but this request's, in the place of any other.
Record(q) ==
  LET c == call[q]
  IN  /\ at[q] = "recording"
      /\ objects' = MapSet(objects, q,
                      [name |-> c.name, length |-> c.length, digest |-> c.digest,
                       received |-> 0, writing |-> FALSE, gone |-> FALSE])
      /\ entries' = MapSet(entries, c.name, q)
      /\ call' = MapDelete(call, {q})
      /\ Ends(q)
      /\ UNCHANGED <<disk, writer, handle, reader, sweeper, serving>>

-----------------------------------------------------------------------------
(* PATCH: append.                                                          *)

SendTo(q, c, object) ==
  /\ objects' = [objects EXCEPT ![object].writing = TRUE]
  /\ writer' = MapSet(writer, q, [of |-> object, size |-> c.size, digest |-> c.digest])
  /\ GoesTo(q, "opening")

\* Taken for an object nobody else writes to, from where it ends.
AppendTo(q, c) ==
  /\ Permitted(q, c) /\ c.verb = "PATCH"
  /\ IF /\ c.name \in DOMAIN entries
        /\ ~objects[entries[c.name]].writing
        /\ objects[entries[c.name]].received = c.offset
     THEN SendTo(q, c, entries[c.name])
     ELSE Ends(q) /\ UNCHANGED <<objects, writer>>
  /\ UNCHANGED <<entries, disk, call, handle, reader, sweeper, serving>>

\* Opened before the try whose finally would say that nobody is writing any more.
OpenToAppend(q) ==
  LET n == objects[writer[q].of].name
  IN  /\ at[q] = "opening"
      /\ \/ /\ n \in DOMAIN files
            /\ handle' = MapSet(handle, q, files[n])
            /\ GoesTo(q, "streaming")
            /\ UNCHANGED writer
         \/ /\ n \notin DOMAIN files \/ DiskFails
            /\ Ends(q)
            /\ writer' = MapDelete(writer, {q})
            /\ UNCHANGED handle
      /\ UNCHANGED <<store, disk, call, reader, sweeper, serving>>

\* The next chunk is here: of an object that is gone, more than was reserved, or
\* on its way to the file.
TakeChunk(q) ==
  LET o == objects[writer[q].of]
  IN  /\ at[q] = "streaming"
      /\ o.received < writer[q].size
      /\ GoesTo(q, IF o.gone \/ o.received + 1 > o.length THEN "closing" ELSE "landing")
      /\ UNCHANGED <<store, disk, bound, sweeper, serving>>

\* What a file holds when a chunk is written behind its end: a hole, then it.
Written(chunks, position, chunk) ==
  [k \in 1 .. Max({Len(chunks), position + 1}) |->
     IF k = position + 1 THEN chunk ELSE IF k <= Len(chunks) THEN chunks[k] ELSE <<>>]

Land(q) ==
  LET o == writer[q].of position == objects[o].received
  IN  /\ at[q] = "landing"
      /\ contents' = [contents EXCEPT ![handle[q]] =
                        Written(@, position, <<writer[q].digest, position + 1>>)]
      /\ objects' = [objects EXCEPT ![o].received = @ + 1]
      /\ Touch(o)
      /\ at' = Waking(o, [at EXCEPT ![q] = "streaming"])
      /\ UNCHANGED <<entries, files, directories, stuck, bound, serving>>

\* The sender has sent everything, or is cut off; or a chunk is not written.
StopAppending(q) ==
  /\ \/ at[q] = "streaming"
     \/ at[q] = "landing" /\ DiskFails
  /\ GoesTo(q, "closing")
  /\ UNCHANGED <<store, disk, bound, sweeper, serving>>

\* The finally of append: closed, however it ended.  A handle that fails to close
\* leaves the object as one that is being written to.
CloseAppend(q) ==
  LET o == writer[q].of
  IN  /\ at[q] = "closing"
      /\ \/ /\ objects' = [objects EXCEPT ![o].writing = FALSE]
            /\ Touch(o)
            /\ at' = Waking(o, [at EXCEPT ![q] = "answered"])
         \/ DiskFails /\ Ends(q) /\ UNCHANGED <<objects, sweeper>>
      /\ writer' = MapDelete(writer, {q})
      /\ handle' = MapDelete(handle, {q})
      /\ UNCHANGED <<entries, disk, call, reader, serving>>

-----------------------------------------------------------------------------
(* GET: read.                                                              *)

\* Mutation: at the end of the file there is always something more to read.
GoesOnAtTheEnd(object, reached) ==
  IF reached <= object.received THEN "reading"
  ELSE IF object.gone \/ reached >= object.length THEN "answered" ELSE "parked"

\* The loop of read, up to what it waits for, for an object as it is now.
GoesOn(object, reached) ==
  IF reached < object.received THEN "reading"
  ELSE IF object.gone \/ reached >= object.length THEN "answered" ELSE "parked"

Read(q, c) ==
  /\ Permitted(q, c) /\ c.verb = "GET"
  /\ IF c.name \in DOMAIN entries /\ c.from <= objects[entries[c.name]].length
     THEN LET o == entries[c.name]
          IN  /\ reader' = MapSet(reader, q,
                             [of |-> o, from |-> c.from, reached |-> c.from,
                              until |-> objects[o].received, got |-> <<>>])
              /\ GoesTo(q, GoesOn(objects[o], c.from))
     ELSE Ends(q) /\ UNCHANGED reader
  /\ UNCHANGED <<store, disk, call, writer, handle, sweeper, serving>>

Between(chunks, first, last) == SubSeq(chunks, first, Min({last, Len(chunks)}))

\* Mutation: the reader goes on from where the file ends by then.
ReadRangeSkips(q) ==
  LET r == reader[q] o == objects[r.of]
  IN  /\ at[q] = "reading"
      /\ \/ /\ o.name \in DOMAIN files
            /\ reader' = [reader EXCEPT
                 ![q].got = @ \o Between(contents[files[o.name]], r.reached + 1, r.until),
                 ![q].reached = o.received, ![q].until = o.received]
            /\ Touch(r.of)
            /\ GoesTo(q, GoesOn(o, o.received))
         \/ Ends(q) /\ UNCHANGED <<reader, sweeper>>
      /\ UNCHANGED <<store, disk, call, writer, handle, serving>>

\* What there is of the file up to where the loop looked is sent, and the loop goes
\* on from there; or the file is not there, or the reader is not any more.
ReadRange(q) ==
  LET r == reader[q] o == objects[r.of]
  IN  /\ at[q] = "reading"
      /\ \/ /\ o.name \in DOMAIN files
            /\ reader' = [reader EXCEPT
                 ![q].got = @ \o Between(contents[files[o.name]], r.reached + 1, r.until),
                 ![q].reached = r.until, ![q].until = o.received]
            /\ Touch(r.of)
            /\ GoesTo(q, GoesOn(o, r.until))
         \/ Ends(q) /\ UNCHANGED <<reader, sweeper>>
      /\ UNCHANGED <<store, disk, call, writer, handle, serving>>

Resume(q) ==
  LET o == objects[reader[q].of]
  IN  /\ at[q] = "woken"
      /\ reader' = [reader EXCEPT ![q].until = o.received]
      /\ GoesTo(q, GoesOn(o, reader[q].reached))
      /\ UNCHANGED <<store, disk, call, writer, handle, sweeper, serving>>

\* BLOB_STALL_MS have passed with nothing new.
Stall(q) ==
  /\ at[q] = "parked"
  /\ Ends(q)
  /\ UNCHANGED <<store, disk, bound, sweeper, serving>>

-----------------------------------------------------------------------------
(* DELETE, the sweep, and the end.                                         *)

\* drop, up to the removal of the file.
ForgetEntry(n, places) ==
  /\ objects' = [objects EXCEPT ![entries[n]].gone = TRUE]
  /\ entries' = MapDelete(entries, {n})
  /\ at' = Waking(entries[n], places)

\* Mutation: the file of an object that is being written to is left to its sender.
DropSparesTheFile(q, c) ==
  /\ Permitted(q, c) /\ c.verb = "DELETE"
  /\ IF c.name \in DOMAIN entries
     THEN LET busy == objects[entries[c.name]].writing
          IN  /\ ForgetEntry(c.name, [at EXCEPT ![q] = IF busy THEN "answered" ELSE "removing"])
              /\ call' = IF busy THEN call ELSE MapSet(call, q, c)
     ELSE Ends(q) /\ UNCHANGED <<store, call>>
  /\ UNCHANGED <<disk, writer, handle, reader, sweeper, serving>>

Drop(q, c) ==
  /\ Permitted(q, c) /\ c.verb = "DELETE"
  /\ IF c.name \in DOMAIN entries
     THEN /\ ForgetEntry(c.name, [at EXCEPT ![q] = "removing"])
          /\ call' = MapSet(call, q, c)
     ELSE Ends(q) /\ UNCHANGED <<store, call>>
  /\ UNCHANGED <<disk, writer, handle, reader, sweeper, serving>>

\* rm, with the entry gone already: where it fails, the file is nobody's.
Removes(n) ==
  \/ files' = MapDelete(files, {n}) /\ stuck' = stuck \ {n}
  \/ DiskFails /\ n \in DOMAIN files /\ UNCHANGED files /\ stuck' = stuck \cup {n}

RemoveFile(q) ==
  /\ at[q] = "removing"
  /\ Removes(call[q].name)
  /\ call' = MapDelete(call, {q})
  /\ Ends(q)
  /\ UNCHANGED <<store, contents, directories, writer, handle, reader, sweeper, serving>>

\* The entries nobody has touched for BLOB_KEEP_MS at the moment of the timer.
Sweep ==
  /\ serving /\ sweeper.at = "resting"
  /\ \E expired \in (SUBSET Range(entries)) \ {{}} :
       sweeper' = [at |-> "visiting", left |-> expired, dropped |-> FALSE]
  /\ UNCHANGED <<store, disk, at, bound, serving>>

\* One of them that nobody is writing to goes, by its name.
SweepOne(o) ==
  /\ sweeper.at = "visiting" /\ o \in sweeper.left
  /\ ~objects[o].writing
  /\ LET n == objects[o].name left == sweeper.left \ {o}
     IN  IF n \in DOMAIN entries
         THEN /\ ForgetEntry(n, at)
              /\ sweeper' = [at |-> "removing", left |-> left, dropped |-> TRUE, name |-> n]
         ELSE /\ sweeper' = [at |-> "visiting", left |-> left, dropped |-> TRUE]
              /\ UNCHANGED <<store, at>>
  /\ UNCHANGED <<disk, bound, serving>>

SweepRemove ==
  /\ sweeper.at = "removing"
  /\ files' = MapDelete(files, {sweeper.name})
  /\ stuck' = stuck \ {sweeper.name}
  /\ sweeper' = [at |-> "visiting", left |-> sweeper.left, dropped |-> TRUE]
  /\ UNCHANGED <<store, contents, directories, at, bound, serving>>

\* Nobody waits for the sweep: an rm that fails in it is a rejection nobody handles,
\* and ends the process with all that was under way.  The next open empties the disk.
SweepFails ==
  /\ sweeper.at = "removing" /\ DiskFails
  /\ serving' = FALSE
  /\ entries' = <<>>
  /\ at' = [q \in Requests |->
              IF at[q] \in {"unsent", "unrecorded"} THEN at[q]
              ELSE IF at[q] = "recording" THEN "unrecorded" ELSE "answered"]
  /\ call' = Restrict(call, {q \in DOMAIN call : at[q] \in {"recording", "unrecorded"}})
  /\ writer' = <<>> /\ handle' = <<>>
  /\ sweeper' = Resting
  /\ UNCHANGED <<objects, disk, reader>>

Prunes(left) == IF left = {} THEN Resting ELSE [at |-> "pruning", left |-> left]

\* prune follows where anything was dropped, and passes over what it cannot read.
SweepDone ==
  /\ sweeper.at = "visiting" /\ \A o \in sweeper.left : objects[o].writing
  /\ \/ sweeper' = IF sweeper.dropped THEN Prunes(directories) ELSE Resting
     \/ DiskFails /\ sweeper' = Resting
  /\ UNCHANGED <<store, disk, at, bound, serving>>

InDirectory(p) == {n \in DOMAIN files : ProjectOf[n] = p}

PruneLook(p) ==
  /\ sweeper.at = "pruning" /\ p \in sweeper.left
  /\ \/ /\ p \in directories /\ InDirectory(p) = {}
        /\ sweeper' = [at |-> "emptying", left |-> sweeper.left \ {p}, project |-> p]
     \/ /\ p \notin directories \/ InDirectory(p) # {} \/ DiskFails
        /\ sweeper' = Prunes(sweeper.left \ {p})
  /\ UNCHANGED <<store, disk, at, bound, serving>>

\* rm, with all that is in it by now; or some of that, where it fails.
PruneRemove ==
  /\ sweeper.at = "emptying"
  /\ \E lost \in SUBSET InDirectory(sweeper.project) :
       /\ \/ /\ lost = InDirectory(sweeper.project)
             /\ directories' = directories \ {sweeper.project}
          \/ DiskFails /\ UNCHANGED directories
       /\ files' = MapDelete(files, lost)
       /\ stuck' = stuck \ lost
  /\ sweeper' = Prunes(sweeper.left)
  /\ UNCHANGED <<store, contents, at, bound, serving>>

\* close: whatever is in the Map is gone, and its readers are woken.
Close ==
  /\ serving
  /\ serving' = FALSE
  /\ objects' = [o \in DOMAIN objects |->
                   IF o \in Range(entries) THEN [objects[o] EXCEPT !.gone = TRUE]
                   ELSE objects[o]]
  /\ entries' = <<>>
  /\ at' = [q \in Requests |-> IF at[q] = "parked" /\ reader[q].of \in Range(entries)
                               THEN "woken" ELSE at[q]]
  /\ UNCHANGED <<disk, bound, sweeper>>

-----------------------------------------------------------------------------

Next ==
  \/ \E q \in Requests :
       \/ \E c \in Sends[q] :
            ReserveAgain(q, c) \/ Reserve(q, c) \/ AppendTo(q, c) \/ Read(q, c) \/ Drop(q, c)
       \/ MakeDirectory(q) \/ MakeFile(q) \/ Record(q)
       \/ OpenToAppend(q) \/ TakeChunk(q) \/ Land(q) \/ StopAppending(q) \/ CloseAppend(q)
       \/ ReadRange(q) \/ Resume(q) \/ Stall(q)
       \/ RemoveFile(q)
  \/ \E o \in Requests : SweepOne(o)
  \/ \E p \in Projects : PruneLook(p)
  \/ Sweep \/ SweepRemove \/ SweepFails \/ SweepDone \/ PruneRemove
  \/ Close

\* A file is read in the end, a woken reader runs and the timer of a parked one
\* fires; a sender may stop sending without a word.
Readers == {q \in Requests : \E c \in Sends[q] : c.verb = "GET"}
Fairness == \A q \in Readers : WF_vars(ReadRange(q) \/ Resume(q) \/ Stall(q))

Spec == Init /\ [][Next]_vars /\ Fairness

-----------------------------------------------------------------------------
(* Properties.                                                             *)

(* No two senders write to one object, no more of it arrives than was      *)
(* reserved, and an object in the Map is not one that is gone.             *)
OneSenderAtATime ==
  /\ \A q, r \in DOMAIN writer : writer[q].of = writer[r].of => q = r
  /\ \A q \in DOMAIN writer : objects[writer[q].of].writing
  /\ \A o \in DOMAIN objects : objects[o].received <= objects[o].length
  /\ \A n \in DOMAIN entries : ~objects[entries[n]].gone

(* No wake-up is lost: a reader that is parked has had all there is of an  *)
(* object that is still there, however chunks, drops and its own parking   *)
(* fell; "the whole reason it is parked is that it should see it arriving" *)
(* (src/src/team/blobs.ts:308).                                            *)
ReadersAreWoken ==
  \A q \in Requests : at[q] = "parked" =>
    /\ ~objects[reader[q].of].gone
    /\ reader[q].reached >= objects[reader[q].of].received
    /\ reader[q].reached < objects[reader[q].of].length

(* What a reader is given is the file, from where it asked, in order and   *)
(* without a gap, while senders come and go and the sweep passes - as long *)
(* as its name has been reserved once: the disk knows only the path.       *)
OnlyOne(o) ==
  \A p \in Requests \ {o} :
    /\ p \in DOMAIN objects => objects[p].name # objects[o].name
    /\ at[p] \in {"recording", "unrecorded"} => call[p].name # objects[o].name
ReadersGetTheFile ==
  \A q \in DOMAIN reader :
    LET o == reader[q].of
    IN  OnlyOne(o) =>
          /\ Len(reader[q].got) = reader[q].reached - reader[q].from
          /\ \A k \in DOMAIN reader[q].got :
               reader[q].got[k] = <<objects[o].digest, reader[q].from + k>>

(* What is being written is read as it arrives.                            *)
FilesArriveWhole == OneSenderAtATime /\ ReadersGetTheFile /\ ReadersAreWoken

(* Nothing stays on the disk that nothing will remove, but for what the    *)
(* disk itself would not let go: while the store is open, every file is an *)
(* entry's or in the hands of somebody, unless removing it failed, or the  *)
(* closing of it as it was reserved, and nobody reserved its name again or *)
(* removed it since (src/src/team/blobs.ts:373 and 238).                   *)
NothingLeftOnDisk ==
  serving => \A n \in DOMAIN files : n \in DOMAIN entries \/ UnderWay(n) \/ n \in stuck

(* Whoever reads is answered in the end, whatever became of the sender:    *)
(* "that is only safe with an end to it" (src/src/team/blobs.ts:95).       *)
EveryReadEnds == \A q \in Readers : at[q] \in Reading ~> at[q] = "answered"

(* "The most one project may have reserved at once"                        *)
(* (src/src/team/blobs.ts:64).                                             *)
WithinLimit == \A p \in Projects : ReservedFor(p) <= Limit

(* writing is "set while a request is appending" (src/src/team/blobs.ts:   *)
(* 130), and not when none is.                                             *)
BusyMeansAppending ==
  \A o \in DOMAIN objects : objects[o].writing =>
    \E q \in DOMAIN writer : writer[q].of = o
=============================================================================
