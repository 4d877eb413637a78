----------------------------- MODULE BlobsProofs -----------------------------
(***************************************************************************)
(* What the files of live sessions are promised by Blobs, for any requests *)
(* in any order, whenever the sweep passes and whatever the disk refuses:  *)
(* to make, open, write, close or remove.                                  *)
(***************************************************************************)
EXTENDS Blobs, SequenceTheorems, TLAPS

Making  == {"making directory", "making file", "recording", "unrecorded"}
Opened  == {"streaming", "landing", "closing"}
Sending == {"opening"} \cup Opened
Places  == {"unsent", "answered", "removing"} \cup Making \cup Sending \cup Reading

Objects ==
  [name : Names, length : Nat, digest : Digests, received : Nat, writing : BOOLEAN, gone : BOOLEAN]
Writers == [of : Requests, size : Nat, digest : Digests]
Chunks == (Digests \X Nat) \cup {<<>>}
ReaderRecords == [of : Requests, from : Nat, reached : Nat, until : Nat, got : Seq(Chunks)]
Sweepers ==
  {Resting}
  \cup [at : {"visiting"}, left : SUBSET Requests, dropped : BOOLEAN]
  \cup [at : {"removing"}, left : SUBSET Requests, dropped : BOOLEAN, name : Names]
  \cup [at : {"pruning"}, left : SUBSET Projects]
  \cup [at : {"emptying"}, left : SUBSET Projects, project : Projects]

\* Objects, and the entries that are left of them.
ObjectsTyped ==
  /\ objects \in [DOMAIN objects -> Objects] /\ DOMAIN objects \subseteq Requests
  /\ DOMAIN entries \subseteq Names
  /\ \A n \in DOMAIN entries :
       entries[n] \in DOMAIN objects /\ objects[entries[n]].name = n /\ ~objects[entries[n]].gone

\* Where a request is says what is kept of it.
RequestTyped(q) ==
  /\ at[q] \in Places
  /\ q \in DOMAIN objects => at[q] = "answered"
  /\ q \in DOMAIN call <=> at[q] \in Making \cup {"removing"}
  /\ q \in DOMAIN writer <=> at[q] \in Sending
  /\ q \in DOMAIN handle <=> at[q] \in Opened
  /\ at[q] \in Reading => q \in DOMAIN reader
  /\ q \in DOMAIN call => call[q] \in Sends[q] /\ call[q].name \in Names
  /\ at[q] \in Making => call[q].verb = "POST"
  /\ q \in DOMAIN writer => writer[q] \in Writers /\ writer[q].of \in DOMAIN objects
  /\ q \in DOMAIN reader => reader[q] \in ReaderRecords /\ reader[q].of \in DOMAIN objects

RequestsTyped ==
  /\ at \in [Requests -> Places]
  /\ DOMAIN call \subseteq Requests /\ DOMAIN writer \subseteq Requests
  /\ DOMAIN handle \subseteq Requests /\ DOMAIN reader \subseteq Requests
  /\ \A q \in Requests : RequestTyped(q)

(* Whoever sends to a name sends the file it was reserved for.             *)
OneFileToAName ==
  \A q, r \in Requests : \A c \in Sends[q], d \in Sends[r] :
    c.verb \in {"POST", "PATCH"} /\ d.verb \in {"POST", "PATCH"} /\ c.name = d.name
      => c.digest = d.digest

\* A request that has made a file, or found one to empty, and the name of it.
Maker(m) == m \in DOMAIN objects \/ at[m] \in {"recording", "unrecorded"}
NameOf(m) == IF m \in DOMAIN objects THEN objects[m].name ELSE call[m].name
Sole(m) ==
  OneFileToAName /\ Maker(m) /\ \A p \in Requests \ {m} : Maker(p) => NameOf(p) # NameOf(m)
Arrived(m) == IF m \in DOMAIN objects THEN objects[m].received ELSE 0

FilesTyped ==
  /\ contents \in [DOMAIN contents -> Seq(Chunks)] /\ DOMAIN contents \subseteq Requests
  /\ DOMAIN files \subseteq Names /\ directories \subseteq Projects /\ stuck \subseteq Names
  /\ \A n \in DOMAIN files :
       files[n] \in DOMAIN contents /\ Maker(files[n]) /\ NameOf(files[n]) = n
  /\ \A q \in DOMAIN handle :
       /\ handle[q] \in DOMAIN contents /\ Maker(handle[q])
       /\ NameOf(handle[q]) = objects[writer[q].of].name

BTypeOK == ObjectsTyped /\ RequestsTyped /\ FilesTyped /\ sweeper \in Sweepers

\* A chunk on its way has room, for nobody else writes to its object meanwhile.
SendersAlone ==
  /\ OneSenderAtATime
  /\ \A q \in Requests : at[q] = "landing" =>
       objects[writer[q].of].received < objects[writer[q].of].length

\* A reader looks no further than what has arrived.
ReadersBehind ==
  /\ ReadersAreWoken
  /\ \A q \in DOMAIN reader :
       reader[q].from <= reader[q].reached /\ reader[q].until <= objects[reader[q].of].received
  /\ \A q \in Requests : at[q] = "reading" => reader[q].reached < reader[q].until

\* The file of a name that was only reserved once is what has arrived, as long as it is
\* sent no other.
FilesHoldIt ==
  /\ \A o \in DOMAIN objects :
       \E c \in Sends[o] :
         c.verb = "POST" /\ c.name = objects[o].name /\ c.digest = objects[o].digest
  /\ OneFileToAName => \A q \in DOMAIN writer : writer[q].digest = objects[writer[q].of].digest
  /\ \A m \in Requests : Sole(m) =>
       /\ m \in DOMAIN contents /\ Len(contents[m]) = Arrived(m)
       /\ \A k \in 1..Arrived(m) : contents[m][k] = <<objects[m].digest, k>>

HasIt(q) ==
  LET o == reader[q].of
  IN  Sole(o) =>
        /\ Len(reader[q].got) = reader[q].reached - reader[q].from
        /\ \A k \in 1..Len(reader[q].got) :
             reader[q].got[k] = <<objects[o].digest, reader[q].from + k>>
ReadersHaveIt == \A q \in DOMAIN reader : HasIt(q)

\* Whoever is only about to make a file does not answer for one that is there.
FilesAreHeld ==
  serving => \A n \in DOMAIN files :
    \/ n \in DOMAIN entries \cup stuck
    \/ \E q \in Requests : at[q] \in {"recording", "removing"} /\ call[q].name = n
    \/ sweeper.at = "removing" /\ sweeper.name = n

(* The inductive invariant.  The disk knows only the path, so what a file  *)
(* holds is known by who made it and under which name; a name that was     *)
(* reserved once has one maker, and every handle and every read of it is   *)
(* of what that one made.                                                  *)
BInv == BTypeOK /\ SendersAlone /\ ReadersBehind /\ FilesHoldIt /\ ReadersHaveIt /\ FilesAreHeld

-----------------------------------------------------------------------------
(* What is where: the types of objects and of requests.                    *)

LEMMA TouchTyped ==
  ASSUME sweeper \in Sweepers, NEW object, Touch(object)
  PROVE  /\ sweeper' \in Sweepers /\ sweeper'.at = sweeper.at
         /\ sweeper.at = "removing" => sweeper'.name = sweeper.name
BY DEF Touch, Sweepers, Resting

\* Waking changes what is parked, and nothing else.
LEMMA WakingTyped ==
  ASSUME NEW places \in [Requests -> Places], NEW object
  PROVE  LET woken == Waking(object, places)
         IN  /\ woken \in [Requests -> Places]
             /\ \A q \in Requests :
                  \/ places[q] = "parked" /\ reader[q].of = object /\ woken[q] = "woken"
                  \/ woken[q] = places[q] /\ ~(places[q] = "parked" /\ reader[q].of = object)
BY DEF Waking, Places, Reading

Typed == ObjectsTyped /\ RequestsTyped /\ sweeper \in Sweepers

\* A request is where it was, or woken, and what is kept of it is as it was.
SameRequest(q) ==
  /\ at'[q] = at[q] \/ (at[q] = "parked" /\ at'[q] = "woken")
  /\ q \in DOMAIN objects' <=> q \in DOMAIN objects
  /\ q \in DOMAIN call' <=> q \in DOMAIN call
  /\ q \in DOMAIN writer' <=> q \in DOMAIN writer
  /\ q \in DOMAIN handle' <=> q \in DOMAIN handle
  /\ q \in DOMAIN reader' <=> q \in DOMAIN reader
  /\ q \in DOMAIN call => call'[q] = call[q]
  /\ q \in DOMAIN writer => writer'[q] = writer[q]
  /\ q \in DOMAIN reader => reader'[q] = reader[q]

LEMMA SameTyped ==
  ASSUME NEW q \in Requests, RequestTyped(q), SameRequest(q), DOMAIN objects \subseteq DOMAIN objects'
  PROVE  RequestTyped(q)'
<1>1. CASE at'[q] = at[q]
  BY <1>1 DEF RequestTyped, SameRequest
<1>2. CASE at[q] = "parked" /\ at'[q] = "woken"
  <2>1. /\ q \notin DOMAIN call /\ q \notin DOMAIN writer /\ q \notin DOMAIN handle
        /\ q \in DOMAIN reader /\ q \notin DOMAIN objects
    BY <1>2 DEF RequestTyped, Making, Sending, Opened, Reading
  <2>2. "woken" \in Places /\ "woken" \notin Making \cup {"removing"}
        /\ "woken" \notin Sending /\ "woken" \notin Opened
    BY DEF Places, Making, Sending, Opened, Reading
  <2> QED
    BY <1>2, <2>1, <2>2 DEF RequestTyped, SameRequest
<1> QED
  BY <1>1, <1>2 DEF SameRequest

\* What a step leaves to show that changes what is kept of one request.
LEMMA OneMoves ==
  ASSUME RequestsTyped, NEW q \in Requests, RequestTyped(q)',
         \A r \in Requests \ {q} : SameRequest(r), DOMAIN objects \subseteq DOMAIN objects',
         at' = [r \in Requests |-> at'[r]],
         DOMAIN call' \subseteq Requests, DOMAIN writer' \subseteq Requests,
         DOMAIN handle' \subseteq Requests, DOMAIN reader' \subseteq Requests
  PROVE  RequestsTyped'
<1>1. ASSUME NEW r \in Requests
      PROVE  RequestTyped(r)'
  <2>1. CASE r = q
    BY <2>1
  <2>2. CASE r # q
    BY <2>2, SameTyped DEF RequestsTyped
  <2> QED
    BY <2>1, <2>2
<1>2. \A r \in Requests : at'[r] \in Places
  BY <1>1 DEF RequestTyped
<1>3. at' \in [Requests -> Places]
  BY <1>2
<1> QED
  BY <1>1, <1>3 DEF RequestsTyped

\* What a step leaves to show that only moves one request from place to place.
LEMMA MovesKeep ==
  ASSUME Typed, NEW q \in Requests, NEW place \in Places, GoesTo(q, place),
         UNCHANGED <<store, bound>>, at[q] # "answered",
         place \in Making \cup {"removing"} <=> at[q] \in Making \cup {"removing"},
         place \in Making => at[q] \in Making,
         place \in Sending <=> at[q] \in Sending,
         place \in Opened <=> at[q] \in Opened,
         place \in Reading => at[q] \in Reading
  PROVE  ObjectsTyped' /\ RequestsTyped'
<1>1. at' = [at EXCEPT ![q] = place] /\ RequestsTyped /\ RequestTyped(q)
  BY DEF GoesTo, Typed, RequestsTyped
<1>2. UNCHANGED <<entries, objects, call, writer, handle, reader>>
  BY DEF store, bound
<1>3. ObjectsTyped'
  BY <1>2 DEF Typed, ObjectsTyped
<1>4. at'[q] = place /\ at' = [r \in Requests |-> at'[r]] /\ \A r \in Requests \ {q} : at'[r] = at[r]
  BY <1>1 DEF RequestsTyped
<1>5. RequestTyped(q)'
  BY <1>1, <1>2, <1>4 DEF RequestTyped
<1>6. \A r \in Requests \ {q} : SameRequest(r)
  BY <1>2, <1>4 DEF SameRequest
<1>7. RequestsTyped'
  <2>1. /\ DOMAIN objects \subseteq DOMAIN objects'
        /\ DOMAIN call' \subseteq Requests /\ DOMAIN writer' \subseteq Requests
        /\ DOMAIN handle' \subseteq Requests /\ DOMAIN reader' \subseteq Requests
    BY <1>1, <1>2 DEF RequestsTyped
  <2> QED
    BY <1>1, <1>4, <1>5, <1>6, <2>1, OneMoves
<1> QED
  BY <1>3, <1>7

LEMMA SentTyped ==
  ASSUME NEW q \in Requests, NEW c \in Sends[q]
  PROVE  /\ c \in Calls /\ c.name \in Names
         /\ c.verb = "POST" => c.length \in Nat /\ c.digest \in Digests
         /\ c.verb = "PATCH" => c.offset \in Nat /\ c.size \in Nat /\ c.digest \in Digests
         /\ c.verb = "GET" => c.from \in Nat
<1>1. c \in Calls
  BY BlobsAssumption
<1> QED
  BY <1>1 DEF Calls

LEMMA ReserveAgainTyped ==
  ASSUME Typed, NEW q \in Requests, NEW c \in Sends[q], ReserveAgain(q, c)
  PROVE  Typed'
<1>1. ObjectsTyped' /\ RequestsTyped'
  BY MovesKeep DEF ReserveAgain, Permitted, Ends, Places, Making, Sending, Opened, Reading
<1>2. sweeper' \in Sweepers
  BY TouchTyped DEF ReserveAgain, Typed
<1> QED
  BY <1>1, <1>2 DEF Typed

LEMMA ReserveTyped ==
  ASSUME Typed, NEW q \in Requests, NEW c \in Sends[q], Reserve(q, c)
  PROVE  Typed'
<1>1. CASE GoesTo(q, "answered") /\ UNCHANGED call
  BY <1>1, MovesKeep DEF Reserve, Permitted, Places, Making, Sending, Opened, Reading, bound, Typed
<1>2. CASE GoesTo(q, "making directory") /\ call' = MapSet(call, q, c)
  <2>1. /\ at' = [at EXCEPT ![q] = "making directory"] /\ at[q] = "unsent"
        /\ DOMAIN call' = DOMAIN call \cup {q} /\ call'[q] = c
        /\ \A r \in DOMAIN call : r # q => call'[r] = call[r]
        /\ c.verb = "POST" /\ c.name \in Names
        /\ UNCHANGED <<entries, objects, writer, handle, reader, sweeper>>
    BY <1>2, SentTyped DEF Reserve, Permitted, GoesTo, MapSet, store
  <2>2. RequestTyped(q) /\ RequestsTyped
    BY DEF Typed, RequestsTyped
  <2>3. /\ at'[q] = "making directory" /\ at' = [r \in Requests |-> at'[r]]
        /\ \A r \in Requests \ {q} : at'[r] = at[r]
    BY <2>1, <2>2 DEF RequestsTyped
  <2>4. RequestTyped(q)'
    BY <2>1, <2>2, <2>3 DEF RequestTyped, Places, Making, Sending, Opened, Reading
  <2>5. \A r \in Requests \ {q} : SameRequest(r)
    BY <2>1, <2>3 DEF SameRequest
  <2>6. RequestsTyped'
    <3>1. /\ DOMAIN objects \subseteq DOMAIN objects'
          /\ DOMAIN call' \subseteq Requests /\ DOMAIN writer' \subseteq Requests
          /\ DOMAIN handle' \subseteq Requests /\ DOMAIN reader' \subseteq Requests
      BY <2>1, <2>2 DEF RequestsTyped
    <3> QED
      BY <2>2, <2>3, <2>4, <2>5, <3>1, OneMoves
  <2> QED
    BY <2>1, <2>6 DEF Typed, ObjectsTyped
<1> QED
  BY <1>1, <1>2 DEF Reserve, Ends

\* The same of a step that lets go of what was being reserved or removed.
LEMMA CallEnds ==
  ASSUME Typed, NEW q \in Requests, at[q] \in Making \cup {"removing"}, GoesTo(q, "answered"),
         call' = MapDelete(call, {q}), UNCHANGED <<store, writer, handle, reader>>
  PROVE  ObjectsTyped' /\ RequestsTyped'
<1>1. /\ at' = [at EXCEPT ![q] = "answered"]
      /\ DOMAIN call' = DOMAIN call \ {q} /\ \A r \in DOMAIN call' : call'[r] = call[r]
      /\ UNCHANGED <<entries, objects, writer, handle, reader>>
  BY DEF GoesTo, MapDelete, Restrict, store
<1>2. RequestTyped(q) /\ RequestsTyped
  BY DEF Typed, RequestsTyped
<1>3. /\ at'[q] = "answered" /\ at' = [r \in Requests |-> at'[r]]
      /\ \A r \in Requests \ {q} : at'[r] = at[r]
  BY <1>1, <1>2 DEF RequestsTyped
<1>4. RequestTyped(q)'
  BY <1>1, <1>2, <1>3 DEF RequestTyped, Places, Making, Sending, Opened, Reading
<1>5. \A r \in Requests \ {q} : SameRequest(r)
  BY <1>1, <1>3 DEF SameRequest
<1>6. /\ DOMAIN objects \subseteq DOMAIN objects'
      /\ DOMAIN call' \subseteq Requests /\ DOMAIN writer' \subseteq Requests
      /\ DOMAIN handle' \subseteq Requests /\ DOMAIN reader' \subseteq Requests
  BY <1>1, <1>2 DEF RequestsTyped
<1>7. RequestsTyped'
  BY <1>2, <1>3, <1>4, <1>5, <1>6, OneMoves
<1> QED
  BY <1>1, <1>7 DEF Typed, ObjectsTyped

LEMMA MakeDirectoryTyped ==
  ASSUME Typed, NEW q \in Requests, MakeDirectory(q)
  PROVE  Typed'
<1>0. at[q] = "making directory" /\ UNCHANGED <<store, writer, handle, reader, sweeper>>
  BY DEF MakeDirectory
<1>1. CASE GoesTo(q, "making file") /\ UNCHANGED call
  BY <1>0, <1>1, MovesKeep DEF Typed, Places, Making, Sending, Opened, Reading, bound
<1>2. CASE GoesTo(q, "answered") /\ call' = MapDelete(call, {q})
  BY <1>0, <1>2, CallEnds DEF Typed, Making
<1> QED
  BY <1>1, <1>2 DEF MakeDirectory, Ends

LEMMA MakeFileTyped ==
  ASSUME Typed, NEW q \in Requests, MakeFile(q)
  PROVE  Typed'
<1>1. CASE GoesTo(q, "recording") /\ UNCHANGED call
  BY <1>1, MovesKeep DEF MakeFile, Typed, Places, Making, Sending, Opened, Reading, bound
<1>3. CASE GoesTo(q, "unrecorded") /\ UNCHANGED call
  BY <1>3, MovesKeep DEF MakeFile, Typed, Places, Making, Sending, Opened, Reading, bound
<1>2. CASE GoesTo(q, "answered") /\ call' = MapDelete(call, {q})
  BY <1>2, CallEnds DEF MakeFile, Typed, Making
<1> QED
  BY <1>1, <1>2, <1>3 DEF MakeFile, Ends

LEMMA RemoveFileTyped ==
  ASSUME Typed, NEW q \in Requests, RemoveFile(q)
  PROVE  Typed'
BY CallEnds DEF RemoveFile, Ends, Typed

LEMMA RecordTyped ==
  ASSUME Typed, NEW q \in Requests, Record(q)
  PROVE  /\ Typed'
         /\ call[q] \in Sends[q] /\ call[q].verb = "POST" /\ q \notin DOMAIN objects
         /\ DOMAIN objects' = DOMAIN objects \cup {q}
         /\ \A o \in DOMAIN objects : objects'[o] = objects[o]
         /\ objects'[q].name = call[q].name /\ objects'[q].digest = call[q].digest
         /\ objects'[q].received = 0 /\ ~objects'[q].gone
<1> DEFINE c == call[q]
           new == [name |-> c.name, length |-> c.length, digest |-> c.digest,
                   received |-> 0, writing |-> FALSE, gone |-> FALSE]
<1>1. /\ at[q] = "recording" /\ at' = [at EXCEPT ![q] = "answered"]
      /\ DOMAIN call' = DOMAIN call \ {q}
      /\ \A r \in DOMAIN call' : call'[r] = call[r]
      /\ UNCHANGED <<writer, handle, reader, sweeper>>
  BY DEF Record, Ends, GoesTo, MapDelete, Restrict
<1>0. RequestTyped(q) /\ RequestsTyped
  BY DEF Typed, RequestsTyped
<1>2. c \in Sends[q] /\ c.verb = "POST" /\ c.name \in Names
  BY <1>0, <1>1 DEF RequestTyped, Making
<1>3. new \in Objects /\ new.name = c.name /\ ~new.gone /\ new.digest = c.digest /\ new.received = 0
  BY <1>2, SentTyped DEF Objects
<1>4. /\ DOMAIN objects' = DOMAIN objects \cup {q} /\ objects'[q] = new
      /\ \A o \in DOMAIN objects : o # q => objects'[o] = objects[o]
      /\ DOMAIN entries' = DOMAIN entries \cup {c.name} /\ entries'[c.name] = q
      /\ \A n \in DOMAIN entries : n # c.name => entries'[n] = entries[n]
      /\ objects' \in [DOMAIN objects' -> Objects]
  BY <1>3 DEF Record, MapSet, Typed, ObjectsTyped
<1> HIDE DEF new
<1>5. q \notin DOMAIN objects
  BY <1>0, <1>1 DEF RequestTyped
<1>6. ObjectsTyped'
  BY <1>2, <1>3, <1>4, <1>5 DEF Typed, ObjectsTyped
<1>7. /\ at'[q] = "answered" /\ at' = [r \in Requests |-> at'[r]]
      /\ \A r \in Requests \ {q} : at'[r] = at[r]
  BY <1>0, <1>1 DEF RequestsTyped
<1>8. RequestTyped(q)'
  BY <1>0, <1>1, <1>4, <1>7 DEF RequestTyped, Places, Making, Sending, Opened, Reading
<1>9. \A r \in Requests \ {q} : SameRequest(r)
  BY <1>1, <1>4, <1>7 DEF SameRequest
<1>10. /\ DOMAIN objects \subseteq DOMAIN objects'
       /\ DOMAIN call' \subseteq Requests /\ DOMAIN writer' \subseteq Requests
       /\ DOMAIN handle' \subseteq Requests /\ DOMAIN reader' \subseteq Requests
  BY <1>0, <1>1, <1>4 DEF RequestsTyped
<1>11. RequestsTyped'
  BY <1>0, <1>7, <1>8, <1>9, <1>10, OneMoves
<1>12. Typed'
  BY <1>1, <1>6, <1>11 DEF Typed
<1> QED
  BY <1>2, <1>3, <1>4, <1>5, <1>12

\* An object in the place of another, and what that does to all of them.
ObjectBecomes(o, new) ==
  /\ DOMAIN objects' = DOMAIN objects /\ objects'[o] = new
  /\ \A p \in DOMAIN objects : p # o => objects'[p] = objects[p]

LEMMA ObjectChanges ==
  ASSUME Typed, NEW o \in DOMAIN objects, NEW new \in Objects, new.name = objects[o].name,
         new.gone = objects[o].gone, objects' = [objects EXCEPT ![o] = new], UNCHANGED entries
  PROVE  ObjectsTyped' /\ ObjectBecomes(o, new)
BY DEF Typed, ObjectsTyped, ObjectBecomes

LEMMA WritingChanges ==
  ASSUME Typed, NEW o \in DOMAIN objects, NEW w \in BOOLEAN,
         objects' = [objects EXCEPT ![o].writing = w], UNCHANGED entries
  PROVE  \E new \in Objects :
           /\ ObjectsTyped' /\ ObjectBecomes(o, new)
           /\ new.name = objects[o].name /\ new.length = objects[o].length
           /\ new.digest = objects[o].digest /\ new.received = objects[o].received
           /\ new.writing = w /\ new.gone = objects[o].gone
<1> DEFINE new == [objects[o] EXCEPT !.writing = w]
<1>1. objects[o] \in Objects
  BY DEF Typed, ObjectsTyped
<1>2. /\ new \in Objects
      /\ new.name = objects[o].name /\ new.length = objects[o].length
      /\ new.digest = objects[o].digest /\ new.received = objects[o].received
      /\ new.writing = w /\ new.gone = objects[o].gone
  BY <1>1 DEF Objects
<1>3. objects' = [objects EXCEPT ![o] = new]
  OBVIOUS
<1> HIDE DEF new
<1>4. ObjectsTyped' /\ ObjectBecomes(o, new)
  BY <1>2, <1>3, ObjectChanges
<1> QED
  BY <1>2, <1>4

LEMMA AppendToTyped ==
  ASSUME Typed, NEW q \in Requests, NEW c \in Sends[q], AppendTo(q, c)
  PROVE  Typed'
<1>1. CASE GoesTo(q, "answered") /\ UNCHANGED <<objects, writer>>
  BY <1>1, MovesKeep
     DEF AppendTo, Permitted, Places, Making, Sending, Opened, Reading, store, bound, Typed
<1>2. CASE c.name \in DOMAIN entries /\ SendTo(q, c, entries[c.name])
  <2> DEFINE o == entries[c.name]
             new == [of |-> o, size |-> c.size, digest |-> c.digest]
  <2>0. RequestTyped(q) /\ RequestsTyped
    BY DEF Typed, RequestsTyped
  <2>1. o \in DOMAIN objects /\ o \in Requests
    BY <1>2 DEF Typed, ObjectsTyped
  <2>2. new \in Writers /\ new.of = o
    BY <2>1, SentTyped DEF Writers, AppendTo
  <2>3. /\ at' = [at EXCEPT ![q] = "opening"] /\ at[q] = "unsent"
        /\ writer' = MapSet(writer, q, new)
        /\ objects' = [objects EXCEPT ![o].writing = TRUE]
        /\ UNCHANGED <<entries, call, handle, reader, sweeper>>
    BY <1>2 DEF AppendTo, Permitted, SendTo, GoesTo
  <2> HIDE DEF new
  <2>4. /\ DOMAIN writer' = DOMAIN writer \cup {q} /\ writer'[q] = new
        /\ \A r \in DOMAIN writer : r # q => writer'[r] = writer[r]
    BY <2>2, <2>3 DEF MapSet
  <2> HIDE DEF o
  <2>5. ObjectsTyped' /\ DOMAIN objects' = DOMAIN objects
    BY <2>1, <2>3, WritingChanges DEF ObjectBecomes
  <2>6. /\ at'[q] = "opening" /\ at' = [r \in Requests |-> at'[r]]
        /\ \A r \in Requests \ {q} : at'[r] = at[r]
    BY <2>0, <2>3 DEF RequestsTyped
  <2>7. RequestTyped(q)'
    BY <2>0, <2>1, <2>2, <2>3, <2>4, <2>5, <2>6
       DEF RequestTyped, Places, Making, Sending, Opened, Reading
  <2>8. \A r \in Requests \ {q} : SameRequest(r)
    BY <2>3, <2>4, <2>5, <2>6 DEF SameRequest
  <2>9. /\ DOMAIN objects \subseteq DOMAIN objects'
        /\ DOMAIN call' \subseteq Requests /\ DOMAIN writer' \subseteq Requests
        /\ DOMAIN handle' \subseteq Requests /\ DOMAIN reader' \subseteq Requests
    BY <2>0, <2>3, <2>4, <2>5 DEF RequestsTyped
  <2>10. RequestsTyped'
    BY <2>0, <2>6, <2>7, <2>8, <2>9, OneMoves
  <2> QED
    BY <2>3, <2>5, <2>10 DEF Typed
<1> QED
  BY <1>1, <1>2 DEF AppendTo, Ends

\* A sender that ends without a word of it to its object.
LEMMA SenderLeaves ==
  ASSUME Typed, NEW q \in Requests, at[q] \in Sending, GoesTo(q, "answered"),
         UNCHANGED <<entries, objects, call, reader, sweeper>>,
         DOMAIN writer' = DOMAIN writer \ {q}, \A r \in DOMAIN writer' : writer'[r] = writer[r],
         DOMAIN handle' = DOMAIN handle \ {q}
  PROVE  Typed'
<1>1. RequestTyped(q) /\ RequestsTyped /\ at' = [at EXCEPT ![q] = "answered"]
  BY DEF Typed, RequestsTyped, GoesTo
<1>2. /\ at'[q] = "answered" /\ at' = [r \in Requests |-> at'[r]]
      /\ \A r \in Requests \ {q} : at'[r] = at[r]
  BY <1>1 DEF RequestsTyped
<1>3. RequestTyped(q)'
  BY <1>1, <1>2 DEF RequestTyped, Places, Making, Sending, Opened, Reading
<1>4. \A r \in Requests \ {q} : SameRequest(r)
  BY <1>2 DEF SameRequest
<1>5. /\ DOMAIN objects \subseteq DOMAIN objects'
      /\ DOMAIN call' \subseteq Requests /\ DOMAIN writer' \subseteq Requests
      /\ DOMAIN handle' \subseteq Requests /\ DOMAIN reader' \subseteq Requests
  BY <1>1 DEF RequestsTyped
<1>6. RequestsTyped'
  BY <1>1, <1>2, <1>3, <1>4, <1>5, OneMoves
<1> QED
  BY <1>6 DEF Typed, ObjectsTyped

LEMMA OpenToAppendTyped ==
  ASSUME Typed, NEW q \in Requests, OpenToAppend(q)
  PROVE  Typed'
<1>0. at[q] = "opening" /\ UNCHANGED <<entries, objects, call, reader, sweeper>>
  BY DEF OpenToAppend, store
<1>1. RequestTyped(q) /\ RequestsTyped
  BY DEF Typed, RequestsTyped
<1>2. CASE at' = [at EXCEPT ![q] = "streaming"] /\ UNCHANGED writer
           /\ DOMAIN handle' = DOMAIN handle \cup {q}
  <2>1. /\ at'[q] = "streaming" /\ at' = [r \in Requests |-> at'[r]]
        /\ \A r \in Requests \ {q} : at'[r] = at[r]
    BY <1>1, <1>2 DEF RequestsTyped
  <2>2. RequestTyped(q)'
    BY <1>0, <1>1, <1>2, <2>1 DEF RequestTyped, Places, Making, Sending, Opened, Reading
  <2>3. \A r \in Requests \ {q} : SameRequest(r)
    BY <1>0, <1>2, <2>1 DEF SameRequest
  <2>4. /\ DOMAIN objects \subseteq DOMAIN objects'
        /\ DOMAIN call' \subseteq Requests /\ DOMAIN writer' \subseteq Requests
        /\ DOMAIN handle' \subseteq Requests /\ DOMAIN reader' \subseteq Requests
    BY <1>0, <1>1, <1>2 DEF RequestsTyped
  <2>5. RequestsTyped'
    BY <1>1, <2>1, <2>2, <2>3, <2>4, OneMoves
  <2> QED
    BY <1>0, <2>5 DEF Typed, ObjectsTyped
<1>3. CASE GoesTo(q, "answered") /\ UNCHANGED handle /\ writer' = MapDelete(writer, {q})
  <2>1. DOMAIN writer' = DOMAIN writer \ {q} /\ \A r \in DOMAIN writer' : writer'[r] = writer[r]
    BY <1>3 DEF MapDelete, Restrict
  <2>2. at[q] \in Sending /\ q \notin DOMAIN handle
    BY <1>0, <1>1 DEF RequestTyped, Sending, Opened
  <2> QED
    BY <1>0, <1>3, <2>1, <2>2, SenderLeaves
<1> QED
  BY <1>2, <1>3 DEF OpenToAppend, GoesTo, Ends, MapSet

LEMMA StreamTyped ==
  ASSUME Typed, NEW q \in Requests, TakeChunk(q) \/ StopAppending(q)
  PROVE  Typed'
<1>1. CASE TakeChunk(q)
  BY <1>1, MovesKeep DEF TakeChunk, Typed, Places, Making, Sending, Opened, Reading
<1>2. CASE StopAppending(q)
  BY <1>2, MovesKeep DEF StopAppending, Typed, Places, Making, Sending, Opened, Reading
<1> QED
  BY <1>1, <1>2

LEMMA LandTyped ==
  ASSUME Typed, NEW q \in Requests, Land(q)
  PROVE  Typed'
<1> DEFINE o == writer[q].of
           places == [at EXCEPT ![q] = "streaming"]
<1>0. RequestTyped(q) /\ RequestsTyped
  BY DEF Typed, RequestsTyped
<1>1. at[q] = "landing" /\ q \in DOMAIN writer /\ o \in DOMAIN objects
  BY <1>0 DEF Land, RequestTyped, Sending, Opened
<1>2. /\ objects' = [objects EXCEPT ![o].received = @ + 1] /\ Touch(o)
      /\ at' = Waking(o, places)
      /\ UNCHANGED <<entries, call, writer, handle, reader>>
  BY DEF Land, bound
<1>3. ObjectsTyped' /\ DOMAIN objects' = DOMAIN objects
  BY <1>1, <1>2 DEF Typed, ObjectsTyped, Objects
<1>4. places \in [Requests -> Places]
  BY <1>0 DEF RequestsTyped, Places, Sending, Opened
<1>5. /\ at' \in [Requests -> Places]
      /\ \A r \in Requests : \/ places[r] = "parked" /\ at'[r] = "woken"
                             \/ at'[r] = places[r]
  <2>1. at' = Waking(o, places)
    BY <1>2
  <2> HIDE DEF places, o
  <2> QED
    BY ONLY <2>1, <1>4, WakingTyped
<1>6. /\ at'[q] = "streaming" /\ at' = [r \in Requests |-> at'[r]]
      /\ \A r \in Requests \ {q} : at'[r] = at[r] \/ (at[r] = "parked" /\ at'[r] = "woken")
  BY <1>0, <1>5 DEF RequestsTyped
<1>7. RequestTyped(q)'
  BY <1>0, <1>1, <1>2, <1>3, <1>6 DEF RequestTyped, Places, Making, Sending, Opened, Reading
<1>8. \A r \in Requests \ {q} : SameRequest(r)
  BY <1>2, <1>3, <1>6 DEF SameRequest
<1>9. /\ DOMAIN objects \subseteq DOMAIN objects'
      /\ DOMAIN call' \subseteq Requests /\ DOMAIN writer' \subseteq Requests
      /\ DOMAIN handle' \subseteq Requests /\ DOMAIN reader' \subseteq Requests
  BY <1>0, <1>2, <1>3 DEF RequestsTyped
<1>10. RequestsTyped'
  BY <1>0, <1>6, <1>7, <1>8, <1>9, OneMoves
<1> QED
  BY <1>2, <1>3, <1>10, TouchTyped DEF Typed

\* What a sender says of its object as it ends.
Leaves(q, o) ==
  /\ objects' = [objects EXCEPT ![o].writing = FALSE]
  /\ Touch(o)
  /\ at' = Waking(o, [at EXCEPT ![q] = "answered"])

LEMMA CloseAppendTyped ==
  ASSUME Typed, NEW q \in Requests, CloseAppend(q)
  PROVE  Typed'
<1> DEFINE o == writer[q].of
           places == [at EXCEPT ![q] = "answered"]
<1>0. RequestTyped(q) /\ RequestsTyped
  BY DEF Typed, RequestsTyped
<1>1. at[q] = "closing" /\ q \in DOMAIN writer /\ o \in DOMAIN objects
  BY <1>0 DEF CloseAppend, RequestTyped, Sending, Opened
<1>2. /\ DOMAIN writer' = DOMAIN writer \ {q} /\ DOMAIN handle' = DOMAIN handle \ {q}
      /\ \A r \in DOMAIN writer' : writer'[r] = writer[r]
      /\ UNCHANGED <<entries, call, reader>>
  BY DEF CloseAppend, MapDelete, Restrict
<1>3. CASE Ends(q) /\ UNCHANGED <<objects, sweeper>>
  BY <1>1, <1>2, <1>3, SenderLeaves DEF Ends, Sending, Opened
<1>4. CASE Leaves(q, o)
  <2>1. /\ objects' = [objects EXCEPT ![o].writing = FALSE] /\ Touch(o)
        /\ at' = Waking(o, places)
        /\ UNCHANGED <<entries, call, reader>>
    BY <1>2, <1>4 DEF Leaves
  <2>2. ObjectsTyped' /\ DOMAIN objects' = DOMAIN objects
    BY <1>1, <2>1, WritingChanges DEF ObjectBecomes
  <2>3. places \in [Requests -> Places]
    BY <1>0 DEF RequestsTyped, Places
  <2>4. /\ at' \in [Requests -> Places]
        /\ \A r \in Requests : \/ places[r] = "parked" /\ at'[r] = "woken"
                               \/ at'[r] = places[r]
    <3>1. at' = Waking(o, places)
      BY <2>1
    <3> HIDE DEF places, o
    <3> QED
      BY ONLY <3>1, <2>3, WakingTyped
  <2>5. /\ at'[q] = "answered" /\ at' = [r \in Requests |-> at'[r]]
        /\ \A r \in Requests \ {q} : at'[r] = at[r] \/ (at[r] = "parked" /\ at'[r] = "woken")
    BY <1>0, <2>4 DEF RequestsTyped
  <2>6. RequestTyped(q)'
    BY <1>0, <1>1, <2>1, <2>2, <1>2, <2>5 DEF RequestTyped, Places, Making, Sending, Opened, Reading
  <2>7. \A r \in Requests \ {q} : SameRequest(r)
    BY <2>1, <2>2, <1>2, <2>5 DEF SameRequest
  <2>8. /\ DOMAIN objects \subseteq DOMAIN objects'
        /\ DOMAIN call' \subseteq Requests /\ DOMAIN writer' \subseteq Requests
        /\ DOMAIN handle' \subseteq Requests /\ DOMAIN reader' \subseteq Requests
    BY <1>0, <2>1, <2>2, <1>2 DEF RequestsTyped
  <2>9. RequestsTyped'
    BY <1>0, <2>5, <2>6, <2>7, <2>8, OneMoves
  <2> QED
    BY <2>1, <2>2, <2>9, TouchTyped DEF Typed
<1> QED
  BY <1>3, <1>4 DEF CloseAppend, Leaves

\* What a step of a reader leaves to show.
LEMMA ReaderMoves ==
  ASSUME Typed, NEW q \in Requests, NEW place \in Reading \cup {"answered"}, GoesTo(q, place),
         at[q] \in Reading \cup {"unsent"}, UNCHANGED <<store, call, writer, handle>>,
         DOMAIN reader' = DOMAIN reader \cup {q}, reader'[q] \in ReaderRecords,
         reader'[q].of \in DOMAIN objects,
         \A r \in DOMAIN reader : r # q => reader'[r] = reader[r]
  PROVE  ObjectsTyped' /\ RequestsTyped'
<1>1. at' = [at EXCEPT ![q] = place] /\ UNCHANGED <<entries, objects, call, writer, handle>>
  BY DEF GoesTo, store
<1>2. RequestTyped(q) /\ RequestsTyped
  BY DEF Typed, RequestsTyped
<1>3. /\ at'[q] = place /\ at' = [r \in Requests |-> at'[r]]
      /\ \A r \in Requests \ {q} : at'[r] = at[r]
  BY <1>1, <1>2 DEF RequestsTyped
<1>4. RequestTyped(q)'
  BY <1>1, <1>2, <1>3 DEF RequestTyped, Places, Making, Sending, Opened, Reading
<1>5. \A r \in Requests \ {q} : SameRequest(r)
  BY <1>1, <1>3 DEF SameRequest
<1>6. /\ DOMAIN objects \subseteq DOMAIN objects'
      /\ DOMAIN call' \subseteq Requests /\ DOMAIN writer' \subseteq Requests
      /\ DOMAIN handle' \subseteq Requests /\ DOMAIN reader' \subseteq Requests
  BY <1>1, <1>2 DEF RequestsTyped
<1>7. RequestsTyped'
  BY <1>2, <1>3, <1>4, <1>5, <1>6, OneMoves
<1> QED
  BY <1>1, <1>7 DEF Typed, ObjectsTyped

LEMMA GoesOnTo ==
  ASSUME NEW object, NEW reached
  PROVE  GoesOn(object, reached) \in {"reading", "parked", "answered"}
BY DEF GoesOn

LEMMA ReadTyped ==
  ASSUME Typed, NEW q \in Requests, NEW c \in Sends[q], Read(q, c)
  PROVE  Typed'
<1>1. CASE Ends(q) /\ UNCHANGED reader
  BY <1>1, MovesKeep
     DEF Read, Ends, Permitted, Places, Making, Sending, Opened, Reading, bound, Typed
<1>2. CASE /\ c.name \in DOMAIN entries
           /\ reader' = MapSet(reader, q,
                          [of |-> entries[c.name], from |-> c.from, reached |-> c.from,
                           until |-> objects[entries[c.name]].received, got |-> <<>>])
           /\ GoesTo(q, GoesOn(objects[entries[c.name]], c.from))
  <2> DEFINE o == entries[c.name]
             new == [of |-> o, from |-> c.from, reached |-> c.from,
                     until |-> objects[o].received, got |-> <<>>]
  <2>1. o \in DOMAIN objects /\ o \in Requests /\ objects[o].received \in Nat
    BY <1>2 DEF Typed, ObjectsTyped, Objects
  <2>2. <<>> \in Seq(Chunks)
    OBVIOUS
  <2>3. new \in ReaderRecords /\ new.of = o
    BY <2>1, <2>2, SentTyped DEF ReaderRecords, Read
  <2>4. /\ DOMAIN reader' = DOMAIN reader \cup {q} /\ reader'[q] = new
        /\ \A r \in DOMAIN reader : r # q => reader'[r] = reader[r]
    BY <1>2 DEF MapSet
  <2> HIDE DEF new, o
  <2>5. GoesOn(objects[o], c.from) \in Reading \cup {"answered"}
    BY GoesOnTo DEF Reading
  <2>6. ObjectsTyped' /\ RequestsTyped'
    BY <1>2, <2>1, <2>3, <2>4, <2>5, ReaderMoves DEF Read, Permitted, o
  <2> QED
    BY <2>6 DEF Read, Typed
<1> QED
  BY <1>1, <1>2 DEF Read

LEMMA BetweenTyped ==
  ASSUME NEW S, NEW chunks \in Seq(S), NEW first \in Nat, NEW last \in Nat, first > 0
  PROVE  /\ Between(chunks, first, last) \in Seq(S)
         /\ first <= last + 1 /\ last <= Len(chunks)
              => /\ Len(Between(chunks, first, last)) = last - first + 1
                 /\ \A k \in 1 .. Len(Between(chunks, first, last)) :
                      Between(chunks, first, last)[k] = chunks[first + k - 1]
<1> DEFINE m == Min({last, Len(chunks)})
<1>1. Len(chunks) \in Nat
  OBVIOUS
<1>2. m \in Nat /\ m <= Len(chunks) /\ (last <= Len(chunks) => m = last)
  BY <1>1 DEF Min
<1> HIDE DEF m
<1>3. Between(chunks, first, last) = SubSeq(chunks, first, m)
  BY DEF Between, m
<1> QED
  BY <1>1, <1>2, <1>3

\* What a reader is given, and how far it is then.
RangeRead(q) ==
  LET r == reader[q]
      o == objects[r.of]
      part == Between(contents[files[o.name]], r.reached + 1, r.until)
  IN  /\ q \in DOMAIN reader /\ r \in ReaderRecords
      /\ r.of \in DOMAIN objects /\ o \in Objects /\ o.name \in DOMAIN files
      /\ part \in Seq(Chunks)
      /\ DOMAIN reader' = DOMAIN reader
      /\ \A s \in DOMAIN reader : s # q => reader'[s] = reader[s]
      /\ reader'[q] \in ReaderRecords
      /\ reader'[q].of = r.of /\ reader'[q].from = r.from
      /\ reader'[q].got = r.got \o part
      /\ reader'[q].reached = r.until /\ reader'[q].until = o.received
      /\ Touch(r.of) /\ GoesTo(q, GoesOn(o, r.until))

LEMMA ReadRangeReads ==
  ASSUME Typed, FilesTyped, NEW q \in Requests, ReadRange(q)
  PROVE  RangeRead(q) \/ (Ends(q) /\ UNCHANGED <<reader, sweeper>>)
<1> DEFINE r == reader[q]
           o == objects[r.of]
           part == Between(contents[files[o.name]], r.reached + 1, r.until)
<1>1. at[q] = "reading" /\ RequestTyped(q)
  BY DEF ReadRange, Typed, RequestsTyped
<1>2. q \in DOMAIN reader /\ r \in ReaderRecords /\ r.of \in DOMAIN objects
  BY <1>1 DEF RequestTyped, Reading
<1>3. o \in Objects
  BY <1>2 DEF Typed, ObjectsTyped
<1> SUFFICES ASSUME ~(Ends(q) /\ UNCHANGED <<reader, sweeper>>)
             PROVE  RangeRead(q)
  OBVIOUS
<1>4. /\ o.name \in DOMAIN files
      /\ reader' = [reader EXCEPT ![q].got = @ \o part, ![q].reached = r.until, ![q].until = o.received]
      /\ Touch(r.of) /\ GoesTo(q, GoesOn(o, r.until))
  BY DEF ReadRange, Ends
<1>5. /\ r.got \in Seq(Chunks) /\ r.reached \in Nat /\ r.until \in Nat /\ r.from \in Nat
      /\ o.received \in Nat /\ r.of \in Requests
  BY <1>2, <1>3 DEF ReaderRecords, Objects
<1>6. contents[files[o.name]] \in Seq(Chunks)
  BY <1>4 DEF FilesTyped
<1>7. part \in Seq(Chunks)
  <2> DEFINE chunks == contents[files[o.name]] first == r.reached + 1 last == r.until
  <2>1. first \in Nat /\ last \in Nat /\ first > 0
    BY <1>5
  <2>2. chunks \in Seq(Chunks)
    BY <1>6
  <2> HIDE DEF chunks, first, last
  <2>3. Between(chunks, first, last) \in Seq(Chunks)
    BY <2>1, <2>2, BetweenTyped
  <2> QED
    BY <2>3 DEF chunks, first, last
<1> HIDE DEF part, o
<1>8. r.got \o part \in Seq(Chunks)
  BY <1>5, <1>7
<1> DEFINE got == r.got \o part
           received == o.received
           new == [r EXCEPT !.got = got, !.reached = r.until, !.until = received]
<1>9. reader' = [reader EXCEPT ![q] = new]
  BY <1>4
<1> HIDE DEF got, received
<1>10. /\ new \in ReaderRecords
       /\ new.of = r.of /\ new.from = r.from /\ new.got = got
       /\ new.reached = r.until /\ new.until = received
  BY <1>2, <1>5, <1>8 DEF ReaderRecords, got, received
<1> HIDE DEF new
<1>14. /\ DOMAIN reader' = DOMAIN reader /\ reader'[q] = new
       /\ \A s \in DOMAIN reader : s # q => reader'[s] = reader[s]
  BY <1>2, <1>9
<1> QED
  BY <1>1, <1>2, <1>3, <1>4, <1>7, <1>10, <1>14 DEF part, o, got, received, RangeRead

LEMMA ReadRangeTyped ==
  ASSUME Typed, FilesTyped, NEW q \in Requests, ReadRange(q)
  PROVE  Typed'
<1>0. at[q] = "reading" /\ UNCHANGED <<store, call, writer, handle>>
  BY DEF ReadRange
<1>1. CASE Ends(q) /\ UNCHANGED <<reader, sweeper>>
  BY <1>0, <1>1, MovesKeep DEF Ends, Places, Making, Sending, Opened, Reading, bound, Typed
<1>2. CASE RangeRead(q)
  <2> DEFINE r == reader[q] o == objects[r.of]
  <2>1. /\ q \in DOMAIN reader /\ DOMAIN reader' = DOMAIN reader /\ r.of \in DOMAIN objects
        /\ \A s \in DOMAIN reader : s # q => reader'[s] = reader[s]
        /\ reader'[q] \in ReaderRecords /\ reader'[q].of = r.of
        /\ Touch(r.of) /\ GoesTo(q, GoesOn(o, r.until))
    BY <1>2 DEF RangeRead
  <2>2. GoesOn(o, r.until) \in Reading \cup {"answered"}
    BY GoesOnTo DEF Reading
  <2>3. at[q] \in Reading \cup {"unsent"} /\ DOMAIN reader' = DOMAIN reader \cup {q}
    BY <1>0, <2>1 DEF Reading
  <2> HIDE DEF o, r
  <2>4. ObjectsTyped' /\ RequestsTyped'
    BY <1>0, <2>1, <2>2, <2>3, ReaderMoves
  <2>5. sweeper' \in Sweepers
    BY <2>1, TouchTyped DEF Typed
  <2> QED
    BY <2>4, <2>5 DEF Typed
<1> QED
  BY <1>1, <1>2, ReadRangeReads

LEMMA ResumeTyped ==
  ASSUME Typed, NEW q \in Requests, Resume(q)
  PROVE  /\ Typed'
         /\ at[q] = "woken" /\ q \in DOMAIN reader /\ reader[q] \in ReaderRecords
         /\ reader[q].of \in DOMAIN objects
         /\ DOMAIN reader' = DOMAIN reader
         /\ \A s \in DOMAIN reader : s # q => reader'[s] = reader[s]
         /\ reader'[q].of = reader[q].of /\ reader'[q].from = reader[q].from
         /\ reader'[q].got = reader[q].got /\ reader'[q].reached = reader[q].reached
         /\ reader'[q].until = objects[reader[q].of].received
<1> DEFINE r == reader[q] o == objects[r.of]
           new == [r EXCEPT !.until = o.received]
<1>0. at[q] = "woken" /\ UNCHANGED <<store, call, writer, handle, sweeper>> /\ RequestTyped(q)
  BY DEF Resume, Typed, RequestsTyped
<1>1. q \in DOMAIN reader /\ r \in ReaderRecords /\ r.of \in DOMAIN objects
  BY <1>0 DEF RequestTyped, Reading
<1>2. o.received \in Nat
  BY <1>1 DEF Typed, ObjectsTyped, Objects
<1>3. /\ new \in ReaderRecords /\ new.of = r.of /\ new.from = r.from /\ new.got = r.got
      /\ new.reached = r.reached /\ new.until = o.received
  BY <1>1, <1>2 DEF ReaderRecords
<1>4. reader' = [reader EXCEPT ![q] = new] /\ GoesTo(q, GoesOn(o, r.reached))
  BY DEF Resume
<1> HIDE DEF new
<1>5. /\ DOMAIN reader' = DOMAIN reader \cup {q} /\ reader'[q] = new
      /\ \A s \in DOMAIN reader : s # q => reader'[s] = reader[s]
  BY <1>1, <1>4
<1>6. GoesOn(o, r.reached) \in Reading \cup {"answered"} /\ at[q] \in Reading \cup {"unsent"}
  BY <1>0, GoesOnTo DEF Reading
<1> HIDE DEF o
<1>7. ObjectsTyped' /\ RequestsTyped'
  BY <1>0, <1>1, <1>3, <1>4, <1>5, <1>6, ReaderMoves
<1>8. Typed'
  BY <1>0, <1>7 DEF Typed
<1> QED
  BY <1>0, <1>1, <1>3, <1>5, <1>8 DEF o

LEMMA StallTyped ==
  ASSUME Typed, NEW q \in Requests, Stall(q)
  PROVE  Typed'
BY MovesKeep DEF Stall, Ends, Typed, Places, Making, Sending, Opened, Reading

\* An entry that is forgotten: its object is gone, and nobody waits for it.
Forgotten(n, places) ==
  /\ entries[n] \in DOMAIN objects /\ objects[entries[n]].name = n
  /\ DOMAIN entries' = DOMAIN entries \ {n}
  /\ \A m \in DOMAIN entries' : entries'[m] = entries[m] /\ entries[m] # entries[n]
  /\ \E new \in Objects :
       /\ ObjectBecomes(entries[n], new)
       /\ new.name = n /\ new.length = objects[entries[n]].length
       /\ new.digest = objects[entries[n]].digest
       /\ new.received = objects[entries[n]].received
       /\ new.writing = objects[entries[n]].writing /\ new.gone
  /\ \A q \in Requests :
       \/ places[q] = "parked" /\ reader[q].of = entries[n] /\ at'[q] = "woken"
       \/ at'[q] = places[q] /\ ~(places[q] = "parked" /\ reader[q].of = entries[n])
  /\ at' \in [Requests -> Places]

LEMMA Forgets ==
  ASSUME Typed, NEW n \in DOMAIN entries, NEW places \in [Requests -> Places],
         ForgetEntry(n, places)
  PROVE  ObjectsTyped' /\ Forgotten(n, places)
<1> DEFINE o == entries[n]
           new == [objects[o] EXCEPT !.gone = TRUE]
<1>1. o \in DOMAIN objects /\ objects[o] \in Objects /\ objects[o].name = n
  BY DEF Typed, ObjectsTyped
<1>2. /\ new \in Objects /\ new.name = n /\ new.length = objects[o].length
      /\ new.digest = objects[o].digest /\ new.received = objects[o].received
      /\ new.writing = objects[o].writing /\ new.gone
  BY <1>1 DEF Objects
<1>3. objects' = [objects EXCEPT ![o] = new]
  BY DEF ForgetEntry
<1> HIDE DEF new
<1>4. ObjectBecomes(o, new)
  BY <1>1, <1>3 DEF ObjectBecomes
<1>5. DOMAIN entries' = DOMAIN entries \ {n} /\ \A m \in DOMAIN entries' : entries'[m] = entries[m]
  BY DEF ForgetEntry, MapDelete, Restrict
<1>6. \A m \in DOMAIN entries' : entries[m] # o
  BY <1>1, <1>5 DEF Typed, ObjectsTyped
<1>7. ObjectsTyped'
  BY <1>1, <1>2, <1>4, <1>5, <1>6, <1>3 DEF Typed, ObjectsTyped, ObjectBecomes
<1>8. at' = Waking(o, places)
  BY DEF ForgetEntry
<1>9. /\ at' \in [Requests -> Places]
      /\ \A q \in Requests :
           \/ places[q] = "parked" /\ reader[q].of = o /\ at'[q] = "woken"
           \/ at'[q] = places[q] /\ ~(places[q] = "parked" /\ reader[q].of = o)
  BY <1>8, WakingTyped
<1> QED
  BY <1>1, <1>2, <1>4, <1>5, <1>6, <1>7, <1>9 DEF Forgotten

LEMMA DropTyped ==
  ASSUME Typed, NEW q \in Requests, NEW c \in Sends[q], Drop(q, c)
  PROVE  Typed'
<1>1. CASE Ends(q) /\ UNCHANGED <<store, call>>
  BY <1>1, MovesKeep
     DEF Drop, Ends, Permitted, Places, Making, Sending, Opened, Reading, bound, Typed
<1>2. CASE /\ c.name \in DOMAIN entries
           /\ ForgetEntry(c.name, [at EXCEPT ![q] = "removing"]) /\ call' = MapSet(call, q, c)
  <2> DEFINE places == [at EXCEPT ![q] = "removing"]
  <2>1. at[q] = "unsent" /\ UNCHANGED <<writer, handle, reader, sweeper>>
    BY DEF Drop, Permitted
  <2>2. RequestTyped(q) /\ RequestsTyped
    BY DEF Typed, RequestsTyped
  <2>3. places \in [Requests -> Places]
    BY <2>2 DEF RequestsTyped, Places
  <2>4. /\ ObjectsTyped' /\ DOMAIN objects' = DOMAIN objects
        /\ at' \in [Requests -> Places]
        /\ \A r \in Requests : \/ places[r] = "parked" /\ at'[r] = "woken"
                               \/ at'[r] = places[r]
    <3>1. PICK P \in [Requests -> Places] : P = places
      BY <2>3
    <3>2. c.name \in DOMAIN entries /\ ForgetEntry(c.name, P)
      BY <1>2, <3>1
    <3> HIDE DEF places
    <3>3. ObjectsTyped' /\ Forgotten(c.name, P)
      BY <3>2, Forgets
    <3> QED
      BY <3>1, <3>3 DEF Forgotten, ObjectBecomes
  <2>5. /\ at'[q] = "removing" /\ at' = [r \in Requests |-> at'[r]]
        /\ \A r \in Requests \ {q} : at'[r] = at[r] \/ (at[r] = "parked" /\ at'[r] = "woken")
    BY <2>2, <2>4 DEF RequestsTyped
  <2>6. /\ DOMAIN call' = DOMAIN call \cup {q} /\ call'[q] = c
        /\ \A r \in DOMAIN call : r # q => call'[r] = call[r]
    BY <1>2 DEF MapSet
  <2>7. RequestTyped(q)'
    BY <2>1, <2>2, <2>4, <2>5, <2>6, SentTyped
       DEF RequestTyped, Places, Making, Sending, Opened, Reading
  <2>8. \A r \in Requests \ {q} : SameRequest(r)
    BY <2>1, <2>4, <2>5, <2>6 DEF SameRequest
  <2>9. /\ DOMAIN objects \subseteq DOMAIN objects'
        /\ DOMAIN call' \subseteq Requests /\ DOMAIN writer' \subseteq Requests
        /\ DOMAIN handle' \subseteq Requests /\ DOMAIN reader' \subseteq Requests
    BY <2>1, <2>2, <2>4, <2>6 DEF RequestsTyped
  <2>10. RequestsTyped'
    BY <2>2, <2>5, <2>7, <2>8, <2>9, OneMoves
  <2> QED
    BY <2>1, <2>4, <2>10 DEF Typed
<1> QED
  BY <1>1, <1>2 DEF Drop

\* What a step leaves to show that moves no request, but wakes some.
LEMMA NobodyMoves ==
  ASSUME RequestsTyped, UNCHANGED bound, at' = [r \in Requests |-> at'[r]],
         \A r \in Requests : at'[r] = at[r] \/ (at[r] = "parked" /\ at'[r] = "woken"),
         DOMAIN objects' = DOMAIN objects
  PROVE  RequestsTyped'
<1>0. UNCHANGED <<call, writer, handle, reader>>
  BY DEF bound
<1>1. ASSUME NEW r \in Requests
      PROVE  RequestTyped(r)'
  <2>1. SameRequest(r)
    BY <1>0 DEF SameRequest
  <2> QED
    BY <2>1, SameTyped DEF RequestsTyped
<1>2. at' \in [Requests -> Places]
  <2>1. \A r \in Requests : at'[r] \in Places
    BY <1>1 DEF RequestTyped
  <2> QED
    BY <2>1
<1> QED
  BY <1>0, <1>1, <1>2 DEF RequestsTyped

LEMMA EntriesOf ==
  ASSUME ObjectsTyped
  PROVE  /\ Range(entries) \subseteq DOMAIN objects
         /\ \A n \in DOMAIN entries : entries[n] \in Range(entries)
BY DEF ObjectsTyped, Range

\* The sweep and the pruning move no request and change no object.
LEMMA SweepTyped ==
  ASSUME Typed, FilesTyped,
         \/ Sweep \/ SweepRemove \/ SweepDone \/ PruneRemove
         \/ \E p \in Projects : PruneLook(p)
  PROVE  Typed' /\ UNCHANGED <<entries, objects, at, call, writer, handle, reader, serving>>
<1>1. UNCHANGED <<entries, objects, at, call, writer, handle, reader, serving>>
  BY DEF Sweep, SweepRemove, SweepDone, PruneRemove, PruneLook, store, bound
<1>2. sweeper' \in Sweepers
  <2>0. /\ Resting \in Sweepers
        /\ \A left \in SUBSET Projects : Prunes(left) \in Sweepers
    BY DEF Prunes, Sweepers
  <2>1. CASE Sweep
    <3>1. PICK expired \in (SUBSET Range(entries)) \ {{}} :
            sweeper' = [at |-> "visiting", left |-> expired, dropped |-> FALSE]
      BY <2>1 DEF Sweep
    <3>2. expired \subseteq Requests
      BY <3>1, EntriesOf DEF Typed, ObjectsTyped
    <3> QED
      BY <3>1, <3>2 DEF Sweepers
  <2>2. CASE SweepRemove
    BY <2>2 DEF SweepRemove, Typed, Sweepers, Resting
  <2>3. CASE SweepDone
    BY <2>0, <2>3 DEF SweepDone, FilesTyped
  <2>4. CASE PruneRemove
    <3>1. sweeper.left \in SUBSET Projects
      BY <2>4 DEF PruneRemove, Typed, Sweepers, Resting
    <3> QED
      BY <2>0, <2>4, <3>1 DEF PruneRemove
  <2>5. CASE \E p \in Projects : PruneLook(p)
    <3>1. PICK p \in Projects : PruneLook(p)
      BY <2>5
    <3>2. sweeper.left \in SUBSET Projects
      BY <3>1 DEF PruneLook, Typed, Sweepers, Resting
    <3>3. CASE sweeper' = [at |-> "emptying", left |-> sweeper.left \ {p}, project |-> p]
      BY <3>2, <3>3 DEF Sweepers
    <3>4. CASE sweeper' = Prunes(sweeper.left \ {p})
      <4>1. sweeper.left \ {p} \in SUBSET Projects
        BY <3>2
      <4> QED
        BY <2>0, <3>4, <4>1
    <3> QED
      BY <3>1, <3>3, <3>4 DEF PruneLook
  <2> QED
    BY <2>1, <2>2, <2>3, <2>4, <2>5
<1> QED
  BY <1>1, <1>2 DEF Typed, ObjectsTyped, RequestsTyped, RequestTyped

LEMMA SweepOneTyped ==
  ASSUME Typed, NEW o \in Requests, SweepOne(o)
  PROVE  Typed'
<1> DEFINE n == objects[o].name left == sweeper.left \ {o}
<1>1. /\ UNCHANGED <<disk, bound, serving>>
      /\ sweeper \in [at : {"visiting"}, left : SUBSET Requests, dropped : BOOLEAN]
  BY DEF SweepOne, Typed, Sweepers, Resting
<1>2. left \in SUBSET Requests
  BY <1>1
<1>3. CASE /\ n \in DOMAIN entries /\ ForgetEntry(n, at)
           /\ sweeper' = [at |-> "removing", left |-> left, dropped |-> TRUE, name |-> n]
  <2>1. at \in [Requests -> Places]
    BY DEF Typed, RequestsTyped
  <2>2. /\ ObjectsTyped' /\ DOMAIN objects' = DOMAIN objects /\ at' \in [Requests -> Places]
        /\ \A r \in Requests : at'[r] = at[r] \/ (at[r] = "parked" /\ at'[r] = "woken")
    <3>1. PICK P \in [Requests -> Places], m \in DOMAIN entries : P = at /\ m = n
      BY <1>3, <2>1
    <3>2. ForgetEntry(m, P)
      BY <1>3, <3>1
    <3>3. ObjectsTyped' /\ Forgotten(m, P)
      BY <3>2, Forgets
    <3> QED
      BY <3>1, <3>3 DEF Forgotten, ObjectBecomes
  <2>3. at' = [r \in Requests |-> at'[r]]
    BY <2>2
  <2>4. RequestsTyped'
    BY <1>1, <2>2, <2>3, NobodyMoves DEF Typed
  <2>5. n \in Names
    BY <1>3 DEF Typed, ObjectsTyped
  <2>6. sweeper' \in Sweepers
    BY <1>2, <1>3, <2>5 DEF Sweepers
  <2> QED
    BY <2>2, <2>4, <2>6 DEF Typed
<1>4. CASE /\ sweeper' = [at |-> "visiting", left |-> left, dropped |-> TRUE]
           /\ UNCHANGED <<store, at>>
  <2>1. sweeper' \in Sweepers
    BY <1>2, <1>4 DEF Sweepers
  <2>2. UNCHANGED <<entries, objects, at, call, writer, handle, reader>>
    BY <1>1, <1>4 DEF store, bound
  <2> QED
    BY <2>1, <2>2 DEF Typed, ObjectsTyped, RequestsTyped, RequestTyped
<1> QED
  BY <1>3, <1>4 DEF SweepOne

\* Closing: every object in the Map is gone, and nothing else is changed.
LEMMA CloseTyped ==
  ASSUME Typed, Close
  PROVE  /\ Typed'
         /\ DOMAIN objects' = DOMAIN objects /\ DOMAIN entries' = {}
         /\ \A o \in DOMAIN objects :
              /\ objects'[o].name = objects[o].name /\ objects'[o].length = objects[o].length
              /\ objects'[o].digest = objects[o].digest
              /\ objects'[o].received = objects[o].received
              /\ objects'[o].writing = objects[o].writing
              /\ objects'[o].gone = (objects[o].gone \/ o \in Range(entries))
         /\ \A q \in Requests :
              \/ at[q] = "parked" /\ reader[q].of \in Range(entries) /\ at'[q] = "woken"
              \/ at'[q] = at[q] /\ ~(at[q] = "parked" /\ reader[q].of \in Range(entries))
<1>1. /\ objects' = [o \in DOMAIN objects |->
                        IF o \in Range(entries) THEN [objects[o] EXCEPT !.gone = TRUE]
                        ELSE objects[o]]
      /\ entries' = <<>> /\ UNCHANGED <<bound, sweeper>>
      /\ at' = [q \in Requests |-> IF at[q] = "parked" /\ reader[q].of \in Range(entries)
                                     THEN "woken" ELSE at[q]]
  BY DEF Close
<1>2. DOMAIN objects' = DOMAIN objects /\ DOMAIN entries' = {}
  BY <1>1
<1>3. ASSUME NEW o \in DOMAIN objects
      PROVE  /\ objects'[o] \in Objects
             /\ objects'[o].name = objects[o].name /\ objects'[o].length = objects[o].length
             /\ objects'[o].digest = objects[o].digest
             /\ objects'[o].received = objects[o].received
             /\ objects'[o].writing = objects[o].writing
             /\ objects'[o].gone = (objects[o].gone \/ o \in Range(entries))
  <2>1. objects[o] \in Objects
    BY DEF Typed, ObjectsTyped
  <2>2. CASE o \in Range(entries)
    <3>1. objects'[o] = [objects[o] EXCEPT !.gone = TRUE]
      BY <1>1, <2>2
    <3> QED
      BY <2>1, <2>2, <3>1 DEF Objects
  <2>3. CASE o \notin Range(entries)
    <3>1. objects'[o] = objects[o]
      BY <1>1, <2>3
    <3>2. objects[o].gone \in BOOLEAN
      BY <2>1 DEF Objects
    <3> QED
      BY <2>1, <2>3, <3>1, <3>2
  <2> QED
    BY <2>2, <2>3
<1>4. ObjectsTyped'
  <2>1. objects' \in [DOMAIN objects' -> Objects]
    BY <1>1, <1>2, <1>3
  <2> QED
    BY <1>2, <2>1 DEF Typed, ObjectsTyped
<1>5. \A q \in Requests :
        \/ at[q] = "parked" /\ reader[q].of \in Range(entries) /\ at'[q] = "woken"
        \/ at'[q] = at[q] /\ ~(at[q] = "parked" /\ reader[q].of \in Range(entries))
  BY <1>1
<1>6. at' = [q \in Requests |-> at'[q]]
  BY <1>1
<1>7. RequestsTyped'
  BY <1>1, <1>2, <1>5, <1>6, NobodyMoves DEF Typed
<1> QED
  BY <1>1, <1>2, <1>3, <1>4, <1>5, <1>7 DEF Typed

-----------------------------------------------------------------------------
(* What most steps leave alone of each of the other parts.                 *)

\* Senders only end, objects keep what has arrived, and no chunk is taken.
SendersQuiet ==
  /\ \A q \in DOMAIN writer' : q \in DOMAIN writer /\ writer'[q] = writer[q]
  /\ \A o \in DOMAIN objects :
       /\ o \in DOMAIN objects' /\ objects'[o].length = objects[o].length
       /\ objects'[o].received = objects[o].received
       /\ objects'[o].writing = objects[o].writing
  /\ \A o \in DOMAIN objects' : o \notin DOMAIN objects => objects'[o].received = 0
  /\ \A q \in Requests : at'[q] = "landing" => at[q] = "landing"

LEMMA SendersKeep ==
  ASSUME Typed, Typed', SendersAlone, SendersQuiet
  PROVE  SendersAlone'
<1>1. /\ \A q, r \in DOMAIN writer : writer[q].of = writer[r].of => q = r
      /\ \A q \in DOMAIN writer : objects[writer[q].of].writing
      /\ \A o \in DOMAIN objects : objects[o].received <= objects[o].length
      /\ \A q \in Requests : at[q] = "landing" =>
           objects[writer[q].of].received < objects[writer[q].of].length
  BY DEF SendersAlone, OneSenderAtATime
<1>2. \A q \in DOMAIN writer : writer[q].of \in DOMAIN objects
  BY DEF Typed, RequestsTyped, RequestTyped
<1>3. \A o \in DOMAIN objects' : objects'[o].received <= objects'[o].length
  <2>1. ASSUME NEW o \in DOMAIN objects', o \notin DOMAIN objects
        PROVE  objects'[o].received <= objects'[o].length
    <3>1. objects'[o] \in Objects
      BY DEF Typed, ObjectsTyped
    <3>2. objects'[o].length \in Nat /\ objects'[o].received = 0
      BY <2>1, <3>1 DEF Objects, SendersQuiet
    <3> QED
      BY <3>2
  <2>2. ASSUME NEW o \in DOMAIN objects
        PROVE  objects'[o].received <= objects'[o].length
    BY <1>1 DEF SendersQuiet
  <2> QED
    BY <2>1, <2>2
<1>4. \A n \in DOMAIN entries' : ~objects'[entries'[n]].gone
  BY DEF Typed, ObjectsTyped
<1>5. /\ \A q, r \in DOMAIN writer' : writer'[q].of = writer'[r].of => q = r
      /\ \A q \in DOMAIN writer' : objects'[writer'[q].of].writing
  BY <1>1, <1>2 DEF SendersQuiet
<1>6. ASSUME NEW q \in Requests, at'[q] = "landing"
      PROVE  objects'[writer'[q].of].received < objects'[writer'[q].of].length
  <2>1. at[q] = "landing" /\ q \in DOMAIN writer'
    BY <1>6 DEF SendersQuiet, Typed, RequestsTyped, RequestTyped, Sending, Opened
  <2>2. q \in DOMAIN writer /\ writer'[q] = writer[q]
    BY <2>1 DEF SendersQuiet
  <2> QED
    BY <1>1, <1>2, <2>1, <2>2 DEF SendersQuiet
<1> QED
  BY <1>3, <1>4, <1>5, <1>6 DEF SendersAlone, OneSenderAtATime

\* No reader moves; those that stay parked are at objects that nothing happens to.
ReadersQuiet ==
  /\ reader' = reader
  /\ \A o \in DOMAIN objects :
       /\ objects'[o].length = objects[o].length
       /\ objects[o].received <= objects'[o].received
  /\ \A q \in Requests :
       /\ at'[q] = "reading" => at[q] = "reading"
       /\ at'[q] = "parked" =>
            /\ at[q] = "parked"
            /\ objects'[reader[q].of].gone = objects[reader[q].of].gone
            /\ objects'[reader[q].of].received = objects[reader[q].of].received

LEMMA ReadersKeep ==
  ASSUME Typed, Typed', ReadersBehind, ReadersQuiet
  PROVE  ReadersBehind'
<1>1. \A q \in DOMAIN reader : reader[q].of \in DOMAIN objects /\ reader[q] \in ReaderRecords
  BY DEF Typed, RequestsTyped, RequestTyped
<1>2. \A q \in Requests : at[q] \in Reading => q \in DOMAIN reader
  BY DEF Typed, RequestsTyped, RequestTyped
<1>3. ReadersAreWoken'
  <2> SUFFICES ASSUME NEW q \in Requests, at'[q] = "parked"
               PROVE  /\ ~objects'[reader'[q].of].gone
                      /\ reader'[q].reached >= objects'[reader'[q].of].received
                      /\ reader'[q].reached < objects'[reader'[q].of].length
    BY DEF ReadersAreWoken
  <2>1. at[q] = "parked" /\ reader'[q] = reader[q] /\ reader[q].of \in DOMAIN objects
    BY <1>1, <1>2 DEF ReadersQuiet, Reading
  <2> QED
    BY <2>1 DEF ReadersQuiet, ReadersBehind, ReadersAreWoken
<1>4. ASSUME NEW q \in DOMAIN reader'
      PROVE  /\ reader'[q].from <= reader'[q].reached
             /\ reader'[q].until <= objects'[reader'[q].of].received
  <2>1. /\ q \in DOMAIN reader /\ reader'[q] = reader[q]
        /\ reader[q].from <= reader[q].reached
        /\ reader[q].until <= objects[reader[q].of].received
        /\ reader[q].of \in DOMAIN objects
    BY <1>1 DEF ReadersQuiet, ReadersBehind
  <2>2. /\ objects[reader[q].of].received <= objects'[reader[q].of].received
        /\ reader[q].of \in DOMAIN objects'
    BY <2>1 DEF ReadersQuiet, Typed, RequestsTyped, RequestTyped
  <2>3. objects'[reader[q].of] \in Objects /\ objects[reader[q].of] \in Objects
    BY <2>1, <2>2 DEF Typed, ObjectsTyped
  <2>4. /\ reader[q].until \in Nat /\ objects[reader[q].of].received \in Nat
        /\ objects'[reader[q].of].received \in Nat
    BY <1>1, <2>1, <2>3 DEF Objects, ReaderRecords
  <2> QED
    BY <2>1, <2>2, <2>4
<1>5. ASSUME NEW q \in Requests, at'[q] = "reading"
      PROVE  reader'[q].reached < reader'[q].until
  BY <1>5 DEF ReadersQuiet, ReadersBehind
<1> QED
  BY <1>3, <1>4, <1>5 DEF ReadersBehind

\* Who has made a file stays who has made one, under its name.
MakersStay == \A m \in Requests : Maker(m) => Maker(m)' /\ NameOf(m)' = NameOf(m)

\* Files only end, what is opened is what is there; objects keep what their files say of them.
FilesQuiet ==
  /\ contents' = contents /\ directories' \subseteq Projects /\ stuck' \subseteq Names
  /\ \A n \in DOMAIN files' : n \in DOMAIN files /\ files'[n] = files[n]
  /\ \A q \in DOMAIN handle' :
       /\ writer'[q] = writer[q]
       /\ \/ q \in DOMAIN handle /\ handle'[q] = handle[q]
          \/ /\ q \in DOMAIN writer
             /\ \E n \in DOMAIN files : n = objects[writer[q].of].name /\ handle'[q] = files[n]
  /\ \A q \in DOMAIN writer' :
       \/ q \in DOMAIN writer /\ writer'[q] = writer[q]
       \/ OneFileToAName => writer'[q].digest = objects'[writer'[q].of].digest
  /\ \A o \in DOMAIN objects :
       /\ o \in DOMAIN objects'
       /\ objects'[o].name = objects[o].name /\ objects'[o].digest = objects[o].digest
  /\ \A o \in DOMAIN objects' : o \notin DOMAIN objects =>
       \E c \in Sends[o] :
         c.verb = "POST" /\ c.name = objects'[o].name /\ c.digest = objects'[o].digest
  /\ MakersStay
  /\ \A m \in Requests : (Maker(m)' => Maker(m)) /\ Arrived(m)' = Arrived(m)

\* So it is where there are no new objects and nobody begins or ends to record one.
LEMMA MakersAsWere ==
  ASSUME DOMAIN objects' = DOMAIN objects,
         \A o \in DOMAIN objects :
           objects'[o].name = objects[o].name /\ objects'[o].received = objects[o].received,
         \A m \in Requests :
           /\ at'[m] \in {"recording", "unrecorded"} <=> at[m] \in {"recording", "unrecorded"}
           /\ at[m] \in {"recording", "unrecorded"} => call'[m] = call[m]
  PROVE  MakersStay /\ \A m \in Requests : (Maker(m)' => Maker(m)) /\ Arrived(m)' = Arrived(m)
BY DEF MakersStay, Maker, NameOf, Arrived

LEMMA SoleBefore ==
  ASSUME MakersStay, NEW m \in Requests, Maker(m), Sole(m)'
  PROVE  Sole(m)
BY DEF MakersStay, Sole

LEMMA QuietMakers ==
  ASSUME FilesQuiet
  PROVE  MakersStay /\ \A m \in Requests : Maker(m)' => Maker(m)
BY DEF FilesQuiet

LEMMA FilesKeep ==
  ASSUME Typed, Typed', FilesTyped, FilesHoldIt, FilesQuiet
  PROVE  FilesTyped' /\ FilesHoldIt'
<1>0. MakersStay /\ \A m \in Requests : Maker(m)' => Maker(m)
  BY QuietMakers
<1>1. \A q \in DOMAIN writer : writer[q].of \in DOMAIN objects
  BY DEF Typed, RequestsTyped, RequestTyped
<1>2. DOMAIN objects \subseteq Requests /\ DOMAIN contents \subseteq Requests
  BY DEF Typed, ObjectsTyped, FilesTyped
<1>3. \A q \in DOMAIN handle : q \in DOMAIN writer
  BY DEF Typed, RequestsTyped, RequestTyped, Sending
<1>4. FilesTyped'
  <2>1. /\ contents' \in [DOMAIN contents' -> Seq(Chunks)] /\ DOMAIN contents' \subseteq Requests
        /\ DOMAIN files' \subseteq Names /\ directories' \subseteq Projects
        /\ stuck' \subseteq Names
    BY DEF FilesTyped, FilesQuiet
  <2>2. ASSUME NEW n \in DOMAIN files'
        PROVE  files'[n] \in DOMAIN contents' /\ Maker(files[n])' /\ NameOf(files[n])' = n
    <3>1. PICK f \in Requests : f = files'[n]
      BY <1>2 DEF FilesTyped, FilesQuiet
    <3>2. f \in DOMAIN contents /\ Maker(f) /\ NameOf(f) = n
      BY <3>1 DEF FilesTyped, FilesQuiet
    <3>3. Maker(f)' /\ NameOf(f)' = n
      BY <1>0, <3>2 DEF MakersStay
    <3> QED
      BY <3>1, <3>2, <3>3 DEF FilesQuiet, Maker, NameOf
  <2>3. ASSUME NEW q \in DOMAIN handle'
        PROVE  /\ handle'[q] \in DOMAIN contents' /\ Maker(handle[q])'
               /\ NameOf(handle[q])' = objects'[writer'[q].of].name
    <3>1. PICK f \in Requests : f = handle'[q]
      BY <1>2 DEF FilesTyped, FilesQuiet
    <3>2. /\ f \in DOMAIN contents /\ Maker(f) /\ NameOf(f) = objects[writer[q].of].name
          /\ writer'[q] = writer[q] /\ writer[q].of \in DOMAIN objects
      BY <1>1, <1>3, <3>1 DEF FilesTyped, FilesQuiet
    <3>3. Maker(f)' /\ NameOf(f)' = objects[writer[q].of].name
      BY <1>0, <3>2 DEF MakersStay
    <3> QED
      BY <3>1, <3>2, <3>3 DEF FilesQuiet, Maker, NameOf
  <2> QED
    BY <2>1, <2>2, <2>3 DEF FilesTyped
<1>5. ASSUME NEW m \in Requests, Sole(m)'
      PROVE  /\ m \in DOMAIN contents' /\ Len(contents'[m]) = Arrived(m)'
             /\ \A k \in 1..Arrived(m)' : contents'[m][k] = <<objects'[m].digest, k>>
  <2>1. Maker(m)
    BY <1>0, <1>5 DEF Sole
  <2>2. Sole(m)
    BY <1>0, <1>5, <2>1, SoleBefore
  <2>3. Arrived(m)' = Arrived(m)
    BY DEF FilesQuiet
  <2>4. CASE m \in DOMAIN objects
    BY <2>2, <2>3, <2>4 DEF FilesHoldIt, FilesQuiet
  <2>5. CASE m \notin DOMAIN objects
    <3>1. Arrived(m) = 0
      BY <2>5 DEF Arrived
    <3> QED
      BY <2>2, <2>3, <3>1 DEF FilesHoldIt, FilesQuiet
  <2> QED
    BY <2>4, <2>5
<1>6. FilesHoldIt'
  <2>1. \A o \in DOMAIN objects' :
          \E c \in Sends[o] :
            c.verb = "POST" /\ c.name = objects'[o].name /\ c.digest = objects'[o].digest
    BY DEF FilesHoldIt, FilesQuiet
  <2>2. OneFileToAName =>
          \A q \in DOMAIN writer' : writer'[q].digest = objects'[writer'[q].of].digest
    BY <1>1 DEF FilesHoldIt, FilesQuiet
  <2> QED
    BY <1>5, <2>1, <2>2 DEF FilesHoldIt
<1> QED
  BY <1>4, <1>6

\* What a reader has it goes on having.
LEMMA StillHasIt ==
  ASSUME Typed, MakersStay, NEW q \in DOMAIN reader, HasIt(q), reader'[q] = reader[q],
         \A o \in DOMAIN objects : objects'[o].digest = objects[o].digest
  PROVE  HasIt(q)'
<1>1. PICK o \in DOMAIN objects : o = reader[q].of
  BY DEF Typed, RequestsTyped, RequestTyped
<1>2. o \in Requests /\ Maker(o)
  BY <1>1 DEF Typed, ObjectsTyped, Maker
<1>3. Sole(o)' => Sole(o)
  BY <1>2, SoleBefore
<1>4. Sole(o)' <=> Sole(reader[q].of)'
  BY <1>1 DEF Sole, Maker, NameOf
<1>5. Sole(o) <=> Sole(reader[q].of)
  BY <1>1
<1> QED
  BY <1>1, <1>3, <1>4, <1>5 DEF HasIt

LEMMA ReadersStillHaveIt ==
  ASSUME Typed, ReadersHaveIt, MakersStay, reader' = reader,
         \A o \in DOMAIN objects : objects'[o].digest = objects[o].digest
  PROVE  ReadersHaveIt'
<1> SUFFICES ASSUME NEW q \in DOMAIN reader PROVE HasIt(q)'
  BY DEF ReadersHaveIt
<1>1. HasIt(q)
  BY DEF ReadersHaveIt
<1> QED
  BY <1>1, StillHasIt

\* Nobody lets go of a file that is there.
HeldQuiet ==
  /\ serving' => serving
  /\ DOMAIN files' \subseteq DOMAIN files /\ stuck \subseteq stuck'
  /\ serving' => DOMAIN entries \subseteq DOMAIN entries'
  /\ \A q \in Requests : at[q] \in {"recording", "removing"} =>
       at'[q] = at[q] /\ call'[q] = call[q]
  /\ sweeper.at = "removing" => sweeper'.at = "removing" /\ sweeper'.name = sweeper.name

LEMMA HeldKeep ==
  ASSUME FilesAreHeld, HeldQuiet
  PROVE  FilesAreHeld'
BY DEF FilesAreHeld, HeldQuiet

-----------------------------------------------------------------------------
(* Every step keeps the invariant.                                         *)

LEMMA AtMoves ==
  ASSUME Typed, NEW q \in Requests, NEW place, GoesTo(q, place)
  PROVE  at'[q] = place /\ \A r \in Requests \ {q} : at'[r] = at[r]
BY DEF Typed, RequestsTyped, GoesTo

\* A request that neither makes nor removes a file goes on, and nothing is stored.
LEMMA StillQuiet ==
  ASSUME NEW q \in Requests, UNCHANGED <<store, files, contents, stuck, writer, handle, serving>>,
         directories' \subseteq Projects,
         \A r \in Requests \ {q} : at'[r] = at[r] /\ (r \in DOMAIN call => call'[r] = call[r]),
         at[q] \notin {"recording", "removing", "unrecorded"},
         at'[q] \notin {"recording", "removing", "unrecorded"}, Typed, stuck \subseteq Names,
         sweeper.at = "removing" => sweeper'.at = "removing" /\ sweeper'.name = sweeper.name
  PROVE  /\ FilesQuiet /\ HeldQuiet
         /\ at'[q] # "landing" => SendersQuiet
         /\ reader' = reader /\ at'[q] \notin {"reading", "parked"} => ReadersQuiet
<1>1. UNCHANGED <<entries, objects, files, contents, stuck, writer, handle, serving>>
  BY DEF store
<1>2. \A r \in Requests : at[r] \in {"recording", "removing", "unrecorded"} => r \in DOMAIN call
  BY DEF Typed, RequestsTyped, RequestTyped, Making
<1>3. FilesQuiet
  <2>1. \A m \in Requests :
          /\ at'[m] \in {"recording", "unrecorded"} <=> at[m] \in {"recording", "unrecorded"}
          /\ at[m] \in {"recording", "unrecorded"} => call'[m] = call[m]
    BY <1>2
  <2>2. MakersStay /\ \A m \in Requests : (Maker(m)' => Maker(m)) /\ Arrived(m)' = Arrived(m)
    BY <1>1, <2>1, MakersAsWere
  <2> QED
    BY <1>1, <2>2 DEF FilesQuiet
<1>4. HeldQuiet
  <2>1. \A r \in Requests : at[r] \in {"recording", "removing"} =>
          at'[r] = at[r] /\ call'[r] = call[r]
    BY <1>2
  <2> QED
    BY <1>1, <2>1 DEF HeldQuiet
<1>5. at'[q] # "landing" => SendersQuiet
  BY <1>1 DEF SendersQuiet
<1>6. reader' = reader /\ at'[q] \notin {"reading", "parked"} => ReadersQuiet
  <2>1. \A o \in DOMAIN objects : objects[o].received \in Nat
    BY DEF Typed, ObjectsTyped, Objects
  <2> QED
    BY <1>1, <2>1 DEF ReadersQuiet
<1> QED
  BY <1>3, <1>4, <1>5, <1>6

\* What is left to show where every part is left alone.
LEMMA QuietKeeps ==
  ASSUME BInv, Typed', SendersQuiet, ReadersQuiet, FilesQuiet, HeldQuiet
  PROVE  BInv'
<1>1. Typed /\ FilesTyped
  BY DEF BInv, BTypeOK, Typed
<1>2. SendersAlone' /\ ReadersBehind' /\ FilesAreHeld'
  BY <1>1, SendersKeep, ReadersKeep, HeldKeep DEF BInv
<1>3. FilesTyped' /\ FilesHoldIt'
  BY <1>1, FilesKeep DEF BInv
<1>4. ReadersHaveIt'
  <2>1. MakersStay
    BY QuietMakers
  <2>2. reader' = reader /\ \A o \in DOMAIN objects : objects'[o].digest = objects[o].digest
    BY DEF FilesQuiet, ReadersQuiet
  <2> QED
    BY <1>1, <2>1, <2>2, ReadersStillHaveIt DEF BInv
<1> QED
  BY <1>2, <1>3, <1>4 DEF BInv, BTypeOK, Typed

LEMMA BTyped ==
  ASSUME BInv
  PROVE  Typed /\ FilesTyped /\ directories \subseteq Projects /\ stuck \subseteq Names
BY DEF BInv, BTypeOK, Typed, FilesTyped

LEMMA ReserveAgainKeeps ==
  ASSUME BInv, NEW q \in Requests, NEW c \in Sends[q], ReserveAgain(q, c)
  PROVE  BInv'
<1>1. at[q] = "unsent" /\ GoesTo(q, "answered") /\ UNCHANGED <<store, disk, bound, serving>>
  BY DEF ReserveAgain, Permitted, Ends
<1>2. at'[q] = "answered" /\ \A r \in Requests \ {q} : at'[r] = at[r]
  BY <1>1, BTyped, AtMoves
<1>3. Typed'
  BY BTyped, ReserveAgainTyped
<1>4. sweeper.at = "removing" => sweeper'.at = "removing" /\ sweeper'.name = sweeper.name
  BY BTyped, TouchTyped DEF ReserveAgain, Typed
<1>5. /\ FilesQuiet /\ HeldQuiet /\ SendersQuiet /\ ReadersQuiet
  BY <1>1, <1>2, <1>4, BTyped, StillQuiet DEF disk, bound
<1> QED
  BY <1>3, <1>5, QuietKeeps

LEMMA ReserveKeeps ==
  ASSUME BInv, NEW q \in Requests, NEW c \in Sends[q], Reserve(q, c)
  PROVE  BInv'
<1>1. /\ at[q] = "unsent" /\ UNCHANGED <<store, disk, writer, handle, reader, sweeper, serving>>
      /\ \/ GoesTo(q, "answered") /\ UNCHANGED call
         \/ GoesTo(q, "making directory") /\ call' = MapSet(call, q, c)
  BY DEF Reserve, Permitted, Ends
<1>2. /\ at'[q] \in {"answered", "making directory"}
      /\ \A r \in Requests \ {q} : at'[r] = at[r] /\ (r \in DOMAIN call => call'[r] = call[r])
  BY <1>1, BTyped, AtMoves DEF MapSet
<1>3. Typed'
  BY BTyped, ReserveTyped
<1>4. /\ FilesQuiet /\ HeldQuiet /\ SendersQuiet /\ ReadersQuiet
  BY <1>1, <1>2, BTyped, StillQuiet DEF disk
<1> QED
  BY <1>3, <1>4, QuietKeeps

LEMMA MakeDirectoryKeeps ==
  ASSUME BInv, NEW q \in Requests, MakeDirectory(q)
  PROVE  BInv'
<1>1. /\ at[q] = "making directory"
      /\ UNCHANGED <<store, files, contents, stuck, writer, handle, reader, sweeper, serving>>
      /\ \/ /\ directories' = directories \cup {ProjectOf[call[q].name]}
            /\ GoesTo(q, "making file") /\ UNCHANGED call
         \/ GoesTo(q, "answered") /\ call' = MapDelete(call, {q}) /\ UNCHANGED directories
  BY DEF MakeDirectory, Ends
<1>2. /\ at'[q] \in {"making file", "answered"}
      /\ \A r \in Requests \ {q} : at'[r] = at[r] /\ (r \in DOMAIN call => call'[r] = call[r])
  BY <1>1, BTyped, AtMoves DEF MapDelete, Restrict
<1>3. Typed'
  BY BTyped, MakeDirectoryTyped
<1>4. call[q].name \in Names
  BY <1>1, BTyped DEF Typed, RequestsTyped, RequestTyped, Making
<1>5. directories' \subseteq Projects
  <2>1. ProjectOf[call[q].name] \in Projects
    BY <1>4, BlobsAssumption
  <2> QED
    BY <1>1, <2>1, BTyped
<1>6. /\ FilesQuiet /\ HeldQuiet /\ SendersQuiet /\ ReadersQuiet
  BY <1>1, <1>2, <1>5, BTyped, StillQuiet
<1> QED
  BY <1>3, <1>6, QuietKeeps

LEMMA StopAppendingKeeps ==
  ASSUME BInv, NEW q \in Requests, StopAppending(q)
  PROVE  BInv'
<1>1. /\ at[q] \in {"streaming", "landing"} /\ GoesTo(q, "closing")
      /\ UNCHANGED <<store, disk, bound, sweeper, serving>>
  BY DEF StopAppending
<1>2. at'[q] = "closing" /\ \A r \in Requests \ {q} : at'[r] = at[r]
  BY <1>1, BTyped, AtMoves
<1>3. Typed'
  BY BTyped, StreamTyped
<1>4. /\ FilesQuiet /\ HeldQuiet /\ SendersQuiet /\ ReadersQuiet
  BY <1>1, <1>2, BTyped, StillQuiet DEF disk, bound
<1> QED
  BY <1>3, <1>4, QuietKeeps

LEMMA StallKeeps ==
  ASSUME BInv, NEW q \in Requests, Stall(q)
  PROVE  BInv'
<1>1. /\ at[q] = "parked" /\ GoesTo(q, "answered")
      /\ UNCHANGED <<store, disk, bound, sweeper, serving>>
  BY DEF Stall, Ends
<1>2. at'[q] = "answered" /\ \A r \in Requests \ {q} : at'[r] = at[r]
  BY <1>1, BTyped, AtMoves
<1>3. Typed'
  BY BTyped, StallTyped
<1>4. /\ FilesQuiet /\ HeldQuiet /\ SendersQuiet /\ ReadersQuiet
  BY <1>1, <1>2, BTyped, StillQuiet DEF disk, bound
<1> QED
  BY <1>3, <1>4, QuietKeeps

\* A chunk is only taken where there is room for it.
LEMMA TakeChunkKeeps ==
  ASSUME BInv, NEW q \in Requests, TakeChunk(q)
  PROVE  BInv'
<1> DEFINE o == writer[q].of
           place == IF objects[o].gone \/ objects[o].received + 1 > objects[o].length
                    THEN "closing" ELSE "landing"
<1>1. /\ at[q] = "streaming" /\ GoesTo(q, place)
      /\ UNCHANGED <<store, disk, bound, sweeper, serving>>
  BY DEF TakeChunk
<1>2. at'[q] = place /\ \A r \in Requests \ {q} : at'[r] = at[r]
  BY <1>1, BTyped, AtMoves
<1>3. Typed'
  BY BTyped, StreamTyped
<1>4. /\ FilesQuiet /\ HeldQuiet /\ ReadersQuiet
      /\ at'[q] # "landing" => SendersQuiet
  BY <1>1, <1>2, BTyped, StillQuiet DEF disk, bound
<1>5. CASE place = "closing"
  BY <1>2, <1>3, <1>4, <1>5, QuietKeeps
<1>6. CASE place = "landing"
  <2>1. UNCHANGED <<entries, objects, writer, reader>>
    BY <1>1 DEF store, bound
  <2>2. o \in DOMAIN objects /\ objects[o] \in Objects
    BY <1>1, BTyped DEF Typed, ObjectsTyped, RequestsTyped, RequestTyped, Sending, Opened
  <2>3. objects[o].received < objects[o].length
    BY <1>6, <2>2 DEF Objects
  <2>4. SendersAlone'
    BY <1>2, <2>1, <2>3 DEF BInv, SendersAlone, OneSenderAtATime
  <2>5. ReadersBehind' /\ FilesTyped' /\ FilesHoldIt' /\ FilesAreHeld'
    BY <1>3, <1>4, BTyped, ReadersKeep, FilesKeep, HeldKeep DEF BInv
  <2>6. MakersStay
    BY <1>4, QuietMakers
  <2>7. ReadersHaveIt'
    BY <2>1, <2>6, BTyped, ReadersStillHaveIt DEF BInv
  <2> QED
    BY <1>3, <2>4, <2>5, <2>7 DEF BInv, BTypeOK, Typed
<1> QED
  BY <1>5, <1>6

\* A reader that has looked again: it parks only where there is nothing to read.
LEMMA ReaderLooks ==
  ASSUME Typed, Typed', ReadersBehind, NEW q \in Requests, UNCHANGED <<objects, entries>>,
         \A r \in Requests \ {q} : at'[r] = at[r],
         DOMAIN reader' = DOMAIN reader \cup {q},
         \A r \in DOMAIN reader : r # q => reader'[r] = reader[r],
         reader'[q] \in ReaderRecords, reader'[q].of \in DOMAIN objects,
         reader'[q].from <= reader'[q].reached,
         reader'[q].until = objects[reader'[q].of].received,
         at'[q] = GoesOn(objects[reader'[q].of], reader'[q].reached)
  PROVE  ReadersBehind'
<1> DEFINE r == reader'[q] o == objects[r.of]
<1>1. o \in Objects
  BY DEF Typed, ObjectsTyped
<1>2. o.received \in Nat /\ o.length \in Nat /\ r.reached \in Nat
  BY <1>1 DEF Objects, ReaderRecords
<1>3. /\ at'[q] = "parked" => ~o.gone /\ r.reached >= o.received /\ r.reached < o.length
      /\ at'[q] = "reading" => r.reached < o.received
  <2>1. at'[q] = GoesOn(o, r.reached)
    OBVIOUS
  <2> HIDE DEF o, r
  <2> QED
    BY <1>2, <2>1 DEF GoesOn
<1>4. ReadersAreWoken'
  <2> SUFFICES ASSUME NEW s \in Requests, at'[s] = "parked"
               PROVE  /\ ~objects[reader'[s].of].gone
                      /\ reader'[s].reached >= objects[reader'[s].of].received
                      /\ reader'[s].reached < objects[reader'[s].of].length
    BY DEF ReadersAreWoken
  <2>1. CASE s = q
    BY <1>3, <2>1
  <2>2. CASE s # q
    <3>1. at[s] = "parked" /\ s \in DOMAIN reader /\ reader'[s] = reader[s]
      BY <2>2 DEF Typed, RequestsTyped, RequestTyped, Reading
    <3> QED
      BY <3>1 DEF ReadersBehind, ReadersAreWoken
  <2> QED
    BY <2>1, <2>2
<1>5. ASSUME NEW s \in DOMAIN reader'
      PROVE  /\ reader'[s].from <= reader'[s].reached
             /\ reader'[s].until <= objects'[reader'[s].of].received
  <2>1. CASE s = q
    BY <1>2, <2>1
  <2>2. CASE s # q
    BY <2>2 DEF ReadersBehind
  <2> QED
    BY <2>1, <2>2
<1>6. ASSUME NEW s \in Requests, at'[s] = "reading"
      PROVE  reader'[s].reached < reader'[s].until
  <2>1. CASE s = q
    BY <1>3, <1>6, <2>1
  <2>2. CASE s # q
    <3>1. at[s] = "reading" /\ s \in DOMAIN reader /\ reader'[s] = reader[s]
      BY <1>6, <2>2 DEF Typed, RequestsTyped, RequestTyped, Reading
    <3> QED
      BY <3>1 DEF ReadersBehind
  <2> QED
    BY <2>1, <2>2
<1> QED
  BY <1>4, <1>5, <1>6 DEF ReadersBehind

\* What is left to show of a reader's step.
LEMMA ReaderKeeps ==
  ASSUME BInv, Typed', SendersQuiet, FilesQuiet, HeldQuiet, ReadersBehind', ReadersHaveIt'
  PROVE  BInv'
<1>1. SendersAlone' /\ FilesAreHeld' /\ FilesTyped' /\ FilesHoldIt'
  BY BTyped, SendersKeep, HeldKeep, FilesKeep DEF BInv
<1> QED
  BY <1>1 DEF BInv, BTypeOK, Typed

LEMMA ReadKeeps ==
  ASSUME BInv, NEW q \in Requests, NEW c \in Sends[q], Read(q, c)
  PROVE  BInv'
<1>0. at[q] = "unsent" /\ UNCHANGED <<store, disk, call, writer, handle, sweeper, serving>>
  BY DEF Read, Permitted
<1>1. Typed' /\ UNCHANGED <<entries, objects>>
  BY <1>0, BTyped, ReadTyped DEF store
<1>2. CASE Ends(q) /\ UNCHANGED reader
  <2>1. at'[q] = "answered" /\ \A r \in Requests \ {q} : at'[r] = at[r]
    BY <1>2, BTyped, AtMoves DEF Ends
  <2>2. /\ FilesQuiet /\ HeldQuiet /\ SendersQuiet /\ ReadersQuiet
    BY <1>0, <1>2, <2>1, BTyped, StillQuiet DEF disk
  <2> QED
    BY <1>1, <2>2, QuietKeeps
<1>3. CASE /\ c.name \in DOMAIN entries
           /\ reader' = MapSet(reader, q,
                          [of |-> entries[c.name], from |-> c.from, reached |-> c.from,
                           until |-> objects[entries[c.name]].received, got |-> <<>>])
           /\ GoesTo(q, GoesOn(objects[entries[c.name]], c.from))
  <2> DEFINE o == entries[c.name] place == GoesOn(objects[o], c.from)
             new == [of |-> o, from |-> c.from, reached |-> c.from,
                     until |-> objects[o].received, got |-> <<>>]
  <2>1. at'[q] = place /\ \A r \in Requests \ {q} : at'[r] = at[r]
    <3>1. PICK p : p = place
      OBVIOUS
    <3>2. GoesTo(q, p)
      BY <1>3, <3>1
    <3> QED
      BY <3>1, <3>2, BTyped, AtMoves
  <2>2. place \in {"reading", "parked", "answered"}
    BY GoesOnTo
  <2>3. FilesQuiet /\ HeldQuiet /\ SendersQuiet
    BY <1>0, <2>1, <2>2, BTyped, StillQuiet DEF disk
  <2>4. /\ DOMAIN reader' = DOMAIN reader \cup {q} /\ reader'[q] = new
        /\ \A r \in DOMAIN reader : r # q => reader'[r] = reader[r]
    BY <1>3 DEF MapSet
  <2>5. /\ new.of = o /\ new.from = c.from /\ new.reached = c.from
        /\ new.until = objects[o].received /\ new.got = <<>>
    OBVIOUS
  <2>6. o \in DOMAIN objects /\ c.from \in Nat
    BY <1>3, BTyped, SentTyped DEF Typed, ObjectsTyped, Read
  <2>7. reader'[q] \in ReaderRecords
    BY <1>1, <2>4 DEF Typed, RequestsTyped, RequestTyped
  <2> HIDE DEF new, o
  <2>8. ReadersBehind'
    <3>1. c.from <= c.from
      BY <2>6
    <3>2. at'[q] = GoesOn(objects[reader'[q].of], reader'[q].reached)
      BY <2>1, <2>4, <2>5
    <3> QED
      BY <1>1, <2>1, <2>4, <2>5, <2>6, <2>7, <3>1, <3>2, BTyped, ReaderLooks DEF BInv
  <2>9. ReadersHaveIt'
    <3>1. MakersStay
      BY <2>3, QuietMakers
    <3> SUFFICES ASSUME NEW s \in DOMAIN reader' PROVE HasIt(s)'
      BY DEF ReadersHaveIt
    <3>2. CASE s = q
      BY <2>4, <2>5, <2>6, <3>2 DEF HasIt
    <3>3. CASE s # q
      <4>1. s \in DOMAIN reader /\ reader'[s] = reader[s]
        BY <2>4, <3>3
      <4>2. HasIt(s)
        BY <4>1 DEF BInv, ReadersHaveIt
      <4> QED
        BY <1>1, <3>1, <4>1, <4>2, BTyped, StillHasIt
    <3> QED
      BY <3>2, <3>3
  <2> QED
    BY <1>1, <2>3, <2>8, <2>9, ReaderKeeps
<1> QED
  BY <1>2, <1>3 DEF Read

LEMMA ResumeKeeps ==
  ASSUME BInv, NEW q \in Requests, Resume(q)
  PROVE  BInv'
<1> DEFINE o == reader[q].of place == GoesOn(objects[o], reader[q].reached)
<1>0. /\ UNCHANGED <<store, disk, call, writer, handle, sweeper, serving>> /\ GoesTo(q, place)
  BY DEF Resume
<1>1. /\ Typed'
      /\ at[q] = "woken" /\ q \in DOMAIN reader /\ reader[q] \in ReaderRecords
      /\ o \in DOMAIN objects
      /\ DOMAIN reader' = DOMAIN reader
      /\ \A s \in DOMAIN reader : s # q => reader'[s] = reader[s]
      /\ reader'[q].of = o /\ reader'[q].from = reader[q].from
      /\ reader'[q].got = reader[q].got /\ reader'[q].reached = reader[q].reached
      /\ reader'[q].until = objects[o].received
  BY BTyped, ResumeTyped
<1>2. UNCHANGED <<entries, objects>>
  BY <1>0 DEF store
<1>3. at'[q] = place /\ \A r \in Requests \ {q} : at'[r] = at[r]
  <2>1. PICK p : p = place
    OBVIOUS
  <2>2. GoesTo(q, p)
    BY <1>0, <2>1
  <2> QED
    BY <2>1, <2>2, BTyped, AtMoves
<1>4. place \in {"reading", "parked", "answered"}
  BY GoesOnTo
<1>5. FilesQuiet /\ HeldQuiet /\ SendersQuiet
  BY <1>0, <1>1, <1>3, <1>4, BTyped, StillQuiet DEF disk
<1>6. reader'[q] \in ReaderRecords
  BY <1>1 DEF Typed, RequestsTyped, RequestTyped
<1>7. ReadersBehind'
  <2>1. reader'[q].from <= reader'[q].reached
    BY <1>1 DEF BInv, ReadersBehind
  <2>2. at'[q] = GoesOn(objects[reader'[q].of], reader'[q].reached)
    BY <1>1, <1>3
  <2> QED
    BY <1>1, <1>2, <1>3, <1>6, <2>1, <2>2, BTyped, ReaderLooks DEF BInv
<1>8. ReadersHaveIt'
  <2>1. MakersStay
    BY <1>5, QuietMakers
  <2> SUFFICES ASSUME NEW s \in DOMAIN reader' PROVE HasIt(s)'
    BY DEF ReadersHaveIt
  <2>2. HasIt(s)
    BY <1>1 DEF BInv, ReadersHaveIt
  <2>3. CASE s # q
    BY <1>1, <1>2, <2>1, <2>2, <2>3, BTyped, StillHasIt
  <2>4. CASE s = q
    <3>1. PICK p \in DOMAIN objects : p = o
      BY <1>1
    <3>2. p \in Requests /\ Maker(p)
      BY <3>1, BTyped DEF Typed, ObjectsTyped, Maker
    <3>3. Sole(p)' => Sole(p)
      BY <2>1, <3>2, SoleBefore
    <3>4. Sole(p)' <=> Sole(reader[q].of)'
      BY <1>1, <3>1 DEF Sole, Maker, NameOf
    <3>5. Sole(p) <=> Sole(reader[q].of)
      BY <3>1
    <3> QED
      BY <1>1, <1>2, <2>2, <2>4, <3>1, <3>3, <3>4, <3>5 DEF HasIt
  <2> QED
    BY <2>3, <2>4
<1> QED
  BY <1>1, <1>5, <1>7, <1>8, ReaderKeeps

\* The file of a name that was reserved once is what the object has received.
LEMMA SoleFile ==
  ASSUME BInv, NEW o \in DOMAIN objects, Sole(o), objects[o].name \in DOMAIN files
  PROVE  /\ files[objects[o].name] = o
         /\ contents[o] \in Seq(Chunks) /\ Len(contents[o]) = objects[o].received
         /\ \A k \in 1..objects[o].received : contents[o][k] = <<objects[o].digest, k>>
<1>1. /\ files[objects[o].name] \in Requests /\ Maker(files[objects[o].name])
      /\ NameOf(files[objects[o].name]) = objects[o].name
  BY BTyped DEF FilesTyped
<1>2. files[objects[o].name] = o
  BY <1>1 DEF Sole, NameOf
<1>3. o \in Requests
  BY BTyped DEF Typed, ObjectsTyped
<1>4. /\ o \in DOMAIN contents /\ Len(contents[o]) = objects[o].received
      /\ \A k \in 1..objects[o].received : contents[o][k] = <<objects[o].digest, k>>
  BY <1>3 DEF BInv, FilesHoldIt, Arrived
<1>5. contents[o] \in Seq(Chunks)
  BY <1>4, BTyped DEF FilesTyped
<1> QED
  BY <1>2, <1>4, <1>5

\* The chunks of a file from one position up to another.
Stretch(D, chunks, from, until) ==
  /\ Len(chunks) = until - from
  /\ \A k \in 1..Len(chunks) : chunks[k] = <<D, from + k>>

\* Two stretches of a file, the one from where the other ends.
LEMMA Stretches ==
  ASSUME NEW D, NEW got \in Seq(Chunks), NEW part \in Seq(Chunks),
         NEW from \in Nat, NEW reached \in Nat, NEW until \in Nat, from <= reached,
         Stretch(D, got, from, reached), Stretch(D, part, reached, until)
  PROVE  Stretch(D, got \o part, from, until)
<1>1. /\ Len(got) \in Nat /\ Len(part) \in Nat /\ Len(got \o part) = Len(got) + Len(part)
      /\ \A k \in 1..Len(got) + Len(part) :
           (got \o part)[k] = IF k <= Len(got) THEN got[k] ELSE part[k - Len(got)]
  BY ConcatProperties, LenProperties
<1>2. /\ Len(got) = reached - from /\ Len(part) = until - reached
      /\ \A k \in 1..Len(got) : got[k] = <<D, from + k>>
      /\ \A k \in 1..Len(part) : part[k] = <<D, reached + k>>
  BY DEF Stretch
<1>3. ASSUME NEW k \in 1..Len(got) + Len(part)
      PROVE  (got \o part)[k] = <<D, from + k>>
  <2>1. CASE k <= Len(got)
    <3>1. (got \o part)[k] = got[k] /\ k \in 1..Len(got)
      BY <1>1, <2>1
    <3> QED
      BY <1>2, <3>1
  <2>2. CASE ~(k <= Len(got))
    <3>1. (got \o part)[k] = part[k - Len(got)]
      BY <1>1, <2>2
    <3>2. k - Len(got) \in 1..Len(part) /\ reached + (k - Len(got)) = from + k
      BY <1>1, <1>2, <2>2
    <3>3. part[k - Len(got)] = <<D, reached + (k - Len(got))>>
      BY <1>2, <3>2
    <3> QED
      BY <3>1, <3>2, <3>3
  <2> QED
    BY <2>1, <2>2
<1>4. Len(got \o part) = until - from
  BY <1>1, <1>2
<1> QED
  BY <1>1, <1>3, <1>4 DEF Stretch

\* A file that holds what it should, read on from where a reader is.
LEMMA RangeWhole ==
  ASSUME NEW D, NEW got \in Seq(Chunks), NEW chunks \in Seq(Chunks),
         NEW from \in Nat, NEW reached \in Nat, NEW until \in Nat, NEW received \in Nat,
         from <= reached, reached < until, until <= received,
         Stretch(D, got, from, reached), Stretch(D, chunks, 0, received)
  PROVE  Stretch(D, got \o Between(chunks, reached + 1, until), from, until)
<1> DEFINE part == Between(chunks, reached + 1, until) first == reached + 1
<1>1. first \in Nat /\ first > 0 /\ first <= until + 1 /\ until <= Len(chunks)
  BY DEF Stretch
<1>2. /\ Between(chunks, first, until) \in Seq(Chunks)
      /\ Len(Between(chunks, first, until)) = until - first + 1
      /\ \A k \in 1..Len(Between(chunks, first, until)) :
           Between(chunks, first, until)[k] = chunks[first + k - 1]
  <2> HIDE DEF first
  <2> QED
    BY <1>1, BetweenTyped
<1>3. part \in Seq(Chunks) /\ Len(part) = until - reached
  BY <1>2
<1>4. \A k \in 1..Len(part) : part[k] = <<D, reached + k>>
  <2> SUFFICES ASSUME NEW k \in 1..Len(part)
               PROVE  part[k] = <<D, reached + k>>
    OBVIOUS
  <2>1. k \in 1..(until - reached)
    BY <1>3
  <2>2. k \in Nat /\ reached + k \in 1..received /\ first + k - 1 = reached + k
    BY <2>1
  <2>3. part[k] = chunks[first + k - 1]
    BY <1>2
  <2>4. chunks[reached + k] = <<D, 0 + (reached + k)>>
    BY <2>2 DEF Stretch
  <2> QED
    BY <2>2, <2>3, <2>4
<1> HIDE DEF part
<1>5. Stretch(D, part, reached, until)
  BY <1>3, <1>4 DEF Stretch
<1>6. Stretch(D, got \o part, from, until)
  BY <1>3, <1>5, Stretches
<1> QED
  BY <1>6 DEF part

LEMMA ReadRangeKeeps ==
  ASSUME BInv, NEW q \in Requests, ReadRange(q)
  PROVE  BInv'
<1>0. at[q] = "reading" /\ UNCHANGED <<store, disk, call, writer, handle, serving>>
  BY DEF ReadRange
<1>1. Typed' /\ UNCHANGED <<entries, objects>>
  BY <1>0, BTyped, ReadRangeTyped DEF store
<1>2. CASE Ends(q) /\ UNCHANGED <<reader, sweeper>>
  <2>1. at'[q] = "answered" /\ \A r \in Requests \ {q} : at'[r] = at[r]
    BY <1>2, BTyped, AtMoves DEF Ends
  <2>2. /\ FilesQuiet /\ HeldQuiet /\ SendersQuiet /\ ReadersQuiet
    BY <1>0, <1>2, <2>1, BTyped, StillQuiet DEF disk
  <2> QED
    BY <1>1, <2>2, QuietKeeps
<1>3. CASE RangeRead(q)
  <2> DEFINE r == reader[q] o == objects[r.of] place == GoesOn(o, r.until)
             part == Between(contents[files[o.name]], r.reached + 1, r.until)
  <2>1. /\ q \in DOMAIN reader /\ r \in ReaderRecords
        /\ r.of \in DOMAIN objects /\ o \in Objects /\ o.name \in DOMAIN files
        /\ part \in Seq(Chunks)
        /\ DOMAIN reader' = DOMAIN reader
        /\ \A s \in DOMAIN reader : s # q => reader'[s] = reader[s]
        /\ reader'[q] \in ReaderRecords
        /\ reader'[q].of = r.of /\ reader'[q].from = r.from
        /\ reader'[q].got = r.got \o part
        /\ reader'[q].reached = r.until /\ reader'[q].until = o.received
        /\ Touch(r.of) /\ GoesTo(q, place)
    BY <1>3 DEF RangeRead
  <2>2. at'[q] = place /\ \A s \in Requests \ {q} : at'[s] = at[s]
    <3>1. PICK p : p = place
      OBVIOUS
    <3>2. GoesTo(q, p)
      BY <2>1, <3>1
    <3> QED
      BY <3>1, <3>2, BTyped, AtMoves
  <2>3. place \in {"reading", "parked", "answered"}
    BY GoesOnTo
  <2>4. sweeper.at = "removing" => sweeper'.at = "removing" /\ sweeper'.name = sweeper.name
    BY <2>1, BTyped, TouchTyped DEF Typed
  <2>5. FilesQuiet /\ HeldQuiet /\ SendersQuiet
    BY <1>0, <2>2, <2>3, <2>4, BTyped, StillQuiet DEF disk
  <2>6. /\ r.from \in Nat /\ r.reached \in Nat /\ r.until \in Nat /\ o.received \in Nat
        /\ r.from <= r.reached /\ r.reached < r.until /\ r.until <= o.received
        /\ r.got \in Seq(Chunks)
    <3>1. /\ r.from \in Nat /\ r.reached \in Nat /\ r.until \in Nat /\ r.got \in Seq(Chunks)
      BY <2>1 DEF ReaderRecords
    <3>2. o.received \in Nat
      BY <2>1 DEF Objects
    <3>3. r.from <= r.reached /\ r.reached < r.until /\ r.until <= o.received
      BY <1>0, <2>1 DEF BInv, ReadersBehind
    <3> QED
      BY <3>1, <3>2, <3>3
  <2>7. ReadersBehind'
    <3>1. reader'[q].from <= reader'[q].reached
      BY <2>1, <2>6
    <3>2. /\ reader'[q].until = objects[reader'[q].of].received
          /\ at'[q] = GoesOn(objects[reader'[q].of], reader'[q].reached)
      BY <2>1, <2>2
    <3> HIDE DEF part, o
    <3> QED
      BY <1>1, <2>1, <2>2, <3>1, <3>2, BTyped, ReaderLooks DEF BInv
  <2>8. ReadersHaveIt'
    <3>1. MakersStay
      BY <2>5, QuietMakers
    <3> SUFFICES ASSUME NEW s \in DOMAIN reader' PROVE HasIt(s)'
      BY DEF ReadersHaveIt
    <3>2. HasIt(s)
      BY <2>1 DEF BInv, ReadersHaveIt
    <3>3. CASE s # q
      BY <1>1, <2>1, <3>1, <3>2, <3>3, BTyped, StillHasIt
    <3>4. CASE s = q
      <4>1. PICK p \in DOMAIN objects : p = r.of
        BY <2>1
      <4>2. p \in Requests /\ Maker(p)
        BY <4>1, BTyped DEF Typed, ObjectsTyped, Maker
      <4>3. Sole(p)' => Sole(p)
        BY <3>1, <4>2, SoleBefore
      <4>4. Sole(p)' <=> Sole(reader[q].of)'
        BY <2>1, <4>1 DEF Sole, Maker, NameOf
      <4> SUFFICES ASSUME Sole(p)
                   PROVE  /\ Len(r.got \o part) = r.until - r.from
                          /\ \A k \in 1..Len(r.got \o part) :
                               (r.got \o part)[k] = <<objects[p].digest, r.from + k>>
        BY <1>1, <2>1, <3>4, <4>1, <4>3, <4>4 DEF HasIt
      <4>5. /\ Len(r.got) = r.reached - r.from
            /\ \A k \in 1..Len(r.got) : r.got[k] = <<objects[p].digest, r.from + k>>
        BY <3>2, <3>4, <4>1 DEF HasIt
      <4>6. /\ files[o.name] = p /\ contents[p] \in Seq(Chunks) /\ Len(contents[p]) = o.received
            /\ \A k \in 1..o.received : contents[p][k] = <<objects[p].digest, k>>
        <5>1. objects[p].name \in DOMAIN files /\ objects[p] = o
          BY <2>1, <4>1
        <5> QED
          BY <5>1, SoleFile
      <4>7. part = Between(contents[p], r.reached + 1, r.until)
        BY <4>6
      <4>8. PICK chunks \in Seq(Chunks) : chunks = contents[p]
        BY <4>6
      <4>9. PICK D : D = objects[p].digest
        OBVIOUS
      <4>10. PICK got \in Seq(Chunks), from \in Nat, reached \in Nat, until \in Nat, received \in Nat :
               /\ got = r.got /\ from = r.from /\ reached = r.reached /\ until = r.until
               /\ received = o.received
        BY <2>6
      <4> HIDE DEF part, o, r
      <4>11. /\ from <= reached /\ reached < until /\ until <= received
             /\ Stretch(D, got, from, reached) /\ Stretch(D, chunks, 0, received)
        <5>1. from <= reached /\ reached < until /\ until <= received
          BY <2>6, <4>10
        <5>2. Stretch(D, got, from, reached)
          BY <4>5, <4>9, <4>10 DEF Stretch
        <5>3. Len(chunks) = received - 0
          BY <4>6, <4>8, <4>10
        <5>4. \A k \in 1..received : chunks[k] = <<D, k>> /\ 0 + k = k
          BY <4>6, <4>8, <4>9, <4>10
        <5>5. Stretch(D, chunks, 0, received)
          BY <5>3, <5>4 DEF Stretch
        <5> QED
          BY <5>1, <5>2, <5>5
      <4>12. part = Between(chunks, reached + 1, until)
        BY <4>7, <4>8, <4>10
      <4>13. Stretch(D, got \o part, from, until)
        BY <4>11, <4>12, RangeWhole
      <4> QED
        BY <4>9, <4>10, <4>13 DEF Stretch
    <3> QED
      BY <3>3, <3>4
  <2> QED
    BY <1>1, <2>5, <2>7, <2>8, ReaderKeeps
<1> QED
  BY <1>2, <1>3, BTyped, ReadRangeReads

\* The sweep, before and after it removes anything, and the pruning.
LEMMA SweepKeeps ==
  ASSUME BInv,
         \/ Sweep \/ SweepRemove \/ SweepDone \/ PruneRemove
         \/ \E p \in Projects : PruneLook(p)
  PROVE  BInv'
<1>1. /\ Typed' /\ UNCHANGED <<entries, objects, at, call, writer, handle, reader, serving>>
  BY BTyped, SweepTyped
<1>2. contents' = contents /\ directories' \subseteq Projects /\ stuck' \subseteq Names
  BY BTyped DEF Sweep, SweepRemove, SweepDone, PruneRemove, PruneLook, disk
<1>3. \A n \in DOMAIN files' : n \in DOMAIN files /\ files'[n] = files[n]
  BY DEF Sweep, SweepRemove, SweepDone, PruneRemove, PruneLook, disk, MapDelete, Restrict
<1>4. SendersQuiet /\ ReadersQuiet /\ FilesQuiet
  <2>1. \A o \in DOMAIN objects : objects[o].received \in Nat
    BY BTyped DEF Typed, ObjectsTyped, Objects
  <2> QED
    BY <1>1, <1>2, <1>3, <2>1, MakersAsWere DEF SendersQuiet, ReadersQuiet, FilesQuiet
<1>5. FilesAreHeld'
  <2>1. CASE SweepRemove
    <3>1. DOMAIN files' = DOMAIN files \ {sweeper.name} /\ stuck' = stuck \ {sweeper.name}
      BY <2>1 DEF SweepRemove, MapDelete, Restrict
    <3> QED
      BY <1>1, <3>1 DEF BInv, FilesAreHeld
  <2>2. CASE ~SweepRemove
    <3>1. sweeper.at # "removing"
      BY <2>2 DEF Sweep, SweepDone, PruneRemove, PruneLook
    <3>2. \A n \in DOMAIN files' : n \in DOMAIN files /\ (n \in stuck => n \in stuck')
      BY <2>2 DEF Sweep, SweepDone, PruneRemove, PruneLook, disk, MapDelete, Restrict
    <3> QED
      BY <1>1, <3>1, <3>2 DEF BInv, FilesAreHeld
  <2> QED
    BY <2>1, <2>2
<1>6. SendersAlone' /\ ReadersBehind' /\ FilesTyped' /\ FilesHoldIt'
  BY <1>1, <1>4, BTyped, SendersKeep, ReadersKeep, FilesKeep DEF BInv
<1>7. ReadersHaveIt'
  <2>1. MakersStay
    BY <1>4, QuietMakers
  <2> QED
    BY <1>1, <2>1, BTyped, ReadersStillHaveIt DEF BInv
<1> QED
  BY <1>1, <1>5, <1>6, <1>7 DEF BInv, BTypeOK, Typed

\* A request that had made a file becomes the object of it, under the same name.
LEMMA RecordKeeps ==
  ASSUME BInv, NEW q \in Requests, Record(q)
  PROVE  BInv'
<1>1. /\ at[q] = "recording" /\ GoesTo(q, "answered") /\ call' = MapDelete(call, {q})
      /\ UNCHANGED <<files, contents, directories, stuck, writer, handle, reader, sweeper, serving>>
      /\ entries' = MapSet(entries, call[q].name, q)
  BY DEF Record, Ends, disk
<1>2. at'[q] = "answered" /\ \A r \in Requests \ {q} : at'[r] = at[r]
  BY <1>1, BTyped, AtMoves
<1>3. /\ Typed' /\ call[q] \in Sends[q] /\ call[q].verb = "POST" /\ q \notin DOMAIN objects
      /\ DOMAIN objects' = DOMAIN objects \cup {q}
      /\ \A o \in DOMAIN objects : objects'[o] = objects[o]
      /\ objects'[q].name = call[q].name /\ objects'[q].digest = call[q].digest
      /\ objects'[q].received = 0 /\ ~objects'[q].gone
  BY BTyped, RecordTyped
<1>4. DOMAIN call' = DOMAIN call \ {q} /\ \A r \in DOMAIN call' : call'[r] = call[r]
  BY <1>1 DEF MapDelete, Restrict
<1>5. \A r \in Requests : at[r] \in {"recording", "removing", "unrecorded"} => r \in DOMAIN call
  BY BTyped DEF Typed, RequestsTyped, RequestTyped, Making
<1>6. SendersQuiet
  BY <1>1, <1>2, <1>3 DEF SendersQuiet
<1>7. ReadersQuiet
  <2>1. \A o \in DOMAIN objects : objects[o].received \in Nat
    BY BTyped DEF Typed, ObjectsTyped, Objects
  <2>2. \A r \in Requests : at[r] \in Reading => r \in DOMAIN reader /\ reader[r].of \in DOMAIN objects
    BY BTyped DEF Typed, RequestsTyped, RequestTyped
  <2> QED
    BY <1>1, <1>2, <1>3, <2>1, <2>2 DEF ReadersQuiet, Reading
<1>8. FilesQuiet
  <2>1. MakersStay /\ \A m \in Requests : (Maker(m)' => Maker(m)) /\ Arrived(m)' = Arrived(m)
    BY <1>1, <1>2, <1>3, <1>4, <1>5 DEF MakersStay, Maker, NameOf, Arrived
  <2> QED
    BY <1>1, <1>3, <2>1, BTyped DEF FilesQuiet
<1>9. FilesAreHeld'
  <2> SUFFICES ASSUME serving', NEW n \in DOMAIN files'
               PROVE  \/ n \in DOMAIN entries' \cup stuck'
                      \/ \E r \in Requests : at'[r] \in {"recording", "removing"} /\ call'[r].name = n
                      \/ sweeper'.at = "removing" /\ sweeper'.name = n
    BY DEF FilesAreHeld
  <2>1. DOMAIN entries' = DOMAIN entries \cup {call[q].name}
    BY <1>1 DEF MapSet
  <2>2. \/ n \in DOMAIN entries \cup stuck
        \/ \E r \in Requests : at[r] \in {"recording", "removing"} /\ call[r].name = n
        \/ sweeper.at = "removing" /\ sweeper.name = n
    BY <1>1 DEF BInv, FilesAreHeld
  <2>3. CASE n \in DOMAIN entries \cup stuck
    BY <1>1, <2>1, <2>3
  <2>4. CASE \E r \in Requests : at[r] \in {"recording", "removing"} /\ call[r].name = n
    <3>1. PICK r \in Requests : at[r] \in {"recording", "removing"} /\ call[r].name = n
      BY <2>4
    <3>2. CASE r = q
      BY <2>1, <3>1, <3>2
    <3>3. CASE r # q
      BY <1>2, <1>4, <1>5, <3>1, <3>3
    <3> QED
      BY <3>2, <3>3
  <2>5. CASE sweeper.at = "removing" /\ sweeper.name = n
    BY <1>1, <2>5
  <2> QED
    BY <2>2, <2>3, <2>4, <2>5
<1>10. SendersAlone' /\ ReadersBehind' /\ FilesTyped' /\ FilesHoldIt'
  BY <1>3, <1>6, <1>7, <1>8, BTyped, SendersKeep, ReadersKeep, FilesKeep DEF BInv
<1>11. ReadersHaveIt'
  <2>1. MakersStay
    BY <1>8, QuietMakers
  <2> QED
    BY <1>1, <1>3, <2>1, BTyped, ReadersStillHaveIt DEF BInv
<1> QED
  BY <1>3, <1>9, <1>10, <1>11 DEF BInv, BTypeOK, Typed

\* What is left to show where only who holds which file is to be shown.
LEMMA HeldKeeps ==
  ASSUME BInv, Typed', SendersQuiet, ReadersQuiet, FilesQuiet, FilesAreHeld'
  PROVE  BInv'
<1>1. SendersAlone' /\ ReadersBehind' /\ FilesTyped' /\ FilesHoldIt'
  BY BTyped, SendersKeep, ReadersKeep, FilesKeep DEF BInv
<1>2. ReadersHaveIt'
  <2>1. MakersStay
    BY QuietMakers
  <2>2. reader' = reader /\ \A o \in DOMAIN objects : objects'[o].digest = objects[o].digest
    BY DEF FilesQuiet, ReadersQuiet
  <2> QED
    BY <2>1, <2>2, BTyped, ReadersStillHaveIt DEF BInv
<1> QED
  BY <1>1, <1>2 DEF BInv, BTypeOK, Typed

\* The same where the senders were looked at on their own.
LEMMA SenderKeeps ==
  ASSUME BInv, Typed', SendersAlone', ReadersQuiet, FilesQuiet, FilesAreHeld'
  PROVE  BInv'
<1>1. ReadersBehind' /\ FilesTyped' /\ FilesHoldIt'
  BY BTyped, ReadersKeep, FilesKeep DEF BInv
<1>2. ReadersHaveIt'
  <2>1. MakersStay
    BY QuietMakers
  <2>2. reader' = reader /\ \A o \in DOMAIN objects : objects'[o].digest = objects[o].digest
    BY DEF FilesQuiet, ReadersQuiet
  <2> QED
    BY <2>1, <2>2, BTyped, ReadersStillHaveIt DEF BInv
<1> QED
  BY <1>1, <1>2 DEF BInv, BTypeOK, Typed

LEMMA RemoveFileKeeps ==
  ASSUME BInv, NEW q \in Requests, RemoveFile(q)
  PROVE  BInv'
<1>1. /\ at[q] = "removing" /\ GoesTo(q, "answered") /\ call' = MapDelete(call, {q})
      /\ UNCHANGED <<entries, objects, contents, directories, writer, handle, reader, sweeper,
                     serving>>
      /\ \/ files' = MapDelete(files, {call[q].name}) /\ stuck' = stuck \ {call[q].name}
         \/ UNCHANGED files /\ stuck' = stuck \cup {call[q].name}
  BY DEF RemoveFile, Removes, Ends, store
<1>2. at'[q] = "answered" /\ \A r \in Requests \ {q} : at'[r] = at[r]
  BY <1>1, BTyped, AtMoves
<1>3. Typed'
  BY BTyped, RemoveFileTyped
<1>4. /\ DOMAIN call' = DOMAIN call \ {q} /\ \A r \in DOMAIN call' : call'[r] = call[r]
      /\ \A n \in DOMAIN files' : n \in DOMAIN files /\ files'[n] = files[n]
      /\ call[q].name \in DOMAIN files' => call[q].name \in stuck'
      /\ \A n \in stuck : n # call[q].name => n \in stuck'
  BY <1>1 DEF MapDelete, Restrict
<1>5. \A r \in Requests : at[r] \in {"recording", "removing", "unrecorded"} => r \in DOMAIN call
  BY BTyped DEF Typed, RequestsTyped, RequestTyped, Making
<1>6. SendersQuiet
  BY <1>1, <1>2 DEF SendersQuiet
<1>7. ReadersQuiet
  <2>1. \A o \in DOMAIN objects : objects[o].received \in Nat
    BY BTyped DEF Typed, ObjectsTyped, Objects
  <2> QED
    BY <1>1, <1>2, <2>1 DEF ReadersQuiet
<1>8. FilesQuiet
  <2>1. \A m \in Requests :
          /\ at'[m] \in {"recording", "unrecorded"} <=> at[m] \in {"recording", "unrecorded"}
          /\ at[m] \in {"recording", "unrecorded"} => call'[m] = call[m]
    BY <1>1, <1>2, <1>4, <1>5
  <2>2. MakersStay /\ \A m \in Requests : (Maker(m)' => Maker(m)) /\ Arrived(m)' = Arrived(m)
    BY <1>1, <2>1, MakersAsWere
  <2> QED
    <3>1. call[q].name \in Names
      BY <1>1, BTyped DEF Typed, RequestsTyped, RequestTyped, Making
    <3>2. stuck' \subseteq Names
      BY <1>1, <3>1, BTyped
    <3> QED
      BY <1>1, <1>4, <2>2, <3>2, BTyped DEF FilesQuiet
<1>9. FilesAreHeld'
  <2> SUFFICES ASSUME serving', NEW n \in DOMAIN files'
               PROVE  \/ n \in DOMAIN entries' \cup stuck'
                      \/ \E r \in Requests : at'[r] \in {"recording", "removing"} /\ call'[r].name = n
                      \/ sweeper'.at = "removing" /\ sweeper'.name = n
    BY DEF FilesAreHeld
  <2>1. CASE n = call[q].name
    BY <1>4, <2>1
  <2>2. CASE n # call[q].name
    <3>1. \/ n \in DOMAIN entries \cup stuck
          \/ \E r \in Requests : at[r] \in {"recording", "removing"} /\ call[r].name = n
          \/ sweeper.at = "removing" /\ sweeper.name = n
      BY <1>1, <1>4 DEF BInv, FilesAreHeld
    <3> QED
      BY <1>1, <1>2, <1>4, <1>5, <2>2, <3>1
  <2> QED
    BY <2>1, <2>2
<1> QED
  BY <1>3, <1>6, <1>7, <1>8, <1>9, HeldKeeps

LEMMA DropKeeps ==
  ASSUME BInv, NEW q \in Requests, NEW c \in Sends[q], Drop(q, c)
  PROVE  BInv'
<1>0. /\ at[q] = "unsent"
      /\ UNCHANGED <<files, contents, directories, stuck, writer, handle, reader, sweeper, serving>>
  BY DEF Drop, Permitted, disk
<1>1. Typed'
  BY BTyped, DropTyped
<1>2. CASE Ends(q) /\ UNCHANGED <<store, call>>
  <2>1. at'[q] = "answered" /\ \A r \in Requests \ {q} : at'[r] = at[r]
    BY <1>2, BTyped, AtMoves DEF Ends
  <2>2. /\ FilesQuiet /\ HeldQuiet /\ SendersQuiet /\ ReadersQuiet
    BY <1>0, <1>2, <2>1, BTyped, StillQuiet
  <2> QED
    BY <1>1, <2>2, QuietKeeps
<1>3. CASE /\ c.name \in DOMAIN entries
           /\ ForgetEntry(c.name, [at EXCEPT ![q] = "removing"]) /\ call' = MapSet(call, q, c)
  <2>1. PICK P \in [Requests -> Places] : P = [at EXCEPT ![q] = "removing"]
    BY BTyped DEF Typed, RequestsTyped, Places
  <2>2. PICK o \in DOMAIN objects : o = entries[c.name]
    BY <1>3, BTyped DEF Typed, ObjectsTyped
  <2>3. Forgotten(c.name, P)
    BY <1>3, <2>1, BTyped, Forgets
  <2>4. /\ objects[o].name = c.name /\ DOMAIN entries' = DOMAIN entries \ {c.name}
        /\ DOMAIN objects' = DOMAIN objects
        /\ \A p \in DOMAIN objects : p # o => objects'[p] = objects[p]
        /\ objects'[o].name = objects[o].name /\ objects'[o].length = objects[o].length
        /\ objects'[o].digest = objects[o].digest /\ objects'[o].received = objects[o].received
        /\ objects'[o].writing = objects[o].writing
    BY <2>2, <2>3 DEF Forgotten, ObjectBecomes
  <2>5. \A r \in Requests :
          \/ P[r] = "parked" /\ reader[r].of = o /\ at'[r] = "woken"
          \/ at'[r] = P[r] /\ ~(P[r] = "parked" /\ reader[r].of = o)
    BY <2>2, <2>3 DEF Forgotten
  <2>6. /\ at'[q] = "removing"
        /\ \A r \in Requests \ {q} :
             \/ at[r] = "parked" /\ reader[r].of = o /\ at'[r] = "woken"
             \/ at'[r] = at[r] /\ ~(at[r] = "parked" /\ reader[r].of = o)
    BY <2>1, <2>5, BTyped DEF Typed, RequestsTyped
  <2>7. call'[q] = c /\ \A r \in DOMAIN call : r # q => call'[r] = call[r]
    BY <1>3 DEF MapSet
  <2>8. \A r \in Requests : at[r] \in {"recording", "removing", "unrecorded"} => r \in DOMAIN call
    BY BTyped DEF Typed, RequestsTyped, RequestTyped, Making
  <2>9. SendersQuiet
    BY <1>0, <2>4, <2>6 DEF SendersQuiet
  <2>10. ReadersQuiet
    <3>1. \A p \in DOMAIN objects : objects[p].received \in Nat
      BY BTyped DEF Typed, ObjectsTyped, Objects
    <3>2. \A r \in Requests :
            at[r] \in Reading => r \in DOMAIN reader /\ reader[r].of \in DOMAIN objects
      BY BTyped DEF Typed, RequestsTyped, RequestTyped
    <3> QED
      BY <1>0, <2>4, <2>6, <3>1, <3>2 DEF ReadersQuiet, Reading
  <2>11. FilesQuiet
    <3>1. \A m \in Requests :
            /\ at'[m] \in {"recording", "unrecorded"} <=> at[m] \in {"recording", "unrecorded"}
            /\ at[m] \in {"recording", "unrecorded"} => call'[m] = call[m]
      BY <1>0, <2>6, <2>7, <2>8
    <3>2. MakersStay /\ \A m \in Requests : (Maker(m)' => Maker(m)) /\ Arrived(m)' = Arrived(m)
      BY <2>4, <3>1, MakersAsWere
    <3> QED
      BY <1>0, <2>4, <3>2, BTyped DEF FilesQuiet
  <2>12. FilesAreHeld'
    <3> SUFFICES ASSUME serving', NEW n \in DOMAIN files'
                 PROVE  \/ n \in DOMAIN entries' \cup stuck'
                        \/ \E r \in Requests : at'[r] \in {"recording", "removing"} /\ call'[r].name = n
                        \/ sweeper'.at = "removing" /\ sweeper'.name = n
      BY DEF FilesAreHeld
    <3>1. \/ n \in DOMAIN entries \cup stuck
          \/ \E r \in Requests : at[r] \in {"recording", "removing"} /\ call[r].name = n
          \/ sweeper.at = "removing" /\ sweeper.name = n
      BY <1>0 DEF BInv, FilesAreHeld
    <3>2. CASE n = c.name
      BY <2>6, <2>7, <3>2
    <3>3. CASE n # c.name /\ n \in DOMAIN entries \cup stuck
      BY <1>0, <2>4, <3>3
    <3>4. CASE \E r \in Requests : at[r] \in {"recording", "removing"} /\ call[r].name = n
      BY <1>0, <2>6, <2>7, <2>8, <3>4
    <3>5. CASE sweeper.at = "removing" /\ sweeper.name = n
      BY <1>0, <3>5
    <3> QED
      BY <3>1, <3>2, <3>3, <3>4, <3>5
  <2> QED
    BY <1>1, <2>9, <2>10, <2>11, <2>12, HeldKeeps
<1> QED
  BY <1>2, <1>3 DEF Drop

LEMMA SweepOneKeeps ==
  ASSUME BInv, NEW d \in Requests, SweepOne(d)
  PROVE  BInv'
<1> DEFINE name == objects[d].name left == sweeper.left \ {d}
<1>0. /\ UNCHANGED <<files, contents, directories, stuck, call, writer, handle, reader, serving>>
      /\ sweeper.at = "visiting"
  BY DEF SweepOne, disk, bound
<1>1. Typed'
  BY BTyped, SweepOneTyped
<1>2. CASE UNCHANGED <<store, at>>
  <2>1. UNCHANGED <<entries, objects, at>>
    BY <1>2 DEF store
  <2>2. \A o \in DOMAIN objects : objects[o].received \in Nat
    BY BTyped DEF Typed, ObjectsTyped, Objects
  <2>3. SendersQuiet /\ ReadersQuiet /\ FilesQuiet
    BY <1>0, <2>1, <2>2, BTyped, MakersAsWere DEF SendersQuiet, ReadersQuiet, FilesQuiet
  <2>4. FilesAreHeld'
    BY <1>0, <2>1 DEF BInv, FilesAreHeld
  <2> QED
    BY <1>1, <2>3, <2>4, HeldKeeps
<1>3. CASE /\ name \in DOMAIN entries /\ ForgetEntry(name, at)
           /\ sweeper' = [at |-> "removing", left |-> left, dropped |-> TRUE, name |-> name]
  <2>1. PICK P \in [Requests -> Places], gone \in DOMAIN entries : P = at /\ gone = name
    BY <1>3, BTyped DEF Typed, RequestsTyped
  <2>2. PICK o \in DOMAIN objects : o = entries[gone]
    BY BTyped DEF Typed, ObjectsTyped
  <2>3. Forgotten(gone, P)
    BY <1>3, <2>1, BTyped, Forgets
  <2>4. /\ DOMAIN entries' = DOMAIN entries \ {gone}
        /\ DOMAIN objects' = DOMAIN objects
        /\ \A p \in DOMAIN objects : p # o => objects'[p] = objects[p]
        /\ objects[o].name = gone
        /\ objects'[o].name = objects[o].name /\ objects'[o].length = objects[o].length
        /\ objects'[o].digest = objects[o].digest /\ objects'[o].received = objects[o].received
        /\ objects'[o].writing = objects[o].writing
    BY <2>2, <2>3 DEF Forgotten, ObjectBecomes
  <2>5. \A r \in Requests :
          \/ at[r] = "parked" /\ reader[r].of = o /\ at'[r] = "woken"
          \/ at'[r] = at[r] /\ ~(at[r] = "parked" /\ reader[r].of = o)
    BY <2>1, <2>2, <2>3 DEF Forgotten
  <2>6. sweeper'.at = "removing" /\ sweeper'.name = gone
    BY <1>3, <2>1
  <2>7. SendersQuiet
    BY <1>0, <2>4, <2>5 DEF SendersQuiet
  <2>8. ReadersQuiet
    <3>1. \A p \in DOMAIN objects : objects[p].received \in Nat
      BY BTyped DEF Typed, ObjectsTyped, Objects
    <3>2. \A r \in Requests :
            at[r] \in Reading => r \in DOMAIN reader /\ reader[r].of \in DOMAIN objects
      BY BTyped DEF Typed, RequestsTyped, RequestTyped
    <3> QED
      BY <1>0, <2>4, <2>5, <3>1, <3>2 DEF ReadersQuiet, Reading
  <2>9. FilesQuiet
    <3>1. \A m \in Requests :
            /\ at'[m] \in {"recording", "unrecorded"} <=> at[m] \in {"recording", "unrecorded"}
            /\ at[m] \in {"recording", "unrecorded"} => call'[m] = call[m]
      BY <1>0, <2>5
    <3>2. MakersStay /\ \A m \in Requests : (Maker(m)' => Maker(m)) /\ Arrived(m)' = Arrived(m)
      BY <2>4, <3>1, MakersAsWere
    <3> QED
      BY <1>0, <2>4, <3>2, BTyped DEF FilesQuiet
  <2>10. FilesAreHeld'
    <3> SUFFICES ASSUME serving', NEW n \in DOMAIN files'
                 PROVE  \/ n \in DOMAIN entries' \cup stuck'
                        \/ \E r \in Requests : at'[r] \in {"recording", "removing"} /\ call'[r].name = n
                        \/ sweeper'.at = "removing" /\ sweeper'.name = n
      BY DEF FilesAreHeld
    <3>1. \/ n \in DOMAIN entries \cup stuck
          \/ \E r \in Requests : at[r] \in {"recording", "removing"} /\ call[r].name = n
      BY <1>0 DEF BInv, FilesAreHeld
    <3>2. CASE n = gone
      BY <2>6, <3>2
    <3>3. CASE n # gone /\ n \in DOMAIN entries \cup stuck
      BY <1>0, <2>4, <3>3
    <3>4. CASE \E r \in Requests : at[r] \in {"recording", "removing"} /\ call[r].name = n
      BY <1>0, <2>5, <3>4
    <3> QED
      BY <3>1, <3>2, <3>3, <3>4
  <2> QED
    BY <1>1, <2>7, <2>8, <2>9, <2>10, HeldKeeps
<1> QED
  BY <1>2, <1>3 DEF SweepOne

LEMMA CloseKeeps ==
  ASSUME BInv, Close
  PROVE  BInv'
<1>0. UNCHANGED <<files, contents, directories, stuck, call, writer, handle, reader, sweeper>> /\ ~serving'
  BY DEF Close, disk, bound
<1>1. /\ Typed' /\ DOMAIN objects' = DOMAIN objects
      /\ \A o \in DOMAIN objects :
           /\ objects'[o].name = objects[o].name /\ objects'[o].length = objects[o].length
           /\ objects'[o].digest = objects[o].digest
           /\ objects'[o].received = objects[o].received
           /\ objects'[o].writing = objects[o].writing
           /\ objects'[o].gone = (objects[o].gone \/ o \in Range(entries))
      /\ \A q \in Requests :
           \/ at[q] = "parked" /\ reader[q].of \in Range(entries) /\ at'[q] = "woken"
           \/ at'[q] = at[q] /\ ~(at[q] = "parked" /\ reader[q].of \in Range(entries))
  BY BTyped, CloseTyped
<1>2. SendersQuiet
  BY <1>0, <1>1 DEF SendersQuiet
<1>3. ReadersQuiet
  <2>1. \A p \in DOMAIN objects : objects[p].received \in Nat /\ objects[p].gone \in BOOLEAN
    BY BTyped DEF Typed, ObjectsTyped, Objects
  <2>2. \A r \in Requests :
          at[r] \in Reading => r \in DOMAIN reader /\ reader[r].of \in DOMAIN objects
    BY BTyped DEF Typed, RequestsTyped, RequestTyped
  <2> QED
    BY <1>0, <1>1, <2>1, <2>2 DEF ReadersQuiet, Reading
<1>4. FilesQuiet
  <2>1. \A m \in Requests :
          /\ at'[m] \in {"recording", "unrecorded"} <=> at[m] \in {"recording", "unrecorded"}
          /\ at[m] \in {"recording", "unrecorded"} => call'[m] = call[m]
    BY <1>0, <1>1
  <2>2. MakersStay /\ \A m \in Requests : (Maker(m)' => Maker(m)) /\ Arrived(m)' = Arrived(m)
    BY <1>1, <2>1, MakersAsWere
  <2> QED
    BY <1>0, <1>1, <2>2, BTyped DEF FilesQuiet
<1>5. FilesAreHeld'
  BY <1>0 DEF FilesAreHeld
<1> QED
  BY <1>1, <1>2, <1>3, <1>4, <1>5, HeldKeeps

\* A process that dies keeps no request but those that had made a file.
LEMMA SweepFailsTyped ==
  ASSUME Typed, SweepFails
  PROVE  Typed'
<1>1. /\ DOMAIN entries' = {} /\ objects' = objects /\ reader' = reader /\ sweeper' = Resting
      /\ DOMAIN writer' = {} /\ DOMAIN handle' = {}
      /\ DOMAIN call' = {q \in DOMAIN call : at[q] \in {"recording", "unrecorded"}}
      /\ \A q \in DOMAIN call' : call'[q] = call[q]
      /\ at' = [q \in Requests |-> at'[q]]
      /\ \A q \in Requests :
           \/ at[q] = "unsent" /\ at'[q] = "unsent"
           \/ at[q] \in {"recording", "unrecorded"} /\ at'[q] = "unrecorded"
           \/ at[q] \notin {"unsent", "recording", "unrecorded"} /\ at'[q] = "answered"
  BY DEF SweepFails, Restrict
<1>2. ASSUME NEW q \in Requests
      PROVE  RequestTyped(q)'
  <2>1. RequestTyped(q)
    BY DEF Typed, RequestsTyped
  <2> QED
    BY <1>1, <2>1 DEF RequestTyped, Places, Making, Sending, Opened, Reading
<1>3. \A q \in Requests : at'[q] \in Places
  BY <1>2 DEF RequestTyped
<1>4. at' \in [Requests -> Places]
  BY <1>1, <1>3
<1>5. RequestsTyped'
  BY <1>1, <1>2, <1>4 DEF Typed, RequestsTyped
<1>6. ObjectsTyped'
  BY <1>1 DEF Typed, ObjectsTyped
<1> QED
  BY <1>1, <1>5, <1>6 DEF Typed, Sweepers

LEMMA SweepFailsKeeps ==
  ASSUME BInv, SweepFails
  PROVE  BInv'
<1>1. /\ objects' = objects /\ reader' = reader /\ UNCHANGED <<files, contents, directories, stuck>>
      /\ DOMAIN writer' = {} /\ DOMAIN handle' = {} /\ ~serving'
      /\ \A q \in DOMAIN call : at[q] \in {"recording", "unrecorded"} => call'[q] = call[q]
      /\ \A q \in Requests :
           /\ at'[q] \notin {"landing", "reading", "parked"}
           /\ at'[q] \in {"recording", "unrecorded"} <=> at[q] \in {"recording", "unrecorded"}
  BY DEF SweepFails, disk, Restrict
<1>2. Typed'
  BY BTyped, SweepFailsTyped
<1>3. SendersQuiet
  BY <1>1 DEF SendersQuiet
<1>4. ReadersQuiet
  <2>1. \A p \in DOMAIN objects : objects[p].received \in Nat
    BY BTyped DEF Typed, ObjectsTyped, Objects
  <2> QED
    BY <1>1, <2>1 DEF ReadersQuiet
<1>5. FilesQuiet
  <2>1. \A m \in Requests :
          /\ at'[m] \in {"recording", "unrecorded"} <=> at[m] \in {"recording", "unrecorded"}
          /\ at[m] \in {"recording", "unrecorded"} => call'[m] = call[m]
    BY <1>1, BTyped DEF Typed, RequestsTyped, RequestTyped, Making
  <2>2. MakersStay /\ \A m \in Requests : (Maker(m)' => Maker(m)) /\ Arrived(m)' = Arrived(m)
    BY <1>1, <2>1, MakersAsWere
  <2> QED
    BY <1>1, <2>2, BTyped DEF FilesQuiet
<1>6. FilesAreHeld'
  BY <1>1 DEF FilesAreHeld
<1> QED
  BY <1>2, <1>3, <1>4, <1>5, <1>6, HeldKeeps

\* A sender is let in where there is none, and sends what was reserved.
LEMMA AppendToKeeps ==
  ASSUME BInv, NEW q \in Requests, NEW c \in Sends[q], AppendTo(q, c)
  PROVE  BInv'
<1>0. /\ at[q] = "unsent" /\ c.verb = "PATCH"
      /\ UNCHANGED <<entries, disk, files, contents, directories, stuck, call, handle, reader, sweeper, serving>>
  BY DEF AppendTo, Permitted, disk
<1>1. Typed'
  BY BTyped, AppendToTyped
<1>2. CASE Ends(q) /\ UNCHANGED <<objects, writer>>
  <2>1. at'[q] = "answered" /\ \A r \in Requests \ {q} : at'[r] = at[r]
    BY <1>2, BTyped, AtMoves DEF Ends
  <2>2. /\ FilesQuiet /\ HeldQuiet /\ SendersQuiet /\ ReadersQuiet
    BY <1>0, <1>2, <2>1, BTyped, StillQuiet DEF store
  <2> QED
    BY <1>1, <2>2, QuietKeeps
<1>3. CASE /\ c.name \in DOMAIN entries /\ ~objects[entries[c.name]].writing
           /\ SendTo(q, c, entries[c.name])
  <2>1. PICK o \in DOMAIN objects :
          /\ o = entries[c.name] /\ objects[o].name = c.name /\ o \in Requests
          /\ objects[o].writing = FALSE
    <3>1. /\ entries[c.name] \in DOMAIN objects /\ objects[entries[c.name]].name = c.name
          /\ entries[c.name] \in Requests
      BY <1>3, BTyped DEF Typed, ObjectsTyped
    <3>2. objects[entries[c.name]].writing \in BOOLEAN
      BY <3>1, BTyped DEF Typed, ObjectsTyped, Objects
    <3> QED
      BY <1>3, <3>1, <3>2
  <2>2. /\ objects' = [objects EXCEPT ![o].writing = TRUE] /\ GoesTo(q, "opening")
        /\ writer' = MapSet(writer, q, [of |-> o, size |-> c.size, digest |-> c.digest])
    BY <1>3, <2>1 DEF SendTo
  <2>3. at'[q] = "opening" /\ \A r \in Requests \ {q} : at'[r] = at[r]
    BY <2>2, BTyped, AtMoves
  <2>4. /\ DOMAIN writer' = DOMAIN writer \cup {q}
        /\ writer'[q].of = o /\ writer'[q].digest = c.digest
        /\ \A r \in DOMAIN writer : r # q => writer'[r] = writer[r]
    BY <2>2 DEF MapSet
  <2>5. PICK new \in Objects :
          /\ DOMAIN objects' = DOMAIN objects /\ objects'[o] = new
          /\ \A p \in DOMAIN objects : p # o => objects'[p] = objects[p]
          /\ new.name = objects[o].name /\ new.length = objects[o].length
          /\ new.digest = objects[o].digest /\ new.received = objects[o].received
          /\ new.writing = TRUE
    BY <1>0, <2>2, BTyped, WritingChanges DEF ObjectBecomes
  <2>6. q \notin DOMAIN writer /\ q \notin DOMAIN handle
    BY <1>0, BTyped DEF Typed, RequestsTyped, RequestTyped, Sending, Opened
  <2>7. \A r \in DOMAIN writer : writer[r].of \in DOMAIN objects
    BY BTyped DEF Typed, RequestsTyped, RequestTyped
  <2>8. /\ \A r, s \in DOMAIN writer : writer[r].of = writer[s].of => r = s
        /\ \A r \in DOMAIN writer : objects[writer[r].of].writing
        /\ \A p \in DOMAIN objects : objects[p].received <= objects[p].length
        /\ \A r \in Requests : at[r] = "landing" =>
             objects[writer[r].of].received < objects[writer[r].of].length
    BY DEF BInv, SendersAlone, OneSenderAtATime
  <2>9. SendersAlone'
    <3>1. \A r \in DOMAIN writer : writer[r].of # o
      BY <2>1, <2>8
    <3>2. \A r, s \in DOMAIN writer' : writer'[r].of = writer'[s].of => r = s
      BY <2>4, <2>8, <3>1
    <3>3. \A r \in DOMAIN writer' : objects'[writer'[r].of].writing
      BY <2>4, <2>5, <2>7, <2>8, <3>1
    <3>4. \A p \in DOMAIN objects' : objects'[p].received <= objects'[p].length
      BY <2>5, <2>8
    <3>5. \A n \in DOMAIN entries' : ~objects'[entries'[n]].gone
      BY <1>1 DEF Typed, ObjectsTyped
    <3>6. ASSUME NEW r \in Requests, at'[r] = "landing"
          PROVE  objects'[writer'[r].of].received < objects'[writer'[r].of].length
      <4>1. at[r] = "landing" /\ r \in DOMAIN writer /\ r # q
        BY <2>3, <3>6, BTyped DEF Typed, RequestsTyped, RequestTyped, Sending, Opened
      <4> QED
        BY <2>4, <2>5, <2>7, <2>8, <3>1, <4>1
    <3> QED
      BY <3>2, <3>3, <3>4, <3>5, <3>6 DEF SendersAlone, OneSenderAtATime
  <2>10. ReadersQuiet /\ HeldQuiet
    <3>1. \A p \in DOMAIN objects : objects[p].received \in Nat
      BY BTyped DEF Typed, ObjectsTyped, Objects
    <3>2. \A r \in Requests :
            at[r] \in Reading => r \in DOMAIN reader /\ reader[r].of \in DOMAIN objects
      BY BTyped DEF Typed, RequestsTyped, RequestTyped
    <3>3. \A p \in DOMAIN objects : objects'[p].gone = objects[p].gone
      <4>1. objects[o] \in Objects
        BY BTyped DEF Typed, ObjectsTyped
      <4>2. objects'[o].gone = objects[o].gone
        BY <2>2, <4>1 DEF Objects
      <4> QED
        BY <2>5, <4>2
    <3>4. ReadersQuiet
      BY <1>0, <2>3, <2>5, <3>1, <3>2, <3>3 DEF ReadersQuiet, Reading
    <3>5. HeldQuiet
      BY <1>0, <2>3 DEF HeldQuiet
    <3> QED
      BY <3>4, <3>5
  <2>11. MakersStay /\ \A m \in Requests : (Maker(m)' => Maker(m)) /\ Arrived(m)' = Arrived(m)
    <3>1. /\ \A p \in DOMAIN objects :
               objects'[p].name = objects[p].name /\ objects'[p].received = objects[p].received
          /\ \A m \in Requests :
               /\ at'[m] \in {"recording", "unrecorded"} <=> at[m] \in {"recording", "unrecorded"}
               /\ at[m] \in {"recording", "unrecorded"} => call'[m] = call[m]
      BY <1>0, <2>3, <2>5
    <3> QED
      BY <2>5, <3>1, MakersAsWere
  <2>12. OneFileToAName => c.digest = objects[o].digest
    <3>1. PICK d \in Sends[o] :
            d.verb = "POST" /\ d.name = objects[o].name /\ d.digest = objects[o].digest
      BY DEF BInv, FilesHoldIt
    <3> QED
      BY <1>0, <2>1, <3>1 DEF OneFileToAName
  <2>13. FilesQuiet
    <3>1. \A r \in DOMAIN writer' :
            \/ r \in DOMAIN writer /\ writer'[r] = writer[r]
            \/ OneFileToAName => writer'[r].digest = objects'[writer'[r].of].digest
      BY <2>4, <2>5, <2>12
    <3>2. \A r \in DOMAIN handle : r # q /\ writer'[r] = writer[r]
      BY <2>4, <2>6, BTyped DEF Typed, RequestsTyped, RequestTyped, Sending
    <3> QED
      BY <1>0, <2>5, <2>11, <3>1, <3>2, BTyped DEF FilesQuiet
  <2>14. FilesAreHeld'
    BY <2>10, HeldKeep DEF BInv
  <2> QED
    BY <1>1, <2>9, <2>10, <2>13, <2>14, SenderKeeps
<1> QED
  BY <1>2, <1>3 DEF AppendTo

\* A sender opens what is at the path of its object.
\* The same of a sender that ends without a word of it to its object.
LEMMA SenderLeavesQuietly ==
  ASSUME BInv, NEW q \in Requests, at[q] \in Sending, GoesTo(q, "answered"),
         UNCHANGED <<entries, objects, files, contents, directories, stuck, call, reader, sweeper,
                     serving>>,
         DOMAIN writer' = DOMAIN writer \ {q}, \A r \in DOMAIN writer' : writer'[r] = writer[r],
         DOMAIN handle' = DOMAIN handle \ {q}, \A r \in DOMAIN handle' : handle'[r] = handle[r]
  PROVE  BInv'
<1>1. Typed'
  BY BTyped, SenderLeaves
<1>2. at'[q] = "answered" /\ \A r \in Requests \ {q} : at'[r] = at[r]
  BY BTyped, AtMoves
<1>3. \A p \in DOMAIN objects : objects[p].received \in Nat
  BY BTyped DEF Typed, ObjectsTyped, Objects
<1>4. at[q] \notin {"recording", "removing", "unrecorded"}
  BY DEF Sending, Opened
<1>5. \A r \in DOMAIN handle : r \in DOMAIN writer
  BY BTyped DEF Typed, RequestsTyped, RequestTyped, Sending
<1>6. SendersQuiet /\ ReadersQuiet /\ HeldQuiet
  BY <1>2, <1>3, <1>4 DEF SendersQuiet, ReadersQuiet, HeldQuiet
<1>7. FilesQuiet
  <2>1. \A m \in Requests :
          /\ at'[m] \in {"recording", "unrecorded"} <=> at[m] \in {"recording", "unrecorded"}
          /\ at[m] \in {"recording", "unrecorded"} => call'[m] = call[m]
    BY <1>2, <1>4
  <2>2. MakersStay /\ \A m \in Requests : (Maker(m)' => Maker(m)) /\ Arrived(m)' = Arrived(m)
    BY <2>1, MakersAsWere
  <2> QED
    BY <1>5, <2>2, BTyped DEF FilesQuiet
<1> QED
  BY <1>1, <1>6, <1>7, QuietKeeps

LEMMA OpenToAppendKeeps ==
  ASSUME BInv, NEW q \in Requests, OpenToAppend(q)
  PROVE  BInv'
<1> DEFINE n == objects[writer[q].of].name
<1>0. /\ at[q] = "opening"
      /\ UNCHANGED <<entries, objects, files, contents, directories, stuck, call, reader, sweeper, serving>>
  BY DEF OpenToAppend, store, disk
<1>1. Typed'
  BY BTyped, OpenToAppendTyped
<1>2. q \in DOMAIN writer /\ q \notin DOMAIN handle /\ \A r \in DOMAIN handle : r \in DOMAIN writer
  BY <1>0, BTyped DEF Typed, RequestsTyped, RequestTyped, Sending, Opened
<1>3. \A p \in DOMAIN objects : objects[p].received \in Nat
  BY BTyped DEF Typed, ObjectsTyped, Objects
<1>4. CASE /\ n \in DOMAIN files /\ handle' = MapSet(handle, q, files[n])
           /\ GoesTo(q, "streaming") /\ UNCHANGED writer
  <2>1. at'[q] = "streaming" /\ \A r \in Requests \ {q} : at'[r] = at[r]
    BY <1>4, BTyped, AtMoves
  <2>2. /\ DOMAIN handle' = DOMAIN handle \cup {q} /\ handle'[q] = files[n]
        /\ \A r \in DOMAIN handle : handle'[r] = handle[r]
    BY <1>2, <1>4 DEF MapSet
  <2>3. SendersQuiet /\ ReadersQuiet /\ HeldQuiet
    BY <1>0, <1>3, <1>4, <2>1 DEF SendersQuiet, ReadersQuiet, HeldQuiet
  <2>4. FilesQuiet
    <3>1. MakersStay /\ \A m \in Requests : (Maker(m)' => Maker(m)) /\ Arrived(m)' = Arrived(m)
      <4>1. \A m \in Requests :
              /\ at'[m] \in {"recording", "unrecorded"} <=> at[m] \in {"recording", "unrecorded"}
              /\ at[m] \in {"recording", "unrecorded"} => call'[m] = call[m]
        BY <1>0, <2>1
      <4> QED
        BY <1>0, <4>1, MakersAsWere
    <3> QED
      BY <1>0, <1>2, <1>4, <2>2, <3>1, BTyped DEF FilesQuiet
  <2> QED
    BY <1>1, <2>3, <2>4, QuietKeeps
<1>5. CASE GoesTo(q, "answered") /\ writer' = MapDelete(writer, {q}) /\ UNCHANGED handle
  <2>1. DOMAIN writer' = DOMAIN writer \ {q} /\ \A r \in DOMAIN writer' : writer'[r] = writer[r]
    BY <1>5 DEF MapDelete, Restrict
  <2>2. at[q] \in Sending /\ DOMAIN handle' = DOMAIN handle \ {q}
    BY <1>0, <1>2, <1>5 DEF Sending
  <2> QED
    BY <1>0, <1>5, <2>1, <2>2, SenderLeavesQuietly
<1> QED
  BY <1>4, <1>5 DEF OpenToAppend, Ends

\* Closing what nobody else is writing to.
LEMMA ClosedKeeps ==
  ASSUME BInv, NEW q \in Requests, CloseAppend(q), Leaves(q, writer[q].of)
  PROVE  BInv'
<1>0. /\ at[q] = "closing"
      /\ UNCHANGED <<entries, files, contents, directories, stuck, call, reader, serving>>
  BY DEF CloseAppend, disk
<1>1. Typed'
  BY BTyped, CloseAppendTyped
<1>2. PICK o \in DOMAIN objects : o = writer[q].of /\ q \in DOMAIN writer
  BY <1>0, BTyped DEF Typed, RequestsTyped, RequestTyped, Sending, Opened
<1>3. /\ objects' = [objects EXCEPT ![o].writing = FALSE] /\ Touch(o)
      /\ at' = Waking(o, [at EXCEPT ![q] = "answered"])
      /\ writer' = MapDelete(writer, {q}) /\ handle' = MapDelete(handle, {q})
  BY <1>2 DEF CloseAppend, Leaves
<1>4. PICK new \in Objects :
        /\ DOMAIN objects' = DOMAIN objects /\ objects'[o] = new
        /\ \A p \in DOMAIN objects : p # o => objects'[p] = objects[p]
        /\ new.name = objects[o].name /\ new.length = objects[o].length
        /\ new.digest = objects[o].digest /\ new.received = objects[o].received
        /\ new.writing = FALSE /\ new.gone = objects[o].gone
  BY <1>0, <1>3, BTyped, WritingChanges DEF ObjectBecomes
<1>5. /\ at'[q] = "answered"
      /\ \A r \in Requests \ {q} :
           \/ at[r] = "parked" /\ reader[r].of = o /\ at'[r] = "woken"
           \/ at'[r] = at[r] /\ ~(at[r] = "parked" /\ reader[r].of = o)
  <2>1. PICK P \in [Requests -> Places] : P = [at EXCEPT ![q] = "answered"]
    BY BTyped DEF Typed, RequestsTyped, Places
  <2>2. at' = Waking(o, P)
    BY <1>3, <2>1
  <2>3. \A r \in Requests :
          \/ P[r] = "parked" /\ reader[r].of = o /\ at'[r] = "woken"
          \/ at'[r] = P[r] /\ ~(P[r] = "parked" /\ reader[r].of = o)
    BY <2>2, WakingTyped
  <2> QED
    BY <2>1, <2>3, BTyped DEF Typed, RequestsTyped
<1>6. /\ DOMAIN writer' = DOMAIN writer \ {q} /\ DOMAIN handle' = DOMAIN handle \ {q}
      /\ \A r \in DOMAIN writer' : writer'[r] = writer[r]
      /\ \A r \in DOMAIN handle' : handle'[r] = handle[r]
  BY <1>3 DEF MapDelete, Restrict
<1>7. \A r \in DOMAIN writer : writer[r].of \in DOMAIN objects
  BY BTyped DEF Typed, RequestsTyped, RequestTyped
<1>8. /\ \A r, s \in DOMAIN writer : writer[r].of = writer[s].of => r = s
      /\ \A r \in DOMAIN writer : objects[writer[r].of].writing
      /\ \A p \in DOMAIN objects : objects[p].received <= objects[p].length
      /\ \A r \in Requests : at[r] = "landing" =>
           objects[writer[r].of].received < objects[writer[r].of].length
  BY DEF BInv, SendersAlone, OneSenderAtATime
<1>9. SendersAlone'
  <2>1. \A r \in DOMAIN writer' : r \in DOMAIN writer /\ writer[r].of # o
    BY <1>2, <1>6, <1>8
  <2>2. \A r, s \in DOMAIN writer' : writer'[r].of = writer'[s].of => r = s
    BY <1>6, <1>8
  <2>3. \A r \in DOMAIN writer' : objects'[writer'[r].of].writing
    BY <1>4, <1>6, <1>7, <1>8, <2>1
  <2>4. \A p \in DOMAIN objects' : objects'[p].received <= objects'[p].length
    BY <1>4, <1>8
  <2>5. \A n \in DOMAIN entries' : ~objects'[entries'[n]].gone
    BY <1>1 DEF Typed, ObjectsTyped
  <2>6. ASSUME NEW r \in Requests, at'[r] = "landing"
        PROVE  objects'[writer'[r].of].received < objects'[writer'[r].of].length
    <3>1. at[r] = "landing" /\ r # q
      BY <1>5, <2>6
    <3>2. r \in DOMAIN writer'
      BY <1>6, <3>1, BTyped DEF Typed, RequestsTyped, RequestTyped, Sending, Opened
    <3> QED
      BY <1>4, <1>6, <1>7, <1>8, <2>1, <3>1, <3>2
  <2> QED
    BY <2>2, <2>3, <2>4, <2>5, <2>6 DEF SendersAlone, OneSenderAtATime
<1>10. ReadersQuiet
  <2>1. \A p \in DOMAIN objects : objects[p].received \in Nat
    BY BTyped DEF Typed, ObjectsTyped, Objects
  <2>2. \A r \in Requests :
          at[r] \in Reading => r \in DOMAIN reader /\ reader[r].of \in DOMAIN objects
    BY BTyped DEF Typed, RequestsTyped, RequestTyped
  <2> QED
    BY <1>0, <1>4, <1>5, <2>1, <2>2 DEF ReadersQuiet, Reading
<1>11. FilesQuiet
  <2>1. MakersStay /\ \A m \in Requests : (Maker(m)' => Maker(m)) /\ Arrived(m)' = Arrived(m)
    <3>1. /\ \A p \in DOMAIN objects :
               objects'[p].name = objects[p].name /\ objects'[p].received = objects[p].received
          /\ \A m \in Requests :
               /\ at'[m] \in {"recording", "unrecorded"} <=> at[m] \in {"recording", "unrecorded"}
               /\ at[m] \in {"recording", "unrecorded"} => call'[m] = call[m]
      BY <1>0, <1>4, <1>5
    <3> QED
      BY <1>4, <3>1, MakersAsWere
  <2>2. \A r \in DOMAIN handle' : writer'[r] = writer[r]
    BY <1>6, BTyped DEF Typed, RequestsTyped, RequestTyped, Sending
  <2> QED
    BY <1>0, <1>4, <1>6, <2>1, <2>2, BTyped DEF FilesQuiet
<1>12. HeldQuiet
  <2>1. sweeper.at = "removing" => sweeper'.at = "removing" /\ sweeper'.name = sweeper.name
    BY <1>3, BTyped, TouchTyped DEF Typed
  <2> QED
    BY <1>0, <1>5, <2>1 DEF HeldQuiet
<1>13. FilesAreHeld'
  BY <1>12, HeldKeep DEF BInv
<1> QED
  BY <1>1, <1>9, <1>10, <1>11, <1>13, SenderKeeps

LEMMA CloseAppendKeeps ==
  ASSUME BInv, NEW q \in Requests, CloseAppend(q)
  PROVE  BInv'
<1>1. /\ at[q] \in Sending
      /\ UNCHANGED <<entries, files, contents, directories, stuck, call, reader, serving>>
      /\ DOMAIN writer' = DOMAIN writer \ {q} /\ \A r \in DOMAIN writer' : writer'[r] = writer[r]
      /\ DOMAIN handle' = DOMAIN handle \ {q} /\ \A r \in DOMAIN handle' : handle'[r] = handle[r]
  BY DEF CloseAppend, Sending, Opened, disk, MapDelete, Restrict
<1>2. CASE Ends(q) /\ UNCHANGED <<objects, sweeper>>
  BY <1>1, <1>2, SenderLeavesQuietly DEF Ends
<1>3. CASE Leaves(q, writer[q].of)
  BY <1>3, ClosedKeeps
<1> QED
  BY <1>2, <1>3 DEF CloseAppend, Leaves

\* A file that is made, or found and emptied: the name has a maker more than before.
LEMMA MakeFileKeeps ==
  ASSUME BInv, NEW q \in Requests, MakeFile(q)
  PROVE  BInv'
<1> DEFINE n == call[q].name
<1>0. /\ at[q] = "making file"
      /\ UNCHANGED <<entries, objects, directories, writer, handle, reader, sweeper, serving>>
  BY DEF MakeFile, store
<1>1. Typed'
  BY BTyped, MakeFileTyped
<1>2. q \notin DOMAIN objects /\ q \in DOMAIN call /\ n \in Names
  BY <1>0, BTyped DEF Typed, RequestsTyped, RequestTyped, Making
<1>3. CASE Ends(q) /\ call' = MapDelete(call, {q}) /\ UNCHANGED <<files, contents, stuck>>
  <2>1. at'[q] = "answered" /\ \A r \in Requests \ {q} : at'[r] = at[r]
    BY <1>3, BTyped, AtMoves DEF Ends
  <2>2. \A r \in Requests \ {q} : r \in DOMAIN call => call'[r] = call[r]
    BY <1>3 DEF MapDelete, Restrict
  <2>3. /\ FilesQuiet /\ HeldQuiet /\ SendersQuiet /\ ReadersQuiet
    BY <1>0, <1>3, <2>1, <2>2, BTyped, StillQuiet DEF store
  <2> QED
    BY <1>1, <2>3, QuietKeeps
<1>4. CASE /\ \/ GoesTo(q, "recording") /\ stuck' = stuck \ {n}
              \/ GoesTo(q, "unrecorded") /\ stuck' = stuck \cup {n}
           /\ UNCHANGED call
           /\ IF n \in DOMAIN files
              THEN contents' = [contents EXCEPT ![files[n]] = <<>>] /\ UNCHANGED files
              ELSE contents' = MapSet(contents, q, <<>>) /\ files' = MapSet(files, n, q)
  <2>1. /\ at'[q] \in {"recording", "unrecorded"} /\ (at'[q] = "recording" \/ n \in stuck')
        /\ \A r \in Requests \ {q} : at'[r] = at[r]
        /\ stuck' \subseteq Names /\ \A f \in stuck : f # n => f \in stuck'
    <3>1. CASE GoesTo(q, "recording") /\ stuck' = stuck \ {n}
      <4>1. at'[q] = "recording" /\ \A r \in Requests \ {q} : at'[r] = at[r]
        BY <3>1, BTyped, AtMoves
      <4> QED
        BY <3>1, <4>1, BTyped
    <3>2. CASE GoesTo(q, "unrecorded") /\ stuck' = stuck \cup {n}
      <4>1. at'[q] = "unrecorded" /\ \A r \in Requests \ {q} : at'[r] = at[r]
        BY <3>2, BTyped, AtMoves
      <4> QED
        BY <1>2, <3>2, <4>1, BTyped
    <3> QED
      BY <1>4, <3>1, <3>2
  <2>2. ~Maker(q) /\ Maker(q)' /\ NameOf(q)' = n
    BY <1>0, <1>2, <1>4, <2>1 DEF Maker, NameOf
  <2>3. MakersStay /\ \A m \in Requests \ {q} : Maker(m)' => Maker(m)
    BY <1>0, <1>4, <2>1, <2>2 DEF MakersStay, Maker, NameOf
  <2>4. \A m \in Requests : Arrived(m)' = Arrived(m)
    BY <1>0 DEF Arrived
  <2>5. \A f \in DOMAIN files :
          /\ files[f] \in DOMAIN contents /\ files[f] \in Requests
          /\ Maker(files[f]) /\ NameOf(files[f]) = f
    BY BTyped DEF FilesTyped
  <2>6. n \in DOMAIN files =>
          /\ files' = files /\ DOMAIN contents' = DOMAIN contents /\ contents'[files[n]] = <<>>
          /\ \A m \in DOMAIN contents : m # files[n] => contents'[m] = contents[m]
    BY <1>4, <2>5
  <2>7. n \notin DOMAIN files =>
          /\ DOMAIN files' = DOMAIN files \cup {n} /\ files'[n] = q
          /\ \A f \in DOMAIN files : files'[f] = files[f]
          /\ DOMAIN contents' = DOMAIN contents \cup {q} /\ contents'[q] = <<>>
          /\ \A m \in DOMAIN contents : m # q => contents'[m] = contents[m]
    BY <1>4 DEF MapSet
  <2>8. contents' \in [DOMAIN contents' -> Seq(Chunks)]
    <3>1. contents \in [DOMAIN contents -> Seq(Chunks)]
      BY BTyped DEF FilesTyped
    <3>2. <<>> \in Seq(Chunks)
      OBVIOUS
    <3>3. CASE n \in DOMAIN files
      BY <1>4, <3>1, <3>2, <3>3
    <3>4. CASE n \notin DOMAIN files
      BY <1>4, <3>1, <3>2, <3>4 DEF MapSet
    <3> QED
      BY <3>3, <3>4
  <2>9. FilesTyped'
    <3>1. /\ DOMAIN contents' \subseteq Requests /\ DOMAIN files' \subseteq Names
          /\ directories' \subseteq Projects /\ stuck' \subseteq Names
      BY <1>0, <1>2, <2>1, <2>6, <2>7, BTyped DEF FilesTyped
    <3>2. ASSUME NEW f \in DOMAIN files'
          PROVE  files'[f] \in DOMAIN contents' /\ Maker(files[f])' /\ NameOf(files[f])' = f
      <4>1. CASE f \in DOMAIN files
        <5>1. PICK m \in Requests : m = files[f]
          BY <2>5, <4>1
        <5>2. m \in DOMAIN contents /\ Maker(m)' /\ NameOf(m)' = f
          BY <2>3, <2>5, <4>1, <5>1 DEF MakersStay
        <5>3. files'[f] = m /\ m \in DOMAIN contents'
          BY <2>6, <2>7, <4>1, <5>1, <5>2
        <5> QED
          BY <5>2, <5>3 DEF Maker, NameOf
      <4>2. CASE f \notin DOMAIN files
        <5>1. f = n /\ files'[f] = q /\ q \in DOMAIN contents'
          BY <2>6, <2>7, <4>2
        <5> QED
          BY <2>2, <5>1 DEF Maker, NameOf
      <4> QED
        BY <4>1, <4>2
    <3>3. ASSUME NEW r \in DOMAIN handle'
          PROVE  /\ handle'[r] \in DOMAIN contents' /\ Maker(handle[r])'
                 /\ NameOf(handle[r])' = objects'[writer'[r].of].name
      <4>1. PICK m \in Requests : m = handle[r] /\ r \in DOMAIN handle
        BY <1>0, BTyped DEF FilesTyped
      <4>2. m \in DOMAIN contents /\ Maker(m) /\ NameOf(m) = objects[writer[r].of].name
        BY <4>1, BTyped DEF FilesTyped
      <4>3. Maker(m)' /\ NameOf(m)' = objects[writer[r].of].name /\ m \in DOMAIN contents'
        BY <2>3, <2>6, <2>7, <4>2 DEF MakersStay
      <4> QED
        BY <1>0, <4>1, <4>3 DEF Maker, NameOf
    <3> QED
      BY <2>8, <3>1, <3>2, <3>3 DEF FilesTyped
  <2>10. ASSUME NEW m \in Requests, Sole(m)'
         PROVE  /\ m \in DOMAIN contents' /\ Len(contents'[m]) = Arrived(m)'
                /\ \A k \in 1..Arrived(m)' : contents'[m][k] = <<objects'[m].digest, k>>
    <3>1. CASE m = q
      <4>1. n \notin DOMAIN files
        <5> SUFFICES ASSUME n \in DOMAIN files PROVE FALSE
          OBVIOUS
        <5>1. PICK f \in Requests : f = files[n] /\ Maker(f) /\ NameOf(f) = n
          BY <2>5
        <5>2. f # q /\ Maker(f)' /\ NameOf(f)' = n
          BY <2>2, <2>3, <5>1 DEF MakersStay
        <5> QED
          BY <2>2, <2>10, <3>1, <5>2 DEF Sole
      <4>2. Arrived(m)' = 0
        BY <1>0, <1>2, <3>1 DEF Arrived
      <4> QED
        BY <2>7, <3>1, <4>1, <4>2
    <3>2. CASE m # q
      <4>1. Maker(m)
        BY <2>3, <2>10, <3>2 DEF Sole
      <4>2. Sole(m)
        BY <2>3, <2>10, <4>1, SoleBefore
      <4>3. ~(n \in DOMAIN files /\ m = files[n])
        <5> SUFFICES ASSUME n \in DOMAIN files, m = files[n] PROVE FALSE
          OBVIOUS
        <5>1. NameOf(m) = n
          BY <2>5
        <5>2. NameOf(m)' = n
          BY <2>3, <4>1, <5>1 DEF MakersStay
        <5> QED
          BY <2>2, <2>10, <3>2, <5>2 DEF Sole
      <4>4. /\ m \in DOMAIN contents /\ Len(contents[m]) = Arrived(m)
            /\ \A k \in 1..Arrived(m) : contents[m][k] = <<objects[m].digest, k>>
        BY <4>2 DEF BInv, FilesHoldIt
      <4>5. m \in DOMAIN contents' /\ contents'[m] = contents[m]
        BY <2>6, <2>7, <3>2, <4>3, <4>4
      <4> QED
        BY <1>0, <2>4, <4>4, <4>5
    <3> QED
      BY <3>1, <3>2
  <2>11. FilesHoldIt'
    <3>1. /\ \A o \in DOMAIN objects' :
               \E c \in Sends[o] :
                 c.verb = "POST" /\ c.name = objects'[o].name /\ c.digest = objects'[o].digest
          /\ OneFileToAName =>
               \A r \in DOMAIN writer' : writer'[r].digest = objects'[writer'[r].of].digest
      BY <1>0 DEF BInv, FilesHoldIt
    <3> QED
      BY <2>10, <3>1 DEF FilesHoldIt
  <2>12. SendersQuiet /\ ReadersQuiet
    <3>1. \A p \in DOMAIN objects : objects[p].received \in Nat
      BY BTyped DEF Typed, ObjectsTyped, Objects
    <3>2. SendersQuiet
      BY <1>0, <2>1 DEF SendersQuiet
    <3>3. \A r \in Requests : at'[r] \in {"reading", "parked"} => at'[r] = at[r]
      BY <2>1
    <3>4. ReadersQuiet
      <4>1. reader' = reader /\ objects' = objects
        BY <1>0
      <4>2. \A p \in DOMAIN objects : objects[p].received <= objects[p].received
        BY <3>1
      <4> QED
        BY <3>3, <4>1, <4>2 DEF ReadersQuiet
    <3> QED
      BY <3>2, <3>4
  <2>13. FilesAreHeld'
    <3> SUFFICES ASSUME serving', NEW f \in DOMAIN files'
                 PROVE  \/ f \in DOMAIN entries' \cup stuck'
                        \/ \E r \in Requests : at'[r] \in {"recording", "removing"} /\ call'[r].name = f
                        \/ sweeper'.at = "removing" /\ sweeper'.name = f
      BY DEF FilesAreHeld
    <3>1. CASE f = n
      BY <1>2, <1>4, <2>1, <3>1
    <3>2. CASE f # n
      <4>1. f \in DOMAIN files
        BY <2>6, <2>7, <3>2
      <4>2. \/ f \in DOMAIN entries \cup stuck
            \/ \E r \in Requests : at[r] \in {"recording", "removing"} /\ call[r].name = f
            \/ sweeper.at = "removing" /\ sweeper.name = f
        BY <1>0, <4>1 DEF BInv, FilesAreHeld
      <4> QED
        BY <1>0, <1>4, <2>1, <4>2
    <3> QED
      BY <3>1, <3>2
  <2>14. ReadersHaveIt'
    BY <1>0, <2>3, BTyped, ReadersStillHaveIt DEF BInv
  <2>15. SendersAlone' /\ ReadersBehind'
    BY <1>1, <2>12, BTyped, SendersKeep, ReadersKeep DEF BInv
  <2> QED
    BY <1>1, <2>9, <2>11, <2>13, <2>14, <2>15 DEF BInv, BTypeOK, Typed
<1> QED
  BY <1>3, <1>4 DEF MakeFile

\* What a chunk leaves of the file it is written to.
LEMMA WrittenAt ==
  ASSUME NEW chunks \in Seq(Chunks), NEW position \in Nat, NEW chunk \in Chunks
  PROVE  /\ Written(chunks, position, chunk) \in Seq(Chunks)
         /\ Len(chunks) = position =>
              /\ Len(Written(chunks, position, chunk)) = position + 1
              /\ Written(chunks, position, chunk)[position + 1] = chunk
              /\ \A k \in 1..position : Written(chunks, position, chunk)[k] = chunks[k]
<1> DEFINE m == Max({Len(chunks), position + 1})
           w(k) == IF k = position + 1 THEN chunk ELSE IF k <= Len(chunks) THEN chunks[k] ELSE <<>>
<1>1. Len(chunks) \in Nat
  OBVIOUS
<1>2. m \in Nat /\ m >= position + 1 /\ (Len(chunks) = position => m = position + 1)
  BY <1>1 DEF Max
<1> HIDE DEF m
<1>3. Written(chunks, position, chunk) = [k \in 1..m |-> w(k)]
  BY DEF Written, m
<1>4. \A k \in 1..m : w(k) \in Chunks
  BY <1>1, <1>2 DEF Chunks
<1>5. [k \in 1..m |-> w(k)] \in Seq(Chunks) /\ Len([k \in 1..m |-> w(k)]) = m
  <2> HIDE DEF w
  <2>1. [k \in 1..m |-> w(k)] \in [1..m -> Chunks]
    BY <1>4
  <2> QED
    BY <1>2, <2>1
<1>6. position + 1 \in 1..m /\ \A k \in 1..position : k \in 1..m /\ k # position + 1
  BY <1>2
<1> QED
  BY <1>1, <1>2, <1>3, <1>5, <1>6

\* A chunk lands where its object ends, and in nobody else's file.
LEMMA LandKeeps ==
  ASSUME BInv, NEW q \in Requests, Land(q)
  PROVE  BInv'
<1>0. /\ at[q] = "landing"
      /\ UNCHANGED <<entries, files, directories, stuck, call, writer, handle, reader, serving>>
  BY DEF Land, bound
<1>1. Typed'
  BY BTyped, LandTyped
<1>2. PICK o \in DOMAIN objects : o = writer[q].of /\ q \in DOMAIN writer /\ q \in DOMAIN handle
  BY <1>0, BTyped DEF Typed, RequestsTyped, RequestTyped, Sending, Opened
<1> DEFINE position == objects[o].received
<1>3. /\ objects' = [objects EXCEPT ![o].received = @ + 1] /\ Touch(o)
      /\ at' = Waking(o, [at EXCEPT ![q] = "streaming"])
      /\ contents' = [contents EXCEPT ![handle[q]] =
                        Written(@, position, <<writer[q].digest, position + 1>>)]
  BY <1>2 DEF Land
<1>4. PICK h \in Requests : h = handle[q]
  BY <1>2, BTyped DEF FilesTyped
<1>5. h \in DOMAIN contents /\ Maker(h) /\ NameOf(h) = objects[o].name
  BY <1>2, <1>4, BTyped DEF FilesTyped
<1>6. /\ objects[o] \in Objects /\ position \in Nat /\ o \in Requests
      /\ OneFileToAName => writer[q].digest = objects[o].digest
      /\ writer[q].digest \in Digests
  BY <1>2, BTyped
     DEF Typed, ObjectsTyped, Objects, RequestsTyped, RequestTyped, Writers, BInv, FilesHoldIt
<1>7. /\ DOMAIN objects' = DOMAIN objects /\ objects'[o].received = position + 1
      /\ \A p \in DOMAIN objects : p # o => objects'[p] = objects[p]
      /\ objects'[o].name = objects[o].name /\ objects'[o].length = objects[o].length
      /\ objects'[o].digest = objects[o].digest
      /\ objects'[o].writing = objects[o].writing /\ objects'[o].gone = objects[o].gone
  BY <1>3, <1>6 DEF Objects
<1>8. /\ at'[q] = "streaming"
      /\ \A r \in Requests \ {q} :
           \/ at[r] = "parked" /\ reader[r].of = o /\ at'[r] = "woken"
           \/ at'[r] = at[r] /\ ~(at[r] = "parked" /\ reader[r].of = o)
  <2>1. PICK P \in [Requests -> Places] : P = [at EXCEPT ![q] = "streaming"]
    BY BTyped DEF Typed, RequestsTyped, Places, Sending, Opened
  <2>2. at' = Waking(o, P)
    BY <1>3, <2>1
  <2>3. \A r \in Requests :
          \/ P[r] = "parked" /\ reader[r].of = o /\ at'[r] = "woken"
          \/ at'[r] = P[r] /\ ~(P[r] = "parked" /\ reader[r].of = o)
    BY <2>2, WakingTyped
  <2> QED
    BY <2>1, <2>3, BTyped DEF Typed, RequestsTyped
<1>9. /\ \A r \in DOMAIN writer : writer[r].of \in DOMAIN objects
      /\ \A r \in DOMAIN handle : r \in DOMAIN writer
      /\ \A p \in DOMAIN objects : objects[p].received \in Nat
  BY BTyped DEF Typed, RequestsTyped, RequestTyped, Sending, ObjectsTyped, Objects
<1>10. /\ \A r, s \in DOMAIN writer : writer[r].of = writer[s].of => r = s
       /\ \A r \in DOMAIN writer : objects[writer[r].of].writing
       /\ \A p \in DOMAIN objects : objects[p].received <= objects[p].length
       /\ \A r \in Requests : at[r] = "landing" =>
            objects[writer[r].of].received < objects[writer[r].of].length
  BY DEF BInv, SendersAlone, OneSenderAtATime
<1>11. SendersAlone'
  <2>1. \A r \in DOMAIN writer' : objects'[writer'[r].of].writing
    BY <1>0, <1>7, <1>9, <1>10
  <2>2. \A p \in DOMAIN objects' : objects'[p].received <= objects'[p].length
    <3>1. objects[o].received < objects[o].length /\ objects[o].length \in Nat
      BY <1>0, <1>2, <1>6, <1>10 DEF Objects
    <3> QED
      BY <1>6, <1>7, <1>10, <3>1
  <2>3. \A n \in DOMAIN entries' : ~objects'[entries'[n]].gone
    BY <1>1 DEF Typed, ObjectsTyped
  <2>4. ASSUME NEW r \in Requests, at'[r] = "landing"
        PROVE  objects'[writer'[r].of].received < objects'[writer'[r].of].length
    <3>1. at[r] = "landing" /\ r # q
      BY <1>8, <2>4
    <3>2. r \in DOMAIN writer /\ writer[r].of # o
      BY <1>2, <1>10, <3>1, BTyped DEF Typed, RequestsTyped, RequestTyped, Sending, Opened
    <3> QED
      BY <1>0, <1>7, <1>9, <1>10, <3>1, <3>2
  <2> QED
    BY <1>0, <1>10, <2>1, <2>2, <2>3, <2>4 DEF SendersAlone, OneSenderAtATime
<1>12. ReadersQuiet
  <2>1. \A r \in Requests :
          at[r] \in Reading => r \in DOMAIN reader /\ reader[r].of \in DOMAIN objects
    BY BTyped DEF Typed, RequestsTyped, RequestTyped
  <2>2. \A p \in DOMAIN objects :
          objects'[p].length = objects[p].length /\ objects[p].received <= objects'[p].received
    BY <1>6, <1>7, <1>9
  <2>3. ASSUME NEW r \in Requests, at'[r] = "parked"
        PROVE  /\ at[r] = "parked"
               /\ objects'[reader[r].of].gone = objects[reader[r].of].gone
               /\ objects'[reader[r].of].received = objects[reader[r].of].received
    <3>1. at[r] = "parked" /\ reader[r].of # o
      BY <1>8, <2>3
    <3> QED
      BY <1>7, <2>1, <3>1 DEF Reading
  <2>4. \A r \in Requests : at'[r] = "reading" => at[r] = "reading"
    BY <1>8
  <2> QED
    BY <1>0, <2>2, <2>3, <2>4 DEF ReadersQuiet
<1>13. MakersStay /\ \A m \in Requests : Maker(m)' => Maker(m)
  <2>1. \A m \in Requests : at'[m] \in {"recording", "unrecorded"} <=> at[m] \in {"recording", "unrecorded"}
    BY <1>0, <1>8
  <2>2. \A p \in DOMAIN objects : objects'[p].name = objects[p].name
    BY <1>7
  <2> QED
    BY <1>0, <1>7, <2>1, <2>2 DEF MakersStay, Maker, NameOf
<1>14. PICK chunks \in Seq(Chunks), pos \in Nat, chunk \in Chunks :
         /\ chunks = contents[h] /\ pos = position
         /\ chunk = <<writer[q].digest, position + 1>>
         /\ contents' = [contents EXCEPT ![h] = Written(chunks, pos, chunk)]
  <2>1. contents[h] \in Seq(Chunks) /\ <<writer[q].digest, position + 1>> \in Chunks
    BY <1>5, <1>6, BTyped DEF FilesTyped, Chunks
  <2> QED
    BY <1>3, <1>4, <1>6, <2>1
<1>15. /\ contents' \in [DOMAIN contents -> Seq(Chunks)]
       /\ \A m \in DOMAIN contents : m # h => contents'[m] = contents[m]
       /\ contents'[h] = Written(chunks, pos, chunk)
  <2>1. contents \in [DOMAIN contents -> Seq(Chunks)]
    BY BTyped DEF FilesTyped
  <2>2. Written(chunks, pos, chunk) \in Seq(Chunks)
    BY WrittenAt
  <2> QED
    BY <1>5, <1>14, <2>1, <2>2
<1>16. FilesTyped'
  <2>1. /\ contents' \in [DOMAIN contents' -> Seq(Chunks)] /\ DOMAIN contents' \subseteq Requests
        /\ DOMAIN files' \subseteq Names /\ directories' \subseteq Projects
        /\ stuck' \subseteq Names
        /\ DOMAIN contents' = DOMAIN contents
    BY <1>0, <1>15, BTyped DEF FilesTyped
  <2>2. ASSUME NEW n \in DOMAIN files'
        PROVE  files'[n] \in DOMAIN contents' /\ Maker(files[n])' /\ NameOf(files[n])' = n
    <3>1. PICK m \in Requests : m = files[n]
      BY <1>0, BTyped DEF FilesTyped
    <3>2. m \in DOMAIN contents /\ Maker(m) /\ NameOf(m) = n
      BY <1>0, <3>1, BTyped DEF FilesTyped
    <3>3. Maker(m)' /\ NameOf(m)' = n
      BY <1>13, <3>2 DEF MakersStay
    <3> QED
      BY <1>0, <2>1, <3>1, <3>2, <3>3 DEF Maker, NameOf
  <2>3. ASSUME NEW r \in DOMAIN handle'
        PROVE  /\ handle'[r] \in DOMAIN contents' /\ Maker(handle[r])'
               /\ NameOf(handle[r])' = objects'[writer'[r].of].name
    <3>1. PICK m \in Requests : m = handle[r] /\ r \in DOMAIN handle
      BY <1>0, BTyped DEF FilesTyped
    <3>2. m \in DOMAIN contents /\ Maker(m) /\ NameOf(m) = objects[writer[r].of].name
      BY <3>1, BTyped DEF FilesTyped
    <3>3. Maker(m)' /\ NameOf(m)' = objects[writer[r].of].name
      BY <1>13, <3>2 DEF MakersStay
    <3>4. objects'[writer[r].of].name = objects[writer[r].of].name
      BY <1>7, <1>9, <3>1
    <3> QED
      BY <1>0, <2>1, <3>1, <3>2, <3>3, <3>4 DEF Maker, NameOf
  <2> QED
    BY <2>1, <2>2, <2>3 DEF FilesTyped
<1>17. ASSUME NEW m \in Requests, Sole(m)'
       PROVE  /\ m \in DOMAIN contents' /\ Len(contents'[m]) = Arrived(m)'
              /\ \A k \in 1..Arrived(m)' : contents'[m][k] = <<objects'[m].digest, k>>
  <2>1. Maker(m)
    BY <1>13, <1>17 DEF Sole
  <2>2. Sole(m)
    BY <1>13, <1>17, <2>1, SoleBefore
  <2>3. /\ m \in DOMAIN contents /\ Len(contents[m]) = Arrived(m)
        /\ \A k \in 1..Arrived(m) : contents[m][k] = <<objects[m].digest, k>>
    BY <2>2 DEF BInv, FilesHoldIt
  <2>4. m = h <=> m = o
    <3>1. Maker(o) /\ NameOf(o) = objects[o].name
      BY DEF Maker, NameOf
    <3> QED
      BY <1>5, <1>6, <2>2, <3>1 DEF Sole
  <2>5. CASE m = o
    <3>1. Arrived(m) = position /\ Arrived(m)' = position + 1
      BY <1>7, <2>5 DEF Arrived
    <3>3. Len(contents[m]) = position
      BY <2>3, <3>1
    <3>4. m = h
      BY <2>4, <2>5
    <3>5. /\ Len(contents'[m]) = position + 1 /\ contents'[m][position + 1] = chunk
          /\ \A k \in 1..position : contents'[m][k] = contents[m][k]
      <4>1. /\ Len(Written(chunks, pos, chunk)) = pos + 1
            /\ Written(chunks, pos, chunk)[pos + 1] = chunk
            /\ \A k \in 1..pos : Written(chunks, pos, chunk)[k] = chunks[k]
        <5>1. Len(chunks) = pos
          BY <1>14, <3>3, <3>4
        <5> QED
          BY <5>1, WrittenAt
      <4>2. pos = position /\ chunks = contents[m]
        BY <1>14, <3>4
      <4>3. contents'[m] = Written(chunks, pos, chunk)
        BY <1>15, <3>4, Zenon
      <4> HIDE DEF position
      <4>4. PICK w : w = Written(chunks, pos, chunk) /\ contents'[m] = w
        BY <4>3, Zenon
      <4>5. Len(w) = pos + 1 /\ w[pos + 1] = chunk /\ \A k \in 1..pos : w[k] = chunks[k]
        BY <4>1, <4>4, Zenon
      <4> QED
        BY <4>2, <4>4, <4>5
    <3>6. ASSUME NEW k \in 1..(position + 1)
          PROVE  contents'[m][k] = <<objects[o].digest, k>>
      <4>1. CASE k = position + 1
        BY <1>6, <1>14, <2>2, <3>5, <4>1 DEF Sole
      <4>2. CASE k # position + 1
        <5>1. k \in 1..position
          BY <1>6, <4>2
        <5> QED
          BY <2>3, <2>5, <3>1, <3>5, <5>1
      <4> QED
        BY <4>1, <4>2
    <3> QED
      BY <1>7, <1>15, <2>3, <2>5, <3>1, <3>5, <3>6
  <2>6. CASE m # o
    <3>1. Arrived(m)' = Arrived(m)
      BY <1>7, <2>6 DEF Arrived
    <3>2. m \in DOMAIN contents' /\ contents'[m] = contents[m]
      BY <1>15, <2>3, <2>4, <2>6
    <3>3. CASE m \in DOMAIN objects
      BY <1>7, <2>3, <2>6, <3>1, <3>2, <3>3
    <3>4. CASE m \notin DOMAIN objects
      <4>1. Arrived(m) = 0
        BY <3>4 DEF Arrived
      <4> QED
        BY <2>3, <3>1, <3>2, <4>1
    <3> QED
      BY <3>3, <3>4
  <2> QED
    BY <2>5, <2>6
<1>18. FilesHoldIt'
  <2>1. \A p \in DOMAIN objects :
          objects'[p].name = objects[p].name /\ objects'[p].digest = objects[p].digest
    BY <1>7
  <2>2. /\ \A p \in DOMAIN objects' :
             \E c \in Sends[p] :
               c.verb = "POST" /\ c.name = objects'[p].name /\ c.digest = objects'[p].digest
        /\ OneFileToAName =>
             \A r \in DOMAIN writer' : writer'[r].digest = objects'[writer'[r].of].digest
    BY <1>0, <1>7, <1>9, <2>1 DEF BInv, FilesHoldIt
  <2> QED
    BY <1>17, <2>2 DEF FilesHoldIt
<1>19. ReadersHaveIt'
  <2>1. \A p \in DOMAIN objects : objects'[p].digest = objects[p].digest
    BY <1>7
  <2> QED
    BY <1>0, <1>13, <2>1, BTyped, ReadersStillHaveIt DEF BInv
<1>20. FilesAreHeld'
  <2>1. sweeper.at = "removing" => sweeper'.at = "removing" /\ sweeper'.name = sweeper.name
    BY <1>3, BTyped, TouchTyped DEF Typed
  <2>2. HeldQuiet
    BY <1>0, <1>8, <2>1 DEF HeldQuiet
  <2> QED
    BY <2>2, HeldKeep DEF BInv
<1>21. ReadersBehind'
  BY <1>1, <1>12, BTyped, ReadersKeep DEF BInv
<1> QED
  BY <1>1, <1>11, <1>16, <1>18, <1>19, <1>20, <1>21 DEF BInv, BTypeOK, Typed

-----------------------------------------------------------------------------
(* What follows for every behaviour.                                       *)

LEMMA BlobsStart ==
  ASSUME Init
  PROVE  BInv
<1>1. /\ DOMAIN entries = {} /\ DOMAIN objects = {} /\ DOMAIN files = {} /\ DOMAIN contents = {}
      /\ DOMAIN call = {} /\ DOMAIN writer = {} /\ DOMAIN handle = {} /\ DOMAIN reader = {}
      /\ directories = {} /\ stuck = {} /\ sweeper = Resting
      /\ at = [q \in Requests |-> "unsent"]
      /\ objects = <<>> /\ contents = <<>>
  BY DEF Init
<1>2. \A q \in Requests : at[q] = "unsent"
  BY <1>1
<1>3. \A q \in Requests : ~Maker(q)
  BY <1>1, <1>2 DEF Maker
<1>4. ObjectsTyped
  BY <1>1 DEF ObjectsTyped
<1>5. RequestsTyped
  <2>1. \A q \in Requests : RequestTyped(q)
    BY <1>1, <1>2 DEF RequestTyped, Places, Making, Sending, Opened, Reading
  <2>2. at \in [Requests -> Places]
    BY <1>1 DEF Places
  <2> QED
    BY <1>1, <2>1, <2>2 DEF RequestsTyped
<1>6. FilesTyped
  <2>1. contents \in [DOMAIN contents -> Seq(Chunks)]
    BY <1>1
  <2> QED
    BY <1>1, <2>1 DEF FilesTyped
<1>7. SendersAlone /\ ReadersBehind
  BY <1>1, <1>2 DEF SendersAlone, OneSenderAtATime, ReadersBehind, ReadersAreWoken
<1>8. FilesHoldIt /\ ReadersHaveIt /\ FilesAreHeld
  BY <1>1, <1>3 DEF FilesHoldIt, ReadersHaveIt, FilesAreHeld, Sole
<1>9. sweeper \in Sweepers
  BY <1>1 DEF Sweepers
<1> QED
  BY <1>4, <1>5, <1>6, <1>7, <1>8, <1>9 DEF BInv, BTypeOK

LEMMA BlobsStep ==
  ASSUME BInv, [Next]_vars
  PROVE  BInv'
<1>1. ASSUME NEW q \in Requests, NEW c \in Sends[q],
             ReserveAgain(q, c) \/ Reserve(q, c) \/ AppendTo(q, c) \/ Read(q, c) \/ Drop(q, c)
      PROVE  BInv'
  BY <1>1, ReserveAgainKeeps, ReserveKeeps, AppendToKeeps, ReadKeeps, DropKeeps
<1>2. ASSUME NEW q \in Requests,
             \/ MakeDirectory(q) \/ MakeFile(q) \/ Record(q)
             \/ OpenToAppend(q) \/ TakeChunk(q) \/ Land(q) \/ StopAppending(q) \/ CloseAppend(q)
      PROVE  BInv'
  BY <1>2, MakeDirectoryKeeps, MakeFileKeeps, RecordKeeps, OpenToAppendKeeps, TakeChunkKeeps,
     LandKeeps, StopAppendingKeeps, CloseAppendKeeps
<1>3. ASSUME NEW q \in Requests, ReadRange(q) \/ Resume(q) \/ Stall(q) \/ RemoveFile(q)
      PROVE  BInv'
  BY <1>3, ReadRangeKeeps, ResumeKeeps, StallKeeps, RemoveFileKeeps
<1>4. ASSUME NEW o \in Requests, SweepOne(o)
      PROVE  BInv'
  BY <1>4, SweepOneKeeps
<1>5. ASSUME \/ Sweep \/ SweepRemove \/ SweepDone \/ PruneRemove
             \/ \E p \in Projects : PruneLook(p)
      PROVE  BInv'
  BY <1>5, SweepKeeps
<1>6. CASE Close
  BY <1>6, CloseKeeps
<1>8. CASE SweepFails
  BY <1>8, SweepFailsKeeps
<1>7. CASE UNCHANGED vars
  <2>1. /\ UNCHANGED <<entries, objects, files, contents, directories, stuck, at, call, writer,
                       handle, reader, sweeper, serving>>
    BY <1>7 DEF vars, store, disk, bound
  <2> QED
    BY <2>1 DEF BInv, BTypeOK, ObjectsTyped, RequestsTyped, RequestTyped, FilesTyped, SendersAlone,
                OneSenderAtATime, ReadersBehind, ReadersAreWoken, FilesHoldIt, ReadersHaveIt, HasIt,
                FilesAreHeld, Maker, NameOf, Sole, Arrived
<1> QED
  BY <1>1, <1>2, <1>3, <1>4, <1>5, <1>6, <1>7, <1>8 DEF Next

\* A name that was reserved once has one maker.
LEMMA OnlyOneIsSole ==
  ASSUME OneFileToAName, Typed, NEW o \in DOMAIN objects, OnlyOne(o)
  PROVE  Sole(o)
BY DEF Typed, ObjectsTyped, OnlyOne, Sole, Maker, NameOf

(* Types, senders, readers, and all that is known of files, in every state *)
(* that is reached, with each request of the disk allowed to fail: what    *)
(* failed to be removed is nobody's entry, and what failed to be closed    *)
(* was never recorded.                                                     *)
THEOREM BlobsHold == Spec => []BInv
BY BlobsStart, BlobsStep, PTL DEF Spec

(* One sender at a time, no reader parked over what has arrived, and what  *)
(* a reader got is the file without a gap: append, read and their waiters  *)
(* (src/src/team/blobs.ts) under every interleaving at their awaits.  That *)
(* nobody sends another file to a name than the one it was reserved for is *)
(* the client's part: a digest is "carried for the receiver, never checked *)
(* here" (src/src/team/blobs.ts:106).                                      *)
THEOREM FilesAreWhole == ASSUME OneFileToAName PROVE Spec => []FilesArriveWhole
<1>1. BInv => FilesArriveWhole
  <2> SUFFICES ASSUME BInv PROVE FilesArriveWhole
    OBVIOUS
  <2>1. ReadersGetTheFile
    <3> SUFFICES ASSUME NEW q \in DOMAIN reader, OnlyOne(reader[q].of)
                 PROVE  /\ Len(reader[q].got) = reader[q].reached - reader[q].from
                        /\ \A k \in DOMAIN reader[q].got :
                             reader[q].got[k] =
                               <<objects[reader[q].of].digest, reader[q].from + k>>
      BY DEF ReadersGetTheFile
    <3>1. reader[q].of \in DOMAIN objects /\ reader[q] \in ReaderRecords
      BY BTyped DEF Typed, RequestsTyped, RequestTyped
    <3>2. reader[q].got \in Seq(Chunks)
      BY <3>1 DEF ReaderRecords
    <3>3. DOMAIN reader[q].got = 1..Len(reader[q].got)
      BY <3>2
    <3>4. Sole(reader[q].of)
      BY <3>1, BTyped, OnlyOneIsSole
    <3> QED
      BY <3>3, <3>4 DEF BInv, ReadersHaveIt, HasIt
  <2> QED
    BY <2>1 DEF BInv, SendersAlone, ReadersBehind, FilesArriveWhole
<1> QED
  BY <1>1, BlobsHold, PTL

(* While the store is open, every file on the disk is an entry's, or is    *)
(* somebody's who is about to record or to remove it, or is one that the   *)
(* disk kept: an rm, or the close of a new file, failed on it and nobody   *)
(* has reserved its name again or removed it since.  What prune, drop and  *)
(* the sweep leave behind (src/src/team/blobs.ts).                         *)
THEOREM NothingIsLeft == Spec => []NothingLeftOnDisk
<1>1. BInv => NothingLeftOnDisk
  BY DEF BInv, BTypeOK, FilesAreHeld, NothingLeftOnDisk, UnderWay, RequestsTyped, RequestTyped, Making
<1> QED
  BY <1>1, BlobsHold, PTL

=============================================================================
