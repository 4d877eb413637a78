------------------------------ MODULE Readings ------------------------------
(***************************************************************************)
(* What a running server has read of the repositories of its projects      *)
(* (src/src/projects: refresh.ts, read.ts, cache.ts): one pass after       *)
(* another over all of them, each read through a checkout on disk that is  *)
(* cloned when there is none to be trusted, and pages of a history read    *)
(* out of the same checkouts when a client asks.  The process may die.     *)
(***************************************************************************)
EXTENDS Projects

CONSTANT MaxDeaths   \* a bound on the deaths of the process

ASSUME ReadingsAssumption == MaxDeaths \in Nat

VARIABLES
  readings,  \* what was read last, by id, and of which row
  wanted,    \* whether another pass is wanted
  drain,     \* where the one drain is
  listed,    \* rows the pass has yet to come to
  reading,   \* the row it is in
  inside,    \* ids somebody reads a checkout of
  pages,     \* ids a page of history is read of
  checkout,  \* the directory of each id
  ready,     \* the ids marked ready
  readingsStopped,
  owed,      \* whether a pass was asked for that has not begun
  deaths

diskVars == <<checkout, ready>>
passVars == <<drain, listed, reading>>
readingVars == <<readings, wanted, passVars, inside, pages, diskVars, readingsStopped, owed, deaths>>

Idle == [id |-> None]
NotRead == [gen |-> 0, of |-> None]

ReadingsInit ==
  /\ readings = [id \in Ids |-> NotRead]
  /\ wanted = FALSE /\ owed = FALSE /\ readingsStopped = FALSE /\ deaths = 0
  /\ drain = "idle" /\ listed = {} /\ reading = Idle
  /\ inside = {} /\ pages = {}
  /\ checkout = [id \in Ids |-> None] /\ ready = {}

\* request: a client's, the interval's, or that of start.
Request ==
  /\ ~readingsStopped
  /\ wanted' = TRUE /\ owed' = TRUE
  /\ UNCHANGED <<readings, passVars, inside, pages, diskVars, readingsStopped, deaths>>

\* drain, up to what a pass awaits first.  A request starts it at once.
DrainBegins ==
  /\ drain = "idle" /\ wanted /\ ~readingsStopped
  /\ wanted' = FALSE /\ owed' = FALSE
  /\ drain' = "opening"
  /\ UNCHANGED <<readings, listed, reading, inside, pages, diskVars, readingsStopped, deaths>>

Lists ==
  /\ drain = "opening"
  /\ listed' = projects /\ drain' = "passing"
  /\ UNCHANGED <<readings, wanted, reading, inside, pages, diskVars, readingsStopped, owed, deaths>>

\* Mutation: what was asked for meanwhile is forgotten with the pass.
PassEndsForgets ==
  /\ drain = "passing" /\ reading = Idle
  /\ listed = {} \/ readingsStopped
  /\ listed' = {} /\ drain' = "idle" /\ wanted' = FALSE
  /\ UNCHANGED <<readings, reading, inside, pages, diskVars, readingsStopped, owed, deaths>>

PassEnds ==
  /\ drain = "passing" /\ reading = Idle
  /\ listed = {} \/ readingsStopped
  /\ listed' = {} /\ drain' = "idle"
  /\ UNCHANGED <<readings, wanted, reading, inside, pages, diskVars, readingsStopped, owed, deaths>>

\* A project somebody is inside of is left for the next pass.
Turn(p) ==
  /\ drain = "passing" /\ reading = Idle /\ ~readingsStopped
  /\ p \in listed /\ listed' = listed \ {p}
  /\ \/ p.id \in inside /\ UNCHANGED <<inside, reading>>
     \/ /\ p.id \notin inside /\ inside' = inside \cup {p.id}
        /\ reading' = [id |-> p.id, gen |-> p.gen, step |-> "finding"]
  /\ UNCHANGED <<readings, wanted, drain, pages, diskVars, readingsStopped, owed, deaths>>

-----------------------------------------------------------------------------
(* ensureCheckout: each step ends in an await.                             *)

Step(from, to) == reading # Idle /\ reading.step = from /\ reading' = [reading EXCEPT !.step = to]
Dir == checkout[reading.id]
DirBecomes(state) == checkout' = [checkout EXCEPT ![reading.id] = state]
Elsewhere == UNCHANGED <<readings, wanted, drain, listed, inside, pages, readingsStopped, owed, deaths>>

\* A checkout is trusted that is marked, is there, and answers for a revision.
Finds ==
  /\ \/ reading.id \in ready /\ Dir # None /\ Step("finding", "walking")
     \/ Step("finding", "unmarking")
  /\ UNCHANGED diskVars /\ Elsewhere

\* Mutation: the mark is left where it is.
UnmarksNothing == Step("unmarking", "removing") /\ UNCHANGED diskVars /\ Elsewhere

Unmarks ==
  /\ Step("unmarking", "removing")
  /\ ready' = ready \ {reading.id}
  /\ UNCHANGED checkout /\ Elsewhere

\* rm, file by file, then mkdir.
Removes ==
  /\ \/ Step("removing", "removing") /\ Dir = "whole" /\ DirBecomes("partial")
     \/ Step("removing", "cloning") /\ DirBecomes(None)
  /\ UNCHANGED ready /\ Elsewhere

\* A clone that fails removes what it wrote.
Clones ==
  /\ \/ Step("cloning", "cloning") /\ Dir = None /\ DirBecomes("partial")
     \/ Step("cloning", "marking") /\ DirBecomes("whole")
     \/ Step("cloning", "failed") /\ DirBecomes(None)
  /\ UNCHANGED ready /\ Elsewhere

Marks ==
  /\ Step("marking", "walking")
  /\ ready' = ready \cup {reading.id}
  /\ UNCHANGED checkout /\ Elsewhere

\* readProject answers, or its failure is the answer.
Outcome == [gen |-> reading.gen, of |-> Dir]

\* Whether there is such a project any longer is not asked.
Reads ==
  /\ reading # Idle /\ reading.step \in {"walking", "failed"}
  /\ readings' = [readings EXCEPT ![reading.id] = Outcome]
  /\ inside' = inside \ {reading.id}
  /\ reading' = Idle
  /\ UNCHANGED <<wanted, drain, listed, pages, diskVars, readingsStopped, owed, deaths>>

-----------------------------------------------------------------------------
(* Beside the passes.                                                      *)

\* revisions: undefined at once for a project somebody is inside of.
PageBegins(id) ==
  /\ id \notin inside /\ \E p \in projects : p.id = id
  /\ inside' = inside \cup {id} /\ pages' = pages \cup {id}
  /\ UNCHANGED <<readings, wanted, passVars, diskVars, readingsStopped, owed, deaths>>

PageEnds(id) ==
  /\ id \in pages
  /\ inside' = inside \ {id} /\ pages' = pages \ {id}
  /\ UNCHANGED <<readings, wanted, passVars, diskVars, readingsStopped, owed, deaths>>

\* forget: the checkout is left alone.
DropReading(gone) == readings' = [id \in Ids |-> IF id \in gone THEN NotRead ELSE readings[id]]

\* projects.forget: the row, the reading, and a word to whoever has the list.
Forget(reference) ==
  /\ Found(reference) # {}
  /\ Forgotten(reference)
  /\ DropReading({p.id : p \in Found(reference)})
  /\ UNCHANGED <<made, asked, creating, answer, repos, reached, undone>>
  /\ UNCHANGED <<wanted, passVars, inside, pages, diskVars, readingsStopped, owed, deaths>>

Stop ==
  /\ ~readingsStopped /\ readingsStopped' = TRUE
  /\ UNCHANGED <<readings, wanted, passVars, inside, pages, diskVars, owed, deaths>>

\* The process dies and is started again: what is on disk stays.
ReadingsDie ==
  /\ deaths < MaxDeaths /\ deaths' = deaths + 1
  /\ readings' = [id \in Ids |-> NotRead]
  /\ drain' = "idle" /\ listed' = {} /\ reading' = Idle
  /\ inside' = {} /\ pages' = {}
  /\ wanted' = TRUE /\ owed' = TRUE /\ readingsStopped' = FALSE
  /\ creating' = [c \in Creates |-> IF creating[c] = "asking" THEN "lost" ELSE creating[c]]
  /\ UNCHANGED <<projects, made, asked, answer, repos, reached, undone, parted, diskVars>>

ReadingSteps ==
  \/ Finds \/ Unmarks \/ Removes \/ Clones \/ Marks \/ Reads

ReadingNext ==
  \/ Request \/ DrainBegins \/ Lists \/ PassEnds
  \/ \E p \in listed : Turn(p)
  \/ ReadingSteps
  \/ \E id \in Ids : PageBegins(id) \/ PageEnds(id)
  \/ Stop

-----------------------------------------------------------------------------
(* Properties.                                                             *)

\* A checkout that is marked ready is a whole one, wherever a process died:
\* half a clone that is trusted would fail to be read for ever.
ReadyIsWhole == \A id \in ready : checkout[id] = "whole"

\* A pass that was asked for begins, also if one was under way when it was.
EveryRequestIsRead == owed ~> (~owed \/ readingsStopped)

\* refresh.ts has a reading dropped lest it "outlive the row it belongs to, and
\* a repository registered again under the same id ... be answered for out of
\* what was read before it went away".
ReadingsAreOfTheirRow ==
  \A p \in projects : readings[p.id] # NotRead => readings[p.id].gen = p.gen
=============================================================================
