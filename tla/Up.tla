--------------------------------- MODULE Up ---------------------------------
(***************************************************************************)
(* One run of `nlteam up` (src/src/up.ts), started by src/src/nlteam.ts:   *)
(* the steps that bring a server up, the wait, and what is taken down      *)
(* again on every way out.  The child it keeps alive is Supervisor's; the  *)
(* reader it starts is kept here as far as the database goes, and is       *)
(* modelled by itself in Readings.                                         *)
(***************************************************************************)
EXTENDS Supervisor, Sequences

CONSTANT MaxSessions   \* a bound on the sessions open at once

ASSUME UpAssumption == MaxSessions \in Nat

\* What up awaits in turn.
Identity == <<"database", "keys", "endpoint">>
Trust == <<"certificates", "supplied">>
Service == <<"blobs", "listener">>
Loreserver == <<"install", "notices", "verify", "config">>
Steps == Identity \o Trust \o Service \o Loreserver

\* Those that leave something open.
Held == {"database", "endpoint", "blobs", "listener"}

\* What its `finally` closes, in this order.
Closing == <<"endpoint", "listener", "sessions", "blobs", "readings", "database">>

VARIABLES
  place,       \* where up is
  todo,        \* what it has yet to bring up, or to close
  open,        \* what it holds open
  interrupted, \* whether the signal is aborted
  sessions,    \* WebSocket sessions on the listener
  reader,      \* what a pass of the reader awaits
  stopped,     \* `stopped` of the reader
  thrown       \* whether the reader has thrown where nobody catches it

upVars == <<place, todo, open, interrupted, sessions, reader, stopped, thrown>>
bootVars == <<supVars, upVars>>
rest == <<interrupted, sessions, reader, stopped, thrown>>

UpInit ==
  /\ SupInit
  /\ place = "coming" /\ todo = Steps /\ open = {}
  /\ interrupted = FALSE
  /\ sessions = 0
  /\ reader = "off" /\ stopped = FALSE /\ thrown = FALSE

\* A `try` that is left, one way or the other.
Leave == place' = "closing" /\ todo' = Closing

-----------------------------------------------------------------------------
(* Coming up.                                                              *)

StepDone ==
  /\ place = "coming"
  /\ todo' = Tail(todo)
  /\ place' = IF todo' = <<>> THEN "start" ELSE place
  /\ open' = open \cup ({Head(todo)} \cap Held)
  /\ UNCHANGED <<supVars, rest>>

\* lorelib's notices are caught where they fail.
StepFails ==
  /\ place = "coming" /\ Head(todo) # "notices"
  /\ Leave
  /\ UNCHANGED <<supVars, open, rest>>

\* Made once the configuration is written; up holds it from here on.
StartSupervised ==
  /\ place = "start"
  /\ \E spawns \in BOOLEAN :
       /\ SupStart(spawns)
       /\ place' = IF spawns THEN "health" ELSE "failed"
  /\ UNCHANGED <<todo, open, rest>>

\* The port is asked, and anything may be listening there.
HealthAnswers ==
  /\ place = "health" /\ ~gaveUp
  /\ place' = "running"
  /\ open' = open \cup {"readings"}
  /\ reader' = "opening"
  /\ UNCHANGED <<supVars, todo, interrupted, sessions, stopped, thrown>>

\* abandonReason, or thirty seconds; an interrupt is not asked about.
HealthFails ==
  /\ place = "health"
  /\ place' = "failed"
  /\ UNCHANGED <<supVars, todo, open, rest>>

Interrupt ==
  /\ ~interrupted /\ place # "ended"
  /\ interrupted' = TRUE
  /\ UNCHANGED <<supVars, place, todo, open, sessions, reader, stopped, thrown>>

-----------------------------------------------------------------------------
(* Going down.                                                             *)

\* Mutation: a run that fails leaves the child to itself.
UpStopOnlyWhenRunning ==
  \/ /\ place = "running" /\ (interrupted \/ gaveUp)
     /\ SupStop
     /\ place' = "stopping"
     /\ UNCHANGED <<todo, open, rest>>
  \/ /\ place = "failed"
     /\ place' = "stopping"
     /\ UNCHANGED <<supVars, todo, open, rest>>

\* Either the wait is over or something was thrown after the child was made.
UpStop ==
  /\ \/ place = "running" /\ (interrupted \/ gaveUp)
     \/ place = "failed"
  /\ SupStop
  /\ place' = "stopping"
  /\ UNCHANGED <<todo, open, rest>>

StopReturned ==
  /\ place = "stopping" /\ ~awaiting
  /\ Leave
  /\ UNCHANGED <<supVars, open, rest>>

\* A listener that closes takes its HTTP/2 with it, and waits for the rest.
CloseNext ==
  /\ place = "closing"
  /\ Head(todo) = "listener" => sessions = 0
  /\ todo' = Tail(todo)
  /\ place' = IF todo' = <<>> THEN "ended" ELSE place
  /\ open' = open \ {Head(todo)}
  /\ sessions' = IF Head(todo) = "sessions" THEN 0 ELSE sessions
  /\ stopped' = (stopped \/ (Head(todo) = "readings" /\ "readings" \in open))
  /\ UNCHANGED <<supVars, interrupted, reader, thrown>>

-----------------------------------------------------------------------------
(* What goes on beside it.                                                 *)

SessionOpens ==
  /\ "listener" \in open
  /\ place = "closing" => Head(todo) # "listener"
  /\ sessions < MaxSessions
  /\ sessions' = sessions + 1
  /\ UNCHANGED <<supVars, place, todo, open, interrupted, reader, stopped, thrown>>

SessionCloses ==
  /\ sessions > 0
  /\ sessions' = sessions - 1
  /\ UNCHANGED <<supVars, place, todo, open, interrupted, reader, stopped, thrown>>

\* A pass begins with the keys, at each interval until the reader is stopped.
PassBegins ==
  /\ reader = "between" /\ ~stopped /\ place # "ended"
  /\ reader' = "opening"
  /\ UNCHANGED <<supVars, place, todo, open, interrupted, sessions, stopped, thrown>>

\* It goes on to the list of projects, whatever has happened meanwhile.
ListProjects ==
  /\ reader = "opening"
  /\ \/ "database" \in open /\ reader' \in {"reading", "between"} /\ UNCHANGED thrown
     \/ "database" \notin open /\ reader' = "between" /\ thrown' = TRUE
  /\ UNCHANGED <<supVars, place, todo, open, interrupted, sessions, stopped>>

\* Every project after the first asks whether the reader was stopped.
ProjectRead ==
  /\ reader = "reading"
  /\ reader' \in IF stopped THEN {"between"} ELSE {"reading", "between"}
  /\ UNCHANGED <<supVars, place, todo, open, interrupted, sessions, stopped, thrown>>

Supervision == SupNext /\ UNCHANGED upVars

UpNext ==
  \/ StepDone \/ StepFails
  \/ StartSupervised
  \/ HealthAnswers \/ HealthFails
  \/ Interrupt
  \/ UpStop \/ StopReturned \/ CloseNext
  \/ SessionOpens \/ SessionCloses
  \/ PassBegins \/ ListProjects \/ ProjectRead
  \/ Supervision

-----------------------------------------------------------------------------
(* Properties.                                                             *)

\* Whatever ends a run - an interrupt, a step that fails, a health check that
\* never answers, a supervisor that gave up - no loreserver is left behind by
\* it, and none is still to be started.
NoServerLeftBehind == place \in {"closing", "ended"} => (~Running /\ ~timer)

\* A run that is interrupted, or whose loreserver is given up on, ends, if the
\* sessions held open to it go away.
UpEnds == []<>(sessions = 0) => ((interrupted \/ gaveUp) ~> (place = "ended"))

\* up.ts says of the reader that it is stopped before the database is closed
\* under it: then nothing is thrown out of a pass.
ReaderIsStoppedFirst == ~thrown
=============================================================================
