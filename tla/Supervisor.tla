----------------------------- MODULE Supervisor -----------------------------
(***************************************************************************)
(* Keeping one loreserver alive (src/src/loreserver/supervisor.ts): a      *)
(* child that exits is started again after a wait, unless it was asked to  *)
(* go or has gone too often, and a stop returns when it is really gone.    *)
(*                                                                         *)
(* 'spawn' or 'error' is emitted before anything else of the process runs, *)
(* so a launch is one step.                                                *)
(***************************************************************************)
EXTENDS Naturals

CONSTANT MaxRapidFailures   \* maximumRapidFailures

ASSUME SupervisorAssumption == MaxRapidFailures \in Nat \ {0}

VARIABLES
  child,     \* #child, and how firmly it has been told to go
  stopping,  \* #stopping
  failures,  \* #consecutiveFailures
  timer,     \* whether #restartTimer is set
  awaiting,  \* whether a stop awaits the exit of the child it found
  gaveUp,    \* whether `failed` is resolved
  log        \* whether #log is open

supVars == <<child, stopping, failures, timer, awaiting, gaveUp, log>>

Living == {"running", "asked", "killed"}
Running == child \in Living

SupInit ==
  /\ child = "none" /\ log = FALSE
  /\ stopping = FALSE /\ failures = 0
  /\ timer = FALSE /\ awaiting = FALSE /\ gaveUp = FALSE

GiveUp ==
  /\ stopping' = TRUE /\ gaveUp' = TRUE /\ log' = FALSE

\* start: the first launch that fails is thrown, and leaves the log open.
SupStart(spawns) ==
  /\ ~Running
  /\ stopping' = FALSE /\ failures' = 0 /\ log' = TRUE
  /\ child' = IF spawns THEN "running" ELSE "none"
  /\ UNCHANGED <<timer, awaiting, gaveUp>>

\* stop: there is a child to wait for, or nothing but the log to close.
SupStop ==
  /\ ~awaiting
  /\ stopping' = TRUE /\ timer' = FALSE
  /\ child' = IF Running THEN "asked" ELSE child
  /\ awaiting' = Running
  /\ log' = Running
  /\ UNCHANGED <<failures, gaveUp>>

\* Mutation: asking is all it does.
GraceEndsAsksAgain == awaiting /\ child = "asked" /\ UNCHANGED supVars

\* terminationGraceMs is over: SIGKILL.
GraceEnds ==
  /\ awaiting /\ child = "asked"
  /\ child' = "killed"
  /\ UNCHANGED <<stopping, failures, timer, awaiting, gaveUp, log>>

\* #afterChild: the stop that waits for it goes on and closes the log.
GoesAsAsked ==
  /\ Running /\ stopping
  /\ child' = "none" /\ awaiting' = FALSE
  /\ log' = (log /\ ~awaiting)
  /\ UNCHANGED <<stopping, failures, timer, gaveUp>>

\* #afterChild: it went of itself.  A long run clears the count first.
Failures(stable) == (IF stable THEN 0 ELSE failures) + 1

Goes(stable) ==
  /\ Running /\ ~stopping
  /\ child' = "none"
  /\ failures' = Failures(stable)
  /\ \/ failures' >= MaxRapidFailures /\ GiveUp /\ UNCHANGED timer
     \/ failures' < MaxRapidFailures /\ timer' = TRUE /\ UNCHANGED <<stopping, gaveUp, log>>
  /\ UNCHANGED awaiting

RestartFires(spawns) ==
  /\ timer /\ timer' = FALSE
  /\ \/ stopping /\ UNCHANGED <<child, stopping, gaveUp, log>>
     \/ ~stopping /\ spawns /\ child' = "running" /\ UNCHANGED <<stopping, gaveUp, log>>
     \/ ~stopping /\ ~spawns /\ GiveUp /\ UNCHANGED child
  /\ UNCHANGED <<failures, awaiting>>

SupNext ==
  \/ GraceEnds
  \/ GoesAsAsked
  \/ \E stable \in BOOLEAN : Goes(stable)
  \/ \E spawns \in BOOLEAN : RestartFires(spawns)
=============================================================================
