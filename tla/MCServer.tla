------------------------------ MODULE MCServer ------------------------------
(***************************************************************************)
(* A server from its start to its end, a part of it at a time: what a      *)
(* start goes through; projects as they are read; what it says of itself;  *)
(* one session over a socket, and either end of a socket reading a peer of *)
(* another make.  The parts share no state that is modelled, and one run   *)
(* looks at one.                                                           *)
(***************************************************************************)
EXTENDS Up, Schema, Install, Certificates, Authorization, Wire, Status, TLC

CONSTANTS a1, a2, s1, s2, b2, b3, b3b, i1, i2, c1, c2, q1

MCKnows == (b2 :> 2) @@ (b3 :> 3) @@ (b3b :> 3)

VARIABLE part   \* which of them is looked at

startVars == <<bootVars, schemaVars, installVars, certVars>>
registerVars == <<projectVars, readingVars, authVars>>
vars == <<startVars, registerVars, wireVars, statusVars, part>>

Starting == {"up", "schema", "install", "certificates"}
Talking == {"session"} \cup Ends

Init ==
  /\ part \in Starting \cup {"read", "status"} \cup Talking
  /\ UpInit /\ SchemaInit /\ CertInit /\ InstallInit
  /\ part # "schema" => recorded = {}
  /\ part # "install" => cache = Absent /\ stored = [s \in Starts |-> Absent]
  /\ ProjectsInit /\ ReadingsInit /\ AuthInit /\ loaded
  /\ WireInit /\ StatusInit

-----------------------------------------------------------------------------
(* A start.                                                                *)

Start ==
  \/ part = "up" /\ UpNext /\ UNCHANGED <<schemaVars, installVars, certVars>>
  \/ part = "schema" /\ SchemaNext /\ UNCHANGED <<bootVars, installVars, certVars>>
  \/ part = "install" /\ InstallNext /\ UNCHANGED <<bootVars, schemaVars, certVars>>
  \/ part = "certificates" /\ CertNext /\ UNCHANGED <<bootVars, schemaVars, installVars>>

-----------------------------------------------------------------------------
(* Projects, as they are read.                                             *)

Adopts(r) == r.claimed # None /\ r.write = None

\* One project and another, registered again and again under the same id.
Reading ==
  /\ part = "read"
  /\ \/ \E c \in Creates, r \in Requests :
          /\ Adopts(r) /\ r.claimed = i1 /\ r.name = "n" /\ MakeOrAdopt(c, r, r.claimed)
          /\ UNCHANGED <<readingVars, authVars>>
     \/ ReadingNext /\ UNCHANGED <<projectVars, authVars>>
     \/ \E q \in Questions : Arrives(q, "delete", {i1}, None) /\ AnswersOnly
     \/ \E q \in Questions : DeleteResource(q)
     \/ ReadingsDie /\ UNCHANGED authVars
     \/ \E reference \in Ids \cup Names : Forget(reference) /\ UNCHANGED authVars

-----------------------------------------------------------------------------
(* A session.                                                              *)

Session ==
  \/ Refuses \/ Upgrades \/ AskingFails \/ Attaches \/ Settles
  \/ \E e \in Ends : Data(e) \/ Drain(e) \/ SocketCloses(e)
  \/ Vanishes
  \/ Answers \/ Publishes \/ Bye \/ Beat
  \/ HelloTimesOut \/ Call \/ ClientCloses
  \/ \E id \in waiting : CallTimesOut(id)
  \/ SaysEarly

Talk ==
  \/ part = "session" /\ Session
  \/ part \in Ends /\ Foreigners(part, {0, 2})

-----------------------------------------------------------------------------
Next ==
  /\ \/ Start /\ UNCHANGED <<registerVars, wireVars, statusVars>>
     \/ Reading /\ UNCHANGED <<startVars, wireVars, statusVars>>
     \/ Talk /\ UNCHANGED <<startVars, registerVars, statusVars>>
     \/ part = "status" /\ StatusNext /\ UNCHANGED <<startVars, registerVars, wireVars>>
  /\ UNCHANGED part

\* up goes on from what it awaits, to its end when it is told to stop.
InUp(action) ==
  /\ part = "up" /\ action
  /\ UNCHANGED <<schemaVars, installVars, certVars, registerVars, wireVars, statusVars, part>>
StartFairness ==
  /\ WF_vars(InUp(StepDone \/ StepFails)) /\ WF_vars(InUp(StartSupervised))
  /\ WF_vars(InUp(HealthAnswers \/ HealthFails))
  /\ WF_vars(InUp(UpStop)) /\ WF_vars(InUp(StopReturned)) /\ WF_vars(InUp(CloseNext))
  /\ WF_vars(InUp(GraceEnds /\ UNCHANGED upVars))
  /\ WF_vars(InUp(child = "killed" /\ GoesAsAsked /\ UNCHANGED upVars))

\* The library answers, and what is not awaited goes on at once.
InReadings(action) ==
  part = "read" /\ action /\ UNCHANGED <<startVars, projectVars, authVars, wireVars, statusVars, part>>
ReadingFairness ==
  /\ WF_vars(InReadings(DrainBegins \/ Lists \/ PassEnds \/ \E p \in listed : Turn(p)))
  /\ WF_vars(InReadings(ReadingSteps))

\* A timer that is due is served once what is being handled is done, however
\* much else there is; and what has begun at an end goes on.
InSession(action) ==
  part = "session" /\ action /\ UNCHANGED <<startVars, registerVars, statusVars, part>>
WireFairness ==
  /\ SF_vars(InSession(Beat))
  /\ \A id \in 1..MaxCalls : SF_vars(InSession(CallTimesOut(id)))
  /\ \A e \in Ends : WF_vars(InSession(Drain(e)))
  /\ WF_vars(InSession(Settles \/ Attaches))

Spec == Init /\ [][Next]_vars /\ StartFairness /\ ReadingFairness /\ WireFairness
=============================================================================
