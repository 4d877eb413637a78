-------------------------------- MODULE Calls --------------------------------
(***************************************************************************)
(* One call of one message each way over HTTP/2: the stream at the service *)
(* (src/src/grpc/server.ts), the call that asks (src/src/grpc/client.ts),  *)
(* and how a message sits between them (src/src/grpc/framing.ts).  Either  *)
(* end may face another make.  What is sent arrives in pieces, and the     *)
(* connection may go at any time.                                          *)
(***************************************************************************)
EXTENDS Integers, Sequences, SequencesExt

CONSTANTS
  LongestMessage,   \* MAXIMUM_MESSAGE_BYTES
  Unset             \* no status, no message

ASSUME CallsAssumption == LongestMessage \in Nat /\ Unset \notin {"ok", "raised", "refused"}

VARIABLES
  request,    \* units of the request that have yet to arrive
  reply,      \* what has yet to arrive of the answer
  stream,     \* at the service
  asker,      \* at the caller
  runs,       \* how often the method has been run
  whole       \* what was asked and what was answered, as they were sent, and with which statuses

callVars == <<request, reply, stream, asker, runs, whole>>

\* The compression flag, the length, and so many units.
Encoded(flag, length) == <<flag, length>> \o [i \in 1..length |-> 1]
Sent == {Encoded(flag, length) : flag \in {0, 1}, length \in 0..LongestMessage + 1}
\* Two messages cut short anywhere, none at all among them.
Bodies == UNION {{SubSeq(m \o n, 1, k) : k \in 0..Len(m \o n)} : m \in Sent, n \in Sent}

-----------------------------------------------------------------------------
(* FrameAssembler, of one message: UNARY_CALL_MESSAGES.                    *)

Empty == [held |-> <<>>, decoded |-> 0]
Complete(held) == Len(held) >= 2 /\ Len(held) >= 2 + held[2]

\* Compressed, too long, or a message too many: in this order.
TurnsAway(held, decoded) ==
  /\ Len(held) >= 2
  /\ held[1] # 0 \/ held[2] > LongestMessage \/ (Complete(held) /\ decoded = 1)

\* push: what is left of it, or nothing where it is refused.
Pushed(a, chunk) ==
  LET held == a.held \o chunk
      rest == SubSeq(held, 3 + held[2], Len(held))
  IN IF TurnsAway(held, a.decoded) THEN {}
     ELSE IF ~Complete(held) THEN {[a EXCEPT !.held = held]}
     ELSE IF TurnsAway(rest, a.decoded + 1) THEN {}
     ELSE {[held |-> rest, decoded |-> a.decoded + 1]}

-----------------------------------------------------------------------------
(* The service.                                                            *)

Headers(http, status) == [kind |-> "headers", http |-> http, status |-> status]
Unit(u) == [kind |-> "unit", unit |-> u]
Trailers(status) == [kind |-> "trailers", status |-> status]
End == [kind |-> "end"]

Answer(http, first, body, last) ==
  <<Headers(http, first)>> \o [i \in DOMAIN body |-> Unit(body[i])]
    \o (IF last = Unset THEN <<>> ELSE <<Trailers(last)>>) \o <<End>>

\* destroyed or headersSent: nothing is read or said any more.
Settled == stream.gone \/ stream.stage = "answered"

\* respondWithStatus and respondWithMessage.
Says(http, first, body, last) ==
  /\ stream' = [stream EXCEPT !.stage = "answered"]
  /\ IF Settled THEN UNCHANGED <<reply, whole>>
     ELSE /\ reply' = Answer(http, first, body, last)
          /\ whole' = [whole EXCEPT !.body = body, !.statuses = {first, last} \ {Unset}]
SaysStatus(status) == Says(200, status, <<>>, Unset)

OurService == stream.make = "ours"

\* A call that is no POST, or of no method there is: nothing of it is listened to.
NotServed ==
  /\ OurService /\ stream.stage = "reading" /\ ~Settled /\ request = whole.asked
  /\ SaysStatus("refused")
  /\ UNCHANGED <<request, asker, runs>>

\* "data"
RequestArrives ==
  /\ request # <<>> /\ ~stream.gone
  /\ \E n \in 1..Len(request) :
       /\ request' = SubSeq(request, n + 1, Len(request))
       /\ LET pushed == Pushed(stream.assembler, SubSeq(request, 1, n))
          IN IF Settled THEN UNCHANGED <<reply, stream, whole>>
             ELSE IF pushed = {} THEN SaysStatus("refused")
             ELSE /\ \E a \in pushed : stream' = [stream EXCEPT !.assembler = a]
                  /\ UNCHANGED <<reply, whole>>
  /\ UNCHANGED <<asker, runs>>

\* Mutation: half a message behind the one there is goes unnoticed.
CarriesAMessage(a) == a.decoded = 1

CarriesOne(a) == a.decoded = 1 /\ a.held = <<>>

\* "end", to the await of the method.
RequestEnds ==
  /\ OurService /\ request = <<>> /\ stream.stage = "reading" /\ ~Settled
  /\ IF CarriesOne(stream.assembler)
     THEN /\ stream' = [stream EXCEPT !.stage = "running"]
          /\ runs' = runs + 1
          /\ UNCHANGED <<reply, whole>>
     ELSE SaysStatus("refused") /\ UNCHANGED runs
  /\ UNCHANGED <<request, asker>>

\* From there.  A stream that has gone meanwhile is told nothing; the method has run.
MethodReturns ==
  /\ stream.stage = "running"
  /\ \E length \in 0..LongestMessage : Says(200, Unset, Encoded(0, length), "ok")
  /\ UNCHANGED <<request, asker, runs>>
MethodRaises ==
  /\ stream.stage = "running" /\ SaysStatus("raised") /\ UNCHANGED <<request, asker, runs>>

\* A service of another make says anything.
ForeignAnswer(body) ==
  /\ ~OurService /\ stream.stage = "reading" /\ ~Settled
  /\ \E http \in {200, 503}, first, last \in {Unset, "ok", "raised"} :
       Says(http, first, body, last)
  /\ UNCHANGED <<request, asker, runs>>

-----------------------------------------------------------------------------
(* The call.  It settles once; session.destroy() takes what it listened to *)
(* with it, and in time the stream at the service.                         *)

Listening == asker.outcome = "waiting"

Concludes(outcome) ==
  /\ asker' = [asker EXCEPT !.outcome = outcome]
  /\ UNCHANGED <<request, reply, stream, runs, whole>>
Reject == Concludes("rejected")
GoesOn(n) ==
  /\ reply' = SubSeq(reply, n + 1, Len(reply))
  /\ UNCHANGED <<request, stream, runs, whole>>

First(kind) == Listening /\ reply # <<>> /\ Head(reply).kind = kind

\* "response"
HearsHeaders ==
  /\ First("headers")
  /\ IF Head(reply).http # 200 THEN Reject
     ELSE asker' = [asker EXCEPT !.status = Head(reply).status] /\ GoesOn(1)

\* "data"
HearsData ==
  /\ First("unit")
  /\ \E n \in 1..Len(reply) :
       /\ \A i \in 1..n : reply[i].kind = "unit"
       /\ LET pushed == Pushed(asker.assembler, [i \in 1..n |-> reply[i].unit])
          IN IF pushed = {} THEN Reject
             ELSE (\E a \in pushed : asker' = [asker EXCEPT !.assembler = a]) /\ GoesOn(n)

\* "trailers"
HearsTrailers ==
  /\ First("trailers")
  /\ asker' = [asker EXCEPT !.status = Head(reply).status] /\ GoesOn(1)

\* "end"
HearsEnd ==
  /\ First("end")
  /\ LET answered == asker.status = "ok" /\ asker.assembler.decoded = 1
     IN Concludes(IF answered THEN "resolved" ELSE "rejected")

\* Its timer, which what arrives sets anew, or an error of the stream or the connection.
CallFails == Listening /\ Reject

\* The connection is closed and nothing is wrong with it: the stream closes as one that
\* was cancelled, its timer with it, and none of what is listened to is told.
Cancelled == Listening /\ Concludes("never told")

\* What the service hears of either.
StreamGoes ==
  /\ ~Listening /\ ~stream.gone /\ stream' = [stream EXCEPT !.gone = TRUE]
  /\ UNCHANGED <<request, reply, asker, runs, whole>>

CallsInit ==
  /\ reply = <<>>
  /\ \E make \in {"ours", "another"} :
       /\ request \in IF make = "ours" THEN Bodies ELSE {<<>>}
       /\ stream = [make |-> make, stage |-> "reading", assembler |-> Empty, gone |-> FALSE]
  /\ asker = [outcome |-> "waiting", status |-> Unset, assembler |-> Empty]
  /\ runs = 0 /\ whole = [asked |-> request, body |-> <<>>, statuses |-> {}]

CallsNext ==
  \/ NotServed \/ RequestArrives \/ RequestEnds \/ MethodReturns \/ MethodRaises
  \/ HearsHeaders \/ HearsData \/ HearsTrailers \/ HearsEnd
  \/ CallFails \/ Cancelled \/ StreamGoes

-----------------------------------------------------------------------------
(* Properties.                                                             *)

\* framing.ts: "A second message on such a call is a caller doing something this
\* protocol does not describe", and client.ts: "a service that sent more is refused".
\* However a request and its answer are cut, a method runs at most once, and only for a
\* request of exactly one message that has all come; and a call resolves only with the
\* one whole message of an answer that has ended well.
CallsCarryOneMessage ==
  /\ runs <= 1
  /\ runs = 1 =>
       request = <<>> /\ \E length \in 0..LongestMessage : whole.asked = Encoded(0, length)
  /\ asker.outcome = "resolved" =>
       /\ "ok" \in whole.statuses /\ "refused" \notin whole.statuses
       /\ \E length \in 0..LongestMessage :
            /\ IsPrefix(Encoded(0, length), whole.body)
            /\ ~Complete(SubSeq(whole.body, 3 + length, Len(whole.body)))
            /\ OurService => runs = 1 /\ whole.body = Encoded(0, length)
=============================================================================
