-------------------------------- MODULE Wire --------------------------------
(***************************************************************************)
(* One session over a socket: frames and messages at both ends             *)
(* (src/src/team/websocket.ts, src/src/client/websocket.ts), the upgrade   *)
(* and the session behind it (src/src/team/endpoint.ts), and the client's  *)
(* side of it (src/src/client/session.ts).  A frame is a header and so     *)
(* many units of payload; a stream arrives a few units at a time.  What a  *)
(* chunk brings is handled before anything else happens at its end; what a *)
(* promise settles comes next.                                             *)
(***************************************************************************)
EXTENDS Integers, Sequences, FiniteSets, SequencesExt

CONSTANTS
  MaxMessage,   \* the most a message may be, at either end
  MaxBuffered,  \* frames the server holds for a client that does not read
  MaxCalls,     \* a bound on the calls of the client
  MaxSaid,      \* a bound on the frames of a peer of another make
  Early         \* whether that peer speaks before the upgrade is answered

ASSUME WireAssumption ==
  /\ MaxMessage \in Nat /\ MaxBuffered \in Nat /\ MaxCalls \in Nat /\ MaxSaid \in Nat
  /\ Early \in BOOLEAN

Ends == {"server", "client"}
Other(e) == IF e = "server" THEN "client" ELSE "server"

VARIABLES
  net,       \* frames under way to each end, or arrived and not read yet
  arrived,   \* how many units of those are there
  frags,     \* what has come of the message under way
  over,      \* ended
  lost,      \* the network has gone, and tells nobody
  said, got, \* a foreign peer's messages, and what was made of them
  upgraded,  \* "no", "constructed", "attached": the session at the server
  hub,       \* whether the hub holds it
  quiet,     \* heartbeats since anything was heard
  inFlight,  \* calls the server has yet to answer
  phase, hello, ending, next, waiting   \* of the client

streamVars == <<net, arrived, frags, over>>
foreignVars == <<said, got>>
serverVars == <<upgraded, hub, quiet, inFlight>>
clientVars == <<phase, hello, ending, next, waiting>>
wireVars == <<streamVars, lost, foreignVars, serverVars, clientVars>>

NoFragments == [open |-> FALSE, bytes |-> 0, parts |-> <<>>]

WireInit ==
  /\ net = [e \in Ends |-> <<>>] /\ arrived = [e \in Ends |-> 0]
  /\ frags = [e \in Ends |-> NoFragments] /\ over = [e \in Ends |-> FALSE]
  /\ lost = FALSE
  /\ said = <<>> /\ got = <<>>
  /\ upgraded = "no" /\ hub = FALSE /\ quiet = 0 /\ inFlight = {}
  /\ phase = "asking" /\ hello = FALSE /\ ending = FALSE /\ next = 1 /\ waiting = {}

-----------------------------------------------------------------------------
(* Frames.                                                                 *)

Frame(op, final, size, body) == [op |-> op, final |-> final, size |-> size, body |-> body]
Text(body) == Frame("text", TRUE, 1, body)
Control(op) == Frame(op, TRUE, 0, <<>>)

IsControl(f) == f.op \in {"ping", "pong", "close"}
Units(f) == f.size + 1
UnitsOf(s) ==
  LET upTo[n \in 0..Len(s)] == IF n = 0 THEN 0 ELSE upTo[n - 1] + Units(s[n])
  IN  upTo[Len(s)]

\* readFrame, of a header that is there.  A frame is refused for its length
\* before it has come; the server counts in what has come of the message.
Refused(e, f) ==
  \/ f.op = "broken"
  \/ IsControl(f) /\ ~f.final
  \/ /\ ~IsControl(f)
     /\ f.size + (IF e = "server" THEN frags[e].bytes ELSE 0) > MaxMessage

\* drain has something to do.
Draining(e) ==
  /\ ~over[e] /\ net[e] # <<>> /\ arrived[e] > 0
  /\ Refused(e, Head(net[e])) \/ arrived[e] >= Units(Head(net[e]))

Settling == phase \in {"upgrading", "waiting"} /\ (hello \/ over["client"] \/ phase = "upgrading")
Busy(e) == Draining(e) \/ (e = "client" /\ Settling) \/ (e = "server" /\ upgraded = "constructed")

\* What e was handling is handled; it writes, and it may be over with that.
\* finish clears what is pending and calls onClose, which finds the session, or
\* the client, or nothing yet.
Ended(e) ==
  IF e = "server" THEN hub' = FALSE /\ UNCHANGED <<ending, waiting>>
  ELSE /\ UNCHANGED hub
       /\ IF phase = "ready" THEN ending' = TRUE /\ waiting' = {} ELSE UNCHANGED <<ending, waiting>>

\* write, of the server: not onto what a client does not read.
Backlogged(e) == e = "server" /\ Len(net["client"]) > MaxBuffered

\* rest is what e has yet to read, out what it writes, and ends whether it is over.
Carries(e, rest, out, ends) ==
  LET ending1 == ends \/ (out # <<>> /\ Backlogged(e))
      out1 == IF over[e] THEN <<>>
              ELSE IF out # <<>> /\ Backlogged(e) THEN <<Control("close")>> ELSE out
  IN /\ net' = [net EXCEPT ![e] = IF ending1 THEN <<>> ELSE rest,
                           ![Other(e)] = IF lost THEN @ ELSE @ \o out1]
     /\ over' = [over EXCEPT ![e] = @ \/ ending1]
     /\ IF ending1 /\ ~over[e] THEN Ended(e) ELSE UNCHANGED <<hub, ending, waiting>>

Closes(e) == Carries(e, <<>>, <<Control("close")>>, TRUE)

\* Of the frame at the head: it is read and this many units with it.
Takes(e, f) == arrived' = [arrived EXCEPT ![e] = IF over'[e] THEN 0 ELSE @ - Units(f)]

-----------------------------------------------------------------------------
(* What a message does.                                                    *)

\* The session is there only after the constructor has drained what came with
\* the upgrade.  A frame it cannot read ends it; a call is in flight until it
\* is answered.
SessionReceives(rest, body) ==
  IF upgraded # "attached" THEN Carries("server", rest, <<>>, FALSE) /\ UNCHANGED inFlight
  ELSE IF body.t # "call" THEN
       Carries("server", <<>>, <<Text([t |-> "bye"]), Control("close")>>, TRUE) /\ UNCHANGED inFlight
  ELSE Carries("server", rest, <<>>, FALSE) /\ inFlight' = inFlight \cup {body.id}

\* Before the hello nothing else is heard, and before the client is made nothing is.
ClientReceives(rest, body) ==
  IF ~hello THEN
    /\ hello' = (body.t = "hello") /\ Carries("client", rest, <<>>, FALSE)
  ELSE
    /\ UNCHANGED hello
    /\ net' = [net EXCEPT !["client"] = rest] /\ UNCHANGED <<over, hub>>
    /\ IF phase # "ready" THEN UNCHANGED <<ending, waiting>>
       ELSE IF body.t = "bye" THEN ending' = TRUE /\ waiting' = {}
       ELSE IF body.t = "answer" THEN waiting' = waiting \ {body.id} /\ UNCHANGED ending
       ELSE UNCHANGED <<ending, waiting>>

\* A foreign message is kept as it was put together.
OnMessage(e, rest, parts) ==
  IF "n" \in DOMAIN parts[1] THEN
    /\ got' = Append(got, parts) /\ Carries(e, rest, <<>>, FALSE)
    /\ UNCHANGED <<inFlight, hello>>
  ELSE
    /\ UNCHANGED got
    /\ IF e = "server" THEN SessionReceives(rest, parts[1]) /\ UNCHANGED hello
       ELSE ClientReceives(rest, parts[1]) /\ UNCHANGED inFlight

Quietly == UNCHANGED <<got, inFlight, hello>>

\* Mutation: what came of the last message is taken with the next.
CollectKeeps(e, f, rest) ==
  LET old == frags[e]
      bytes == old.bytes + f.size
      parts == Append(old.parts, f.body)
  IN IF (f.op = "text") = old.open \/ bytes > MaxMessage THEN
       Closes(e) /\ frags' = [frags EXCEPT ![e] = NoFragments] /\ Quietly
     ELSE IF ~f.final THEN
       /\ frags' = [frags EXCEPT ![e] = [open |-> TRUE, bytes |-> bytes, parts |-> parts]]
       /\ Carries(e, rest, <<>>, FALSE) /\ Quietly
     ELSE
       /\ frags' = [frags EXCEPT ![e] = [open |-> FALSE, bytes |-> 0, parts |-> parts]]
       /\ OnMessage(e, rest, parts)

\* collect
Collect(e, f, rest) ==
  LET old == frags[e]
      bytes == old.bytes + f.size
      parts == Append(old.parts, f.body)
  IN IF (f.op = "text") = old.open \/ bytes > MaxMessage THEN
       Closes(e) /\ frags' = [frags EXCEPT ![e] = NoFragments] /\ Quietly
     ELSE IF ~f.final THEN
       /\ frags' = [frags EXCEPT ![e] = [open |-> TRUE, bytes |-> bytes, parts |-> parts]]
       /\ Carries(e, rest, <<>>, FALSE) /\ Quietly
     ELSE
       /\ frags' = [frags EXCEPT ![e] = NoFragments]
       /\ OnMessage(e, rest, parts)

\* drain, of one frame; handle.
Drain(e) ==
  /\ Draining(e)
  /\ LET f == Head(net[e])
         rest == Tail(net[e])
     IN /\ IF Refused(e, f) \/ f.op \in {"binary", "other"} THEN
             Closes(e) /\ frags' = [frags EXCEPT ![e] = NoFragments] /\ Quietly
           ELSE IF IsControl(f) THEN
             /\ IF f.op = "close" THEN Carries(e, <<>>, <<>>, TRUE)
                ELSE Carries(e, rest, IF f.op = "ping" THEN <<Control("pong")>> ELSE <<>>, FALSE)
             /\ frags' = [frags EXCEPT ![e] = IF over'[e] THEN NoFragments ELSE @] /\ Quietly
           ELSE Collect(e, f, rest)
        /\ Takes(e, f)
  /\ UNCHANGED <<lost, said, upgraded, quiet, phase, next>>

\* A chunk of the stream, wherever it is cut.
Chunk(e) ==
  /\ ~Busy(e) /\ net[e] # <<>>
  /\ \E n \in arrived[e] + 1..UnitsOf(net[e]) : arrived' = [arrived EXCEPT ![e] = n]

\* A chunk that ends with a frame, which is all that tells one session from
\* another; the server's is all there is.  What comes for an end that is over is dropped.
Data(e) ==
  /\ ~lost /\ ~Busy(e) /\ net[e] # <<>>
  /\ e = "server" => upgraded = "attached"
  /\ e = "client" => phase \in {"waiting", "ready"}
  /\ IF over[e] THEN net' = [net EXCEPT ![e] = <<>>] /\ UNCHANGED arrived
     ELSE /\ UNCHANGED net
          /\ \E i \in IF e = "server" THEN {Len(net[e])} ELSE 1..Len(net[e]) :
               arrived' = [arrived EXCEPT ![e] = UnitsOf(SubSeq(net[e], 1, i))]
  /\ quiet' = IF e = "server" THEN 0 ELSE quiet
  /\ UNCHANGED <<frags, over, lost, foreignVars, upgraded, hub, inFlight, clientVars>>

Vanishes ==
  /\ ~lost /\ upgraded = "attached"
  /\ lost' = TRUE
  /\ UNCHANGED <<streamVars, foreignVars, serverVars, clientVars>>

\* The socket is closed under an end, or fails; lost networks say nothing.
SocketCloses(e) ==
  /\ ~lost /\ ~Busy(e) /\ ~over[e] /\ over[Other(e)] /\ net[e] = <<>>
  /\ e = "server" => upgraded = "attached"
  /\ Carries(e, <<>>, <<>>, TRUE)
  /\ arrived' = [arrived EXCEPT ![e] = 0] /\ frags' = [frags EXCEPT ![e] = NoFragments]
  /\ UNCHANGED <<lost, foreignVars, upgraded, quiet, inFlight, phase, hello, next>>

-----------------------------------------------------------------------------
(* The server.                                                             *)

\* handleUpgrade: refused, or answered; what came in the head is drained first.
Refuses ==
  /\ phase = "asking" /\ phase' = "failed"
  /\ UNCHANGED <<streamVars, lost, foreignVars, serverVars, hello, ending, next, waiting>>

Upgrades ==
  /\ phase = "asking" /\ upgraded = "no"
  /\ phase' = "upgrading" /\ upgraded' = "constructed"
  /\ arrived' = [arrived EXCEPT !["server"] = UnitsOf(net["server"])]
  /\ UNCHANGED <<net, frags, over, lost, foreignVars, hub, quiet, inFlight, hello, ending, next, waiting>>

\* The session is made, whatever the connection is by now.
Attaches ==
  /\ upgraded = "constructed" /\ ~Draining("server")
  /\ upgraded' = "attached" /\ hub' = TRUE
  /\ net' = [net EXCEPT !["client"] = IF over["server"] THEN @ ELSE Append(@, Text([t |-> "hello"]))]
  /\ UNCHANGED <<arrived, frags, over, lost, foreignVars, quiet, inFlight, clientVars>>

Server == upgraded = "attached" /\ ~Busy("server")
ServerMoves(out, ends) ==
  /\ Carries("server", net["server"], out, ends)
  /\ arrived' = [arrived EXCEPT !["server"] = IF over'["server"] THEN 0 ELSE @]
  /\ frags' = [frags EXCEPT !["server"] = IF over'["server"] THEN NoFragments ELSE @]

\* A handler answers, also a session that is over.
Answers ==
  /\ Server
  /\ \E id \in inFlight :
       inFlight' = inFlight \ {id} /\ ServerMoves(<<Text([t |-> "answer", id |-> id])>>, FALSE)
  /\ UNCHANGED <<lost, foreignVars, upgraded, quiet, phase, hello, next>>

\* An event somebody published, while the hub has the session.
Publishes ==
  /\ Server /\ hub /\ Len(net["client"]) <= MaxBuffered
  /\ ServerMoves(<<Text([t |-> "event"])>>, FALSE)
  /\ UNCHANGED <<lost, foreignVars, upgraded, quiet, inFlight, phase, hello, next>>

\* bye: the server stops, or the token is refused when the session asks again.  The
\* session leaves the hub here, also where its connection was over before it was made.
Bye ==
  /\ Server /\ hub
  /\ IF over["server"] THEN hub' = FALSE /\ UNCHANGED <<streamVars, ending, waiting>>
     ELSE ServerMoves(<<Text([t |-> "bye"]), Control("close")>>, TRUE)
  /\ UNCHANGED <<lost, foreignVars, upgraded, quiet, inFlight, phase, hello, next>>

\* Mutation: a ping is as good as an answer.
BeatForgives ==
  /\ Server /\ ~over["server"]
  /\ ServerMoves(IF Control("ping") \in ToSet(net["client"]) THEN <<>> ELSE <<Control("ping")>>, FALSE)
  /\ quiet' = 0
  /\ UNCHANGED <<lost, foreignVars, upgraded, inFlight, phase, hello, next>>

\* The heartbeat; two pings under way are modelled as one.
Beat ==
  /\ Server /\ ~over["server"]
  /\ IF quiet = 2 THEN ServerMoves(<<Control("close")>>, TRUE) /\ UNCHANGED quiet
     ELSE /\ ServerMoves(IF Control("ping") \in ToSet(net["client"]) THEN <<>>
                         ELSE <<Control("ping")>>, FALSE)
          /\ quiet' = quiet + 1
  /\ UNCHANGED <<lost, foreignVars, upgraded, inFlight, phase, hello, next>>

-----------------------------------------------------------------------------
(* The client.                                                             *)

\* open, at each of its awaits: a hello that came, an end that came, or a wait.
Settles ==
  /\ Settling /\ ~Draining("client")
  /\ phase' = IF hello THEN "ready" ELSE IF over["client"] THEN "failed" ELSE "waiting"
  /\ UNCHANGED <<streamVars, lost, foreignVars, serverVars, hello, ending, next, waiting>>

ClientMoves(out, ends) ==
  /\ Carries("client", net["client"], out, ends)
  /\ arrived' = [arrived EXCEPT !["client"] = IF over'["client"] THEN 0 ELSE @]
  /\ frags' = [frags EXCEPT !["client"] = IF over'["client"] THEN NoFragments ELSE @]

\* openWebSocket: no answer in time, or one that does not prove it read the key.  The
\* server may have a session by then.
AskingFails ==
  /\ phase \in {"asking", "upgrading"} /\ phase' = "failed"
  /\ IF phase = "asking" THEN UNCHANGED <<streamVars, hub, ending, waiting>>
     ELSE ClientMoves(<<>>, TRUE)
  /\ UNCHANGED <<lost, foreignVars, upgraded, quiet, inFlight, hello, next>>

HelloTimesOut ==
  /\ phase = "waiting" /\ ~Busy("client")
  /\ phase' = "failed"
  /\ ClientMoves(<<Control("close")>>, TRUE)
  /\ UNCHANGED <<lost, foreignVars, upgraded, quiet, inFlight, hello, next>>

\* exchange: refused at once on a session known to be over.
Call ==
  /\ phase = "ready" /\ ~Busy("client") /\ next <= MaxCalls
  /\ next' = next + 1
  /\ IF ending THEN UNCHANGED <<streamVars, hub, ending, waiting>>
     ELSE /\ net' = [net EXCEPT !["server"] =
                       IF over["client"] \/ lost THEN @ ELSE Append(@, Text([t |-> "call", id |-> next]))]
          /\ waiting' = waiting \cup {next}
          /\ UNCHANGED <<arrived, frags, over, hub, ending>>
  /\ UNCHANGED <<lost, foreignVars, upgraded, quiet, inFlight, phase, hello>>

\* Mutation: the timers go with the socket.
CallTimesOutWhileOpen(id) ==
  /\ id \in waiting /\ ~Busy("client") /\ ~over["client"]
  /\ waiting' = waiting \ {id}
  /\ UNCHANGED <<streamVars, lost, foreignVars, serverVars, phase, hello, ending, next>>

CallTimesOut(id) ==
  /\ id \in waiting /\ ~Busy("client")
  /\ waiting' = waiting \ {id}
  /\ UNCHANGED <<streamVars, lost, foreignVars, serverVars, phase, hello, ending, next>>

\* close, of a command that has what it wanted, or has had enough.
ClientCloses ==
  /\ phase = "ready" /\ ~Busy("client") /\ ~over["client"]
  /\ ClientMoves(<<Control("close")>>, TRUE)
  /\ UNCHANGED <<lost, foreignVars, upgraded, quiet, inFlight, phase, hello, next>>

-----------------------------------------------------------------------------
(* A peer of another make: whole messages, messages in parts with pings    *)
(* between them, and frames that should not be.                            *)

\* A message that has begun is not over.
Under == said # <<>> /\ ~Last(Last(said)).last

Foreign(e, f) ==
  /\ net' = [net EXCEPT ![e] = Append(@, f)]
  /\ UNCHANGED <<arrived, frags, over, lost, got, serverVars, clientVars>>

\* A part is told by its message and its place in it.
SaysPart(e, size, last) ==
  /\ Len(FlattenSeq(said)) < MaxSaid
  /\ LET number == IF Under THEN <<Len(said), Len(Last(said)) + 1>> ELSE <<Len(said) + 1, 1>>
         part == [n |-> number, last |-> last]
     IN /\ said' = IF Under THEN Front(said) \o <<Append(Last(said), part)>>
                   ELSE Append(said, <<part>>)
        /\ Foreign(e, Frame(IF Under THEN "continuation" ELSE "text", last, size, part))

SaysElse(e, op) ==
  /\ net[Other(e)] = <<>>
  /\ ~\E i \in 1..Len(net[e]) : net[e][i].op \notin {"text", "continuation"}
  /\ Foreign(e, Frame(op, TRUE, 0, <<>>))
  /\ UNCHANGED said

SaysEarly ==
  /\ Early /\ phase = "asking" /\ net["server"] = <<>>
  /\ \E f \in {Control("close"), Text([t |-> "call", id |-> 0])} :
       Foreign("server", f)
  /\ UNCHANGED said

\* What it says to an end, and what that end makes of it, once the upgrade is
\* behind them; it reads what it is answered.
Foreigners(e, sizes) ==
  \/ \E size \in sizes, last \in BOOLEAN : SaysPart(e, size, last)
  \/ \E op \in {"ping", "pong", "close", "binary", "other", "broken"} : SaysElse(e, op)
  \/ Drain(e)
  \/ /\ Chunk(e)
     /\ UNCHANGED <<net, frags, over, lost, foreignVars, serverVars, clientVars>>
  \/ /\ net[Other(e)] # <<>>
     /\ net' = [net EXCEPT ![Other(e)] = <<>>]
     /\ UNCHANGED <<arrived, frags, over, lost, foreignVars, serverVars, clientVars>>

-----------------------------------------------------------------------------
(* Properties.                                                             *)

\* However a stream is cut into chunks, whatever control frames stand between its
\* parts, and whatever ends it, what is made of it is the messages that were sent,
\* whole, in order.
MessagesArriveWhole == IsPrefix(got, said)

\* A session is in the hub only as long as there is a connection behind it: one
\* without is sent to, and listed, until its token is refused or the server stops.
SessionsAreConnected == hub /\ ~Busy("server") => ~over["server"]

\* Every call of the client ends, whatever has become of the connection, and a
\* client that vanished is found out.
CallsEnd == \A id \in 1..MaxCalls : id \in waiting ~> id \notin waiting
TheLostAreLetGo == lost ~> over["server"]

\* session.ts: what is over is found out "immediately instead of sitting out the
\* whole timeout for something already over".
NothingSitsOut == waiting # {} /\ ~Busy("client") => ~over["client"]
=============================================================================
