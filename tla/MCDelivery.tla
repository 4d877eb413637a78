----------------------------- MODULE MCDelivery -----------------------------
(***************************************************************************)
(* A small server for Delivery, and what each of its clients sends.        *)
(***************************************************************************)
EXTENDS Delivery, TLC

CONSTANTS c1, c2, c3, i1, i2, p1, p2, ana, ben

MCAccountOf == [c \in Connections |-> IF c = c3 THEN ben ELSE ana]

Everywhere == Projects \cup {NoProject}

\* What the window of one installation sends, which is on one of some projects.
FromWindow(id, on, methods) ==
  {call \in Calls :
     /\ call.method \in methods
     /\ call.method = "clients.announce" => call.id = id /\ call.project \in on
     /\ call.method = "live.open" => call.rule = "open"}

\* Two clients, each with a window and a room, of which one is in both rooms and
\* the other listens; and a third that listens to who is there.
MCNested ==
  (c1 :> FromWindow(i1, {p1}, {"clients.announce", "clients.withdraw", "live.open",
                               "live.join", "live.leave"}))
  @@ (c2 :> FromWindow(i2, {p1}, {"clients.announce", "live.open"})
              \cup [method : {"subscribe"}, topic : {ClientsTopic(p1), LiveTopic(p1)}])
  @@ (c3 :> {[method |-> "subscribe", topic |-> ClientsTopic(p1)]})

\* Two windows that do everything to one room, and a third client that listens.
MCSteady ==
  (c1 :> FromWindow(i1, Everywhere, {"clients.announce", "clients.withdraw", "live.open",
                                     "live.rule", "live.answerJoin", "live.close"}))
  @@ (c2 :> FromWindow(i2, Everywhere, {"clients.announce", "live.join", "live.requestJoin",
                                        "live.leave", "live.say"}))
  @@ (c3 :> FromWindow(i2, Everywhere, {"subscribe", "unsubscribe"}))

\* A client with a window that listens to its own project, and one that only listens.
MCMoving ==
  (c1 :> FromWindow(i1, Everywhere, {"clients.announce", "subscribe"}))
  @@ (c2 :> FromWindow(i2, Everywhere, {"subscribe"}))

=============================================================================
