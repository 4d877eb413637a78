--------------------------- MODULE DerivationSlots ---------------------------
(***************************************************************************)
(* How many password derivations run at once: takeATurn, giveTheTurnBack   *)
(* and derivingAKey (src/src/identity/passwords.ts).  A caller that waits  *)
(* is handed the turn of whoever gives it back, and runs only when its     *)
(* promise has woken it, which is later.                                   *)
(***************************************************************************)
EXTENDS Naturals, FiniteSets, SequencesExt

CONSTANTS
  Callers,  \* whatever hashes or verifies a password
  Turns     \* CONCURRENT_DERIVATIONS, 2

ASSUME TurnsAssumption == IsFiniteSet(Callers) /\ Turns \in Nat \ {0}

VARIABLES
  running,  \* how many turns are taken
  waiting,  \* callers parked in takeATurn, in the order they asked
  at        \* where each caller is in derivingAKey

vars == <<running, waiting, at>>

\* "woken" has a turn and has yet to resume; "working" is between await work()
\* and its settling.
Places == {"outside", "parked", "woken", "working"}

In(place) == {c \in Callers : at[c] = place}
Holders == In("woken") \cup In("working")

TypeOK ==
  /\ running \in Nat
  /\ waiting \in Seq(Callers)
  /\ at \in [Callers -> Places]

Init ==
  /\ running = 0
  /\ waiting = <<>>
  /\ at = [c \in Callers |-> "outside"]

TakeATurn(c) ==
  /\ at[c] = "outside"
  /\ \/ /\ running < Turns
        /\ running' = running + 1
        /\ at' = [at EXCEPT ![c] = "woken"]
        /\ UNCHANGED waiting
     \/ /\ running >= Turns
        /\ waiting' = Append(waiting, c)
        /\ at' = [at EXCEPT ![c] = "parked"]
        /\ UNCHANGED running

Wake(c) ==
  /\ at[c] = "woken"
  /\ at' = [at EXCEPT ![c] = "working"]
  /\ UNCHANGED <<running, waiting>>

\* Mutation: the turn is counted out before whoever waits for it is woken.
GiveTheTurnBackFirst(c) ==
  /\ at[c] = "working"
  /\ running' = running - 1
  /\ \/ /\ waiting = <<>>
        /\ at' = [at EXCEPT ![c] = "outside"]
        /\ UNCHANGED waiting
     \/ /\ waiting # <<>>
        /\ waiting' = Tail(waiting)
        /\ at' = [at EXCEPT ![c] = "outside", ![Head(waiting)] = "woken"]

\* The derivation settles, well or badly, and the turn goes to the next in line.
GiveTheTurnBack(c) ==
  /\ at[c] = "working"
  /\ \/ /\ waiting = <<>>
        /\ running' = running - 1
        /\ at' = [at EXCEPT ![c] = "outside"]
        /\ UNCHANGED waiting
     \/ /\ waiting # <<>>
        /\ waiting' = Tail(waiting)
        /\ at' = [at EXCEPT ![c] = "outside", ![Head(waiting)] = "woken"]
        /\ UNCHANGED running

Next == \E c \in Callers : TakeATurn(c) \/ Wake(c) \/ GiveTheTurnBack(c)

Spec == Init /\ [][Next]_vars

-----------------------------------------------------------------------------

(* Never more derivations at once than there are turns, the ones handed    *)
(* over and not resumed yet included: no gap for a third to slip into.     *)
WithinTurns == Cardinality(Holders) <= Turns

(* Nobody is parked while a turn is free: a turn given back is neither     *)
(* lost nor kept from whoever waits for it.                                *)
NoTurnIdle == waiting # <<>> => Cardinality(Holders) = Turns

(* The two together: the turns are neither oversold nor lost, between a    *)
(* hand-over and the resumption of whoever was handed one included, and by *)
(* whatever uses them (authenticate and insertUser do).                    *)
TurnsAreSound == WithinTurns /\ NoTurnIdle

(* Whoever asked first goes first: of those parked, only the first leaves, *)
(* and nobody who has just come gets a turn before them.                   *)
FirstComeFirstServed ==
  [][waiting # <<>> =>
       \/ IsPrefix(waiting, waiting') /\ Holders' \subseteq Holders
       \/ waiting' = Tail(waiting) /\ Holders' \ Holders \subseteq {Head(waiting)}]_vars
=============================================================================
