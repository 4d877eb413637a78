------------------------------- MODULE Status -------------------------------
(***************************************************************************)
(* What this server is, worked out when somebody asks and kept for a       *)
(* moment (src/src/team/status.ts): whoever asks while it is worked out    *)
(* waits on that, and what fails is not kept.                              *)
(***************************************************************************)
EXTENDS Integers, FiniteSets

CONSTANTS
  Panels,      \* callers of admin.server.status
  Freshness,   \* STATUS_FRESHNESS_MS, in moments
  MaxMoment,   \* a bound on the clock
  MaxGathers   \* a bound on the gathers begun

ASSUME StatusAssumption ==
  Freshness \in Nat \ {0} /\ MaxMoment \in Nat /\ MaxGathers \in Nat

Never == -1

VARIABLES
  moment,
  kept,      \* the cache: when its answer was gathered, and the gather in flight
  gathers,   \* what each gather awaits
  begun,     \* gathers begun so far
  panels     \* what each caller asked for, waits on, and was told

statusVars == <<moment, kept, gathers, begun, panels>>

Stages == {"health", "store", "keys"}
Unasked == [state |-> "idle", asked |-> Never, at |-> Never, of |-> 0]

StatusInit ==
  /\ moment = 0 /\ kept = [answer |-> Never, inFlight |-> 0]
  /\ gathers = [g \in 1..MaxGathers |-> "none"] /\ begun = 0
  /\ panels = [p \in Panels |-> Unasked]

Fresh == kept.answer # Never /\ moment - kept.answer < Freshness

Tell(p, state, at, gather) ==
  panels' = [panels EXCEPT ![p] = [state |-> state, asked |-> moment, at |-> at, of |-> gather]]

\* serverStatus
ServerStatus(p) ==
  /\ panels[p].state # "waits"
  /\ \/ /\ Fresh
        /\ Tell(p, "told", kept.answer, 0)
        /\ UNCHANGED <<kept, gathers, begun>>
     \/ /\ ~Fresh /\ kept.inFlight # 0
        /\ Tell(p, "waits", Never, kept.inFlight)
        /\ UNCHANGED <<kept, gathers, begun>>
     \/ /\ ~Fresh /\ kept.inFlight = 0 /\ begun < MaxGathers
        /\ begun' = begun + 1
        /\ gathers' = [gathers EXCEPT ![begun'] = "health"]
        /\ kept' = [kept EXCEPT !.inFlight = begun']
        /\ Tell(p, "waits", Never, begun')
  /\ UNCHANGED moment

\* checkHealth and directoryBytes say what they have found or that they have not;
\* neither fails.
GathersOn(g) ==
  /\ gathers[g] \in {"health", "store"}
  /\ gathers' = [gathers EXCEPT ![g] = IF @ = "health" THEN "store" ELSE "keys"]
  /\ UNCHANGED <<moment, kept, begun, panels>>

Settle(g, state, at) ==
  /\ gathers' = [gathers EXCEPT ![g] = "none"]
  /\ panels' = [p \in Panels |->
                  IF panels[p].state = "waits" /\ panels[p].of = g
                  THEN [panels[p] EXCEPT !.state = state, !.at = at] ELSE panels[p]]
  /\ UNCHANGED <<moment, begun>>

\* The keys are read again, and the rest is counted: the moment is that of the end.
GatherEnds(g) ==
  /\ gathers[g] = "keys"
  /\ kept' = [answer |-> moment, inFlight |-> 0]
  /\ Settle(g, "told", moment)

\* Mutation: nobody takes the gather out of the cache.
FailsInFlight(g) ==
  /\ gathers[g] = "keys" /\ UNCHANGED kept
  /\ Settle(g, "failed", Never)

\* reload, or the database, throws: there is the answer there was, and nothing in flight.
GatherFails(g) ==
  /\ gathers[g] = "keys"
  /\ kept' = [kept EXCEPT !.inFlight = 0]
  /\ Settle(g, "failed", Never)

Passes == moment < MaxMoment /\ moment' = moment + 1 /\ UNCHANGED <<kept, gathers, begun, panels>>

StatusNext ==
  \/ \E p \in Panels : ServerStatus(p)
  \/ \E g \in 1..MaxGathers : GathersOn(g) \/ GatherEnds(g) \/ GatherFails(g)
  \/ Passes

-----------------------------------------------------------------------------
(* Properties.                                                             *)

\* status.ts: "Asking twice costs once", and "a gather that fails leaves nothing
\* fresh behind".  The store is walked once at a time whoever asks and whatever
\* failed, and what a panel is told was worked out while it waited or not much
\* before it asked, by a gather that came to its end.
StatusIsShared ==
  /\ Cardinality({g \in 1..MaxGathers : gathers[g] # "none"}) <= 1
  /\ \A p \in Panels : panels[p].state = "told" => panels[p].at + Freshness > panels[p].asked
  /\ \A p \in Panels : panels[p].state = "waits" => gathers[panels[p].of] # "none"
=============================================================================
