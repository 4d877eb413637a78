------------------------------- MODULE SignIn -------------------------------
(***************************************************************************)
(* What stands in front of a password check on the door that takes one     *)
(* from anybody: how often a name has been refused from one place          *)
(* (src/src/identity/signin.ts), asked before the check and told after it  *)
(* (src/src/web/studio.ts).  Any number of requests are checked at once.   *)
(***************************************************************************)
EXTENDS Integers, FiniteSets, Functions

CONSTANTS
  Knockers,       \* requests
  Accounts,       \* names as the account lookup folds them
  Addresses,
  FreeAttempts,   \* FREE_ATTEMPTS
  LongestWait,    \* MAXIMUM_BACKOFF_MS, in units of FIRST_BACKOFF_MS
  ForgetAfter,    \* FORGET_AFTER_MS, in the same units
  MaxTracked,     \* MAXIMUM_TRACKED
  LastTick,       \* a bound on the clock
  Nowhere         \* a request that is not there

ASSUME SignInAssumption ==
  /\ FreeAttempts \in Nat /\ LongestWait \in Nat \ {0} /\ ForgetAfter \in Nat
  /\ MaxTracked \in Nat \ {0} /\ LastTick \in Nat

\* A name as it was typed: normaliseUsername takes the capitals out of it.
Typed == Accounts \X {"as it is", "in capitals"}
PairOf(username, address) == <<username[1], address>>

Stages == {"checking", "wrong", "right"}

ASSUME NowhereAssumption == Nowhere \notin [pair : Accounts \X Addresses, stage : Stages]

VARIABLES
  attempts,   \* what is remembered of a pair: how often, how long, and until when
  clock,
  knocking    \* the pair a request is about, and how far it has come

signInVars == <<attempts, clock, knocking>>

SignInInit ==
  attempts = <<>> /\ clock = 0 /\ knocking = [k \in Knockers |-> Nowhere]

BackoffFor(refusals) ==
  LET wait == 2^(refusals - FreeAttempts - 1)
  IN IF refusals <= FreeAttempts THEN 0 ELSE IF wait < LongestWait THEN wait ELSE LongestWait

Remembered(pair) == pair \in DOMAIN attempts /\ attempts[pair].expiresAt > clock
Waits(pair) == Remembered(pair) /\ attempts[pair].readyAt > clock

\* Mutation: whoever was wrong least often goes.
SoonestOfFewest(table) ==
  {p \in DOMAIN table : \A q \in DOMAIN table : table[p].refusals <= table[q].refusals}

\* Of several whose waits end at once it is the one that came first; any, here.
Soonest(table) == {p \in DOMAIN table : \A q \in DOMAIN table : table[p].readyAt <= table[q].readyAt}

\* makeRoom: what is out of date goes, and then what is ready soonest.
RoomMade ==
  LET fresh == Restrict(attempts, {p \in DOMAIN attempts : attempts[p].expiresAt > clock})
  IN IF Cardinality(DOMAIN attempts) < MaxTracked THEN {attempts}
     ELSE IF Cardinality(DOMAIN fresh) < MaxTracked THEN {fresh}
     ELSE {Restrict(fresh, DOMAIN fresh \ {p}) : p \in Soonest(fresh)}

\* refused
Counted(pair) ==
  LET refusals == IF Remembered(pair) THEN attempts[pair].refusals + 1 ELSE 1
      readyAt == clock + BackoffFor(refusals)
      entry == [refusals |-> refusals, readyAt |-> readyAt, expiresAt |-> readyAt + ForgetAfter]
  IN \E table \in IF pair \in DOMAIN attempts THEN {attempts} ELSE RoomMade :
       attempts' = [p \in DOMAIN table \cup {pair} |-> IF p = pair THEN entry ELSE table[p]]

At(pair, stage) == [pair |-> pair, stage |-> stage]

\* answerSignIn, to its first await: whoever has to wait is answered without a check.
Knocks(k, username, address) ==
  LET pair == PairOf(username, address)
  IN /\ knocking[k] = Nowhere /\ ~Waits(pair)
     /\ knocking' = [knocking EXCEPT ![k] = At(pair, "checking")]
     /\ UNCHANGED <<attempts, clock>>

\* From there.  The right password of an account no person signs in to is held against
\* nobody either, though it is refused.
Judged(k, verdict) ==
  /\ knocking[k] # Nowhere /\ knocking[k].stage = "checking"
  /\ LET pair == knocking[k].pair
     IN /\ IF verdict = "wrong" THEN Counted(pair)
           ELSE attempts' = Restrict(attempts, DOMAIN attempts \ {pair})
        /\ knocking' = [knocking EXCEPT ![k] = At(pair, verdict)]
  /\ UNCHANGED clock

\* holdRefusedSignIn, where it is refused, and the answer.
SignInAnswered(k) ==
  /\ knocking[k] # Nowhere /\ knocking[k].stage # "checking"
  /\ knocking' = [knocking EXCEPT ![k] = Nowhere]
  /\ UNCHANGED <<attempts, clock>>

Ticks == clock < LastTick /\ clock' = clock + 1 /\ UNCHANGED <<attempts, knocking>>

SignInNext ==
  \/ \E k \in Knockers, username \in Typed, address \in Addresses : Knocks(k, username, address)
  \/ \E k \in Knockers, verdict \in {"wrong", "right"} : Judged(k, verdict)
  \/ \E k \in Knockers : SignInAnswered(k)
  \/ Ticks

-----------------------------------------------------------------------------
(* Properties.                                                             *)

\* signin.ts: when the table is full "the entries nobody is waiting on go first,
\* and then the one whose wait ends soonest".  A wait that was imposed is served
\* to its end, whatever else is checked, refused and let in meanwhile, unless the
\* password comes right or a table full of longer waits needs the place.
WaitsAreServed ==
  [][\A pair \in DOMAIN attempts :
       /\ attempts[pair].readyAt > clock'
       /\ ~\E k \in Knockers : knocking'[k] # knocking[k] /\ knocking'[k] # Nowhere
                                 /\ knocking'[k].pair = pair /\ knocking'[k].stage = "right"
       => \/ pair \in DOMAIN attempts' /\ attempts'[pair].readyAt >= attempts[pair].readyAt
          \/ /\ Cardinality(DOMAIN attempts') = MaxTracked
             /\ \A other \in DOMAIN attempts :
                  attempts[other].readyAt >= attempts[pair].readyAt]_signInVars
=============================================================================
