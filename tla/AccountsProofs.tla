--------------------------- MODULE AccountsProofs ---------------------------
(***************************************************************************)
(* What DerivationSlots and Accounts promise, for any turns, accounts,     *)
(* callers and commands.                                                   *)
(*                                                                         *)
(* The theorems of DerivationSlots hold of the turns of Accounts, because  *)
(* every step there is a step of DerivationSlots, or none.  Of the rest    *)
(* one fact carries the most: an account's epoch counts its revocations,   *)
(* in its row, in every token and in every row a sign-in under way has     *)
(* read.                                                                   *)
(***************************************************************************)
EXTENDS Accounts, FiniteSetTheorems, TLAPS

-----------------------------------------------------------------------------
(* The turns, for any number of callers and turns.                         *)

\* The queue is the parked callers, each once.
Queued ==
  /\ \A n \in 1 .. Len(waiting) : at[waiting[n]] = "parked"
  /\ \A m, n \in 1 .. Len(waiting) : waiting[m] = waiting[n] => m = n

(* The inductive invariant.  running is the number of turns really held,   *)
(* which needs a hand-over to be of one turn to one caller who had none:   *)
(* the queue holds parked callers only.                                    *)
IInv ==
  /\ TypeOK
  /\ running = Cardinality(Holders)
  /\ running <= Turns
  /\ waiting # <<>> => running = Turns
  /\ Queued

\* The callers are finitely many, so those with a turn can be counted.
LEMMA HoldersFinite == IsFiniteSet(Holders) /\ Cardinality(Holders) \in Nat
<1>1. Holders \subseteq Callers
  BY DEF Holders, In
<1> QED
  BY <1>1, FS_Subset, FS_CardinalityType, TurnsAssumption

\* A caller that had no turn and has one now is one more.
LEMMA OneMore ==
  ASSUME NEW c \in Callers, c \notin Holders, Holders' = Holders \cup {c}
  PROVE  Cardinality(Holders') = Cardinality(Holders) + 1
BY HoldersFinite, FS_AddElement

\* A caller that had a turn and has none now is one less.
LEMMA OneLess ==
  ASSUME NEW c \in Callers, c \in Holders, Holders' = Holders \ {c}
  PROVE  Cardinality(Holders') = Cardinality(Holders) - 1
BY HoldersFinite, FS_RemoveElement

\* takeATurn: the turn is free, or the caller is parked.
LEMMA TakeATurnStep ==
  ASSUME IInv, NEW c \in Callers, TakeATurn(c)
  PROVE  IInv'
<1> USE TurnsAssumption DEF IInv, TypeOK, TakeATurn
<1>1. c \notin Holders
  BY DEF Holders, In
<1>2. CASE running < Turns /\ running' = running + 1 /\ at' = [at EXCEPT ![c] = "woken"]
           /\ UNCHANGED waiting
  <2>1. Holders' = Holders \cup {c}
    BY <1>2 DEF Holders, In, Places
  <2>2. running' = Cardinality(Holders')
    BY <1>1, <1>2, <2>1, OneMore
  <2>3. TypeOK' /\ running' <= Turns /\ waiting' = <<>>
    BY <1>2 DEF Places
  <2>4. Queued'
    BY <2>3 DEF Queued
  <2> QED
    BY <2>2, <2>3, <2>4
<1>3. CASE running >= Turns /\ waiting' = Append(waiting, c)
           /\ at' = [at EXCEPT ![c] = "parked"] /\ UNCHANGED running
  <2>1. Holders' = Holders
    BY <1>1, <1>3 DEF Holders, In, Places
  <2>2. TypeOK'
    BY <1>3 DEF Places
  <2>3. running' = Turns
    BY <1>3
  <2>4. \A n \in 1 .. Len(waiting) : waiting[n] # c /\ waiting'[n] = waiting[n]
    BY <1>3 DEF Queued
  <2>5. Len(waiting') = Len(waiting) + 1 /\ waiting'[Len(waiting) + 1] = c
    BY <1>3
  <2>6. Queued'
    <3>1. \A n \in 1 .. Len(waiting') : n \in 1 .. Len(waiting) \/ n = Len(waiting) + 1
      BY <2>5
    <3>2. \A n \in 1 .. Len(waiting') : at'[waiting'[n]] = "parked"
      BY <1>3, <2>4, <2>5, <3>1 DEF Queued
    <3>3. ASSUME NEW m \in 1 .. Len(waiting'), NEW n \in 1 .. Len(waiting'),
                 waiting'[m] = waiting'[n]
          PROVE  m = n
      <4>1. CASE m \in 1 .. Len(waiting) /\ n \in 1 .. Len(waiting)
        <5>1. waiting[m] = waiting[n]
          BY <2>4, <3>3, <4>1
        <5> QED
          BY <4>1, <5>1 DEF Queued
      <4>2. CASE m = Len(waiting) + 1
        BY <2>4, <2>5, <3>1, <3>3, <4>2
      <4>3. CASE n = Len(waiting) + 1
        BY <2>4, <2>5, <3>1, <3>3, <4>3
      <4> QED
        BY <3>1, <4>1, <4>2, <4>3
    <3> QED
      BY <3>2, <3>3 DEF Queued
  <2>7. running' = Cardinality(Holders') /\ running' <= Turns
    BY <1>3, <2>1
  <2> QED
    BY <2>2, <2>3, <2>6, <2>7
<1> QED
  BY <1>2, <1>3

\* A caller that resumes keeps the turn it was given.
LEMMA WakeStep ==
  ASSUME IInv, NEW c \in Callers, Wake(c)
  PROVE  IInv'
<1>1. at[c] = "woken" /\ at' = [at EXCEPT ![c] = "working"] /\ UNCHANGED <<running, waiting>>
  BY DEF Wake
<1>2. TypeOK'
  BY <1>1 DEF IInv, TypeOK, Places
<1>3. Holders' = Holders
  BY <1>1 DEF IInv, TypeOK, Holders, In
<1>4. Queued'
  <2>1. \A d : at[d] = "parked" => at'[d] = "parked"
    BY <1>1 DEF IInv, TypeOK
  <2> QED
    BY <1>1, <2>1 DEF IInv, Queued
<1> QED
  BY <1>1, <1>2, <1>3, <1>4 DEF IInv

\* giveTheTurnBack: one turn fewer is held, or one passes to the first in the queue.
LEMMA GiveTheTurnBackStep ==
  ASSUME IInv, NEW c \in Callers, GiveTheTurnBack(c)
  PROVE  IInv'
<1> USE TurnsAssumption DEF IInv, TypeOK, GiveTheTurnBack
<1>1. c \in Holders
  BY DEF Holders, In
<1>2. CASE waiting = <<>> /\ running' = running - 1 /\ at' = [at EXCEPT ![c] = "outside"]
           /\ UNCHANGED waiting
  <2>1. Holders' = Holders \ {c}
    BY <1>2 DEF Holders, In, Places
  <2>2. running' = Cardinality(Holders')
    BY <1>1, <1>2, <2>1, OneLess
  <2>3. running' \in Nat
    BY <2>1, <2>2, HoldersFinite, FS_Subset, FS_CardinalityType
  <2>4. Queued'
    BY <1>2 DEF Queued
  <2> QED
    BY <1>2, <2>2, <2>3, <2>4 DEF Places
<1>3. CASE waiting # <<>> /\ waiting' = Tail(waiting) /\ UNCHANGED running
           /\ at' = [at EXCEPT ![c] = "outside", ![Head(waiting)] = "woken"]
  <2> DEFINE next == Head(waiting)
  <2>1. /\ next \in Callers /\ next = waiting[1] /\ 1 \in 1 .. Len(waiting)
        /\ at[next] = "parked"
    BY <1>3 DEF Queued
  <2>2. next # c /\ next \notin Holders
    BY <2>1 DEF Holders, In
  <2>3. /\ waiting' \in Seq(Callers)
        /\ Len(waiting') = Len(waiting) - 1
        /\ \A n \in 1 .. Len(waiting') : n + 1 \in 1 .. Len(waiting) /\ waiting'[n] = waiting[n + 1]
    BY <1>3
  <2> HIDE DEF next
  <2>4. at' = [at EXCEPT ![c] = "outside", ![next] = "woken"]
    BY <1>3 DEF next
  <2>5. Holders' = (Holders \ {c}) \cup {next}
    BY <2>1, <2>2, <2>4 DEF Holders, In, Places
  <2>6. Cardinality(Holders') = Cardinality(Holders)
    <3>1. IsFiniteSet(Holders \ {c}) /\ Cardinality(Holders \ {c}) = Cardinality(Holders) - 1
      BY <1>1, HoldersFinite, FS_RemoveElement
    <3>2. Cardinality(Holders') = Cardinality(Holders \ {c}) + 1
      BY <2>2, <2>5, <3>1, FS_AddElement
    <3> QED
      BY <3>1, <3>2, HoldersFinite
  <2>7. TypeOK'
    BY <1>3, <2>1, <2>3, <2>4 DEF Places
  <2>8. Queued'
    <3>1. \A n \in 1 .. Len(waiting') : waiting[n + 1] # next /\ at[waiting[n + 1]] = "parked"
      BY <2>1, <2>3 DEF Queued
    <3>2. \A n \in 1 .. Len(waiting') : at'[waiting'[n]] = "parked"
      BY <2>3, <2>4, <3>1
    <3>3. ASSUME NEW m \in 1 .. Len(waiting'), NEW n \in 1 .. Len(waiting'),
                 waiting'[m] = waiting'[n]
          PROVE  m = n
      <4>1. m + 1 \in 1 .. Len(waiting) /\ n + 1 \in 1 .. Len(waiting)
        BY <2>3
      <4>2. waiting[m + 1] = waiting[n + 1]
        BY <2>3, <3>3
      <4>3. m + 1 = n + 1
        BY <4>1, <4>2 DEF Queued
      <4> QED
        BY <2>3, <4>3
    <3> QED
      BY <3>2, <3>3 DEF Queued
  <2> QED
    BY <1>3, <2>6, <2>7, <2>8
<1> QED
  BY <1>2, <1>3

\* The invariant is inductive.
LEMMA IInvInductive == Spec => []IInv
<1>1. Init => IInv
  <2> SUFFICES ASSUME Init
               PROVE  IInv
    OBVIOUS
  <2>1. Holders = {} /\ Cardinality({}) = 0
    BY FS_EmptySet DEF Init, Holders, In
  <2> QED
    BY <2>1, TurnsAssumption DEF Init, IInv, TypeOK, Places, Queued
<1>2. IInv /\ [Next]_vars => IInv'
  <2> SUFFICES ASSUME IInv, [Next]_vars
               PROVE  IInv'
    OBVIOUS
  <2>1. CASE UNCHANGED vars
    BY <2>1 DEF vars, IInv, TypeOK, Holders, In, Queued
  <2> QED
    BY <2>1, TakeATurnStep, WakeStep, GiveTheTurnBackStep DEF Next
<1> QED
  BY <1>1, <1>2, PTL DEF Spec

\* There are never more derivations at once than turns, however many ask.
THEOREM TurnsAreLimited == Spec => []WithinTurns
<1>1. IInv => WithinTurns
  BY DEF IInv, WithinTurns
<1> QED
  BY <1>1, IInvInductive, PTL

\* Nobody waits while a turn is free.
THEOREM NoTurnIsLost == Spec => []NoTurnIdle
<1>1. IInv => NoTurnIdle
  BY DEF IInv, NoTurnIdle
<1> QED
  BY <1>1, IInvInductive, PTL

\* Between the start of a call and its end a turn is neither sold twice nor
\* mislaid, however many callers there are and however they fail.
THEOREM TurnsKeep == Spec => []TurnsAreSound
<1>1. WithinTurns /\ NoTurnIdle => TurnsAreSound
  BY DEF TurnsAreSound
<1> QED
  BY <1>1, TurnsAreLimited, NoTurnIsLost, PTL

\* Turns are handed out in the order they were asked for.
THEOREM TurnsInOrder == Spec => FirstComeFirstServed
<1> DEFINE InOrder ==
      \/ IsPrefix(waiting, waiting') /\ Holders' \subseteq Holders
      \/ waiting' = Tail(waiting) /\ Holders' \ Holders \subseteq {Head(waiting)}
<1>1. ASSUME IInv, [Next]_vars, waiting # <<>>
      PROVE  InOrder
  <2> USE <1>1 DEF IInv, TypeOK
  <2>1. CASE UNCHANGED vars
    <3>1. waiting' = waiting /\ Holders' = Holders
      BY <2>1 DEF vars, Holders, In
    <3> QED
      BY <3>1 DEF IsPrefix
  <2>2. ASSUME NEW c \in Callers, TakeATurn(c)
        PROVE  InOrder
    <3>1. waiting' = Append(waiting, c) /\ at' = [at EXCEPT ![c] = "parked"]
      BY <2>2, TurnsAssumption DEF TakeATurn
    <3>2. Holders' \subseteq Holders
      BY <3>1 DEF Holders, In
    <3>3. IsPrefix(waiting, waiting')
      BY <3>1 DEF IsPrefix
    <3> QED
      BY <3>2, <3>3
  <2>3. ASSUME NEW c \in Callers, Wake(c)
        PROVE  InOrder
    <3>1. waiting' = waiting /\ Holders' \subseteq Holders
      BY <2>3 DEF Wake, Holders, In
    <3> QED
      BY <3>1 DEF IsPrefix
  <2>4. ASSUME NEW c \in Callers, GiveTheTurnBack(c)
        PROVE  InOrder
    <3>1. /\ waiting' = Tail(waiting)
          /\ at' = [at EXCEPT ![c] = "outside", ![Head(waiting)] = "woken"]
      BY <2>4 DEF GiveTheTurnBack
    <3> QED
      BY <3>1 DEF Holders, In
  <2> QED
    BY <2>1, <2>2, <2>3, <2>4 DEF Next
<1>2. IInv /\ [Next]_vars => [waiting # <<>> => InOrder]_vars
  BY <1>1
<1> QED
  BY <1>2, IInvInductive, PTL DEF Spec, FirstComeFirstServed

-----------------------------------------------------------------------------
(* Accounts.                                                               *)

Asks == UNION {Does[c] : c \in Calls}
AskIds == {ask.id : ask \in Asks}
AskRecords ==
  [by : Accounts, write : Writes \cup {"mint"}, on : Accounts, id : AskIds, noting : BOOLEAN]
Started ==
  [account : Accounts, since : Nat, verified : BOOLEAN, row : {<<>>} \cup {<<r>> : r \in Row}]
TokenRecords == [account : Accounts, epoch : Nat, since : Nat]

RowsTyped ==
  /\ users \in [DOMAIN users -> Row]
  /\ DOMAIN users \subseteq Accounts /\ IsFiniteSet(DOMAIN users)
  /\ revoked \in [Accounts -> Nat]

AskedTyped ==
  /\ asked \in [DOMAIN asked -> AskRecords] /\ DOMAIN asked \subseteq Calls
  /\ \A c \in DOMAIN asked : [asked[c] EXCEPT !.noting = FALSE] \in Asks

ATypeOK ==
  /\ RowsTyped /\ AskedTyped
  /\ notes \in [DOMAIN notes -> {"fresh", "lapsed"}]
  /\ tokens \subseteq TokenRecords
  /\ begun \in [DOMAIN begun -> Started] /\ DOMAIN begun \subseteq SignIns
  /\ answered \subseteq Asks

\* An epoch is one more than the revocations there were when it was given.
RowsCount ==
  \A a \in Accounts : IF Exists(a) THEN users[a].epoch = revoked[a] + 1 ELSE revoked[a] = 0

Counted(a, epoch, since) == Exists(a) /\ epoch = since + 1 /\ since <= revoked[a]

TokensCount == \A t \in tokens : Counted(t.account, t.epoch, t.since)

BegunCount ==
  \A s \in DOMAIN begun : begun[s].row # <<>> =>
    Counted(begun[s].account, begun[s].row[1].epoch, begun[s].since)

\* A password that was right was verified against a row.
VerifiedHasRow == \A s \in DOMAIN begun : begun[s].verified => begun[s].row # <<>>

Creates == {"create", "createOperator"}

\* Where its note is yet to come, what a call made is there.
NotingStands ==
  \A c \in DOMAIN asked : asked[c].noting =>
    asked[c].id # NoId /\ (asked[c].write \in Creates => Exists(asked[c].on))

\* A write that was answered is remembered, and what it made is there.
AnsweredStands ==
  \A ask \in answered : Already(ask) /\ (ask.write \in Creates => Exists(ask.on))

NotesStand == NotingStands /\ AnsweredStands

(* The inductive invariant.  RevokedForGood is not inductive by itself: a  *)
(* token that does not do now must not come to do when its account is      *)
(* revoked or enabled again, which takes the exact count; and a token is   *)
(* made from a row read before, whose count must be known while a password *)
(* is verified.                                                            *)
AInv == ATypeOK /\ RowsCount /\ TokensCount /\ BegunCount /\ VerifiedHasRow /\ NotesStand

-----------------------------------------------------------------------------
(* Maps.                                                                   *)

LEMMA MapSetTyped ==
  ASSUME NEW S, NEW map, map \in [DOMAIN map -> S], NEW key, NEW value \in S
  PROVE  MapSet(map, key, value) \in [DOMAIN MapSet(map, key, value) -> S]
BY DEF MapSet

LEMMA MapDeleteTyped ==
  ASSUME NEW S, NEW map, map \in [DOMAIN map -> S], NEW keys
  PROVE  MapDelete(map, keys) \in [DOMAIN MapDelete(map, keys) -> S]
BY DEF MapDelete, Restrict

-----------------------------------------------------------------------------
(* The turns.                                                              *)

\* Every step takes, hands over or gives back a turn as DerivationSlots says, or
\* leaves the turns alone.
LEMMA TurnStep ==
  ASSUME [ANext]_avars
  PROVE  [Next]_vars
<1> USE DEF slots
<1>1. Callers = SignIns \cup Calls
  BY AccountsAssumption
<1>2. CASE UNCHANGED avars
  BY <1>2 DEF avars, vars
<1>3. ASSUME NEW c \in Callers, Resume(c) \/ Settle(c)
      PROVE  [Next]_vars
  BY <1>3 DEF Resume, Settle, Verify, EndRehash, EndCreate, Next
<1>4. ASSUME NEW s \in SignIns, BeginRehash(s)
      PROVE  [Next]_vars
  BY <1>1, <1>4 DEF BeginRehash, Next
<1>5. ASSUME NEW c \in Calls, Note(c)
      PROVE  [Next]_vars
  BY <1>5 DEF Note
<1>6. ASSUME NEW s \in SignIns, NEW a \in Does[s], BeginSignIn(s, a)
      PROVE  [Next]_vars
  BY <1>1, <1>6 DEF BeginSignIn, Next
<1>7. ASSUME NEW t \in tokens, Exchange(t)
      PROVE  [Next]_vars
  BY <1>7 DEF Exchange
<1>8. ASSUME NEW c \in Calls, NEW ask \in Does[c],
             Administer(c, ask) \/ Mint(c, ask) \/ BeginCreate(c, ask)
      PROVE  [Next]_vars
  BY <1>1, <1>8 DEF Administer, Mint, BeginCreate, Next
<1>9. ASSUME NEW c \in Commands, NEW ask \in Does[c], Command(c, ask)
      PROVE  [Next]_vars
  BY <1>9 DEF Command
<1>10. ASSUME NEW n \in DOMAIN notes, Lapse(n)
       PROVE  [Next]_vars
  BY <1>10 DEF Lapse
<1> QED
  BY <1>2, <1>3, <1>4, <1>5, <1>6, <1>7, <1>8, <1>9, <1>10 DEF ANext, Run

-----------------------------------------------------------------------------
(* Rows and what is counted from them.                                     *)

\* What any step does to the rows.
RowsStep ==
  \/ UNCHANGED <<users, revoked>>
  \/ \E write \in Writes \cup {"mint"}, a \in Accounts : Write(write, a)

LEMMA WriteKeepsRows ==
  ASSUME RowsTyped, RowsCount, NEW write, NEW a \in Accounts, Write(write, a)
  PROVE  /\ RowsTyped' /\ RowsCount' /\ DOMAIN users' = DOMAIN users \cup {a}
         /\ \A b \in Accounts : revoked[b] <= revoked'[b]
         /\ \A b \in DOMAIN users : b # a => users'[b] = users[b]
<1> USE DEF RowsTyped, Row
<1> DEFINE Becomes(row) ==
      /\ users' = MapSet(users, a, row)
      /\ \/ revoked' = revoked /\ row.epoch = (IF Exists(a) THEN users[a].epoch ELSE 1)
         \/ /\ Exists(a) /\ revoked' = [revoked EXCEPT ![a] = @ + 1]
            /\ row.epoch = users[a].epoch + 1
<1>1. \E row \in Row : Becomes(row)
  <2>1. CASE write \in {"create", "createOperator"} /\ ~Exists(a)
    <3> DEFINE row == [enabled |-> TRUE, admin |-> write = "createOperator", epoch |-> 1]
    <3>1. (write = "createOperator") \in BOOLEAN
      OBVIOUS
    <3>2. row \in Row /\ row.epoch = 1
      BY <3>1
    <3>3. users' = MapSet(users, a, row) /\ revoked' = revoked
      BY <2>1 DEF Write, SetRow, Revoke, Exists
    <3> QED
      BY <2>1, <3>2, <3>3
  <2>2. CASE Exists(a) /\ write \in {"disable", "revokeTokens"}
    <3> DEFINE before == IF write = "disable" THEN [users[a] EXCEPT !.enabled = FALSE] ELSE users[a]
               row == [before EXCEPT !.epoch = @ + 1]
    <3>1. before \in Row /\ before.epoch = users[a].epoch
      BY <2>2 DEF Exists
    <3> HIDE DEF before
    <3>2. row \in Row /\ row.epoch = users[a].epoch + 1
      BY <3>1
    <3>3. users' = MapSet(users, a, row) /\ revoked' = [revoked EXCEPT ![a] = @ + 1]
      BY <2>2 DEF Write, SetRow, Revoke, before
    <3> QED
      BY <2>2, <3>2, <3>3
  <2>3. CASE Exists(a) /\ write \in {"enable", "grantAdmin", "revokeAdmin"}
    <3> DEFINE row == IF write = "enable" THEN [users[a] EXCEPT !.enabled = TRUE]
                      ELSE [users[a] EXCEPT !.admin = (write = "grantAdmin")]
    <3>1. row \in Row /\ row.epoch = users[a].epoch
      BY <2>3 DEF Exists
    <3>2. users' = MapSet(users, a, row) /\ revoked' = revoked
      BY <2>3 DEF Write, SetRow, Revoke
    <3> QED
      BY <2>3, <3>1, <3>2
  <2>4. \/ write \in {"create", "createOperator"} /\ ~Exists(a)
        \/ Exists(a) /\ write \in {"disable", "revokeTokens", "enable", "grantAdmin", "revokeAdmin"}
    BY DEF Write, SetRow, Revoke
  <2> QED
    BY <2>1, <2>2, <2>3, <2>4
<1>a. PICK row \in Row : Becomes(row)
  BY <1>1
<1>b. users' = MapSet(users, a, row)
  BY <1>a
<1>2. /\ DOMAIN users' = DOMAIN users \cup {a} /\ users'[a] = row
      /\ \A b \in DOMAIN users : b # a => users'[b] = users[b]
  BY <1>b DEF MapSet
<1>3. IsFiniteSet(DOMAIN users')
  BY <1>2, FS_AddElement
<1>4. users' \in [DOMAIN users' -> Row]
  BY <1>a, MapSetTyped
<1>5. revoked' \in [Accounts -> Nat] /\ \A b \in Accounts : revoked[b] <= revoked'[b]
  BY <1>a
<1>6. RowsCount'
  BY <1>a, <1>2 DEF RowsCount, Exists
<1> QED
  BY <1>2, <1>3, <1>4, <1>5, <1>6

LEMMA RowsStepKeeps ==
  ASSUME RowsTyped, RowsCount, RowsStep
  PROVE  /\ RowsTyped' /\ RowsCount' /\ DOMAIN users \subseteq DOMAIN users'
         /\ \A a \in Accounts : revoked[a] <= revoked'[a]
         /\ \A a \in Accounts, epoch \in Nat, since \in Nat :
              Counted(a, epoch, since) => Counted(a, epoch, since)'
<1>1. CASE UNCHANGED <<users, revoked>>
  BY <1>1 DEF RowsTyped, RowsCount, Exists, Counted
<1>2. ASSUME NEW write, NEW a \in Accounts, Write(write, a)
      PROVE  /\ RowsTyped' /\ RowsCount' /\ DOMAIN users \subseteq DOMAIN users'
             /\ \A b \in Accounts : revoked[b] <= revoked'[b]
  BY <1>2, WriteKeepsRows
<1>3. /\ RowsTyped' /\ RowsCount' /\ DOMAIN users \subseteq DOMAIN users'
      /\ \A a \in Accounts : revoked[a] <= revoked'[a]
  BY <1>1, <1>2 DEF RowsStep
<1> QED
  BY <1>3 DEF RowsTyped, Counted, Exists

-----------------------------------------------------------------------------
(* Calls and their notes.                                                  *)

\* A call as it was sent, and the same call with its note to leave.
LEMMA AskTyped ==
  ASSUME NEW c \in Calls, NEW ask \in Does[c]
  PROVE  /\ ask \in AskRecords /\ ask \in Asks /\ ~ask.noting
         /\ [ask EXCEPT !.noting = FALSE] = ask
<1>1. /\ ask = [by |-> ask.by, write |-> ask.write, on |-> ask.on, id |-> ask.id, noting |-> FALSE]
      /\ ask.by \in Accounts /\ ask.write \in Writes \cup {"mint"} /\ ask.on \in Accounts
  BY AccountsAssumption
<1>2. ask \in Asks
  BY DEF Asks
<1>3. ask.id \in AskIds
  BY <1>2 DEF AskIds
<1>4. PICK by \in Accounts, write \in Writes \cup {"mint"}, on \in Accounts, id \in AskIds :
           ask = [by |-> by, write |-> write, on |-> on, id |-> id, noting |-> FALSE]
  BY <1>1, <1>3, Zenon
<1>5. ask \in AskRecords /\ ask.noting = FALSE
  BY <1>4 DEF AskRecords
<1>6. [ask EXCEPT !.noting = FALSE] = ask
  BY <1>5 DEF AskRecords
<1> QED
  BY <1>2, <1>5, <1>6

LEMMA NotingTyped ==
  ASSUME NEW ask \in AskRecords
  PROVE  LET noted == [ask EXCEPT !.noting = TRUE]
         IN  /\ noted \in AskRecords /\ noted.noting
             /\ noted.id = ask.id /\ noted.write = ask.write /\ noted.on = ask.on
             /\ [noted EXCEPT !.noting = FALSE] = [ask EXCEPT !.noting = FALSE]
BY DEF AskRecords

LEMMA AskedLess ==
  ASSUME AskedTyped, NotingStands, NEW c, asked' = MapDelete(asked, {c}),
         DOMAIN users \subseteq DOMAIN users'
  PROVE  AskedTyped' /\ NotingStands'
<1>1. /\ DOMAIN asked' = DOMAIN asked \ {c}
      /\ \A k \in DOMAIN asked' : asked'[k] = asked[k]
  BY DEF MapDelete, Restrict
<1> QED
  BY <1>1, MapDeleteTyped DEF AskedTyped, NotingStands, Exists

LEMMA AskedMore ==
  ASSUME AskedTyped, NotingStands, NEW c \in Calls, NEW ask \in AskRecords,
         asked' = MapSet(asked, c, ask), [ask EXCEPT !.noting = FALSE] \in Asks,
         ask.noting => ask.id # NoId /\ (ask.write \in Creates => Exists(ask.on)'),
         DOMAIN users \subseteq DOMAIN users'
  PROVE  AskedTyped' /\ NotingStands'
<1>1. /\ DOMAIN asked' = DOMAIN asked \cup {c} /\ asked'[c] = ask
      /\ \A k \in DOMAIN asked : k # c => asked'[k] = asked[k]
  BY DEF MapSet
<1>2. asked' \in [DOMAIN asked' -> AskRecords]
  BY MapSetTyped DEF AskedTyped
<1> QED
  BY <1>1, <1>2 DEF AskedTyped, NotingStands, Exists

LEMMA ReturnsKeeps ==
  ASSUME AskedTyped, NotingStands, NEW c \in Calls, NEW ask \in AskRecords,
         [ask EXCEPT !.noting = FALSE] \in Asks, Returns(c, ask),
         ask.write \in Creates => Exists(ask.on)',
         DOMAIN users \subseteq DOMAIN users'
  PROVE  AskedTyped' /\ NotingStands' /\ answered' = answered
<1>1. CASE ask.id # NoId
  <2> DEFINE noted == [ask EXCEPT !.noting = TRUE]
  <2>1. asked' = MapSet(asked, c, noted) /\ answered' = answered
    BY <1>1 DEF Returns
  <2>2. /\ noted \in AskRecords /\ noted.id = ask.id /\ noted.write = ask.write
        /\ noted.on = ask.on /\ [noted EXCEPT !.noting = FALSE] \in Asks
    BY NotingTyped
  <2> HIDE DEF noted
  <2>3. noted.noting => noted.id # NoId /\ (noted.write \in Creates => Exists(noted.on)')
    BY <1>1, <2>2
  <2> QED
    BY <2>1, <2>2, <2>3, AskedMore
<1>2. CASE ask.id = NoId
  BY <1>2, AskedLess DEF Returns
<1> QED
  BY <1>1, <1>2

\* Notes that are fresh stay, and so do accounts: what was answered stands.
LEMMA AnsweredKeeps ==
  ASSUME AnsweredStands, answered' \subseteq answered,
         DOMAIN users \subseteq DOMAIN users',
         \A ask \in answered' : Already(ask) => Already(ask)'
  PROVE  AnsweredStands'
BY DEF AnsweredStands, Exists

LEMMA NotesUnchanged ==
  ASSUME UNCHANGED notes
  PROVE  \A ask : Already(ask) => Already(ask)'
BY DEF Already

\* recordWrite
LEMMA RecordWriteKeeps ==
  ASSUME notes \in [DOMAIN notes -> {"fresh", "lapsed"}], NEW ask, RecordWrite(ask)
  PROVE  /\ notes' \in [DOMAIN notes' -> {"fresh", "lapsed"}]
         /\ \A other : Already(other) => Already(other)'
         /\ NoteOf(ask) \in DOMAIN notes' /\ notes'[NoteOf(ask)] = "fresh"
<1> DEFINE noted == MapSet(notes, NoteOf(ask), "fresh")
<1>1. /\ DOMAIN noted = DOMAIN notes \cup {NoteOf(ask)} /\ noted[NoteOf(ask)] = "fresh"
      /\ \A n \in DOMAIN notes : n # NoteOf(ask) => noted[n] = notes[n]
  BY DEF MapSet
<1>2. noted \in [DOMAIN noted -> {"fresh", "lapsed"}]
  BY MapSetTyped
<1> HIDE DEF noted
<1>3. notes' = noted \/ notes' = Restrict(noted, {n \in DOMAIN noted : noted[n] = "fresh"})
  BY DEF RecordWrite, noted
<1>4. notes' \in [DOMAIN notes' -> {"fresh", "lapsed"}]
  BY <1>2, <1>3 DEF Restrict
<1>5. \A n \in DOMAIN noted : noted[n] = "fresh" => n \in DOMAIN notes' /\ notes'[n] = "fresh"
  BY <1>3 DEF Restrict
<1> QED
  BY <1>1, <1>4, <1>5 DEF Already

-----------------------------------------------------------------------------
(* Each step keeps the invariant.                                          *)

CountsKept ==
  \A a \in Accounts, epoch \in Nat, since \in Nat :
    Counted(a, epoch, since) => Counted(a, epoch, since)'

\* Tokens and sign-ins that were there are counted as they were.
LEMMA CountsKeep ==
  ASSUME AInv, CountsKept, tokens' \subseteq tokens, begun' = begun
  PROVE  TokensCount' /\ BegunCount'
<1> USE DEF AInv, ATypeOK
<1>1. TokensCount'
  BY DEF TokensCount, CountsKept, TokenRecords
<1>2. ASSUME NEW s \in DOMAIN begun, begun[s].row # <<>>
      PROVE  Counted(begun[s].account, begun[s].row[1].epoch, begun[s].since)'
  <2>1. begun[s] \in Started
    BY <1>2
  <2>2. PICK row \in Row : begun[s].row = <<row>>
    BY <1>2, <2>1 DEF Started
  <2>3. begun[s].row[1].epoch \in Nat /\ begun[s].since \in Nat /\ begun[s].account \in Accounts
    BY <2>1, <2>2 DEF Started, Row
  <2>4. Counted(begun[s].account, begun[s].row[1].epoch, begun[s].since)
    BY <1>2 DEF BegunCount
  <2> QED
    BY <1>2, <2>3, <2>4 DEF CountsKept
<1> QED
  BY <1>1, <1>2 DEF BegunCount

LEMMA StutterStep ==
  ASSUME AInv, UNCHANGED <<users, notes, tokens, begun, asked, revoked, answered>>
  PROVE  AInv'
BY DEF AInv, ATypeOK, RowsTyped, AskedTyped, RowsCount, TokensCount, BegunCount, VerifiedHasRow,
       NotesStand, NotingStands, AnsweredStands, Counted, Exists, Already, NoteOf

\* What a sign-in or an exchange changes: the rows and the notes are as they were.
LEMMA TokensStep ==
  ASSUME AInv, UNCHANGED <<users, notes, asked, revoked, answered>>,
         begun' \in [DOMAIN begun' -> Started], DOMAIN begun' \subseteq SignIns,
         \A s \in DOMAIN begun' : begun'[s].row # <<>> =>
           Counted(begun'[s].account, begun'[s].row[1].epoch, begun'[s].since),
         VerifiedHasRow',
         tokens' \subseteq TokenRecords,
         \A t \in tokens' : Counted(t.account, t.epoch, t.since)
  PROVE  AInv'
BY DEF AInv, ATypeOK, RowsTyped, AskedTyped, RowsCount, TokensCount, BegunCount, VerifiedHasRow,
       NotesStand, NotingStands, AnsweredStands, Counted, Exists, Already, NoteOf

LEMMA ForgetKeeps ==
  ASSUME AInv, NEW s, begun' = MapDelete(begun, {s})
  PROVE  /\ begun' \in [DOMAIN begun' -> Started] /\ DOMAIN begun' \subseteq SignIns
         /\ \A r \in DOMAIN begun' : begun'[r].row # <<>> =>
              Counted(begun'[r].account, begun'[r].row[1].epoch, begun'[r].since)
         /\ VerifiedHasRow'
BY DEF AInv, ATypeOK, BegunCount, VerifiedHasRow, MapDelete, Restrict

LEMMA SignedInKeeps ==
  ASSUME AInv, NEW s \in DOMAIN begun, begun[s].row # <<>>, SignedIn(s)
  PROVE  /\ begun' = MapDelete(begun, {s})
         /\ tokens' \subseteq TokenRecords
         /\ \A t \in tokens' : Counted(t.account, t.epoch, t.since)
<1>1. begun[s] \in Started
  BY DEF AInv, ATypeOK
<1>2. PICK row \in Row : begun[s].row = <<row>>
  BY <1>1 DEF Started
<1>3. Counted(begun[s].account, row.epoch, begun[s].since)
  BY <1>2, SMTT(30) DEF AInv, BegunCount
<1> DEFINE new == Token(begun[s].account, begun[s].row[1], begun[s].since)
<1>4. /\ new \in TokenRecords
      /\ new.account = begun[s].account /\ new.epoch = row.epoch /\ new.since = begun[s].since
  BY <1>1, <1>2 DEF Token, TokenRecords, Started, Row
<1>5. begun' = MapDelete(begun, {s}) /\ tokens' \subseteq tokens \cup {new}
  BY DEF SignedIn, Forget
<1> HIDE DEF new
<1> QED
  BY <1>3, <1>4, <1>5 DEF AInv, ATypeOK, TokensCount

LEMMA BeginSignInStep ==
  ASSUME AInv, NEW s \in SignIns, NEW a \in Does[s], BeginSignIn(s, a)
  PROVE  AInv'
<1>1. a \in Accounts
  BY AccountsAssumption
<1> DEFINE new == [account |-> a, since |-> revoked[a], verified |-> FALSE,
                   row |-> IF Exists(a) THEN <<users[a]>> ELSE <<>>]
<1>2. /\ new \in Started /\ new.account = a /\ new.since = revoked[a]
      /\ new.row # <<>> => Exists(a) /\ new.row[1] = users[a]
  BY <1>1 DEF AInv, ATypeOK, RowsTyped, Started, Exists
<1>3. new.row # <<>> => Counted(new.account, new.row[1].epoch, new.since)
  BY <1>1, <1>2 DEF AInv, ATypeOK, RowsTyped, Row, RowsCount, Counted, Exists
<1>4. begun' = MapSet(begun, s, new)
  BY DEF BeginSignIn
<1> HIDE DEF new
<1>5. /\ DOMAIN begun' = DOMAIN begun \cup {s} /\ begun'[s] = new
      /\ \A r \in DOMAIN begun : r # s => begun'[r] = begun[r]
  BY <1>4 DEF MapSet
<1>6. begun' \in [DOMAIN begun' -> Started] /\ DOMAIN begun' \subseteq SignIns
  BY <1>2, <1>4, <1>5, MapSetTyped DEF AInv, ATypeOK
<1>7. \A r \in DOMAIN begun' : begun'[r].row # <<>> =>
        Counted(begun'[r].account, begun'[r].row[1].epoch, begun'[r].since)
  BY <1>3, <1>5 DEF AInv, BegunCount
<1>8. VerifiedHasRow'
  <2>1. ~new.verified
    BY DEF new
  <2> QED
    BY <1>5, <2>1 DEF AInv, VerifiedHasRow
<1> QED
  BY <1>6, <1>7, <1>8, TokensStep DEF BeginSignIn, AInv, ATypeOK, TokensCount

LEMMA VerifyStep ==
  ASSUME AInv, NEW s, Verify(s)
  PROVE  AInv'
<1>1. s \in DOMAIN begun /\ UNCHANGED <<users, notes, asked, revoked, answered>>
  BY DEF Verify
<1>2. CASE Forget(s) /\ UNCHANGED tokens
  <2>1. begun' = MapDelete(begun, {s})
    BY <1>2 DEF Forget
  <2> QED
    BY <1>1, <1>2, <2>1, ForgetKeeps, TokensStep DEF AInv, ATypeOK, TokensCount
<1>3. CASE Passes(begun[s]) /\ SignedIn(s)
  BY <1>1, <1>3, SignedInKeeps, ForgetKeeps, TokensStep DEF Passes
<1>4. CASE /\ Passes(begun[s]) /\ begun' = [begun EXCEPT ![s].verified = TRUE]
           /\ UNCHANGED tokens
  <2>1. /\ DOMAIN begun' = DOMAIN begun
        /\ begun' \in [DOMAIN begun -> Started]
        /\ \A r \in DOMAIN begun : /\ begun'[r].account = begun[r].account
                                  /\ begun'[r].row = begun[r].row
                                  /\ begun'[r].since = begun[r].since
                                  /\ r # s => begun'[r].verified = begun[r].verified
    BY <1>1, <1>4 DEF AInv, ATypeOK, Started
  <2>2. VerifiedHasRow'
    BY <1>4, <2>1 DEF AInv, VerifiedHasRow, Passes
  <2> QED
    BY <1>1, <1>4, <2>1, <2>2, TokensStep DEF AInv, ATypeOK, BegunCount, TokensCount
<1> QED
  BY <1>2, <1>3, <1>4 DEF Verify

LEMMA EndRehashStep ==
  ASSUME AInv, NEW s, EndRehash(s)
  PROVE  AInv'
<1>1. s \in DOMAIN begun /\ begun[s].row # <<>>
  BY DEF EndRehash, AInv, VerifiedHasRow
<1> QED
  BY <1>1, SignedInKeeps, ForgetKeeps, TokensStep DEF EndRehash

LEMMA ExchangeStep ==
  ASSUME AInv, NEW t \in tokens, Exchange(t)
  PROVE  AInv'
<1> DEFINE new == Token(t.account, users[t.account], revoked[t.account])
<1>1. t.account \in DOMAIN users /\ t.account \in Accounts
  BY DEF Exchange, Usable, Exists, AInv, ATypeOK, TokenRecords
<1>2. new \in TokenRecords /\ Counted(new.account, new.epoch, new.since)
  BY <1>1 DEF AInv, ATypeOK, RowsTyped, Row, RowsCount, Counted, Exists, Token, TokenRecords
<1>3. tokens' = tokens \cup {new}
  BY DEF Exchange
<1> HIDE DEF new
<1> QED
  BY <1>2, <1>3, TokensStep DEF Exchange, AInv, ATypeOK, TokensCount, BegunCount, VerifiedHasRow

\* What a step that writes a row, or none, and moves one call leaves to show.
LEMMA RowsAndCallsStep ==
  ASSUME AInv, RowsStep, tokens' \subseteq tokens, begun' = begun,
         notes' \in [DOMAIN notes' -> {"fresh", "lapsed"}],
         AskedTyped', NotingStands',
         answered' \subseteq answered, \A ask \in answered' : Already(ask) => Already(ask)'
  PROVE  AInv'
<1>1. /\ RowsTyped' /\ RowsCount' /\ DOMAIN users \subseteq DOMAIN users' /\ CountsKept
  BY RowsStepKeeps DEF AInv, ATypeOK, CountsKept
<1>2. TokensCount' /\ BegunCount' /\ VerifiedHasRow'
  BY <1>1, CountsKeep DEF AInv, VerifiedHasRow
<1>3. AnsweredStands'
  BY <1>1, AnsweredKeeps DEF AInv, NotesStand
<1> QED
  BY <1>1, <1>2, <1>3 DEF AInv, ATypeOK, NotesStand

LEMMA RowsStepGrows ==
  ASSUME AInv, RowsStep
  PROVE  DOMAIN users \subseteq DOMAIN users'
BY RowsStepKeeps DEF AInv, ATypeOK

LEMMA AdministerStep ==
  ASSUME AInv, NEW c \in Calls, NEW ask \in Does[c], Administer(c, ask)
  PROVE  AInv'
<1>1. /\ ask \in AskRecords /\ [ask EXCEPT !.noting = FALSE] \in Asks
      /\ ask.on \in Accounts /\ ask.write \in Writes \cup {"mint"}
      /\ ask.write \notin Creates
  BY AskTyped DEF Administer, Creates, AskRecords
<1>2. AskedTyped /\ NotingStands
  BY DEF AInv, ATypeOK, NotesStand
<1>3. UNCHANGED <<notes, begun, tokens>>
  BY DEF Administer
<1>4. /\ RowsStep
      /\ \/ asked' = MapDelete(asked, {c}) /\ answered' = answered
         \/ Returns(c, ask)
  BY <1>1 DEF Administer, Refused, RowsStep
<1>5. DOMAIN users \subseteq DOMAIN users'
  BY <1>4, RowsStepGrows
<1>6. AskedTyped' /\ NotingStands' /\ answered' = answered
  BY <1>1, <1>2, <1>4, <1>5, AskedLess, ReturnsKeeps
<1> QED
  BY <1>3, <1>4, <1>6, NotesUnchanged, RowsAndCallsStep DEF AInv, ATypeOK

LEMMA BeginCreateStep ==
  ASSUME AInv, NEW c \in Calls, NEW ask \in Does[c], BeginCreate(c, ask)
  PROVE  AInv'
<1>1. /\ ask \in AskRecords /\ ask.noting = FALSE /\ [ask EXCEPT !.noting = FALSE] \in Asks
  BY AskTyped DEF AskRecords
<1>2. AskedTyped /\ NotingStands
  BY DEF AInv, ATypeOK, NotesStand
<1>3. UNCHANGED <<users, notes, tokens, begun, revoked>>
  BY DEF BeginCreate
<1>4. AskedTyped' /\ NotingStands' /\ answered' = answered
  <2>1. CASE Returns(c, ask) /\ Exists(ask.on)
    BY <1>1, <1>2, <1>3, <2>1, ReturnsKeeps DEF Exists
  <2>2. CASE asked' = MapSet(asked, c, ask) /\ answered' = answered
    BY <1>1, <1>2, <1>3, <2>2, AskedMore
  <2> QED
    BY <2>1, <2>2 DEF BeginCreate
<1> QED
  BY <1>3, <1>4, NotesUnchanged, RowsAndCallsStep DEF AInv, ATypeOK, RowsStep

LEMMA EndCreateStep ==
  ASSUME AInv, NEW c, EndCreate(c)
  PROVE  AInv'
<1>1. c \in DOMAIN asked /\ UNCHANGED <<notes, tokens, begun>>
  BY DEF EndCreate
<1>2. /\ c \in Calls /\ asked[c] \in AskRecords /\ [asked[c] EXCEPT !.noting = FALSE] \in Asks
      /\ asked[c].on \in Accounts /\ asked[c].write \in Writes \cup {"mint"}
      /\ AskedTyped /\ NotingStands
  BY <1>1 DEF AInv, ATypeOK, AskedTyped, AskRecords, NotesStand
<1>3. CASE Refused(c)
  BY <1>1, <1>2, <1>3, AskedLess, NotesUnchanged, RowsAndCallsStep
     DEF Refused, RowsStep, AInv, ATypeOK
<1>4. CASE Write(asked[c].write, asked[c].on) /\ Returns(c, asked[c])
  <2>1. RowsStep /\ asked[c].on \in DOMAIN users'
    BY <1>2, <1>4, WriteKeepsRows DEF RowsStep, AInv, ATypeOK
  <2>2. AskedTyped' /\ NotingStands' /\ answered' = answered
    BY <1>2, <1>4, <2>1, RowsStepGrows, ReturnsKeeps DEF Exists
  <2> QED
    BY <1>1, <2>1, <2>2, NotesUnchanged, RowsAndCallsStep DEF AInv, ATypeOK
<1> QED
  BY <1>3, <1>4 DEF EndCreate

LEMMA CommandStep ==
  ASSUME AInv, NEW c \in Commands, NEW ask \in Does[c], Command(c, ask)
  PROVE  AInv'
<1>1. ask.write \in Writes /\ ask.on \in Accounts
  BY AccountsAssumption
<1>2. RowsStep /\ UNCHANGED <<notes, tokens, begun, asked, answered>>
  BY <1>1 DEF Command, RowsStep
<1>3. AskedTyped' /\ NotingStands'
  BY <1>2, RowsStepGrows DEF AInv, ATypeOK, AskedTyped, NotesStand, NotingStands, Exists
<1> QED
  BY <1>2, <1>3, NotesUnchanged, RowsAndCallsStep DEF AInv, ATypeOK

LEMMA NoteStep ==
  ASSUME AInv, NEW c, Note(c)
  PROVE  AInv'
<1> DEFINE ask == [asked[c] EXCEPT !.noting = FALSE]
<1>1. /\ c \in DOMAIN asked /\ asked[c].noting
      /\ UNCHANGED <<users, revoked, tokens, begun>> /\ asked' = MapDelete(asked, {c})
      /\ answered' = answered \cup {ask}
  BY DEF Note
<1>2. /\ asked[c] \in AskRecords /\ ask \in Asks /\ AskedTyped /\ NotingStands
      /\ asked[c].id # NoId /\ (asked[c].write \in Creates => Exists(asked[c].on))
  BY <1>1 DEF AInv, ATypeOK, AskedTyped, NotesStand, NotingStands
<1>3. /\ ask.id = asked[c].id /\ ask.write = asked[c].write /\ ask.on = asked[c].on
      /\ ask.by = asked[c].by
  BY <1>2 DEF AskRecords
<1> HIDE DEF ask
<1>4. /\ notes' \in [DOMAIN notes' -> {"fresh", "lapsed"}]
      /\ \A other : Already(other) => Already(other)'
      /\ NoteOf(asked[c]) \in DOMAIN notes' /\ notes'[NoteOf(asked[c])] = "fresh"
  BY <1>1, RecordWriteKeeps DEF Note, AInv, ATypeOK
<1>5. PICK made : made = ask
  OBVIOUS
<1>6. NoteOf(made) \in DOMAIN notes' /\ notes'[NoteOf(made)] = "fresh"
  BY <1>3, <1>4, <1>5 DEF NoteOf
<1>7. AnsweredStands'
  BY <1>1, <1>2, <1>3, <1>4, <1>5, <1>6 DEF AInv, NotesStand, AnsweredStands, Already, Exists
<1>8. AskedTyped' /\ NotingStands'
  BY <1>1, <1>2, AskedLess
<1>9. RowsTyped' /\ RowsCount' /\ TokensCount' /\ BegunCount' /\ VerifiedHasRow'
  BY <1>1 DEF AInv, ATypeOK, RowsTyped, RowsCount, TokensCount, BegunCount, VerifiedHasRow,
              Counted, Exists
<1> QED
  BY <1>1, <1>2, <1>4, <1>7, <1>8, <1>9 DEF AInv, ATypeOK, NotesStand

LEMMA MintStep ==
  ASSUME AInv, NEW c \in Calls, NEW ask \in Does[c], Mint(c, ask)
  PROVE  AInv'
<1>1. /\ ask \in AskRecords /\ ask.on \in Accounts /\ ask.write = "mint"
      /\ [ask EXCEPT !.noting = FALSE] \in Asks
  BY AskTyped DEF Mint, AskRecords
<1>2. /\ UNCHANGED <<begun, users, revoked>> /\ AskedTyped /\ NotingStands
      /\ notes \in [DOMAIN notes -> {"fresh", "lapsed"}] /\ tokens \subseteq TokenRecords
  BY DEF Mint, AInv, ATypeOK, NotesStand
<1>3. CASE Refused(c) /\ UNCHANGED notes
  BY <1>2, <1>3, AskedLess, NotesUnchanged, RowsAndCallsStep DEF Refused, RowsStep
<1>4. CASE Returns(c, ask) /\ UNCHANGED <<tokens, notes>>
  <2>1. AskedTyped' /\ NotingStands' /\ answered' = answered
    BY <1>1, <1>2, <1>4, ReturnsKeeps DEF Creates
  <2> QED
    BY <1>2, <1>4, <2>1, NotesUnchanged, RowsAndCallsStep DEF RowsStep
<1>5. CASE /\ Exists(ask.on) /\ Returns(c, ask)
           /\ tokens' = tokens \cup {Token(ask.on, users[ask.on], revoked[ask.on])}
           /\ RecordWrite(ask) \/ UNCHANGED notes
  <2> DEFINE new == Token(ask.on, users[ask.on], revoked[ask.on])
  <2>1. new \in TokenRecords /\ Counted(new.account, new.epoch, new.since)
    BY <1>1, <1>5 DEF AInv, ATypeOK, RowsTyped, Row, RowsCount, Counted, Exists, Token,
                      TokenRecords
  <2>2. tokens' = tokens \cup {new}
    BY <1>5
  <2> HIDE DEF new
  <2>3. AskedTyped' /\ NotingStands' /\ answered' = answered
    BY <1>1, <1>2, <1>5, ReturnsKeeps DEF Creates
  <2>4. /\ notes' \in [DOMAIN notes' -> {"fresh", "lapsed"}]
        /\ \A other : Already(other) => Already(other)'
    BY <1>2, <1>5, RecordWriteKeeps, NotesUnchanged
  <2>5. AnsweredStands'
    BY <1>2, <2>3, <2>4, AnsweredKeeps DEF AInv, NotesStand
  <2>6. TokensCount'
    BY <1>2, <2>1, <2>2 DEF AInv, TokensCount, Counted, Exists
  <2>7. RowsTyped' /\ RowsCount' /\ BegunCount' /\ VerifiedHasRow'
    BY <1>2 DEF AInv, ATypeOK, RowsTyped, RowsCount, BegunCount, VerifiedHasRow, Counted, Exists
  <2> QED
    BY <1>2, <2>1, <2>2, <2>3, <2>4, <2>5, <2>6, <2>7 DEF AInv, ATypeOK, NotesStand
<1> QED
  BY <1>3, <1>4, <1>5 DEF Mint

LEMMA LapseStep ==
  ASSUME AInv, NEW n \in DOMAIN notes, Lapse(n)
  PROVE  AInv'
<1>1. /\ notes' = [notes EXCEPT ![n] = "lapsed"]
      /\ answered' = {ask \in answered : NoteOf(ask) # n}
      /\ UNCHANGED <<users, tokens, begun, asked, revoked>>
  BY DEF Lapse
<1>2. /\ notes' \in [DOMAIN notes' -> {"fresh", "lapsed"}] /\ DOMAIN notes' = DOMAIN notes
      /\ \A m \in DOMAIN notes : m # n => notes'[m] = notes[m]
  BY <1>1 DEF AInv, ATypeOK
<1>3. \A ask \in answered' : Already(ask) => Already(ask)'
  BY <1>1, <1>2 DEF Already
<1>4. AskedTyped' /\ NotingStands'
  BY <1>1 DEF AInv, ATypeOK, AskedTyped, NotesStand, NotingStands, Exists
<1> QED
  BY <1>1, <1>2, <1>3, <1>4, RowsAndCallsStep DEF RowsStep

-----------------------------------------------------------------------------

LEMMA AInvStart == AInit => AInv
<1> SUFFICES ASSUME AInit
             PROVE  AInv
  OBVIOUS
<1> USE DEF AInit
<1>0. Founders \cup Members \subseteq Accounts /\ IsFiniteSet(Founders \cup Members)
  BY AccountsAssumption
<1>1. \A a \in Founders \cup Members :
        users[a] = [enabled |-> TRUE, admin |-> (a \in Founders), epoch |-> 1]
  OBVIOUS
<1>2. \A a \in Founders \cup Members : users[a] \in Row /\ users[a].epoch = 1
  <2> SUFFICES ASSUME NEW a \in Founders \cup Members
               PROVE  users[a] \in Row /\ users[a].epoch = 1
    OBVIOUS
  <2>1. (a \in Founders) \in BOOLEAN
    OBVIOUS
  <2> QED
    BY <1>1, <2>1 DEF Row
<1>3. RowsTyped
  BY <1>0, <1>2 DEF RowsTyped
<1>4. ATypeOK
  BY <1>0, <1>3 DEF ATypeOK, AskedTyped, TokenRecords
<1>5. RowsCount
  BY <1>2 DEF RowsCount, Exists
<1>6. TokensCount
  BY <1>0 DEF TokensCount, Counted, Exists
<1>7. BegunCount /\ VerifiedHasRow /\ NotesStand
  BY DEF BegunCount, VerifiedHasRow, NotesStand, NotingStands, AnsweredStands
<1> QED
  BY <1>4, <1>5, <1>6, <1>7 DEF AInv

LEMMA AInvStep == AInv /\ [ANext]_avars => AInv'
<1> SUFFICES ASSUME AInv, [ANext]_avars
             PROVE  AInv'
  OBVIOUS
<1>1. CASE UNCHANGED avars
  BY <1>1, StutterStep DEF avars
<1>2. ASSUME NEW c \in Callers, Resume(c)
      PROVE  AInv'
  BY <1>2, StutterStep DEF Resume
<1>3. ASSUME NEW c \in Callers, Settle(c)
      PROVE  AInv'
  BY <1>3, VerifyStep, EndRehashStep, EndCreateStep DEF Settle
<1>4. ASSUME NEW s \in SignIns, BeginRehash(s)
      PROVE  AInv'
  BY <1>4, StutterStep DEF BeginRehash
<1>5. ASSUME NEW c \in Calls, Note(c)
      PROVE  AInv'
  BY <1>5, NoteStep
<1>6. ASSUME NEW s \in SignIns, NEW a \in Does[s], BeginSignIn(s, a)
      PROVE  AInv'
  BY <1>6, BeginSignInStep
<1>7. ASSUME NEW t \in tokens, Exchange(t)
      PROVE  AInv'
  BY <1>7, ExchangeStep
<1>8. ASSUME NEW c \in Calls, NEW ask \in Does[c],
             Administer(c, ask) \/ Mint(c, ask) \/ BeginCreate(c, ask)
      PROVE  AInv'
  BY <1>8, AdministerStep, MintStep, BeginCreateStep
<1>9. ASSUME NEW c \in Commands, NEW ask \in Does[c], Command(c, ask)
      PROVE  AInv'
  BY <1>9, CommandStep
<1>10. ASSUME NEW n \in DOMAIN notes, Lapse(n)
       PROVE  AInv'
  BY <1>10, LapseStep
<1> QED
  BY <1>1, <1>2, <1>3, <1>4, <1>5, <1>6, <1>7, <1>8, <1>9, <1>10 DEF ANext, Run

(* The inductive invariant holds in every state that is reached.           *)
THEOREM AccountsAreCounted == ASpec => []AInv
BY AInvStart, AInvStep, PTL DEF ASpec

(* Whatever the accounts, the requests and the commands: a token that does *)
(* comes from a record read after the last revocation of its account.      *)
THEOREM RevocationIsForGood == ASpec => []RevokedForGood
<1>1. AInv => RevokedForGood
  <2> SUFFICES ASSUME AInv, NEW t \in tokens, Usable(t)
               PROVE  t.since = revoked[t.account]
    BY DEF RevokedForGood
  <2>1. /\ t \in TokenRecords /\ Counted(t.account, t.epoch, t.since)
        /\ Exists(t.account) /\ t.epoch >= users[t.account].epoch
    BY DEF AInv, ATypeOK, TokensCount, Usable
  <2>2. users[t.account].epoch = revoked[t.account] + 1 /\ revoked[t.account] \in Nat
    BY <2>1 DEF AInv, ATypeOK, RowsTyped, RowsCount, TokenRecords
  <2> QED
    BY <2>1, <2>2 DEF Counted, TokenRecords
<1> QED
  BY <1>1, AccountsAreCounted, PTL

-----------------------------------------------------------------------------
(* Operators.                                                              *)

LEMMA WriteSpares ==
  ASSUME RowsTyped, RowsCount, NEW write, NEW a \in Accounts, Write(write, a),
         NEW o \in Operators(users), o # a \/ write \notin {"disable", "revokeAdmin"}
  PROVE  o \in Operators(users')
<1>1. o \in DOMAIN users /\ users[o] \in Row /\ users[o].admin /\ users[o].enabled
  BY DEF Operators, RowsTyped
<1>2. CASE o # a
  BY <1>1, <1>2, WriteKeepsRows DEF Operators
<1>3. CASE o = a /\ write \notin {"disable", "revokeAdmin"}
  <2>1. \/ write = "revokeTokens" /\ users' = MapSet(users, a, [users[a] EXCEPT !.epoch = @ + 1])
        \/ write = "enable" /\ users' = MapSet(users, a, [users[a] EXCEPT !.enabled = TRUE])
        \/ write = "grantAdmin" /\ users' = MapSet(users, a, [users[a] EXCEPT !.admin = TRUE])
    BY <1>1, <1>3 DEF Write, SetRow, Revoke, Exists
  <2>2. o \in DOMAIN users' /\ users'[o].admin /\ users'[o].enabled
    BY <1>1, <1>3, <2>1 DEF MapSet, Row
  <2> QED
    BY <2>2 DEF Operators
<1> QED
  BY <1>2, <1>3

LEMMA OneOperatorStays ==
  ASSUME AInv, Operators(users) # {}, NEW write, NEW a \in Accounts, Write(write, a),
         ~LastOperator(write, a)
  PROVE  Operators(users') # {}
<1>1. RowsTyped /\ RowsCount
  BY DEF AInv, ATypeOK
<1>2. CASE write \notin {"disable", "revokeAdmin"} \/ \E o \in Operators(users) : o # a
  BY <1>1, <1>2, WriteSpares
<1>3. CASE write \in {"disable", "revokeAdmin"} /\ Operators(users) \subseteq {a}
  <2>1. Operators(users) = {a}
    BY <1>3
  <2>2. Cardinality(Operators(users)) = 1
    BY <2>1, FS_Singleton
  <2> QED
    BY <1>3, <2>1, <2>2 DEF LastOperator, Operators
<1> QED
  BY <1>2, <1>3

(* Whatever the calls and in whatever order they are answered, none of     *)
(* them leaves a server that had an operator without one.                  *)
THEOREM OperatorsRemain == ASpec => AnOperatorRemains
<1> DEFINE Remains == Operators(users) # {} /\ done' \cap Commands = done \cap Commands
                        => Operators(users') # {}
<1>1. AInv /\ [ANext]_avars => [Remains]_avars
  <2> SUFFICES ASSUME AInv, ANext, Operators(users) # {},
                      done' \cap Commands = done \cap Commands
               PROVE  Operators(users') # {}
    OBVIOUS
  <2>1. CASE UNCHANGED users
    BY <2>1
  <2>2. ASSUME NEW c \in Callers, Settle(c)
        PROVE  Operators(users') # {}
    <3>1. \/ UNCHANGED users
          \/ EndCreate(c) /\ ~Exists(asked[c].on) /\ Write(asked[c].write, asked[c].on)
      BY <2>2 DEF Settle, Verify, EndRehash, EndCreate, Refused
    <3>2. CASE EndCreate(c) /\ ~Exists(asked[c].on) /\ Write(asked[c].write, asked[c].on)
      <4>1. c \in DOMAIN asked /\ asked[c].on \in Accounts
        BY <3>2 DEF EndCreate, AInv, ATypeOK, AskedTyped, AskRecords
      <4> QED
        BY <3>2, <4>1, WriteSpares DEF AInv, ATypeOK, Operators, Exists
    <3> QED
      BY <2>1, <3>1, <3>2
  <2>3. ASSUME NEW c \in Calls, NEW ask \in Does[c], Administer(c, ask)
        PROVE  Operators(users') # {}
    <3>1. \/ UNCHANGED users
          \/ Write(ask.write, ask.on) /\ ~LastOperator(ask.write, ask.on)
      BY <2>3 DEF Administer, Refused
    <3>2. ask.on \in Accounts
      BY AccountsAssumption
    <3> QED
      BY <2>1, <3>1, <3>2, OneOperatorStays
  <2>4. ASSUME NEW c \in Commands, NEW ask \in Does[c], Command(c, ask)
        PROVE  FALSE
    BY <2>4 DEF Command
  <2> QED
    BY <2>1, <2>2, <2>3, <2>4
       DEF ANext, Run, Resume, BeginRehash, Note, BeginSignIn, Exchange, Mint, BeginCreate, Lapse
<1> QED
  BY <1>1, AccountsAreCounted, PTL DEF ASpec, AnOperatorRemains

-----------------------------------------------------------------------------
(* Repeats.                                                                *)

\* A call that is taken up is one that was sent.
LEMMA TakenUp ==
  ASSUME NEW c \in Calls, NEW ask \in Does[c], NEW d \in DOMAIN asked' \ DOMAIN asked,
         Returns(c, ask) \/ asked' = MapSet(asked, c, ask)
  PROVE  [asked'[d] EXCEPT !.noting = FALSE] = ask
<1>1. ask \in AskRecords /\ [ask EXCEPT !.noting = FALSE] = ask
  BY AskTyped
<1> DEFINE noted == [ask EXCEPT !.noting = TRUE]
<1>2. [noted EXCEPT !.noting = FALSE] = ask
  BY <1>1, NotingTyped
<1> HIDE DEF noted
<1>3. PICK new \in {ask, noted} : asked' = MapSet(asked, c, new)
  <2>1. asked' # MapDelete(asked, {c})
    BY DEF MapDelete, Restrict
  <2> QED
    BY <2>1 DEF Returns, noted
<1>4. asked'[d] = new
  BY <1>3 DEF MapSet
<1> QED
  BY <1>1, <1>2, <1>3, <1>4

(* However many calls there are and however they are sent: one that was    *)
(* answered within the day, and is sent again, changes nothing.            *)
THEOREM RepeatsAreHarmless == ASpec => RepeatsChangeNothing
<1> DEFINE Harmless == \A c \in DOMAIN asked' \ DOMAIN asked :
             [asked'[c] EXCEPT !.noting = FALSE] \in answered => UNCHANGED <<users, tokens, slots>>
<1>1. AInv /\ [ANext]_avars => [Harmless]_avars
  <2> SUFFICES ASSUME AInv, ANext, NEW d \in DOMAIN asked' \ DOMAIN asked,
                      [asked'[d] EXCEPT !.noting = FALSE] \in answered
               PROVE  UNCHANGED <<users, tokens, slots>>
    OBVIOUS
  <2>1. ASSUME NEW c, \/ asked' = MapDelete(asked, {c}) \/ UNCHANGED asked
        PROVE  FALSE
    BY <2>1 DEF MapDelete, Restrict
  <2>2. ASSUME NEW c \in Callers, Resume(c) \/ Settle(c)
        PROVE  FALSE
    <3>1. EndCreate(c) /\ Returns(c, asked[c])
      BY <2>1, <2>2 DEF Resume, Settle, Verify, EndRehash, EndCreate, Refused
    <3>2. c \in DOMAIN asked /\ DOMAIN asked' \subseteq DOMAIN asked \cup {c}
      BY <2>1, <3>1 DEF EndCreate, Returns, MapSet
    <3> QED
      BY <3>2
  <2>3. ASSUME NEW c \in Calls, NEW ask \in Does[c],
               Administer(c, ask) \/ Mint(c, ask) \/ BeginCreate(c, ask)
        PROVE  UNCHANGED <<users, tokens, slots>>
    <3>1. Returns(c, ask) \/ asked' = MapSet(asked, c, ask)
      BY <2>1, <2>3 DEF Administer, Mint, BeginCreate, Refused
    <3>2. ask \in answered
      BY <3>1, TakenUp
    <3>3. Already(ask) /\ (ask.write \in Creates => Exists(ask.on))
      BY <3>2 DEF AInv, NotesStand, AnsweredStands
    <3>4. CASE Administer(c, ask)
      BY <2>1, <3>3, <3>4 DEF Administer, Refused
    <3>5. CASE Mint(c, ask)
      BY <2>1, <3>3, <3>5 DEF Mint, Refused
    <3>6. CASE BeginCreate(c, ask)
      BY <3>3, <3>6 DEF BeginCreate, Creates
    <3> QED
      BY <2>3, <3>4, <3>5, <3>6
  <2>4. ASSUME NEW c \in Commands, NEW ask \in Does[c], Command(c, ask)
        PROVE  FALSE
    BY <2>1, <2>4 DEF Command
  <2> QED
    BY <2>1, <2>2, <2>3, <2>4
       DEF ANext, Run, BeginRehash, Note, BeginSignIn, Exchange, Lapse
<1> QED
  BY <1>1, AccountsAreCounted, PTL DEF ASpec, RepeatsChangeNothing

-----------------------------------------------------------------------------
(* Turns.                                                                  *)

\* The turns of Accounts are those of DerivationSlots, whose theorems hold of them.
LEMMA TurnsRefine == ASpec => Spec
<1>1. AInit => Init
  BY DEF AInit
<1> QED
  BY <1>1, TurnStep, PTL DEF ASpec, Spec

(* No more passwords are hashed and verified at once than there are turns, *)
(* those handed over and not resumed yet included, and no turn is idle     *)
(* while a sign-in or a creation waits for one: derivingAKey               *)
(* (src/src/identity/passwords.ts), however its callers end.               *)
THEOREM AccountsTakeTurns == ASpec => []TurnsAreSound
BY TurnsRefine, TurnsKeep, PTL

=============================================================================
