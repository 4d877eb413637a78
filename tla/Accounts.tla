------------------------------ MODULE Accounts ------------------------------
(***************************************************************************)
(* Accounts and what they hold: the users table (src/src/identity/users.ts)*)
(* signing in (src/src/web/studio.ts), tokens and who a token says is      *)
(* calling (identity/tokens.ts, identity/bearer.ts), the writes of the     *)
(* operators (src/src/team/methods/admin.ts) with the notes that make them *)
(* repeatable (identity/writes.ts), and the commands that write to the same*)
(* database from beside the server (src/src/user.ts).                      *)
(*                                                                         *)
(* A password is hashed and verified in one of the turns of                *)
(* DerivationSlots, and what was read before is used after.  All else is   *)
(* done at once, but for the note of a write, which comes after an await.  *)
(* The keys that sign are not here (Keys), nor is expiry: a token that has *)
(* expired is one less.                                                    *)
(***************************************************************************)
EXTENDS DerivationSlots, Functions

CONSTANTS
  Accounts,  \* names an account may have
  Founders,  \* operators from the start
  Members,   \* other accounts from the start
  Machines,  \* service accounts, of those
  SignIns,   \* requests to sign in, once each
  Calls,     \* calls of operators, once each
  Commands,  \* commands run on the machine, once each
  Does,      \* what each of those may ask
  NoId       \* a call without a client id

Writes == {"create", "createOperator", "disable", "enable", "grantAdmin", "revokeAdmin",
           "revokeTokens"}

ASSUME AccountsAssumption ==
  /\ Callers = SignIns \cup Calls /\ SignIns \cap Calls = {}
  /\ Founders \cup Members \subseteq Accounts /\ Founders \cap Members = {}
  /\ IsFiniteSet(Founders \cup Members)
  /\ \A s \in SignIns : Does[s] \subseteq Accounts
  /\ \A c \in Calls : \A ask \in Does[c] :
       /\ ask.by \in Accounts /\ ask.write \in Writes \cup {"mint"} /\ ask.on \in Accounts
       /\ ask = [by |-> ask.by, write |-> ask.write, on |-> ask.on, id |-> ask.id, noting |-> FALSE]
  /\ \A c \in Commands : \A ask \in Does[c] : ask.write \in Writes /\ ask.on \in Accounts

VARIABLES
  users,     \* the rows: account -> enabled, admin, epoch
  notes,     \* client_writes: <<account, method, client id>> -> "fresh" or "lapsed"
  tokens,    \* tokens handed out: the account, its epoch and (ghost) its revocations
  begun,     \* sign-ins under way: the account, and the row as it was read
  asked,     \* calls under way
  done,      \* sign-ins, calls and commands that are over
  revoked,   \* (ghost) how often the tokens of each account were revoked
  answered   \* (ghost) writes answered since a note of theirs would be read

slots == vars
avars == <<slots, users, notes, tokens, begun, asked, done, revoked, answered>>

MapSet(map, key, value) ==
  [k \in DOMAIN map \cup {key} |-> IF k = key THEN value ELSE map[k]]
MapDelete(map, keys) == Restrict(map, DOMAIN map \ keys)

Exists(a) == a \in DOMAIN users
Operators(rows) == {a \in DOMAIN rows : rows[a].admin /\ rows[a].enabled}

\* mintToken: the epoch is that of the record it is given.
Token(a, row, since) == [account |-> a, epoch |-> row.epoch, since |-> since]

\* identifyToken.
Usable(t) ==
  Exists(t.account) /\ users[t.account].enabled /\ t.epoch >= users[t.account].epoch

AInit ==
  /\ Init
  /\ users = [a \in Founders \cup Members |->
                [enabled |-> TRUE, admin |-> a \in Founders, epoch |-> 1]]
  /\ notes = <<>>
  /\ tokens = {[account |-> a, epoch |-> 1, since |-> 0] : a \in Founders}
  /\ begun = <<>> /\ asked = <<>>
  /\ done = {}
  /\ revoked = [a \in Accounts |-> 0]
  /\ answered = {}

-----------------------------------------------------------------------------
(* Signing in.                                                             *)

\* authenticate: the record is read, and then a turn is waited for.  A name there is
\* no account of is verified against a decoy.
BeginSignIn(s, a) ==
  /\ s \notin done \cup DOMAIN begun /\ a \in Does[s]
  /\ TakeATurn(s)
  /\ begun' = MapSet(begun, s, [account |-> a, since |-> revoked[a], verified |-> FALSE,
                                row |-> IF Exists(a) THEN <<users[a]>> ELSE <<>>])
  /\ UNCHANGED <<users, notes, tokens, asked, done, revoked, answered>>

Forget(s) == begun' = MapDelete(begun, {s}) /\ done' = done \cup {s}

\* The password was right, for the record that was read.
Passes(b) == b.row # <<>> /\ b.row[1].enabled

\* The answer: a token from that record, unless the account is a machine's.
SignedIn(s) ==
  LET b == begun[s]
  IN  /\ Forget(s)
      /\ tokens' = tokens \cup
           (IF b.account \in Machines THEN {} ELSE {Token(b.account, b.row[1], b.since)})

\* The password is wrong, or it is right and may have to be hashed anew.
Verify(s) ==
  /\ s \in DOMAIN begun /\ ~begun[s].verified
  /\ GiveTheTurnBack(s)
  /\ \/ Forget(s) /\ UNCHANGED tokens
     \/ Passes(begun[s]) /\ SignedIn(s)
     \/ /\ Passes(begun[s])
        /\ begun' = [begun EXCEPT ![s].verified = TRUE]
        /\ UNCHANGED <<tokens, done>>
  /\ UNCHANGED <<users, notes, asked, revoked, answered>>

BeginRehash(s) ==
  /\ s \in DOMAIN begun /\ begun[s].verified
  /\ TakeATurn(s)
  /\ UNCHANGED <<users, notes, tokens, begun, asked, done, revoked, answered>>

EndRehash(s) ==
  /\ s \in DOMAIN begun /\ begun[s].verified
  /\ GiveTheTurnBack(s)
  /\ SignedIn(s)
  /\ UNCHANGED <<users, notes, asked, revoked, answered>>

\* exchangeExternalTokenForUserToken, exchangeUserTokenForMultiresourceToken: a token
\* that will do, for another from the record as it is.
Exchange(t) ==
  /\ t \in tokens /\ Usable(t)
  /\ tokens' = tokens \cup {Token(t.account, users[t.account], revoked[t.account])}
  /\ UNCHANGED <<slots, users, notes, begun, asked, done, revoked, answered>>

-----------------------------------------------------------------------------
(* The writes of src/src/identity/users.ts: each is one statement, done by *)
(* the server and by commands alike.                                       *)

SetRow(a, row) == users' = MapSet(users, a, row)

\* Mutation: the epoch stays.
RevokeInName(a, row) ==
  /\ SetRow(a, row)
  /\ revoked' = [revoked EXCEPT ![a] = @ + 1]

Revoke(a, row) ==
  /\ SetRow(a, [row EXCEPT !.epoch = @ + 1])
  /\ revoked' = [revoked EXCEPT ![a] = @ + 1]

Write(write, a) ==
  \/ /\ write \in {"create", "createOperator"} /\ ~Exists(a)
     /\ SetRow(a, [enabled |-> TRUE, admin |-> write = "createOperator", epoch |-> 1])
     /\ UNCHANGED revoked
  \/ /\ write = "disable" /\ Exists(a)
     /\ Revoke(a, [users[a] EXCEPT !.enabled = FALSE])
  \/ /\ write = "revokeTokens" /\ Exists(a)
     /\ Revoke(a, users[a])
  \/ /\ write = "enable" /\ Exists(a)
     /\ SetRow(a, [users[a] EXCEPT !.enabled = TRUE])
     /\ UNCHANGED revoked
  \/ /\ write \in {"grantAdmin", "revokeAdmin"} /\ Exists(a)
     /\ SetRow(a, [users[a] EXCEPT !.admin = (write = "grantAdmin")])
     /\ UNCHANGED revoked

\* A command does as it is told, or says that there is no such account or is one.
Command(c, ask) ==
  /\ c \notin done /\ ask \in Does[c]
  /\ done' = done \cup {c}
  /\ IF (ask.write \in {"create", "createOperator"}) = Exists(ask.on)
     THEN UNCHANGED <<users, revoked>>
     ELSE Write(ask.write, ask.on)
  /\ UNCHANGED <<slots, notes, tokens, begun, asked, answered>>

-----------------------------------------------------------------------------
(* The same over the protocol.                                             *)

\* The two creations are one method.
Method(write) == IF write = "createOperator" THEN "create" ELSE write
NoteOf(ask) == <<ask.by, Method(ask.write), ask.id>>

\* findWrite.
Already(ask) ==
  ask.id # NoId /\ NoteOf(ask) \in DOMAIN notes /\ notes[NoteOf(ask)] = "fresh"

\* The caller holds a token that will do, and is an operator.
Administers(a) ==
  a \in Operators(users) /\ \E t \in tokens : t.account = a /\ Usable(t)

\* The state the call asks for is the state there is.
IsSo(write, a) ==
  \/ write = "disable" /\ ~users[a].enabled
  \/ write = "enable" /\ users[a].enabled
  \/ write = "grantAdmin" /\ users[a].admin
  \/ write = "revokeAdmin" /\ ~users[a].admin

\* Mutation: one operator is enough to lose one.
LastOperatorButOne(write, a) ==
  /\ write \in {"disable", "revokeAdmin"}
  /\ users[a].admin
  /\ Cardinality(Operators(users)) < 1

\* refuseIfLastOperator.
LastOperator(write, a) ==
  /\ write \in {"disable", "revokeAdmin"}
  /\ users[a].admin
  /\ Cardinality(Operators(users)) <= 1

\* A call with a client id has its note to leave; one without is answered.
Returns(c, ask) ==
  IF ask.id # NoId
  THEN asked' = MapSet(asked, c, [ask EXCEPT !.noting = TRUE]) /\ UNCHANGED <<done, answered>>
  ELSE done' = done \cup {c} /\ asked' = MapDelete(asked, {c}) /\ UNCHANGED answered

\* A MethodError: the call is answered, and leaves no note.
Refused(c) ==
  /\ done' = done \cup {c} /\ asked' = MapDelete(asked, {c})
  /\ UNCHANGED <<users, tokens, revoked, answered>>

\* Mutation: any note there is stays (ON CONFLICT DO NOTHING).
RecordWriteOnce(ask) ==
  notes' = IF NoteOf(ask) \in DOMAIN notes THEN notes ELSE MapSet(notes, NoteOf(ask), "fresh")

\* recordWrite: a note that is fresh stays, one that has lapsed is taken over, and
\* now and then all that have lapsed are dropped.
RecordWrite(ask) ==
  LET noted == MapSet(notes, NoteOf(ask), "fresh")
  IN  notes' \in {noted, Restrict(noted, {n \in DOMAIN noted : noted[n] = "fresh"})}

Unsent(c) == c \notin done \cup DOMAIN asked

\* Everything but a creation is done when its handler returns.
Administer(c, ask) ==
  /\ Unsent(c) /\ ask \in Does[c] /\ Administers(ask.by)
  /\ ask.write \notin {"create", "createOperator", "mint"}
  /\ \/ ~Exists(ask.on) /\ Refused(c)
     \/ /\ Exists(ask.on) /\ (Already(ask) \/ IsSo(ask.write, ask.on))
        /\ Returns(c, ask) /\ UNCHANGED <<users, revoked>>
     \/ /\ Exists(ask.on) /\ ~Already(ask) /\ ~IsSo(ask.write, ask.on)
        /\ IF LastOperator(ask.write, ask.on) THEN Refused(c)
           ELSE Write(ask.write, ask.on) /\ Returns(c, ask)
  /\ UNCHANGED <<slots, notes, tokens, begun>>

\* admin.tokens.mint, which notes itself before it returns.
Mint(c, ask) ==
  /\ Unsent(c) /\ ask \in Does[c] /\ Administers(ask.by)
  /\ ask.write = "mint"
  /\ \/ (~Exists(ask.on) \/ (~Already(ask) /\ ~users[ask.on].enabled))
        /\ Refused(c) /\ UNCHANGED notes
     \/ /\ Exists(ask.on) /\ Already(ask)
        /\ Returns(c, ask) /\ UNCHANGED <<tokens, notes>>
     \/ /\ Exists(ask.on) /\ ~Already(ask) /\ users[ask.on].enabled
        /\ tokens' = tokens \cup {Token(ask.on, users[ask.on], revoked[ask.on])}
        /\ IF ask.id # NoId THEN RecordWrite(ask) ELSE UNCHANGED notes
        /\ Returns(c, ask)
  /\ UNCHANGED <<slots, begun, users, revoked>>

\* The account a repeat made, if there is one; if not, the password is to be hashed.
BeginCreate(c, ask) ==
  /\ Unsent(c) /\ ask \in Does[c] /\ Administers(ask.by)
  /\ ask.write \in {"create", "createOperator"}
  /\ IF Already(ask) /\ Exists(ask.on)
     THEN Returns(c, ask) /\ UNCHANGED slots
     ELSE /\ TakeATurn(c)
          /\ asked' = MapSet(asked, c, ask)
          /\ UNCHANGED <<done, answered>>
  /\ UNCHANGED <<users, notes, tokens, begun, revoked>>

\* Mutation: the turn is not given back when the name was taken.
EndCreateOnly(c) ==
  /\ c \in DOMAIN asked /\ at[c] = "working"
  /\ IF Exists(asked[c].on) THEN Refused(c) /\ UNCHANGED slots
     ELSE GiveTheTurnBack(c) /\ Write(asked[c].write, asked[c].on) /\ Returns(c, asked[c])
  /\ UNCHANGED <<notes, tokens, begun>>

\* insertUser: the name may have been taken since.
EndCreate(c) ==
  /\ c \in DOMAIN asked /\ GiveTheTurnBack(c)
  /\ IF Exists(asked[c].on) THEN Refused(c)
     ELSE Write(asked[c].write, asked[c].on) /\ Returns(c, asked[c])
  /\ UNCHANGED <<notes, tokens, begun>>

Note(c) ==
  /\ c \in DOMAIN asked /\ asked[c].noting
  /\ RecordWrite(asked[c])
  /\ answered' = answered \cup {[asked[c] EXCEPT !.noting = FALSE]}
  /\ asked' = MapDelete(asked, {c}) /\ done' = done \cup {c}
  /\ UNCHANGED <<slots, users, tokens, begun, revoked>>

\* A day has passed since a note was made.
Lapse(n) ==
  /\ n \in DOMAIN notes /\ notes[n] = "fresh"
  /\ notes' = [notes EXCEPT ![n] = "lapsed"]
  /\ answered' = {ask \in answered : NoteOf(ask) # n}
  /\ UNCHANGED <<slots, users, tokens, begun, asked, done, revoked>>

-----------------------------------------------------------------------------

\* A promise that has settled is resumed.
Resume(c) ==
  /\ Wake(c)
  /\ UNCHANGED <<users, notes, tokens, begun, asked, done, revoked, answered>>

Settle(c) == Verify(c) \/ EndRehash(c) \/ EndCreate(c)

\* What goes on of itself: promises that settle, derivations that come to an end.
Run ==
  \/ \E c \in Callers : Resume(c) \/ Settle(c)
  \/ \E s \in SignIns : BeginRehash(s)
  \/ \E c \in Calls : Note(c)

ANext ==
  \/ Run
  \/ \E s \in SignIns : \E a \in Does[s] : BeginSignIn(s, a)
  \/ \E t \in tokens : Exchange(t)
  \/ \E c \in Calls : \E ask \in Does[c] :
       Administer(c, ask) \/ Mint(c, ask) \/ BeginCreate(c, ask)
  \/ \E c \in Commands : \E ask \in Does[c] : Command(c, ask)
  \/ \E n \in DOMAIN notes : Lapse(n)

ASpec == AInit /\ [][ANext]_avars /\ WF_avars(Run)

-----------------------------------------------------------------------------

Row == [enabled : BOOLEAN, admin : BOOLEAN, epoch : Nat]

(* Revoking an account's tokens refuses every one of them, and those that  *)
(* were about to be handed out: a token that will do comes from a record   *)
(* read after the last revocation, however long the password took.         *)
RevokedForGood == \A t \in tokens : Usable(t) => t.since = revoked[t.account]

(* No call over the protocol takes the last operator there is away.  A     *)
(* command may.                                                            *)
AnOperatorRemains ==
  [][Operators(users) # {} /\ done' \cap Commands = done \cap Commands
       => Operators(users') # {}]_avars

(* A call that was answered, and is sent again within the day with the     *)
(* same client id, changes nothing and hands nothing out.                  *)
RepeatsChangeNothing ==
  [][\A c \in DOMAIN asked' \ DOMAIN asked :
       [asked'[c] EXCEPT !.noting = FALSE] \in answered =>
         UNCHANGED <<users, tokens, slots>>]_avars

(* Every sign-in and every call of an operator is answered, though each of *)
(* them may wait for those before it, and a sign-in for a second turn.     *)
EverybodyIsAnswered ==
  \A c \in Callers : c \in DOMAIN begun \cup DOMAIN asked ~> c \in done
=============================================================================
