----------------------------- MODULE Credentials -----------------------------
(***************************************************************************)
(* The one file in which an account keeps the servers it has signed in to  *)
(* (src/src/client/config.ts), and nlteam login and logout, which read it  *)
(* and write it anew (src/src/login.ts): several at once, any of them      *)
(* dying anywhere.  Whoever answers at an address may be somebody else by  *)
(* the next question.                                                      *)
(***************************************************************************)
EXTENDS Integers, FiniteSets, Functions

CONSTANTS
  Commands,      \* processes of nlteam
  Texts,         \* addresses as they are typed: [server, numbered, capitals, zeros]
  Authorities,
  MaxReissues,   \* a bound on how often another authority answers
  Unsaid         \* no fingerprint on the command line; nothing on file

ASSUME CredentialsAssumption == MaxReissues \in Nat /\ Unsaid \notin Authorities

VARIABLES
  files,       \* what a file holds: the servers in it, once it is whole
  named,       \* the file called credentials.json, and the one called .writing; 0 for none
  doing,       \* what a process is about, how far it is, and what it holds
  answering,   \* the authority of whoever answers for a server
  reissues,
  overlapped   \* two processes have been between their last read and their rename at once

credentialVars == <<files, named, doing, answering, reissues, overlapped>>

\* parseServerAddress.  The scheme goes, brackets come and a port that is left out is
\* the usual one: those spellings are one here.  Capitals go unless the host is an
\* IPv6 address, and a port keeps the zeros in front of it.
AddressOf(text) == [text EXCEPT !.capitals = text.numbered /\ text.capitals]

Servers == {text.server : text \in Texts}
FiledUnder == {AddressOf(text) : text \in Texts}

Inodes == 1..(Cardinality(Commands) + 1)
Opened == [whole |-> FALSE, servers |-> <<>>]
NoCommand == [stage |-> "none"]
CredentialsInit ==
  /\ files = [i \in Inodes |-> Opened] /\ named = [main |-> 0, pending |-> 0]
  /\ doing = [c \in Commands |-> NoCommand]
  /\ answering \in [Servers -> Authorities] /\ reissues = 0
  /\ overlapped = FALSE

\* readCredentials: no file is no servers, and a file that is not whole is refused.
Readable == named.main # 0 => files[named.main].whole
OnFile == IF named.main = 0 THEN <<>> ELSE files[named.main].servers
AuthorityOnFile(address) ==
  IF address \in DOMAIN OnFile THEN OnFile[address].authority ELSE Unsaid

Is(c, stage) == doing[c].stage = stage
\* Past its last look at the file, with something of its own to put there.
MidWrite(c) == doing[c].stage \in {"read", "opened", "filled"}
WouldOverlap(c) == overlapped \/ \E d \in Commands \ {c} : MidWrite(d)

OnlyTheCommand == UNCHANGED <<files, named, answering, reissues, overlapped>>

\* login, to presentedAuthority: nothing is sent, and the authority on top of the chain
\* has to be the one that was named, if one was.
Probes(c, text, expected) ==
  /\ Is(c, "none") /\ expected \in {Unsaid, answering[text.server]}
  /\ doing' = [doing EXCEPT ![c] =
                   [stage |-> "probed", server |-> text.server, address |-> AddressOf(text),
                    pinned |-> answering[text.server], found |-> Unsaid]]
  /\ OnlyTheCommand

\* An authority that has changed is a decision somebody takes by logging out.
MayPin(known, pinned) == known \in {Unsaid, pinned}

Looks(c) ==
  /\ Is(c, "probed") /\ Readable
  /\ LET known == AuthorityOnFile(doing[c].address)
     IN /\ MayPin(known, doing[c].pinned)
        /\ doing' = [doing EXCEPT ![c].stage = "looked",
                                      ![c].found = known]
  /\ OnlyTheCommand

\* readDiscoveryDocument and signIn: each a connection verified against what was pinned.
\* One that is refused, or answered with something else, ends the command (GivesUp).
AsksVerified(c) ==
  /\ doing[c].stage \in {"looked", "discovered"}
  /\ answering[doing[c].server] = doing[c].pinned
  /\ doing' = [doing EXCEPT ![c].stage = IF @ = "looked" THEN "discovered" ELSE "signed in"]
  /\ OnlyTheCommand

\* What a process that is to write goes on with: its address, what the file is to hold,
\* the authority it had found there, and the file it has open.
ToWrite(c, address, servers, found) ==
  /\ doing' = [doing EXCEPT ![c] =
                   [stage |-> "read", address |-> address, servers |-> servers, found |-> found,
                    file |-> 0]]
  /\ overlapped' = WouldOverlap(c)
  /\ UNCHANGED <<files, named, answering, reissues>>

\* rememberServer, to its first await.  The token is the account's of that sign-in.
Remembers(c) ==
  /\ Is(c, "signed in") /\ Readable
  /\ LET entry == [authority |-> doing[c].pinned, token |-> c]
         address == doing[c].address
     IN ToWrite(c, address,
                [a \in DOMAIN OnFile \cup {address} |-> IF a = address THEN entry ELSE OnFile[a]],
                doing[c].found)

\* logout: forgetServer, to there.  Nothing to forget is nothing to write.
Forgets(c, text) ==
  LET address == AddressOf(text)
  IN /\ Is(c, "none") /\ Readable /\ address \in DOMAIN OnFile
     /\ ToWrite(c, address, Restrict(OnFile, DOMAIN OnFile \ {address}), AuthorityOnFile(address))

\* Mutation: the file itself is written.
WrittenInPlace == IF named.main # 0 THEN "main" ELSE "pending"

\* writeCredentials writes one name beside the file, the same for every process.
PendingName == "pending"

\* A file that has no name left, and that nobody has open, is gone.
GoneWithout(names, commands) ==
  [i \in Inodes |->
     IF \/ i \in {names.main, names.pending}
        \/ \E d \in Commands : "file" \in DOMAIN commands[d] /\ commands[d].file = i
     THEN files[i] ELSE Opened]

\* Opening it makes it, or empties what somebody else has there, or has open.
Opens(c) ==
  /\ Is(c, "read")
  /\ \E i \in Inodes :
       /\ IF named[PendingName] # 0 THEN i = named[PendingName]
          ELSE i # named.main /\ \A d \in Commands : MidWrite(d) => doing[d].file # i
       /\ files' = [files EXCEPT ![i] = Opened]
       /\ named' = [named EXCEPT ![PendingName] = i]
       /\ doing' = [doing EXCEPT ![c].stage = "opened", ![c].file = i]
  /\ UNCHANGED <<answering, reissues, overlapped>>

\* What it writes begins where the file does: of something longer that another wrote
\* since, the end stays behind it.
Fills(c) ==
  /\ Is(c, "opened")
  /\ LET own == [whole |-> TRUE, servers |-> doing[c].servers]
     IN \E content \in IF files[doing[c].file] = Opened THEN {own} ELSE {own, Opened} :
          files' = [files EXCEPT ![doing[c].file] = content]
  /\ doing' = [doing EXCEPT ![c].stage = "filled"]
  /\ UNCHANGED <<named, answering, reissues, overlapped>>

\* Whatever has the name by now takes the other.  If nothing has, that is an error (GivesUp).
Renames(c) ==
  /\ Is(c, "filled") /\ named[PendingName] # 0
  /\ named' = [main |-> named[PendingName], pending |-> 0]
  /\ doing' = [doing EXCEPT ![c] = NoCommand]
  /\ files' = GoneWithout(named', doing')
  /\ UNCHANGED <<answering, reissues, overlapped>>

\* It is refused, fails, or is killed, wherever it is.
GivesUp(c) ==
  /\ ~Is(c, "none") /\ doing' = [doing EXCEPT ![c] = NoCommand]
  /\ files' = GoneWithout(named, doing')
  /\ UNCHANGED <<named, answering, reissues, overlapped>>

\* An operator makes another authority, or somebody else answers.
Reissued(server) ==
  /\ reissues < MaxReissues /\ reissues' = reissues + 1
  /\ \E a \in Authorities \ {answering[server]} : answering' = [answering EXCEPT ![server] = a]
  /\ UNCHANGED <<files, named, doing, overlapped>>

CredentialsNext ==
  \/ \E c \in Commands, text \in Texts, expected \in Authorities \cup {Unsaid} :
       Probes(c, text, expected)
  \/ \E c \in Commands, text \in Texts : Forgets(c, text)
  \/ \E c \in Commands :
       Looks(c) \/ AsksVerified(c) \/ Remembers(c) \/ Opens(c) \/ Fills(c) \/ Renames(c) \/ GivesUp(c)
  \/ \E server \in Servers : Reissued(server)

-----------------------------------------------------------------------------
(* Properties.                                                             *)

\* config.ts: a run interrupted halfway "leaves the previous file rather than a
\* truncated one", a sign-in is recorded "leaving every other server alone", and a
\* server that presents another authority is refused until somebody has logged out:
\* whoever dies, whatever is presented, and however sign-ins overlap, as long as no two
\* commands are writing at once.  What a sign-in has not seen, because another put it
\* there meanwhile, it does replace.
CredentialsAreKept ==
  [][~overlapped' =>
       /\ Readable'
       /\ \A address \in FiledUnder :
            LET before == IF address \in DOMAIN OnFile THEN {OnFile[address]} ELSE {}
                after == IF address \in DOMAIN OnFile' THEN {OnFile'[address]} ELSE {}
            IN before # after =>
                 \E c \in Commands :
                   /\ Is(c, "filled") /\ ~Is(c, "filled")'
                   /\ doing[c].address = address
                   /\ \A old \in before, new \in after :
                        old.authority = new.authority \/ doing[c].found # old.authority]_credentialVars

\* config.ts: "two spellings of one server must not produce two entries".  It holds
\* where addresses have no letters in capitals and ports no zeros in front.
OneServerOneEntry ==
  Readable => \A a, b \in DOMAIN OnFile : a.server = b.server => a = b
=============================================================================
