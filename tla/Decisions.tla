----------------------------- MODULE Decisions -----------------------------
(***************************************************************************)
(* The decisions this server has made about repositories, and what is kept *)
(* of them (src/src/identity/audit.ts).  One is written on every access;   *)
(* once in a while the table is brought back to its limit.  The panel and  *)
(* nlteam audit read them in pages.                                        *)
(***************************************************************************)
EXTENDS Paging

CONSTANTS
  DecisionLimit,   \* DECISION_LIMIT
  TrimSlack,       \* DECISION_TRIM_SLACK
  MaxDecisions     \* a bound on the decisions made

ASSUME DecisionsAssumption ==
  DecisionLimit \in Nat \ {0} /\ TrimSlack \in Nat \ {0} /\ MaxDecisions \in Nat

VARIABLES
  decisions,   \* rows: [id, at, allowed]
  sinceTrim,   \* writesSinceTrim of the server's connection
  decided      \* decisions made so far

decisionVars == <<decisions, sinceTrim, decided>>

DecisionsInit == decisions = {} /\ sinceTrim = TrimSlack /\ decided = 0

\* The key of a row is one more than the largest there is.
NextDecision == IF decisions = {} THEN 1 ELSE 1 + Max({d.id : d \in decisions})

\* Mutation: the oldest goes, whatever it says.
GoesByAge(d, e) == Earlier(d, e)

\* ORDER BY allowed DESC, at ASC, id ASC
GoesBefore(d, e) ==
  \/ d.allowed /\ ~e.allowed
  \/ d.allowed = e.allowed /\ Earlier(d, e)

\* trimDecisions
Trimmed(rows) ==
  {d \in rows : Cardinality({e \in rows : GoesBefore(e, d)}) >= Cardinality(rows) - DecisionLimit}

\* recordDecision: the trim is another commit.  A connection that never trimmed is due.
RecordDecision(allowed, now) ==
  LET row == [id |-> NextDecision, at |-> now, allowed |-> allowed]
      rows == decisions \cup {row}
      due == sinceTrim + 1 > TrimSlack
  IN /\ decided < MaxDecisions /\ decided' = decided + 1
     /\ decisions' = IF due THEN Trimmed(rows) ELSE rows
     /\ sinceTrim' = IF due THEN 0 ELSE sinceTrim + 1
     /\ Touched({d.id : d \in rows \ decisions'} \cup {row.id})

\* The server dies between the two commits, or anywhere else, and is started again.
DiesDeciding ==
  /\ \/ decisions' = decisions /\ decided' = decided
     \/ /\ decided < MaxDecisions /\ decided' = decided + 1
        /\ \E allowed \in BOOLEAN, now \in Now :
             decisions' = decisions \cup {[id |-> NextDecision, at |-> now, allowed |-> allowed]}
  /\ sinceTrim' = TrimSlack
  /\ Touched({})

PageDecisions ==
  /\ Turns(<<"decisions">>, [d \in decisions |-> 0], "newest")
  /\ UNCHANGED decisionVars

-----------------------------------------------------------------------------
(* Properties.                                                             *)

\* A refusal is what somebody will come looking for: it goes only from a table
\* that refusals alone fill, which is never far above its limit.
RefusalsOutlast ==
  [][/\ (\E d \in decisions : ~d.allowed /\ d \notin decisions') =>
          /\ \A d \in decisions' : ~d.allowed
          /\ Cardinality(decisions') >= DecisionLimit
     /\ sinceTrim' # TrimSlack => Cardinality(decisions') <= DecisionLimit + TrimSlack]_decisionVars
=============================================================================
