--------------------------- MODULE RegistryProofs ---------------------------
(***************************************************************************)
(* Projects as they are made, read and asked about, all at once: creates   *)
(* and their retries, the words of loreserver that come back, passes of    *)
(* reading over the rows there are, and deaths of the process.  Proved of  *)
(* it: that a retry is never told of a collision with what it repeats,     *)
(* that a repository comes back to the row it was made for, and that a     *)
(* checkout marked ready is a whole one.                                   *)
(***************************************************************************)
EXTENDS Authorization, TLAPS

registerVars == <<projectVars, readingVars, authVars>>

RegisterInit == ProjectsInit /\ ReadingsInit /\ AuthInit

Creating ==
  /\ CreateNext \/ \E c \in Creates : CreateLost(c)
  /\ UNCHANGED <<readingVars, authVars>>

Reading == ReadingNext /\ UNCHANGED <<projectVars, authVars>>

ForgettingAny == \E reference \in Ids \cup Names : Forget(reference) /\ UNCHANGED authVars

Dying == ReadingsDie /\ UNCHANGED authVars

\* What is looked up and answered, and leaves the rows alone.
Answering ==
  /\ \/ \E q \in Questions :
          Tells(q) \/ AsksAbout(q) \/ Check(q) \/ Lookup(q) \/ Exchange(q) \/ Multiresource(q)
     \/ Reloads \/ Revoked
  /\ AnswersOnly

Telling == \E q \in Questions : CreateResource(q) \/ DeleteResource(q)

RepositoriesGo == \E id \in Ids : RepositoryGone(id)

RegisterNext ==
  \/ Creating \/ Reading \/ ForgettingAny \/ Dying
  \/ Answering \/ Telling \/ RepositoriesGo

RegisterSpec == RegisterInit /\ [][RegisterNext]_registerVars

-----------------------------------------------------------------------------
(* The inductive invariant.                                                *)

RowsTyped ==
  /\ made \in Nat
  /\ \A p \in projects : p.id \in Ids /\ p.gen \in 1..made

\* Ids are unique columns, and so is what tells rows of one id apart.
RowsApart == \A p, r \in projects : p.id = r.id \/ p.gen = r.gen => p = r

Stages == {"unasked", "asking", "told", "lost"}
Answers ==
  {None, "repeat", "repository-taken", "name-taken", "made", "repository-refused"}

AttemptsTyped ==
  /\ asked \in [Creates -> [name : Names \cup {None}, write : Writes \cup {None}, id : Ids \cup {None}]]
  /\ creating \in [Creates -> Stages]
  /\ answer \in [Creates -> [kind : Answers, rows : SUBSET (1..made)]]
  /\ \A c \in Creates : creating[c] = "unasked" => answer[c] = NoAnswer

\* A collision is with rows of other writes: what is made later has a
\* number no answer names.
CollisionsAreOfOthers ==
  \A d \in Creates :
    /\ answer[d].kind \in {"repository-taken", "name-taken"}
    /\ asked[d].write # None
    => \A p \in projects : p.gen \in answer[d].rows => p.write # asked[d].write

\* As long as nobody takes it out, an attempt that asks loreserver has its row.
AskingHasItsRow ==
  \A c \in Creates :
    creating[c] = "asking" /\ c \notin parted => \E p \in projects : p.id = asked[c].id /\ p.by = c

QuestionsTyped ==
  /\ DOMAIN question = Questions
  /\ \A q \in Questions :
       question[q].kind = "create" => question[q].ids \subseteq Ids /\ question[q].ids # {}

RegisterRows ==
  /\ RowsTyped /\ RowsApart /\ AttemptsTyped /\ CollisionsAreOfOthers /\ AskingHasItsRow
  /\ QuestionsTyped

StepsOfReading == {"finding", "unmarking", "removing", "cloning", "marking", "walking", "failed"}
ReadingRecords == [id : Ids, gen : Nat, step : StepsOfReading]

ReadingTyped ==
  /\ \A p \in listed : p.id \in Ids /\ p.gen \in Nat
  /\ reading = Idle \/ reading \in ReadingRecords
  /\ checkout \in [Ids -> {None, "partial", "whole"}]
  /\ ready \subseteq Ids

\* While a directory is taken apart and put together its mark is gone, and it
\* is marked only when it is whole.
MarksFollowCheckouts ==
  reading # Idle =>
    /\ reading.step \in {"removing", "cloning"} => reading.id \notin ready
    /\ reading.step = "marking" => checkout[reading.id] = "whole"

RInv == RegisterRows /\ ReadingTyped /\ MarksFollowCheckouts /\ ReadyIsWhole

-----------------------------------------------------------------------------
(* Rows that go, and a row that comes.                                     *)

RowsGo ==
  /\ projects' \subseteq projects /\ made' = made
  /\ \A p \in projects \ projects' : p.by \in parted'
  /\ parted \subseteq parted'

LEMMA ForgottenRowsGo ==
  ASSUME NEW reference, Forgotten(reference), made' = made
  PROVE  RowsGo
BY DEF Forgotten, RowsGo, Found, WithId

LEMMA FewerRows ==
  ASSUME RowsTyped, RowsApart, RowsGo
  PROVE  RowsTyped' /\ RowsApart'
BY DEF RowsTyped, RowsApart, RowsGo

RowComes(row) ==
  /\ projects' = projects \cup {row} /\ made' = made + 1
  /\ row.gen = made + 1 /\ row.id \in Ids
  /\ \A p \in projects : p.id # row.id

LEMMA MoreRows ==
  ASSUME RowsTyped, RowsApart, NEW row, RowComes(row)
  PROVE  RowsTyped' /\ RowsApart'
<1>1. made' \in Nat /\ made' = made + 1
  BY DEF RowsTyped, RowComes
<1>2. \A p \in projects : p.id \in Ids /\ p.gen \in 1..made
  BY DEF RowsTyped
<1>3. \A p \in projects : p.gen \in 1..made' /\ p.gen # row.gen /\ p.id # row.id
  BY <1>1, <1>2 DEF RowComes, RowsTyped
<1>4. RowsTyped'
  BY <1>1, <1>2, <1>3 DEF RowsTyped, RowComes
<1>5. RowsApart'
  BY <1>3 DEF RowsApart, RowComes
<1> QED
  BY <1>4, <1>5

\* An attempt that is left as it was.
AttemptsStay == UNCHANGED <<asked, creating, answer>>

LEMMA AttemptsStayTyped ==
  ASSUME RowsTyped, AttemptsTyped, AttemptsStay, made' \in Nat, made' >= made
  PROVE  AttemptsTyped'
<1>1. made \in Nat /\ 1..made \subseteq 1..made'
  BY DEF RowsTyped
<1>2. [kind : Answers, rows : SUBSET (1..made)] \subseteq [kind : Answers, rows : SUBSET (1..made')]
  BY <1>1
<1>3. answer' \in [Creates -> [kind : Answers, rows : SUBSET (1..made')]]
  BY <1>2 DEF AttemptsTyped, AttemptsStay
<1> QED
  BY <1>3 DEF AttemptsTyped, AttemptsStay

LEMMA AttemptsStayOfOthers ==
  ASSUME RowsTyped, AttemptsTyped, CollisionsAreOfOthers, AttemptsStay,
         RowsGo \/ \E row : RowComes(row)
  PROVE  CollisionsAreOfOthers'
<1> SUFFICES ASSUME NEW d \in Creates, answer[d].kind \in {"repository-taken", "name-taken"},
                    asked[d].write # None, NEW p \in projects', p.gen \in answer[d].rows
             PROVE  p.write # asked[d].write
  BY DEF CollisionsAreOfOthers, AttemptsStay
<1>1. answer[d].rows \subseteq 1..made /\ made \in Nat
  BY DEF AttemptsTyped, RowsTyped
<1>2. p \in projects
  BY <1>1 DEF RowsGo, RowComes
<1> QED
  BY <1>2 DEF CollisionsAreOfOthers

LEMMA AttemptsStayWithTheirRows ==
  ASSUME AskingHasItsRow, AttemptsStay,
         RowsGo \/ (projects \subseteq projects' /\ UNCHANGED parted)
  PROVE  AskingHasItsRow'
BY DEF AskingHasItsRow, AttemptsStay, RowsGo

-----------------------------------------------------------------------------
(* One attempt is answered.                                                *)

LEMMA ToldTyped ==
  ASSUME RowsTyped, AttemptsTyped, NEW c \in Creates, NEW kind \in Answers \ {None},
         NEW rows, Told(c, kind, rows), \A p \in rows : p.gen \in 1..made',
         made' \in Nat, made' >= made,
         asked' \in [Creates -> [name : Names \cup {None}, write : Writes \cup {None}, id : Ids \cup {None}]]
  PROVE  AttemptsTyped'
<1>1. made \in Nat /\ 1..made \subseteq 1..made'
  BY DEF RowsTyped
<1>2. [kind |-> kind, rows |-> {p.gen : p \in rows}] \in [kind : Answers, rows : SUBSET (1..made')]
  OBVIOUS
<1>3. [kind : Answers, rows : SUBSET (1..made)] \subseteq [kind : Answers, rows : SUBSET (1..made')]
  BY <1>1
<1>4. answer \in [Creates -> [kind : Answers, rows : SUBSET (1..made')]]
  BY <1>3 DEF AttemptsTyped
<1>5. answer' \in [Creates -> [kind : Answers, rows : SUBSET (1..made')]]
  BY <1>2, <1>4 DEF Told
<1>6. creating' \in [Creates -> Stages]
  BY DEF Told, AttemptsTyped, Stages
<1>7. \A d \in Creates : creating'[d] = "unasked" => answer'[d] = NoAnswer
  BY <1>4 DEF Told, AttemptsTyped
<1> QED
  BY <1>5, <1>6, <1>7 DEF AttemptsTyped

LEMMA MakingKeepsRows ==
  ASSUME RegisterRows, NEW c \in Creates, NEW r \in Requests, NEW id \in Ids,
         MakeOrAdopt(c, r, id), UNCHANGED question
  PROVE  RegisterRows'
<1> DEFINE row == Row(id, r.name, r.write, c)
<1>1. /\ r.name \in Names /\ r.claimed \in Ids \cup {None} /\ r.write \in Writes \cup {None}
      /\ made \in Nat /\ creating[c] = "unasked" /\ answer[c].kind = None
      /\ asked' = [asked EXCEPT ![c] = [name |-> r.name, write |-> r.write, id |-> id]]
      /\ UNCHANGED parted
  BY DEF Requests, RegisterRows, RowsTyped, AttemptsTyped, MakeOrAdopt, Asks, NoAnswer
<1>2. asked' \in [Creates -> [name : Names \cup {None}, write : Writes \cup {None}, id : Ids \cup {None}]]
  BY <1>1 DEF RegisterRows, AttemptsTyped
<1>3. /\ row.id = id /\ row.by = c /\ row.gen = made + 1
      /\ \A d \in Creates \ {c} : asked'[d] = asked[d]
      /\ asked'[c].write = r.write /\ asked'[c].id = id
  BY <1>1 DEF Row, RegisterRows, AttemptsTyped
<1> HIDE DEF row
<1>4. QuestionsTyped'
  BY DEF QuestionsTyped, RegisterRows
<1>5. ASSUME NEW kind \in Answers \ {None}, NEW rows \in SUBSET projects, Told(c, kind, rows),
             UNCHANGED <<projects, made>>,
             kind \in {"repository-taken", "name-taken"} => WrittenAs(r.write) = {}
      PROVE  RegisterRows'
  <2>1. RowsTyped' /\ RowsApart'
    BY <1>5 DEF RegisterRows, RowsTyped, RowsApart
  <2>2. AttemptsTyped'
    BY <1>1, <1>2, <1>5, ToldTyped DEF RegisterRows, RowsTyped
  <2>3. /\ \A d \in Creates \ {c} : answer'[d] = answer[d] /\ creating'[d] = creating[d]
        /\ answer'[c].kind = kind /\ creating'[c] = "told"
    BY <1>5 DEF Told, RegisterRows, AttemptsTyped
  <2>4. CollisionsAreOfOthers'
    BY <1>3, <1>5, <2>3 DEF CollisionsAreOfOthers, RegisterRows, WrittenAs
  <2>5. AskingHasItsRow'
    BY <1>1, <1>3, <1>5, <2>3 DEF AskingHasItsRow, RegisterRows
  <2> QED
    BY <1>4, <2>1, <2>2, <2>4, <2>5 DEF RegisterRows
<1>6. CASE Repeats(c, r)
  BY <1>5, <1>6 DEF Repeats, WrittenAs, Answers, None
<1>7. CASE WrittenAs(r.write) = {} /\ Taken(c, r)
  BY <1>5, <1>7 DEF Taken, WithId, Answers, None
<1>8. CASE WrittenAs(r.write) = {} /\ NameTaken(c, r, row)
  BY <1>5, <1>8 DEF NameTaken, Blocking, WrittenAs, Answers, None
<1>9. CASE Inserts(c, r, row)
  <2>1. RowComes(row)
    BY <1>3, <1>9 DEF RowComes, Inserts, Blocking
  <2>2. RowsTyped' /\ RowsApart'
    BY <2>1, MoreRows DEF RegisterRows
  <2>3. made' \in Nat /\ made' >= made /\ row.gen \in 1..made'
    BY <1>1, <2>1 DEF RowComes
  <2>4. \/ Told(c, "made", {row})
        \/ creating' = [creating EXCEPT ![c] = "asking"] /\ UNCHANGED answer
    BY <1>9 DEF Inserts
  <2>5. ASSUME creating' = [creating EXCEPT ![c] = "asking"] /\ UNCHANGED answer
        PROVE  AttemptsTyped'
    <3>1. 1..made \subseteq 1..made'
      BY <1>1, <2>3
    <3>2. [kind : Answers, rows : SUBSET (1..made)] \subseteq [kind : Answers, rows : SUBSET (1..made')]
      BY <3>1
    <3>3. answer' \in [Creates -> [kind : Answers, rows : SUBSET (1..made')]]
      BY <2>5, <3>2 DEF RegisterRows, AttemptsTyped
    <3> QED
      BY <1>2, <2>5, <3>3 DEF RegisterRows, AttemptsTyped, Stages
  <2>6. ASSUME Told(c, "made", {row})
        PROVE  AttemptsTyped'
    BY <1>2, <2>3, <2>6, ToldTyped DEF RegisterRows, Answers, None
  <2>7. AttemptsTyped'
    BY <2>4, <2>5, <2>6
  <2>8. /\ \A d \in Creates \ {c} : answer'[d] = answer[d] /\ creating'[d] = creating[d]
        /\ answer'[c].kind \in {None, "made"}
    <3>1. answer \in [Creates -> [kind : Answers, rows : SUBSET (1..made)]]
      BY DEF RegisterRows, AttemptsTyped
    <3>2. creating \in [Creates -> Stages]
      BY DEF RegisterRows, AttemptsTyped
    <3>3. CASE Told(c, "made", {row})
      BY <3>1, <3>2, <3>3 DEF Told
    <3>4. CASE creating' = [creating EXCEPT ![c] = "asking"] /\ UNCHANGED answer
      BY <1>1, <3>2, <3>4
    <3> QED
      BY <2>4, <3>3, <3>4
  <2>9. CollisionsAreOfOthers'
    <3> SUFFICES ASSUME NEW d \in Creates, answer'[d].kind \in {"repository-taken", "name-taken"},
                        asked'[d].write # None, NEW p \in projects', p.gen \in answer'[d].rows
                 PROVE  p.write # asked'[d].write
      BY DEF CollisionsAreOfOthers
    <3>1. d # c /\ answer[d].rows \subseteq 1..made
      BY <2>8 DEF RegisterRows, AttemptsTyped, None
    <3>2. p \in projects
      BY <1>1, <2>1, <2>8, <3>1 DEF RowComes
    <3> QED
      BY <1>3, <2>8, <3>1, <3>2 DEF CollisionsAreOfOthers, RegisterRows
  <2>10. AskingHasItsRow'
    BY <1>1, <1>3, <2>1, <2>8 DEF AskingHasItsRow, RegisterRows, RowComes
  <2> QED
    BY <1>4, <2>2, <2>7, <2>9, <2>10 DEF RegisterRows
<1> QED
  BY <1>6, <1>7, <1>8, <1>9 DEF MakeOrAdopt, row

\* What is left of a create, and rows that go.
LEMMA TellingKeepsRows ==
  ASSUME RegisterRows, NEW c \in Creates, NEW kind \in Answers \ {None, "repository-taken", "name-taken"},
         NEW rows \in SUBSET projects, Told(c, kind, rows), UNCHANGED <<asked, question>>,
         RowsGo
  PROVE  RegisterRows'
<1>1. RowsTyped' /\ RowsApart'
  BY FewerRows DEF RegisterRows
<1>2. AttemptsTyped'
  BY ToldTyped DEF RegisterRows, RowsTyped, RowsGo, AttemptsTyped
<1>3. /\ \A d \in Creates \ {c} : answer'[d] = answer[d] /\ creating'[d] = creating[d]
      /\ answer'[c].kind = kind /\ creating'[c] = "told"
  BY DEF Told, RegisterRows, AttemptsTyped
<1>4. CollisionsAreOfOthers'
  BY <1>3 DEF CollisionsAreOfOthers, RegisterRows, RowsGo
<1>5. AskingHasItsRow'
  BY <1>3 DEF AskingHasItsRow, RegisterRows, RowsGo
<1> QED
  BY <1>1, <1>2, <1>4, <1>5 DEF RegisterRows, QuestionsTyped

LEMMA CreatingKeepsRows ==
  ASSUME RegisterRows, Creating
  PROVE  RegisterRows'
<1>1. UNCHANGED question
  BY DEF Creating, authVars
<1>2. ASSUME NEW c \in Creates, NEW r \in Requests, NEW id \in Ids, MakeOrAdopt(c, r, id)
      PROVE  RegisterRows'
  BY <1>1, <1>2, MakingKeepsRows
<1>3. ASSUME NEW c \in Creates, RepositoryMade(c)
      PROVE  RegisterRows'
  BY <1>1, <1>3 DEF RepositoryMade, RegisterRows, RowsTyped, RowsApart, AttemptsTyped,
                    CollisionsAreOfOthers, AskingHasItsRow, QuestionsTyped
<1>4. ASSUME NEW c \in Creates, Made(c)
      PROVE  RegisterRows'
  <2>1. RowsGo
    BY <1>4 DEF Made, RowsGo
  <2> QED
    BY <1>1, <1>4, <2>1, TellingKeepsRows DEF Made, Answers, None
<1>5. ASSUME NEW c \in Creates, RepositoryRefused(c)
      PROVE  RegisterRows'
  <2>1. RowsGo
    BY <1>5, ForgottenRowsGo DEF RepositoryRefused
  <2> QED
    BY <1>1, <1>5, <2>1, TellingKeepsRows DEF RepositoryRefused, Answers, None
<1>6. ASSUME NEW c \in Creates, CreateLost(c)
      PROVE  RegisterRows'
  BY <1>1, <1>6 DEF CreateLost, RegisterRows, RowsTyped, RowsApart, AttemptsTyped, Stages,
                    CollisionsAreOfOthers, AskingHasItsRow, QuestionsTyped
<1> QED
  BY <1>2, <1>3, <1>4, <1>5, <1>6 DEF Creating, CreateNext

\* Rows that go with nothing said to an attempt.
LEMMA GoingKeepsRows ==
  ASSUME RegisterRows, RowsGo, AttemptsStay, QuestionsTyped'
  PROVE  RegisterRows'
<1>1. RowsTyped' /\ RowsApart'
  BY FewerRows DEF RegisterRows
<1>2. AttemptsTyped'
  BY AttemptsStayTyped DEF RegisterRows, RowsGo, RowsTyped
<1>3. CollisionsAreOfOthers'
  BY AttemptsStayOfOthers DEF RegisterRows
<1>4. AskingHasItsRow'
  BY AttemptsStayWithTheirRows DEF RegisterRows
<1> QED
  BY <1>1, <1>2, <1>3, <1>4 DEF RegisterRows

LEMMA StillKeepsRows ==
  ASSUME RegisterRows, UNCHANGED <<projects, made, parted, asked, creating, answer>>, QuestionsTyped'
  PROVE  RegisterRows'
<1>1. RowsGo /\ AttemptsStay
  BY DEF RowsGo, AttemptsStay
<1> QED
  BY <1>1, GoingKeepsRows

LEMMA AnswersAreTyped ==
  ASSUME QuestionsTyped, NEW q \in Questions, NEW ids, Replies(q, ids)
  PROVE  QuestionsTyped'
BY DEF QuestionsTyped, Replies

LEMMA ArrivalsAreTyped ==
  ASSUME QuestionsTyped, NEW q \in Questions, NEW kind, NEW ids \in (SUBSET Ids) \ {{}}, NEW name,
         Arrives(q, kind, ids, name)
  PROVE  QuestionsTyped'
<1> DEFINE target == IF kind \in {"create", "delete"} THEN UNION {Found(id) : id \in ids} ELSE {}
           new == [kind |-> kind, ids |-> ids, name |-> name, target |-> target]
<1>1. question' = [question EXCEPT ![q] = new] /\ new.ids = ids
  BY DEF Arrives
<1> HIDE DEF new
<1>2. question'[q].ids = ids /\ DOMAIN question' = Questions
      /\ \A other \in Questions \ {q} : question'[other] = question[other]
  BY <1>1 DEF QuestionsTyped
<1> QED
  BY <1>2 DEF QuestionsTyped

LEMMA AnsweringKeepsRows ==
  ASSUME RegisterRows, Answering
  PROVE  RegisterRows'
<1>1. UNCHANGED <<projects, made, parted, asked, creating, answer>>
  BY DEF Answering, AnswersOnly, projectVars
<1>2. QuestionsTyped
  BY DEF RegisterRows
<1>3. ASSUME NEW q \in Questions, Tells(q)
      PROVE  QuestionsTyped'
  <2>1. PICK id \in Ids, name \in Names \cup {None}, kind \in {"create", "delete"} :
          Arrives(q, kind, {id}, name)
    BY <1>3 DEF Tells
  <2>2. {id} \in (SUBSET Ids) \ {{}}
    OBVIOUS
  <2> QED
    BY <1>2, <2>1, <2>2, ArrivalsAreTyped
<1>4. ASSUME NEW q \in Questions, AsksAbout(q)
      PROVE  QuestionsTyped'
  BY <1>2, <1>4, ArrivalsAreTyped DEF AsksAbout
<1>5. ASSUME NEW q \in Questions, Check(q) \/ Lookup(q) \/ Exchange(q) \/ Multiresource(q)
      PROVE  QuestionsTyped'
  BY <1>2, <1>5, AnswersAreTyped DEF Check, Lookup, Exchange, Multiresource
<1>6. CASE Reloads \/ Revoked
  BY <1>1, <1>2, <1>6, StillKeepsRows DEF Reloads, Revoked, QuestionsTyped
<1> QED
  BY <1>1, <1>3, <1>4, <1>5, <1>6, StillKeepsRows DEF Answering

\* A repository nobody asked for here is given a row.
LEMMA CreateResourceKeepsRows ==
  ASSUME RegisterRows, NEW q \in Questions, CreateResource(q)
  PROVE  RegisterRows'
<1> DEFINE id == CHOOSE i \in question[q].ids : TRUE
           row == Row(id, NameFor(question[q].name, id), None, "loreserver")
<1>1. QuestionsTyped'
  BY AnswersAreTyped DEF CreateResource, RegisterRows
<1>2. id \in Ids
  BY DEF RegisterRows, QuestionsTyped, CreateResource
<1>3. row.id = id /\ row.gen = made + 1
  BY DEF Row
<1>4. AttemptsStay /\ UNCHANGED parted
  BY DEF CreateResource, AttemptsStay
<1>5. \/ UNCHANGED <<projects, made>>
      \/ Blocking(row) = {} /\ projects' = projects \cup {row} /\ made' = made + 1
  BY DEF CreateResource
<1> HIDE DEF id, row
<1>6. CASE UNCHANGED <<projects, made>>
  BY <1>1, <1>4, <1>6, StillKeepsRows DEF AttemptsStay
<1>7. CASE Blocking(row) = {} /\ projects' = projects \cup {row} /\ made' = made + 1
  <2>1. RowComes(row)
    BY <1>2, <1>3, <1>7 DEF RowComes, Blocking
  <2>2. RowsTyped' /\ RowsApart'
    BY <2>1, MoreRows DEF RegisterRows
  <2>3. AttemptsTyped'
    BY <1>4, <1>7, AttemptsStayTyped DEF RegisterRows, RowsTyped
  <2>4. CollisionsAreOfOthers'
    BY <1>4, <2>1, AttemptsStayOfOthers DEF RegisterRows
  <2>5. AskingHasItsRow'
    BY <1>4, <1>7, AttemptsStayWithTheirRows DEF RegisterRows
  <2> QED
    BY <1>1, <2>2, <2>3, <2>4, <2>5 DEF RegisterRows
<1> QED
  BY <1>5, <1>6, <1>7

LEMMA DeleteResourceKeepsRows ==
  ASSUME RegisterRows, NEW q \in Questions, DeleteResource(q)
  PROVE  RegisterRows'
<1>1. QuestionsTyped'
  BY AnswersAreTyped DEF DeleteResource, RegisterRows
<1>2. AttemptsStay /\ UNCHANGED made
  BY DEF DeleteResource, AttemptsStay
<1>3. RowsGo
  <2>1. CASE question[q].target # {} /\ live
    <3>1. PICK id : Forgotten(id)
      BY <2>1 DEF DeleteResource
    <3> QED
      BY <1>2, <3>1, ForgottenRowsGo
  <2>2. CASE ~(question[q].target # {} /\ live)
    BY <1>2, <2>2 DEF DeleteResource, RowsGo
  <2> QED
    BY <2>1, <2>2
<1> QED
  BY <1>1, <1>2, <1>3, GoingKeepsRows

LEMMA ReadingIsBeside ==
  ASSUME RegisterRows, Reading
  PROVE  RegisterRows'
BY StillKeepsRows DEF Reading, projectVars, authVars, RegisterRows, QuestionsTyped

LEMMA ForgettingKeepsRows ==
  ASSUME RegisterRows, ForgettingAny
  PROVE  RegisterRows'
<1>1. PICK reference \in Ids \cup Names : Forget(reference) /\ UNCHANGED authVars
  BY DEF ForgettingAny
<1>2. RowsGo /\ AttemptsStay
  BY <1>1, ForgottenRowsGo DEF Forget, AttemptsStay
<1> QED
  BY <1>1, <1>2, GoingKeepsRows DEF authVars, RegisterRows, QuestionsTyped

\* A create that was open when the process died is not answered any more.
LEMMA DyingKeepsRows ==
  ASSUME RegisterRows, Dying
  PROVE  RegisterRows'
BY DEF Dying, ReadingsDie, authVars, RegisterRows, RowsTyped, RowsApart, AttemptsTyped, Stages,
       CollisionsAreOfOthers, AskingHasItsRow, QuestionsTyped

LEMMA RegisterRowsHold == RegisterSpec => []RegisterRows
<1>1. RegisterInit => RegisterRows
  BY DEF RegisterInit, ProjectsInit, AuthInit, RegisterRows, RowsTyped, RowsApart, AttemptsTyped,
         Stages, Answers, NoAnswer, CollisionsAreOfOthers, AskingHasItsRow, QuestionsTyped, None
<1>2. RegisterRows /\ [RegisterNext]_registerVars => RegisterRows'
  <2> SUFFICES ASSUME RegisterRows, [RegisterNext]_registerVars
               PROVE  RegisterRows'
    OBVIOUS
  <2>1. CASE Telling
    BY <2>1, CreateResourceKeepsRows, DeleteResourceKeepsRows DEF Telling
  <2>2. CASE RepositoriesGo
    BY <2>2, StillKeepsRows DEF RepositoriesGo, RepositoryGone, authVars, RegisterRows, QuestionsTyped
  <2>3. CASE UNCHANGED registerVars
    BY <2>3, StillKeepsRows DEF registerVars, projectVars, authVars, RegisterRows, QuestionsTyped
  <2> QED
    BY <2>1, <2>2, <2>3, CreatingKeepsRows, ReadingIsBeside, ForgettingKeepsRows, DyingKeepsRows,
       AnsweringKeepsRows DEF RegisterNext
<1> QED
  BY <1>1, <1>2, PTL DEF RegisterSpec

-----------------------------------------------------------------------------
(* The properties of the rows.                                             *)

(* A retry of a create is never told that a name or a repository is taken  *)
(* by the attempt it is a retry of: makeOrAdoptProject                     *)
(* (src/src/projects/create.ts) looks for what the write made first, and a *)
(* row that is made afterwards has a number no earlier answer names.       *)
THEOREM RetriesDoNotCollide == RegisterSpec => []RetriesAreNotCollisions
<1>1. RegisterRows => RetriesAreNotCollisions
  BY DEF RegisterRows, CollisionsAreOfOthers, RetriesAreNotCollisions
<1> QED
  BY <1>1, RegisterRowsHold, PTL

(* What loreserver says of a repository it makes for a create is found to  *)
(* be of the row the create has written, whoever forgets what meanwhile:   *)
(* create.ts and createResource of src/src/projects/service.ts.            *)
THEOREM RepositoriesComeBack == RegisterSpec => []RepositoriesComeBackToTheirRow
<1>1. RegisterRows => RepositoriesComeBackToTheirRow
  BY DEF RegisterRows, AskingHasItsRow, RowsApart, RepositoriesComeBackToTheirRow
<1> QED
  BY <1>1, RegisterRowsHold, PTL

-----------------------------------------------------------------------------
(* The checkouts.                                                          *)

LEMMA ReadingStepsKeepMarks ==
  ASSUME RInv, ReadingSteps
  PROVE  ReadingTyped' /\ MarksFollowCheckouts' /\ ReadyIsWhole'
<1>1. reading # Idle /\ reading \in ReadingRecords /\ reading.id \in Ids /\ UNCHANGED listed
  <2>1. Finds \/ Unmarks \/ Removes => reading # Idle /\ UNCHANGED listed
    BY DEF Finds, Unmarks, Removes, Step, Elsewhere
  <2>2. Clones \/ Marks \/ Reads => reading # Idle /\ UNCHANGED listed
    BY DEF Clones, Marks, Reads, Step, Elsewhere
  <2>3. reading # Idle /\ UNCHANGED listed
    BY <2>1, <2>2 DEF ReadingSteps
  <2> QED
    BY <2>3 DEF RInv, ReadingTyped, ReadingRecords
<1>2. ASSUME NEW from, NEW to \in StepsOfReading, Step(from, to)
      PROVE  /\ reading.step = from /\ reading' \in ReadingRecords
             /\ reading'.id = reading.id /\ reading'.step = to
  BY <1>1, <1>2 DEF Step, ReadingRecords
<1>3. ASSUME Reads
      PROVE  ReadingTyped' /\ MarksFollowCheckouts' /\ ReadyIsWhole'
  BY <1>3 DEF Reads, diskVars, RInv, ReadingTyped, MarksFollowCheckouts, ReadyIsWhole
<1>4. ASSUME Finds
      PROVE  ReadingTyped' /\ MarksFollowCheckouts' /\ ReadyIsWhole'
  <2>1. /\ reading' \in ReadingRecords /\ reading'.step \in {"walking", "unmarking"}
        /\ UNCHANGED <<checkout, ready>>
    BY <1>2, <1>4 DEF Finds, diskVars, StepsOfReading
  <2> QED
    BY <1>1, <2>1 DEF RInv, ReadingTyped, MarksFollowCheckouts, ReadyIsWhole
<1>5. ASSUME Unmarks
      PROVE  ReadingTyped' /\ MarksFollowCheckouts' /\ ReadyIsWhole'
  <2>1. /\ reading' \in ReadingRecords /\ reading'.step = "removing" /\ reading'.id = reading.id
        /\ checkout' = checkout /\ ready' = ready \ {reading.id}
    BY <1>2, <1>5 DEF Unmarks, StepsOfReading
  <2> QED
    BY <1>1, <2>1 DEF RInv, ReadingTyped, MarksFollowCheckouts, ReadyIsWhole
<1>6. ASSUME Marks
      PROVE  ReadingTyped' /\ MarksFollowCheckouts' /\ ReadyIsWhole'
  <2>1. /\ reading.step = "marking" /\ reading' \in ReadingRecords /\ reading'.step = "walking"
        /\ checkout' = checkout /\ ready' = ready \cup {reading.id}
    BY <1>2, <1>6 DEF Marks, StepsOfReading
  <2> QED
    BY <1>1, <2>1 DEF RInv, ReadingTyped, MarksFollowCheckouts, ReadyIsWhole
<1>7. ASSUME Removes \/ Clones
      PROVE  ReadingTyped' /\ MarksFollowCheckouts' /\ ReadyIsWhole'
  <2>1. /\ reading.step \in {"removing", "cloning"} /\ reading' \in ReadingRecords
        /\ reading'.id = reading.id /\ ready' = ready
        /\ \E state \in {None, "partial", "whole"} :
             /\ checkout' = [checkout EXCEPT ![reading.id] = state]
             /\ reading'.step = "marking" => state = "whole"
    BY <1>2, <1>7 DEF Removes, Clones, StepsOfReading, DirBecomes
  <2>2. reading.id \notin ready /\ checkout \in [Ids -> {None, "partial", "whole"}]
    BY <1>1, <2>1 DEF RInv, ReadingTyped, MarksFollowCheckouts
  <2>3. checkout' \in [Ids -> {None, "partial", "whole"}]
    BY <2>1, <2>2
  <2>4. /\ \A i \in Ids \ {reading.id} : checkout'[i] = checkout[i]
        /\ reading'.step = "marking" => checkout'[reading.id] = "whole"
    BY <1>1, <2>1, <2>2
  <2>5. ReadingTyped'
    BY <1>1, <2>1, <2>3 DEF RInv, ReadingTyped
  <2>6. MarksFollowCheckouts'
    BY <2>1, <2>2, <2>4 DEF MarksFollowCheckouts
  <2>7. ReadyIsWhole'
    BY <2>1, <2>2, <2>4 DEF RInv, ReadingTyped, ReadyIsWhole
  <2> QED
    BY <2>5, <2>6, <2>7
<1> QED
  BY <1>3, <1>4, <1>5, <1>6, <1>7 DEF ReadingSteps

LEMMA CheckoutsStep ==
  ASSUME RInv, [RegisterNext]_registerVars
  PROVE  ReadingTyped' /\ MarksFollowCheckouts' /\ ReadyIsWhole'
<1>1. ASSUME UNCHANGED <<listed, reading, checkout, ready>>
      PROVE  ReadingTyped' /\ MarksFollowCheckouts' /\ ReadyIsWhole'
  BY <1>1 DEF RInv, ReadingTyped, MarksFollowCheckouts, ReadyIsWhole
<1>2. CASE ReadingSteps
  BY <1>2, ReadingStepsKeepMarks
<1>3. CASE Lists
  BY <1>3 DEF Lists, diskVars, RInv, RegisterRows, RowsTyped, ReadingTyped, MarksFollowCheckouts,
              ReadyIsWhole
<1>4. CASE PassEnds
  BY <1>4 DEF PassEnds, diskVars, RInv, ReadingTyped, MarksFollowCheckouts, ReadyIsWhole
<1>5. ASSUME NEW p \in listed, Turn(p)
      PROVE  ReadingTyped' /\ MarksFollowCheckouts' /\ ReadyIsWhole'
  <2>1. /\ listed' \subseteq listed /\ UNCHANGED <<checkout, ready>>
        /\ reading' = reading \/ reading' = [id |-> p.id, gen |-> p.gen, step |-> "finding"]
    BY <1>5 DEF Turn, diskVars
  <2>2. p.id \in Ids /\ p.gen \in Nat
    BY DEF RInv, ReadingTyped
  <2>3. CASE reading' = reading
    BY <2>1, <2>3 DEF RInv, ReadingTyped, MarksFollowCheckouts, ReadyIsWhole
  <2>4. CASE reading' = [id |-> p.id, gen |-> p.gen, step |-> "finding"]
    <3>1. reading' \in ReadingRecords /\ reading'.step = "finding"
      BY <2>2, <2>4 DEF ReadingRecords, StepsOfReading
    <3> QED
      BY <2>1, <3>1 DEF RInv, ReadingTyped, MarksFollowCheckouts, ReadyIsWhole
  <2> QED
    BY <2>1, <2>3, <2>4
<1>6. CASE Dying
  BY <1>6 DEF Dying, ReadingsDie, diskVars, RInv, ReadingTyped, MarksFollowCheckouts, ReadyIsWhole
<1>7. CASE Request \/ DrainBegins \/ Stop \/ \E id \in Ids : PageBegins(id) \/ PageEnds(id)
  BY <1>1, <1>7 DEF Request, DrainBegins, Stop, PageBegins, PageEnds, passVars, diskVars
<1>8. CASE ForgettingAny
  BY <1>1, <1>8 DEF ForgettingAny, Forget, passVars, diskVars
<1>9. CASE Telling
  BY <1>1, <1>9 DEF Telling, CreateResource, DeleteResource, readingVars, passVars, diskVars
<1>10. CASE Creating \/ Answering \/ RepositoriesGo \/ UNCHANGED registerVars
  BY <1>1, <1>10 DEF Creating, Answering, AnswersOnly, RepositoriesGo, RepositoryGone, registerVars,
                     readingVars, passVars, diskVars
<1> QED
  BY <1>2, <1>3, <1>4, <1>5, <1>6, <1>7, <1>8, <1>9, <1>10 DEF RegisterNext, Reading, ReadingNext

(* Types, and all that is known of rows, answers and checkouts, in every   *)
(* state the registry comes to.                                            *)
THEOREM RegisterHolds == RegisterSpec => []RInv
<1>1. RegisterInit => ReadingTyped /\ MarksFollowCheckouts /\ ReadyIsWhole
  BY DEF RegisterInit, ReadingsInit, ReadingTyped, MarksFollowCheckouts, ReadyIsWhole
<1>2. RegisterRows /\ ReadingTyped /\ MarksFollowCheckouts /\ ReadyIsWhole
        /\ [RegisterNext]_registerVars
        => ReadingTyped' /\ MarksFollowCheckouts' /\ ReadyIsWhole'
  BY CheckoutsStep DEF RInv
<1>3. RegisterSpec => [](ReadingTyped /\ MarksFollowCheckouts /\ ReadyIsWhole)
  BY <1>1, <1>2, RegisterRowsHold, PTL DEF RegisterSpec
<1> QED
  BY <1>3, RegisterRowsHold, PTL DEF RInv

(* A checkout that is marked ready is a whole one, wherever a process      *)
(* died: ensureCheckout (src/src/projects/cache.ts) takes the mark away    *)
(* before it touches the directory, and puts it back when all is there.    *)
THEOREM ReadyStaysWhole == RegisterSpec => []ReadyIsWhole
<1>1. RInv => ReadyIsWhole
  BY DEF RInv
<1> QED
  BY <1>1, RegisterHolds, PTL
=============================================================================
