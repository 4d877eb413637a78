--------------------------- MODULE RecordsProofs ---------------------------
(***************************************************************************)
(* What a server keeps beside accounts: conversations, records attached to *)
(* a project, decisions, the accounts as a list, wrong passwords and       *)
(* settings; and what stands at the other end of it, the servers on file   *)
(* of a command line and a call between two servers.  Proved: that whoever *)
(* follows the cursors of any list has all of it once, that a repeated     *)
(* write finds its row, that refusals outlast what was allowed, that a     *)
(* wait is served, that a deployment that is closed is closed, that a      *)
(* pinned authority stays, and that a call carries one message.            *)
(***************************************************************************)
EXTENDS
  Overlay, Decisions, Roster, SignIn, Settings, Credentials, Calls, FiniteSetTheorems,
  SequenceTheorems, WellFoundedInduction, TLAPS

-----------------------------------------------------------------------------
(* Finite sets in an order.                                                *)

StrictOn(S, R) ==
  /\ \A a \in S : <<a, a>> \notin R
  /\ \A a, b, c \in S : <<a, b>> \in R /\ <<b, c>> \in R => <<a, c>> \in R

\* A finite set that is not empty has an element nothing is before.
LEMMA HasAFirst ==
  ASSUME NEW S, IsFiniteSet(S), S # {}, NEW R, StrictOn(S, R)
  PROVE  \E m \in S : \A s \in S : <<s, m>> \notin R
<1> DEFINE before(m) == {s \in S : <<s, m>> \in R}
           T == {before(m) : m \in S}
<1>1. IsWellFoundedOn(StrictSubsetOrdering(S), SUBSET S)
  BY FS_StrictSubsetOrderingWellFounded, FS_FiniteSubsetsOfFinite
<1>2. T \subseteq SUBSET S /\ T # {}
  OBVIOUS
<1>3. PICK x \in T : \A y \in T : <<y, x>> \notin StrictSubsetOrdering(S)
  BY <1>1, <1>2, WFMin
<1>4. PICK m \in S : x = before(m)
  BY <1>3
<1>5. ASSUME NEW s \in S, <<s, m>> \in R
      PROVE  FALSE
  <2>1. before(s) \in T /\ before(s) \subseteq before(m) /\ s \in before(m) /\ s \notin before(s)
    <3>1. before(s) \in T
      OBVIOUS
    <3>2. ASSUME NEW t \in before(s)
          PROVE  t \in before(m)
      BY <1>5, <3>2 DEF StrictOn
    <3>3. s \in before(m) /\ s \notin before(s)
      BY <1>5 DEF StrictOn
    <3> QED
      BY <3>1, <3>2, <3>3
  <2>2. before(s) \in SUBSET S /\ before(m) \in SUBSET S /\ before(s) # before(m)
    BY <2>1
  <2>3. <<before(s), before(m)>> \in StrictSubsetOrdering(S)
    BY <2>1, <2>2 DEF StrictSubsetOrdering
  <2> QED
    BY <1>3, <1>4, <2>1, <2>3
<1> QED
  BY <1>5

\* What a next number is taken from.
LEMMA MaxIsThere ==
  ASSUME NEW S \in SUBSET Nat, IsFiniteSet(S), S # {}
  PROVE  Max(S) \in S /\ \A s \in S : s <= Max(S)
<1> DEFINE R == {p \in S \X S : p[1] > p[2]}
<1>1. StrictOn(S, R)
  BY DEF StrictOn
<1>2. PICK m \in S : \A s \in S : <<s, m>> \notin R
  BY <1>1, HasAFirst
<1>3. \A s \in S : m >= s
  <2> SUFFICES ASSUME NEW s \in S, s > m
               PROVE  FALSE
    OBVIOUS
  <2>1. <<s, m>> \in S \X S /\ <<s, m>>[1] > <<s, m>>[2]
    OBVIOUS
  <2> QED
    BY <1>2, <2>1
<1>4. \E x \in S : \A y \in S : x >= y
  BY <1>3
<1> QED
  BY <1>4 DEF Max

-----------------------------------------------------------------------------
(* Pages.                                                                  *)

Placed(rows) == \A r \in rows : r.at \in Nat /\ r.id \in Nat
OneIdEach(rows) == \A r, s \in rows : r.id = s.id => r = s
Listable(rows) == IsFiniteSet(rows) /\ Placed(rows) /\ OneIdEach(rows)

Orders == {"newest", "oldest"}

\* Both orders, told apart by their places.
LEMMA OrderIsStrict ==
  ASSUME NEW order, NEW r, NEW s, NEW t,
         r.at \in Nat, r.id \in Nat, s.at \in Nat, s.id \in Nat, t.at \in Nat, t.id \in Nat
  PROVE  /\ ~Ahead(order, r, r)
         /\ Ahead(order, r, s) => ~Ahead(order, s, r)
         /\ Ahead(order, r, s) /\ Ahead(order, s, t) => Ahead(order, r, t)
         /\ r.id # s.id => Ahead(order, r, s) \/ Ahead(order, s, r)
BY DEF Ahead, Newer, Earlier

LEMMA PlaceIsOrdered ==
  ASSUME NEW order, NEW r, NEW s
  PROVE  /\ Ahead(order, Place(r), s) <=> Ahead(order, r, s)
         /\ Place(r).at = r.at /\ Place(r).id = r.id
BY DEF Ahead, Newer, Earlier, Place

LEMMA PageIsAStart ==
  ASSUME NEW left, Listable(left), NEW weight, NEW order,
         NEW r \in Page(left, weight, order), NEW s \in left, Ahead(order, s, r)
  PROVE  s \in Page(left, weight, order)
<1>1. UpTo(left, order, s) \subseteq UpTo(left, order, r)
  <2> SUFFICES ASSUME NEW t \in left, t.id = s.id \/ Ahead(order, t, s)
               PROVE  Ahead(order, t, r)
    BY DEF UpTo
  <2>1. r \in left
    BY DEF Page
  <2> QED
    BY <2>1, OrderIsStrict DEF Listable, Placed, OneIdEach
<1> QED
  BY <1>1 DEF Page

\* A page of something is something.
LEMMA PagesMoveOn ==
  ASSUME NEW left, Listable(left), left # {}, NEW weight, NEW order
  PROVE  Page(left, weight, order) # {}
<1> DEFINE R == {p \in left \X left : Ahead(order, p[1], p[2])}
<1>1. StrictOn(left, R)
  BY OrderIsStrict DEF StrictOn, Listable, Placed
<1>2. PICK m \in left : \A s \in left : <<s, m>> \notin R
  BY <1>1, HasAFirst DEF Listable
<1>3. UpTo(left, order, m) = {m}
  BY <1>2 DEF UpTo, Listable, OneIdEach
<1>4. Cardinality({m}) = 1
  BY FS_Singleton, Zenon
<1>5. Fits(left, weight, order, m)
  BY <1>3, <1>4, PagingAssumption DEF Fits
<1>6. m \in Page(left, weight, order)
  BY <1>3, <1>5 DEF Page
<1> QED
  BY <1>6

LastOf(page, order) == {s \in page : ~\E t \in page : Ahead(order, s, t)}

LEMMA PagesEnd ==
  ASSUME NEW page, Listable(page), page # {}, NEW order
  PROVE  \E l \in page :
           /\ LastOf(page, order) = {l}
           /\ \A r \in page : r = l \/ Ahead(order, r, l)
<1> DEFINE R == {p \in page \X page : Ahead(order, p[2], p[1])}
<1>1. StrictOn(page, R)
  BY OrderIsStrict DEF StrictOn, Listable, Placed
<1>2. PICK l \in page : \A s \in page : <<s, l>> \notin R
  BY <1>1, HasAFirst DEF Listable
<1>3. \A r \in page : r = l \/ Ahead(order, r, l)
  BY <1>2, OrderIsStrict DEF Listable, Placed, OneIdEach
<1>4. LastOf(page, order) = {l}
  <2>1. ASSUME NEW t \in page, Ahead(order, l, t)
        PROVE  FALSE
    BY <1>3, <2>1, OrderIsStrict DEF Listable, Placed
  <2>2. \A s \in page : s # l => Ahead(order, s, l)
    BY <1>3
  <2> QED
    BY <2>1, <2>2 DEF LastOf
<1> QED
  BY <1>3, <1>4

-----------------------------------------------------------------------------
(* One reader of one list.                                                 *)

PagerSound ==
  /\ pager = [list |-> pager.list, state |-> pager.state, cursor |-> pager.cursor,
              seen |-> pager.seen, due |-> pager.due, twice |-> pager.twice]
  /\ \A c \in pager.cursor : c.at \in Nat /\ c.id \in Nat
  /\ PagesAreWhole

\* What is due is there still, and has been seen as far as the cursor says.
ThereStill(rows, order) ==
  /\ \A i \in pager.due : \E r \in rows : r.id = i
  /\ \A r \in rows : r.id \in pager.due =>
       (r.id \in pager.seen <=> \E c \in pager.cursor : ~Ahead(order, c, r))

ReadIn(list, rows, order) == pager.list = list /\ pager.state = "open" => ThereStill(rows, order)

\* Rows that were not touched are in their places, and what is new has a new id.
Kept(rows, after, ids) ==
  /\ \A r \in rows : r.id \notin ids => \E s \in after : s.id = r.id
  /\ \A s \in after : s.id \notin ids =>
       \/ \E r \in rows : r.id = s.id /\ r.at = s.at
       \/ \A r \in rows : r.id # s.id

LEMMA TouchedIsSound ==
  ASSUME PagerSound, NEW ids, Touched(ids)
  PROVE  /\ PagerSound'
         /\ pager'.list = pager.list /\ pager'.state = pager.state /\ pager'.cursor = pager.cursor
         /\ pager'.seen = pager.seen /\ pager'.due = pager.due \ ids
<1>1. /\ pager' = [list |-> pager.list, state |-> pager.state, cursor |-> pager.cursor,
                   seen |-> pager.seen, due |-> pager.due \ ids, twice |-> pager.twice]
  BY DEF PagerSound, Touched
<1>2. /\ pager'.list = pager.list /\ pager'.state = pager.state /\ pager'.cursor = pager.cursor
      /\ pager'.seen = pager.seen /\ pager'.due = pager.due \ ids /\ pager'.twice = pager.twice
  BY <1>1
<1> QED
  BY <1>1, <1>2 DEF PagerSound, PagesAreWhole

LEMMA KeptIsRead ==
  ASSUME PagerSound, NEW ids, Touched(ids), NEW list, NEW order,
         NEW rows, NEW after, Kept(rows, after, ids), ReadIn(list, rows, order)
  PROVE  ReadIn(list, after, order)'
<1> SUFFICES ASSUME pager'.list = list, pager'.state = "open"
             PROVE  ThereStill(after, order)'
  BY DEF ReadIn
<1>1. /\ pager'.cursor = pager.cursor /\ pager'.seen = pager.seen /\ pager'.due = pager.due \ ids
      /\ pager.list = list /\ pager.state = "open"
  BY TouchedIsSound
<1>2. ThereStill(rows, order)
  BY <1>1 DEF ReadIn
<1>3. \A i \in pager'.due : \E s \in after : s.id = i
  BY <1>1, <1>2 DEF ThereStill, Kept
<1>4. ASSUME NEW s \in after, s.id \in pager'.due
      PROVE  s.id \in pager'.seen <=> \E c \in pager'.cursor : ~Ahead(order, c, s)
  <2>1. PICK r \in rows : r.id = s.id /\ r.at = s.at
    BY <1>1, <1>2, <1>4 DEF ThereStill, Kept
  <2>2. \A c : Ahead(order, c, s) <=> Ahead(order, c, r)
    BY <2>1 DEF Ahead, Newer, Earlier
  <2> QED
    BY <1>1, <1>2, <1>4, <2>1, <2>2 DEF ThereStill
<1> QED
  BY <1>3, <1>4 DEF ThereStill

\* A turn of the reader.
LEMMA TurnsAreSound ==
  ASSUME PagerSound, NEW list, NEW weight, NEW order, Listable(DOMAIN weight),
         ReadIn(list, DOMAIN weight, order), Turns(list, weight, order)
  PROVE  /\ PagerSound' /\ pager'.list = list
         /\ ReadIn(list, DOMAIN weight, order)'
<1> DEFINE rows == DOMAIN weight
           first == pager.state # "open" \/ pager.list # list
           due == IF first THEN {r.id : r \in rows} ELSE pager.due
           seen == IF first THEN {} ELSE pager.seen
           left == IF first THEN rows ELSE Past(rows, pager.cursor, order)
           page == Page(left, weight, order)
<1>1. /\ pager' = [list |-> list, state |-> IF page = left THEN "done" ELSE "open",
                   cursor |-> {Place(r) : r \in LastOf(page, order)},
                   seen |-> seen \cup {r.id : r \in page}, due |-> due,
                   twice |-> \E r \in page : r.id \in due \cap seen]
  BY Zenon DEF Turns, LastOf
<1>2. /\ pager'.list = list /\ pager'.state = IF page = left THEN "done" ELSE "open"
      /\ pager'.cursor = {Place(r) : r \in LastOf(page, order)}
      /\ pager'.seen = seen \cup {r.id : r \in page} /\ pager'.due = due
      /\ pager'.twice = \E r \in page : r.id \in due \cap seen
  BY <1>1
<1>3. ~first => ThereStill(rows, order)
  BY DEF ReadIn
<1>4. left \subseteq rows /\ page \subseteq left
  BY DEF Past, Page
<1>5. Listable(left)
  BY <1>4, FS_Subset DEF Listable, Placed, OneIdEach
<1>6. Listable(page)
  BY <1>4, <1>5, FS_Subset DEF Listable, Placed, OneIdEach
<1>7. \A r \in page, s \in left : Ahead(order, s, r) => s \in page
  BY <1>5, PageIsAStart
<1>8. left # {} => page # {}
  BY <1>5, PagesMoveOn
\* What is left has not been seen, of what is due, and what is not left has.
<1>9. \A r \in rows : r.id \in due => (r.id \in seen <=> r \notin left)
  <2>1. CASE first
    BY <2>1
  <2>2. CASE ~first
    BY <1>3, <2>2 DEF ThereStill, Past
  <2> QED
    BY <2>1, <2>2
<1>10. \A i \in due : \E r \in rows : r.id = i
  BY <1>3 DEF ThereStill
<1>11. \A c \in pager'.cursor : c.at \in Nat /\ c.id \in Nat
  BY <1>2, <1>6, PlaceIsOrdered DEF LastOf, Listable, Placed
<1>12. PagesAreWhole'
  <2>1. ~pager'.twice
    BY <1>2, <1>4, <1>9
  <2>2. ASSUME page = left, NEW i \in due
        PROVE  i \in seen \cup {r.id : r \in page}
    <3>1. PICK r \in rows : r.id = i
      BY <1>10
    <3> QED
      BY <1>9, <2>2, <3>1
  <2> QED
    BY <1>2, <2>1, <2>2 DEF PagesAreWhole
<1>13. PagerSound'
  BY <1>1, <1>2, <1>11, <1>12 DEF PagerSound
<1>14. ASSUME page # left
       PROVE  ThereStill(rows, order)'
  <2>1. PICK l \in page : /\ LastOf(page, order) = {l}
                          /\ \A r \in page : r = l \/ Ahead(order, r, l)
    BY <1>4, <1>6, <1>8, <1>14, PagesEnd
  <2>2. \A r : (\E c \in pager'.cursor : ~Ahead(order, c, r)) <=> ~Ahead(order, l, r)
    BY <1>2, <2>1, PlaceIsOrdered
  <2>3. ASSUME NEW r \in rows, r.id \in due
        PROVE  r.id \in pager'.seen <=> ~Ahead(order, l, r)
    <3>1. r.at \in Nat /\ r.id \in Nat /\ l.at \in Nat /\ l.id \in Nat /\ l \in left
      BY <1>4 DEF Listable, Placed
    <3>2. CASE r \in page
      BY <1>2, <2>1, <3>1, <3>2, OrderIsStrict
    <3>3. CASE r \in left /\ r \notin page
      <4>1. r.id \notin pager'.seen
        <5>1. r.id \notin seen
          BY <1>9, <2>3, <3>3
        <5>2. \A q \in page : q.id # r.id
          BY <1>4, <3>3 DEF Listable, OneIdEach
        <5> QED
          BY <1>2, <5>1, <5>2
      <4>2. ~Ahead(order, r, l) /\ r # l
        BY <1>7, <3>3
      <4>3. r.id # l.id
        BY <1>4, <4>2 DEF Listable, OneIdEach
      <4> QED
        BY <3>1, <4>1, <4>2, <4>3, OrderIsStrict
    <3>4. CASE r \notin left
      <4>1. r.id \in pager'.seen
        BY <1>2, <1>9, <2>3, <3>4
      <4>2. ~first
        BY <3>4
      <4>3. PICK c \in pager.cursor : ~Ahead(order, c, r)
        BY <3>4, <4>2 DEF Past
      <4>4. Ahead(order, c, l)
        BY <3>1, <4>2, <4>3 DEF Past
      <4>5. c.at \in Nat /\ c.id \in Nat
        BY <4>3 DEF PagerSound
      <4> QED
        BY <3>1, <4>1, <4>3, <4>4, <4>5, OrderIsStrict
    <3> QED
      BY <3>2, <3>3, <3>4
  <2> QED
    BY <1>2, <1>10, <2>2, <2>3 DEF ThereStill
<1> QED
  BY <1>2, <1>13, <1>14 DEF ReadIn

-----------------------------------------------------------------------------
(* The stores.                                                             *)

ListVars == <<pager, conversationVars, overlayVars, decisionVars, roster>>

ListsInit ==
  pager = AtRest /\ ConversationsInit /\ OverlayInit /\ DecisionsInit /\ RosterInit

Conversing ==
  /\ \/ \E by \in Authors, p \in Places, key \in Keys \cup {NoKey}, size \in Nat, now \in Now :
          ThreadsCreate(by, p, key, size, now)
     \/ \E by \in Authors, t \in ThreadIds, key \in Keys \cup {NoKey}, size \in Nat, now \in Now :
          ThreadsReply(by, t, key, size, now)
     \/ \E t \in ThreadIds, resolved \in BOOLEAN, now \in Now : ThreadsResolve(t, resolved, now)
     \/ \E c \in comments, size \in Nat, now \in Now :
          CommentsEdit(c.by, c, size, now) \/ CommentsDelete(c.by, c, now)
  /\ UNCHANGED <<overlayVars, decisionVars, roster>>

\* Records attached to a project.
Recording ==
  /\ \/ \E by \in Authors, p \in Places, key \in Keys \cup {NoKey}, size \in Nat, now \in Now :
          OverlayPut(by, p, key, size, now)
     \/ \E r \in overlay, size \in Nat, now \in Now : OverlayRevise(r.by, r, size, now)
     \/ \E r \in overlay : OverlayDrop(r.by, r)
  /\ UNCHANGED <<decisionVars, roster>>

ForgettingAny == (\E p \in Places : ProjectGoes(p)) /\ UNCHANGED <<decisionVars, roster>>

Deciding ==
  /\ DiesDeciding \/ \E allowed \in BOOLEAN, now \in Now : RecordDecision(allowed, now)
  /\ UNCHANGED <<conversationVars, overlayVars, roster>>

Enlisting ==
  /\ \E id \in RosterIds, username \in Usernames, now \in Now : CreateUser(id, username, now)
  /\ UNCHANGED <<conversationVars, overlayVars, decisionVars>>

ListingThreads == (\E p \in Places : ThreadsList(p)) /\ UNCHANGED <<overlayVars, decisionVars, roster>>
ReadingAThread == (\E t \in ThreadIds : ThreadsGet(t)) /\ UNCHANGED <<overlayVars, decisionVars, roster>>
ListingRecords == (\E p \in Places : OverlayList(p)) /\ UNCHANGED <<decisionVars, roster>>
ListingDecisions == PageDecisions /\ UNCHANGED <<conversationVars, overlayVars, roster>>
ListingAccounts == PageUsers /\ UNCHANGED <<conversationVars, overlayVars, decisionVars>>

Listing ==
  ListingThreads \/ ReadingAThread \/ ListingRecords \/ ListingDecisions \/ ListingAccounts

ListsNext ==
  Conversing \/ Recording \/ ForgettingAny \/ Deciding \/ Enlisting \/ Listing

ListsSpec == ListsInit /\ [][ListsNext]_ListVars

WriteNames == {NoKey} \cup ({"create", "opening", "reply"} \X Keys)

ThreadRecords ==
  [id : ThreadIds, project : Places, at : Now, by : Authors, key : WriteNames,
   resolved : BOOLEAN, withIt : Nat]
CommentRecords ==
  [id : 1..MaxComments, thread : ThreadIds, at : Now, by : Authors, key : WriteNames,
   size : Nat, gone : BOOLEAN]
OverlayRecords ==
  [id : RecordIds, project : Places, at : Now, by : Authors, key : Keys \cup {NoKey}, size : Nat]
DecisionRecords == [id : Nat, at : Now, allowed : BOOLEAN]

\* Rows of a table: so many, of one form, an id each.
Table(rows, records) == rows \subseteq records /\ IsFiniteSet(rows) /\ OneIdEach(rows)

ThreadsTabled == places \subseteq Places /\ Table(threads, ThreadRecords)
CommentsTabled == Table(comments, CommentRecords)
OverlayTabled == Table(overlay, OverlayRecords)
DecisionsTabled == Table(decisions, DecisionRecords)
RosterTabled == Table(roster, [id : RosterIds, at : Now, name : Usernames])

ListsTyped ==
  /\ ThreadsTabled /\ CommentsTabled /\ OverlayTabled /\ DecisionsTabled /\ RosterTabled

LEMMA TablesAreListable ==
  ASSUME ListsTyped
  PROVE  /\ Listable(threads) /\ Listable(comments) /\ Listable(overlay)
         /\ Listable(decisions) /\ Listable(roster)
<1>1. ThreadIds \subseteq Nat /\ RecordIds \subseteq Nat /\ RosterIds \subseteq Nat /\ Now \subseteq Nat
      /\ 1..MaxComments \subseteq Nat
  BY ConversationsAssumption, OverlayAssumption, RosterAssumption, PagingAssumption DEF Now
<1>2. Listable(threads)
  BY <1>1 DEF ListsTyped, ThreadsTabled, Table, ThreadRecords, Listable, Placed
<1>3. Listable(comments)
  BY <1>1 DEF ListsTyped, CommentsTabled, Table, CommentRecords, Listable, Placed
<1>4. Listable(overlay)
  BY <1>1 DEF ListsTyped, OverlayTabled, Table, OverlayRecords, Listable, Placed
<1>5. Listable(decisions)
  BY <1>1 DEF ListsTyped, DecisionsTabled, Table, DecisionRecords, Listable, Placed
<1>6. Listable(roster)
  BY <1>1 DEF ListsTyped, RosterTabled, Table, Listable, Placed
<1> QED
  BY <1>2, <1>3, <1>4, <1>5, <1>6

\* A row more, of a new id.
LEMMA RowIsAdded ==
  ASSUME NEW rows, NEW records, Table(rows, records), NEW row \in records,
         \A r \in rows : r.id # row.id
  PROVE  Table(rows \cup {row}, records)
BY FS_AddElement DEF Table, OneIdEach

LEMMA RowsAreFewer ==
  ASSUME NEW rows, NEW records, Table(rows, records), NEW after \in SUBSET rows
  PROVE  Table(after, records)
BY FS_Subset DEF Table, OneIdEach

\* A row in the place of another of its id.
LEMMA RowIsReplaced ==
  ASSUME NEW rows, NEW records, Table(rows, records), NEW row \in rows,
         NEW new \in records, new.id = row.id
  PROVE  Table((rows \ {row}) \cup {new}, records)
<1>1. Table(rows \ {row}, records)
  BY RowsAreFewer
<1>2. \A r \in rows \ {row} : r.id # new.id
  BY DEF Table, OneIdEach
<1> QED
  BY <1>1, <1>2, RowIsAdded

\* Rows that were changed where they are.
LEMMA RowsAreChanged ==
  ASSUME NEW rows, NEW records, Table(rows, records), NEW f \in [rows -> records],
         \A r \in rows : f[r].id = r.id
  PROVE  Table({f[r] : r \in rows}, records)
<1> DEFINE after == {f[r] : r \in rows}
<1>1. f \in Surjection(rows, after)
  BY DEF Surjection
<1>2. IsFiniteSet(after)
  BY <1>1, FS_Surjection DEF Table
<1> QED
  BY <1>2 DEF Table, OneIdEach

\* A number more than all there are.
LEMMA NextIsNew ==
  ASSUME NEW rows, IsFiniteSet(rows), \A r \in rows : r.id \in Nat, rows # {}
  PROVE  1 + Max({r.id : r \in rows}) \in Nat /\ \A r \in rows : r.id < 1 + Max({s.id : s \in rows})
<1> DEFINE ids == {r.id : r \in rows}
           f == [r \in rows |-> r.id]
<1>1. f \in Surjection(rows, ids)
  BY DEF Surjection
<1>2. IsFiniteSet(ids) /\ ids \in SUBSET Nat /\ ids # {}
  BY <1>1, FS_Surjection
<1>3. Max(ids) \in ids /\ \A i \in ids : i <= Max(ids)
  BY <1>2, MaxIsThere
<1> DEFINE m == Max(ids)
<1>4. m \in Nat /\ \A r \in rows : r.id <= m
  BY <1>2, <1>3
<1> HIDE DEF m
<1>5. 1 + m \in Nat /\ \A r \in rows : r.id < 1 + m
  BY <1>4
<1> QED
  BY <1>5, Zenon DEF m

-----------------------------------------------------------------------------
(* What a write does to the rows of each list.                             *)

\* Kept, in each of the lists a table is read as: of(r) is the list of r.
ThreadsMove(ids) ==
  /\ \A r \in threads : r.id \notin ids => \E s \in threads' : s.id = r.id /\ s.project = r.project
  /\ \A s \in threads' : s.id \notin ids =>
       \/ \E r \in threads : r.id = s.id /\ r.at = s.at /\ r.project = s.project
       \/ \A r \in threads : r.id # s.id

CommentsMove(ids) ==
  /\ \A r \in comments : r.id \notin ids => \E s \in comments' : s.id = r.id /\ s.thread = r.thread
  /\ \A s \in comments' : s.id \notin ids =>
       \/ \E r \in comments : r.id = s.id /\ r.at = s.at /\ r.thread = s.thread
       \/ \A r \in comments : r.id # s.id

OverlayMoves(ids) ==
  /\ \A r \in overlay : r.id \notin ids => \E s \in overlay' : s.id = r.id /\ s.project = r.project
  /\ \A s \in overlay' : s.id \notin ids =>
       \/ \E r \in overlay : r.id = s.id /\ r.at = s.at /\ r.project = s.project
       \/ \A r \in overlay : r.id # s.id

Moves(ids) ==
  /\ Touched(ids)
  /\ ThreadsMove(ids) /\ CommentsMove(ids) /\ OverlayMoves(ids)
  /\ Kept(decisions, decisions', ids) /\ Kept(roster, roster', ids)

\* Rows that are not written are where they were.
LEMMA NothingMoves ==
  ASSUME NEW ids
  PROVE  /\ UNCHANGED threads => ThreadsMove(ids)
         /\ UNCHANGED comments => CommentsMove(ids)
         /\ UNCHANGED overlay => OverlayMoves(ids)
         /\ UNCHANGED decisions => Kept(decisions, decisions', ids)
         /\ UNCHANGED roster => Kept(roster, roster', ids)
<1>1. UNCHANGED threads => ThreadsMove(ids)
  BY DEF ThreadsMove
<1>2. UNCHANGED comments => CommentsMove(ids)
  BY DEF CommentsMove
<1>3. UNCHANGED overlay => OverlayMoves(ids)
  BY DEF OverlayMoves
<1>4. UNCHANGED decisions => Kept(decisions, decisions', ids)
  BY DEF Kept
<1>5. UNCHANGED roster => Kept(roster, roster', ids)
  BY DEF Kept
<1> QED
  BY <1>1, <1>2, <1>3, <1>4, <1>5

LEMMA UntouchedPager ==
  ASSUME PagerSound, UNCHANGED pager
  PROVE  Touched({})
<1>1. pager.due \ {} = pager.due
  OBVIOUS
<1>2. [pager EXCEPT !.due = pager.due \ {}] = pager
  BY <1>1 DEF PagerSound
<1> QED
  BY <1>2 DEF Touched

ListsRead ==
  /\ \A p \in Places : ReadIn(<<"threads", p>>, {r \in threads : r.project = p}, "newest")
  /\ \A t \in ThreadIds : ReadIn(<<"comments", t>>, Of(t), "oldest")
  /\ \A p \in Places : ReadIn(<<"overlay", p>>, Attached(p), "newest")
  /\ ReadIn(<<"decisions">>, decisions, "newest")
  /\ ReadIn(<<"accounts">>, roster, "newest")

LEMMA MovedIsRead ==
  ASSUME PagerSound, ListsRead, NEW ids, Moves(ids)
  PROVE  PagerSound' /\ ListsRead'
<1>1. PagerSound' /\ Touched(ids)
  BY TouchedIsSound DEF Moves
<1>2. ASSUME NEW p \in Places
      PROVE  ReadIn(<<"threads", p>>, {r \in threads : r.project = p}, "newest")'
  <2>1. PICK rows : rows = {r \in threads : r.project = p}
    OBVIOUS
  <2>2. PICK after : after = {r \in threads' : r.project = p}
    OBVIOUS
  <2>3. Kept(rows, after, ids)
    BY <2>1, <2>2 DEF Moves, ThreadsMove, Kept
  <2>4. ReadIn(<<"threads", p>>, rows, "newest")
    BY <2>1 DEF ListsRead
  <2>5. ReadIn(<<"threads", p>>, after, "newest")'
    BY <1>1, <2>3, <2>4, KeptIsRead
  <2> QED
    BY <2>2, <2>5
<1>3. ASSUME NEW t \in ThreadIds
      PROVE  ReadIn(<<"comments", t>>, Of(t), "oldest")'
  <2>1. PICK rows : rows = Of(t)
    OBVIOUS
  <2>2. PICK after : after = Of(t)'
    OBVIOUS
  <2>3. Kept(rows, after, ids)
    BY <2>1, <2>2 DEF Moves, CommentsMove, Kept, Of
  <2>4. ReadIn(<<"comments", t>>, rows, "oldest")
    BY <2>1 DEF ListsRead
  <2>5. ReadIn(<<"comments", t>>, after, "oldest")'
    BY <1>1, <2>3, <2>4, KeptIsRead
  <2> QED
    BY <2>2, <2>5
<1>4. ASSUME NEW p \in Places
      PROVE  ReadIn(<<"overlay", p>>, Attached(p), "newest")'
  <2>1. PICK rows : rows = Attached(p)
    OBVIOUS
  <2>2. PICK after : after = Attached(p)'
    OBVIOUS
  <2>3. Kept(rows, after, ids)
    BY <2>1, <2>2 DEF Moves, OverlayMoves, Kept, Attached
  <2>4. ReadIn(<<"overlay", p>>, rows, "newest")
    BY <2>1 DEF ListsRead
  <2>5. ReadIn(<<"overlay", p>>, after, "newest")'
    BY <1>1, <2>3, <2>4, KeptIsRead
  <2> QED
    BY <2>2, <2>5
<1>5. ReadIn(<<"decisions">>, decisions, "newest")'
  <2>1. PICK rows : rows = decisions
    OBVIOUS
  <2>2. PICK after : after = decisions'
    OBVIOUS
  <2>3. ReadIn(<<"decisions">>, after, "newest")'
    BY <1>1, <2>1, <2>2, KeptIsRead DEF ListsRead, Moves
  <2> QED
    BY <2>2, <2>3
<1>6. ReadIn(<<"accounts">>, roster, "newest")'
  <2>1. PICK rows : rows = roster
    OBVIOUS
  <2>2. PICK after : after = roster'
    OBVIOUS
  <2>3. ReadIn(<<"accounts">>, after, "newest")'
    BY <1>1, <2>1, <2>2, KeptIsRead DEF ListsRead, Moves
  <2> QED
    BY <2>2, <2>3
<1> QED
  BY <1>1, <1>2, <1>3, <1>4, <1>5, <1>6 DEF ListsRead

-----------------------------------------------------------------------------
(* Writes to conversations.                                                *)

\* Rows of threads that are changed where they are, and one of them moves.
LEMMA ThreadsChange ==
  ASSUME ThreadsTabled, UNCHANGED places, NEW t, NEW f \in [threads -> ThreadRecords],
         threads' = {f[r] : r \in threads},
         \A r \in threads : /\ f[r].id = r.id /\ f[r].project = r.project
                            /\ r.id # t => f[r] = r
  PROVE  ThreadsTabled' /\ \A ids : t \in ids => ThreadsMove(ids)
<1>1. ThreadsTabled'
  BY RowsAreChanged DEF ThreadsTabled
<1>2. ASSUME NEW ids, t \in ids
      PROVE  ThreadsMove(ids)
  BY <1>2 DEF ThreadsMove
<1> QED
  BY <1>1, <1>2

LEMMA TouchMoves ==
  ASSUME ThreadsTabled, UNCHANGED places, NEW t, NEW now \in Now, threads' = Touch(t, now)
  PROVE  ThreadsTabled' /\ \A ids : t \in ids => ThreadsMove(ids)
<1> DEFINE f == [r \in threads |-> IF r.id = t THEN [r EXCEPT !.at = now] ELSE r]
<1>1. ASSUME NEW r \in threads
      PROVE  f[r] \in ThreadRecords /\ f[r].id = r.id /\ f[r].project = r.project /\ (r.id # t => f[r] = r)
  <2>1. r \in ThreadRecords
    BY DEF ThreadsTabled, Table
  <2> QED
    BY <2>1 DEF ThreadRecords
<1>2. f \in [threads -> ThreadRecords]
  BY <1>1
<1>3. threads' = {f[r] : r \in threads}
  BY DEF Touch
<1> HIDE DEF f
<1> QED
  BY <1>1, <1>2, <1>3, ThreadsChange

LEMMA NextCommentIsNew ==
  ASSUME CommentsTabled, NextComment <= MaxComments
  PROVE  NextComment \in 1..MaxComments /\ \A c \in comments : c.id # NextComment
<1>1. MaxComments \in Nat /\ \A c \in comments : c.id \in 1..MaxComments /\ c.id \in Nat
  BY ConversationsAssumption DEF CommentsTabled, Table, CommentRecords
<1>2. CASE comments = {}
  BY <1>1, <1>2 DEF NextComment
<1>3. CASE comments # {}
  <2>1. NextComment \in Nat /\ \A c \in comments : c.id < NextComment
    BY <1>1, <1>3, NextIsNew DEF CommentsTabled, Table, NextComment
  <2> QED
    BY <1>1, <1>3, <2>1
<1> QED
  BY <1>2, <1>3

\* A comment more.
LEMMA CommentIsAdded ==
  ASSUME CommentsTabled, NextComment <= MaxComments, NEW c \in CommentRecords,
         c.id = NextComment, comments' = comments \cup {c}
  PROVE  CommentsTabled' /\ \A ids : CommentsMove(ids)
<1>1. \A d \in comments : d.id # c.id
  BY NextCommentIsNew
<1>2. CommentsTabled'
  BY <1>1, RowIsAdded DEF CommentsTabled
<1> QED
  BY <1>1, <1>2 DEF CommentsMove

LEMMA CommentIsChanged ==
  ASSUME CommentsTabled, NEW c \in comments, NEW new \in CommentRecords,
         new.id = c.id, new.thread = c.thread, new.at = c.at,
         comments' = (comments \ {c}) \cup {new}
  PROVE  CommentsTabled' /\ \A ids : CommentsMove(ids)
<1>1. CommentsTabled'
  BY RowIsReplaced DEF CommentsTabled
<1>2. ASSUME NEW ids
      PROVE  CommentsMove(ids)
  BY DEF CommentsMove
<1> QED
  BY <1>1, <1>2

LEMMA KeyedIsAName ==
  ASSUME NEW method \in {"create", "opening", "reply"}, NEW key \in Keys \cup {NoKey}
  PROVE  Keyed(method, key) \in WriteNames
BY DEF Keyed, WriteNames

LEMMA OthersStayTyped ==
  ASSUME ListsTyped, UNCHANGED <<overlay, decisions, roster>>, ThreadsTabled', CommentsTabled'
  PROVE  ListsTyped'
BY DEF ListsTyped, OverlayTabled, DecisionsTabled, RosterTabled, Table, OneIdEach

LEMMA NothingWritten ==
  ASSUME PagerSound, ListsTyped,
         UNCHANGED <<pager, places, threads, comments, overlay, decisions, roster>>
  PROVE  ListsTyped' /\ \E ids : Moves(ids)
<1>1. ThreadsTabled' /\ CommentsTabled'
  BY DEF ListsTyped, ThreadsTabled, CommentsTabled, Table, OneIdEach
<1>2. Moves({})
  BY NothingMoves, UntouchedPager DEF Moves
<1> QED
  BY <1>1, <1>2, OthersStayTyped

LEMMA CreateMoves ==
  ASSUME PagerSound, ListsTyped, UNCHANGED <<overlay, decisions, roster>>,
         NEW by \in Authors, NEW p \in Places, NEW key \in Keys \cup {NoKey}, NEW size \in Nat,
         NEW now \in Now, ThreadsCreate(by, p, key, size, now)
  PROVE  ListsTyped' /\ \E ids : Moves(ids)
<1>1. CASE UNCHANGED <<places, threads, comments, told, pager>>
  BY <1>1, NothingWritten
<1>2. CASE /\ NextComment <= MaxComments /\ Touched({}) /\ UNCHANGED places
           /\ \E id \in ThreadIds \ {r.id : r \in threads} :
                /\ threads' = threads \cup
                     {[id |-> id, project |-> p, at |-> now, by |-> by,
                       key |-> Keyed("create", key), resolved |-> FALSE, withIt |-> NextComment]}
                /\ comments' = comments \cup
                     {[id |-> NextComment, thread |-> id, at |-> now, by |-> by,
                       key |-> Keyed("opening", key), size |-> size, gone |-> FALSE]}
  <2>1. PICK id \in ThreadIds \ {r.id : r \in threads} :
          /\ threads' = threads \cup
               {[id |-> id, project |-> p, at |-> now, by |-> by,
                 key |-> Keyed("create", key), resolved |-> FALSE, withIt |-> NextComment]}
          /\ comments' = comments \cup
               {[id |-> NextComment, thread |-> id, at |-> now, by |-> by,
                 key |-> Keyed("opening", key), size |-> size, gone |-> FALSE]}
    BY <1>2
  <2> DEFINE row == [id |-> id, project |-> p, at |-> now, by |-> by,
                     key |-> Keyed("create", key), resolved |-> FALSE, withIt |-> NextComment]
             opening == [id |-> NextComment, thread |-> id, at |-> now, by |-> by,
                         key |-> Keyed("opening", key), size |-> size, gone |-> FALSE]
  <2>2. NextComment \in 1..MaxComments /\ NextComment \in Nat
    BY <1>2, NextCommentIsNew, ConversationsAssumption DEF ListsTyped
  <2>3. row \in ThreadRecords /\ row.id = id
    BY <2>2, KeyedIsAName DEF ThreadRecords
  <2>4. opening \in CommentRecords /\ opening.id = NextComment
    BY <2>2, KeyedIsAName DEF CommentRecords
  <2>5. threads' = threads \cup {row} /\ comments' = comments \cup {opening}
    BY <2>1
  <2> HIDE DEF row, opening
  <2>6. CommentsTabled' /\ CommentsMove({})
    BY <1>2, <2>4, <2>5, CommentIsAdded DEF ListsTyped
  <2>7. \A r \in threads : r.id # row.id
    BY <2>3
  <2>8. Table(threads', ThreadRecords)
    BY <2>3, <2>5, <2>7, RowIsAdded DEF ListsTyped, ThreadsTabled
  <2>9. ThreadsTabled'
    BY <1>2, <2>8 DEF ListsTyped, ThreadsTabled
  <2>10. ThreadsMove({})
    BY <2>5, <2>7 DEF ThreadsMove
  <2>11. Moves({})
    BY <1>2, <2>6, <2>10, NothingMoves DEF Moves
  <2> QED
    BY <2>6, <2>9, <2>11, OthersStayTyped
<1> QED
  BY <1>1, <1>2 DEF ThreadsCreate

LEMMA ReplyMoves ==
  ASSUME PagerSound, ListsTyped, UNCHANGED <<overlay, decisions, roster>>,
         NEW by \in Authors, NEW t \in ThreadIds, NEW key \in Keys \cup {NoKey}, NEW size \in Nat,
         NEW now \in Now, ThreadsReply(by, t, key, size, now)
  PROVE  ListsTyped' /\ \E ids : Moves(ids)
<1>1. CASE UNCHANGED <<places, threads, comments, told, pager>>
  BY <1>1, NothingWritten
<1>2. CASE /\ NextComment <= MaxComments /\ Touched({t}) /\ UNCHANGED places
           /\ threads' = Touch(t, now)
           /\ comments' = comments \cup
                {[id |-> NextComment, thread |-> t, at |-> now, by |-> by,
                  key |-> Keyed("reply", key), size |-> size, gone |-> FALSE]}
  <2> DEFINE new == [id |-> NextComment, thread |-> t, at |-> now, by |-> by,
                     key |-> Keyed("reply", key), size |-> size, gone |-> FALSE]
  <2>1. NextComment \in 1..MaxComments
    BY <1>2, NextCommentIsNew DEF ListsTyped
  <2>2. new \in CommentRecords /\ new.id = NextComment
    BY <2>1, KeyedIsAName DEF CommentRecords
  <2>3. comments' = comments \cup {new}
    BY <1>2
  <2> HIDE DEF new
  <2>4. CommentsTabled' /\ CommentsMove({t})
    BY <1>2, <2>2, <2>3, CommentIsAdded DEF ListsTyped
  <2>5. ThreadsTabled' /\ ThreadsMove({t})
    BY <1>2, TouchMoves DEF ListsTyped
  <2>6. Moves({t})
    BY <1>2, <2>4, <2>5, NothingMoves DEF Moves
  <2> QED
    BY <2>4, <2>5, <2>6, OthersStayTyped
<1> QED
  BY <1>1, <1>2 DEF ThreadsReply

LEMMA ResolveMoves ==
  ASSUME PagerSound, ListsTyped, UNCHANGED <<overlay, decisions, roster>>,
         NEW t \in ThreadIds, NEW resolved \in BOOLEAN, NEW now \in Now, ThreadsResolve(t, resolved, now)
  PROVE  ListsTyped' /\ \E ids : Moves(ids)
<1> DEFINE f == [r \in threads |-> IF r.id = t THEN [r EXCEPT !.resolved = resolved, !.at = now] ELSE r]
<1>1. ASSUME NEW r \in threads
      PROVE  f[r] \in ThreadRecords /\ f[r].id = r.id /\ f[r].project = r.project /\ (r.id # t => f[r] = r)
  <2>1. r \in ThreadRecords
    BY DEF ListsTyped, ThreadsTabled, Table
  <2> QED
    BY <2>1 DEF ThreadRecords
<1>2. f \in [threads -> ThreadRecords]
  BY <1>1
<1>3. threads' = {f[r] : r \in threads} /\ Touched({t}) /\ UNCHANGED <<places, comments>>
  BY DEF ThreadsResolve
<1> HIDE DEF f
<1>4. ThreadsTabled' /\ ThreadsMove({t})
  BY <1>1, <1>2, <1>3, ThreadsChange DEF ListsTyped
<1>5. CommentsTabled'
  BY <1>3 DEF ListsTyped, CommentsTabled, Table, OneIdEach
<1>6. Moves({t})
  BY <1>3, <1>4, NothingMoves DEF Moves
<1> QED
  BY <1>4, <1>5, <1>6, OthersStayTyped

LEMMA ChangeMoves ==
  ASSUME PagerSound, ListsTyped, UNCHANGED <<overlay, decisions, roster, places>>,
         NEW c \in comments, NEW now \in Now, NEW new \in CommentRecords,
         new.id = c.id, new.thread = c.thread, new.at = c.at,
         comments' = (comments \ {c}) \cup {new},
         threads' = Touch(c.thread, now), Touched({c.thread})
  PROVE  ListsTyped' /\ \E ids : Moves(ids)
<1>1. PICK t : t = c.thread
  OBVIOUS
<1>2. ThreadsTabled' /\ ThreadsMove({t})
  BY <1>1, TouchMoves DEF ListsTyped
<1>3. CommentsTabled' /\ CommentsMove({t})
  BY CommentIsChanged DEF ListsTyped
<1>4. Moves({t})
  BY <1>1, <1>2, <1>3, NothingMoves DEF Moves
<1> QED
  BY <1>2, <1>3, <1>4, OthersStayTyped

LEMMA ConversingMoves ==
  ASSUME PagerSound, ListsTyped, Conversing
  PROVE  ListsTyped' /\ \E ids : Moves(ids)
<1>1. UNCHANGED <<overlay, decisions, roster>>
  BY DEF Conversing, overlayVars, decisionVars
<1>2. ASSUME NEW c \in comments, NEW size \in Nat, NEW now \in Now, CommentsEdit(c.by, c, size, now)
      PROVE  ListsTyped' /\ \E ids : Moves(ids)
  <2>1. c \in CommentRecords
    BY DEF ListsTyped, CommentsTabled, Table
  <2> DEFINE new == [c EXCEPT !.size = size]
  <2>2. new \in CommentRecords /\ new.id = c.id /\ new.thread = c.thread /\ new.at = c.at
    BY <2>1 DEF CommentRecords
  <2>3. /\ comments' = (comments \ {c}) \cup {new} /\ threads' = Touch(c.thread, now)
        /\ Touched({c.thread}) /\ UNCHANGED places
    BY <1>2 DEF CommentsEdit
  <2> HIDE DEF new
  <2> QED
    BY <1>1, <2>2, <2>3, ChangeMoves
<1>3. ASSUME NEW c \in comments, NEW now \in Now, CommentsDelete(c.by, c, now)
      PROVE  ListsTyped' /\ \E ids : Moves(ids)
  <2>1. c \in CommentRecords
    BY DEF ListsTyped, CommentsTabled, Table
  <2> DEFINE new == [c EXCEPT !.size = 0, !.gone = TRUE]
  <2>2. new \in CommentRecords /\ new.id = c.id /\ new.thread = c.thread /\ new.at = c.at
    BY <2>1 DEF CommentRecords
  <2>3. CASE UNCHANGED <<threads, comments, pager>>
    BY <1>1, <1>3, <2>3, NothingWritten DEF CommentsDelete
  <2>4. CASE /\ comments' = (comments \ {c}) \cup {new} /\ threads' = Touch(c.thread, now)
             /\ Touched({c.thread})
    <3>1. UNCHANGED places
      BY <1>3 DEF CommentsDelete
    <3> HIDE DEF new
    <3> QED
      BY <1>1, <2>2, <2>4, <3>1, ChangeMoves
  <2> QED
    BY <1>3, <2>3, <2>4 DEF CommentsDelete
<1> QED
  BY <1>1, <1>2, <1>3, CreateMoves, ReplyMoves, ResolveMoves DEF Conversing

-----------------------------------------------------------------------------
(* Writes to the other lists.                                              *)

LEMMA ConversationsStayTyped ==
  ASSUME ListsTyped, UNCHANGED <<places, threads, comments>>, OverlayTabled', DecisionsTabled',
         RosterTabled'
  PROVE  ListsTyped'
BY DEF ListsTyped, ThreadsTabled, CommentsTabled, Table, OneIdEach

LEMMA RecordingMoves ==
  ASSUME PagerSound, ListsTyped, Recording
  PROVE  ListsTyped' /\ \E ids : Moves(ids)
<1>1. UNCHANGED <<places, threads, comments, decisions, roster>>
  BY DEF Recording, OverlayPut, OverlayRevise, OverlayDrop, decisionVars
<1>2. DecisionsTabled' /\ RosterTabled'
  BY <1>1 DEF ListsTyped, DecisionsTabled, RosterTabled, Table, OneIdEach
<1>3. ASSUME NEW ids, OverlayMoves(ids), Touched(ids)
      PROVE  Moves(ids)
  BY <1>1, <1>3, NothingMoves DEF Moves
<1>4. ASSUME NEW by \in Authors, NEW p \in Places, NEW key \in Keys \cup {NoKey}, NEW size \in Nat,
             NEW now \in Now, OverlayPut(by, p, key, size, now)
      PROVE  ListsTyped' /\ \E ids : Moves(ids)
  <2>1. CASE UNCHANGED <<overlay, pager>>
    BY <1>1, <2>1, NothingWritten
  <2>2. CASE /\ \E id \in RecordIds \ {r.id : r \in overlay} :
                  overlay' = overlay \cup {[id |-> id, project |-> p, at |-> now,
                                            by |-> by, key |-> key, size |-> size]}
             /\ Touched({})
    <3>1. PICK id \in RecordIds \ {r.id : r \in overlay} :
            overlay' = overlay \cup {[id |-> id, project |-> p, at |-> now,
                                      by |-> by, key |-> key, size |-> size]}
      BY <2>2
    <3> DEFINE row == [id |-> id, project |-> p, at |-> now, by |-> by, key |-> key, size |-> size]
    <3>2. row \in OverlayRecords /\ row.id = id
      BY DEF OverlayRecords
    <3>3. overlay' = overlay \cup {row}
      BY <3>1
    <3> HIDE DEF row
    <3>4. \A r \in overlay : r.id # row.id
      BY <3>2
    <3>5. OverlayTabled'
      BY <3>2, <3>3, <3>4, RowIsAdded DEF ListsTyped, OverlayTabled
    <3>6. OverlayMoves({})
      BY <3>3, <3>4 DEF OverlayMoves
    <3> QED
      BY <1>1, <1>2, <1>3, <2>2, <3>5, <3>6, ConversationsStayTyped
  <2> QED
    BY <1>4, <2>1, <2>2 DEF OverlayPut, PutOverlay
<1>5. ASSUME NEW r \in overlay, NEW size \in Nat, NEW now \in Now, OverlayRevise(r.by, r, size, now)
      PROVE  ListsTyped' /\ \E ids : Moves(ids)
  <2>1. r \in OverlayRecords
    BY DEF ListsTyped, OverlayTabled, Table
  <2> DEFINE new == [r EXCEPT !.size = size, !.at = now]
  <2>2. new \in OverlayRecords /\ new.id = r.id /\ new.project = r.project
    BY <2>1 DEF OverlayRecords
  <2>3. overlay' = (overlay \ {r}) \cup {new} /\ Touched({r.id})
    BY <1>5 DEF OverlayRevise
  <2> HIDE DEF new
  <2>4. OverlayTabled'
    BY <2>2, <2>3, RowIsReplaced DEF ListsTyped, OverlayTabled
  <2>5. PICK i : i = r.id
    OBVIOUS
  <2>6. OverlayMoves({i})
    BY <2>2, <2>3, <2>5 DEF OverlayMoves
  <2> QED
    BY <1>1, <1>2, <1>3, <2>3, <2>4, <2>5, <2>6, ConversationsStayTyped
<1>6. ASSUME NEW r \in overlay, OverlayDrop(r.by, r)
      PROVE  ListsTyped' /\ \E ids : Moves(ids)
  <2>1. overlay' = overlay \ {r} /\ Touched({r.id})
    BY <1>6 DEF OverlayDrop
  <2>2. OverlayTabled'
    BY <2>1, RowsAreFewer DEF ListsTyped, OverlayTabled
  <2>3. PICK i : i = r.id
    OBVIOUS
  <2>4. OverlayMoves({i})
    BY <2>1, <2>3 DEF OverlayMoves
  <2> QED
    BY <1>1, <1>2, <1>3, <2>1, <2>2, <2>3, <2>4, ConversationsStayTyped
<1> QED
  BY <1>4, <1>5, <1>6 DEF Recording

\* What a project that goes takes with it is promised to nobody any more.
LEMMA ForgettingMoves ==
  ASSUME PagerSound, ListsTyped, ForgettingAny
  PROVE  ListsTyped' /\ \E ids : Moves(ids)
<1>1. PICK p \in Places : ProjectGoes(p)
  BY DEF ForgettingAny
<1> DEFINE gone == {r.id : r \in {s \in threads : s.project = p}}
           with == {c.id : c \in {d \in comments : d.thread \in gone}}
           attached == {r.id : r \in Attached(p)}
<1>2. /\ threads' = {r \in threads : r.id \notin gone}
      /\ comments' = {c \in comments : c.id \notin with}
      /\ overlay' = overlay \ Attached(p)
      /\ Touched(gone \cup with \cup attached)
      /\ places' = places \ {p} /\ UNCHANGED <<decisions, roster>>
  BY <1>1 DEF ProjectGoes, Cascade, ForgettingAny, decisionVars
<1>3. PICK ids : ids = gone \cup with \cup attached
  OBVIOUS
<1>4. ThreadsTabled'
  BY <1>2, RowsAreFewer DEF ListsTyped, ThreadsTabled
<1>5. CommentsTabled'
  BY <1>2, RowsAreFewer DEF ListsTyped, CommentsTabled
<1>6. OverlayTabled'
  BY <1>2, RowsAreFewer DEF ListsTyped, OverlayTabled
<1>7. DecisionsTabled' /\ RosterTabled'
  BY <1>2 DEF ListsTyped, DecisionsTabled, RosterTabled, Table, OneIdEach
<1>8. ThreadsMove(ids)
  BY <1>2, <1>3 DEF ThreadsMove
<1>9. CommentsMove(ids)
  BY <1>2, <1>3 DEF CommentsMove
<1>10. OverlayMoves(ids)
  BY <1>2, <1>3 DEF OverlayMoves
<1>11. Moves(ids)
  BY <1>2, <1>3, <1>8, <1>9, <1>10, NothingMoves DEF Moves
<1> QED
  BY <1>4, <1>5, <1>6, <1>7, <1>11 DEF ListsTyped

LEMMA NextDecisionIsNew ==
  ASSUME DecisionsTabled
  PROVE  NextDecision \in Nat /\ \A d \in decisions : d.id # NextDecision
<1>1. \A d \in decisions : d.id \in Nat
  BY DEF DecisionsTabled, Table, DecisionRecords
<1>2. CASE decisions = {}
  BY <1>2 DEF NextDecision
<1>3. CASE decisions # {}
  <2>1. NextDecision \in Nat /\ \A d \in decisions : d.id < NextDecision
    BY <1>1, <1>3, NextIsNew DEF DecisionsTabled, Table, NextDecision
  <2> QED
    BY <1>1, <2>1
<1> QED
  BY <1>2, <1>3

\* A decision more, of which some are not kept.
LEMMA DecisionIsAdded ==
  ASSUME DecisionsTabled, NEW allowed \in BOOLEAN, NEW now \in Now, NEW row,
         row = [id |-> NextDecision, at |-> now, allowed |-> allowed],
         decisions' \subseteq decisions \cup {row}
  PROVE  /\ DecisionsTabled' /\ row.id = NextDecision /\ row \notin decisions
         /\ \A ids : (\A d \in decisions \cup {row} : d \notin decisions' => d.id \in ids)
                       => Kept(decisions, decisions', ids)
<1>1. row \in DecisionRecords /\ row.id = NextDecision
  BY NextDecisionIsNew DEF DecisionRecords
<1>2. \A d \in decisions : d.id # row.id
  BY <1>1, NextDecisionIsNew
<1>3. Table(decisions \cup {row}, DecisionRecords)
  BY <1>1, <1>2, RowIsAdded DEF DecisionsTabled
<1>4. DecisionsTabled'
  BY <1>3, RowsAreFewer DEF DecisionsTabled
<1>5. ASSUME NEW ids, \A d \in decisions \cup {row} : d \notin decisions' => d.id \in ids
      PROVE  Kept(decisions, decisions', ids)
  BY <1>2, <1>5 DEF Kept
<1> QED
  BY <1>1, <1>2, <1>4, <1>5

LEMMA DecidingMoves ==
  ASSUME PagerSound, ListsTyped, Deciding
  PROVE  ListsTyped' /\ \E ids : Moves(ids)
<1>1. UNCHANGED <<places, threads, comments, overlay, roster>>
  BY DEF Deciding, conversationVars, overlayVars
<1>2. OverlayTabled' /\ RosterTabled'
  BY <1>1 DEF ListsTyped, OverlayTabled, RosterTabled, Table, OneIdEach
<1>3. ASSUME NEW ids, Kept(decisions, decisions', ids), Touched(ids), DecisionsTabled'
      PROVE  ListsTyped' /\ Moves(ids)
  BY <1>1, <1>2, <1>3, NothingMoves, ConversationsStayTyped DEF Moves
<1>4. ASSUME NEW allowed \in BOOLEAN, NEW now \in Now, RecordDecision(allowed, now)
      PROVE  ListsTyped' /\ \E ids : Moves(ids)
  <2>1. PICK row : row = [id |-> NextDecision, at |-> now, allowed |-> allowed]
    OBVIOUS
  <2>2. decisions' \subseteq decisions \cup {row}
    BY <1>4, <2>1 DEF RecordDecision, Trimmed
  <2>3. PICK ids : ids = {d.id : d \in (decisions \cup {row}) \ decisions'} \cup {row.id}
    OBVIOUS
  <2>4. Touched(ids)
    BY <1>4, <2>1, <2>3, Zenon DEF RecordDecision
  <2>5. DecisionsTabled' /\ Kept(decisions, decisions', ids)
    BY <2>1, <2>2, <2>3, DecisionIsAdded DEF ListsTyped
  <2> QED
    BY <1>3, <2>4, <2>5
<1>5. CASE DiesDeciding
  <2>1. CASE UNCHANGED decisions
    <3>1. DecisionsTabled' /\ Kept(decisions, decisions', {})
      BY <2>1, NothingMoves DEF ListsTyped, DecisionsTabled, Table, OneIdEach
    <3> QED
      BY <1>3, <1>5, <3>1 DEF DiesDeciding
  <2>2. ASSUME NEW allowed \in BOOLEAN, NEW now \in Now,
               decisions' = decisions \cup {[id |-> NextDecision, at |-> now, allowed |-> allowed]}
        PROVE  ListsTyped' /\ \E ids : Moves(ids)
    <3>1. PICK row : row = [id |-> NextDecision, at |-> now, allowed |-> allowed]
      OBVIOUS
    <3>2. DecisionsTabled' /\ Kept(decisions, decisions', {})
      BY <2>2, <3>1, DecisionIsAdded DEF ListsTyped
    <3> QED
      BY <1>3, <1>5, <3>2 DEF DiesDeciding
  <2> QED
    BY <1>5, <2>1, <2>2 DEF DiesDeciding
<1> QED
  BY <1>4, <1>5 DEF Deciding

LEMMA EnlistingMoves ==
  ASSUME PagerSound, ListsTyped, Enlisting
  PROVE  ListsTyped' /\ \E ids : Moves(ids)
<1>1. UNCHANGED <<places, threads, comments, overlay, decisions, pager>>
  BY DEF Enlisting, CreateUser, conversationVars, overlayVars, decisionVars
<1>2. PICK id \in RosterIds, username \in Usernames, now \in Now : CreateUser(id, username, now)
  BY DEF Enlisting
<1> DEFINE row == [id |-> id, at |-> now, name |-> username]
<1>3. row \in [id : RosterIds, at : Now, name : Usernames] /\ row.id = id
  OBVIOUS
<1>4. roster' = roster \cup {row} /\ \A u \in roster : u.id # id
  BY <1>2 DEF CreateUser
<1> HIDE DEF row
<1>5. RosterTabled' /\ Kept(roster, roster', {})
  <2>1. \A u \in roster : u.id # row.id
    BY <1>3, <1>4
  <2>2. Table(roster \cup {row}, [id : RosterIds, at : Now, name : Usernames])
    BY <1>3, <2>1, RowIsAdded DEF ListsTyped, RosterTabled
  <2>3. Kept(roster, roster', {})
    BY <1>4, <2>1 DEF Kept
  <2> QED
    BY <1>4, <2>2, <2>3 DEF RosterTabled
<1>6. OverlayTabled' /\ DecisionsTabled'
  BY <1>1 DEF ListsTyped, OverlayTabled, DecisionsTabled, Table, OneIdEach
<1>7. Moves({})
  BY <1>1, <1>5, NothingMoves, UntouchedPager DEF Moves
<1> QED
  BY <1>1, <1>5, <1>6, <1>7, ConversationsStayTyped

-----------------------------------------------------------------------------
(* The reader's turns.                                                     *)

\* Reading of one list is reading of no other.
LEMMA OneListIsRead ==
  ASSUME NEW name, NEW p, NEW rows, NEW order,
         pager'.list = <<name, p>>, ReadIn(<<name, p>>, rows, order)'
  PROVE  /\ \A other, q, some, way :
              ReadIn(<<other, q>>, some, way)' \/ (other = name /\ q = p)
         /\ \A other, some, way : ReadIn(<<other>>, some, way)'
BY DEF ReadIn

LEMMA ListingThreadsIsRead ==
  ASSUME PagerSound, ListsTyped, ListsRead, ListingThreads
  PROVE  PagerSound' /\ ListsRead'
<1>1. PICK p \in Places : ThreadsList(p)
  BY DEF ListingThreads
<1>2. PICK rows : rows = {r \in threads : r.project = p}
  OBVIOUS
<1>3. PICK weight : weight = [r \in {s \in threads : s.project = p} |-> WeighThread(r)]
  OBVIOUS
<1>4. DOMAIN weight = rows /\ Turns(<<"threads", p>>, weight, "newest")
  BY <1>1, <1>2, <1>3 DEF ThreadsList
<1>5. Listable(rows)
  BY <1>2, TablesAreListable, FS_Subset DEF Listable, Placed, OneIdEach
<1>6. ReadIn(<<"threads", p>>, rows, "newest")
  BY <1>2 DEF ListsRead
<1>7. /\ PagerSound' /\ pager'.list = <<"threads", p>>
      /\ ReadIn(<<"threads", p>>, rows, "newest")'
  BY <1>4, <1>5, <1>6, TurnsAreSound
<1>8. UNCHANGED <<threads, comments, overlay, decisions, roster>>
  BY <1>1 DEF ListingThreads, ThreadsList, conversationVars, overlayVars, decisionVars
<1>9. ReadIn(<<"threads", p>>, {r \in threads : r.project = p}, "newest")'
  BY <1>2, <1>7, <1>8
<1>10. \A other, q, some, way :
         ReadIn(<<other, q>>, some, way)' \/ (other = "threads" /\ q = p)
  BY <1>7, OneListIsRead
<1>11. \A other, some, way : ReadIn(<<other>>, some, way)'
  BY <1>7, OneListIsRead
<1> QED
  BY <1>7, <1>9, <1>10, <1>11 DEF ListsRead

LEMMA ReadingAThreadIsRead ==
  ASSUME PagerSound, ListsTyped, ListsRead, ReadingAThread
  PROVE  PagerSound' /\ ListsRead'
<1>1. PICK t \in ThreadIds : ThreadsGet(t)
  BY DEF ReadingAThread
<1>2. PICK rows : rows = Of(t)
  OBVIOUS
<1>3. PICK weight : weight = [c \in Of(t) |-> WeighComment(c)]
  OBVIOUS
<1>4. DOMAIN weight = rows /\ Turns(<<"comments", t>>, weight, "oldest")
  BY <1>1, <1>2, <1>3 DEF ThreadsGet
<1>5. Listable(rows)
  BY <1>2, TablesAreListable, FS_Subset DEF Listable, Placed, OneIdEach, Of
<1>6. ReadIn(<<"comments", t>>, rows, "oldest")
  BY <1>2 DEF ListsRead
<1>7. /\ PagerSound' /\ pager'.list = <<"comments", t>>
      /\ ReadIn(<<"comments", t>>, rows, "oldest")'
  BY <1>4, <1>5, <1>6, TurnsAreSound
<1>8. UNCHANGED <<threads, comments, overlay, decisions, roster>>
  BY <1>1 DEF ReadingAThread, ThreadsGet, conversationVars, overlayVars, decisionVars
<1>9. ReadIn(<<"comments", t>>, Of(t), "oldest")'
  BY <1>2, <1>7, <1>8 DEF Of
<1>10. \A other, q, some, way :
         ReadIn(<<other, q>>, some, way)' \/ (other = "comments" /\ q = t)
  BY <1>7, OneListIsRead
<1>11. \A other, some, way : ReadIn(<<other>>, some, way)'
  BY <1>7, OneListIsRead
<1> QED
  BY <1>7, <1>9, <1>10, <1>11 DEF ListsRead

LEMMA ListingRecordsIsRead ==
  ASSUME PagerSound, ListsTyped, ListsRead, ListingRecords
  PROVE  PagerSound' /\ ListsRead'
<1>1. PICK p \in Places : OverlayList(p)
  BY DEF ListingRecords
<1>2. PICK rows : rows = Attached(p)
  OBVIOUS
<1>3. PICK weight : weight = [r \in Attached(p) |-> WeighRecord(r)]
  OBVIOUS
<1>4. DOMAIN weight = rows /\ Turns(<<"overlay", p>>, weight, "newest")
  BY <1>1, <1>2, <1>3 DEF OverlayList
<1>5. Listable(rows)
  BY <1>2, TablesAreListable, FS_Subset DEF Listable, Placed, OneIdEach, Attached
<1>6. ReadIn(<<"overlay", p>>, rows, "newest")
  BY <1>2 DEF ListsRead
<1>7. /\ PagerSound' /\ pager'.list = <<"overlay", p>>
      /\ ReadIn(<<"overlay", p>>, rows, "newest")'
  BY <1>4, <1>5, <1>6, TurnsAreSound
<1>8. UNCHANGED <<threads, comments, overlay, decisions, roster>>
  BY <1>1 DEF ListingRecords, OverlayList, conversationVars, overlayVars, decisionVars
<1>9. ReadIn(<<"overlay", p>>, Attached(p), "newest")'
  BY <1>2, <1>7, <1>8 DEF Attached
<1>10. \A other, q, some, way :
         ReadIn(<<other, q>>, some, way)' \/ (other = "overlay" /\ q = p)
  BY <1>7, OneListIsRead
<1>11. \A other, some, way : ReadIn(<<other>>, some, way)'
  BY <1>7, OneListIsRead
<1> QED
  BY <1>7, <1>9, <1>10, <1>11 DEF ListsRead

LEMMA ListingDecisionsIsRead ==
  ASSUME PagerSound, ListsTyped, ListsRead, ListingDecisions
  PROVE  PagerSound' /\ ListsRead'
<1>1. UNCHANGED <<threads, comments, overlay, decisions, roster>>
  BY DEF ListingDecisions, PageDecisions, conversationVars, overlayVars, decisionVars
<1>2. PICK rows : rows = decisions
  OBVIOUS
<1>3. PICK weight : weight = [r \in decisions |-> 0]
  OBVIOUS
<1>4. DOMAIN weight = rows /\ Turns(<<"decisions">>, weight, "newest")
  BY <1>2, <1>3 DEF ListingDecisions, PageDecisions
<1>5. Listable(rows) /\ ReadIn(<<"decisions">>, rows, "newest")
  BY <1>2, TablesAreListable DEF ListsRead
<1>6. /\ PagerSound' /\ pager'.list = <<"decisions">>
      /\ ReadIn(<<"decisions">>, rows, "newest")'
  BY <1>4, <1>5, TurnsAreSound
<1>7. ReadIn(<<"decisions">>, decisions, "newest")'
  BY <1>1, <1>2, <1>6
<1>8. \A other, some, way : ReadIn(<<other>>, some, way)' \/ other = "decisions"
  BY <1>6 DEF ReadIn
<1>9. \A other, q, some, way : ReadIn(<<other, q>>, some, way)'
  BY <1>6 DEF ReadIn
<1> QED
  BY <1>6, <1>7, <1>8, <1>9 DEF ListsRead

LEMMA ListingAccountsIsRead ==
  ASSUME PagerSound, ListsTyped, ListsRead, ListingAccounts
  PROVE  PagerSound' /\ ListsRead'
<1>1. UNCHANGED <<threads, comments, overlay, decisions, roster>>
  BY DEF ListingAccounts, PageUsers, conversationVars, overlayVars, decisionVars
<1>2. PICK rows : rows = roster
  OBVIOUS
<1>3. PICK weight : weight = [r \in roster |-> 0]
  OBVIOUS
<1>4. DOMAIN weight = rows /\ Turns(<<"accounts">>, weight, "newest")
  BY <1>2, <1>3 DEF ListingAccounts, PageUsers
<1>5. Listable(rows) /\ ReadIn(<<"accounts">>, rows, "newest")
  BY <1>2, TablesAreListable DEF ListsRead
<1>6. /\ PagerSound' /\ pager'.list = <<"accounts">>
      /\ ReadIn(<<"accounts">>, rows, "newest")'
  BY <1>4, <1>5, TurnsAreSound
<1>7. ReadIn(<<"accounts">>, roster, "newest")'
  BY <1>1, <1>2, <1>6
<1>8. \A other, some, way : ReadIn(<<other>>, some, way)' \/ other = "accounts"
  BY <1>6 DEF ReadIn
<1>9. \A other, q, some, way : ReadIn(<<other, q>>, some, way)'
  BY <1>6 DEF ReadIn
<1> QED
  BY <1>6, <1>7, <1>8, <1>9 DEF ListsRead

LEMMA ListingIsRead ==
  ASSUME PagerSound, ListsTyped, ListsRead, Listing
  PROVE  ListsTyped' /\ PagerSound' /\ ListsRead'
<1>1. UNCHANGED <<places, threads, comments, overlay, decisions, roster>>
  BY DEF Listing, ListingThreads, ThreadsList, ReadingAThread, ThreadsGet, ListingRecords, OverlayList,
         ListingDecisions, PageDecisions, ListingAccounts, PageUsers, conversationVars, overlayVars,
         decisionVars
<1>2. ListsTyped'
  BY <1>1, ConversationsStayTyped DEF ListsTyped, OverlayTabled, DecisionsTabled, RosterTabled, Table,
         OneIdEach
<1> QED
  BY <1>2, ListingThreadsIsRead, ReadingAThreadIsRead, ListingRecordsIsRead, ListingDecisionsIsRead,
     ListingAccountsIsRead DEF Listing

LEMMA ListsStep ==
  ASSUME PagerSound, ListsTyped, ListsRead, [ListsNext]_ListVars
  PROVE  ListsTyped' /\ PagerSound' /\ ListsRead'
<1>1. ASSUME NEW ids, Moves(ids)
      PROVE  PagerSound' /\ ListsRead'
  BY <1>1, MovedIsRead
<1>2. CASE UNCHANGED ListVars
  BY <1>1, <1>2, NothingWritten DEF ListVars, conversationVars, overlayVars, decisionVars
<1> QED
  BY <1>1, <1>2, ConversingMoves, RecordingMoves, ForgettingMoves, DecidingMoves, EnlistingMoves,
     ListingIsRead DEF ListsNext

(* Rows of every table, and where the reader of a list is in it: a page is *)
(* a start of what is left, and a cursor tells what has been seen of what  *)
(* was there throughout from what has not.                                 *)
THEOREM ListsHold == ListsSpec => [](ListsTyped /\ PagerSound /\ ListsRead)
<1>1. ListsInit => ListsTyped /\ PagerSound /\ ListsRead
  <2> SUFFICES ASSUME ListsInit
               PROVE  ListsTyped /\ PagerSound /\ ListsRead
    OBVIOUS
  <2>1. IsFiniteSet({})
    BY FS_EmptySet
  <2>2. ListsTyped
    BY <2>1 DEF ListsInit, ConversationsInit, OverlayInit, DecisionsInit, RosterInit, ListsTyped,
                ThreadsTabled, CommentsTabled, OverlayTabled, DecisionsTabled, RosterTabled, Table,
                OneIdEach
  <2>3. PagerSound /\ pager.state = "idle"
    BY DEF ListsInit, AtRest, PagerSound, PagesAreWhole
  <2> QED
    BY <2>2, <2>3 DEF ListsRead, ReadIn
<1> QED
  BY <1>1, ListsStep, PTL DEF ListsSpec

(* Whoever follows the cursors of threads, of a thread, of what is         *)
(* attached to a project, of decisions or of accounts to their end has all *)
(* that was there throughout, once: listThreads and listComments           *)
(* (src/src/comments/store.ts), listOverlay (src/src/overlay/store.ts),    *)
(* pageDecisions (src/src/identity/audit.ts) and pageUsers                 *)
(* (src/src/identity/users.ts), whatever is written between two pages.     *)
THEOREM EveryListIsRead == ListsSpec => []PagesAreWhole
<1>1. PagerSound => PagesAreWhole
  BY DEF PagerSound
<1> QED
  BY <1>1, ListsHold, PTL

-----------------------------------------------------------------------------
(* Writes and repeats of them.                                             *)

SameWrite(r, s) == r.id = s.id /\ r.by = s.by /\ r.key = s.key

\* A client's name is of one row of each kind of write.
NamesAreOfOne ==
  /\ \A r, s \in threads : r.by = s.by /\ r.key = s.key /\ r.key # NoKey => r.id = s.id
  /\ \A c, d \in comments :
       c.by = d.by /\ c.key = d.key /\ c.key \in {"reply"} \X Keys => c.id = d.id

\* And what was answered is there, under that name.
LandedIsThere ==
  \A a \in landed :
    /\ a.key \in Keys /\ a.method \in {"create", "reply"}
    /\ a.method = "create" =>
         \E r \in threads : r.id = a.made /\ r.by = a.by /\ r.key = <<"create", a.key>>
    /\ a.method = "reply" =>
         \E c \in comments : c.id = a.made /\ c.by = a.by /\ c.key = <<"reply", a.key>>

WritesFound == NamesAreOfOne /\ LandedIsThere

\* Rows that go on under their names, and new ones.
ThreadsNamed(new) ==
  /\ \A r \in threads : \E s \in threads' : SameWrite(r, s)
  /\ \A s \in threads' : s \in new \/ \E r \in threads : SameWrite(r, s)

CommentsNamed(new) ==
  /\ \A c \in comments : \E d \in comments' : SameWrite(c, d)
  /\ \A d \in comments' : d \in new \/ \E c \in comments : SameWrite(c, d)

LEMMA TouchKeepsNames ==
  ASSUME ThreadsTabled, NEW t, NEW now \in Now, threads' = Touch(t, now)
  PROVE  ThreadsNamed({})
<1> DEFINE f == [r \in threads |-> IF r.id = t THEN [r EXCEPT !.at = now] ELSE r]
<1>1. ASSUME NEW r \in threads
      PROVE  SameWrite(r, f[r])
  <2>1. r \in ThreadRecords
    BY DEF ThreadsTabled, Table
  <2> QED
    BY <2>1 DEF ThreadRecords, SameWrite
<1>2. threads' = {f[r] : r \in threads}
  BY DEF Touch
<1> HIDE DEF f
<1> QED
  BY <1>1, <1>2 DEF ThreadsNamed

LEMMA NamesStay ==
  /\ UNCHANGED threads => ThreadsNamed({})
  /\ UNCHANGED comments => CommentsNamed({})
BY DEF ThreadsNamed, CommentsNamed, SameWrite

\* Nothing new is written.
LEMMA NothingNewIsFound ==
  ASSUME WritesFound, ThreadsNamed({}), CommentsNamed({}), UNCHANGED landed
  PROVE  WritesFound'
<1>1. NamesAreOfOne'
  BY DEF WritesFound, NamesAreOfOne, ThreadsNamed, CommentsNamed, SameWrite
<1>2. LandedIsThere'
  <2> SUFFICES ASSUME NEW a \in landed
               PROVE  /\ a.key \in Keys /\ a.method \in {"create", "reply"}
                      /\ a.method = "create" =>
                           \E r \in threads' : r.id = a.made /\ r.by = a.by /\ r.key = <<"create", a.key>>
                      /\ a.method = "reply" =>
                           \E c \in comments' : c.id = a.made /\ c.by = a.by /\ c.key = <<"reply", a.key>>
    BY DEF LandedIsThere
  <2>1. a.key \in Keys /\ a.method \in {"create", "reply"}
    BY DEF WritesFound, LandedIsThere
  <2>2. ASSUME a.method = "create"
        PROVE  \E r \in threads' : r.id = a.made /\ r.by = a.by /\ r.key = <<"create", a.key>>
    <3>1. PICK r \in threads : r.id = a.made /\ r.by = a.by /\ r.key = <<"create", a.key>>
      BY <2>2 DEF WritesFound, LandedIsThere
    <3>2. PICK s \in threads' : SameWrite(r, s)
      BY DEF ThreadsNamed
    <3> QED
      BY <3>1, <3>2 DEF SameWrite
  <2>3. ASSUME a.method = "reply"
        PROVE  \E c \in comments' : c.id = a.made /\ c.by = a.by /\ c.key = <<"reply", a.key>>
    <3>1. PICK c \in comments : c.id = a.made /\ c.by = a.by /\ c.key = <<"reply", a.key>>
      BY <2>3 DEF WritesFound, LandedIsThere
    <3>2. PICK d \in comments' : SameWrite(c, d)
      BY DEF CommentsNamed
    <3> QED
      BY <3>1, <3>2 DEF SameWrite
  <2> QED
    BY <2>1, <2>2, <2>3
<1> QED
  BY <1>1, <1>2 DEF WritesFound

\* What an answer adds to what was answered.
LEMMA AnsweredIsThere ==
  ASSUME NEW method \in {"create", "reply"}, NEW by, NEW key \in Keys \cup {NoKey}, NEW made,
         Answered(method, by, key, made)
  PROVE  \A a \in landed' :
           a \in landed \/ (a.method = method /\ a.by = by /\ a.key = key /\ a.made = made /\ key \in Keys)
BY DEF Answered

LEMMA CreateIsFound ==
  ASSUME ListsTyped, WritesFound,
         NEW by \in Authors, NEW p \in Places, NEW key \in Keys \cup {NoKey}, NEW size \in Nat,
         NEW now \in Now, ThreadsCreate(by, p, key, size, now)
  PROVE  WritesFound'
<1>1. ASSUME NEW r \in WrittenBy("create", by, key), Answered("create", by, key, r.id),
             UNCHANGED <<places, threads, comments, told, pager>>
      PROVE  WritesFound'
  <2>1. r \in threads /\ r.by = by /\ r.key = <<"create", key>>
    BY <1>1 DEF WrittenBy
  <2>2. \A a \in landed' :
          \/ a \in landed
          \/ a.method = "create" /\ a.by = by /\ a.key = key /\ a.made = r.id /\ key \in Keys
    BY <1>1, AnsweredIsThere
  <2>3. LandedIsThere'
    BY <1>1, <2>1, <2>2 DEF WritesFound, LandedIsThere
  <2> QED
    BY <1>1, <2>3 DEF WritesFound, NamesAreOfOne
<1>2. ASSUME NEW id \in ThreadIds \ {r.id : r \in threads},
             WrittenBy("create", by, key) = {}, NextComment <= MaxComments,
             threads' = threads \cup
               {[id |-> id, project |-> p, at |-> now, by |-> by,
                 key |-> Keyed("create", key), resolved |-> FALSE, withIt |-> NextComment]},
             comments' = comments \cup
               {[id |-> NextComment, thread |-> id, at |-> now, by |-> by,
                 key |-> Keyed("opening", key), size |-> size, gone |-> FALSE]},
             Answered("create", by, key, id)
      PROVE  WritesFound'
  <2> DEFINE row == [id |-> id, project |-> p, at |-> now, by |-> by,
                     key |-> Keyed("create", key), resolved |-> FALSE, withIt |-> NextComment]
             opening == [id |-> NextComment, thread |-> id, at |-> now, by |-> by,
                         key |-> Keyed("opening", key), size |-> size, gone |-> FALSE]
  <2>1. row.id = id /\ row.by = by /\ row.key = Keyed("create", key)
    OBVIOUS
  <2>2. opening.key = Keyed("opening", key)
    OBVIOUS
  <2>3. threads' = threads \cup {row} /\ comments' = comments \cup {opening}
    BY <1>2
  <2> HIDE DEF row, opening
  <2>4. opening.key \notin {"reply"} \X Keys
    BY <2>2, ConversationsAssumption DEF Keyed
  <2>5. key \in Keys => row.key = <<"create", key>>
    BY <2>1, ConversationsAssumption DEF Keyed
  <2>6. row.key # NoKey => \A r \in threads : ~(r.by = by /\ r.key = row.key)
    BY <1>2, <2>1 DEF WrittenBy, Keyed
  <2>7. NamesAreOfOne'
    <3>1. \A r, s \in threads' : r.by = s.by /\ r.key = s.key /\ r.key # NoKey => r.id = s.id
      BY <2>1, <2>3, <2>6 DEF WritesFound, NamesAreOfOne
    <3>2. \A c, d \in comments' :
            c.by = d.by /\ c.key = d.key /\ c.key \in {"reply"} \X Keys => c.id = d.id
      BY <2>3, <2>4 DEF WritesFound, NamesAreOfOne
    <3> QED
      BY <3>1, <3>2 DEF NamesAreOfOne
  <2>8. \A a \in landed' :
          \/ a \in landed
          \/ a.method = "create" /\ a.by = by /\ a.key = key /\ a.made = id /\ key \in Keys
    BY <1>2, AnsweredIsThere
  <2>9. LandedIsThere'
    BY <2>1, <2>3, <2>5, <2>8 DEF WritesFound, LandedIsThere
  <2> QED
    BY <2>7, <2>9 DEF WritesFound
<1> QED
  BY <1>1, <1>2 DEF ThreadsCreate

LEMMA ReplyIsFound ==
  ASSUME ListsTyped, WritesFound,
         NEW by \in Authors, NEW t \in ThreadIds, NEW key \in Keys \cup {NoKey}, NEW size \in Nat,
         NEW now \in Now, ThreadsReply(by, t, key, size, now)
  PROVE  WritesFound'
<1>1. ASSUME NEW c \in WrittenBy("reply", by, key), Answered("reply", by, key, c.id),
             UNCHANGED <<places, threads, comments, told, pager>>
      PROVE  WritesFound'
  <2>1. c \in comments /\ c.by = by /\ c.key = <<"reply", key>>
    BY <1>1 DEF WrittenBy
  <2>2. \A a \in landed' :
          \/ a \in landed
          \/ a.method = "reply" /\ a.by = by /\ a.key = key /\ a.made = c.id /\ key \in Keys
    BY <1>1, AnsweredIsThere
  <2>3. LandedIsThere'
    BY <1>1, <2>1, <2>2 DEF WritesFound, LandedIsThere
  <2> QED
    BY <1>1, <2>3 DEF WritesFound, NamesAreOfOne
<1>2. ASSUME WrittenBy("reply", by, key) = {}, NextComment <= MaxComments,
             threads' = Touch(t, now),
             comments' = comments \cup
               {[id |-> NextComment, thread |-> t, at |-> now, by |-> by,
                 key |-> Keyed("reply", key), size |-> size, gone |-> FALSE]},
             Answered("reply", by, key, NextComment)
      PROVE  WritesFound'
  <2> DEFINE new == [id |-> NextComment, thread |-> t, at |-> now, by |-> by,
                     key |-> Keyed("reply", key), size |-> size, gone |-> FALSE]
  <2>1. new.id = NextComment /\ new.by = by /\ new.key = Keyed("reply", key)
    OBVIOUS
  <2>2. comments' = comments \cup {new}
    BY <1>2
  <2> HIDE DEF new
  <2>3. ThreadsNamed({})
    BY <1>2, TouchKeepsNames DEF ListsTyped
  <2>4. key \in Keys => new.key = <<"reply", key>>
    BY <2>1, ConversationsAssumption DEF Keyed
  <2>5. new.key \in {"reply"} \X Keys => \A c \in comments : ~(c.by = by /\ c.key = new.key)
    BY <1>2, <2>1, ConversationsAssumption DEF WrittenBy, Keyed
  <2>6. NamesAreOfOne'
    <3>1. \A r, s \in threads' : r.by = s.by /\ r.key = s.key /\ r.key # NoKey => r.id = s.id
      BY <2>3 DEF WritesFound, NamesAreOfOne, ThreadsNamed, SameWrite
    <3>2. \A c, d \in comments' :
            c.by = d.by /\ c.key = d.key /\ c.key \in {"reply"} \X Keys => c.id = d.id
      BY <2>1, <2>2, <2>5 DEF WritesFound, NamesAreOfOne
    <3> QED
      BY <3>1, <3>2 DEF NamesAreOfOne
  <2>7. PICK made : made = NextComment
    OBVIOUS
  <2>8. \A a \in landed' :
          \/ a \in landed
          \/ a.method = "reply" /\ a.by = by /\ a.key = key /\ a.made = made /\ key \in Keys
    BY <1>2, <2>7, AnsweredIsThere
  <2>9. LandedIsThere'
    <3>1. ASSUME NEW a \in landed, a.method = "create"
          PROVE  \E r \in threads' : r.id = a.made /\ r.by = a.by /\ r.key = <<"create", a.key>>
      <4>1. PICK r \in threads : r.id = a.made /\ r.by = a.by /\ r.key = <<"create", a.key>>
        BY <3>1 DEF WritesFound, LandedIsThere
      <4>2. PICK s \in threads' : SameWrite(r, s)
        BY <2>3 DEF ThreadsNamed
      <4> QED
        BY <4>1, <4>2 DEF SameWrite
    <3>2. ASSUME NEW a \in landed, a.method = "reply"
          PROVE  \E c \in comments' : c.id = a.made /\ c.by = a.by /\ c.key = <<"reply", a.key>>
      BY <2>2, <3>2 DEF WritesFound, LandedIsThere
    <3>3. key \in Keys => new \in comments' /\ new.id = made /\ new.by = by /\ new.key = <<"reply", key>>
      BY <2>1, <2>2, <2>4, <2>7
    <3>4. \A a \in landed : a.key \in Keys /\ a.method \in {"create", "reply"}
      BY DEF WritesFound, LandedIsThere
    <3> QED
      BY <2>8, <3>1, <3>2, <3>3, <3>4 DEF LandedIsThere
  <2> QED
    BY <2>6, <2>9 DEF WritesFound
<1> QED
  BY <1>1, <1>2 DEF ThreadsReply

LEMMA ConversingIsFound ==
  ASSUME ListsTyped, WritesFound, Conversing
  PROVE  WritesFound'
<1>1. ASSUME NEW c \in comments, NEW size \in Nat, NEW now \in Now, CommentsEdit(c.by, c, size, now)
      PROVE  WritesFound'
  <2>1. c \in CommentRecords
    BY DEF ListsTyped, CommentsTabled, Table
  <2> DEFINE new == [c EXCEPT !.size = size]
  <2>2. SameWrite(c, new)
    BY <2>1 DEF CommentRecords, SameWrite
  <2>3. comments' = (comments \ {c}) \cup {new} /\ threads' = Touch(c.thread, now) /\ UNCHANGED landed
    BY <1>1 DEF CommentsEdit
  <2> HIDE DEF new
  <2>4. CommentsNamed({})
    BY <2>2, <2>3 DEF CommentsNamed, SameWrite
  <2>5. PICK t : t = c.thread
    OBVIOUS
  <2>6. ThreadsNamed({})
    BY <2>3, <2>5, TouchKeepsNames DEF ListsTyped
  <2> QED
    BY <2>3, <2>4, <2>6, NothingNewIsFound
<1>2. ASSUME NEW c \in comments, NEW now \in Now, CommentsDelete(c.by, c, now)
      PROVE  WritesFound'
  <2>1. c \in CommentRecords
    BY DEF ListsTyped, CommentsTabled, Table
  <2> DEFINE new == [c EXCEPT !.size = 0, !.gone = TRUE]
  <2>2. SameWrite(c, new)
    BY <2>1 DEF CommentRecords, SameWrite
  <2>3. \/ UNCHANGED <<threads, comments>>
        \/ comments' = (comments \ {c}) \cup {new} /\ threads' = Touch(c.thread, now)
    BY <1>2 DEF CommentsDelete
  <2>4. UNCHANGED landed
    BY <1>2 DEF CommentsDelete
  <2> HIDE DEF new
  <2>5. CASE UNCHANGED <<threads, comments>>
    BY <2>4, <2>5, NamesStay, NothingNewIsFound
  <2>6. CASE comments' = (comments \ {c}) \cup {new} /\ threads' = Touch(c.thread, now)
    <3>1. CommentsNamed({})
      BY <2>2, <2>6 DEF CommentsNamed, SameWrite
    <3>2. PICK t : t = c.thread
      OBVIOUS
    <3>3. ThreadsNamed({})
      BY <2>6, <3>2, TouchKeepsNames DEF ListsTyped
    <3> QED
      BY <2>4, <3>1, <3>3, NothingNewIsFound
  <2> QED
    BY <2>3, <2>5, <2>6
<1>3. ASSUME NEW t \in ThreadIds, NEW resolved \in BOOLEAN, NEW now \in Now,
             ThreadsResolve(t, resolved, now)
      PROVE  WritesFound'
  <2> DEFINE f == [r \in threads |-> IF r.id = t THEN [r EXCEPT !.resolved = resolved, !.at = now] ELSE r]
  <2>1. ASSUME NEW r \in threads
        PROVE  SameWrite(r, f[r])
    <3>1. r \in ThreadRecords
      BY DEF ListsTyped, ThreadsTabled, Table
    <3> QED
      BY <3>1 DEF ThreadRecords, SameWrite
  <2>2. threads' = {f[r] : r \in threads} /\ UNCHANGED <<comments, landed>>
    BY <1>3 DEF ThreadsResolve
  <2> HIDE DEF f
  <2>3. ThreadsNamed({})
    BY <2>1, <2>2 DEF ThreadsNamed
  <2> QED
    BY <2>2, <2>3, NamesStay, NothingNewIsFound
<1> QED
  BY <1>1, <1>2, <1>3, CreateIsFound, ReplyIsFound DEF Conversing

\* What goes with a project goes with what was answered about it.
LEMMA ForgettingIsFound ==
  ASSUME WritesFound, ForgettingAny
  PROVE  WritesFound'
<1>1. PICK p \in Places : Cascade(p, {r.id : r \in Attached(p)})
  BY DEF ForgettingAny, ProjectGoes
<1> DEFINE gone == {r.id : r \in {s \in threads : s.project = p}}
           with == {c.id : c \in {d \in comments : d.thread \in gone}}
<1>2. /\ threads' = {r \in threads : r.id \notin gone}
      /\ comments' = {c \in comments : c.id \notin with}
      /\ landed' = {l \in landed : l.made \notin gone \cup with}
  BY <1>1 DEF Cascade
<1> HIDE DEF gone, with
<1>3. NamesAreOfOne'
  BY <1>2 DEF WritesFound, NamesAreOfOne
<1>4. LandedIsThere'
  BY <1>2 DEF WritesFound, LandedIsThere
<1> QED
  BY <1>3, <1>4 DEF WritesFound

LEMMA WritesStep ==
  ASSUME ListsTyped, WritesFound, [ListsNext]_ListVars
  PROVE  WritesFound'
<1>1. ASSUME UNCHANGED <<threads, comments, landed>>
      PROVE  WritesFound'
  BY <1>1, NamesStay, NothingNewIsFound
<1>2. CASE Recording
  BY <1>1, <1>2 DEF Recording, OverlayPut, OverlayRevise, OverlayDrop
<1>3. CASE Deciding \/ Enlisting \/ UNCHANGED ListVars
  BY <1>1, <1>3 DEF Deciding, Enlisting, ListVars, conversationVars
<1>4. CASE Listing
  BY <1>1, <1>4 DEF Listing, ListingThreads, ThreadsList, ReadingAThread, ThreadsGet, ListingRecords,
                    OverlayList, ListingDecisions, ListingAccounts, conversationVars
<1> QED
  BY <1>2, <1>3, <1>4, ConversingIsFound, ForgettingIsFound DEF ListsNext

(* A client's id names one write of one method: a repeat, whatever         *)
(* happened in between, is answered with the row the first made as long as *)
(* it is there (createThread and replyToThread of                          *)
(* src/src/comments/store.ts), and no other write is taken for it.         *)
THEOREM RepeatsFind == ListsSpec => []RepeatsFindTheirRow
<1>1. ListsInit => WritesFound
  BY DEF ListsInit, ConversationsInit, WritesFound, NamesAreOfOne, LandedIsThere
<1>2. WritesFound => RepeatsFindTheirRow
  <2> SUFFICES ASSUME WritesFound, NEW a \in landed
               PROVE  /\ \A b \in landed : a.method = b.method /\ a.by = b.by /\ a.key = b.key => a.made = b.made
                      /\ a.method = "reply" => \E c \in comments : c.id = a.made /\ c.key = <<"reply", a.key>>
    BY DEF RepeatsFindTheirRow
  <2>1. ASSUME NEW b \in landed, a.method = b.method, a.by = b.by, a.key = b.key
        PROVE  a.made = b.made
    <3>1. a.key \in Keys /\ <<"create", a.key>> # NoKey
      BY ConversationsAssumption DEF WritesFound, LandedIsThere
    <3>2. CASE a.method = "create"
      <4>1. PICK r \in threads : r.id = a.made /\ r.by = a.by /\ r.key = <<"create", a.key>>
        BY <3>2 DEF WritesFound, LandedIsThere
      <4>2. PICK s \in threads : s.id = b.made /\ s.by = a.by /\ s.key = <<"create", a.key>>
        BY <2>1, <3>2 DEF WritesFound, LandedIsThere
      <4> QED
        BY <3>1, <4>1, <4>2 DEF WritesFound, NamesAreOfOne
    <3>3. CASE a.method = "reply"
      <4>1. PICK c \in comments : c.id = a.made /\ c.by = a.by /\ c.key = <<"reply", a.key>>
        BY <3>3 DEF WritesFound, LandedIsThere
      <4>2. PICK d \in comments : d.id = b.made /\ d.by = a.by /\ d.key = <<"reply", a.key>>
        BY <2>1, <3>3 DEF WritesFound, LandedIsThere
      <4>3. c.key \in {"reply"} \X Keys
        BY <3>1, <4>1
      <4>4. c.by = d.by /\ c.key = d.key
        BY <4>1, <4>2
      <4>5. c.id = d.id
        BY <4>3, <4>4 DEF WritesFound, NamesAreOfOne
      <4> QED
        BY <4>1, <4>2, <4>5
    <3> QED
      BY <3>2, <3>3 DEF WritesFound, LandedIsThere
  <2>2. a.method = "reply" => \E c \in comments : c.id = a.made /\ c.key = <<"reply", a.key>>
    BY DEF WritesFound, LandedIsThere
  <2> QED
    BY <2>1, <2>2
<1>3. ListsTyped /\ WritesFound /\ [ListsNext]_ListVars => WritesFound'
  BY WritesStep
<1>4. ListsSpec => []ListsTyped
  BY ListsHold, PTL
<1> QED
  BY <1>1, <1>2, <1>3, <1>4, PTL DEF ListsSpec

-----------------------------------------------------------------------------
(* What goes from a table that is full.                                    *)

BeforeIn(S, R, m) == {s \in S : <<s, m>> \in R}

\* In an order of all of a finite set every element has a rank of its own.
LEMMA RanksAreApart ==
  ASSUME NEW S, IsFiniteSet(S), NEW R, StrictOn(S, R),
         \A a, b \in S : a # b => <<a, b>> \in R \/ <<b, a>> \in R
  PROVE  /\ \A m \in S : Cardinality(BeforeIn(S, R, m)) \in 0..(Cardinality(S) - 1)
         /\ \A a, b \in S : <<a, b>> \in R =>
              Cardinality(BeforeIn(S, R, a)) < Cardinality(BeforeIn(S, R, b))
         /\ \A a, b \in S : a # b =>
              Cardinality(BeforeIn(S, R, a)) # Cardinality(BeforeIn(S, R, b))
<1>1. \A m \in S : /\ BeforeIn(S, R, m) \in SUBSET S /\ BeforeIn(S, R, m) # S
                   /\ IsFiniteSet(BeforeIn(S, R, m))
  <2> SUFFICES ASSUME NEW m \in S
               PROVE  /\ BeforeIn(S, R, m) \in SUBSET S /\ BeforeIn(S, R, m) # S
                      /\ IsFiniteSet(BeforeIn(S, R, m))
    OBVIOUS
  <2>1. BeforeIn(S, R, m) \in SUBSET S /\ m \notin BeforeIn(S, R, m)
    BY DEF BeforeIn, StrictOn
  <2> QED
    BY <2>1, FS_Subset
<1>2. Cardinality(S) \in Nat /\ \A m \in S : Cardinality(BeforeIn(S, R, m)) \in Nat
  BY <1>1, FS_CardinalityType
<1>3. ASSUME NEW m \in S
      PROVE  Cardinality(BeforeIn(S, R, m)) \in 0..(Cardinality(S) - 1)
  <2>1. /\ Cardinality(BeforeIn(S, R, m)) <= Cardinality(S)
        /\ Cardinality(BeforeIn(S, R, m)) # Cardinality(S)
    BY <1>1, FS_Subset
  <2> QED
    BY <1>2, <2>1
<1>4. ASSUME NEW a \in S, NEW b \in S, <<a, b>> \in R
      PROVE  Cardinality(BeforeIn(S, R, a)) < Cardinality(BeforeIn(S, R, b))
  <2>1. BeforeIn(S, R, a) \in SUBSET BeforeIn(S, R, b)
    BY <1>4 DEF BeforeIn, StrictOn
  <2>2. a \in BeforeIn(S, R, b) /\ a \notin BeforeIn(S, R, a)
    BY <1>4 DEF BeforeIn, StrictOn
  <2>3. /\ Cardinality(BeforeIn(S, R, a)) <= Cardinality(BeforeIn(S, R, b))
        /\ Cardinality(BeforeIn(S, R, a)) # Cardinality(BeforeIn(S, R, b))
    BY <1>1, <2>1, <2>2, FS_Subset
  <2> QED
    BY <1>2, <2>3
<1>5. ASSUME NEW a \in S, NEW b \in S, a # b
      PROVE  Cardinality(BeforeIn(S, R, a)) # Cardinality(BeforeIn(S, R, b))
  <2>1. \/ Cardinality(BeforeIn(S, R, a)) < Cardinality(BeforeIn(S, R, b))
        \/ Cardinality(BeforeIn(S, R, b)) < Cardinality(BeforeIn(S, R, a))
    <3>1. CASE <<a, b>> \in R
      BY <1>4, <3>1
    <3>2. CASE <<b, a>> \in R
      BY <1>4, <3>2
    <3> QED
      BY <1>5, <3>1, <3>2
  <2> QED
    BY <1>2, <2>1
<1> QED
  BY <1>3, <1>4, <1>5

\* So many of the last of them are so many.
LEMMA TheLastAreSoMany ==
  ASSUME NEW S, IsFiniteSet(S), NEW R, StrictOn(S, R),
         \A a, b \in S : a # b => <<a, b>> \in R \/ <<b, a>> \in R,
         NEW n \in Nat, NEW last,
         last = {m \in S : Cardinality(BeforeIn(S, R, m)) >= Cardinality(S) - n}
  PROVE  /\ IsFiniteSet(last) /\ Cardinality(last) <= n
         /\ Cardinality(S) >= n => Cardinality(last) = n
<1> DEFINE size == Cardinality(S)
           rank == [m \in S |-> Cardinality(BeforeIn(S, R, m))]
           range == (size - n)..(size - 1)
<1>1. size \in Nat /\ last \in SUBSET S /\ IsFiniteSet(last) /\ Cardinality(last) \in Nat
  <2>1. last \in SUBSET S
    OBVIOUS
  <2> QED
    BY <2>1, FS_CardinalityType, FS_Subset
<1>2. CASE size < n
  BY <1>1, <1>2, FS_Subset
<1>3. CASE size >= n
  <2>1. rank \in [S -> 0..(size - 1)] /\ \A a, b \in S : rank[a] = rank[b] => a = b
    BY RanksAreApart
  <2>2. \A m \in S : rank[m] = Cardinality(BeforeIn(S, R, m))
    OBVIOUS
  <2>3. IsFiniteSet(0..(size - 1)) /\ Cardinality(0..(size - 1)) = size
    <3>1. 0 \in Int /\ size - 1 \in Int
      BY <1>1
    <3>2. IsFiniteSet(0..(size - 1))
          /\ Cardinality(0..(size - 1)) = IF 0 > size - 1 THEN 0 ELSE size - 1 - 0 + 1
      BY <3>1, FS_Interval
    <3>3. (IF 0 > size - 1 THEN 0 ELSE size - 1 - 0 + 1) = size
      BY <1>1
    <3> QED
      BY <3>2, <3>3
  <2>4. IsFiniteSet(range) /\ Cardinality(range) = n
    <3>1. size - n \in Int /\ size - 1 \in Int
      BY <1>1
    <3>2. IsFiniteSet(range)
          /\ Cardinality(range) = IF size - n > size - 1 THEN 0 ELSE size - 1 - (size - n) + 1
      BY <3>1, FS_Interval
    <3>3. (IF size - n > size - 1 THEN 0 ELSE size - 1 - (size - n) + 1) = n
      BY <1>1
    <3> QED
      BY <3>2, <3>3
  <2> HIDE DEF rank, size
  <2>5. rank \in Injection(S, 0..(size - 1))
    BY <2>1 DEF Injection, IsInjective
  <2>6. rank \in Surjection(S, 0..(size - 1))
    BY <2>3, <2>5, FS_Injection DEF size
  <2> DEFINE ranked == [m \in last |-> rank[m]]
  <2>7. \A m \in S : m \in last <=> rank[m] \in range
    BY <1>1, <2>1, <2>2 DEF size
  <2>8. ranked \in Injection(last, range)
    BY <1>1, <2>1, <2>7 DEF Injection, IsInjective
  <2>9. ranked \in Surjection(last, range)
    <3>1. ASSUME NEW r \in range
          PROVE  \E m \in last : ranked[m] = r
      <4>1. r \in 0..(size - 1)
        BY <1>1, <1>3
      <4>2. PICK m \in S : rank[m] = r
        BY <2>6, <4>1 DEF Surjection
      <4> QED
        BY <2>7, <4>2
    <3>2. ranked \in [last -> range]
      BY <1>1, <2>7
    <3> QED
      BY <3>1, <3>2 DEF Surjection
  <2>10. Cardinality(last) = Cardinality(range)
    BY <1>1, <2>8, <2>9, <2>4, FS_Injection
  <2> QED
    BY <1>1, <2>4, <2>10
<1> QED
  BY <1>1, <1>2, <1>3

GoingBefore(rows) == {p \in rows \X rows : GoesBefore(p[1], p[2])}

LEMMA GoingIsAnOrder ==
  ASSUME NEW rows, rows \subseteq DecisionRecords, OneIdEach(rows)
  PROVE  /\ StrictOn(rows, GoingBefore(rows))
         /\ \A a, b \in rows : a # b => <<a, b>> \in GoingBefore(rows) \/ <<b, a>> \in GoingBefore(rows)
         /\ \A d \in rows : BeforeIn(rows, GoingBefore(rows), d) = {e \in rows : GoesBefore(e, d)}
<1>1. \A d \in rows : d.id \in Nat /\ d.at \in Nat /\ d.allowed \in BOOLEAN
  BY PagingAssumption DEF DecisionRecords, Now
<1>2. \A a, b \in rows : <<a, b>> \in GoingBefore(rows) <=> GoesBefore(a, b)
  BY DEF GoingBefore
<1>3. \A a \in rows : ~GoesBefore(a, a)
  BY <1>1 DEF GoesBefore, Earlier
<1>4. \A a, b, c \in rows : GoesBefore(a, b) /\ GoesBefore(b, c) => GoesBefore(a, c)
  BY <1>1 DEF GoesBefore, Earlier
<1>5. \A a, b \in rows : a # b => GoesBefore(a, b) \/ GoesBefore(b, a)
  BY <1>1 DEF GoesBefore, Earlier, OneIdEach
<1>6. StrictOn(rows, GoingBefore(rows))
  BY <1>2, <1>3, <1>4 DEF StrictOn
<1>7. \A d \in rows : BeforeIn(rows, GoingBefore(rows), d) = {e \in rows : GoesBefore(e, d)}
  BY <1>2 DEF BeforeIn
<1> QED
  BY <1>2, <1>5, <1>6, <1>7

\* What trimming leaves: as many as the limit, and a refusal goes from refusals.
LEMMA TrimmingKeeps ==
  ASSUME NEW rows, Table(rows, DecisionRecords)
  PROVE  /\ IsFiniteSet(Trimmed(rows)) /\ Cardinality(Trimmed(rows)) <= DecisionLimit
         /\ \A d \in rows \ Trimmed(rows) : ~d.allowed =>
              /\ \A e \in Trimmed(rows) : ~e.allowed
              /\ Cardinality(Trimmed(rows)) = DecisionLimit
<1> DEFINE R == GoingBefore(rows)
           kept == {m \in rows : Cardinality(BeforeIn(rows, R, m)) >= Cardinality(rows) - DecisionLimit}
<1>1. /\ IsFiniteSet(rows) /\ StrictOn(rows, R)
      /\ \A a, b \in rows : a # b => <<a, b>> \in R \/ <<b, a>> \in R
      /\ \A d \in rows : BeforeIn(rows, R, d) = {e \in rows : GoesBefore(e, d)}
  BY GoingIsAnOrder DEF Table
<1>2. DecisionLimit \in Nat
  BY DecisionsAssumption
<1>3. Trimmed(rows) = kept
  BY <1>1 DEF Trimmed
<1>4. Cardinality(rows) \in Nat
  BY <1>1, FS_CardinalityType
<1>5. \A a, b \in rows : <<a, b>> \in R <=> GoesBefore(a, b)
  BY DEF GoingBefore
<1> HIDE DEF R
<1>6. /\ IsFiniteSet(kept) /\ Cardinality(kept) <= DecisionLimit
      /\ Cardinality(rows) >= DecisionLimit => Cardinality(kept) = DecisionLimit
  BY <1>1, <1>2, TheLastAreSoMany
<1>7. /\ \A m \in rows : Cardinality(BeforeIn(rows, R, m)) \in 0..(Cardinality(rows) - 1)
      /\ \A a, b \in rows : <<a, b>> \in R =>
           Cardinality(BeforeIn(rows, R, a)) < Cardinality(BeforeIn(rows, R, b))
  BY <1>1, RanksAreApart
<1>8. ASSUME NEW d \in rows \ kept, ~d.allowed
      PROVE  (\A e \in kept : ~e.allowed) /\ Cardinality(kept) = DecisionLimit
  <2> DEFINE rank(m) == Cardinality(BeforeIn(rows, R, m))
  <2>1. \A m \in rows : rank(m) \in Nat
    BY <1>4, <1>7
  <2>2. rank(d) < Cardinality(rows) - DecisionLimit
    BY <1>2, <1>4, <1>8, <2>1
  <2>3. ASSUME NEW e \in kept, e.allowed
        PROVE  FALSE
    <3>1. GoesBefore(e, d)
      BY <1>8, <2>3 DEF GoesBefore
    <3>2. rank(e) < rank(d)
      BY <1>5, <1>7, <3>1
    <3>3. rank(e) >= Cardinality(rows) - DecisionLimit
      OBVIOUS
    <3> HIDE DEF rank
    <3>4. e \in rows
      OBVIOUS
    <3> QED
      BY <1>2, <1>4, <2>1, <2>2, <3>2, <3>3, <3>4
  <2>4. Cardinality(rows) >= DecisionLimit
    <3> HIDE DEF rank
    <3> QED
      BY <1>2, <1>4, <2>1, <2>2
  <2> QED
    BY <1>6, <2>3, <2>4
<1> HIDE DEF kept
<1> QED
  BY <1>3, <1>6, <1>8

\* Since a trim there are no more than what has been written since.
TrimIsDue ==
  /\ sinceTrim \in 0..TrimSlack
  /\ sinceTrim # TrimSlack => Cardinality(decisions) <= DecisionLimit + sinceTrim

TheRefusedStay ==
  /\ (\E d \in decisions : ~d.allowed /\ d \notin decisions') =>
       /\ \A d \in decisions' : ~d.allowed
       /\ Cardinality(decisions') >= DecisionLimit
  /\ sinceTrim' # TrimSlack => Cardinality(decisions') <= DecisionLimit + TrimSlack

LEMMA RecordedIsTrimmed ==
  ASSUME DecisionsTabled, TrimIsDue, NEW allowed \in BOOLEAN, NEW now \in Now,
         RecordDecision(allowed, now)
  PROVE  TrimIsDue' /\ TheRefusedStay
<1>1. PICK row : row = [id |-> NextDecision, at |-> now, allowed |-> allowed]
  OBVIOUS
<1>2. PICK rows : rows = decisions \cup {row}
  OBVIOUS
<1>3. row \in DecisionRecords /\ \A d \in decisions : d.id # row.id
  BY <1>1, NextDecisionIsNew DEF DecisionRecords
<1>4. Table(rows, DecisionRecords)
  BY <1>2, <1>3, RowIsAdded DEF DecisionsTabled
<1>5. /\ decisions' = IF sinceTrim + 1 > TrimSlack THEN Trimmed(rows) ELSE rows
      /\ sinceTrim' = IF sinceTrim + 1 > TrimSlack THEN 0 ELSE sinceTrim + 1
  BY <1>1, <1>2, Zenon DEF RecordDecision
<1>6. TrimSlack \in Nat /\ DecisionLimit \in Nat /\ sinceTrim \in 0..TrimSlack
  BY DecisionsAssumption DEF TrimIsDue
<1>7. IsFiniteSet(decisions) /\ Cardinality(decisions) \in Nat
      /\ Cardinality(rows) <= Cardinality(decisions) + 1 /\ Cardinality(rows) \in Nat
  <2>1. IsFiniteSet(decisions)
    BY DEF DecisionsTabled, Table
  <2>2. Cardinality(decisions) \in Nat
    BY <2>1, FS_CardinalityType
  <2>3. Cardinality(rows) = IF row \in decisions THEN Cardinality(decisions) ELSE Cardinality(decisions) + 1
    BY <1>2, <2>1, FS_AddElement
  <2> QED
    BY <2>1, <2>2, <2>3
<1>8. CASE sinceTrim + 1 > TrimSlack
  <2>1. decisions' = Trimmed(rows) /\ sinceTrim' = 0
    BY <1>5, <1>8
  <2>2. Cardinality(decisions') \in Nat /\ Cardinality(decisions') <= DecisionLimit
    BY <1>4, <2>1, TrimmingKeeps, FS_CardinalityType
  <2>3. TrimIsDue'
    BY <1>6, <2>1, <2>2 DEF TrimIsDue
  <2>4. ASSUME NEW d \in decisions, ~d.allowed, d \notin decisions'
        PROVE  (\A e \in decisions' : ~e.allowed) /\ Cardinality(decisions') >= DecisionLimit
    <3>1. d \in rows \ Trimmed(rows)
      BY <1>2, <2>1, <2>4
    <3>2. (\A e \in decisions' : ~e.allowed) /\ Cardinality(decisions') = DecisionLimit
      BY <1>4, <2>1, <2>4, <3>1, TrimmingKeeps
    <3> QED
      BY <1>6, <3>2
  <2>5. Cardinality(decisions') <= DecisionLimit + TrimSlack
    BY <1>6, <2>2
  <2> QED
    BY <2>3, <2>4, <2>5 DEF TheRefusedStay
<1>9. CASE ~(sinceTrim + 1 > TrimSlack)
  <2>1. decisions' = rows /\ sinceTrim' = sinceTrim + 1 /\ sinceTrim # TrimSlack
    BY <1>5, <1>6, <1>9
  <2>2. Cardinality(decisions') <= DecisionLimit + sinceTrim'
    BY <1>6, <1>7, <2>1 DEF TrimIsDue
  <2>3. sinceTrim' \in 0..TrimSlack
    BY <1>6, <1>9, <2>1
  <2>4. Cardinality(decisions') <= DecisionLimit + TrimSlack
    BY <1>6, <1>7, <2>1, <2>2, <2>3
  <2>5. decisions \subseteq decisions'
    BY <1>2, <2>1
  <2> QED
    BY <2>2, <2>3, <2>4, <2>5 DEF TrimIsDue, TheRefusedStay
<1> QED
  BY <1>8, <1>9

LEMMA DecidingTrims ==
  ASSUME ListsTyped, TrimIsDue, [ListsNext]_ListVars
  PROVE  TrimIsDue' /\ (UNCHANGED decisionVars \/ TheRefusedStay)
<1>1. DecisionsTabled
  BY DEF ListsTyped
<1>2. CASE UNCHANGED decisionVars
  BY <1>2 DEF decisionVars, TrimIsDue
<1>3. CASE Deciding
  <2>1. CASE DiesDeciding
    <3>1. sinceTrim' = TrimSlack /\ decisions \subseteq decisions'
      BY <2>1 DEF DiesDeciding
    <3> QED
      BY <3>1, DecisionsAssumption DEF TrimIsDue, TheRefusedStay
  <2> QED
    BY <1>1, <1>3, <2>1, RecordedIsTrimmed DEF Deciding
<1>4. CASE Conversing \/ Recording \/ ForgettingAny \/ Enlisting \/ Listing \/ UNCHANGED ListVars
  <2>1. UNCHANGED decisionVars
    BY <1>4 DEF Conversing, Recording, ForgettingAny, Enlisting, Listing, ListingThreads, ReadingAThread,
                ListingRecords, ListingDecisions, ListingAccounts, PageDecisions, ListVars
  <2> QED
    BY <1>2, <2>1
<1> QED
  BY <1>3, <1>4 DEF ListsNext

(* A refusal goes from the audit only when refusals alone fill it, and it  *)
(* is never more than its slack above its limit: recordDecision and        *)
(* trimDecisions of src/src/identity/audit.ts, however the clock is set    *)
(* and whenever the server dies between the two.                           *)
THEOREM RefusalsStay == ListsSpec => RefusalsOutlast
<1>1. ListsInit => TrimIsDue
  BY DecisionsAssumption DEF ListsInit, DecisionsInit, TrimIsDue
<1>2. ListsTyped /\ TrimIsDue /\ [ListsNext]_ListVars => TrimIsDue' /\ [TheRefusedStay]_decisionVars
  BY DecidingTrims
<1>3. ListsSpec => []ListsTyped
  BY ListsHold, PTL
<1>4. [][TheRefusedStay]_decisionVars => RefusalsOutlast
  BY PTL DEF RefusalsOutlast, TheRefusedStay
<1> QED
  BY <1>1, <1>2, <1>3, <1>4, PTL DEF ListsSpec

-----------------------------------------------------------------------------
(* What a deployment is closed to.                                         *)

SettingsSpec == SettingsInit /\ [][Choosing \/ Identifying]_settingVars

\* Whatever is under way was let in at some number of changes, and what a closed
\* deployment would refuse at fewer than when it was last closed.
SettingsTyped == DOMAIN stored = SettingKeys /\ changes \in Nat /\ closedAt \in Nat
WorkIsDated == \A w \in working : w.since \in 0..changes
ClosedInv == SettingsTyped /\ WorkIsDated /\ ClosedIsClosed

LEMMA ClosedAtFirst == SettingsInit => ClosedInv
<1> SUFFICES ASSUME SettingsInit
             PROVE  ClosedInv
  OBVIOUS
<1>1. stored \in [SettingKeys -> {Absent, "closed", Junk}] /\ working = {} /\ changes = 0 /\ closedAt = 0
  BY DEF SettingsInit
<1> QED
  BY <1>1 DEF ClosedInv, SettingsTyped, WorkIsDated, ClosedIsClosed

\* A choice closes, or leaves closed what is, or leaves the rule alone, or opens.
LEMMA ChoosingKeepsClosed ==
  ASSUME NEW key \in SettingKeys, NEW value \in Values(key), Chooses(key, value), UNCHANGED working,
         ClosedInv
  PROVE  ClosedInv'
<1> USE DEF ClosedInv
<1>1. SettingsTyped'
  BY DEF SettingsTyped, Chooses
<1>2. changes' = changes + 1 /\ changes \in Nat /\ WorkIsDated'
  BY DEF SettingsTyped, Chooses, WorkIsDated
<1>3. CASE key = "collaboration" /\ value = "closed" /\ CollaborationOpen
  <2>1. closedAt' = changes'
    BY <1>3 DEF Chooses
  <2>2. \A w \in working : w.since < closedAt'
    BY <1>2, <2>1 DEF WorkIsDated
  <2> QED
    BY <1>1, <1>2, <2>2 DEF ClosedIsClosed
<1>4. CASE key = "collaboration" /\ value = "closed" /\ ~CollaborationOpen
  <2>1. closedAt' = closedAt
    BY <1>4 DEF Chooses
  <2> QED
    BY <1>1, <1>2, <1>4, <2>1 DEF ClosedIsClosed
<1>5. CASE key = "collaboration" /\ value = "open"
  <2>1. stored'["collaboration"] = "open"
    BY <1>5 DEF Chooses, SettingsTyped
  <2>2. CollaborationOpen'
    BY <2>1 DEF CollaborationOpen, ReadSetting, Default, Junk
  <2> QED
    BY <1>1, <1>2, <2>2 DEF ClosedIsClosed
<1>6. CASE key # "collaboration"
  <2>1. closedAt' = closedAt
    BY <1>6 DEF Chooses
  <2>2. stored'["collaboration"] = stored["collaboration"]
    BY <1>6 DEF Chooses, SettingsTyped, SettingKeys
  <2>3. CollaborationOpen' = CollaborationOpen
    BY <2>2 DEF CollaborationOpen, ReadSetting
  <2> QED
    BY <1>1, <1>2, <2>1, <2>3 DEF ClosedIsClosed
<1>7. key = "collaboration" => value = "closed" \/ value = "open"
  BY DEF Values
<1> QED
  BY <1>3, <1>4, <1>5, <1>6, <1>7

\* What is let in now is let in by the setting as it stands.
LEMMA BeginningKeepsClosed ==
  ASSUME NEW s, NEW call, Begins(s, call), UNCHANGED <<stored, changes, closedAt>>, ClosedInv,
         ~CollaborationOpen => call \notin Coordination,
         ~CollaborationOpen => (call \in KeptForOperators => s \in operators)
  PROVE  ClosedInv'
<1> USE DEF ClosedInv
<1> DEFINE begun == [on |-> s, call |-> call, operator |-> s \in operators, since |-> changes]
<1>1. working' = working \cup {begun}
  BY DEF Begins
<1>2. SettingsTyped'
  BY DEF SettingsTyped
<1>3. WorkIsDated'
  <2>1. begun.since \in 0..changes
    BY DEF SettingsTyped
  <2> QED
    BY <1>1, <2>1 DEF WorkIsDated
<1>4. CollaborationOpen' = CollaborationOpen
  BY DEF CollaborationOpen, ReadSetting
<1>5. ClosedIsClosed'
  <2> SUFFICES ASSUME ~CollaborationOpen, NEW w \in working',
                      w.call \in Coordination \/ (w.call \in KeptForOperators /\ ~w.operator)
               PROVE  w.since < closedAt
    BY <1>4 DEF ClosedIsClosed
  <2>1. begun.call = call /\ (begun.operator <=> s \in operators)
    OBVIOUS
  <2>2. w # begun
    BY <2>1
  <2> QED
    BY <1>1, <2>2 DEF ClosedIsClosed
<1> QED
  BY <1>2, <1>3, <1>5

LEMMA NothingElseOpens ==
  ASSUME UNCHANGED <<stored, changes, closedAt>>, working' \subseteq working, ClosedInv
  PROVE  ClosedInv'
<1>1. CollaborationOpen' = CollaborationOpen
  BY DEF CollaborationOpen, ReadSetting
<1> QED
  BY <1>1 DEF ClosedInv, SettingsTyped, WorkIsDated, ClosedIsClosed

LEMMA ClosedIsKept ==
  ASSUME ClosedInv, [Choosing \/ Identifying]_settingVars
  PROVE  ClosedInv'
<1>1. ASSUME NEW s \in Sessions, NEW call \in Calls, Call(s, call)
      PROVE  ClosedInv'
  <2>1. Begins(s, call) /\ UNCHANGED <<stored, changes, closedAt>> /\ JudgeCollaboration(s, call)
    BY <1>1 DEF Call, unservedVars
  <2> QED
    BY <2>1, BeginningKeepsClosed DEF JudgeCollaboration
<1>2. ASSUME NEW s \in Sessions, BlobRequest(s)
      PROVE  ClosedInv'
  <2>1. Begins(s, "blobs") /\ UNCHANGED <<stored, changes, closedAt>> /\ CollaborationOpen
    BY <1>2 DEF BlobRequest, JudgeBlobRoute, unservedVars
  <2> QED
    BY <2>1, BeginningKeepsClosed
<1>3. ASSUME NEW key \in SettingKeys, NEW value \in Values(key),
             SettingsSet(key, value) \/ \E s \in Sessions : AdminSettingsSet(s, key, value)
      PROVE  ClosedInv'
  <2>1. Chooses(key, value) /\ UNCHANGED working
    BY <1>3 DEF SettingsSet, AdminSettingsSet, servedVars
  <2> QED
    BY <2>1, ChoosingKeepsClosed
<1>4. ASSUME NEW s \in Sessions, Hello(s) \/ Leaves(s) \/ Regroup(s)
      PROVE  ClosedInv'
  <2>1. UNCHANGED <<stored, changes, closedAt>> /\ UNCHANGED working
    BY <1>4 DEF Hello, Leaves, Regroup, unservedVars, servedVars
  <2> QED
    BY <2>1, NothingElseOpens
<1>5. ASSUME NEW w \in working, Finishes(w)
      PROVE  ClosedInv'
  <2>1. UNCHANGED <<stored, changes, closedAt>> /\ working' \subseteq working
    BY <1>5 DEF Finishes, unservedVars
  <2> QED
    BY <2>1, NothingElseOpens
<1>6. CASE Identifying \/ UNCHANGED settingVars
  <2>1. UNCHANGED <<stored, changes, closedAt>> /\ UNCHANGED working
    BY <1>6 DEF Identifying, PersistIdentity, ReadIdentity, CommandEnds, servedVars, settingVars
  <2> QED
    BY <2>1, NothingElseOpens
<1> QED
  BY <1>1, <1>2, <1>3, <1>4, <1>5, <1>6 DEF Choosing

(* What a deployment that is closed is still at had been let in before it  *)
(* was last closed: judgeCollaboration and judgeBlobRoute                  *)
(* (src/src/team/collaboration.ts) read the setting as it stands, once,    *)
(* and what they let in is awaited while the setting may change.           *)
THEOREM ClosedStaysClosed == SettingsSpec => []ClosedIsClosed
<1>1. ClosedInv => ClosedIsClosed
  BY DEF ClosedInv
<1> QED
  BY <1>1, ClosedAtFirst, ClosedIsKept, PTL DEF SettingsSpec

-----------------------------------------------------------------------------
(* Wrong passwords.                                                        *)

SignInSpec == SignInInit /\ [][SignInNext]_signInVars

\* What arithmetic says of powers of two, and no prover here knows.
PowersGrow == \A n \in Nat : 2^n \in Nat /\ 2^n <= 2^(n + 1)

Pairs == Accounts \X Addresses

\* What is remembered of a pair, and that it is not for longer than it counts.
AttemptsTyped ==
  /\ DOMAIN attempts \subseteq Pairs
  /\ IsFiniteSet(DOMAIN attempts)
  /\ Cardinality(DOMAIN attempts) <= MaxTracked
  /\ \A p \in DOMAIN attempts :
       /\ attempts[p] \in [refusals : Nat, readyAt : Nat, expiresAt : Nat]
       /\ attempts[p].expiresAt = attempts[p].readyAt + ForgetAfter
       /\ attempts[p].readyAt <= clock + BackoffFor(attempts[p].refusals)

SignInTyped ==
  /\ clock \in Nat
  /\ knocking \in [Knockers -> [pair : Pairs, stage : Stages] \cup {Nowhere}]
  /\ AttemptsTyped

LEMMA WaitsGrow ==
  ASSUME PowersGrow, NEW n \in Nat
  PROVE  BackoffFor(n) \in Nat /\ BackoffFor(n) <= BackoffFor(n + 1)
<1>1. FreeAttempts \in Nat /\ LongestWait \in Nat
  BY SignInAssumption
<1>2. CASE n + 1 <= FreeAttempts
  BY <1>1, <1>2 DEF BackoffFor
<1>3. CASE n = FreeAttempts
  <2>1. (n + 1) - FreeAttempts - 1 = 0 /\ 2^0 \in Nat
    BY <1>1, <1>3 DEF PowersGrow
  <2> DEFINE one == 2^0
  <2>2. BackoffFor(n) = 0 /\ BackoffFor(n + 1) = IF one < LongestWait THEN one ELSE LongestWait
    BY <1>1, <1>3, <2>1 DEF BackoffFor
  <2> HIDE DEF one
  <2> QED
    BY <1>1, <2>1, <2>2 DEF one
<1>4. CASE n > FreeAttempts
  <2> DEFINE m == n - FreeAttempts - 1
             less == 2^m
             more == 2^(m + 1)
  <2>1. m \in Nat /\ (n + 1) - FreeAttempts - 1 = m + 1
    BY <1>1, <1>4
  <2>2. less \in Nat /\ more \in Nat /\ less <= more
    <3>1. m + 1 \in Nat
      BY <2>1
    <3> HIDE DEF m
    <3> QED
      BY <2>1, <3>1 DEF PowersGrow
  <2>3. BackoffFor(n) = IF less < LongestWait THEN less ELSE LongestWait
    BY <1>1, <1>4 DEF BackoffFor
  <2>4. BackoffFor(n + 1) = IF more < LongestWait THEN more ELSE LongestWait
    BY <1>1, <1>4, <2>1 DEF BackoffFor
  <2> HIDE DEF less, more
  <2> QED
    BY <1>1, <2>2, <2>3, <2>4
<1> QED
  BY <1>1, <1>2, <1>3, <1>4

Fresh == Restrict(attempts, {p \in DOMAIN attempts : attempts[p].expiresAt > clock})

\* A place is made by letting go of what is out of date, or of what is ready soonest.
LEMMA RoomIsMade ==
  ASSUME SignInTyped, NEW table \in RoomMade
  PROVE  /\ DOMAIN table \subseteq DOMAIN attempts /\ IsFiniteSet(DOMAIN table)
         /\ Cardinality(DOMAIN table) < MaxTracked
         /\ \A p \in DOMAIN table : table[p] = attempts[p]
         /\ \A p \in DOMAIN attempts : attempts[p].expiresAt > clock =>
              \/ p \in DOMAIN table
              \/ /\ Cardinality(DOMAIN table) = MaxTracked - 1
                 /\ \A q \in DOMAIN attempts : attempts[p].readyAt <= attempts[q].readyAt
<1>1. MaxTracked \in Nat /\ IsFiniteSet(DOMAIN attempts) /\ Cardinality(DOMAIN attempts) <= MaxTracked
  BY SignInAssumption DEF SignInTyped, AttemptsTyped
<1>2. Cardinality(DOMAIN attempts) \in Nat
  BY <1>1, FS_CardinalityType
<1>3. /\ DOMAIN Fresh = {p \in DOMAIN attempts : attempts[p].expiresAt > clock}
      /\ \A p \in DOMAIN Fresh : Fresh[p] = attempts[p]
  BY DEF Fresh, Restrict
<1>4. /\ IsFiniteSet(DOMAIN Fresh) /\ Cardinality(DOMAIN Fresh) \in Nat
      /\ Cardinality(DOMAIN Fresh) <= Cardinality(DOMAIN attempts)
      /\ Cardinality(DOMAIN Fresh) = Cardinality(DOMAIN attempts) => DOMAIN Fresh = DOMAIN attempts
  <2>1. DOMAIN Fresh \in SUBSET DOMAIN attempts
    BY <1>3
  <2> QED
    BY <1>1, <2>1, FS_Subset, FS_CardinalityType
<1>5. CASE Cardinality(DOMAIN attempts) < MaxTracked
  <2>1. table = attempts
    BY <1>5 DEF RoomMade
  <2> QED
    BY <1>1, <1>5, <2>1
<1>6. CASE ~(Cardinality(DOMAIN attempts) < MaxTracked) /\ Cardinality(DOMAIN Fresh) < MaxTracked
  <2>1. table = Fresh
    BY <1>6 DEF RoomMade, Fresh
  <2> QED
    BY <1>3, <1>4, <1>6, <2>1
<1>7. CASE ~(Cardinality(DOMAIN attempts) < MaxTracked) /\ ~(Cardinality(DOMAIN Fresh) < MaxTracked)
  <2>1. DOMAIN Fresh = DOMAIN attempts /\ Cardinality(DOMAIN attempts) = MaxTracked
    BY <1>1, <1>2, <1>4, <1>7
  <2>2. PICK p \in Soonest(Fresh) : table = Restrict(Fresh, DOMAIN Fresh \ {p})
    BY <1>7 DEF RoomMade, Fresh
  <2>3. p \in DOMAIN attempts /\ \A q \in DOMAIN attempts : attempts[p].readyAt <= attempts[q].readyAt
    BY <1>3, <2>1, <2>2 DEF Soonest
  <2>4. DOMAIN table = DOMAIN attempts \ {p} /\ \A q \in DOMAIN table : table[q] = attempts[q]
    BY <1>3, <2>1, <2>2 DEF Restrict
  <2>5. IsFiniteSet(DOMAIN table) /\ Cardinality(DOMAIN table) = MaxTracked - 1
    <3>1. /\ IsFiniteSet(DOMAIN attempts \ {p})
          /\ Cardinality(DOMAIN attempts \ {p}) =
               IF p \in DOMAIN attempts THEN Cardinality(DOMAIN attempts) - 1
                                        ELSE Cardinality(DOMAIN attempts)
      BY <1>1, FS_RemoveElement
    <3> QED
      BY <2>1, <2>3, <2>4, <3>1
  <2>6. Cardinality(DOMAIN table) < MaxTracked
    BY <1>1, <2>5
  <2>7. ASSUME NEW q \in DOMAIN attempts
        PROVE  \/ q \in DOMAIN table
               \/ /\ Cardinality(DOMAIN table) = MaxTracked - 1
                  /\ \A r \in DOMAIN attempts : attempts[q].readyAt <= attempts[r].readyAt
    BY <2>3, <2>4, <2>5
  <2> QED
    BY <2>4, <2>5, <2>6, <2>7
<1> QED
  BY <1>5, <1>6, <1>7

\* A wait that goes on, or gives its place to others that are longer.
Served(pair) ==
  \/ pair \in DOMAIN attempts' /\ attempts'[pair].readyAt >= attempts[pair].readyAt
  \/ /\ Cardinality(DOMAIN attempts') = MaxTracked
     /\ \A other \in DOMAIN attempts : attempts[other].readyAt >= attempts[pair].readyAt

LEMMA CountingServes ==
  ASSUME PowersGrow, SignInTyped, NEW pair \in Pairs, Counted(pair), UNCHANGED clock
  PROVE  /\ AttemptsTyped'
         /\ \A p \in DOMAIN attempts : attempts[p].readyAt > clock => Served(p)
<1> DEFINE refusals == IF Remembered(pair) THEN attempts[pair].refusals + 1 ELSE 1
           readyAt == clock + BackoffFor(refusals)
<1>1. PICK entry : entry = [refusals |-> refusals, readyAt |-> readyAt, expiresAt |-> readyAt + ForgetAfter]
  OBVIOUS
<1>2. PICK table \in IF pair \in DOMAIN attempts THEN {attempts} ELSE RoomMade :
        attempts' = [p \in DOMAIN table \cup {pair} |-> IF p = pair THEN entry ELSE table[p]]
  BY <1>1, Zenon DEF Counted
<1>3. clock \in Nat /\ ForgetAfter \in Nat /\ MaxTracked \in Nat \ {0}
  BY SignInAssumption DEF SignInTyped
<1>4. \A p \in DOMAIN attempts :
        /\ attempts[p].refusals \in Nat /\ attempts[p].readyAt \in Nat
        /\ attempts[p].expiresAt = attempts[p].readyAt + ForgetAfter
        /\ attempts[p].readyAt <= clock + BackoffFor(attempts[p].refusals)
  BY DEF SignInTyped, AttemptsTyped
<1>5. refusals \in Nat
  BY <1>4 DEF Remembered
<1>6. BackoffFor(refusals) \in Nat
  BY <1>5, WaitsGrow
<1>7. /\ entry \in [refusals : Nat, readyAt : Nat, expiresAt : Nat]
      /\ entry.expiresAt = entry.readyAt + ForgetAfter
      /\ entry.readyAt = clock + BackoffFor(entry.refusals)
      /\ entry.refusals = refusals
  <2> DEFINE wait == BackoffFor(refusals)
  <2>1. wait \in Nat /\ clock + wait \in Nat /\ clock + wait + ForgetAfter \in Nat
    BY <1>3, <1>6
  <2> HIDE DEF wait, refusals
  <2>2. entry = [refusals |-> refusals, readyAt |-> clock + wait, expiresAt |-> clock + wait + ForgetAfter]
    BY <1>1 DEF wait
  <2> QED
    BY <1>5, <2>1, <2>2 DEF wait
<1> HIDE DEF refusals, readyAt
<1>8. /\ DOMAIN attempts' = DOMAIN table \cup {pair}
      /\ attempts'[pair] = entry
      /\ \A p \in DOMAIN table : p # pair => attempts'[p] = table[p]
  BY <1>2
<1>9. /\ DOMAIN table \subseteq DOMAIN attempts /\ IsFiniteSet(DOMAIN table)
      /\ \A p \in DOMAIN table : table[p] = attempts[p]
      /\ Cardinality(DOMAIN attempts') <= MaxTracked /\ IsFiniteSet(DOMAIN attempts')
      /\ pair \notin DOMAIN attempts =>
           /\ table \in RoomMade /\ Cardinality(DOMAIN attempts') = Cardinality(DOMAIN table) + 1
      /\ pair \in DOMAIN attempts => DOMAIN table = DOMAIN attempts
  <2>1. CASE pair \in DOMAIN attempts
    <3>1. table = attempts
      BY <1>2, <2>1
    <3>2. DOMAIN attempts' = DOMAIN attempts
      BY <1>8, <2>1, <3>1
    <3> QED
      BY <2>1, <3>1, <3>2 DEF SignInTyped, AttemptsTyped
  <2>2. CASE pair \notin DOMAIN attempts
    <3>1. table \in RoomMade
      BY <1>2, <2>2
    <3>2. /\ DOMAIN table \subseteq DOMAIN attempts /\ IsFiniteSet(DOMAIN table)
          /\ Cardinality(DOMAIN table) < MaxTracked
          /\ \A p \in DOMAIN table : table[p] = attempts[p]
      BY <3>1, RoomIsMade
    <3>3. /\ IsFiniteSet(DOMAIN attempts')
          /\ Cardinality(DOMAIN attempts') = Cardinality(DOMAIN table) + 1
      BY <1>8, <2>2, <3>2, FS_AddElement
    <3>4. Cardinality(DOMAIN table) \in Nat
      BY <3>2, FS_CardinalityType
    <3> QED
      BY <1>3, <2>2, <3>1, <3>2, <3>3, <3>4
  <2> QED
    BY <2>1, <2>2
<1>10. AttemptsTyped'
  <2>1. DOMAIN attempts' \subseteq Pairs
    BY <1>8, <1>9 DEF SignInTyped, AttemptsTyped
  <2>2. ASSUME NEW p \in DOMAIN attempts'
        PROVE  /\ attempts'[p] \in [refusals : Nat, readyAt : Nat, expiresAt : Nat]
               /\ attempts'[p].expiresAt = attempts'[p].readyAt + ForgetAfter
               /\ attempts'[p].readyAt <= clock' + BackoffFor(attempts'[p].refusals)
    <3>1. CASE p = pair
      <4>1. entry.readyAt \in Nat
        BY <1>7
      <4> QED
        BY <1>7, <1>8, <3>1, <4>1
    <3>2. CASE p # pair
      <4>1. p \in DOMAIN attempts /\ attempts'[p] = attempts[p]
        BY <1>8, <1>9, <3>2
      <4> QED
        BY <4>1 DEF SignInTyped, AttemptsTyped
    <3> QED
      BY <3>1, <3>2
  <2> QED
    BY <1>9, <2>1, <2>2 DEF AttemptsTyped
<1>11. ASSUME NEW p \in DOMAIN attempts, attempts[p].readyAt > clock
       PROVE  Served(p)
  <2>1. attempts[p].expiresAt > clock
    BY <1>3, <1>4, <1>11
  <2>2. CASE p = pair
    <3>1. Remembered(pair)
      BY <2>1, <2>2 DEF Remembered
    <3>2. refusals = attempts[pair].refusals + 1
      BY <3>1 DEF refusals
    <3>3. entry.readyAt = clock + BackoffFor(attempts[pair].refusals + 1)
      BY <1>7, <3>2
    <3> DEFINE n == attempts[pair].refusals
    <3>4. n \in Nat /\ attempts[pair].readyAt <= clock + BackoffFor(n) /\ attempts[pair].readyAt \in Nat
      BY <1>4, <2>2
    <3>5. entry.readyAt = clock + BackoffFor(n + 1)
      BY <3>3
    <3> HIDE DEF n
    <3>6. BackoffFor(n) \in Nat /\ BackoffFor(n + 1) \in Nat /\ BackoffFor(n) <= BackoffFor(n + 1)
      BY <3>4, WaitsGrow
    <3>7. entry.readyAt >= attempts[pair].readyAt
      BY <1>3, <3>4, <3>5, <3>6
    <3> QED
      BY <1>8, <2>2, <3>7 DEF Served
  <2>3. CASE p # pair /\ p \in DOMAIN table
    <3>1. attempts'[p] = attempts[p] /\ p \in DOMAIN attempts'
      BY <1>8, <1>9, <2>3
    <3> QED
      BY <1>4, <3>1 DEF Served
  <2>4. CASE p # pair /\ p \notin DOMAIN table
    <3>1. pair \notin DOMAIN attempts
      BY <1>9, <2>4
    <3>2. table \in RoomMade /\ Cardinality(DOMAIN attempts') = Cardinality(DOMAIN table) + 1
      BY <1>9, <3>1
    <3>3. /\ Cardinality(DOMAIN table) = MaxTracked - 1
          /\ \A q \in DOMAIN attempts : attempts[p].readyAt <= attempts[q].readyAt
      BY <2>1, <2>4, <3>2, RoomIsMade
    <3>4. Cardinality(DOMAIN attempts') = MaxTracked
      BY <1>3, <3>2, <3>3
    <3>5. \A q \in DOMAIN attempts : attempts[q].readyAt >= attempts[p].readyAt
      BY <1>4, <3>3
    <3> QED
      BY <3>4, <3>5 DEF Served
  <2> QED
    BY <2>2, <2>3, <2>4
<1> QED
  BY <1>10, <1>11

\* The right password of a pair.
ComesRight(pair) ==
  \E k \in Knockers :
    /\ knocking'[k] # knocking[k] /\ knocking'[k] # Nowhere
    /\ knocking'[k].pair = pair /\ knocking'[k].stage = "right"

EveryWaitIsServed ==
  \A pair \in DOMAIN attempts :
    attempts[pair].readyAt > clock' /\ ~ComesRight(pair) => Served(pair)

LEMMA NothingCounted ==
  ASSUME PowersGrow, SignInTyped, UNCHANGED attempts, clock' \in {clock, clock + 1}
  PROVE  AttemptsTyped' /\ EveryWaitIsServed
<1>1. EveryWaitIsServed
  BY DEF SignInTyped, AttemptsTyped, EveryWaitIsServed, Served
<1>2. ASSUME NEW p \in DOMAIN attempts
      PROVE  attempts[p].readyAt <= clock' + BackoffFor(attempts[p].refusals)
  <2> DEFINE n == attempts[p].refusals
  <2>1. n \in Nat /\ attempts[p].readyAt \in Nat /\ attempts[p].readyAt <= clock + BackoffFor(n) /\ clock \in Nat
    BY DEF SignInTyped, AttemptsTyped
  <2> HIDE DEF n
  <2>2. BackoffFor(n) \in Nat
    BY <2>1, WaitsGrow
  <2>3. attempts[p].readyAt <= clock' + BackoffFor(n)
    BY <2>1, <2>2
  <2> QED
    BY <2>3 DEF n
<1>3. AttemptsTyped'
  BY <1>2 DEF SignInTyped, AttemptsTyped
<1> QED
  BY <1>1, <1>3

LEMMA StagesAreSomewhere ==
  ASSUME SignInTyped, NEW k \in Knockers, NEW pair \in Pairs, NEW stage \in Stages,
         knocking' = [knocking EXCEPT ![k] = At(pair, stage)]
  PROVE  /\ knocking' \in [Knockers -> [pair : Pairs, stage : Stages] \cup {Nowhere}]
         /\ knocking'[k] # Nowhere /\ knocking'[k].pair = pair /\ knocking'[k].stage = stage
<1>1. At(pair, stage) \in [pair : Pairs, stage : Stages]
  BY DEF At
<1>2. At(pair, stage) # Nowhere
  BY <1>1, NowhereAssumption DEF Pairs
<1>3. knocking'[k] = At(pair, stage)
  BY DEF SignInTyped
<1>4. knocking' \in [Knockers -> [pair : Pairs, stage : Stages] \cup {Nowhere}]
  BY <1>1 DEF SignInTyped
<1>5. At(pair, stage).pair = pair /\ At(pair, stage).stage = stage
  BY DEF At
<1> QED
  BY <1>2, <1>3, <1>4, <1>5

LEMMA JudgingServes ==
  ASSUME PowersGrow, SignInTyped, NEW k \in Knockers, NEW verdict \in {"wrong", "right"},
         Judged(k, verdict)
  PROVE  SignInTyped' /\ EveryWaitIsServed
<1>1. /\ knocking[k] # Nowhere /\ knocking[k].stage = "checking"
      /\ knocking' = [knocking EXCEPT ![k] = At(knocking[k].pair, verdict)]
      /\ clock' = clock
  BY DEF Judged
<1>2. PICK pair : pair = knocking[k].pair
  OBVIOUS
<1>3. pair \in Pairs /\ clock \in Nat
  BY <1>1, <1>2 DEF SignInTyped
<1>4. /\ knocking' \in [Knockers -> [pair : Pairs, stage : Stages] \cup {Nowhere}]
      /\ knocking'[k] # Nowhere /\ knocking'[k].pair = pair /\ knocking'[k].stage = verdict
  BY <1>1, <1>2, <1>3, StagesAreSomewhere DEF Stages
<1>5. CASE verdict = "wrong"
  <2>1. Counted(pair)
    BY <1>2, <1>5 DEF Judged
  <2>2. AttemptsTyped' /\ \A p \in DOMAIN attempts : attempts[p].readyAt > clock => Served(p)
    BY <1>1, <1>3, <2>1, CountingServes
  <2>3. EveryWaitIsServed
    BY <1>1, <2>2 DEF EveryWaitIsServed
  <2> QED
    BY <1>1, <1>3, <1>4, <2>2, <2>3 DEF SignInTyped
<1>6. CASE verdict = "right"
  <2>1. attempts' = Restrict(attempts, DOMAIN attempts \ {pair})
    BY <1>2, <1>6 DEF Judged
  <2>2. /\ DOMAIN attempts' = DOMAIN attempts \ {pair}
        /\ \A p \in DOMAIN attempts' : attempts'[p] = attempts[p]
    BY <2>1 DEF Restrict
  <2>3. IsFiniteSet(DOMAIN attempts') /\ Cardinality(DOMAIN attempts') <= MaxTracked
    <3>1. IsFiniteSet(DOMAIN attempts) /\ Cardinality(DOMAIN attempts) <= MaxTracked /\ MaxTracked \in Nat
      BY SignInAssumption DEF SignInTyped, AttemptsTyped
    <3>2. DOMAIN attempts' \in SUBSET DOMAIN attempts
      BY <2>2
    <3>3. /\ IsFiniteSet(DOMAIN attempts')
          /\ Cardinality(DOMAIN attempts') <= Cardinality(DOMAIN attempts)
      BY <3>1, <3>2, FS_Subset
    <3> QED
      BY <3>1, <3>3, FS_CardinalityType
  <2>4. AttemptsTyped'
    BY <1>1, <2>2, <2>3 DEF SignInTyped, AttemptsTyped
  <2>5. ComesRight(pair)
    BY <1>1, <1>4, <1>6 DEF ComesRight
  <2>6. EveryWaitIsServed
    <3> SUFFICES ASSUME NEW p \in DOMAIN attempts, p # pair
                 PROVE  Served(p)
      BY <2>5 DEF EveryWaitIsServed
    <3>1. p \in DOMAIN attempts' /\ attempts'[p] = attempts[p] /\ attempts[p].readyAt \in Nat
      BY <2>2 DEF SignInTyped, AttemptsTyped
    <3> QED
      BY <3>1 DEF Served
  <2> QED
    BY <1>1, <1>3, <1>4, <2>4, <2>6 DEF SignInTyped
<1> QED
  BY <1>5, <1>6

LEMMA SignInStep ==
  ASSUME PowersGrow, SignInTyped, [SignInNext]_signInVars
  PROVE  SignInTyped' /\ EveryWaitIsServed
<1>1. CASE UNCHANGED signInVars
  <2>1. UNCHANGED <<attempts, clock, knocking>>
    BY <1>1 DEF signInVars
  <2> QED
    BY <2>1, NothingCounted DEF SignInTyped
<1>2. ASSUME NEW k \in Knockers, NEW username \in Typed, NEW address \in Addresses,
             Knocks(k, username, address)
      PROVE  SignInTyped' /\ EveryWaitIsServed
  <2>1. /\ UNCHANGED <<attempts, clock>>
        /\ knocking' = [knocking EXCEPT ![k] = At(PairOf(username, address), "checking")]
    BY <1>2 DEF Knocks
  <2>2. PairOf(username, address) \in Pairs
    BY DEF PairOf, Typed, Pairs
  <2>3. knocking' \in [Knockers -> [pair : Pairs, stage : Stages] \cup {Nowhere}]
    BY <2>1, <2>2, StagesAreSomewhere DEF Stages
  <2> QED
    BY <2>1, <2>3, NothingCounted DEF SignInTyped
<1>3. ASSUME NEW k \in Knockers, SignInAnswered(k)
      PROVE  SignInTyped' /\ EveryWaitIsServed
  <2>1. UNCHANGED <<attempts, clock>> /\ knocking' = [knocking EXCEPT ![k] = Nowhere]
    BY <1>3 DEF SignInAnswered
  <2>2. knocking' \in [Knockers -> [pair : Pairs, stage : Stages] \cup {Nowhere}]
    BY <2>1 DEF SignInTyped
  <2> QED
    BY <2>1, <2>2, NothingCounted DEF SignInTyped
<1>4. CASE Ticks
  <2>1. clock' = clock + 1 /\ UNCHANGED <<attempts, knocking>>
    BY <1>4 DEF Ticks
  <2>2. clock' \in Nat
    BY <2>1 DEF SignInTyped
  <2> QED
    BY <2>1, <2>2, NothingCounted DEF SignInTyped
<1> QED
  BY <1>1, <1>2, <1>3, <1>4, JudgingServes DEF SignInNext

(* A wait that was imposed is served to its end: refused, succeeded and    *)
(* makeRoom of src/src/identity/signin.ts, around checks of which any      *)
(* number are under way (answerSignIn, src/src/web/studio.ts).  That two   *)
(* to the n grows with n is supposed: no prover here knows the powers.     *)
THEOREM WaitsStay == ASSUME PowersGrow PROVE SignInSpec => WaitsAreServed
<1>1. SignInInit => SignInTyped
  <2> SUFFICES ASSUME SignInInit
               PROVE  SignInTyped
    OBVIOUS
  <2>1. DOMAIN attempts = {}
    BY DEF SignInInit
  <2>2. IsFiniteSet({}) /\ Cardinality({}) = 0
    BY FS_EmptySet
  <2>3. AttemptsTyped
    BY <2>1, <2>2, SignInAssumption DEF AttemptsTyped
  <2> QED
    BY <2>3 DEF SignInInit, SignInTyped
<1>2. SignInTyped /\ [SignInNext]_signInVars => SignInTyped' /\ EveryWaitIsServed
  BY SignInStep
<1>3. EveryWaitIsServed =>
        \A pair \in DOMAIN attempts :
          /\ attempts[pair].readyAt > clock'
          /\ ~\E k \in Knockers : knocking'[k] # knocking[k] /\ knocking'[k] # Nowhere
                                    /\ knocking'[k].pair = pair /\ knocking'[k].stage = "right"
          => \/ pair \in DOMAIN attempts' /\ attempts'[pair].readyAt >= attempts[pair].readyAt
             \/ /\ Cardinality(DOMAIN attempts') = MaxTracked
                /\ \A other \in DOMAIN attempts : attempts[other].readyAt >= attempts[pair].readyAt
  BY DEF EveryWaitIsServed, ComesRight, Served
<1> QED
  BY <1>1, <1>2, <1>3, PTL DEF SignInSpec, WaitsAreServed

-----------------------------------------------------------------------------
(* Servers on file.                                                        *)

CredentialsSpec == CredentialsInit /\ [][CredentialsNext]_credentialVars

ProbeStages == {"probed", "looked", "discovered", "signed in"}
WriteStages == {"read", "opened", "filled"}

\* Whoever has looked found nothing on file, or what it had pinned.
CommandTyped(d) ==
  \/ d = NoCommand
  \/ /\ DOMAIN d = {"stage", "server", "address", "pinned", "found"} /\ d.stage \in ProbeStages
     /\ d.address \in FiledUnder /\ d.pinned \in Authorities
     /\ d.stage # "probed" => d.found \in {Unsaid, d.pinned}
  \/ /\ DOMAIN d = {"stage", "address", "servers", "found", "file"} /\ d.stage \in WriteStages
     /\ d.address \in FiledUnder

CredentialsTyped ==
  /\ DOMAIN files = Inodes
  /\ DOMAIN named = {"main", "pending"}
  /\ named.main \in {0} \cup Inodes /\ named.pending \in {0} \cup Inodes
  /\ DOMAIN doing = Commands /\ \A c \in Commands : CommandTyped(doing[c])
  /\ answering \in [Servers -> Authorities]

\* Servers, each with an authority.
HaveAuthorities(servers) == \A a \in DOMAIN servers : servers[a].authority \in Authorities

\* What a command is to write is what is on file, but for its own address.
OwnChange(d) ==
  /\ HaveAuthorities(d.servers)
  /\ \A a \in FiledUnder \ {d.address} :
       /\ a \in DOMAIN d.servers <=> a \in DOMAIN OnFile
       /\ a \in DOMAIN OnFile => d.servers[a] = OnFile[a]
  /\ d.address \in DOMAIN d.servers => d.found \in {Unsaid, d.servers[d.address].authority}

\* How far it is shows in the file that has the other name.
ShowsInFile(d) ==
  /\ d.stage \in {"opened", "filled"} => d.file = named.pending /\ named.pending # 0
  /\ d.stage = "opened" => files[named.pending] = Opened
  /\ d.stage = "filled" => files[named.pending] = [whole |-> TRUE, servers |-> d.servers]

(* As long as no two were writing at once: one command writes, beside the  *)
(* file, what was on file when it read it and still is.                    *)
OneWrites ==
  ~overlapped =>
    /\ \A c, d \in Commands : MidWrite(c) /\ MidWrite(d) => c = d
    /\ named.main # 0 => files[named.main].whole /\ named.pending # named.main
    /\ HaveAuthorities(OnFile)
    /\ \A c \in Commands : MidWrite(c) => OwnChange(doing[c]) /\ ShowsInFile(doing[c])

\* What a step does to the file, as CredentialsAreKept has it.
StepKeepsFile ==
  ~overlapped' =>
    /\ Readable'
    /\ \A address \in FiledUnder :
         LET before == IF address \in DOMAIN OnFile THEN {OnFile[address]} ELSE {}
             after == IF address \in DOMAIN OnFile' THEN {OnFile'[address]} ELSE {}
         IN before # after =>
              \E c \in Commands :
                /\ Is(c, "filled") /\ ~Is(c, "filled")'
                /\ doing[c].address = address
                /\ \A old \in before, new \in after :
                     old.authority = new.authority \/ doing[c].found # old.authority

FileStays ==
  ~overlapped' =>
    /\ ~overlapped
    /\ named'.main = named.main
    /\ named.main # 0 => files'[named.main] = files[named.main]

LEMMA FileIsKept ==
  ASSUME OneWrites, FileStays
  PROVE  StepKeepsFile /\ (~overlapped' => OnFile' = OnFile)
<1>1. ~overlapped' => OnFile' = OnFile
  BY DEF FileStays, OnFile
<1>2. ~overlapped' => Readable'
  BY DEF FileStays, OneWrites, Readable
<1> QED
  BY <1>1, <1>2 DEF StepKeepsFile

\* A step of one command, that writes as little as before, or begins to where nobody does.
LEMMA OnlyOneMoves ==
  ASSUME CredentialsTyped, OneWrites, FileStays, NEW c \in Commands,
         \A d \in Commands \ {c} : doing'[d] = doing[d],
         ~overlapped' =>
           /\ MidWrite(c)' /\ ~MidWrite(c) => \A d \in Commands \ {c} : ~MidWrite(d)
           /\ named'.main # 0 => named'.pending # named'.main
           /\ MidWrite(c)' => OwnChange(doing[c])' /\ ShowsInFile(doing[c])'
           /\ ~MidWrite(c) => \A d \in Commands \ {c} : MidWrite(d) =>
                /\ named'.pending = named.pending
                /\ named.pending # 0 => files'[named.pending] = files[named.pending]
  PROVE  OneWrites' /\ StepKeepsFile
<1>1. StepKeepsFile /\ (~overlapped' => OnFile' = OnFile)
  BY FileIsKept
<1> SUFFICES ASSUME ~overlapped'
             PROVE  OneWrites'
  BY <1>1 DEF OneWrites
<1>2. ~overlapped
  BY DEF FileStays
<1>3. \A d \in Commands \ {c} : MidWrite(d)' <=> MidWrite(d)
  BY DEF MidWrite
<1>4. \A d, e \in Commands : MidWrite(d)' /\ MidWrite(e)' => d = e
  BY <1>2, <1>3 DEF OneWrites
<1>5. named'.main # 0 => files'[named'.main].whole /\ named'.pending # named'.main
  BY <1>2 DEF FileStays, OneWrites
<1>6. HaveAuthorities(OnFile)'
  BY <1>1, <1>2 DEF OneWrites, HaveAuthorities
<1>7. ASSUME NEW d \in Commands, MidWrite(d)'
      PROVE  OwnChange(doing[d])' /\ ShowsInFile(doing[d])'
  <2>1. CASE d = c
    BY <1>7, <2>1
  <2>2. CASE d # c
    <3>1. MidWrite(d) /\ ~MidWrite(c) /\ doing'[d] = doing[d]
      BY <1>2, <1>3, <1>7, <2>2 DEF OneWrites
    <3>2. OwnChange(doing[d]) /\ ShowsInFile(doing[d])
      BY <1>2, <3>1 DEF OneWrites
    <3>3. OwnChange(doing[d])'
      BY <1>1, <3>1, <3>2 DEF OwnChange, HaveAuthorities
    <3>4. /\ named'.pending = named.pending
          /\ named.pending # 0 => files'[named.pending] = files[named.pending]
      BY <2>2, <3>1
    <3> QED
      BY <3>1, <3>2, <3>3, <3>4 DEF ShowsInFile
  <2> QED
    BY <2>1, <2>2
<1> QED
  BY <1>4, <1>5, <1>6, <1>7 DEF OneWrites

\* What is known of a command that has not read what it is to write.
LEMMA ProbingTyped ==
  ASSUME NEW d, CommandTyped(d), d.stage \in ProbeStages
  PROVE  /\ DOMAIN d = {"stage", "server", "address", "pinned", "found"}
         /\ d.address \in FiledUnder /\ d.pinned \in Authorities
         /\ d.stage # "probed" => d.found \in {Unsaid, d.pinned}
<1>1. CASE d = NoCommand
  <2>1. d.stage = "none"
    BY <1>1 DEF NoCommand
  <2> QED
    BY <2>1 DEF ProbeStages
<1>2. CASE d.stage \in WriteStages
  BY <1>2 DEF ProbeStages, WriteStages
<1> QED
  BY <1>1, <1>2 DEF CommandTyped

\* Looking, asking and being asked change nothing on file.
LEMMA MovesAlone ==
  ASSUME NEW c \in Commands, CredentialsTyped, OneWrites,
         \/ \E text \in Texts, expected \in Authorities \cup {Unsaid} : Probes(c, text, expected)
         \/ Looks(c) \/ AsksVerified(c)
  PROVE  CredentialsTyped' /\ OneWrites' /\ StepKeepsFile
<1>1. PICK d : doing' = [doing EXCEPT ![c] = d] /\ CommandTyped(d) /\ d.stage \in ProbeStages
  <2>1. ASSUME NEW text \in Texts, NEW expected, Probes(c, text, expected)
        PROVE  \E d : doing' = [doing EXCEPT ![c] = d] /\ CommandTyped(d) /\ d.stage \in ProbeStages
    <3> DEFINE d == [stage |-> "probed", server |-> text.server, address |-> AddressOf(text),
                     pinned |-> answering[text.server], found |-> Unsaid]
    <3>1. doing' = [doing EXCEPT ![c] = d]
      BY <2>1 DEF Probes
    <3>2. text.server \in Servers /\ AddressOf(text) \in FiledUnder
      BY DEF Servers, FiledUnder
    <3>3. CommandTyped(d)
      BY <3>2 DEF CommandTyped, ProbeStages, CredentialsTyped
    <3>4. d.stage \in ProbeStages
      BY DEF ProbeStages
    <3> HIDE DEF d
    <3> QED
      BY <3>1, <3>3, <3>4
  <2>2. CASE Looks(c)
    <3> DEFINE d == [doing[c] EXCEPT !.stage = "looked", !.found = AuthorityOnFile(doing[c].address)]
    <3>1. doing' = [doing EXCEPT ![c] = d]
      BY <2>2 DEF Looks
    <3>2. doing[c].stage = "probed" /\ CommandTyped(doing[c])
      BY <2>2 DEF Looks, Is, CredentialsTyped
    <3>3. AuthorityOnFile(doing[c].address) \in {Unsaid, doing[c].pinned}
      BY <2>2 DEF Looks, MayPin
    <3> HIDE DEF AuthorityOnFile
    <3>4. CommandTyped(d) /\ d.stage \in ProbeStages
      BY <3>2, <3>3 DEF CommandTyped, ProbeStages, WriteStages, NoCommand
    <3> QED
      BY <3>1, <3>4
  <2>3. CASE AsksVerified(c)
    <3> DEFINE to == IF doing[c].stage = "looked" THEN "discovered" ELSE "signed in"
               d == [doing[c] EXCEPT !.stage = to]
    <3>1. doing' = [doing EXCEPT ![c] = d]
      BY <2>3 DEF AsksVerified
    <3>2. doing[c].stage \in {"looked", "discovered"} /\ CommandTyped(doing[c])
      BY <2>3 DEF AsksVerified, CredentialsTyped
    <3>3. PICK e : e = doing[c] /\ CommandTyped(e) /\ e.stage \in {"looked", "discovered"}
      BY <3>2
    <3>4. /\ DOMAIN e = {"stage", "server", "address", "pinned", "found"}
          /\ e.address \in FiledUnder /\ e.pinned \in Authorities /\ e.found \in {Unsaid, e.pinned}
      BY <3>3, ProbingTyped DEF ProbeStages
    <3>5. to \in {"discovered", "signed in"} /\ d = [e EXCEPT !.stage = to]
      BY <3>3
    <3> HIDE DEF to, d
    <3>6. CommandTyped(d) /\ d.stage \in ProbeStages
      BY <3>4, <3>5 DEF CommandTyped, ProbeStages
    <3> QED
      BY <3>1, <3>6
  <2> QED
    BY <2>1, <2>2, <2>3
<1>2. /\ UNCHANGED <<files, named, answering, reissues, overlapped>>
      /\ doing[c].stage \in {"none"} \cup ProbeStages
  BY DEF Probes, Looks, AsksVerified, OnlyTheCommand, Is, ProbeStages
<1>3. CredentialsTyped'
  BY <1>1, <1>2 DEF CredentialsTyped
<1>4. ~MidWrite(c)' /\ \A e \in Commands \ {c} : doing'[e] = doing[e]
  BY <1>1 DEF MidWrite, CredentialsTyped, ProbeStages
<1>5. FileStays
  BY <1>2 DEF FileStays
<1>6. ~overlapped /\ named'.main # 0 => named'.pending # named'.main
  BY <1>2 DEF OneWrites
<1> QED
  BY <1>2, <1>3, <1>4, <1>5, <1>6, OnlyOneMoves

\* Whoever begins to write has what is on file, with its own change.
LEMMA WritesToCome ==
  ASSUME NEW c \in Commands, CredentialsTyped, OneWrites,
         NEW address \in FiledUnder, NEW servers, NEW found, ToWrite(c, address, servers, found),
         doing[c].stage \in {"none", "signed in"},
         ~overlapped =>
           /\ HaveAuthorities(servers)
           /\ \A a \in FiledUnder \ {address} :
                /\ a \in DOMAIN servers <=> a \in DOMAIN OnFile
                /\ a \in DOMAIN OnFile => servers[a] = OnFile[a]
           /\ address \in DOMAIN servers => found \in {Unsaid, servers[address].authority}
  PROVE  CredentialsTyped' /\ OneWrites' /\ StepKeepsFile
<1> DEFINE d == [stage |-> "read", address |-> address, servers |-> servers, found |-> found,
                 file |-> 0]
<1>1. /\ doing' = [doing EXCEPT ![c] = d] /\ overlapped' = WouldOverlap(c)
      /\ UNCHANGED <<files, named, answering, reissues>>
  BY DEF ToWrite
<1>2. CommandTyped(d)
  BY DEF CommandTyped, WriteStages
<1>3. CredentialsTyped'
  BY <1>1, <1>2 DEF CredentialsTyped
<1>4. doing'[c] = d /\ \A e \in Commands \ {c} : doing'[e] = doing[e]
  BY <1>1 DEF CredentialsTyped
<1>5. ~overlapped' => ~overlapped /\ \A e \in Commands \ {c} : ~MidWrite(e)
  BY <1>1 DEF WouldOverlap
<1>6. FileStays
  BY <1>1, <1>5 DEF FileStays
<1>7. OnFile' = OnFile
  BY <1>1 DEF OnFile
<1>8. ~overlapped' => OwnChange(d)' /\ ShowsInFile(d)'
  BY <1>5, <1>7 DEF OwnChange, ShowsInFile, HaveAuthorities
<1>9. ~overlapped' /\ named'.main # 0 => named'.pending # named'.main
  BY <1>1, <1>5 DEF OneWrites
<1>10. ~MidWrite(c)
  BY DEF MidWrite
<1>11. OwnChange(doing[c])' <=> OwnChange(d)'
  BY <1>4 DEF OwnChange
<1>12. ShowsInFile(doing[c])' <=> ShowsInFile(d)'
  BY <1>4 DEF ShowsInFile
<1> HIDE DEF d
<1> QED
  BY <1>3, <1>4, <1>5, <1>6, <1>8, <1>9, <1>10, <1>11, <1>12, OnlyOneMoves

LEMMA RemembersOne ==
  ASSUME NEW c \in Commands, CredentialsTyped, OneWrites, Remembers(c)
  PROVE  CredentialsTyped' /\ OneWrites' /\ StepKeepsFile
<1> DEFINE address == doing[c].address
           entry == [authority |-> doing[c].pinned, token |-> c]
           servers == [a \in DOMAIN OnFile \cup {address} |-> IF a = address THEN entry ELSE OnFile[a]]
<1>1. doing[c].stage = "signed in" /\ CommandTyped(doing[c])
  BY DEF Remembers, Is, CredentialsTyped
<1>2. /\ address \in FiledUnder /\ doing[c].pinned \in Authorities
      /\ doing[c].found \in {Unsaid, doing[c].pinned}
  BY <1>1, ProbingTyped DEF ProbeStages
<1>3. ToWrite(c, address, servers, doing[c].found)
  BY DEF Remembers
<1>4. /\ DOMAIN servers = DOMAIN OnFile \cup {address} /\ servers[address] = entry
      /\ \A a \in DOMAIN OnFile : a # address => servers[a] = OnFile[a]
  OBVIOUS
<1>5. ~overlapped => HaveAuthorities(OnFile)
  BY DEF OneWrites
<1> HIDE DEF servers
<1>6. ~overlapped => HaveAuthorities(servers)
  BY <1>2, <1>4, <1>5 DEF HaveAuthorities
<1>7. \A a \in FiledUnder \ {address} :
        /\ a \in DOMAIN servers <=> a \in DOMAIN OnFile
        /\ a \in DOMAIN OnFile => servers[a] = OnFile[a]
  BY <1>4
<1>8. doing[c].found \in {Unsaid, servers[address].authority}
  BY <1>2, <1>4
<1> HIDE DEF address
<1> QED
  BY <1>1, <1>2, <1>3, <1>6, <1>7, <1>8, WritesToCome

LEMMA ForgetsOne ==
  ASSUME NEW c \in Commands, NEW text \in Texts, CredentialsTyped, OneWrites, Forgets(c, text)
  PROVE  CredentialsTyped' /\ OneWrites' /\ StepKeepsFile
<1> DEFINE address == AddressOf(text)
           servers == Restrict(OnFile, DOMAIN OnFile \ {address})
<1>1. doing[c].stage = "none" /\ ToWrite(c, address, servers, AuthorityOnFile(address))
  BY DEF Forgets, Is
<1>2. address \in FiledUnder
  BY DEF FiledUnder
<1>3. /\ DOMAIN servers = DOMAIN OnFile \ {address}
      /\ \A a \in DOMAIN servers : servers[a] = OnFile[a]
  BY DEF Restrict
<1>4. ~overlapped => HaveAuthorities(OnFile)
  BY DEF OneWrites
<1> HIDE DEF servers, address
<1>5. ~overlapped => HaveAuthorities(servers)
  BY <1>3, <1>4 DEF HaveAuthorities
<1> QED
  BY <1>1, <1>2, <1>3, <1>5, WritesToCome

\* What a command that writes has.
LEMMA WriterHas ==
  ASSUME NEW d, CommandTyped(d), d.stage \in WriteStages
  PROVE  DOMAIN d = {"stage", "address", "servers", "found", "file"} /\ d.address \in FiledUnder
<1>1. CASE d = NoCommand
  <2>1. d.stage = "none"
    BY <1>1 DEF NoCommand
  <2> QED
    BY <2>1 DEF WriteStages
<1> QED
  BY <1>1 DEF CommandTyped, ProbeStages, WriteStages

LEMMA OpensOne ==
  ASSUME NEW c \in Commands, CredentialsTyped, OneWrites, Opens(c)
  PROVE  CredentialsTyped' /\ OneWrites' /\ StepKeepsFile
<1>1. PICK i \in Inodes :
        /\ IF named.pending # 0 THEN i = named.pending ELSE i # named.main
        /\ files' = [files EXCEPT ![i] = Opened]
        /\ named' = [named EXCEPT !.pending = i]
        /\ doing' = [doing EXCEPT ![c].stage = "opened", ![c].file = i]
  BY DEF Opens, PendingName
<1>2. PICK d : d = doing[c] /\ CommandTyped(d) /\ d.stage = "read"
  BY DEF Opens, Is, CredentialsTyped
<1>3. PICK e : /\ e = [d EXCEPT !.stage = "opened", !.file = i]
               /\ CommandTyped(e) /\ e.stage = "opened" /\ e.file = i
               /\ e.address = d.address /\ e.servers = d.servers /\ e.found = d.found
  <2>1. PICK e : e = [d EXCEPT !.stage = "opened", !.file = i]
    OBVIOUS
  <2>2. DOMAIN d = {"stage", "address", "servers", "found", "file"}
    BY <1>2, WriterHas DEF WriteStages
  <2>3. /\ DOMAIN e = DOMAIN d /\ e.stage = "opened" /\ e.file = i
        /\ e.address = d.address /\ e.servers = d.servers /\ e.found = d.found
    BY <2>1, <2>2
  <2>4. CommandTyped(e)
    BY <2>2, <2>3, <1>2, WriterHas DEF CommandTyped, WriteStages
  <2> QED
    BY <2>1, <2>3, <2>4
<1>4. i # 0
  BY DEF Inodes
<1>5. UNCHANGED <<answering, reissues, overlapped>>
  BY DEF Opens
<1>6. doing' = [doing EXCEPT ![c] = e]
  BY <1>1, <1>2, <1>3 DEF CredentialsTyped
<1>7. doing'[c] = e /\ \A f \in Commands \ {c} : doing'[f] = doing[f]
  BY <1>6 DEF CredentialsTyped
<1>8. named'.main = named.main /\ named'.pending = i /\ DOMAIN named' = {"main", "pending"}
  BY <1>1 DEF CredentialsTyped
<1>9. CredentialsTyped'
  BY <1>1, <1>3, <1>5, <1>6, <1>8 DEF CredentialsTyped
<1>10. ~overlapped /\ named.main # 0 => i # named.main
  BY <1>1 DEF OneWrites
<1>11. FileStays
  BY <1>1, <1>5, <1>8, <1>10 DEF FileStays, CredentialsTyped
<1>12. MidWrite(c)
  BY <1>2 DEF MidWrite
<1>13. ~overlapped => OwnChange(d)
  BY <1>2, <1>12 DEF OneWrites
<1>14. ~overlapped' => OnFile' = OnFile
  BY <1>11, FileIsKept
<1>15. ~overlapped' => OwnChange(e)'
  BY <1>3, <1>5, <1>13, <1>14 DEF OwnChange, HaveAuthorities
<1>16. ShowsInFile(e)'
  BY <1>1, <1>3, <1>4, <1>8 DEF ShowsInFile, CredentialsTyped
<1>17. OwnChange(doing[c])' <=> OwnChange(e)'
  BY <1>7 DEF OwnChange
<1>18. ShowsInFile(doing[c])' <=> ShowsInFile(e)'
  BY <1>7 DEF ShowsInFile
<1> QED
  BY <1>5, <1>7, <1>8, <1>9, <1>10, <1>11, <1>12, <1>15, <1>16, <1>17, <1>18, OnlyOneMoves

LEMMA FillsOne ==
  ASSUME NEW c \in Commands, CredentialsTyped, OneWrites, Fills(c)
  PROVE  CredentialsTyped' /\ OneWrites' /\ StepKeepsFile
<1>1. PICK d : d = doing[c] /\ CommandTyped(d) /\ d.stage = "opened"
  BY DEF Fills, Is, CredentialsTyped
<1> DEFINE own == [whole |-> TRUE, servers |-> d.servers]
<1>2. PICK content \in IF files[d.file] = Opened THEN {own} ELSE {own, Opened} :
        files' = [files EXCEPT ![d.file] = content]
  BY <1>1 DEF Fills
<1>3. PICK e : /\ e = [d EXCEPT !.stage = "filled"]
               /\ CommandTyped(e) /\ e.stage = "filled" /\ e.file = d.file
               /\ e.address = d.address /\ e.servers = d.servers /\ e.found = d.found
  <2>1. PICK e : e = [d EXCEPT !.stage = "filled"]
    OBVIOUS
  <2>2. DOMAIN d = {"stage", "address", "servers", "found", "file"}
    BY <1>1, WriterHas DEF WriteStages
  <2>3. /\ DOMAIN e = DOMAIN d /\ e.stage = "filled" /\ e.file = d.file
        /\ e.address = d.address /\ e.servers = d.servers /\ e.found = d.found
    BY <2>1, <2>2
  <2>4. CommandTyped(e)
    BY <2>2, <2>3, <1>1, WriterHas DEF CommandTyped, WriteStages
  <2> QED
    BY <2>1, <2>3, <2>4
<1>4. UNCHANGED <<named, answering, reissues, overlapped>> /\ doing' = [doing EXCEPT ![c] = e]
  BY <1>1, <1>3 DEF Fills
<1>5. doing'[c] = e /\ \A f \in Commands \ {c} : doing'[f] = doing[f]
  BY <1>4 DEF CredentialsTyped
<1>6. CredentialsTyped'
  BY <1>2, <1>3, <1>4 DEF CredentialsTyped
<1>7. MidWrite(c)
  BY <1>1 DEF MidWrite
<1>8. ~overlapped => OwnChange(d) /\ ShowsInFile(d)
  BY <1>1, <1>7 DEF OneWrites
<1>9. ~overlapped => /\ d.file = named.pending /\ named.pending \in Inodes
                     /\ files'[named.pending] = own
                     /\ \A i \in Inodes : i # named.pending => files'[i] = files[i]
  BY <1>1, <1>2, <1>8 DEF ShowsInFile, CredentialsTyped
<1>10. FileStays
  BY <1>4, <1>9 DEF FileStays, CredentialsTyped, OneWrites
<1>11. ~overlapped' => OnFile' = OnFile
  BY <1>10, FileIsKept
<1>12. ~overlapped' => OwnChange(e)'
  BY <1>3, <1>4, <1>8, <1>11 DEF OwnChange, HaveAuthorities
<1>13. ~overlapped' => ShowsInFile(e)'
  BY <1>1, <1>3, <1>4, <1>8, <1>9 DEF ShowsInFile
<1>14. OwnChange(doing[c])' <=> OwnChange(e)'
  BY <1>5 DEF OwnChange
<1>15. ShowsInFile(doing[c])' <=> ShowsInFile(e)'
  BY <1>5 DEF ShowsInFile
<1>16. ~overlapped' /\ named'.main # 0 => named'.pending # named'.main
  BY <1>4 DEF OneWrites
<1> QED
  BY <1>4, <1>5, <1>6, <1>7, <1>10, <1>12, <1>13, <1>14, <1>15, <1>16, OnlyOneMoves

\* A file that has a name stays.
LEMMA NamedFilesStay ==
  ASSUME NEW names, NEW commands, NEW i \in Inodes, i \in {names.main, names.pending}
  PROVE  GoneWithout(names, commands)[i] = files[i]
BY DEF GoneWithout

LEMMA GivesUpOne ==
  ASSUME NEW c \in Commands, CredentialsTyped, OneWrites, GivesUp(c)
  PROVE  CredentialsTyped' /\ OneWrites' /\ StepKeepsFile
<1>1. /\ doing' = [doing EXCEPT ![c] = NoCommand] /\ files' = GoneWithout(named, doing')
      /\ UNCHANGED <<named, answering, reissues, overlapped>>
  BY DEF GivesUp
<1>2. doing'[c] = NoCommand /\ \A f \in Commands \ {c} : doing'[f] = doing[f]
  BY <1>1 DEF CredentialsTyped
<1>3. DOMAIN files' = Inodes
  BY <1>1 DEF GoneWithout
<1>4. CredentialsTyped'
  BY <1>1, <1>2, <1>3 DEF CredentialsTyped, CommandTyped
<1>5. /\ named.main # 0 => files'[named.main] = files[named.main]
      /\ named.pending # 0 => files'[named.pending] = files[named.pending]
  BY <1>1, NamedFilesStay DEF CredentialsTyped
<1>6. FileStays
  BY <1>1, <1>5 DEF FileStays
<1>7. ~MidWrite(c)'
  BY <1>2 DEF MidWrite, NoCommand
<1>8. ~overlapped' /\ named'.main # 0 => named'.pending # named'.main
  BY <1>1 DEF OneWrites
<1> QED
  BY <1>1, <1>2, <1>4, <1>5, <1>6, <1>7, <1>8, OnlyOneMoves

\* The one step that changes what is on file.
LEMMA RenamesOne ==
  ASSUME NEW c \in Commands, CredentialsTyped, OneWrites, Renames(c)
  PROVE  CredentialsTyped' /\ OneWrites' /\ StepKeepsFile
<1>1. /\ named' = [main |-> named.pending, pending |-> 0] /\ named.pending # 0
      /\ doing' = [doing EXCEPT ![c] = NoCommand] /\ files' = GoneWithout(named', doing')
      /\ UNCHANGED <<answering, reissues, overlapped>>
  BY DEF Renames, PendingName
<1>2. doing'[c] = NoCommand /\ \A f \in Commands \ {c} : doing'[f] = doing[f]
  BY <1>1 DEF CredentialsTyped
<1>3. DOMAIN files' = Inodes
  BY <1>1 DEF GoneWithout
<1>4. CredentialsTyped'
  BY <1>1, <1>2, <1>3 DEF CredentialsTyped, CommandTyped
<1>5. named'.main = named.pending /\ named'.pending = 0 /\ named.pending \in Inodes
  BY <1>1 DEF CredentialsTyped
<1>6. files'[named.pending] = files[named.pending]
  BY <1>1, <1>5, NamedFilesStay
<1>7. PICK d : d = doing[c] /\ CommandTyped(d) /\ d.stage = "filled"
  BY DEF Renames, Is, CredentialsTyped
<1>8. d.address \in FiledUnder /\ MidWrite(c)
  <2>1. CASE d = NoCommand
    <3>1. d.stage = "none"
      BY <2>1 DEF NoCommand
    <3> QED
      BY <1>7, <3>1
  <2> QED
    BY <1>7, <2>1 DEF CommandTyped, MidWrite
<1> SUFFICES ASSUME ~overlapped
             PROVE  OneWrites' /\ StepKeepsFile
  BY <1>1, <1>4 DEF OneWrites, StepKeepsFile
<1>9. OwnChange(d) /\ ShowsInFile(d) /\ HaveAuthorities(OnFile)
  BY <1>7, <1>8 DEF OneWrites
<1>10. files[named.pending] = [whole |-> TRUE, servers |-> d.servers]
  BY <1>7, <1>9 DEF ShowsInFile
<1>11. OnFile' = d.servers /\ Readable'
  BY <1>1, <1>5, <1>6, <1>10 DEF OnFile, Readable
<1>12. OneWrites'
  <2>1. \A e \in Commands : ~MidWrite(e)'
    BY <1>2, <1>8 DEF OneWrites, MidWrite, NoCommand
  <2>2. files'[named'.main].whole /\ named'.pending # named'.main
    BY <1>1, <1>5, <1>6, <1>10
  <2>3. HaveAuthorities(OnFile)'
    BY <1>9, <1>11 DEF OwnChange, HaveAuthorities
  <2> QED
    BY <2>1, <2>2, <2>3 DEF OneWrites
<1>13. StepKeepsFile
  <2> SUFFICES ASSUME NEW a \in FiledUnder,
                      (IF a \in DOMAIN OnFile THEN {OnFile[a]} ELSE {})
                        # (IF a \in DOMAIN OnFile' THEN {OnFile'[a]} ELSE {})
               PROVE  /\ d.address = a
                      /\ a \in DOMAIN OnFile /\ a \in DOMAIN d.servers =>
                           \/ OnFile[a].authority = d.servers[a].authority
                           \/ d.found # OnFile[a].authority
    <3>1. Is(c, "filled") /\ ~Is(c, "filled")'
      BY <1>2, <1>7 DEF Is, NoCommand
    <3> QED
      BY <1>7, <1>11, <3>1 DEF StepKeepsFile
  <2>1. d.address = a
    BY <1>9, <1>11 DEF OwnChange
  <2>2. ASSUME a \in DOMAIN OnFile, a \in DOMAIN d.servers, d.found = OnFile[a].authority
        PROVE  OnFile[a].authority = d.servers[a].authority
    <3>1. OnFile[a].authority \in Authorities
      BY <1>9, <2>2 DEF HaveAuthorities
    <3>2. d.found # Unsaid
      BY <2>2, <3>1, CredentialsAssumption
    <3> QED
      BY <1>9, <2>1, <2>2, <3>2 DEF OwnChange
  <2> QED
    BY <2>1, <2>2
<1> QED
  BY <1>12, <1>13

LEMMA CredentialsStart ==
  ASSUME CredentialsInit
  PROVE  CredentialsTyped /\ OneWrites
<1>1. /\ named = [main |-> 0, pending |-> 0] /\ DOMAIN files = Inodes
      /\ doing = [c \in Commands |-> NoCommand]
      /\ answering \in [Servers -> Authorities]
  BY DEF CredentialsInit
<1>2. CredentialsTyped
  BY <1>1 DEF CredentialsTyped, CommandTyped
<1>3. OnFile = <<>>
  BY <1>1 DEF OnFile
<1>4. HaveAuthorities(OnFile)
  BY <1>3 DEF HaveAuthorities
<1>5. \A c \in Commands : ~MidWrite(c)
  BY <1>1 DEF MidWrite, NoCommand
<1> QED
  BY <1>1, <1>2, <1>4, <1>5 DEF OneWrites

LEMMA CredentialsStep ==
  ASSUME CredentialsTyped, OneWrites, CredentialsNext
  PROVE  CredentialsTyped' /\ OneWrites' /\ StepKeepsFile
<1>1. ASSUME NEW c \in Commands, NEW text \in Texts, NEW expected \in Authorities \cup {Unsaid},
             Probes(c, text, expected)
      PROVE  CredentialsTyped' /\ OneWrites' /\ StepKeepsFile
  BY <1>1, MovesAlone
<1>2. ASSUME NEW c \in Commands, NEW text \in Texts, Forgets(c, text)
      PROVE  CredentialsTyped' /\ OneWrites' /\ StepKeepsFile
  BY <1>2, ForgetsOne
<1>3. ASSUME NEW c \in Commands, \/ Looks(c) \/ AsksVerified(c) \/ Remembers(c) \/ Opens(c)
                                 \/ Fills(c) \/ Renames(c) \/ GivesUp(c)
      PROVE  CredentialsTyped' /\ OneWrites' /\ StepKeepsFile
  BY <1>3, MovesAlone, RemembersOne, OpensOne, FillsOne, RenamesOne, GivesUpOne
<1>4. ASSUME NEW server \in Servers, Reissued(server)
      PROVE  CredentialsTyped' /\ OneWrites' /\ StepKeepsFile
  <2>1. UNCHANGED <<files, named, doing, overlapped>> /\ answering' \in [Servers -> Authorities]
    BY <1>4 DEF Reissued, CredentialsTyped
  <2>2. CredentialsTyped'
    BY <2>1 DEF CredentialsTyped
  <2>3. OneWrites'
    BY <2>1 DEF OneWrites, MidWrite, OwnChange, ShowsInFile, OnFile, HaveAuthorities
  <2>4. FileStays
    BY <2>1 DEF FileStays
  <2> QED
    BY <2>2, <2>3, <2>4, FileIsKept
<1> QED
  BY <1>1, <1>2, <1>3, <1>4 DEF CredentialsNext

(* Whoever dies, whatever is presented and however sign-ins overlap, the   *)
(* servers on file stay whole and each with the authority that was         *)
(* trusted, as long as no two commands are writing at once:                *)
(* writeCredentials (src/src/client/config.ts) fills a file beside the one *)
(* there is and renames it, and login (src/src/login.ts) has looked for    *)
(* another authority before it signs in.                                   *)
THEOREM AuthoritiesStayTrusted == CredentialsSpec => CredentialsAreKept
<1>1. CredentialsInit => CredentialsTyped /\ OneWrites
  BY CredentialsStart
<1>2. ASSUME CredentialsTyped, OneWrites, [CredentialsNext]_credentialVars
      PROVE  /\ CredentialsTyped' /\ OneWrites'
             /\ [StepKeepsFile]_credentialVars
  <2>1. CASE UNCHANGED credentialVars
    <3>1. UNCHANGED <<files, named, doing, answering, reissues, overlapped>>
      BY <2>1 DEF credentialVars
    <3>2. CredentialsTyped'
      BY <1>2, <3>1 DEF CredentialsTyped
    <3>3. OneWrites'
      BY <1>2, <3>1 DEF OneWrites, MidWrite, OwnChange, ShowsInFile, OnFile, HaveAuthorities
    <3> QED
      BY <2>1, <3>2, <3>3
  <2> QED
    BY <1>2, <2>1, CredentialsStep
<1>3. [][StepKeepsFile]_credentialVars => CredentialsAreKept
  BY PTL DEF CredentialsAreKept, StepKeepsFile
<1> QED
  BY <1>1, <1>2, <1>3, PTL DEF CredentialsSpec

-----------------------------------------------------------------------------
(* One call between servers.                                               *)

CallsSpec == CallsInit /\ [][CallsNext \/ \E body \in Bodies : ForeignAnswer(body)]_callVars

\* What all has after its first n.
IsPart(s, all, n) ==
  /\ s \in Seq(Nat) /\ n \in Nat /\ n + Len(s) <= Len(all)
  /\ \A i \in 1..Len(s) : s[i] = all[n + i]

\* What is behind the first k of a sequence, and the first k.
LEMMA Behind ==
  ASSUME NEW S, NEW s \in Seq(S), NEW k \in 0..Len(s)
  PROVE  /\ SubSeq(s, k + 1, Len(s)) \in Seq(S) /\ Len(SubSeq(s, k + 1, Len(s))) = Len(s) - k
         /\ \A i \in 1..Len(s) - k : SubSeq(s, k + 1, Len(s))[i] = s[k + i]
<1>1. Len(s) \in Nat /\ k \in Nat /\ \A i \in (k + 1)..Len(s) : s[i] \in S
  OBVIOUS
<1>2. k + 1 \in Int /\ Len(s) \in Int
  BY <1>1
<1>3. /\ SubSeq(s, k + 1, Len(s)) \in Seq(S)
      /\ Len(SubSeq(s, k + 1, Len(s))) = IF k + 1 <= Len(s) THEN Len(s) - (k + 1) + 1 ELSE 0
      /\ \A i \in 1..Len(s) - (k + 1) + 1 : SubSeq(s, k + 1, Len(s))[i] = s[k + 1 + i - 1]
  BY <1>1, <1>2, SubSeqProperties
<1>4. /\ (IF k + 1 <= Len(s) THEN Len(s) - (k + 1) + 1 ELSE 0) = Len(s) - k
      /\ Len(s) - (k + 1) + 1 = Len(s) - k
      /\ \A i \in 1..Len(s) - k : k + 1 + i - 1 = k + i
  BY <1>1
<1> QED
  BY <1>3, <1>4

LEMMA FrontPart ==
  ASSUME NEW S, NEW s \in Seq(S), NEW k \in 0..Len(s)
  PROVE  /\ SubSeq(s, 1, k) \in Seq(S) /\ Len(SubSeq(s, 1, k)) = k
         /\ \A i \in 1..k : SubSeq(s, 1, k)[i] = s[i]
<1>1. 1 \in Int /\ k \in Int /\ \A i \in 1..k : s[i] \in S
  OBVIOUS
<1>2. /\ SubSeq(s, 1, k) \in Seq(S)
      /\ Len(SubSeq(s, 1, k)) = IF 1 <= k THEN k - 1 + 1 ELSE 0
      /\ \A i \in 1..k - 1 + 1 : SubSeq(s, 1, k)[i] = s[1 + i - 1]
  BY <1>1, SubSeqProperties
<1>3. (IF 1 <= k THEN k - 1 + 1 ELSE 0) = k /\ k - 1 + 1 = k /\ \A i \in 1..k : 1 + i - 1 = i
  OBVIOUS
<1> QED
  BY <1>2, <1>3

LEMMA PartsJoin ==
  ASSUME NEW all \in Seq(Nat), NEW n \in Nat, NEW s, NEW t, IsPart(s, all, n),
         IsPart(t, all, n + Len(s))
  PROVE  IsPart(s \o t, all, n) /\ Len(s \o t) = Len(s) + Len(t)
<1>1. s \in Seq(Nat) /\ t \in Seq(Nat) /\ Len(s) \in Nat /\ Len(t) \in Nat
  BY DEF IsPart
<1>2. /\ s \o t \in Seq(Nat) /\ Len(s \o t) = Len(s) + Len(t)
      /\ \A i \in 1..Len(s) + Len(t) :
           (s \o t)[i] = IF i <= Len(s) THEN s[i] ELSE t[i - Len(s)]
  BY <1>1, ConcatProperties
<1>3. n + (Len(s) + Len(t)) <= Len(all)
  BY <1>1 DEF IsPart
<1>4. ASSUME NEW i \in 1..Len(s) + Len(t)
      PROVE  (s \o t)[i] = all[n + i]
  <2>1. CASE i <= Len(s)
    BY <1>1, <1>2, <2>1 DEF IsPart
  <2>2. CASE ~(i <= Len(s))
    <3>1. i - Len(s) \in 1..Len(t) /\ (n + Len(s)) + (i - Len(s)) = n + i
      BY <1>1, <2>2
    <3>2. t[i - Len(s)] = all[(n + Len(s)) + (i - Len(s))]
      BY <3>1 DEF IsPart
    <3> QED
      BY <1>2, <2>2, <3>1, <3>2
  <2> QED
    BY <2>1, <2>2
<1> QED
  BY <1>2, <1>3, <1>4 DEF IsPart

LEMMA PartsPart ==
  ASSUME NEW all \in Seq(Nat), NEW n \in Nat, NEW s, IsPart(s, all, n), NEW k \in 0..Len(s)
  PROVE  /\ IsPart(SubSeq(s, 1, k), all, n) /\ Len(SubSeq(s, 1, k)) = k
         /\ IsPart(SubSeq(s, k + 1, Len(s)), all, n + k)
         /\ Len(SubSeq(s, k + 1, Len(s))) = Len(s) - k
<1>1. s \in Seq(Nat) /\ Len(s) \in Nat /\ k \in Nat /\ k <= Len(s) /\ \A i \in 1..Len(s) : s[i] \in Nat
  BY DEF IsPart
<1>2. /\ SubSeq(s, 1, k) \in Seq(Nat) /\ Len(SubSeq(s, 1, k)) = k
      /\ \A i \in 1..k : SubSeq(s, 1, k)[i] = s[i]
  BY <1>1, FrontPart
<1>3. /\ SubSeq(s, k + 1, Len(s)) \in Seq(Nat) /\ Len(SubSeq(s, k + 1, Len(s))) = Len(s) - k
      /\ \A i \in 1..Len(s) - k : SubSeq(s, k + 1, Len(s))[i] = s[k + i]
  BY <1>1, Behind
<1>4. n + k <= Len(all) /\ (n + k) + (Len(s) - k) <= Len(all)
  BY <1>1 DEF IsPart
<1>5. \A i \in 1..Len(s) - k : s[k + i] = all[(n + k) + i]
  BY <1>1 DEF IsPart
<1>6. PICK p : p = SubSeq(s, 1, k)
  OBVIOUS
<1>7. IsPart(p, all, n)
  <2>1. n + k <= Len(all) /\ \A i \in 1..k : s[i] = all[n + i]
    BY <1>1, <1>4 DEF IsPart
  <2>2. p \in Seq(Nat) /\ Len(p) = k /\ \A i \in 1..k : p[i] = s[i]
    BY <1>2, <1>6
  <2> QED
    BY <2>1, <2>2 DEF IsPart
<1>8. PICK q : q = SubSeq(s, k + 1, Len(s))
  OBVIOUS
<1>9. IsPart(q, all, n + k)
  <2>1. q \in Seq(Nat) /\ Len(q) = Len(s) - k /\ \A i \in 1..Len(s) - k : q[i] = s[k + i]
    BY <1>3, <1>8
  <2>2. n + k \in Nat
    BY <1>1
  <2> QED
    BY <1>4, <1>5, <2>1, <2>2 DEF IsPart
<1> QED
  BY <1>2, <1>3, <1>6, <1>7, <1>8, <1>9

-----------------------------------------------------------------------------
(* What an assembler has.                                                  *)

Assemblers == [held : Seq(Nat), decoded : {0, 1}]

\* It has taken so many of all: no message yet, or what came behind one.
Taken(held, decoded, all, n) ==
  /\ held \in Seq(Nat) /\ decoded \in {0, 1} /\ n \in 0..Len(all)
  /\ ~Complete(held)
  /\ decoded = 0 => Len(held) = n /\ IsPart(held, all, 0)
  /\ decoded = 1 =>
       /\ n >= 2 /\ all[1] = 0 /\ all[2] \in 0..LongestMessage
       /\ n = 2 + all[2] + Len(held) /\ IsPart(held, all, 2 + all[2])

HasTaken(a, all, n) == a \in Assemblers /\ Taken(a.held, a.decoded, all, n)

\* The bytes held after a chunk, and what is left of them behind one message.
Takes(got, decoded, all, n, chunk, held, rest) ==
  /\ Taken(got, decoded, all, n) /\ IsPart(chunk, all, n)
  /\ held = got \o chunk /\ rest = SubSeq(held, 3 + held[2], Len(held))
  /\ ~TurnsAway(held, decoded)

LEMMA TakesTyped ==
  ASSUME NEW all \in Seq(Nat), NEW n \in Nat, NEW got, NEW decoded, NEW chunk, NEW held, NEW rest,
         Takes(got, decoded, all, n, chunk, held, rest)
  PROVE  /\ got \in Seq(Nat) /\ chunk \in Seq(Nat) /\ held \in Seq(Nat) /\ decoded \in {0, 1}
         /\ n + Len(chunk) \in 0..Len(all)
<1>1. got \in Seq(Nat) /\ decoded \in {0, 1}
  BY DEF Takes, Taken
<1>2. chunk \in Seq(Nat) /\ n + Len(chunk) <= Len(all)
  BY DEF Takes, IsPart
<1>3. held \in Seq(Nat)
  BY <1>1, <1>2, ConcatProperties DEF Takes
<1>4. n + Len(chunk) \in 0..Len(all)
  BY <1>2
<1> QED
  BY <1>1, <1>2, <1>3, <1>4

\* The first message, as far as it has come, or all of it.
LEMMA TakesFirst ==
  ASSUME NEW all \in Seq(Nat), NEW n \in Nat, NEW got \in Seq(Nat), NEW chunk \in Seq(Nat),
         NEW held \in Seq(Nat), NEW rest, Takes(got, 0, all, n, chunk, held, rest)
  PROVE  /\ ~Complete(held) => Taken(held, 0, all, n + Len(chunk))
         /\ Complete(held) /\ ~TurnsAway(rest, 1) => Taken(rest, 1, all, n + Len(chunk))
<1>1. PICK N \in 0..Len(all) : N = n + Len(chunk)
  BY TakesTyped
<1>2. Len(got) = n /\ IsPart(got, all, 0)
  BY DEF Takes, Taken
<1>3. IsPart(chunk, all, 0 + Len(got))
  <2>1. 0 + Len(got) = n
    BY <1>2
  <2> QED
    BY <2>1 DEF Takes
<1>4. IsPart(held, all, 0) /\ Len(held) = Len(got) + Len(chunk)
  <2>1. IsPart(got, all, 0) /\ 0 \in Nat
    BY <1>2
  <2>2. IsPart(got \o chunk, all, 0) /\ Len(got \o chunk) = Len(got) + Len(chunk)
    BY <1>3, <2>1, PartsJoin
  <2> QED
    BY <2>2 DEF Takes
<1>5. Len(held) = N
  BY <1>1, <1>2, <1>4
<1>6. ~Complete(held) => Taken(held, 0, all, N)
  BY <1>4, <1>5 DEF Taken
<1>7. ASSUME Complete(held), ~TurnsAway(rest, 1)
      PROVE  Taken(rest, 1, all, N)
  <2>1. 2 <= Len(held) /\ 2 + held[2] <= Len(held)
    BY <1>7 DEF Complete
  <2>2. 1 \in 1..Len(held) /\ 2 \in 1..Len(held)
    BY <2>1
  <2>3. held[1] \in Nat /\ held[2] \in Nat
    BY <2>2
  <2>4. held[1] = 0 /\ ~(held[2] > LongestMessage)
    BY <2>1 DEF Takes, TurnsAway
  <2>5. held[1] = all[1] /\ held[2] = all[2]
    BY <1>4, <2>2 DEF IsPart
  <2>6. PICK m \in 0..Len(held) : m = 2 + held[2]
    BY <2>1, <2>3
  <2>7. 3 + held[2] = m + 1
    BY <2>3, <2>6, SMTT(30)
  <2>8. rest = SubSeq(held, m + 1, Len(held))
    BY <2>7 DEF Takes
  <2>9. IsPart(rest, all, 0 + m) /\ Len(rest) = Len(held) - m
    <3>1. /\ IsPart(SubSeq(held, m + 1, Len(held)), all, 0 + m)
          /\ Len(SubSeq(held, m + 1, Len(held))) = Len(held) - m
      <4>1. IsPart(held, all, 0) /\ 0 \in Nat
        BY <1>4
      <4> QED
        BY ONLY <4>1, PartsPart, m \in 0..Len(held), all \in Seq(Nat)
    <3> QED
      BY <2>8, <3>1
  <2>10. 0 + m = 2 + all[2] /\ 0 + m = m
    BY <2>5, <2>6
  <2>11. IsPart(rest, all, 2 + all[2])
    BY <2>9, <2>10
  <2>12. rest \in Seq(Nat)
    BY <2>9 DEF IsPart
  <2>13. ~Complete(rest)
    BY <1>7 DEF TurnsAway, Complete
  <2>14. all[1] = 0 /\ all[2] \in 0..LongestMessage
    BY <2>3, <2>4, <2>5, CallsAssumption, SMTT(30)
  <2>15. N >= 2
    BY <1>5, <2>1
  <2>16. N = 2 + all[2] + Len(rest)
    BY <1>5, <2>5, <2>6, <2>9
  <2> QED
    BY <2>11, <2>12, <2>13, <2>14, <2>15, <2>16 DEF Taken
<1> QED
  BY <1>1, <1>6, <1>7

\* Behind it nothing but what makes no message.
LEMMA TakesOn ==
  ASSUME NEW all \in Seq(Nat), NEW n \in Nat, NEW got \in Seq(Nat), NEW chunk \in Seq(Nat),
         NEW held \in Seq(Nat), NEW rest, Takes(got, 1, all, n, chunk, held, rest)
  PROVE  ~Complete(held) /\ Taken(held, 1, all, n + Len(chunk))
<1>1. PICK N \in 0..Len(all) : N = n + Len(chunk)
  BY TakesTyped
<1>2. /\ all[1] = 0 /\ all[2] \in 0..LongestMessage /\ n >= 2
      /\ n = 2 + all[2] + Len(got) /\ IsPart(got, all, 2 + all[2])
  BY DEF Takes, Taken
<1>3. PICK m \in Nat : m = 2 + all[2]
  BY <1>2, CallsAssumption
<1>4. n = m + Len(got) /\ IsPart(got, all, m)
  BY <1>2, <1>3
<1>5. IsPart(chunk, all, m + Len(got))
  BY <1>4 DEF Takes
<1>6. IsPart(held, all, m) /\ Len(held) = Len(got) + Len(chunk)
  BY <1>4, <1>5, PartsJoin DEF Takes
<1>7. ~Complete(held)
  BY DEF Takes, TurnsAway, Complete
<1>8. N >= 2 /\ N = m + Len(held)
  BY <1>1, <1>2, <1>4, <1>6, SMTT(30)
<1>9. N = 2 + all[2] + Len(held)
  BY <1>3, <1>8
<1> QED
  BY <1>1, <1>2, <1>3, <1>6, <1>7, <1>8, <1>9 DEF Taken

LEMMA PushTakes ==
  ASSUME NEW all \in Seq(Nat), NEW n \in Nat, NEW a, HasTaken(a, all, n),
         NEW chunk, IsPart(chunk, all, n), NEW b \in Pushed(a, chunk)
  PROVE  HasTaken(b, all, n + Len(chunk))
<1>1. PICK got, decoded : got = a.held /\ decoded = a.decoded /\ Taken(got, decoded, all, n)
  BY DEF HasTaken
<1>2. PICK held : held = got \o chunk
  OBVIOUS
<1>3. PICK rest : rest = SubSeq(held, 3 + held[2], Len(held))
  OBVIOUS
<1>4. /\ ~TurnsAway(held, decoded)
      /\ \/ ~Complete(held) /\ b = [a EXCEPT !.held = held]
         \/ /\ Complete(held) /\ ~TurnsAway(rest, decoded + 1)
            /\ b = [held |-> rest, decoded |-> decoded + 1]
  BY <1>1, <1>2, <1>3 DEF Pushed
<1>5. Takes(got, decoded, all, n, chunk, held, rest)
  BY <1>1, <1>2, <1>3, <1>4 DEF Takes
<1>6. /\ got \in Seq(Nat) /\ chunk \in Seq(Nat) /\ held \in Seq(Nat) /\ decoded \in {0, 1}
  BY <1>5, TakesTyped
<1>7. CASE ~Complete(held) /\ b = [a EXCEPT !.held = held]
  <2>1. Taken(held, decoded, all, n + Len(chunk))
    BY <1>5, <1>6, <1>7, TakesFirst, TakesOn
  <2>2. a \in Assemblers
    BY DEF HasTaken
  <2>3. b \in Assemblers /\ b.held = held /\ b.decoded = decoded
    BY <1>1, <1>6, <1>7, <2>2 DEF Assemblers
  <2> QED
    BY <2>1, <2>3 DEF HasTaken
<1>8. CASE /\ Complete(held) /\ ~TurnsAway(rest, decoded + 1)
           /\ b = [held |-> rest, decoded |-> decoded + 1]
  <2>1. decoded = 0
    BY <1>5, <1>6, <1>8, TakesOn
  <2>2. 0 + 1 = 1
    OBVIOUS
  <2>3. Taken(rest, 1, all, n + Len(chunk))
    BY <1>5, <1>6, <1>8, <2>1, <2>2, TakesFirst
  <2>4. rest \in Seq(Nat)
    BY <2>3 DEF Taken
  <2>5. b \in Assemblers /\ b.held = rest /\ b.decoded = 1
    BY <1>8, <2>1, <2>2, <2>4 DEF Assemblers
  <2> QED
    BY <2>3, <2>5 DEF HasTaken
<1> QED
  BY <1>4, <1>7, <1>8

-----------------------------------------------------------------------------
(* What is sent.                                                           *)

\* The first message of it has nothing but units behind its length.
Shaped(b) == \A i \in 3..Len(b) : i <= 2 + b[2] => b[i] = 1

LEMMA EncodedFacts ==
  ASSUME NEW flag \in {0, 1}, NEW length \in Nat
  PROVE  /\ Encoded(flag, length) \in Seq(Nat) /\ Len(Encoded(flag, length)) = 2 + length
         /\ Encoded(flag, length)[1] = flag /\ Encoded(flag, length)[2] = length
         /\ \A i \in 3..2 + length : Encoded(flag, length)[i] = 1
<1>1. PICK start \in Seq(Nat) : start = <<flag, length>>
  <2>1. flag \in Nat
    OBVIOUS
  <2>2. <<flag, length>> \in Seq(Nat)
    BY ONLY <2>1, length \in Nat
  <2> QED
    BY <2>2
<1>2. Len(start) = 2 /\ start[1] = flag /\ start[2] = length
  BY <1>1
<1>3. PICK units \in Seq(Nat) : units = [i \in 1..length |-> 1]
  <2>1. [i \in 1..length |-> 1] \in [1..length -> Nat]
    OBVIOUS
  <2> QED
    BY <2>1, SeqDef, ZenonT(40)
<1>4. Len(units) = length /\ \A i \in 1..length : units[i] = 1
  <2>1. DOMAIN units = 1..length
    BY <1>3
  <2>2. DOMAIN units = 1..Len(units) /\ Len(units) \in Nat
    BY LenProperties
  <2> QED
    BY <1>3, <2>1, <2>2
<1>5. /\ start \o units \in Seq(Nat) /\ Len(start \o units) = 2 + length
      /\ \A i \in 1..2 + length : (start \o units)[i] = IF i <= 2 THEN start[i] ELSE units[i - 2]
  <2>1. /\ start \o units \in Seq(Nat) /\ Len(start \o units) = Len(start) + Len(units)
        /\ \A i \in 1..Len(start) + Len(units) :
             (start \o units)[i] = IF i <= Len(start) THEN start[i] ELSE units[i - Len(start)]
    BY ConcatProperties
  <2> QED
    BY <1>2, <1>4, <2>1
<1>6. PICK all : all = start \o units
  OBVIOUS
<1>7. Encoded(flag, length) = all
  BY <1>1, <1>3, <1>6 DEF Encoded
<1>8. all \in Seq(Nat) /\ Len(all) = 2 + length /\ all[1] = flag /\ all[2] = length
  BY <1>2, <1>5, <1>6, SMTT(30)
<1>9. ASSUME NEW i \in 3..2 + length
      PROVE  all[i] = 1
  <2>1. i \in 1..2 + length /\ ~(i <= 2) /\ i - 2 \in 1..length
    OBVIOUS
  <2> QED
    BY <1>4, <1>5, <1>6, <2>1
<1> QED
  BY <1>7, <1>8, <1>9

\* Units behind their length are a message.
LEMMA ShapedIsEncoded ==
  ASSUME NEW b \in Seq(Nat), Shaped(b), NEW length \in Nat, Len(b) = 2 + length,
         b[1] = 0, b[2] = length
  PROVE  b = Encoded(0, length)
<1>1. PICK e \in Seq(Nat) : e = Encoded(0, length)
  BY EncodedFacts
<1>2. /\ Len(e) = 2 + length /\ e[1] = 0 /\ e[2] = length
      /\ \A i \in 3..2 + length : e[i] = 1
  BY <1>1, EncodedFacts
<1>3. \A i \in 3..2 + length : b[i] = 1
  BY DEF Shaped
<1>4. \A i \in 1..2 + length : b[i] = e[i]
  <2> SUFFICES ASSUME NEW i \in 1..2 + length
               PROVE  b[i] = e[i]
    OBVIOUS
  <2>1. i = 1 \/ i = 2 \/ i \in 3..2 + length
    OBVIOUS
  <2> QED
    BY <1>2, <1>3, <2>1
<1>5. b = e
  BY <1>2, <1>4, SeqEqual
<1> QED
  BY <1>1, <1>5

LEMMA BodiesShaped ==
  ASSUME NEW b \in Bodies
  PROVE  b \in Seq(Nat) /\ Shaped(b)
<1>1. PICK first \in Sent, n \in Sent : b \in {SubSeq(first \o n, 1, k) : k \in 0..Len(first \o n)}
  BY DEF Bodies
<1>2. PICK flag \in {0, 1}, length \in Nat : first = Encoded(flag, length)
  <2>1. \A l \in 0..LongestMessage + 1 : l \in Nat
    BY CallsAssumption
  <2> QED
    BY <2>1 DEF Sent
<1>3. PICK m \in Seq(Nat) : m = first /\ m = Encoded(flag, length)
  BY <1>2, EncodedFacts
<1>4. Len(m) = 2 + length /\ m[2] = length /\ \A i \in 3..2 + length : m[i] = 1
  <2>1. /\ Len(Encoded(flag, length)) = 2 + length /\ Encoded(flag, length)[2] = length
        /\ \A i \in 3..2 + length : Encoded(flag, length)[i] = 1
    BY EncodedFacts
  <2> QED
    BY <1>3, <2>1
<1>5. n \in Seq(Nat)
  <2>1. \A l \in 0..LongestMessage + 1 : l \in Nat
    BY CallsAssumption
  <2>2. PICK flag2 \in {0, 1}, length2 \in Nat : n = Encoded(flag2, length2)
    BY <2>1 DEF Sent
  <2> QED
    BY <2>2, EncodedFacts
<1>6. PICK all \in Seq(Nat) : all = m \o n
  BY <1>5, ConcatProperties
<1>7. Len(all) = Len(m) + Len(n) /\ \A i \in 1..Len(m) : all[i] = m[i]
  <2>1. Len(m) \in Nat /\ Len(n) \in Nat
    BY <1>5, LenProperties
  <2>2. /\ Len(all) = Len(m) + Len(n)
        /\ \A i \in 1..Len(m) + Len(n) : all[i] = IF i <= Len(m) THEN m[i] ELSE n[i - Len(m)]
    BY <1>5, <1>6, ConcatProperties
  <2>3. \A i \in 1..Len(m) : i \in 1..Len(m) + Len(n) /\ i <= Len(m)
    BY <2>1
  <2> QED
    BY <2>2, <2>3
<1>8. PICK k \in 0..Len(all) : b = SubSeq(all, 1, k)
  BY <1>1, <1>3, <1>6
<1>9. b \in Seq(Nat) /\ Len(b) = k /\ \A i \in 1..k : b[i] = all[i]
  BY <1>8, FrontPart
<1>10. ASSUME NEW i \in 3..Len(b), i <= 2 + b[2]
       PROVE  b[i] = 1
  <2>1. i \in 1..k /\ 2 \in 1..k /\ 2 \in 1..Len(m)
    BY <1>4, <1>9
  <2>2. b[2] = length
    BY <1>4, <1>7, <1>9, <2>1
  <2>3. i \in 3..2 + length /\ i \in 1..Len(m)
    BY <1>2, <1>4, <1>10, <2>1, <2>2
  <2> QED
    BY <1>4, <1>7, <1>9, <2>1, <2>3
<1> QED
  BY <1>9, <1>10 DEF Shaped

\* What an assembler that has taken all of it tells of it.
LEMMA TakenAll ==
  ASSUME NEW b \in Seq(Nat), Shaped(b), NEW held, Taken(held, 1, b, Len(b))
  PROVE  \E length \in 0..LongestMessage :
           /\ length = b[2] /\ IsPrefix(Encoded(0, length), b)
           /\ ~Complete(SubSeq(b, 3 + length, Len(b)))
           /\ held = <<>> => b = Encoded(0, length)
<1>1. /\ held \in Seq(Nat) /\ ~Complete(held) /\ b[1] = 0 /\ b[2] \in 0..LongestMessage
      /\ Len(b) = 2 + b[2] + Len(held) /\ IsPart(held, b, 2 + b[2])
  BY DEF Taken
<1>2. PICK length \in 0..LongestMessage : length = b[2]
  BY <1>1
<1>3. length \in Nat /\ Len(held) \in Nat /\ Len(b) = 2 + length + Len(held)
  BY <1>1, <1>2, CallsAssumption
<1>4. PICK k \in 0..Len(b) : k = 2 + length
  BY <1>3
<1>5. SubSeq(b, 3 + length, Len(b)) = held
  <2>1. PICK rest : rest = SubSeq(b, k + 1, Len(b))
    OBVIOUS
  <2>2. /\ rest \in Seq(Nat) /\ Len(rest) = Len(b) - k
        /\ \A i \in 1..Len(b) - k : rest[i] = b[k + i]
    BY <2>1, Behind
  <2>3. Len(b) - k = Len(held)
    BY <1>3, <1>4
  <2>4. \A i \in 1..Len(held) : held[i] = b[k + i]
    BY <1>1, <1>2, <1>4 DEF IsPart
  <2>5. Len(rest) = Len(held) /\ \A i \in 1..Len(rest) : rest[i] = held[i]
    BY <2>2, <2>3, <2>4
  <2>6. rest = held
    BY <1>1, <2>2, <2>5, SeqEqual
  <2>7. 3 + length = k + 1
    BY <1>3, <1>4
  <2> QED
    BY <2>1, <2>6, <2>7
<1>6. PICK e \in Seq(Nat) : e = Encoded(0, length)
  BY <1>3, EncodedFacts
<1>7. PICK start \in Seq(Nat) : /\ start = SubSeq(b, 1, k) /\ Len(start) = k
                                /\ \A i \in 1..k : start[i] = b[i]
  BY FrontPart, ZenonT(40)
<1>8. Shaped(start) /\ start[1] = 0 /\ start[2] = length
  <2>1. 1 \in 1..k /\ 2 \in 1..k /\ \A i \in 3..k : i \in 1..k /\ i \in 3..Len(b)
    BY <1>3, <1>4
  <2>2. start[1] = 0 /\ start[2] = length
    BY <1>1, <1>2, <1>7, <2>1
  <2>3. \A i \in 3..k : start[i] = 1
    BY <1>2, <1>4, <1>7, <2>1 DEF Shaped
  <2> QED
    BY <1>7, <2>2, <2>3 DEF Shaped
<1>9. start = e
  BY <1>3, <1>4, <1>6, <1>7, <1>8, ShapedIsEncoded
<1>10. Len(e) = k /\ Len(e) <= Len(b)
  BY <1>7, <1>9
<1>11. SubSeq(e, 1, Len(e)) = e
  BY SubSeqFull
<1>12. IsPrefix(e, b)
  BY <1>7, <1>9, <1>10, <1>11 DEF IsPrefix
<1>13. held = <<>> => b = e
  <2>1. held = <<>> => Len(held) = 0
    OBVIOUS
  <2>2. SubSeq(b, 1, Len(b)) = b
    BY SubSeqFull
  <2>3. Len(held) = 0 => Len(b) = k
    BY <1>3, <1>4
  <2> QED
    BY <1>7, <1>9, <2>1, <2>2, <2>3
<1> QED
  BY <1>1, <1>2, <1>5, <1>6, <1>12, <1>13

-----------------------------------------------------------------------------
(* What is left of an answer.                                              *)

Said == {"ok", "raised", "refused"}
Elements ==
  [kind : {"headers"}, http : {200, 503}, status : Said \cup {Unset}]
    \cup [kind : {"unit"}, unit : Nat] \cup [kind : {"trailers"}, status : Said] \cup {End}

\* So many headers, the body after n, so many trailers, and the end.
Left(r, body, said, n, h, t) ==
  /\ h \in {0, 1} /\ t \in {0, 1} /\ n \in 0..Len(body)
  /\ r \in Seq(Elements) /\ Len(r) = h + (Len(body) - n) + t + 1
  /\ \A i \in 1..h : r[i].kind = "headers" /\ r[i].status \in said \cup {Unset}
  /\ \A i \in 1..Len(body) - n : r[h + i].kind = "unit" /\ r[h + i].unit = body[n + i]
  /\ \A i \in 1..t :
       r[h + (Len(body) - n) + i].kind = "trailers" /\ r[h + (Len(body) - n) + i].status \in said
  /\ r[Len(r)].kind = "end"

LEMMA Joined ==
  ASSUME NEW S, NEW a \in Seq(S), NEW b \in Seq(S), NEW c, c = a \o b
  PROVE  /\ c \in Seq(S) /\ Len(c) = Len(a) + Len(b)
         /\ \A i \in 1..Len(a) : c[i] = a[i]
         /\ \A i \in 1..Len(b) : c[Len(a) + i] = b[i]
<1>1. PICK m \in Nat, k \in Nat : m = Len(a) /\ k = Len(b)
  OBVIOUS
<1>2. /\ c \in Seq(S) /\ Len(c) = m + k
      /\ \A i \in 1..m + k : c[i] = IF i <= m THEN a[i] ELSE b[i - m]
  BY <1>1, ConcatProperties
<1>3. ASSUME NEW i \in 1..m
      PROVE  c[i] = a[i]
  <2>1. i \in 1..m + k /\ i <= m
    OBVIOUS
  <2> QED
    BY <1>2, <2>1
<1>4. ASSUME NEW i \in 1..k
      PROVE  c[m + i] = b[i]
  <2>1. m + i \in 1..m + k /\ ~(m + i <= m) /\ (m + i) - m = i
    OBVIOUS
  <2> QED
    BY <1>2, <2>1
<1> QED
  BY <1>1, <1>2, <1>3, <1>4

\* A whole answer.
LEMMA AnswerIsLeft ==
  ASSUME NEW body \in Seq(Nat), NEW http \in {200, 503}, NEW first \in Said \cup {Unset},
         NEW last \in Said \cup {Unset}
  PROVE  \E t \in {0, 1} : Left(Answer(http, first, body, last), body, {first, last} \ {Unset}, 0, 1, t)
<1>1. PICK u \in Nat : u = Len(body)
  OBVIOUS
<1>2. PICK a : a = <<Headers(http, first)>>
  OBVIOUS
<1>3. a \in Seq(Elements) /\ Len(a) = 1 /\ a[1].kind = "headers" /\ a[1].status = first
  <2>1. Headers(http, first) \in Elements
    BY DEF Headers, Elements
  <2>2. Headers(http, first).kind = "headers" /\ Headers(http, first).status = first
    BY DEF Headers
  <2>3. PICK e \in Elements : e = Headers(http, first)
    BY <2>1
  <2>4. <<e>> \in Seq(Elements) /\ Len(<<e>>) = 1 /\ <<e>>[1] = e
    OBVIOUS
  <2> QED
    BY <1>2, <2>2, <2>3, <2>4
<1>4. PICK b : b = [i \in DOMAIN body |-> Unit(body[i])]
  OBVIOUS
<1>5. /\ b \in Seq(Elements) /\ Len(b) = u
      /\ \A i \in 1..u : b[i].kind = "unit" /\ b[i].unit = body[i]
  <2>1. DOMAIN body = 1..u /\ \A i \in 1..u : body[i] \in Nat
    BY <1>1
  <2>2. \A i \in 1..u : b[i] = Unit(body[i])
    BY <1>4, <2>1
  <2>3. \A x \in Nat : Unit(x) \in Elements /\ Unit(x).kind = "unit" /\ Unit(x).unit = x
    BY DEF Unit, Elements
  <2>4. \A i \in 1..u : b[i] \in Elements /\ b[i].kind = "unit" /\ b[i].unit = body[i]
    BY <2>1, <2>2, <2>3
  <2>5. b \in [1..u -> Elements]
    BY <1>4, <2>1, <2>4
  <2>6. b \in Seq(Elements)
    BY <2>5, SeqDef
  <2>7. DOMAIN b = 1..u /\ DOMAIN b = 1..Len(b) /\ Len(b) \in Nat
    BY <2>5, <2>6, LenProperties
  <2>8. Len(b) = u
    BY <2>7
  <2> QED
    BY <2>4, <2>6, <2>8
<1>6. PICK c : c = (IF last = Unset THEN <<>> ELSE <<Trailers(last)>>)
  OBVIOUS
<1>7. PICK t \in {0, 1} : /\ c \in Seq(Elements) /\ Len(c) = t
                          /\ t = 1 => c[1].kind = "trailers" /\ c[1].status = last /\ last # Unset
  <2>1. CASE last = Unset
    <3>1. c \in Seq(Elements) /\ Len(c) = 0
      BY <1>6, <2>1
    <3>2. 0 \in {0, 1} /\ 0 # 1
      OBVIOUS
    <3> QED
      BY <3>1, <3>2
  <2>2. CASE last # Unset
    <3>1. Trailers(last) \in Elements /\ Trailers(last).kind = "trailers" /\ Trailers(last).status = last
      BY <2>2 DEF Trailers, Elements
    <3>2. PICK e \in Elements : e = Trailers(last)
      BY <3>1
    <3>3. <<e>> \in Seq(Elements) /\ Len(<<e>>) = 1 /\ <<e>>[1] = e
      OBVIOUS
    <3>4. c = <<e>>
      BY <1>6, <2>2, <3>2
    <3> QED
      BY <2>2, <3>1, <3>2, <3>3, <3>4
  <2> QED
    BY <2>1, <2>2
<1>8. PICK d : d = <<End>>
  OBVIOUS
<1>9. d \in Seq(Elements) /\ Len(d) = 1 /\ d[1].kind = "end"
  <2>1. End \in Elements /\ End.kind = "end"
    BY DEF End, Elements
  <2>2. PICK e \in Elements : e = End
    BY <2>1
  <2>3. <<e>> \in Seq(Elements) /\ Len(<<e>>) = 1 /\ <<e>>[1] = e
    OBVIOUS
  <2> QED
    BY <1>8, <2>1, <2>2, <2>3
<1>10. PICK m \in Nat : m = 1 + u
  OBVIOUS
<1>11. PICK k \in Nat : k = m + t
  OBVIOUS
<1>12. PICK ab : ab = a \o b
  OBVIOUS
<1>13. /\ ab \in Seq(Elements) /\ Len(ab) = m
       /\ ab[1] = a[1] /\ \A i \in 1..u : ab[1 + i] = b[i]
  <2>1. a \in Seq(Elements) /\ b \in Seq(Elements)
    BY <1>3, <1>5
  <2>2. /\ ab \in Seq(Elements) /\ Len(ab) = Len(a) + Len(b)
        /\ \A i \in 1..Len(a) : ab[i] = a[i]
        /\ \A i \in 1..Len(b) : ab[Len(a) + i] = b[i]
    BY <1>12, <2>1, Joined
  <2>3. Len(a) = 1 /\ Len(b) = u
    BY <1>3, <1>5
  <2> QED
    BY <1>10, <2>2, <2>3
<1>14. PICK abc : abc = ab \o c
  OBVIOUS
<1>15. /\ abc \in Seq(Elements) /\ Len(abc) = k
       /\ \A i \in 1..m : abc[i] = ab[i]
       /\ \A i \in 1..t : abc[m + i] = c[i]
  <2>1. ab \in Seq(Elements) /\ c \in Seq(Elements)
    BY <1>7, <1>13
  <2>2. /\ abc \in Seq(Elements) /\ Len(abc) = Len(ab) + Len(c)
        /\ \A i \in 1..Len(ab) : abc[i] = ab[i]
        /\ \A i \in 1..Len(c) : abc[Len(ab) + i] = c[i]
    BY <1>14, <2>1, Joined
  <2>3. Len(ab) = m /\ Len(c) = t
    BY <1>7, <1>13
  <2> QED
    BY <1>11, <2>2, <2>3
<1>16. PICK r : r = abc \o d
  OBVIOUS
<1>17. /\ r \in Seq(Elements) /\ Len(r) = k + 1
       /\ \A i \in 1..k : r[i] = abc[i]
       /\ r[k + 1] = d[1]
  <2>1. abc \in Seq(Elements) /\ d \in Seq(Elements)
    BY <1>9, <1>15
  <2>2. /\ r \in Seq(Elements) /\ Len(r) = Len(abc) + Len(d)
        /\ \A i \in 1..Len(abc) : r[i] = abc[i]
        /\ \A i \in 1..Len(d) : r[Len(abc) + i] = d[i]
    BY <1>16, <2>1, Joined
  <2>3. Len(abc) = k /\ Len(d) = 1
    BY <1>9, <1>15
  <2> QED
    BY <2>2, <2>3
<1>18. Answer(http, first, body, last) = r
  BY <1>2, <1>4, <1>6, <1>8, <1>12, <1>14, <1>16 DEF Answer
<1>19. r[1].kind = "headers" /\ r[1].status = first
  <2>1. 1 \in 1..m /\ 1 \in 1..k
    BY <1>10, <1>11
  <2>2. r[1] = a[1]
    BY <1>13, <1>15, <1>17, <2>1
  <2> QED
    BY <1>3, <2>2
<1>20. \A i \in 1..u : r[1 + i].kind = "unit" /\ r[1 + i].unit = body[i]
  <2> SUFFICES ASSUME NEW i \in 1..u
               PROVE  r[1 + i].kind = "unit" /\ r[1 + i].unit = body[i]
    OBVIOUS
  <2>1. 1 + i \in 1..m /\ 1 + i \in 1..k
    BY <1>10, <1>11
  <2>2. PICK j : j = 1 + i
    OBVIOUS
  <2>3. r[j] = abc[j]
    BY <1>17, <2>1, <2>2
  <2>4. abc[j] = ab[j]
    BY <1>15, <2>1, <2>2
  <2>5. ab[1 + i] = b[i]
    BY <1>13
  <2>6. r[1 + i] = b[i]
    BY <2>2, <2>3, <2>4, <2>5
  <2>7. b[i].kind = "unit" /\ b[i].unit = body[i]
    BY <1>5
  <2> QED
    BY ONLY <2>6, <2>7
<1>21. \A i \in 1..t : r[m + i].kind = "trailers" /\ r[m + i].status = last /\ last # Unset
  <2> SUFFICES ASSUME NEW i \in 1..t
               PROVE  r[m + i].kind = "trailers" /\ r[m + i].status = last /\ last # Unset
    OBVIOUS
  <2>1. m + i \in 1..k /\ i = 1 /\ t = 1
    BY <1>11
  <2>2. r[m + i] = c[1]
    BY <1>15, <1>17, <2>1
  <2> QED
    BY <1>7, <2>1, <2>2
<1>22. r[Len(r)].kind = "end"
  BY <1>9, <1>17
<1>23. Len(body) - 0 = u /\ 0 \in 0..Len(body) /\ \A i \in 1..u : 0 + i = i
  BY <1>1
<1>24. Left(r, body, {first, last} \ {Unset}, 0, 1, t)
  <2>1. Len(r) = 1 + (Len(body) - 0) + t + 1 /\ 1 + (Len(body) - 0) = m
    BY <1>10, <1>11, <1>23, <1>17
  <2>2. \A i \in 1..1 : r[i].kind = "headers" /\ r[i].status \in ({first, last} \ {Unset}) \cup {Unset}
    <3>1. \A i \in 1..1 : i = 1
      OBVIOUS
    <3> QED
      BY <1>19, <3>1
  <2>3. \A i \in 1..Len(body) - 0 : r[1 + i].kind = "unit" /\ r[1 + i].unit = body[0 + i]
    BY <1>20, <1>23
  <2>4. \A i \in 1..t : r[m + i].kind = "trailers" /\ r[m + i].status \in {first, last} \ {Unset}
    BY <1>21, ZenonT(40)
  <2> QED
    BY <1>17, <1>22, <1>23, <2>1, <2>2, <2>3, <2>4, ZenonT(40) DEF Left
<1> QED
  BY <1>18, <1>24

\* What is at the head of what is left tells how much there is.
LEMMA LeftHead ==
  ASSUME NEW body \in Seq(Nat), NEW said, NEW n, NEW h, NEW t, NEW r, Left(r, body, said, n, h, t)
  PROVE  /\ h \in {0, 1} /\ t \in {0, 1} /\ n \in 0..Len(body) /\ r \in Seq(Elements)
         /\ Len(r) = h + (Len(body) - n) + t + 1
         /\ h = 1 => r[1].kind = "headers" /\ r[1].status \in said \cup {Unset}
         /\ h = 0 /\ n < Len(body) => r[1].kind = "unit"
         /\ h = 0 /\ n = Len(body) /\ t = 1 => r[1].kind = "trailers" /\ r[1].status \in said
         /\ h = 0 /\ n = Len(body) /\ t = 0 => r[1].kind = "end"
<1>1. /\ h \in {0, 1} /\ t \in {0, 1} /\ n \in 0..Len(body) /\ r \in Seq(Elements)
      /\ Len(r) = h + (Len(body) - n) + t + 1
  BY DEF Left
<1>2. h = 1 => r[1].kind = "headers" /\ r[1].status \in said \cup {Unset}
  <2>1. h = 1 => 1 \in 1..h
    OBVIOUS
  <2> QED
    BY <2>1 DEF Left
<1>3. h = 0 /\ n < Len(body) => r[1].kind = "unit"
  <2>1. h = 0 /\ n < Len(body) => 1 \in 1..Len(body) - n /\ h + 1 = 1
    BY <1>1
  <2> QED
    BY <2>1 DEF Left
<1>4. h = 0 /\ n = Len(body) /\ t = 1 => r[1].kind = "trailers" /\ r[1].status \in said
  <2>1. h = 0 /\ n = Len(body) /\ t = 1 => 1 \in 1..t /\ h + (Len(body) - n) + 1 = 1
    BY <1>1
  <2> QED
    BY <2>1 DEF Left
<1>5. h = 0 /\ n = Len(body) /\ t = 0 => r[1].kind = "end"
  <2>1. h = 0 /\ n = Len(body) /\ t = 0 => Len(r) = 1
    BY <1>1
  <2> QED
    BY <2>1 DEF Left
<1> QED
  BY <1>1, <1>2, <1>3, <1>4, <1>5

\* The headers are heard.
LEMMA HeadersHeard ==
  ASSUME NEW body \in Seq(Nat), NEW said, NEW n, NEW h, NEW t, NEW r, Left(r, body, said, n, h, t),
         r[1].kind = "headers"
  PROVE  r[1].status \in said \cup {Unset} /\ Left(SubSeq(r, 2, Len(r)), body, said, n, 0, t)
<1>1. /\ h = 1 /\ t \in {0, 1} /\ n \in 0..Len(body) /\ r \in Seq(Elements)
      /\ Len(r) = 1 + (Len(body) - n) + t + 1 /\ r[1].status \in said \cup {Unset}
  BY LeftHead, SMTT(30)
<1>2. PICK u \in Nat : u = Len(body) - n
  BY <1>1
<1>3. PICK rest : rest = SubSeq(r, 2, Len(r))
  OBVIOUS
<1>4. /\ rest \in Seq(Elements) /\ Len(rest) = u + t + 1
      /\ \A i \in 1..u + t + 1 : rest[i] = r[1 + i]
  <2>1. 1 \in 0..Len(r) /\ Len(r) - 1 = u + t + 1 /\ 1 + 1 = 2
    BY <1>1, <1>2
  <2>2. /\ SubSeq(r, 1 + 1, Len(r)) \in Seq(Elements) /\ Len(SubSeq(r, 1 + 1, Len(r))) = Len(r) - 1
        /\ \A i \in 1..Len(r) - 1 : SubSeq(r, 1 + 1, Len(r))[i] = r[1 + i]
    BY <1>1, <2>1, Behind
  <2> QED
    BY <1>3, <2>1, <2>2
<1>5. Len(rest) = 0 + (Len(body) - n) + t + 1
  BY <1>1, <1>2, <1>4
<1>6. \A i \in 1..u : rest[0 + i].kind = "unit" /\ rest[0 + i].unit = body[n + i]
  <2> SUFFICES ASSUME NEW i \in 1..u
               PROVE  rest[0 + i].kind = "unit" /\ rest[0 + i].unit = body[n + i]
    OBVIOUS
  <2>1. 0 + i = i /\ i \in 1..u + t + 1 /\ i \in 1..Len(body) - n
    BY <1>1, <1>2
  <2>2. r[1 + i].kind = "unit" /\ r[1 + i].unit = body[n + i]
    BY <1>1, <2>1 DEF Left
  <2> QED
    BY <1>4, <2>1, <2>2
<1>7. \A i \in 1..t : rest[0 + u + i].kind = "trailers" /\ rest[0 + u + i].status \in said
  <2> SUFFICES ASSUME NEW i \in 1..t
               PROVE  rest[0 + u + i].kind = "trailers" /\ rest[0 + u + i].status \in said
    OBVIOUS
  <2>1. 0 + u + i \in 1..u + t + 1 /\ 1 + (0 + u + i) = 1 + (Len(body) - n) + i
    BY <1>1, <1>2
  <2>2. r[1 + (Len(body) - n) + i].kind = "trailers" /\ r[1 + (Len(body) - n) + i].status \in said
    BY <1>1 DEF Left
  <2> QED
    BY <1>4, <2>1, <2>2
<1>8. rest[Len(rest)].kind = "end"
  <2>1. Len(rest) \in 1..u + t + 1 /\ 1 + Len(rest) = Len(r)
    BY <1>1, <1>2, <1>4
  <2>2. r[Len(r)].kind = "end"
    BY DEF Left
  <2> QED
    BY <1>4, <2>1, <2>2
<1>9. Left(rest, body, said, n, 0, t)
  <2>1. 1..0 = {}
    OBVIOUS
  <2> QED
    BY <1>1, <1>2, <1>4, <1>5, <1>6, <1>7, <1>8, <2>1 DEF Left
<1> QED
  BY <1>1, <1>3, <1>9

\* Some of the body is heard.
LEMMA UnitsHeard ==
  ASSUME NEW body \in Seq(Nat), NEW said, NEW n, NEW h, NEW t, NEW r, Left(r, body, said, n, h, t),
         NEW m \in 1..Len(r), \A i \in 1..m : r[i].kind = "unit"
  PROVE  /\ IsPart([i \in 1..m |-> r[i].unit], body, n) /\ Len([i \in 1..m |-> r[i].unit]) = m
         /\ Left(SubSeq(r, m + 1, Len(r)), body, said, n + m, 0, t)
<1>1. /\ h = 0 /\ t \in {0, 1} /\ n \in 0..Len(body) /\ r \in Seq(Elements)
      /\ Len(r) = 0 + (Len(body) - n) + t + 1
  <2>1. r[1].kind = "unit"
    <3>1. 1 \in 1..m
      OBVIOUS
    <3> QED
      BY <3>1
  <2>2. /\ h \in {0, 1} /\ t \in {0, 1} /\ n \in 0..Len(body) /\ r \in Seq(Elements)
        /\ Len(r) = h + (Len(body) - n) + t + 1
        /\ h = 1 => r[1].kind = "headers"
    BY LeftHead
  <2>3. h = 0
    BY <2>1, <2>2
  <2> QED
    BY <2>2, <2>3
<1>2. PICK u \in Nat : u = Len(body) - n
  <2>1. Len(body) \in Nat
    OBVIOUS
  <2> QED
    BY <1>1, <2>1
<1>3. m <= u
  <2> SUFFICES ASSUME u + 1 \in 1..m
               PROVE  FALSE
    BY <1>2
  <2>1. r[u + 1].kind = "unit"
    OBVIOUS
  <2>2. CASE t = 1
    <3>1. 1 \in 1..t /\ 0 + (Len(body) - n) + 1 = u + 1
      BY <1>1, <1>2, <2>2
    <3>2. r[u + 1].kind = "trailers"
      BY <1>1, <3>1 DEF Left
    <3> QED
      BY <2>1, <3>2
  <2>3. CASE t = 0
    <3>1. Len(r) = u + 1
      BY <1>1, <1>2, <2>3
    <3>2. r[u + 1].kind = "end"
      BY <3>1 DEF Left
    <3> QED
      BY <2>1, <3>2
  <2> QED
    BY <1>1, <2>2, <2>3
<1>4. \A i \in 1..u : r[i].kind = "unit" /\ r[i].unit = body[n + i]
  <2> SUFFICES ASSUME NEW i \in 1..u
               PROVE  r[i].kind = "unit" /\ r[i].unit = body[n + i]
    OBVIOUS
  <2>1. 0 + i = i /\ i \in 1..Len(body) - n
    BY <1>1, <1>2
  <2>2. r[0 + i].kind = "unit" /\ r[0 + i].unit = body[n + i]
    BY <1>1, <2>1 DEF Left
  <2> QED
    BY <2>1, <2>2
<1>5. PICK f : f = [i \in 1..m |-> r[i].unit]
  OBVIOUS
<1>6. IsPart(f, body, n) /\ Len(f) = m
  <2>1. \A i \in 1..m : f[i] = body[n + i] /\ f[i] \in Nat
    <3> SUFFICES ASSUME NEW i \in 1..m
                 PROVE  f[i] = body[n + i] /\ f[i] \in Nat
      OBVIOUS
    <3>1. f[i] = r[i].unit
      BY <1>5
    <3>2. i \in 1..u /\ n + i \in 1..Len(body)
      BY <1>1, <1>2, <1>3
    <3>3. body[n + i] \in Nat
      BY <3>2
    <3> QED
      BY <1>4, <3>1, <3>2, <3>3
  <2>2. f \in [1..m -> Nat] /\ m \in Nat
    BY <1>5, <2>1
  <2>3. f \in Seq(Nat)
    BY <2>2, SeqDef
  <2>4. DOMAIN f = 1..m /\ DOMAIN f = 1..Len(f) /\ Len(f) \in Nat
    BY <2>2, <2>3, LenProperties
  <2>5. Len(f) = m
    BY <2>2, <2>4
  <2>6. n \in Nat /\ n + m <= Len(body)
    BY <1>1, <1>2, <1>3
  <2> QED
    BY <2>1, <2>3, <2>5, <2>6 DEF IsPart
<1>7. PICK rest : rest = SubSeq(r, m + 1, Len(r))
  OBVIOUS
<1>8. PICK v \in Nat : v = u - m
  BY <1>3
<1>9. /\ rest \in Seq(Elements) /\ Len(rest) = v + t + 1
      /\ \A i \in 1..v + t + 1 : rest[i] = r[m + i]
  <2>1. Len(r) = u + t + 1 /\ t \in Nat
    BY <1>1, <1>2
  <2>3. m \in 0..Len(r) /\ Len(r) - m = v + t + 1
    BY <1>3, <1>8, <2>1
  <2>2. /\ SubSeq(r, m + 1, Len(r)) \in Seq(Elements) /\ Len(SubSeq(r, m + 1, Len(r))) = Len(r) - m
        /\ \A i \in 1..Len(r) - m : SubSeq(r, m + 1, Len(r))[i] = r[m + i]
    BY <1>1, <2>3, Behind
  <2> QED
    BY <1>7, <2>2, <2>3
<1>10. /\ n + m \in 0..Len(body) /\ Len(body) - (n + m) = v
       /\ Len(rest) = 0 + (Len(body) - (n + m)) + t + 1
  BY <1>1, <1>2, <1>3, <1>8, <1>9
<1>11. \A i \in 1..v : rest[0 + i].kind = "unit" /\ rest[0 + i].unit = body[(n + m) + i]
  <2> SUFFICES ASSUME NEW i \in 1..v
               PROVE  rest[0 + i].kind = "unit" /\ rest[0 + i].unit = body[(n + m) + i]
    OBVIOUS
  <2>1. 0 + i = i /\ i \in 1..v + t + 1 /\ m + i \in 1..u /\ n + (m + i) = (n + m) + i
    <3>1. n \in Nat /\ t \in Nat
      BY <1>1
    <3> QED
      BY <1>8, <3>1
  <2>2. r[m + i].kind = "unit" /\ r[m + i].unit = body[n + (m + i)]
    BY <1>4, <2>1
  <2> QED
    BY <1>9, <2>1, <2>2
<1>12. \A i \in 1..t : rest[0 + v + i].kind = "trailers" /\ rest[0 + v + i].status \in said
  <2> SUFFICES ASSUME NEW i \in 1..t
               PROVE  rest[0 + v + i].kind = "trailers" /\ rest[0 + v + i].status \in said
    OBVIOUS
  <2>1. 0 + v + i \in 1..v + t + 1 /\ m + (0 + v + i) = 0 + (Len(body) - n) + i
    BY <1>1, <1>2, <1>8
  <2>2. r[0 + (Len(body) - n) + i].kind = "trailers" /\ r[0 + (Len(body) - n) + i].status \in said
    BY <1>1 DEF Left
  <2> QED
    BY <1>9, <2>1, <2>2
<1>13. rest[Len(rest)].kind = "end"
  <2>1. Len(rest) \in 1..v + t + 1 /\ m + Len(rest) = Len(r)
    BY <1>1, <1>2, <1>8, <1>9
  <2>2. r[Len(r)].kind = "end"
    BY DEF Left
  <2> QED
    BY <1>9, <2>1, <2>2
<1>14. Left(rest, body, said, n + m, 0, t)
  <2>1. 1..0 = {}
    OBVIOUS
  <2> QED
    BY <1>1, <1>9, <1>10, <1>11, <1>12, <1>13, <2>1 DEF Left
<1> QED
  BY <1>5, <1>6, <1>7, <1>14

\* The trailers are heard.
LEMMA TrailersHeard ==
  ASSUME NEW body \in Seq(Nat), NEW said, NEW n, NEW h, NEW t, NEW r, Left(r, body, said, n, h, t),
         r[1].kind = "trailers"
  PROVE  r[1].status \in said /\ Left(SubSeq(r, 2, Len(r)), body, said, n, 0, 0)
<1>1. /\ h = 0 /\ t = 1 /\ n = Len(body) /\ r \in Seq(Elements) /\ Len(r) = 2
      /\ r[1].status \in said
  <2>1. /\ h \in {0, 1} /\ t \in {0, 1} /\ n \in 0..Len(body) /\ r \in Seq(Elements)
        /\ Len(r) = h + (Len(body) - n) + t + 1
        /\ h = 1 => r[1].kind = "headers"
        /\ h = 0 /\ n < Len(body) => r[1].kind = "unit"
        /\ h = 0 /\ n = Len(body) /\ t = 1 => r[1].status \in said
        /\ h = 0 /\ n = Len(body) /\ t = 0 => r[1].kind = "end"
    BY LeftHead
  <2>2. h = 0
    BY <2>1
  <2>3. n = Len(body)
    <3>1. n < Len(body) \/ n = Len(body)
      BY <2>1
    <3> QED
      BY <2>1, <2>2, <3>1
  <2>4. t = 1
    BY <2>1, <2>2, <2>3
  <2>5. Len(r) = 2
    BY <2>1, <2>2, <2>3, <2>4
  <2> QED
    BY <2>1, <2>2, <2>3, <2>4, <2>5
<1>2. PICK rest : rest = SubSeq(r, 2, Len(r))
  OBVIOUS
<1>3. rest \in Seq(Elements) /\ Len(rest) = 1 /\ rest[1] = r[2]
  <2>1. 1 \in 0..Len(r) /\ Len(r) - 1 = 1 /\ 1 + 1 = 2 /\ 1 \in 1..1
    BY <1>1
  <2>2. /\ SubSeq(r, 1 + 1, Len(r)) \in Seq(Elements) /\ Len(SubSeq(r, 1 + 1, Len(r))) = Len(r) - 1
        /\ \A i \in 1..Len(r) - 1 : SubSeq(r, 1 + 1, Len(r))[i] = r[1 + i]
    BY <1>1, <2>1, Behind
  <2> QED
    BY <1>2, <2>1, <2>2
<1>4. rest[Len(rest)].kind = "end"
  <2>1. r[Len(r)].kind = "end"
    BY DEF Left
  <2> QED
    BY <1>1, <1>3, <2>1
<1>5. n \in 0..Len(body) /\ Len(body) - n = 0 /\ Len(rest) = 0 + (Len(body) - n) + 0 + 1 /\ 1..0 = {}
  BY <1>1, <1>3
<1>6. Left(rest, body, said, n, 0, 0)
  BY <1>3, <1>4, <1>5 DEF Left
<1> QED
  BY <1>1, <1>2, <1>6

\* The end is heard.
LEMMA EndHeard ==
  ASSUME NEW body \in Seq(Nat), NEW said, NEW n, NEW h, NEW t, NEW r, Left(r, body, said, n, h, t),
         r[1].kind = "end"
  PROVE  n = Len(body)
<1>1. /\ h \in {0, 1} /\ n \in 0..Len(body)
      /\ h = 1 => r[1].kind = "headers"
      /\ h = 0 /\ n < Len(body) => r[1].kind = "unit"
  BY LeftHead
<1>2. h = 0
  BY <1>1
<1>3. ~(n < Len(body))
  BY <1>1, <1>2
<1> QED
  BY <1>1, <1>3

-----------------------------------------------------------------------------
(* A whole call.                                                           *)

Streams ==
  [make : {"ours", "another"}, stage : {"reading", "running", "answered"},
   assembler : Assemblers, gone : BOOLEAN]
Askers ==
  [outcome : {"waiting", "rejected", "never told", "resolved"},
   status : Said \cup {Unset}, assembler : Assemblers]
Wholes == [asked : Seq(Nat), body : Seq(Nat), statuses : SUBSET Said]

CallTyped ==
  /\ request \in Seq(Nat) /\ runs \in {0, 1}
  /\ stream \in Streams /\ asker \in Askers /\ whole \in Wholes
  /\ Shaped(whole.asked) /\ Shaped(whole.body)

\* What has yet to arrive of the request is what the assembler has not taken.
Asking ==
  \E n \in Nat :
    /\ n + Len(request) = Len(whole.asked) /\ IsPart(request, whole.asked, n)
    /\ stream.stage = "reading" /\ ~stream.gone => HasTaken(stream.assembler, whole.asked, n)

AskedOne == request = <<>> /\ \E length \in 0..LongestMessage : whole.asked = Encoded(0, length)

Running ==
  /\ stream.stage = "reading" => runs = 0
  /\ stream.stage = "running" => runs = 1
  /\ runs = 1 => AskedOne

\* Nothing is said before it is answered.
Silent ==
  stream.stage # "answered" =>
    /\ reply = <<>> /\ whole.statuses = {} /\ asker.outcome # "resolved"
    /\ asker.assembler = Empty /\ asker.status = Unset

\* The service says that it went well of one message, and of nothing it refused.
WellSaid(body, statuses, ran) ==
  "ok" \in statuses =>
    /\ "refused" \notin statuses
    /\ OurService => ran = 1 /\ \E length \in 0..LongestMessage : body = Encoded(0, length)

\* What has yet to arrive of the answer is what the call has not taken.
Hearing(r, a) ==
  \E n \in Nat, h \in {0, 1}, t \in {0, 1} :
    /\ Left(r, whole.body, whole.statuses, n, h, t)
    /\ HasTaken(a.assembler, whole.body, n)
    /\ a.status \in whole.statuses \cup {Unset}

ResolvedWell ==
  /\ "ok" \in whole.statuses /\ "refused" \notin whole.statuses
  /\ \E length \in 0..LongestMessage :
       /\ IsPrefix(Encoded(0, length), whole.body)
       /\ ~Complete(SubSeq(whole.body, 3 + length, Len(whole.body)))
       /\ OurService => runs = 1 /\ whole.body = Encoded(0, length)

CallInv ==
  /\ CallTyped /\ Asking /\ Running /\ Silent
  /\ WellSaid(whole.body, whole.statuses, runs)
  /\ Listening /\ reply # <<>> => Hearing(reply, asker)
  /\ asker.outcome = "resolved" => ResolvedWell

LEMMA NothingTaken ==
  ASSUME NEW all \in Seq(Nat)
  PROVE  HasTaken(Empty, all, 0) /\ Empty \in Assemblers
<1>1. <<>> \in Seq(Nat) /\ Len(<<>>) = 0 /\ 1..0 = {} /\ Len(all) \in Nat
  OBVIOUS
<1>2. ~Complete(<<>>)
  BY <1>1 DEF Complete
<1>3. 0 + 0 = 0 /\ 0 <= Len(all) /\ 0 \in 0..Len(all) /\ 0 # 1
  BY <1>1
<1>4. IsPart(<<>>, all, 0)
  BY <1>1, <1>3 DEF IsPart
<1>5. Taken(<<>>, 0, all, 0)
  BY <1>1, <1>2, <1>3, <1>4 DEF Taken
<1>6. Empty \in Assemblers /\ Empty.held = <<>> /\ Empty.decoded = 0
  BY <1>1 DEF Empty, Assemblers
<1> QED
  BY <1>5, <1>6 DEF HasTaken

LEMMA CallStart == CallsInit => CallInv
<1> SUFFICES ASSUME CallsInit
             PROVE  CallInv
  OBVIOUS
<1>1. PICK make \in {"ours", "another"} :
        /\ request \in IF make = "ours" THEN Bodies ELSE {<<>>}
        /\ stream = [make |-> make, stage |-> "reading", assembler |-> Empty, gone |-> FALSE]
  BY DEF CallsInit
<1>2. /\ reply = <<>> /\ asker = [outcome |-> "waiting", status |-> Unset, assembler |-> Empty]
      /\ runs = 0 /\ whole = [asked |-> request, body |-> <<>>, statuses |-> {}]
  BY DEF CallsInit
<1>3. <<>> \in Seq(Nat) /\ Shaped(<<>>)
  <2>1. Len(<<>>) = 0 /\ 3..0 = {}
    OBVIOUS
  <2> QED
    BY <2>1 DEF Shaped
<1>4. request \in Seq(Nat) /\ Shaped(request)
  BY <1>1, <1>3, BodiesShaped
<1>5. PICK all \in Seq(Nat) : all = request
  BY <1>4
<1>6. HasTaken(Empty, all, 0) /\ Empty \in Assemblers
  BY NothingTaken
<1>7. whole.asked = all /\ whole.body = <<>> /\ whole.statuses = {}
  BY <1>2, <1>5
<1>8. stream.stage = "reading" /\ stream.assembler = Empty
  BY <1>1
<1>9. asker.outcome = "waiting" /\ asker.status = Unset /\ asker.assembler = Empty
  BY <1>2
<1>10. CallTyped
  <2>1. whole \in Wholes
    BY <1>2, <1>3, <1>4 DEF Wholes
  <2>2. stream \in Streams
    BY <1>1, <1>6 DEF Streams
  <2>3. asker \in Askers
    BY <1>2, <1>6 DEF Askers
  <2>4. Shaped(whole.asked) /\ Shaped(whole.body)
    BY <1>3, <1>4, <1>5, <1>7
  <2> QED
    BY <1>2, <1>4, <2>1, <2>2, <2>3, <2>4 DEF CallTyped
<1>11. Asking
  <2>1. Len(all) \in Nat /\ 0 + Len(all) = Len(all) /\ \A i \in 1..Len(all) : 0 + i = i
    OBVIOUS
  <2>2. IsPart(all, all, 0)
    BY <2>1 DEF IsPart
  <2> QED
    BY <1>5, <1>6, <1>7, <1>8, <2>1, <2>2 DEF Asking
<1>12. Running /\ Silent
  BY <1>2, <1>7, <1>8, <1>9 DEF Running, Silent
<1>13. WellSaid(whole.body, whole.statuses, runs)
  BY <1>7 DEF WellSaid
<1> QED
  BY <1>2, <1>9, <1>10, <1>11, <1>12, <1>13 DEF CallInv

\* What is said, once, of a stream that is there.
LEMMA SaysKeeps ==
  ASSUME CallInv, NEW http \in {200, 503}, NEW first \in Said \cup {Unset}, NEW body \in Seq(Nat),
         NEW last \in Said \cup {Unset}, Shaped(body),
         WellSaid(body, {first, last} \ {Unset}, runs), stream.stage # "answered",
         Says(http, first, body, last), Asking', UNCHANGED <<asker, runs>>, request' \in Seq(Nat),
         runs = 1 => UNCHANGED request
  PROVE  CallInv'
<1>1. stream' = [stream EXCEPT !.stage = "answered"]
  BY DEF Says
<1>2. /\ stream'.stage = "answered" /\ stream'.make = stream.make
      /\ stream' \in Streams
  <2>1. stream \in Streams
    BY DEF CallInv, CallTyped
  <2> QED
    BY <1>1, <2>1 DEF Streams
<1>3. Silent' /\ asker.outcome # "resolved"
  BY <1>2 DEF Silent, CallInv
<1>4. OurService' = OurService
  BY <1>2 DEF OurService
<1>5. CASE Settled
  <2>1. UNCHANGED <<reply, whole>>
    BY <1>5 DEF Says
  <2>2. reply = <<>>
    BY DEF CallInv, Silent
  <2>3. CallTyped'
    <3>1. /\ asker' = asker /\ runs' = runs /\ whole' = whole
      BY <2>1
    <3>2. request' \in Seq(Nat)
      OBVIOUS
    <3>3. CallTyped
      BY DEF CallInv
    <3> QED
      BY ONLY <1>2, <3>1, <3>2, <3>3 DEF CallTyped
  <2>4. Running'
    BY <1>2, <2>1 DEF CallInv, Running, AskedOne
  <2>5. WellSaid(whole.body, whole.statuses, runs)'
    BY <1>4, <2>1 DEF CallInv, WellSaid
  <2> QED
    BY <1>3, <2>1, <2>2, <2>3, <2>4, <2>5 DEF CallInv
<1>6. CASE ~Settled
  <2>1. /\ reply' = Answer(http, first, body, last)
        /\ whole' = [whole EXCEPT !.body = body, !.statuses = {first, last} \ {Unset}]
    BY <1>6 DEF Says
  <2>2. {first, last} \ {Unset} \subseteq Said
    OBVIOUS
  <2>3. /\ whole' \in Wholes
        /\ whole'.asked = whole.asked /\ whole'.body = body
        /\ whole'.statuses = {first, last} \ {Unset}
    <3>1. whole \in Wholes
      BY DEF CallInv, CallTyped
    <3> DEFINE said == {first, last} \ {Unset}
    <3>2. said \in SUBSET Said
      BY <2>2
    <3>3. whole' = [whole EXCEPT !.body = body, !.statuses = said]
      BY <2>1
    <3> HIDE DEF said
    <3>4. whole' \in Wholes /\ whole'.asked = whole.asked /\ whole'.body = body /\ whole'.statuses = said
      BY ONLY <3>1, <3>2, <3>3, body \in Seq(Nat) DEF Wholes
    <3> QED
      BY <3>4 DEF said
  <2>4. CallTyped'
    <3>1. Shaped(whole'.asked) /\ Shaped(whole'.body)
      BY <2>3 DEF CallInv, CallTyped
    <3>2. asker' = asker /\ runs' = runs
      OBVIOUS
    <3>3. request' \in Seq(Nat)
      OBVIOUS
    <3>4. CallTyped
      BY DEF CallInv
    <3> QED
      BY ONLY <1>2, <2>3, <3>1, <3>2, <3>3, <3>4 DEF CallTyped
  <2>5. Running'
    BY <1>2, <2>3 DEF CallInv, Running, AskedOne
  <2>6. WellSaid(whole.body, whole.statuses, runs)'
    BY <1>4, <2>3 DEF WellSaid
  <2>7. ASSUME Listening'
        PROVE  Hearing(reply, asker)'
    <3>1. PICK t \in {0, 1} :
            Left(Answer(http, first, body, last), body, {first, last} \ {Unset}, 0, 1, t)
      BY ONLY AnswerIsLeft, http \in {200, 503}, first \in Said \cup {Unset}, body \in Seq(Nat),
         last \in Said \cup {Unset}
    <3>2. Left(reply', whole'.body, whole'.statuses, 0, 1, t)
      BY <2>1, <2>3, <3>1
    <3>3. HasTaken(asker'.assembler, whole'.body, 0)
      BY <2>3, NothingTaken DEF CallInv, Silent
    <3>4. asker'.status \in whole'.statuses \cup {Unset}
      BY DEF CallInv, Silent
    <3>5. 0 \in Nat /\ 1 \in {0, 1}
      OBVIOUS
    <3> QED
      BY <3>2, <3>3, <3>4, <3>5 DEF Hearing
  <2> QED
    BY <1>3, <2>4, <2>5, <2>6, <2>7 DEF CallInv
<1> QED
  BY <1>5, <1>6

\* What the call does for itself.
LEMMA AskerKeeps ==
  ASSUME CallInv, UNCHANGED <<request, stream, runs, whole>>, stream.stage = "answered",
         asker' \in Askers,
         Listening' /\ reply' # <<>> => Hearing(reply, asker)',
         asker'.outcome = "resolved" => ResolvedWell
  PROVE  CallInv'
<1>1. CallTyped' /\ Asking' /\ Running'
  BY DEF CallInv, CallTyped, Asking, Running, AskedOne
<1>2. Silent'
  BY DEF Silent
<1>3. WellSaid(whole.body, whole.statuses, runs)'
  BY DEF CallInv, WellSaid, OurService
<1>4. asker'.outcome = "resolved" => ResolvedWell'
  BY DEF ResolvedWell, OurService
<1> QED
  BY <1>1, <1>2, <1>3, <1>4 DEF CallInv

LEMMA SaidOnce ==
  ASSUME CallInv, NEW http, NEW first, NEW body, NEW last, Says(http, first, body, last)
  PROVE  whole'.asked = whole.asked /\ stream'.stage = "answered"
<1>1. whole \in Wholes /\ stream \in Streams
  BY DEF CallInv, CallTyped
<1>2. stream'.stage = "answered"
  BY <1>1 DEF Says, Streams
<1>3. whole'.asked = whole.asked
  BY <1>1 DEF Says, Wholes
<1> QED
  BY <1>2, <1>3

\* Nothing more of the request has arrived.
LEMMA AskingStays ==
  ASSUME CallInv, UNCHANGED request, whole'.asked = whole.asked,
         stream'.stage = "reading" /\ ~stream'.gone =>
           stream.stage = "reading" /\ ~stream.gone /\ stream'.assembler = stream.assembler
  PROVE  Asking'
BY DEF CallInv, Asking

\* Some of it has, and nothing is made of it any more.
LEMMA AskingOn ==
  ASSUME CallInv, NEW k \in 1..Len(request), request' = SubSeq(request, k + 1, Len(request)),
         whole'.asked = whole.asked, stream'.stage = "answered"
  PROVE  Asking' /\ request' \in Seq(Nat) /\ runs = 0
<1>1. whole.asked \in Seq(Nat) /\ request \in Seq(Nat) /\ runs \in {0, 1}
  BY DEF CallInv, CallTyped, Wholes
<1>2. PICK n \in Nat : n + Len(request) = Len(whole.asked) /\ IsPart(request, whole.asked, n)
  BY DEF CallInv, Asking
<1>3. PICK all \in Seq(Nat) : all = whole.asked
  BY <1>1
<1>4. PICK s \in Seq(Nat) : s = request
  BY <1>1
<1>5. k \in 0..Len(s) /\ IsPart(s, all, n)
  BY <1>2, <1>3, <1>4
<1>6. /\ IsPart(SubSeq(s, k + 1, Len(s)), all, n + k)
      /\ Len(SubSeq(s, k + 1, Len(s))) = Len(s) - k
  BY ONLY <1>5, PartsPart, all \in Seq(Nat), n \in Nat
<1>7. IsPart(request', all, n + k) /\ Len(request') = Len(s) - k
  BY <1>4, <1>6
<1>8. n + k \in Nat /\ (n + k) + (Len(s) - k) = Len(all)
  <2>1. n + Len(s) = Len(all)
    BY <1>2, <1>3, <1>4
  <2>2. k \in Nat /\ k <= Len(s) /\ Len(s) \in Nat
    BY <1>5
  <2>3. n + k \in Nat /\ (n + k) + (Len(s) - k) = n + Len(s)
    BY ONLY <2>2, n \in Nat
  <2> QED
    BY <2>1, <2>3
<1>9. Asking'
  BY <1>3, <1>7, <1>8 DEF Asking
<1>10. request' \in Seq(Nat)
  BY <1>7 DEF IsPart
<1>11. runs = 0
  <2>1. request # <<>>
    BY <1>4
  <2> QED
    BY <1>1, <2>1 DEF CallInv, Running, AskedOne
<1> QED
  BY <1>9, <1>10, <1>11

LEMMA NothingShaped == <<>> \in Seq(Nat) /\ Shaped(<<>>)
<1>1. <<>> \in Seq(Nat) /\ Len(<<>>) = 0 /\ 3..0 = {}
  OBVIOUS
<1> QED
  BY <1>1 DEF Shaped

\* A status and nothing else.
LEMMA StatusKeeps ==
  ASSUME CallInv, NEW status \in {"raised", "refused"}, SaysStatus(status),
         stream.stage # "answered", Asking', UNCHANGED <<asker, runs>>, request' \in Seq(Nat),
         runs = 1 => UNCHANGED request
  PROVE  CallInv'
<1>1. Says(200, status, <<>>, Unset)
  BY DEF SaysStatus
<1>2. "ok" \notin {status, Unset} \ {Unset}
  BY CallsAssumption
<1>3. WellSaid(<<>>, {status, Unset} \ {Unset}, runs)
  BY <1>2 DEF WellSaid
<1>4. status \in Said \cup {Unset} /\ Unset \in Said \cup {Unset} /\ 200 \in {200, 503}
  BY DEF Said
<1> QED
  BY <1>1, <1>3, <1>4, NothingShaped, SaysKeeps

LEMMA NotServedKeeps ==
  ASSUME CallInv, NotServed
  PROVE  CallInv'
<1>1. /\ SaysStatus("refused") /\ UNCHANGED <<request, asker, runs>> /\ stream.stage # "answered"
  BY DEF NotServed
<1>2. whole'.asked = whole.asked /\ stream'.stage = "answered"
  BY <1>1, SaidOnce DEF SaysStatus
<1>3. Asking'
  BY <1>1, <1>2, AskingStays
<1>4. request' \in Seq(Nat)
  BY <1>1 DEF CallInv, CallTyped
<1> QED
  BY <1>1, <1>3, <1>4, StatusKeeps

LEMMA RequestArrivesKeeps ==
  ASSUME CallInv, RequestArrives
  PROVE  CallInv'
<1> DEFINE chunk(k) == SubSeq(request, 1, k)
<1>1. request # <<>> /\ ~stream.gone /\ UNCHANGED <<asker, runs>>
  BY DEF RequestArrives
<1>2. PICK k \in 1..Len(request) :
        /\ request' = SubSeq(request, k + 1, Len(request))
        /\ LET pushed == Pushed(stream.assembler, chunk(k))
           IN IF Settled THEN UNCHANGED <<reply, stream, whole>>
              ELSE IF pushed = {} THEN SaysStatus("refused")
              ELSE /\ \E a \in pushed : stream' = [stream EXCEPT !.assembler = a]
                   /\ UNCHANGED <<reply, whole>>
  BY DEF RequestArrives
<1>3. stream \in Streams /\ asker \in Askers /\ whole \in Wholes /\ request \in Seq(Nat) /\ runs \in {0, 1}
  BY DEF CallInv, CallTyped
<1>4. runs = 0
  BY <1>1, <1>3 DEF CallInv, Running, AskedOne
<1>5. CASE Settled
  <2>1. UNCHANGED <<reply, stream, whole>> /\ stream.stage = "answered"
    BY <1>1, <1>2, <1>5 DEF Settled
  <2>2. Asking' /\ request' \in Seq(Nat)
    BY <1>2, <2>1, AskingOn
  <2>3. CallTyped'
    BY <1>1, <2>1, <2>2 DEF CallInv, CallTyped
  <2>4. Running'
    BY <1>1, <1>4, <2>1 DEF Running
  <2>5. Silent'
    BY <2>1 DEF Silent
  <2>6. WellSaid(whole.body, whole.statuses, runs)'
    BY <1>1, <2>1 DEF CallInv, WellSaid, OurService
  <2>7. (Listening /\ reply # <<>> => Hearing(reply, asker))'
    BY <1>1, <2>1 DEF CallInv, Listening, Hearing
  <2>8. (asker.outcome = "resolved" => ResolvedWell)'
    BY <1>1, <2>1 DEF CallInv, ResolvedWell, OurService
  <2> QED
    BY <2>2, <2>3, <2>4, <2>5, <2>6, <2>7, <2>8 DEF CallInv
<1>6. CASE ~Settled /\ Pushed(stream.assembler, chunk(k)) = {}
  <2>1. SaysStatus("refused") /\ stream.stage # "answered"
    BY <1>2, <1>6 DEF Settled
  <2>2. whole'.asked = whole.asked /\ stream'.stage = "answered"
    BY <2>1, SaidOnce DEF SaysStatus
  <2>3. Asking' /\ request' \in Seq(Nat)
    BY <1>2, <2>2, AskingOn
  <2>4. runs = 1 => UNCHANGED request
    BY <1>4
  <2> QED
    BY <1>1, <2>1, <2>3, <2>4, StatusKeeps
<1>7. CASE ~Settled /\ Pushed(stream.assembler, chunk(k)) # {}
  <2>1. /\ UNCHANGED <<reply, whole>> /\ stream.stage # "answered"
        /\ \E a \in Pushed(stream.assembler, chunk(k)) : stream' = [stream EXCEPT !.assembler = a]
    BY <1>2, <1>7 DEF Settled
  <2>2. PICK a \in Pushed(stream.assembler, chunk(k)) : stream' = [stream EXCEPT !.assembler = a]
    BY <2>1
  <2>3. stream.stage = "reading"
    BY <1>3, <1>4, <2>1 DEF CallInv, Running, Streams
  <2>4. PICK n \in Nat : /\ n + Len(request) = Len(whole.asked) /\ IsPart(request, whole.asked, n)
                         /\ HasTaken(stream.assembler, whole.asked, n)
    BY <1>1, <2>3 DEF CallInv, Asking
  <2>5. PICK all \in Seq(Nat) : all = whole.asked
    BY <1>3 DEF Wholes
  <2>6. PICK s \in Seq(Nat) : s = request
    BY <1>3
  <2>7. k \in 0..Len(s) /\ IsPart(s, all, n)
    BY <2>4, <2>5, <2>6
  <2>8. /\ IsPart(SubSeq(s, 1, k), all, n) /\ Len(SubSeq(s, 1, k)) = k
        /\ IsPart(SubSeq(s, k + 1, Len(s)), all, n + k)
        /\ Len(SubSeq(s, k + 1, Len(s))) = Len(s) - k
    BY ONLY <2>7, PartsPart, all \in Seq(Nat), n \in Nat
  <2>9. PICK old : old = stream.assembler
    OBVIOUS
  <2>10. PICK piece : piece = SubSeq(s, 1, k)
    OBVIOUS
  <2>11. HasTaken(old, all, n) /\ IsPart(piece, all, n) /\ a \in Pushed(old, piece) /\ Len(piece) = k
    BY <2>2, <2>4, <2>5, <2>6, <2>8, <2>9, <2>10
  <2>12. HasTaken(a, all, n + k)
    <3>1. HasTaken(a, all, n + Len(piece))
      BY ONLY <2>11, PushTakes, all \in Seq(Nat), n \in Nat
    <3> QED
      BY <2>11, <3>1
  <2>13. IsPart(request', all, n + k) /\ Len(request') = Len(s) - k
    BY <1>2, <2>6, <2>8
  <2>14. request' \in Seq(Nat)
    BY <2>13 DEF IsPart
  <2>15. a \in Assemblers
    BY <2>12 DEF HasTaken
  <2>16. /\ stream' \in Streams /\ stream'.assembler = a /\ stream'.stage = "reading"
         /\ stream'.make = stream.make /\ stream'.gone = stream.gone
    BY <1>3, <2>2, <2>3, <2>15 DEF Streams
  <2>17. n + k \in Nat /\ (n + k) + (Len(s) - k) = Len(all)
    <3>1. n + Len(s) = Len(all)
      BY <2>4, <2>5, <2>6
    <3>2. k \in Nat /\ k <= Len(s) /\ Len(s) \in Nat
      BY <2>7
    <3> QED
      BY ONLY <3>1, <3>2, n \in Nat, SMTT(30)
  <2>18. Asking'
    <3>1. whole'.asked = all
      BY <2>1, <2>5
    <3> QED
      BY <2>12, <2>13, <2>16, <2>17, <3>1 DEF Asking
  <2>19. CallTyped'
    BY <1>1, <2>1, <2>14, <2>16 DEF CallInv, CallTyped
  <2>20. Running'
    BY <1>1, <1>4, <2>16 DEF Running
  <2>21. Silent'
    BY <1>1, <2>1, <2>16 DEF CallInv, Silent
  <2>22. WellSaid(whole.body, whole.statuses, runs)'
    BY <1>1, <2>1, <2>16 DEF CallInv, WellSaid, OurService
  <2>23. reply' = <<>> /\ asker'.outcome # "resolved"
    BY <1>1, <2>1 DEF CallInv, Silent
  <2> QED
    BY <2>18, <2>19, <2>20, <2>21, <2>22, <2>23 DEF CallInv
<1> QED
  BY <1>5, <1>6, <1>7

LEMMA RequestEndsKeeps ==
  ASSUME CallInv, RequestEnds
  PROVE  CallInv'
<1>1. /\ request = <<>> /\ stream.stage = "reading" /\ ~stream.gone /\ UNCHANGED <<request, asker>>
  BY DEF RequestEnds, Settled
<1>2. stream \in Streams /\ asker \in Askers /\ whole \in Wholes /\ runs = 0
  BY <1>1 DEF CallInv, CallTyped, Running
<1>3. CASE CarriesOne(stream.assembler)
  <2>1. stream' = [stream EXCEPT !.stage = "running"] /\ runs' = runs + 1 /\ UNCHANGED <<reply, whole>>
    BY <1>3 DEF RequestEnds
  <2>2. /\ stream' \in Streams /\ stream'.stage = "running" /\ stream'.make = stream.make
    BY <1>2, <2>1 DEF Streams
  <2>3. runs' = 1
    BY <1>2, <2>1
  <2>4. PICK n \in Nat : /\ n + Len(request) = Len(whole.asked)
                         /\ HasTaken(stream.assembler, whole.asked, n)
    BY <1>1 DEF CallInv, Asking
  <2>5. PICK all \in Seq(Nat) : all = whole.asked /\ Shaped(all)
    BY <1>2 DEF Wholes, CallInv, CallTyped
  <2>6. n = Len(all)
    <3>1. Len(request) = 0
      BY <1>1
    <3> QED
      BY <2>4, <2>5, <3>1
  <2>7. Taken(<<>>, 1, all, Len(all))
    BY <1>3, <2>4, <2>5, <2>6 DEF CarriesOne, HasTaken
  <2>8. \E length \in 0..LongestMessage : all = Encoded(0, length)
    BY ONLY <2>5, <2>7, TakenAll, all \in Seq(Nat)
  <2>9. AskedOne'
    BY <1>1, <2>1, <2>5, <2>8 DEF AskedOne
  <2>10. Asking'
    BY <1>1, <2>1, <2>2, AskingStays
  <2>11. CallTyped'
    BY <1>1, <2>1, <2>2, <2>3 DEF CallInv, CallTyped
  <2>12. Running'
    BY <2>2, <2>3, <2>9 DEF Running
  <2>13. Silent'
    BY <1>1, <2>1 DEF CallInv, Silent
  <2>14. WellSaid(whole.body, whole.statuses, runs)'
    BY <1>1, <2>1 DEF CallInv, Silent, WellSaid
  <2>15. reply' = <<>> /\ asker'.outcome # "resolved"
    BY <1>1, <2>1 DEF CallInv, Silent
  <2> QED
    BY <2>10, <2>11, <2>12, <2>13, <2>14, <2>15 DEF CallInv
<1>4. CASE ~CarriesOne(stream.assembler)
  <2>1. SaysStatus("refused") /\ UNCHANGED runs
    BY <1>4 DEF RequestEnds
  <2>2. whole'.asked = whole.asked /\ stream'.stage = "answered"
    BY <2>1, SaidOnce DEF SaysStatus
  <2>3. Asking'
    BY <1>1, <2>2, AskingStays
  <2>4. request' \in Seq(Nat)
    BY <1>1 DEF CallInv, CallTyped
  <2> QED
    BY <1>1, <2>1, <2>3, <2>4, StatusKeeps
<1> QED
  BY <1>3, <1>4

\* What the method came to.
LEMMA MethodKeeps ==
  ASSUME CallInv, MethodReturns \/ MethodRaises
  PROVE  CallInv'
<1>1. stream.stage = "running" /\ UNCHANGED <<request, asker, runs>>
  BY DEF MethodReturns, MethodRaises
<1>2. runs = 1 /\ request' \in Seq(Nat) /\ stream.stage # "answered"
  BY <1>1 DEF CallInv, CallTyped, Running
<1>3. CASE MethodReturns
  <2>1. PICK length \in 0..LongestMessage : Says(200, Unset, Encoded(0, length), "ok")
    BY <1>3 DEF MethodReturns
  <2>2. length \in Nat /\ 0 \in {0, 1}
    BY CallsAssumption
  <2>3. PICK body \in Seq(Nat) : body = Encoded(0, length)
    BY <2>2, EncodedFacts
  <2>4. Shaped(body)
    <3>1. Len(body) = 2 + length /\ \A i \in 3..2 + length : body[i] = 1
      BY <2>2, <2>3, EncodedFacts
    <3> QED
      BY <3>1 DEF Shaped
  <2>5. "refused" \notin {Unset, "ok"} \ {Unset}
    BY CallsAssumption
  <2>6. WellSaid(body, {Unset, "ok"} \ {Unset}, runs)
    BY <1>2, <2>3, <2>5 DEF WellSaid
  <2>7. Says(200, Unset, body, "ok")
    BY <2>1, <2>3
  <2>8. whole'.asked = whole.asked /\ stream'.stage = "answered"
    BY <2>7, SaidOnce
  <2>9. Asking'
    BY <1>1, <2>8, AskingStays
  <2>10. Unset \in Said \cup {Unset} /\ "ok" \in Said \cup {Unset} /\ 200 \in {200, 503}
    BY DEF Said
  <2> QED
    BY <1>1, <1>2, <2>4, <2>6, <2>7, <2>9, <2>10, SaysKeeps, ZenonT(40)
<1>4. CASE MethodRaises
  <2>1. SaysStatus("raised")
    BY <1>4 DEF MethodRaises
  <2>2. whole'.asked = whole.asked /\ stream'.stage = "answered"
    BY <2>1, SaidOnce DEF SaysStatus
  <2>3. Asking'
    BY <1>1, <2>2, AskingStays
  <2> QED
    BY <1>1, <1>2, <2>1, <2>3, StatusKeeps
<1> QED
  BY <1>3, <1>4

LEMMA ForeignKeeps ==
  ASSUME CallInv, NEW body \in Bodies, ForeignAnswer(body)
  PROVE  CallInv'
<1>1. /\ ~OurService /\ stream.stage = "reading" /\ UNCHANGED <<request, asker, runs>>
  BY DEF ForeignAnswer
<1>2. PICK http \in {200, 503}, first \in Said \cup {Unset}, last \in Said \cup {Unset} :
        /\ Says(http, first, body, last)
        /\ first # "refused" /\ last # "refused"
  <2>1. PICK http \in {200, 503}, first \in {Unset, "ok", "raised"}, last \in {Unset, "ok", "raised"} :
          Says(http, first, body, last)
    BY DEF ForeignAnswer
  <2>2. \A status \in {Unset, "ok", "raised"} : status \in Said \cup {Unset} /\ status # "refused"
    BY CallsAssumption DEF Said
  <2> QED
    BY <2>1, <2>2
<1>3. PICK b \in Seq(Nat) : b = body /\ Shaped(b)
  BY BodiesShaped
<1>4. "refused" \notin {first, last} \ {Unset}
  BY <1>2
<1>5. WellSaid(b, {first, last} \ {Unset}, runs)
  BY <1>1, <1>4 DEF WellSaid
<1>6. Says(http, first, b, last)
  BY <1>2, <1>3
<1>7. whole'.asked = whole.asked /\ stream'.stage = "answered"
  BY <1>6, SaidOnce
<1>8. Asking'
  BY <1>1, <1>7, AskingStays
<1>9. request' \in Seq(Nat) /\ stream.stage # "answered" /\ (runs = 1 => UNCHANGED request)
  BY <1>1 DEF CallInv, CallTyped
<1> QED
  BY <1>1, <1>3, <1>5, <1>6, <1>8, <1>9, SaysKeeps

\* The call is let go of without an answer.
LEMMA LetGo ==
  ASSUME CallInv, NEW outcome \in {"rejected", "never told"}, Concludes(outcome)
  PROVE  CallInv'
<1>1. /\ asker' = [asker EXCEPT !.outcome = outcome]
      /\ UNCHANGED <<request, reply, stream, runs, whole>>
  BY DEF Concludes
<1>2. asker \in Askers
  BY DEF CallInv, CallTyped
<1>3. /\ asker' \in Askers /\ asker'.outcome = outcome /\ asker'.status = asker.status
      /\ asker'.assembler = asker.assembler
  BY <1>1, <1>2 DEF Askers
<1>4. CallTyped'
  BY <1>1, <1>3 DEF CallInv, CallTyped
<1>5. Asking' /\ Running'
  BY <1>1 DEF CallInv, Asking, Running, AskedOne
<1>6. Silent'
  BY <1>1, <1>3 DEF CallInv, Silent
<1>7. WellSaid(whole.body, whole.statuses, runs)'
  BY <1>1 DEF CallInv, WellSaid, OurService
<1>8. ~Listening' /\ asker'.outcome # "resolved"
  BY <1>3 DEF Listening
<1> QED
  BY <1>4, <1>5, <1>6, <1>7, <1>8 DEF CallInv

\* What the call hears, of which kind it is.
LEMMA HearsLeft ==
  ASSUME CallInv, NEW kind, First(kind)
  PROVE  /\ Listening /\ stream.stage = "answered" /\ asker \in Askers /\ whole.body \in Seq(Nat)
         /\ whole.statuses \subseteq Said /\ reply \in Seq(Elements)
         /\ Len(reply) \in Nat /\ Len(reply) > 0
         /\ Head(reply) = reply[1] /\ reply[1].kind = kind
         /\ Hearing(reply, asker)
<1>1. Listening /\ reply # <<>> /\ Head(reply).kind = kind
  BY DEF First
<1>2. stream.stage = "answered"
  BY <1>1 DEF CallInv, Silent
<1>3. asker \in Askers /\ whole.body \in Seq(Nat) /\ whole.statuses \subseteq Said
  BY DEF CallInv, CallTyped, Wholes
<1>4. Hearing(reply, asker)
  BY <1>1 DEF CallInv
<1>5. reply \in Seq(Elements)
  BY <1>4 DEF Hearing, Left
<1>6. Len(reply) \in Nat /\ Len(reply) > 0
  BY <1>1, <1>5
<1>7. Head(reply) = reply[1]
  BY <1>1, <1>5
<1> QED
  BY <1>1, <1>2, <1>3, <1>4, <1>5, <1>6, <1>7

LEMMA HearsHeadersKeeps ==
  ASSUME CallInv, HearsHeaders
  PROVE  CallInv'
<1>1. First("headers")
  BY DEF HearsHeaders
<1>2. /\ Listening /\ stream.stage = "answered" /\ asker \in Askers /\ whole.body \in Seq(Nat)
      /\ whole.statuses \subseteq Said /\ reply \in Seq(Elements)
      /\ Head(reply) = reply[1] /\ reply[1].kind = "headers"
      /\ Hearing(reply, asker)
  BY <1>1, HearsLeft
<1>3. CASE Reject
  BY <1>3, LetGo DEF Reject
<1>4. CASE asker' = [asker EXCEPT !.status = Head(reply).status] /\ GoesOn(1)
  <2>1. reply' = SubSeq(reply, 2, Len(reply)) /\ UNCHANGED <<request, stream, runs, whole>>
    <3>1. 1 + 1 = 2
      OBVIOUS
    <3> QED
      BY <1>4, <3>1 DEF GoesOn
  <2>2. PICK n \in Nat, h \in {0, 1}, t \in {0, 1} :
          /\ Left(reply, whole.body, whole.statuses, n, h, t)
          /\ HasTaken(asker.assembler, whole.body, n)
    BY <1>2 DEF Hearing
  <2>3. PICK body \in Seq(Nat), said \in SUBSET Said, r \in Seq(Elements) :
          body = whole.body /\ said = whole.statuses /\ r = reply
    BY <1>2
  <2>13. PICK status, old : status = reply[1].status /\ old = asker.assembler
    OBVIOUS
  <2>4. Left(r, body, said, n, h, t) /\ r[1].kind = "headers" /\ HasTaken(old, body, n)
    BY <1>2, <2>2, <2>3, <2>13
  <2>5. r[1].status \in said \cup {Unset} /\ Left(SubSeq(r, 2, Len(r)), body, said, n, 0, t)
    BY ONLY <2>4, HeadersHeard, body \in Seq(Nat)
  <2>6. status \in said \cup {Unset} /\ status \in Said \cup {Unset}
    BY <2>3, <2>13, <2>5
  <2>7. asker' = [asker EXCEPT !.status = status]
    BY <1>2, <1>4, <2>3, <2>13
  <2>8. /\ asker' \in Askers /\ asker'.status = status /\ asker'.assembler = asker.assembler
        /\ asker'.outcome = asker.outcome
    BY <1>2, <2>6, <2>7 DEF Askers
  <2>9. Left(reply', whole'.body, whole'.statuses, n, 0, t)
    BY <2>1, <2>3, <2>13, <2>5
  <2>10. HasTaken(asker'.assembler, whole'.body, n) /\ asker'.status \in whole'.statuses \cup {Unset}
    BY <2>1, <2>2, <2>3, <2>13, <2>6, <2>8
  <2>11. Hearing(reply, asker)'
    BY <2>9, <2>10 DEF Hearing
  <2>12. asker'.outcome # "resolved"
    BY <1>2, <2>8 DEF Listening
  <2> QED
    BY <1>2, <2>1, <2>8, <2>11, <2>12, AskerKeeps
<1> QED
  BY <1>3, <1>4 DEF HearsHeaders

LEMMA HearsTrailersKeeps ==
  ASSUME CallInv, HearsTrailers
  PROVE  CallInv'
<1>1. First("trailers") /\ asker' = [asker EXCEPT !.status = Head(reply).status] /\ GoesOn(1)
  BY DEF HearsTrailers
<1>2. /\ Listening /\ stream.stage = "answered" /\ asker \in Askers /\ whole.body \in Seq(Nat)
      /\ whole.statuses \subseteq Said /\ reply \in Seq(Elements)
      /\ Head(reply) = reply[1] /\ reply[1].kind = "trailers"
      /\ Hearing(reply, asker)
  BY <1>1, HearsLeft
<1>3. reply' = SubSeq(reply, 2, Len(reply)) /\ UNCHANGED <<request, stream, runs, whole>>
  <2>1. 1 + 1 = 2
    OBVIOUS
  <2> QED
    BY <1>1, <2>1 DEF GoesOn
<1>4. PICK n \in Nat, h \in {0, 1}, t \in {0, 1} :
        /\ Left(reply, whole.body, whole.statuses, n, h, t)
        /\ HasTaken(asker.assembler, whole.body, n)
  BY <1>2 DEF Hearing
<1>5. PICK body \in Seq(Nat), said \in SUBSET Said, r \in Seq(Elements) :
        body = whole.body /\ said = whole.statuses /\ r = reply
  BY <1>2
<1>15. PICK status : status = reply[1].status
  OBVIOUS
<1>6. Left(r, body, said, n, h, t) /\ r[1].kind = "trailers"
  BY <1>2, <1>4, <1>5, <1>15
<1>7. r[1].status \in said /\ Left(SubSeq(r, 2, Len(r)), body, said, n, 0, 0)
  BY ONLY <1>6, TrailersHeard, body \in Seq(Nat)
<1>8. status \in said \cup {Unset} /\ status \in Said \cup {Unset}
  BY <1>5, <1>15, <1>7
<1>9. asker' = [asker EXCEPT !.status = status]
  BY <1>1, <1>2, <1>5, <1>15
<1>10. /\ asker' \in Askers /\ asker'.status = status /\ asker'.assembler = asker.assembler
       /\ asker'.outcome = asker.outcome
  BY <1>2, <1>8, <1>9 DEF Askers
<1>11. Left(reply', whole'.body, whole'.statuses, n, 0, 0)
  BY <1>3, <1>5, <1>15, <1>7
<1>12. HasTaken(asker'.assembler, whole'.body, n) /\ asker'.status \in whole'.statuses \cup {Unset}
  BY <1>3, <1>4, <1>5, <1>15, <1>8, <1>10
<1>13. Hearing(reply, asker)'
  BY <1>11, <1>12 DEF Hearing
<1>14. asker'.outcome # "resolved"
  BY <1>2, <1>10 DEF Listening
<1> QED
  BY <1>2, <1>3, <1>10, <1>13, <1>14, AskerKeeps

LEMMA HearsDataKeeps ==
  ASSUME CallInv, HearsData
  PROVE  CallInv'
<1>1. First("unit")
  BY DEF HearsData
<1>2. /\ Listening /\ stream.stage = "answered" /\ asker \in Askers /\ whole.body \in Seq(Nat)
      /\ whole.statuses \subseteq Said /\ reply \in Seq(Elements) /\ Hearing(reply, asker)
  BY <1>1, HearsLeft
<1>3. PICK m \in 1..Len(reply) :
        /\ \A i \in 1..m : reply[i].kind = "unit"
        /\ LET pushed == Pushed(asker.assembler, [i \in 1..m |-> reply[i].unit])
           IN IF pushed = {} THEN Reject
              ELSE (\E a \in pushed : asker' = [asker EXCEPT !.assembler = a]) /\ GoesOn(m)
  BY DEF HearsData
<1>4. CASE Reject
  BY <1>4, LetGo DEF Reject
<1>5. CASE ~Reject
  <2>1. PICK a \in Pushed(asker.assembler, [i \in 1..m |-> reply[i].unit]) :
          asker' = [asker EXCEPT !.assembler = a]
    BY <1>3, <1>5
  <2>2. reply' = SubSeq(reply, m + 1, Len(reply)) /\ UNCHANGED <<request, stream, runs, whole>>
    BY <1>3, <1>5 DEF GoesOn
  <2>3. PICK n \in Nat, h \in {0, 1}, t \in {0, 1} :
          /\ Left(reply, whole.body, whole.statuses, n, h, t)
          /\ HasTaken(asker.assembler, whole.body, n)
          /\ asker.status \in whole.statuses \cup {Unset}
    BY <1>2 DEF Hearing
  <2>4. PICK body \in Seq(Nat), said \in SUBSET Said, r \in Seq(Elements), old \in Assemblers :
          body = whole.body /\ said = whole.statuses /\ r = reply /\ old = asker.assembler
    <3>1. asker.assembler \in Assemblers
      BY <1>2 DEF Askers
    <3> QED
      BY <1>2, <3>1
  <2>5. /\ Left(r, body, said, n, h, t) /\ m \in 1..Len(r) /\ \A i \in 1..m : r[i].kind = "unit"
        /\ HasTaken(old, body, n) /\ a \in Pushed(old, [i \in 1..m |-> r[i].unit])
    BY <1>3, <2>1, <2>3, <2>4
  <2>6. PICK chunk : chunk = [i \in 1..m |-> r[i].unit]
    OBVIOUS
  <2>7. /\ IsPart([i \in 1..m |-> r[i].unit], body, n) /\ Len([i \in 1..m |-> r[i].unit]) = m
        /\ Left(SubSeq(r, m + 1, Len(r)), body, said, n + m, 0, t)
    BY ONLY <2>5, UnitsHeard, body \in Seq(Nat)
  <2>8. IsPart(chunk, body, n) /\ Len(chunk) = m /\ a \in Pushed(old, chunk) /\ HasTaken(old, body, n)
    BY <2>5, <2>6, <2>7
  <2>9. HasTaken(a, body, n + Len(chunk))
    BY ONLY <2>8, PushTakes, body \in Seq(Nat), n \in Nat
  <2>10. HasTaken(a, body, n + m) /\ a \in Assemblers
    BY <2>8, <2>9 DEF HasTaken
  <2>11. /\ asker' \in Askers /\ asker'.assembler = a /\ asker'.status = asker.status
         /\ asker'.outcome = asker.outcome
    BY <1>2, <2>1, <2>10 DEF Askers
  <2>12. Left(reply', whole'.body, whole'.statuses, n + m, 0, t)
    BY <2>2, <2>4, <2>7
  <2>13. /\ HasTaken(asker'.assembler, whole'.body, n + m)
         /\ asker'.status \in whole'.statuses \cup {Unset}
    BY <2>2, <2>3, <2>4, <2>10, <2>11
  <2>14. n + m \in Nat
    OBVIOUS
  <2>15. Hearing(reply, asker)'
    BY <2>12, <2>13, <2>14 DEF Hearing
  <2>16. asker'.outcome # "resolved"
    BY <1>2, <2>11 DEF Listening
  <2> QED
    BY <1>2, <2>2, <2>11, <2>15, <2>16, AskerKeeps
<1> QED
  BY <1>4, <1>5

\* The answer has ended: with all of its body taken.
LEMMA HearsEndKeeps ==
  ASSUME CallInv, HearsEnd
  PROVE  CallInv'
<1> DEFINE endsWell == asker.status = "ok" /\ asker.assembler.decoded = 1
<1>1. First("end") /\ Concludes(IF endsWell THEN "resolved" ELSE "rejected")
  BY DEF HearsEnd
<1>2. /\ Listening /\ stream.stage = "answered" /\ asker \in Askers /\ whole.body \in Seq(Nat)
      /\ whole.statuses \subseteq Said /\ reply \in Seq(Elements)
      /\ reply[1].kind = "end" /\ Hearing(reply, asker)
  BY <1>1, HearsLeft
<1>3. CASE ~endsWell
  BY <1>1, <1>3, LetGo
<1>4. CASE endsWell
  <2>1. /\ asker' = [asker EXCEPT !.outcome = "resolved"]
        /\ UNCHANGED <<request, reply, stream, runs, whole>>
    BY <1>1, <1>4 DEF Concludes
  <2>2. asker' \in Askers /\ asker'.outcome = "resolved"
    BY <1>2, <2>1 DEF Askers
  <2>3. PICK n \in Nat, h \in {0, 1}, t \in {0, 1} :
          /\ Left(reply, whole.body, whole.statuses, n, h, t)
          /\ HasTaken(asker.assembler, whole.body, n)
          /\ asker.status \in whole.statuses \cup {Unset}
    BY <1>2 DEF Hearing
  <2>4. "ok" \in whole.statuses
    BY <1>4, <2>3, CallsAssumption
  <2>5. "refused" \notin whole.statuses
    BY <2>4 DEF CallInv, WellSaid
  <2>6. PICK body \in Seq(Nat), r \in Seq(Elements), said \in SUBSET Said, held \in Seq(Nat) :
          body = whole.body /\ r = reply /\ said = whole.statuses /\ held = asker.assembler.held
    <3>1. asker.assembler.held \in Seq(Nat)
      BY <1>2 DEF Askers, Assemblers
    <3> QED
      BY <1>2, <3>1
  <2>7. Left(r, body, said, n, h, t) /\ r[1].kind = "end"
    BY <1>2, <2>3, <2>6
  <2>8. n = Len(body)
    BY ONLY <2>7, EndHeard, body \in Seq(Nat)
  <2>9. Taken(held, 1, body, Len(body)) /\ Shaped(body)
    BY <1>4, <2>3, <2>6, <2>8 DEF HasTaken, CallInv, CallTyped
  <2>10. PICK length \in 0..LongestMessage :
           /\ length = body[2] /\ IsPrefix(Encoded(0, length), body)
           /\ ~Complete(SubSeq(body, 3 + length, Len(body)))
    BY ONLY <2>9, TakenAll, body \in Seq(Nat)
  <2>11. OurService => runs = 1 /\ body = Encoded(0, length)
    <3> SUFFICES ASSUME OurService
                 PROVE  runs = 1 /\ body = Encoded(0, length)
      OBVIOUS
    <3>1. PICK other \in 0..LongestMessage : runs = 1 /\ body = Encoded(0, other)
      BY <2>4, <2>6 DEF CallInv, WellSaid
    <3>2. other \in Nat /\ 0 \in {0, 1}
      BY CallsAssumption
    <3>3. Encoded(0, other)[2] = other
      BY <3>2, EncodedFacts
    <3>4. other = length
      BY <2>10, <3>1, <3>3
    <3> QED
      BY <3>1, <3>4
  <2>12. ResolvedWell
    BY <2>4, <2>5, <2>6, <2>10, <2>11 DEF ResolvedWell
  <2>13. ~Listening'
    BY <2>2 DEF Listening
  <2> QED
    BY <1>2, <2>1, <2>2, <2>12, <2>13, AskerKeeps
<1> QED
  BY <1>3, <1>4

LEMMA StreamGoesKeeps ==
  ASSUME CallInv, StreamGoes
  PROVE  CallInv'
<1>1. /\ ~Listening /\ stream' = [stream EXCEPT !.gone = TRUE]
      /\ UNCHANGED <<request, reply, asker, runs, whole>>
  BY DEF StreamGoes
<1>2. stream \in Streams
  BY DEF CallInv, CallTyped
<1>3. /\ stream' \in Streams /\ stream'.gone = TRUE /\ stream'.stage = stream.stage
      /\ stream'.make = stream.make
  BY <1>1, <1>2 DEF Streams
<1>4. CallTyped'
  BY <1>1, <1>3 DEF CallInv, CallTyped
<1>5. Asking'
  BY <1>1, <1>3, AskingStays
<1>6. Running' /\ Silent'
  BY <1>1, <1>3 DEF CallInv, Running, AskedOne, Silent
<1>7. WellSaid(whole.body, whole.statuses, runs)'
  BY <1>1, <1>3 DEF CallInv, WellSaid, OurService
<1>8. ~Listening'
  BY <1>1 DEF Listening
<1>9. (asker.outcome = "resolved" => ResolvedWell)'
  BY <1>1, <1>3 DEF CallInv, ResolvedWell, OurService
<1> QED
  BY <1>4, <1>5, <1>6, <1>7, <1>8, <1>9 DEF CallInv

LEMMA CallStep ==
  ASSUME CallInv, [CallsNext \/ \E body \in Bodies : ForeignAnswer(body)]_callVars
  PROVE  CallInv'
<1>1. CASE UNCHANGED callVars
  <2>1. UNCHANGED <<request, reply, stream, asker, runs, whole>>
    BY <1>1 DEF callVars
  <2>2. CallTyped' /\ Asking' /\ Running' /\ Silent'
    BY <2>1 DEF CallInv, CallTyped, Asking, Running, AskedOne, Silent
  <2>3. WellSaid(whole.body, whole.statuses, runs)'
    BY <2>1 DEF CallInv, WellSaid, OurService
  <2>4. (Listening /\ reply # <<>> => Hearing(reply, asker))'
    BY <2>1 DEF CallInv, Listening, Hearing
  <2>5. (asker.outcome = "resolved" => ResolvedWell)'
    BY <2>1 DEF CallInv, ResolvedWell, OurService
  <2> QED
    BY <2>2, <2>3, <2>4, <2>5 DEF CallInv
<1>2. ASSUME CallFails \/ Cancelled
      PROVE  CallInv'
  BY <1>2, LetGo DEF CallFails, Cancelled, Reject
<1> QED
  BY <1>1, <1>2, NotServedKeeps, RequestArrivesKeeps, RequestEndsKeeps, MethodKeeps, ForeignKeeps,
     HearsHeadersKeeps, HearsDataKeeps, HearsTrailersKeeps, HearsEndKeeps, StreamGoesKeeps
     DEF CallsNext

\* However a request and its answer are cut on the way, a method is run once at most, and for
\* a request of exactly one whole message; and a call resolves only with the one whole
\* message of an answer that has ended well, whoever gave it (framing.ts, server.ts,
\* client.ts).  For every longest message.
THEOREM CallsCarryOne == CallsSpec => []CallsCarryOneMessage
<1>1. CallInv => CallsCarryOneMessage
  <2> SUFFICES ASSUME CallInv
               PROVE  CallsCarryOneMessage
    OBVIOUS
  <2>1. runs <= 1
    BY DEF CallInv, CallTyped
  <2>2. runs = 1 =>
          request = <<>> /\ \E length \in 0..LongestMessage : whole.asked = Encoded(0, length)
    BY DEF CallInv, Running, AskedOne
  <2>3. asker.outcome = "resolved" => ResolvedWell
    BY DEF CallInv
  <2> QED
    BY <2>1, <2>2, <2>3 DEF CallsCarryOneMessage, ResolvedWell
<1> QED
  BY <1>1, CallStart, CallStep, PTL DEF CallsSpec
=============================================================================
