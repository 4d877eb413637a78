------------------------------- MODULE Paging -------------------------------
(***************************************************************************)
(* Lists read a page at a time, and one reader of one: threads, the        *)
(* comments of a thread, records attached to a project, decisions.  Rows   *)
(* are in an order, a page is what fits of those past its cursor, and a    *)
(* cursor is the place of the last row of a page.  Between two pages rows  *)
(* are added, changed and dropped.                                         *)
(***************************************************************************)
EXTENDS Integers, FiniteSets, FiniteSetsExt

CONSTANTS
  Limit,      \* the most rows of a page
  Budget,     \* the most they may weigh together
  MaxTime     \* a bound on the readings of the clock

ASSUME PagingAssumption == Limit \in Nat \ {0} /\ Budget \in Nat /\ MaxTime \in Nat \ {0}

\* Date.now, which may be set back: what it says next is anybody's guess.
Now == 1..MaxTime

VARIABLE pager  \* the reader of a list

AtRest == [list |-> "none", state |-> "idle", cursor |-> {}, seen |-> {}, due |-> {}, twice |-> FALSE]

\* ORDER BY updated_at DESC, id DESC, and what a cursor asks for in it.
Newer(r, s) == r.at > s.at \/ (r.at = s.at /\ r.id > s.id)

\* ORDER BY created_at, rowid: the place of a row in the table stays its own.
Earlier(r, s) == r.at < s.at \/ (r.at = s.at /\ r.id < s.id)

\* The newest first where a list is of what happened, the oldest where it is read.
Ahead(order, r, s) == IF order = "newest" THEN Newer(r, s) ELSE Earlier(r, s)

\* Mutation: a cursor that is only a time.
PastTheTime(rows, cursor, order) == {r \in rows : \A c \in cursor : r.at # c.at /\ Ahead(order, c, r)}

Past(rows, cursor, order) == {r \in rows : \A c \in cursor : Ahead(order, c, r)}

UpTo(left, order, r) == {s \in left : s.id = r.id \/ Ahead(order, s, r)}
Weigh(weight, rows) == MapThenSumSet(LAMBDA r : weight[r], rows)

\* As many as there is room for; the first whatever it weighs.
Fits(left, weight, order, r) ==
  LET rows == UpTo(left, order, r)
  IN Cardinality(rows) <= Limit /\ (rows = {r} \/ Weigh(weight, rows) <= Budget)

\* Up to the first there is no room for, however little those behind it weigh.
Page(left, weight, order) ==
  {r \in left : \A s \in UpTo(left, order, r) : Fits(left, weight, order, s)}

Place(r) == [at |-> r.at, id |-> r.id]

\* A reader asks for the first page, and then for what the last cursor names.
\* The rows are the domain of weight.
Turns(list, weight, order) ==
  LET rows == DOMAIN weight
      first == pager.state # "open" \/ pager.list # list
      due == IF first THEN {r.id : r \in rows} ELSE pager.due
      seen == IF first THEN {} ELSE pager.seen
      left == IF first THEN rows ELSE Past(rows, pager.cursor, order)
      page == Page(left, weight, order)
  IN pager' = [list |-> list,
               state |-> IF page = left THEN "done" ELSE "open",
               cursor |-> {Place(r) : r \in {s \in page : ~\E t \in page : Ahead(order, s, t)}},
               seen |-> seen \cup {r.id : r \in page},
               due |-> due,
               twice |-> \E r \in page : r.id \in due \cap seen]

\* The rows of these ids are not what they were: nobody is promised them.
Touched(ids) == pager' = [pager EXCEPT !.due = @ \ ids]

\* Whoever follows the cursors to the end has every row that was there when the
\* reading began and was left alone since, and each of those once: also where
\* rows share a millisecond, and where a clock is set back meanwhile.
PagesAreWhole == ~pager.twice /\ (pager.state = "done" => pager.due \subseteq pager.seen)
=============================================================================
