--------------------------- MODULE Conversations ---------------------------
(***************************************************************************)
(* Threads and the comments on them (src/src/comments/store.ts and the     *)
(* methods of src/src/team/methods/comments.ts).  A thread is its opening  *)
(* comment and replies to it; a withdrawn comment keeps its row.  A write  *)
(* carries the client's id for it, if any, and is answered again by what   *)
(* it made the first time.  Ids of threads are drawn at random; the row    *)
(* keys of comments count up.                                              *)
(***************************************************************************)
EXTENDS Paging

CONSTANTS
  Authors,      \* accounts
  ThreadIds,    \* numbers, none of a comment: random ones compare in any way
  Keys,         \* what clients call their writes
  NoKey,        \* of a write its client calls nothing
  Places,       \* projects of this server
  MaxComments   \* a bound on the rows of comments

ASSUME ConversationsAssumption ==
  /\ MaxComments \in Nat /\ NoKey \notin Keys
  /\ NoKey \notin {"create", "opening", "reply"} \X Keys
  /\ ThreadIds \subseteq Nat /\ \A t \in ThreadIds : t > MaxComments

VARIABLES
  places,    \* projects there are
  threads,   \* rows: [id, project, at, by, key, resolved, withIt], at the last activity
  comments,  \* rows: [id, thread, at, by, key, size, gone]
  landed,    \* writes that were answered: [method, by, key, made]
  told       \* the last event, and of which project

conversationVars == <<places, threads, comments, landed, told>>

Nothing == [kind |-> "none", project |-> "none"]

ConversationsInit ==
  /\ places = Places /\ threads = {} /\ comments = {} /\ landed = {} /\ told = Nothing

Thread(t) == CHOOSE r \in threads : r.id = t
Of(t) == {c \in comments : c.thread = t}
NextComment == IF comments = {} THEN 1 ELSE 1 + Max({c.id : c \in comments})

\* openingComment: the first of the thread as it is read.
Opening(t) == CHOOSE c \in Of(t) : \A d \in Of(t) : d = c \/ Earlier(c, d)

WeighComment(c) == c.size
WeighThread(r) == Opening(r.id).size

\* touch
Touch(t, now) == {IF r.id = t THEN [r EXCEPT !.at = now] ELSE r : r \in threads}

Announce(kind, project) == told' = [kind |-> kind, project |-> project]

\* Mutation: the names of one method's writes are looked for among another's.
WrittenUnderAnyName(method, by, key) ==
  IF key = NoKey THEN {}
  ELSE IF method = "create" THEN {r \in threads : r.by = by /\ r.key = <<method, key>>}
  ELSE {c \in comments : c.by = by /\ c.key # NoKey /\ c.key[2] = key}

\* What a write of this method answered when the client called it that before.
WrittenBy(method, by, key) ==
  IF key = NoKey THEN {}
  ELSE IF method = "create" THEN {r \in threads : r.by = by /\ r.key = <<method, key>>}
  ELSE {c \in comments : c.by = by /\ c.key = <<method, key>>}

Answered(method, by, key, row) ==
  landed' = IF key = NoKey THEN landed
            ELSE landed \cup {[method |-> method, by |-> by, key |-> key, made |-> row]}

Keyed(method, key) == IF key = NoKey THEN NoKey ELSE <<method, key>>

\* threads.create: a thread and its opening in one transaction, or what a repeat made.
ThreadsCreate(by, project, key, size, now) ==
  /\ project \in places
  /\ \/ \E r \in WrittenBy("create", by, key) :
          /\ Answered("create", by, key, r.id)
          /\ UNCHANGED <<places, threads, comments, told, pager>>
     \/ /\ WrittenBy("create", by, key) = {}
        /\ NextComment <= MaxComments
        /\ \E id \in ThreadIds \ {r.id : r \in threads} :
             /\ threads' = threads \cup
                  {[id |-> id, project |-> project, at |-> now, by |-> by,
                    key |-> Keyed("create", key), resolved |-> FALSE, withIt |-> NextComment]}
             /\ comments' = comments \cup
                  {[id |-> NextComment, thread |-> id, at |-> now, by |-> by,
                    key |-> Keyed("opening", key), size |-> size, gone |-> FALSE]}
             /\ Answered("create", by, key, id)
             /\ Announce("thread-created", project)
             /\ Touched({})
             /\ UNCHANGED places

\* threads.reply
ThreadsReply(by, t, key, size, now) ==
  /\ t \in {r.id : r \in threads}
  /\ \/ \E c \in WrittenBy("reply", by, key) :
          /\ Answered("reply", by, key, c.id)
          /\ UNCHANGED <<places, threads, comments, told, pager>>
     \/ /\ WrittenBy("reply", by, key) = {}
        /\ NextComment <= MaxComments
        /\ comments' = comments \cup
             {[id |-> NextComment, thread |-> t, at |-> now, by |-> by,
               key |-> Keyed("reply", key), size |-> size, gone |-> FALSE]}
        /\ threads' = Touch(t, now)
        /\ Answered("reply", by, key, NextComment)
        /\ Announce("comment-created", Thread(t).project)
        /\ Touched({t})
        /\ UNCHANGED places

\* threads.resolve: anybody may; the state it is in already is no write.
ThreadsResolve(t, resolved, now) ==
  /\ \E r \in threads : r.id = t /\ r.resolved # resolved
  /\ threads' = {IF r.id = t THEN [r EXCEPT !.resolved = resolved, !.at = now] ELSE r : r \in threads}
  /\ Announce("thread-updated", Thread(t).project)
  /\ Touched({t})
  /\ UNCHANGED <<places, comments, landed>>

\* ownComment
Own(by, c) == c \in comments /\ c.by = by

\* comments.edit: not of a comment that was withdrawn.
CommentsEdit(by, c, size, now) ==
  /\ Own(by, c) /\ ~c.gone
  /\ comments' = (comments \ {c}) \cup {[c EXCEPT !.size = size]}
  /\ threads' = Touch(c.thread, now)
  /\ Announce("comment-updated", Thread(c.thread).project)
  /\ Touched({c.thread})
  /\ UNCHANGED <<places, landed>>

\* comments.delete: the body goes and the row stays; a second time changes
\* nothing, and is announced again.
CommentsDelete(by, c, now) ==
  /\ Own(by, c)
  /\ Announce("comment-updated", Thread(c.thread).project)
  /\ \/ c.gone /\ UNCHANGED <<threads, comments, pager>>
     \/ /\ ~c.gone
        /\ comments' = (comments \ {c}) \cup {[c EXCEPT !.size = 0, !.gone = TRUE]}
        /\ threads' = Touch(c.thread, now)
        /\ Touched({c.thread})
  /\ UNCHANGED <<places, landed>>

\* A project that is forgotten takes its threads and their comments with it, and
\* what else was attached to it.
Cascade(project, attached) ==
  LET gone == {r.id : r \in {s \in threads : s.project = project}}
      with == {c.id : c \in {d \in comments : d.thread \in gone}}
  IN /\ project \in places /\ places' = places \ {project}
     /\ threads' = {r \in threads : r.id \notin gone}
     /\ comments' = {c \in comments : c.id \notin with}
     /\ landed' = {l \in landed : l.made \notin gone \cup with}
     /\ Touched(gone \cup with \cup attached)
     /\ UNCHANGED told

\* threads.list of one project, and threads.get of one thread.
ThreadsList(project) ==
  /\ project \in places
  /\ Turns(<<"threads", project>>,
           [r \in {s \in threads : s.project = project} |-> WeighThread(r)], "newest")
  /\ UNCHANGED conversationVars

ThreadsGet(t) ==
  /\ t \in {r.id : r \in threads}
  /\ Turns(<<"comments", t>>, [c \in Of(t) |-> WeighComment(c)], "oldest")
  /\ UNCHANGED conversationVars

-----------------------------------------------------------------------------
(* Properties.                                                             *)

\* A client id names one write of one method: a repeat, whatever happened in
\* between, is answered with the row the first made as long as it is there, and
\* no other write is taken for it.
RepeatsFindTheirRow ==
  \A a \in landed :
    /\ \A b \in landed : a.method = b.method /\ a.by = b.by /\ a.key = b.key => a.made = b.made
    /\ a.method = "reply" => \E c \in comments : c.id = a.made /\ c.key = <<"reply", a.key>>

\* The comment that opens a thread is "the row it made": a repeat of the create
\* is told so, and every list shows it.
OpeningIsItsFirst == \A r \in threads : Opening(r.id).id = r.withIt
=============================================================================
