------------------------------ MODULE Overlay ------------------------------
(***************************************************************************)
(* Records attached to places in a project (src/src/overlay/store.ts and   *)
(* src/src/team/methods/overlay.ts): put, put again under its id by its    *)
(* author, and dropped for good.  A project holds so many and no more.     *)
(***************************************************************************)
EXTENDS Conversations

CONSTANTS
  RecordIds,     \* numbers: random ones compare in any way
  OverlayLimit   \* PROJECT_OVERLAY_LIMIT

ASSUME OverlayAssumption ==
  /\ OverlayLimit \in Nat /\ RecordIds \subseteq Nat
  /\ \A r \in RecordIds : r > MaxComments /\ r \notin ThreadIds

VARIABLES
  overlay,   \* rows: [id, project, at, by, key, size]
  answered   \* the last answer to a put

overlayVars == <<overlay, answered>>

OverlayInit == overlay = {} /\ answered = [kind |-> "none"]

WeighRecord(r) == r.size

Attached(project) == {r \in overlay : r.project = project}
MadeRecord(by, key) == {r \in overlay : key # NoKey /\ r.by = by /\ r.key = key}

\* putOverlay: a repeat is answered before the project is asked whether it is full.
PutOverlay(by, project, key, size, now) ==
  IF MadeRecord(by, key) # {} THEN
    /\ answered' = [kind |-> "repeated", by |-> by, key |-> key]
    /\ UNCHANGED <<overlay, pager>>
  ELSE IF Cardinality(Attached(project)) >= OverlayLimit THEN
    /\ answered' = [kind |-> "full", by |-> by, key |-> key]
    /\ UNCHANGED <<overlay, pager>>
  ELSE
    /\ \E id \in RecordIds \ {r.id : r \in overlay} :
         overlay' = overlay \cup {[id |-> id, project |-> project, at |-> now,
                                   by |-> by, key |-> key, size |-> size]}
    /\ answered' = [kind |-> "written", by |-> by, key |-> key]
    /\ Touched({})

\* overlay.put without an id.
OverlayPut(by, project, key, size, now) ==
  /\ project \in places
  /\ PutOverlay(by, project, key, size, now)
  /\ told' = IF answered'.kind = "written" THEN [kind |-> "overlay-put", project |-> project]
             ELSE told
  /\ UNCHANGED <<places, threads, comments, landed>>

\* overlay.put with one: its author's only, whatever project the call names.
OverlayRevise(by, r, size, now) ==
  /\ r \in overlay /\ r.by = by
  /\ overlay' = (overlay \ {r}) \cup {[r EXCEPT !.size = size, !.at = now]}
  /\ Announce("overlay-put", r.project)
  /\ Touched({r.id})
  /\ UNCHANGED <<places, threads, comments, landed, answered>>

\* overlay.drop; of a record that is not there it is a success.
OverlayDrop(by, r) ==
  /\ r \in overlay /\ r.by = by
  /\ overlay' = overlay \ {r}
  /\ Announce("overlay-dropped", r.project)
  /\ Touched({r.id})
  /\ UNCHANGED <<places, threads, comments, landed, answered>>

OverlayList(project) ==
  /\ project \in places
  /\ Turns(<<"overlay", project>>, [r \in Attached(project) |-> WeighRecord(r)], "newest")
  /\ UNCHANGED <<conversationVars, overlayVars>>

\* The records of a project that is forgotten go with its conversations.
ProjectGoes(project) ==
  /\ overlay' = overlay \ Attached(project)
  /\ Cascade(project, {r.id : r \in Attached(project)})
  /\ UNCHANGED answered

=============================================================================
