--------------------------- MODULE RuntimeIdentity ---------------------------
(***************************************************************************)
(* RuntimeIdentityRegistry (src/spotter/identity.py): what the daemon      *)
(* knows of the turns and the attachments of one thread, as operations on  *)
(* a registry value.  A stable id is a function of the agent's id, so the  *)
(* agent's ids stand for both.                                             *)
(***************************************************************************)
EXTENDS FiniteSets

CONSTANTS
    Turns,      \* the agent's turn ids
    NoTurn

NoRegistry == [observed |-> FALSE,
               turns |-> [t \in Turns |-> [status |-> "unknown", begun |-> FALSE]],
               attached |-> {}, closed |-> {}]

ObserveThread(r) == [r EXCEPT !.observed = TRUE]

\* An attachment that was closed is opened again under the same id.
Attach(r, a) == [r EXCEPT !.attached = @ \cup {a}, !.closed = @ \ {a}]
Detach(r, as) == [r EXCEPT !.attached = @ \ as, !.closed = @ \cup (as \cap r.attached)]

\* A turn that is known keeps its status: a late start does not revive it.
StartTurn(r, t, begun) ==
    [r EXCEPT !.turns[t] = [status |-> IF @.status = "unknown" THEN "active" ELSE @.status,
                            begun |-> @.begun \/ begun]]

Conflicts(r, t, status) == r.turns[t].status \notin {"unknown", "active", status}

FinishTurn(r, t, status) == [r EXCEPT !.turns[t].status = status]

ActiveTurns(r) == {t \in Turns : r.turns[t].status = "active"}

\* thread(): active while an attachment or a turn is.
ThreadActive(r) == r.attached # {} \/ ActiveTurns(r) # {}
=============================================================================
