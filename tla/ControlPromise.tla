---------------------------- MODULE ControlPromise ----------------------------
(***************************************************************************)
(* What the durable history of a control promises its reader: the record   *)
(* of a control only ever advances, and its verdict is final.  Several     *)
(* controls may advance at once: a closing daemon drains its queue.        *)
(***************************************************************************)
CONSTANTS
    Controls,
    Verdicts    \* how a control may end: none of them is a stage on the way there

VARIABLE stage    \* how far the durable record of each control got

Stages == {"absent", "started", "accepted"} \cup Verdicts

TypeOK == stage \in [Controls -> Stages]

Init == stage = [c \in Controls |-> "absent"]

\* A record may skip a stage whose event was dropped, never return to one.
After(s) ==
    CASE s = "absent"   -> Stages
      [] s = "started"  -> Stages \ {"absent"}
      [] s = "accepted" -> Stages \ {"absent", "started"}
      [] OTHER          -> {s}

Advance ==
    /\ stage' = [c \in Controls |-> stage'[c]]
    /\ \A c \in Controls : stage'[c] \in After(stage[c])

Spec == Init /\ [][Advance]_stage
=============================================================================
