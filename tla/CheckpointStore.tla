--------------------------- MODULE CheckpointStore ---------------------------
(***************************************************************************)
(* What storage promises of one execution (checkpoint/manager.py:3): one   *)
(* append-only history in which no snapshot occurs twice, and one state    *)
(* row that a checkpoint moves in the same step, together with the status  *)
(* the header shows.                                                       *)
(***************************************************************************)
EXTENDS Naturals, Sequences

CONSTANTS Content, None

VARIABLES history,   \* the contents of the checkpoints, in order of sequence
          current,   \* the content of the state row, None before there is one
          shown      \* the content whose status the header has

Init == history = <<>> /\ current = None /\ shown = None

\* A checkpoint: a content the history knows already collapses to its row.
Record(c) ==
  /\ history' = IF \E i \in 1..Len(history) : history[i] = c
                THEN history ELSE Append(history, c)
  /\ current' = c /\ shown' = c

\* A save outside the checkpoints moves the state row alone.
Save(c) == current' = c /\ UNCHANGED <<history, shown>>

Next == \E c \in Content : Record(c) \/ Save(c)

Spec == Init /\ [][Next]_<<history, current, shown>>
=============================================================================
