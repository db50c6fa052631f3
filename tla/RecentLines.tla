----------------------------- MODULE RecentLines -----------------------------
(***************************************************************************)
(* What the ticker of the screen wants of the event log: the latest lines, *)
(* newest first, at most CAP of them.                                      *)
(***************************************************************************)
EXTENDS Integers, Sequences

CONSTANTS LogLine, CAP

VARIABLE lines

Init == lines = <<>>

Record(m) ==
    LET n == IF Len(lines) < CAP THEN Len(lines) + 1 ELSE CAP
    IN lines' = [k \in 1 .. n |-> IF k = 1 THEN m ELSE lines[k - 1]]

Next == \E m \in LogLine : Record(m)

Spec == Init /\ [][Next]_lines
=============================================================================
