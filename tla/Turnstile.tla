----------------------------- MODULE Turnstile -----------------------------
(***************************************************************************)
(* What UC07 promises of the waiting room: a line and a room of limited    *)
(* size.  Users stand at the end of the line, enter the room from its      *)
(* front, nobody before the one ahead, and leave the room when their turn  *)
(* is over.                                                                *)
(***************************************************************************)
EXTENDS FiniteSets, Naturals, Sequences

CONSTANTS Users,
          MaxInside   \* how many users the room holds

VARIABLES line,    \* who waits, the first in front
          inside   \* who is in the room

InLine(u) == \E i \in 1..Len(line) : line[i] = u
First(k) == {line[i] : i \in 1..k}

Init == line = <<>> /\ inside = {}

Stand(u) ==
    /\ ~InLine(u)
    /\ line' = Append(line, u)
    /\ UNCHANGED inside

\* The first k enter together.  Someone inside may be in line again; entering
\* once more takes no second place.
Enter(k) ==
    /\ inside' = inside \cup First(k)
    /\ Cardinality(inside') <= MaxInside
    /\ line' = SubSeq(line, k + 1, Len(line))

Leave(S) ==
    /\ inside' = inside \ S
    /\ UNCHANGED line

Next ==
    \/ \E u \in Users : Stand(u)
    \/ \E k \in 1..Len(line) : Enter(k)
    \/ \E S \in SUBSET inside : Leave(S)

Spec == Init /\ [][Next]_<<line, inside>>

\* Whoever is in line gets to enter: the line is left by the front only.
Served(u) == InLine(u) ~> ~InLine(u)

Ahead(u, v) ==
    \E i, j \in 1..Len(line) : i < j /\ line[i] = u /\ line[j] = v

\* Nobody is passed: who is ahead of another stays ahead until his own turn, which
\* is never after the other's.
FirstComeFirstServed ==
    [][\A u, v \in Users : Ahead(u, v) => Ahead(u, v)' \/ u \in inside']_<<line, inside>>

=============================================================================
