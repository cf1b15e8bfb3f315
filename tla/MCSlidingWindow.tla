---------------------------- MODULE MCSlidingWindow ----------------------------
(***************************************************************************)
(* The instances of SlidingWindow that TLC checks.                         *)
(***************************************************************************)
EXTENDS SlidingWindow, TLC

\* Every request has a correlation id of its own.
MCUnique == [r \in Requests |-> r]

\* Every request repeats the correlation id of the first, as a mobile retry does.
MCRepeated == [r \in Requests |-> CHOOSE m \in Members : TRUE]

\* A clock that is right and one that is ahead.
MCSkews == {0, 1}

\* Clocks that agree.
MCRight == {0}

Symmetry == Permutations(Requests)
=============================================================================
