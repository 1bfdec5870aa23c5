--------------------------- MODULE MCMazeEpisode ---------------------------
(***************************************************************************)
(* The instance of MazeEpisode that TLC checks.                            *)
(***************************************************************************)
EXTENDS MazeEpisode, TLC

\* Every bitmap, with a goal in a corner, at an edge and in the middle.
MCMaps == [blocked : SUBSET Cells, start : {<<0, 0>>, <<1, 0>>},
           goal : {<<2, 2>>, <<1, 2>>, <<1, 1>>}]

\* Around a corner that may not be cut, beside a walkable pocket nobody can
\* reach: <<2, 2>>.
Corner == [blocked |-> {<<1, 0>>, <<2, 0>>, <<2, 1>>, <<0, 2>>, <<1, 2>>},
           start |-> <<0, 0>>, goal |-> <<1, 1>>]
\* One step from the goal, beside the same pocket: without rewards an agent may
\* be reported there and the episode goes on.
Door == [blocked |-> Cells \ {<<1, 0>>, <<1, 1>>, <<2, 2>>},
         start |-> <<1, 0>>, goal |-> <<1, 1>>]
MCPlayedMaps ==
  [m \in Modes |-> IF m = "training" THEN {Corner} ELSE {Door}]

MCSymmetry == Permutations(Agents)

MCValue(cell) == cell[1] + 3 * cell[2]
=============================================================================
