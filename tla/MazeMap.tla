------------------------------ MODULE MazeMap ------------------------------
(***************************************************************************)
(* The map of the maze task: src/maze/environment/map.cpp, IsWalkable of   *)
(* src/maze/episode/session.h and the rays of                              *)
(* src/maze/observation/observation.cpp.                                   *)
(*                                                                         *)
(* A cell is a pair <<gx, gy>>; the bitmap is the set of blocked cells.    *)
(* An agent moves one cell in one of eight directions, and a diagonal move *)
(* may not cut a corner.                                                   *)
(***************************************************************************)
EXTENDS Integers, Sequences, FiniteSets

CONSTANTS
  Columns, Rows, \* bound: the grid
  RayMaxRange    \* observation.ray_max_range

ASSUME MapConstantsAssumption ==
  /\ Columns \in Nat \ {0} /\ Rows \in Nat \ {0}
  /\ RayMaxRange \in Nat \ {0}

Cells == (0 .. Columns - 1) \X (0 .. Rows - 1)
Descriptors == [blocked : SUBSET Cells, start : Cells, goal : Cells]

\* kDirections: action d of 1..8 moves by kDirections[d].
kDirections == <<<<0, 1>>, <<1, 1>>, <<1, 0>>, <<1, -1>>,
                 <<0, -1>>, <<-1, -1>>, <<-1, 0>>, <<-1, 1>>>>
Directions == 1 .. 8

IsWalkable(blocked, cell) == cell \in Cells \ blocked

Neighbour(cell, d) ==
  <<cell[1] + kDirections[d][1], cell[2] + kDirections[d][2]>>

EntersWalkable(blocked, cell, d) == IsWalkable(blocked, Neighbour(cell, d))

\* The next cell in direction d is walkable, and so are both cells beside a
\* diagonal step.
Enters(blocked, cell, d) ==
  /\ IsWalkable(blocked, Neighbour(cell, d))
  /\ kDirections[d][1] # 0 /\ kDirections[d][2] # 0 =>
       /\ IsWalkable(blocked, <<Neighbour(cell, d)[1], cell[2]>>)
       /\ IsWalkable(blocked, <<cell[1], Neighbour(cell, d)[2]>>)

-----------------------------------------------------------------------------
\* The breadth-first search from the goal.

\* One direction: a neighbour that has not been discovered gets its distance and
\* joins the queue.
Visit(blocked, current, search, d) ==
  LET next == Neighbour(current, d)
  IN  IF Enters(blocked, current, d) /\ search.distance[next] < 0
      THEN [queue |-> Append(search.queue, next),
            distance |-> [search.distance EXCEPT
                            ![next] = search.distance[current] + 1]]
      ELSE search

\* One round of the loop: the front of the queue tries the directions in order.
Discover(blocked, search) ==
  LET Tried[d \in 0 .. 8] ==
        IF d = 0 THEN [queue |-> Tail(search.queue), distance |-> search.distance]
        ELSE Visit(blocked, Head(search.queue), Tried[d - 1], d)
  IN  Tried[8]

StartSearch(goal) ==
  [queue |-> <<goal>>, distance |-> [c \in Cells |-> IF c = goal THEN 0 ELSE -1]]

\* The search after as many rounds as there are cells; every cell enters the
\* queue at most once.
BreadthFirst(blocked, goal) ==
  LET Search[n \in 0 .. Cardinality(Cells)] ==
        IF n = 0 THEN StartSearch(goal)
        ELSE LET before == Search[n - 1]
             IN  IF before.queue = <<>> THEN before
                 ELSE Discover(blocked, before)
  IN  Search[Cardinality(Cells)]

GeodesicDistance(blocked, goal) == BreadthFirst(blocked, goal).distance

\* ValidateMazeMapDescriptor.
ValidatedMap(descriptor) ==
  [blocked |-> descriptor.blocked, goal |-> descriptor.goal,
   start |-> descriptor.start,
   distance |-> GeodesicDistance(descriptor.blocked, descriptor.goal)]

ShortestActionSteps(map) == map.distance[map.start]

ValidateMazeMapDescriptor(descriptor) ==
  /\ IsWalkable(descriptor.blocked, descriptor.start)
  /\ IsWalkable(descriptor.blocked, descriptor.goal)
  /\ ShortestActionSteps(ValidatedMap(descriptor)) > 0

\* How far an agent sees in direction d: the steps up to the first that leads
\* into a wall or past a corner (MazeObservation::Build).
Ray(blocked, cell, d) ==
  LET At(k) == <<cell[1] + k * kDirections[d][1], cell[2] + k * kDirections[d][2]>>
      Clear(k) == /\ IsWalkable(blocked, At(k))
                  /\ kDirections[d][1] # 0 /\ kDirections[d][2] # 0 =>
                       /\ IsWalkable(blocked, <<At(k)[1], At(k - 1)[2]>>)
                       /\ IsWalkable(blocked, <<At(k - 1)[1], At(k)[2]>>)
  IN  Cardinality({n \in 1 .. RayMaxRange : \A k \in 1 .. n : Clear(k)})
=============================================================================
