------------------------- MODULE MazeOperatorProofs -------------------------
(***************************************************************************)
(* What the recursive operators of MazeMap and RolloutSegment compute, for *)
(* every grid, bitmap and segment: the breadth-first search finds the      *)
(* geodesic distances, a ray ends where an agent could go no further, and  *)
(* the envelopes of a segment hold its samples once and in order.          *)
(*                                                                         *)
(* The induction theorems of the library range over predicates, which the  *)
(* backends cannot instantiate.  Everything here rests instead on WFMin,   *)
(* which ranges over sets: a set of naturals that is not empty has a least *)
(* element.  From it follow an induction over sets of naturals and the     *)
(* existence of functions defined by recursion; only with the latter is    *)
(* the value of a recursive definition known at all.                       *)
(***************************************************************************)
EXTENDS MazeMap, RolloutSegment, FiniteSetTheorems, WellFoundedInduction, TLAPS

NatLess == {pair \in Nat \X Nat : pair[1] < pair[2]}

\* The naturals are well founded.
LEMMA NatLessIsWellFounded == IsWellFoundedOn(NatLess, Nat)
  BY NatLessThanWellFounded DEF OpToRel, NatLess

\* A set of naturals that is not empty has a least element.
LEMMA LeastElement ==
  ASSUME NEW T \in SUBSET Nat, T # {}
  PROVE  \E x \in T : \A y \in T : x <= y
<1>1. PICK x \in T : \A y \in T : ~(<<y, x>> \in NatLess)
  BY NatLessIsWellFounded, WFMin
<1>2. \A y \in T : ~(y < x)
  <2> TAKE y \in T
  <2>1. <<y, x>> \in Nat \X Nat OBVIOUS
  <2>2. ~(<<y, x>> \in NatLess) BY <1>1
  <2> QED BY <2>1, <2>2 DEF NatLess
<1> QED BY <1>2

\* Induction over the naturals of a set.
LEMMA SetInduction ==
  ASSUME NEW S, 0 \in S, \A n \in Nat : n \in S => n + 1 \in S
  PROVE  Nat \subseteq S
<1> DEFINE T == Nat \ S
<1> SUFFICES ASSUME T # {} PROVE FALSE OBVIOUS
<1>1. PICK x \in T : \A y \in T : x <= y BY LeastElement
<1>2. x # 0 /\ x - 1 \in Nat BY <1>1
<1>3. x - 1 \in S BY <1>1, <1>2
<1> QED BY <1>1, <1>2, <1>3

\* ... and over those up to N.
LEMMA SetInductionUpTo ==
  ASSUME NEW N \in Nat, NEW S, 0 \in S,
         \A n \in 0 .. N : n < N /\ n \in S => n + 1 \in S
  PROVE  0 .. N \subseteq S
<1> DEFINE T == {n \in Nat : n <= N => n \in S}
<1>1. 0 \in T /\ \A n \in Nat : n \in T => n + 1 \in T OBVIOUS
<1>2. Nat \subseteq T
  <2> HIDE DEF T
  <2> QED BY <1>1, SetInduction
<1> QED BY <1>2

-----------------------------------------------------------------------------
\* Functions defined by recursion.

StepsOn(T) == [Nat -> [[Nat -> T] -> T]]

\* step[n][g] depends on g below n only.
LooksBack(T, step) ==
  \A n \in Nat : \A g, h \in [Nat -> T] :
    (\A k \in 0 .. n - 1 : g[k] = h[k]) => step[n][g] = step[n][h]

HasSolution(T, step) ==
  \E f \in [Nat -> T] : \A n \in Nat : f[n] = step[n][f]

\* There is a function that satisfies a recursion that looks back.
LEMMA RecursionExists ==
  ASSUME NEW T, T # {}, NEW step \in StepsOn(T), LooksBack(T, step)
  PROVE  HasSolution(T, step)
<1> USE DEF StepsOn
<1> DEFINE Upto(g, n) == \A k \in 0 .. n - 1 : g[k] = step[k][g]
           S == {n \in Nat : \E g \in [Nat -> T] : Upto(g, n)}
<1>1. Nat \subseteq S
  <2>1. 0 \in S
    <3>1. PICK t \in T : TRUE OBVIOUS
    <3> DEFINE g == [k \in Nat |-> t]
    <3>2. g \in [Nat -> T] OBVIOUS
    <3>3. Upto(g, 0) OBVIOUS
    <3> HIDE DEF g, Upto
    <3> QED BY <3>2, <3>3
  <2>2. ASSUME NEW n \in Nat, n \in S PROVE n + 1 \in S
    <3>1. PICK g \in [Nat -> T] : Upto(g, n) BY <2>2
    <3> DEFINE h == [g EXCEPT ![n] = step[n][g]]
    <3>2. h \in [Nat -> T] OBVIOUS
    <3>3. h[n] = step[n][g] /\ \A k \in 0 .. n - 1 : h[k] = g[k] OBVIOUS
    <3> HIDE DEF h
    <3>4. ASSUME NEW k \in 0 .. n PROVE h[k] = step[k][h]
      <4>1. k \in Nat /\ \A j \in 0 .. k - 1 : h[j] = g[j] BY <3>3
      <4>2. step[k][h] = step[k][g] BY <4>1, <3>2 DEF LooksBack
      <4>3. CASE k = n BY <4>3, <4>2, <3>3
      <4>4. CASE k \in 0 .. n - 1 BY <4>4, <4>2, <3>1, <3>3
      <4> QED BY <4>3, <4>4
    <3>5. Upto(h, n + 1)
      <4>1. \A k \in 0 .. (n + 1) - 1 : k \in 0 .. n OBVIOUS
      <4> QED BY <3>4, <4>1
    <3> HIDE DEF Upto
    <3> QED BY <3>2, <3>5
  <2> HIDE DEF S
  <2> QED BY <2>1, <2>2, SetInduction
<1>2. ASSUME NEW n \in Nat, NEW g \in [Nat -> T], NEW h \in [Nat -> T],
             Upto(g, n), Upto(h, n)
      PROVE  \A k \in 0 .. n - 1 : g[k] = h[k]
  <2> DEFINE B == {k \in 0 .. n - 1 : g[k] # h[k]}
  <2> SUFFICES ASSUME B # {} PROVE FALSE OBVIOUS
  <2>1. PICK x \in B : \A y \in B : x <= y
    <3>1. B \in SUBSET Nat OBVIOUS
    <3> HIDE DEF B
    <3> QED BY <3>1, LeastElement
  <2>2. \A j \in 0 .. x - 1 : g[j] = h[j] BY <2>1
  <2>3. x \in Nat OBVIOUS
  <2>4. step[x][g] = step[x][h] BY <2>2, <2>3 DEF LooksBack
  <2> QED BY <2>4, <1>2, <2>1
<1> DEFINE Part(n) == CHOOSE g \in [Nat -> T] : Upto(g, n)
           f == [n \in Nat |-> Part(n + 1)[n]]
<1>3. \A n \in Nat : Part(n) \in [Nat -> T] /\ Upto(Part(n), n)
  <2> TAKE n \in Nat
  <2>1. \E g \in [Nat -> T] : Upto(g, n) BY <1>1
  <2> HIDE DEF Upto
  <2> QED BY <2>1
<1> HIDE DEF Part, S
<1>4. f \in [Nat -> T]
  <2>1. \A n \in Nat : n + 1 \in Nat OBVIOUS
  <2>2. \A n \in Nat : Part(n + 1) \in [Nat -> T] BY <1>3, <2>1
  <2> QED BY <2>2
<1>5. ASSUME NEW n \in Nat PROVE f[n] = step[n][f]
  <2>1. /\ n + 1 \in Nat /\ Part(n + 1) \in [Nat -> T]
        /\ Upto(Part(n + 1), n + 1)
    BY <1>3
  <2>2. ASSUME NEW k \in 0 .. n - 1 PROVE f[k] = Part(n + 1)[k]
    <3>1. /\ k \in Nat /\ k + 1 \in Nat /\ Part(k + 1) \in [Nat -> T]
          /\ Upto(Part(k + 1), k + 1)
      BY <1>3
    <3>2. Upto(Part(n + 1), k + 1) BY <2>1
    <3>3. \A j \in 0 .. (k + 1) - 1 : Part(k + 1)[j] = Part(n + 1)[j]
      <4> HIDE DEF Upto
      <4> QED BY <3>1, <3>2, <2>1, <1>2
    <3>4. k \in 0 .. (k + 1) - 1 OBVIOUS
    <3> QED BY <3>1, <3>3, <3>4
  <2>3. step[n][f] = step[n][Part(n + 1)] BY <2>1, <2>2, <1>4 DEF LooksBack
  <2>4. n \in 0 .. (n + 1) - 1 OBVIOUS
  <2>5. Part(n + 1)[n] = step[n][Part(n + 1)] BY <2>1, <2>4
  <2> QED BY <2>3, <2>5
<1> QED BY <1>4, <1>5 DEF HasSolution

IterationsOn(N, T) == [1 .. N -> [T -> T]]
Iterates(f, N, init, next) ==
  f[0] = init /\ \A n \in 1 .. N : f[n] = next[n][f[n - 1]]

\* The same on 0 .. N, for a step that takes the value before.
LEMMA IterationExists ==
  ASSUME NEW N \in Nat, NEW T, NEW init \in T,
         NEW next \in IterationsOn(N, T)
  PROVE  \E f \in [0 .. N -> T] : Iterates(f, N, init, next)
<1> USE DEF IterationsOn
<1> DEFINE At(n, g) == IF n \in 1 .. N THEN next[n][g[n - 1]] ELSE init
           step == [n \in Nat |-> [g \in [Nat -> T] |-> At(n, g)]]
<1>1. \A n \in Nat : \A g \in [Nat -> T] : At(n, g) \in T
  <2> TAKE n \in Nat
  <2> TAKE g \in [Nat -> T]
  <2>1. CASE n \in 1 .. N
    <3>1. n - 1 \in Nat /\ g[n - 1] \in T BY <2>1
    <3> QED BY <3>1, <2>1
  <2>2. CASE n \notin 1 .. N BY <2>2
  <2> QED BY <2>1, <2>2
<1>2. \A n \in Nat : \A g, h \in [Nat -> T] :
        (\A k \in 0 .. n - 1 : g[k] = h[k]) => At(n, g) = At(n, h)
  OBVIOUS
<1> HIDE DEF At
<1>3. step \in StepsOn(T) BY <1>1 DEF StepsOn
<1>4. \A n \in Nat : \A g \in [Nat -> T] : step[n][g] = At(n, g) OBVIOUS
<1> HIDE DEF step
<1>5. LooksBack(T, step) BY <1>2, <1>4 DEF LooksBack
<1>6. PICK f \in [Nat -> T] : \A n \in Nat : f[n] = step[n][f]
  <2>1. T # {} OBVIOUS
  <2>2. HasSolution(T, step) BY <2>1, <1>3, <1>5, RecursionExists
  <2> QED BY <2>2 DEF HasSolution
<1>7. \A n \in Nat : f[n] = At(n, f) BY <1>4, <1>6
<1> DEFINE r == [n \in 0 .. N |-> f[n]]
<1>8. r \in [0 .. N -> T] OBVIOUS
<1>9. r[0] = init BY <1>7 DEF At
<1>10. \A n \in 1 .. N : r[n] = next[n][r[n - 1]] BY <1>7 DEF At
<1> QED BY <1>8, <1>9, <1>10 DEF Iterates

-----------------------------------------------------------------------------
\* The loops of the breadth-first search.

Searches == [queue : Seq(Cells), distance : [Cells -> Int]]

\* A neighbour that can be entered is a cell.
LEMMA NeighbourIsCell ==
  ASSUME NEW blocked, NEW cell, NEW d, Enters(blocked, cell, d)
  PROVE  Neighbour(cell, d) \in Cells \ blocked
  BY DEF Enters, IsWalkable

LEMMA VisitType ==
  ASSUME NEW blocked, NEW current \in Cells, NEW search \in Searches, NEW d
  PROVE  Visit(blocked, current, search, d) \in Searches
<1> DEFINE next == Neighbour(current, d)
<1>1. CASE Enters(blocked, current, d) /\ search.distance[next] < 0
  <2>1. next \in Cells BY <1>1, NeighbourIsCell
  <2> HIDE DEF next
  <2>2. search.queue \in Seq(Cells) /\ search.distance \in [Cells -> Int]
    BY DEF Searches
  <2>3. Append(search.queue, next) \in Seq(Cells) BY <2>1, <2>2
  <2>4. [search.distance EXCEPT ![next] = search.distance[current] + 1]
          \in [Cells -> Int]
    BY <2>1, <2>2
  <2> QED BY <1>1, <2>3, <2>4 DEF Visit, Searches, next
<1>2. CASE ~(Enters(blocked, current, d) /\ search.distance[next] < 0)
  BY <1>2 DEF Visit
<1> QED BY <1>1, <1>2

\* The round of the loop that Discover stands for, direction by direction.
IsRound(blocked, search, tried) ==
  /\ tried[0] = [queue |-> Tail(search.queue), distance |-> search.distance]
  /\ \A d \in 1 .. 8 :
       tried[d] = Visit(blocked, Head(search.queue), tried[d - 1], d)
  /\ Discover(blocked, search) = tried[8]

LEMMA DiscoverLoop ==
  ASSUME NEW blocked, NEW search \in Searches, search.queue # <<>>
  PROVE  \E tried \in [0 .. 8 -> Searches] : IsRound(blocked, search, tried)
<1> DEFINE current == Head(search.queue)
           init == [queue |-> Tail(search.queue), distance |-> search.distance]
           next == [d \in 1 .. 8 |-> [s \in Searches |-> Visit(blocked, current, s, d)]]
           Step(f) == [d \in 0 .. 8 |-> IF d = 0 THEN init
                                      ELSE Visit(blocked, current, f[d - 1], d)]
           tried == CHOOSE f : f = Step(f)
<1>1. current \in Cells /\ init \in Searches BY DEF Searches
<1>2. Discover(blocked, search) = tried[8] BY DEF Discover
<1> HIDE DEF current, init
<1>3. next \in IterationsOn(8, Searches) BY <1>1, VisitType DEF IterationsOn
<1>4. PICK f \in [0 .. 8 -> Searches] :
        f[0] = init /\ \A d \in 1 .. 8 : f[d] = next[d][f[d - 1]]
  <2> HIDE DEF next
  <2>1. \E f \in [0 .. 8 -> Searches] : Iterates(f, 8, init, next)
    BY <1>1, <1>3, IterationExists
  <2> QED BY <2>1 DEF Iterates
<1>5. f = Step(f)
  <2>1. \A d \in 1 .. 8 : f[d] = Visit(blocked, current, f[d - 1], d)
    BY <1>4
  <2> QED BY <1>4, <2>1
<1>6. tried = Step(tried)
  <2> HIDE DEF Step
  <2> QED BY <1>5
<1> HIDE DEF tried
<1>7. tried[0] = init
  BY <1>6
<1>8. \A d \in 1 .. 8 : tried[d] = Visit(blocked, current, tried[d - 1], d)
  BY <1>6
<1>9. 0 .. 8 \subseteq {d \in 0 .. 8 : tried[d] \in Searches}
  <2> DEFINE S == {d \in 0 .. 8 : tried[d] \in Searches}
  <2>1. 0 \in S BY <1>1, <1>7
  <2>2. \A d \in 0 .. 8 : d < 8 /\ d \in S => d + 1 \in S
    <3> SUFFICES ASSUME NEW d \in 0 .. 8, d < 8, tried[d] \in Searches
                 PROVE  tried[d + 1] \in Searches
      OBVIOUS
    <3>1. d + 1 \in 1 .. 8 /\ (d + 1) - 1 = d OBVIOUS
    <3>2. tried[d + 1] = Visit(blocked, current, tried[d], d + 1)
      BY <1>8, <3>1
    <3> QED BY <3>2, <1>1, VisitType
  <2> HIDE DEF S
  <2> QED BY <2>1, <2>2, SetInductionUpTo DEF S
<1>10. tried \in [0 .. 8 -> Searches]
  BY <1>6, <1>9
<1>11. IsRound(blocked, search, tried)
  BY <1>2, <1>7, <1>8 DEF IsRound, current, init
<1> QED BY <1>10, <1>11

LEMMA TailFacts ==
  ASSUME NEW S, NEW q \in Seq(S), q # <<>>
  PROVE  /\ Len(Tail(q)) = Len(q) - 1
         /\ \A i \in 1 .. Len(Tail(q)) :
              i + 1 \in 1 .. Len(q) /\ Tail(q)[i] = q[i + 1]
  OBVIOUS

-----------------------------------------------------------------------------
\* The invariant of the search.

Found(s) == {c \in Cells : s.distance[c] >= 0}
Queued(s) == {s.queue[i] : i \in 1 .. Len(s.queue)}

\* Every cell that p leads to has been found, at most one step further.
Expanded(blocked, s, p) ==
  \A d \in Directions :
    Enters(blocked, p, d) =>
      s.distance[Neighbour(p, d)] \in 0 .. s.distance[p] + 1

\* A cell other than the goal was found from a cell one step nearer.
FoundFrom(blocked, s, c) ==
  \E p \in Found(s) : \E d \in Directions :
    /\ Enters(blocked, p, d) /\ c = Neighbour(p, d)
    /\ s.distance[c] = s.distance[p] + 1

\* The queue holds found cells once, the nearer ones first.
QueueInv(s) ==
  /\ \A i \in 1 .. Len(s.queue) : s.queue[i] \in Found(s)
  /\ \A i, j \in 1 .. Len(s.queue) :
       i < j => /\ s.queue[i] # s.queue[j]
                /\ s.distance[s.queue[i]] <= s.distance[s.queue[j]]

FoundInv(blocked, goal, s) ==
  /\ goal \in Cells /\ s.distance[goal] = 0
  /\ \A c \in Cells : s.distance[c] >= -1
  /\ \A c \in Found(s) : c \notin blocked
  /\ \A c \in Found(s) : c # goal => FoundFrom(blocked, s, c)

\* Between two rounds.
RoundInv(blocked, goal, s) ==
  /\ s \in Searches /\ FoundInv(blocked, goal, s) /\ QueueInv(s)
  /\ \A p \in Found(s) \ Queued(s) : Expanded(blocked, s, p)
  /\ s.queue # <<>> =>
       \A c \in Found(s) : s.distance[c] <= s.distance[s.queue[1]] + 1

\* Within a round, when current has tried the directions up to d.
TryInv(blocked, goal, s, current, done, d) ==
  /\ s \in Searches /\ FoundInv(blocked, goal, s) /\ QueueInv(s)
  /\ current \in Found(s) /\ current \notin done
  /\ Found(s) \ Queued(s) = done \cup {current}
  /\ \A p \in done : Expanded(blocked, s, p)
  /\ \A c \in Found(s) : s.distance[c] <= s.distance[current] + 1
  /\ \A i \in 1 .. Len(s.queue) : s.distance[s.queue[i]] >= s.distance[current]
  /\ \A e \in 1 .. d :
       Enters(blocked, current, e) =>
         s.distance[Neighbour(current, e)] \in 0 .. s.distance[current] + 1

\* What a visit changes when it finds the cell next.
Finds(blocked, s, t, current, next) ==
  /\ t \in Searches
  /\ next \in Cells \ blocked /\ next \notin Found(s)
  /\ t.distance[next] = s.distance[current] + 1
  /\ \A c \in Cells : c # next => t.distance[c] = s.distance[c]
  /\ Len(t.queue) = Len(s.queue) + 1
  /\ t.queue[Len(s.queue) + 1] = next
  /\ \A i \in 1 .. Len(s.queue) : t.queue[i] = s.queue[i]

LEMMA VisitFinds ==
  ASSUME NEW blocked, NEW current \in Cells, NEW s \in Searches, NEW d,
         Enters(blocked, current, d), s.distance[Neighbour(current, d)] < 0
  PROVE  Finds(blocked, s, Visit(blocked, current, s, d), current,
               Neighbour(current, d))
<1> DEFINE t == Visit(blocked, current, s, d)
           next == Neighbour(current, d)
<1>1. t \in Searches BY VisitType
<1>2. next \in Cells \ blocked BY NeighbourIsCell
<1>3. s.queue \in Seq(Cells) /\ s.distance \in [Cells -> Int] BY DEF Searches
<1>4. /\ t.queue = Append(s.queue, next)
      /\ t.distance = [s.distance EXCEPT ![next] = s.distance[current] + 1]
  BY DEF Visit
<1>5. next \notin Found(s) BY <1>2, <1>3 DEF Found
<1> HIDE DEF next, t
<1>6. Finds(blocked, s, t, current, next)
  BY <1>1, <1>2, <1>3, <1>4, <1>5 DEF Finds
<1> QED BY <1>6 DEF t, next

LEMMA VisitKeeps ==
  ASSUME NEW blocked, NEW goal, NEW s, NEW current, NEW done,
         NEW d \in Directions, TryInv(blocked, goal, s, current, done, d - 1)
  PROVE  TryInv(blocked, goal, Visit(blocked, current, s, d), current, done, d)
<1> DEFINE t == Visit(blocked, current, s, d)
           next == Neighbour(current, d)
<1>1. /\ s \in Searches /\ current \in Cells /\ current \in Found(s)
      /\ s.queue \in Seq(Cells) /\ s.distance \in [Cells -> Int]
  BY DEF TryInv, Searches, Found
<1>2. \A e \in 1 .. d : e = d \/ e \in 1 .. (d - 1) BY DEF Directions
<1>3. CASE Enters(blocked, current, d) /\ s.distance[next] < 0
  <2> HIDE DEF t, next
  <2>1. /\ t \in Searches
        /\ next \in Cells \ blocked /\ next \notin Found(s)
        /\ t.distance[next] = s.distance[current] + 1
        /\ \A c \in Cells : c # next => t.distance[c] = s.distance[c]
        /\ Len(t.queue) = Len(s.queue) + 1
        /\ t.queue[Len(s.queue) + 1] = next
        /\ \A i \in 1 .. Len(s.queue) : t.queue[i] = s.queue[i]
    <3>1. Finds(blocked, s, t, current, next)
      BY <1>1, <1>3, VisitFinds DEF t, next
    <3> QED BY <3>1 DEF Finds
  <2>2. Len(s.queue) \in Nat BY <1>1
  <2>3. Found(t) = Found(s) \cup {next} /\ \A c \in Found(s) : t.distance[c] = s.distance[c]
    BY <1>1, <2>1 DEF Found
  <2>4. Queued(t) = Queued(s) \cup {next}
    <3>1. \A i \in 1 .. Len(t.queue) :
            i = Len(s.queue) + 1 \/ i \in 1 .. Len(s.queue)
      BY <2>1, <2>2
    <3>2. 1 .. Len(s.queue) \subseteq 1 .. Len(t.queue)
          /\ Len(s.queue) + 1 \in 1 .. Len(t.queue)
      BY <2>1, <2>2
    <3> QED BY <2>1, <3>1, <3>2 DEF Queued
  <2>5. \A i \in 1 .. Len(s.queue) : s.queue[i] \in Found(s) /\ s.queue[i] # next
    BY <2>1 DEF TryInv, QueueInv
  <2>6. FoundInv(blocked, goal, t)
    <3>1. FoundInv(blocked, goal, s) BY DEF TryInv
    <3>2. goal \in Found(s) BY <3>1 DEF FoundInv, Found
    <3>3. goal \in Cells /\ t.distance[goal] = 0
      BY <3>1, <3>2, <2>3 DEF FoundInv
    <3>4. \A c \in Cells : t.distance[c] >= -1
      BY <3>1, <2>1, <1>1 DEF FoundInv, Found
    <3>5. \A c \in Found(t) : c \notin blocked BY <3>1, <2>1, <2>3 DEF FoundInv
    <3>6. ASSUME NEW c \in Found(t), c # goal PROVE FoundFrom(blocked, t, c)
      <4>1. CASE c = next
        <5>1. current \in Found(t) /\ t.distance[current] = s.distance[current]
          BY <1>1, <2>3
        <5>2. t.distance[c] = t.distance[current] + 1 BY <4>1, <5>1, <2>1
        <5>3. Enters(blocked, current, d) /\ c = Neighbour(current, d)
          BY <1>3, <4>1 DEF next
        <5> QED BY <5>1, <5>2, <5>3 DEF FoundFrom
      <4>2. CASE c \in Found(s)
        <5>1. FoundFrom(blocked, s, c) BY <3>1, <3>6, <4>2 DEF FoundInv
        <5> QED BY <5>1, <4>2, <2>3 DEF FoundFrom
      <4> QED BY <4>1, <4>2, <2>3
    <3> QED BY <3>3, <3>4, <3>5, <3>6 DEF FoundInv
  <2>7. QueueInv(t)
    <3>1. \A i \in 1 .. Len(t.queue) : t.queue[i] \in Found(t)
      BY <2>1, <2>2, <2>3, <2>5
    <3>2. ASSUME NEW i \in 1 .. Len(t.queue), NEW j \in 1 .. Len(t.queue), i < j
          PROVE  /\ t.queue[i] # t.queue[j]
                 /\ t.distance[t.queue[i]] <= t.distance[t.queue[j]]
      <4>1. i \in 1 .. Len(s.queue) /\ t.queue[i] = s.queue[i]
        BY <3>2, <2>1, <2>2
      <4>2. t.distance[t.queue[i]] = s.distance[s.queue[i]]
        BY <4>1, <2>3, <2>5
      <4>3. CASE j \in 1 .. Len(s.queue)
        <5>1. t.queue[j] = s.queue[j] /\ t.distance[t.queue[j]] = s.distance[s.queue[j]]
          BY <4>3, <2>1, <2>3, <2>5
        <5>2. s.queue[i] # s.queue[j]
              /\ s.distance[s.queue[i]] <= s.distance[s.queue[j]]
          BY <3>2, <4>1, <4>3 DEF TryInv, QueueInv
        <5> QED BY <4>1, <4>2, <5>1, <5>2
      <4>4. CASE j = Len(s.queue) + 1
        <5>1. s.distance[s.queue[i]] <= s.distance[current] + 1
          BY <4>1, <2>5 DEF TryInv
        <5> QED BY <4>1, <4>2, <4>4, <5>1, <2>1, <2>5
      <4> QED BY <4>3, <4>4, <2>1, <2>2
    <3> QED BY <3>1, <3>2 DEF QueueInv
  <2>8. current \in Found(t) /\ t.distance[current] = s.distance[current]
    BY <1>1, <2>3
  <2>9. Found(t) \ Queued(t) = done \cup {current}
    BY <2>1, <2>3, <2>4 DEF TryInv
  <2>10. ASSUME NEW p \in Found(s), NEW e, Enters(blocked, p, e),
                s.distance[Neighbour(p, e)] \in 0 .. s.distance[p] + 1
         PROVE  t.distance[Neighbour(p, e)] \in 0 .. t.distance[p] + 1
    <3>1. Neighbour(p, e) \in Cells BY <2>10, NeighbourIsCell
    <3>2. Neighbour(p, e) \in Found(s)
      BY <3>1, <2>10, <1>1 DEF Found
    <3> QED BY <3>2, <2>3, <2>10
  <2>11. \A p \in done : Expanded(blocked, t, p)
    <3>1. done \subseteq Found(s) BY DEF TryInv
    <3> QED BY <3>1, <2>10 DEF TryInv, Expanded
  <2>12. \A c \in Found(t) : t.distance[c] <= t.distance[current] + 1
    <3>1. \A c \in Found(s) : s.distance[c] <= s.distance[current] + 1 BY DEF TryInv
    <3>2. s.distance[current] \in Int BY <1>1
    <3> QED BY <3>1, <3>2, <2>1, <2>3, <2>8
  <2>13. \A i \in 1 .. Len(t.queue) : t.distance[t.queue[i]] >= t.distance[current]
    <3>1. \A i \in 1 .. Len(s.queue) : s.distance[s.queue[i]] >= s.distance[current]
      BY DEF TryInv
    <3>2. s.distance[current] \in Int BY <1>1
    <3> TAKE i \in 1 .. Len(t.queue)
    <3>3. CASE i \in 1 .. Len(s.queue) BY <3>1, <3>3, <2>1, <2>3, <2>5, <2>8
    <3>4. CASE i = Len(s.queue) + 1 BY <3>2, <3>4, <2>1, <2>8
    <3> QED BY <3>3, <3>4, <2>1, <2>2
  <2>14. ASSUME NEW e \in 1 .. d, Enters(blocked, current, e)
         PROVE  t.distance[Neighbour(current, e)] \in 0 .. t.distance[current] + 1
    <3>1. CASE e = d
      <4>1. s.distance[current] \in Int /\ s.distance[current] >= 0
        BY <1>1 DEF Found
      <4> QED BY <3>1, <4>1, <2>1, <2>8 DEF next
    <3>2. CASE e \in 1 .. (d - 1)
      <4>1. s.distance[Neighbour(current, e)] \in 0 .. s.distance[current] + 1
        BY <3>2, <2>14 DEF TryInv
      <4> QED BY <4>1, <1>1, <2>10, <2>14
    <3> QED BY <3>1, <3>2, <1>2
  <2>15. current \notin done BY DEF TryInv
  <2>16. TryInv(blocked, goal, t, current, done, d)
    BY <2>1, <2>6, <2>7, <2>8, <2>9, <2>11, <2>12, <2>13, <2>14, <2>15 DEF TryInv
  <2> QED BY <2>16 DEF t
<1>4. CASE ~(Enters(blocked, current, d) /\ s.distance[next] < 0)
  <2>1. t = s BY <1>4 DEF Visit
  <2>2. ASSUME Enters(blocked, current, d)
        PROVE  s.distance[next] \in 0 .. s.distance[current] + 1
    <3>1. next \in Cells BY <2>2, NeighbourIsCell
    <3>2. s.distance[next] \in Int /\ s.distance[next] >= 0
      BY <3>1, <1>1, <1>4, <2>2
    <3>3. next \in Found(s) BY <3>1, <3>2 DEF Found
    <3>4. s.distance[next] <= s.distance[current] + 1 BY <3>3 DEF TryInv
    <3>5. s.distance[current] \in Int BY <1>1
    <3> HIDE DEF next
    <3> QED BY <3>2, <3>4, <3>5
  <2> QED BY <2>1, <2>2, <1>2 DEF TryInv
<1> QED BY <1>3, <1>4

\* Every round keeps the invariant, and takes the front of the queue to the
\* cells that are done.
LEMMA DiscoverKeeps ==
  ASSUME NEW blocked, NEW goal, NEW s, RoundInv(blocked, goal, s),
         s.queue # <<>>
  PROVE  LET t == Discover(blocked, s)
         IN  /\ RoundInv(blocked, goal, t)
             /\ s.queue[1] \in Cells \ (Found(s) \ Queued(s))
             /\ Found(t) \ Queued(t) = (Found(s) \ Queued(s)) \cup {s.queue[1]}
<1> DEFINE current == s.queue[1]
           done == Found(s) \ Queued(s)
           Try(t, d) == TryInv(blocked, goal, t, current, done, d)
<1>1. /\ s \in Searches /\ s.queue \in Seq(Cells)
      /\ s.distance \in [Cells -> Int] /\ Len(s.queue) \in Nat \ {0}
      /\ Head(s.queue) = current
  BY DEF RoundInv, Searches
<1>2. PICK tried \in [0 .. 8 -> Searches] :
        /\ tried[0] = [queue |-> Tail(s.queue), distance |-> s.distance]
        /\ \A d \in 1 .. 8 :
             tried[d] = Visit(blocked, Head(s.queue), tried[d - 1], d)
        /\ Discover(blocked, s) = tried[8]
  <2>1. PICK tried \in [0 .. 8 -> Searches] : IsRound(blocked, s, tried)
    BY <1>1, DiscoverLoop
  <2> QED BY <2>1 DEF IsRound
<1>3. current \in Found(s) /\ current \in Queued(s) /\ current \in Cells
  BY <1>1 DEF RoundInv, QueueInv, Queued, Found
<1>4. Try(tried[0], 0)
  <2> DEFINE t == tried[0]
  <2>1. t \in Searches /\ t.queue = Tail(s.queue) /\ t.distance = s.distance
    BY <1>2
  <2>2. /\ Len(t.queue) = Len(s.queue) - 1
        /\ \A i \in 1 .. Len(t.queue) :
             i + 1 \in 1 .. Len(s.queue) /\ t.queue[i] = s.queue[i + 1]
    BY <2>1, <1>1, TailFacts
  <2> HIDE DEF t
  <2>3. Found(t) = Found(s) BY <2>1 DEF Found
  <2>4. FoundInv(blocked, goal, t)
    BY <2>1, <2>3 DEF RoundInv, FoundInv, FoundFrom
  <2>5. \A i, j \in 1 .. Len(t.queue) : i < j => i + 1 < j + 1 BY <2>2, <1>1
  <2>6. QueueInv(t)
    BY <2>1, <2>2, <2>3, <2>5 DEF RoundInv, QueueInv
  <2>7. Queued(t) = Queued(s) \ {current}
    <3>1. ASSUME NEW i \in 1 .. Len(t.queue) PROVE t.queue[i] # current
      <4>1. 1 \in 1 .. Len(s.queue) /\ i + 1 \in 1 .. Len(s.queue) /\ 1 < i + 1
        BY <1>1, <2>2
      <4>2. QueueInv(s) BY DEF RoundInv
      <4>3. s.queue[1] # s.queue[i + 1] BY <4>1, <4>2 DEF QueueInv
      <4>4. t.queue[i] = s.queue[i + 1] BY <2>2
      <4> QED BY <4>3, <4>4
    <3>2. ASSUME NEW i \in 1 .. Len(s.queue), s.queue[i] # current
          PROVE  \E j \in 1 .. Len(t.queue) : t.queue[j] = s.queue[i]
      <4>1. i - 1 \in 1 .. Len(t.queue) /\ (i - 1) + 1 = i
        BY <3>2, <1>1, <2>2
      <4> QED BY <4>1, <2>2
    <3>3. Queued(t) \subseteq Queued(s) \ {current} BY <3>1, <2>2 DEF Queued
    <3>4. ASSUME NEW c \in Queued(s), c # current PROVE c \in Queued(t)
      <4>1. PICK i \in 1 .. Len(s.queue) : c = s.queue[i] BY <3>4 DEF Queued
      <4>2. PICK j \in 1 .. Len(t.queue) : t.queue[j] = s.queue[i]
        BY <3>2, <3>4, <4>1
      <4> QED BY <4>1, <4>2 DEF Queued
    <3> QED BY <3>3, <3>4
  <2>8. current \notin done /\ Found(t) \ Queued(t) = done \cup {current}
    BY <1>3, <2>3, <2>7
  <2>9. \A p \in done : Expanded(blocked, t, p)
    BY <2>1 DEF RoundInv, Expanded
  <2>10. \A c \in Found(t) : t.distance[c] <= t.distance[current] + 1
    BY <2>1, <2>3 DEF RoundInv
  <2>11. ASSUME NEW i \in 1 .. Len(t.queue)
         PROVE  t.distance[t.queue[i]] >= t.distance[current]
    <3>1. 1 \in 1 .. Len(s.queue) /\ i + 1 \in 1 .. Len(s.queue) /\ 1 < i + 1
      BY <1>1, <2>2
    <3>2. s.distance[s.queue[1]] <= s.distance[s.queue[i + 1]]
      BY <3>1 DEF RoundInv, QueueInv
    <3>3. s.queue[i + 1] \in Cells BY <3>1, <1>1
    <3>4. s.distance[s.queue[i + 1]] \in Int /\ s.distance[current] \in Int
      BY <3>3, <1>1, <1>3
    <3> QED BY <3>2, <3>4, <2>1, <2>2
  <2>12. current \in Found(t) BY <1>3, <2>3
  <2>13. TryInv(blocked, goal, t, current, done, 0)
    BY <2>1, <2>4, <2>6, <2>8, <2>9, <2>10, <2>11, <2>12 DEF TryInv
  <2> QED BY <2>13 DEF t
<1>5. 0 .. 8 \subseteq {d \in 0 .. 8 : Try(tried[d], d)}
  <2> DEFINE S == {d \in 0 .. 8 : Try(tried[d], d)}
  <2> HIDE DEF current, done
  <2>1. 0 \in S BY <1>4
  <2>2. ASSUME NEW d \in 0 .. 8, d < 8, d \in S PROVE d + 1 \in S
    <3>1. d + 1 \in Directions /\ d + 1 \in 1 .. 8 /\ (d + 1) - 1 = d
      BY <2>2 DEF Directions
    <3>2. tried[d + 1] = Visit(blocked, current, tried[d], d + 1)
      BY <3>1, <1>1, <1>2
    <3>3. TryInv(blocked, goal, tried[d], current, done, (d + 1) - 1)
      BY <2>2, <3>1
    <3>4. TryInv(blocked, goal, tried[d + 1], current, done, d + 1)
      BY <3>1, <3>2, <3>3, VisitKeeps
    <3> QED BY <3>4, <3>1
  <2> HIDE DEF S
  <2> QED BY <2>1, <2>2, SetInductionUpTo DEF S
<1> DEFINE t == tried[8]
<1>6. TryInv(blocked, goal, t, current, done, 8) BY <1>5
<1> HIDE DEF t, current, done
<1>7. Expanded(blocked, t, current) BY <1>6 DEF TryInv, Expanded, Directions
<1>8. Found(t) \ Queued(t) = done \cup {current} BY <1>6 DEF TryInv
<1>9. \A p \in Found(t) \ Queued(t) : Expanded(blocked, t, p)
  BY <1>6, <1>7, <1>8 DEF TryInv
<1>10. ASSUME t.queue # <<>>
       PROVE  \A c \in Found(t) : t.distance[c] <= t.distance[t.queue[1]] + 1
  <2>1. t.queue \in Seq(Cells) /\ t.distance \in [Cells -> Int]
    BY <1>6 DEF TryInv, Searches
  <2>2. 1 \in 1 .. Len(t.queue) /\ t.queue[1] \in Cells BY <2>1, <1>10
  <2>3. t.distance[t.queue[1]] >= t.distance[current] BY <2>2, <1>6 DEF TryInv
  <2>4. t.distance[t.queue[1]] \in Int /\ t.distance[current] \in Int
    BY <2>1, <2>2, <1>3
  <2> TAKE c \in Found(t)
  <2>5. t.distance[c] \in Int BY <2>1 DEF Found
  <2>6. t.distance[c] <= t.distance[current] + 1 BY <1>6 DEF TryInv
  <2> QED BY <2>3, <2>4, <2>5, <2>6
<1>11. RoundInv(blocked, goal, t)
  BY <1>6, <1>9, <1>10 DEF TryInv, RoundInv
<1>12. current \in Cells \ done BY <1>3 DEF done
<1>13. Discover(blocked, s) = t BY <1>2 DEF t
<1> QED BY <1>8, <1>11, <1>12, <1>13 DEF current, done

\* The grid is finite.
LEMMA CellsAreFinite ==
  IsFiniteSet(Cells) /\ Cardinality(Cells) \in Nat
<1>1. IsFiniteSet(0 .. Columns - 1) /\ IsFiniteSet(0 .. Rows - 1)
  BY MapConstantsAssumption, FS_Interval
<1>2. IsFiniteSet(Cells) BY <1>1, FS_Product DEF Cells
<1> QED BY <1>2, FS_CardinalityType

\* The search before its first round.
LEMMA StartKeeps ==
  ASSUME NEW blocked, NEW goal \in Cells \ blocked
  PROVE  LET s == StartSearch(goal)
         IN  RoundInv(blocked, goal, s) /\ Found(s) \ Queued(s) = {}
<1> DEFINE s == StartSearch(goal)
<1>1. /\ s.queue = <<goal>>
      /\ s.distance = [c \in Cells |-> IF c = goal THEN 0 ELSE -1]
  BY DEF StartSearch
<1>2. s \in Searches BY DEF StartSearch, Searches
<1>3. Len(s.queue) = 1 /\ s.queue[1] = goal BY <1>1
<1>4. \A c \in Cells : s.distance[c] = IF c = goal THEN 0 ELSE -1 BY <1>1
<1> HIDE DEF s
<1>5. Found(s) = {goal} BY <1>4 DEF Found
<1>6. Queued(s) = {goal}
  <2>1. \A i \in 1 .. Len(s.queue) : i = 1 BY <1>3
  <2>2. 1 \in 1 .. Len(s.queue) BY <1>3
  <2> QED BY <1>3, <2>1, <2>2 DEF Queued
<1>7. FoundInv(blocked, goal, s) BY <1>4, <1>5 DEF FoundInv
<1>8. QueueInv(s) BY <1>3, <1>5 DEF QueueInv
<1>9. RoundInv(blocked, goal, s)
  BY <1>2, <1>3, <1>4, <1>5, <1>6, <1>7, <1>8 DEF RoundInv
<1> QED BY <1>5, <1>6, <1>9 DEF s

Round(blocked, s) == IF s.queue = <<>> THEN s ELSE Discover(blocked, s)

LEMMA RoundType ==
  ASSUME NEW blocked, NEW s \in Searches
  PROVE  Round(blocked, s) \in Searches
<1>1. CASE s.queue = <<>> BY <1>1 DEF Round
<1>2. CASE s.queue # <<>>
  <2>1. PICK tried \in [0 .. 8 -> Searches] : IsRound(blocked, s, tried)
    BY <1>2, DiscoverLoop
  <2>2. tried[8] \in Searches OBVIOUS
  <2> QED BY <1>2, <2>1, <2>2 DEF IsRound, Round
<1> QED BY <1>1, <1>2

IsSearch(blocked, goal, search, N) ==
  /\ search[0] = StartSearch(goal)
  /\ \A n \in 1 .. N : search[n] = Round(blocked, search[n - 1])
  /\ BreadthFirst(blocked, goal) = search[N]

\* The loop that BreadthFirst stands for, round by round.
LEMMA SearchLoop ==
  ASSUME NEW blocked, NEW goal \in Cells
  PROVE  \E search : IsSearch(blocked, goal, search, Cardinality(Cells))
<1> DEFINE N == Cardinality(Cells)
           init == StartSearch(goal)
           next == [n \in 1 .. N |-> [s \in Searches |-> Round(blocked, s)]]
           Step(f) == [n \in 0 .. N |-> IF n = 0 THEN init
                                       ELSE Round(blocked, f[n - 1])]
           search == CHOOSE f : f = Step(f)
<1>1. init \in Searches BY DEF StartSearch, Searches
<1>2. N \in Nat BY CellsAreFinite
<1>3. BreadthFirst(blocked, goal) = search[N] BY DEF BreadthFirst, Round
<1> HIDE DEF init, N
<1>4. next \in IterationsOn(N, Searches) BY RoundType DEF IterationsOn
<1>5. PICK f \in [0 .. N -> Searches] :
        f[0] = init /\ \A n \in 1 .. N : f[n] = next[n][f[n - 1]]
  <2> HIDE DEF next
  <2>1. \E f \in [0 .. N -> Searches] : Iterates(f, N, init, next)
    BY <1>1, <1>2, <1>4, IterationExists
  <2> QED BY <2>1 DEF Iterates
<1>6. f = Step(f)
  <2>1. ASSUME NEW n \in 1 .. N PROVE f[n] = Round(blocked, f[n - 1])
    <3>1. n - 1 \in 0 .. N BY <1>2
    <3>2. f[n - 1] \in Searches BY <3>1
    <3> QED BY <3>2, <1>5
  <2> QED BY <1>2, <1>5, <2>1
<1>7. search = Step(search)
  <2> HIDE DEF Step
  <2> QED BY <1>6
<1> HIDE DEF search
<1>8. search[0] = init /\ \A n \in 1 .. N : search[n] = Round(blocked, search[n - 1])
  BY <1>2, <1>7
<1>9. IsSearch(blocked, goal, search, N)
  BY <1>3, <1>8 DEF IsSearch, init
<1> QED BY <1>9 DEF N

\* When the search ends, the queue is empty: the rounds suffice for every grid.
LEMMA SearchEnds ==
  ASSUME NEW blocked, NEW goal \in Cells \ blocked
  PROVE  LET s == BreadthFirst(blocked, goal)
         IN  RoundInv(blocked, goal, s) /\ s.queue = <<>>
<1> DEFINE N == Cardinality(Cells)
           Done(s) == Found(s) \ Queued(s)
           Inv(s, n) == /\ RoundInv(blocked, goal, s)
                        /\ s.queue # <<>> => Cardinality(Done(s)) = n
<1>1. N \in Nat /\ IsFiniteSet(Cells) BY CellsAreFinite
<1>2. PICK search : IsSearch(blocked, goal, search, N) BY SearchLoop
<1>3. \A s : Done(s) \subseteq Cells /\ IsFiniteSet(Done(s))
  <2> TAKE s
  <2>1. Done(s) \subseteq Cells BY DEF Found
  <2> QED BY <2>1, <1>1, FS_Subset
<1> HIDE DEF N
<1>4. Inv(search[0], 0)
  <2>1. RoundInv(blocked, goal, search[0]) /\ Done(search[0]) = {}
    BY <1>2, StartKeeps DEF IsSearch
  <2> QED BY <2>1, FS_EmptySet
<1>5. ASSUME NEW n \in 0 .. N, n < N, Inv(search[n], n)
      PROVE  Inv(search[n + 1], n + 1)
  <2> DEFINE s == search[n]
  <2>1. search[n + 1] = Round(blocked, s)
    <3>1. n + 1 \in 1 .. N /\ (n + 1) - 1 = n BY <1>1, <1>5
    <3> QED BY <3>1, <1>2 DEF IsSearch
  <2>2. CASE s.queue = <<>> BY <2>1, <2>2, <1>5 DEF Round
  <2>3. CASE s.queue # <<>>
    <3> DEFINE t == Discover(blocked, s)
    <3>1. search[n + 1] = t BY <2>1, <2>3 DEF Round
    <3>2. /\ RoundInv(blocked, goal, t)
          /\ s.queue[1] \in Cells \ Done(s)
          /\ Done(t) = Done(s) \cup {s.queue[1]}
      BY <1>5, <2>3, DiscoverKeeps
    <3>3. Cardinality(Done(t)) = Cardinality(Done(s)) + 1
      <4> HIDE DEF Done, t, s
      <4>1. s.queue[1] \notin Done(s) BY <3>2
      <4> QED BY <4>1, <3>2, <1>3, FS_AddElement
    <3>4. Cardinality(Done(s)) = n BY <1>5, <2>3
    <3> QED BY <3>1, <3>2, <3>3, <3>4
  <2> QED BY <2>2, <2>3
<1>6. Inv(search[N], N)
  <2> DEFINE S == {n \in 0 .. N : Inv(search[n], n)}
  <2> HIDE DEF Inv
  <2>1. 0 \in S BY <1>1, <1>4
  <2>2. \A n \in 0 .. N : n < N /\ n \in S => n + 1 \in S BY <1>1, <1>5
  <2>3. 0 .. N \subseteq S
    <3> HIDE DEF S
    <3> QED BY <1>1, <2>1, <2>2, SetInductionUpTo
  <2>4. N \in 0 .. N BY <1>1
  <2> QED BY <2>3, <2>4
<1>7. search[N].queue = <<>>
  <2> DEFINE s == search[N]
  <2> SUFFICES ASSUME s.queue # <<>> PROVE FALSE OBVIOUS
  <2>1. Cardinality(Done(s)) = N BY <1>6
  <2>2. Done(s) = Cells
    <3> HIDE DEF Done, s
    <3> QED BY <1>1, <1>3, <2>1, FS_Subset DEF N
  <2>3. s.queue[1] \in Cells \ Done(s)
    <3> HIDE DEF Done
    <3>1. RoundInv(blocked, goal, s) BY <1>6
    <3> QED BY <3>1, DiscoverKeeps DEF Done
  <2> QED BY <2>2, <2>3
<1>8. BreadthFirst(blocked, goal) = search[N] BY <1>2 DEF IsSearch
<1> QED BY <1>6, <1>7, <1>8

-----------------------------------------------------------------------------
\* What the search has found.

Opposite(d) == IF d <= 4 THEN d + 4 ELSE d - 4

LEMMA OppositeTurns ==
  ASSUME NEW d \in Directions
  PROVE  /\ Opposite(d) \in Directions
         /\ kDirections[d][1] \in -1 .. 1 /\ kDirections[d][2] \in -1 .. 1
         /\ kDirections[Opposite(d)][1] = - kDirections[d][1]
         /\ kDirections[Opposite(d)][2] = - kDirections[d][2]
<1> DEFINE k == kDirections
<1>1. /\ k[1] = <<0, 1>>
      /\ k[2] = <<1, 1>>
      /\ k[3] = <<1, 0>>
      /\ k[4] = <<1, -1>>
      /\ k[5] = <<0, -1>>
      /\ k[6] = <<-1, -1>>
      /\ k[7] = <<-1, 0>>
      /\ k[8] = <<-1, 1>>
  BY DEF kDirections
<1> HIDE DEF k
<1>2. /\ k[1][1] = 0 /\ k[1][2] = 1
      /\ k[2][1] = 1 /\ k[2][2] = 1
      /\ k[3][1] = 1 /\ k[3][2] = 0
      /\ k[4][1] = 1 /\ k[4][2] = -1
      /\ k[5][1] = 0 /\ k[5][2] = -1
      /\ k[6][1] = -1 /\ k[6][2] = -1
      /\ k[7][1] = -1 /\ k[7][2] = 0
      /\ k[8][1] = -1 /\ k[8][2] = 1
  BY <1>1
<1>3. d \in {1, 2, 3, 4, 5, 6, 7, 8} BY DEF Directions
<1>4. /\ Opposite(d) \in Directions
      /\ k[d][1] \in -1 .. 1 /\ k[d][2] \in -1 .. 1
      /\ k[Opposite(d)][1] = - k[d][1]
      /\ k[Opposite(d)][2] = - k[d][2]
  BY <1>2, <1>3 DEF Opposite, Directions
<1> QED BY <1>4 DEF k

\* A move can be taken back.
LEMMA EntersBack ==
  ASSUME NEW blocked, NEW cell \in Cells \ blocked, NEW d \in Directions,
         Enters(blocked, cell, d)
  PROVE  /\ Enters(blocked, Neighbour(cell, d), Opposite(d))
         /\ Neighbour(Neighbour(cell, d), Opposite(d)) = cell
<1> DEFINE to == Neighbour(cell, d)
           back == Opposite(d)
           x == kDirections[d][1]
           y == kDirections[d][2]
<1>1. /\ x \in Int /\ y \in Int
      /\ kDirections[back][1] = -x /\ kDirections[back][2] = -y
  BY OppositeTurns
<1>2. cell = <<cell[1], cell[2]>> /\ cell[1] \in Int /\ cell[2] \in Int
  BY DEF Cells
<1>3. to = <<cell[1] + x, cell[2] + y>> BY DEF Neighbour
<1> HIDE DEF x, y, back
<1>4. to[1] = cell[1] + x /\ to[2] = cell[2] + y BY <1>3
<1>5. Neighbour(to, back) = <<to[1] + kDirections[back][1], to[2] + kDirections[back][2]>>
  BY DEF Neighbour
<1> HIDE DEF to
<1>6. to[1] + kDirections[back][1] = cell[1] /\ to[2] + kDirections[back][2] = cell[2]
  BY <1>1, <1>2, <1>4
<1>7. Neighbour(to, back) = cell BY <1>2, <1>5, <1>6
<1>8. Neighbour(to, back)[1] = cell[1] /\ Neighbour(to, back)[2] = cell[2] BY <1>7
<1>9. kDirections[back][1] # 0 /\ kDirections[back][2] # 0 => x # 0 /\ y # 0
  BY <1>1
<1>10. x # 0 /\ y # 0 =>
        /\ IsWalkable(blocked, <<to[1], cell[2]>>)
        /\ IsWalkable(blocked, <<cell[1], to[2]>>)
  BY DEF Enters, x, y, to
<1>11. IsWalkable(blocked, cell) BY DEF IsWalkable
<1>12. Enters(blocked, to, back) BY <1>7, <1>8, <1>9, <1>10, <1>11 DEF Enters
<1> QED BY <1>7, <1>12 DEF to, back

\* The distances as seen from a cell: those of the cells it leads to are within
\* one step, and from every cell but the goal a move leads one step nearer.
IsGeodesic(blocked, goal, distance) ==
  /\ distance \in [Cells -> Int]
  /\ \A c \in Cells : distance[c] >= -1
  /\ \A c \in Cells : distance[c] >= 0 => c \notin blocked
  /\ distance[goal] = 0
  /\ \A c \in Cells \ blocked : \A d \in Directions :
       Enters(blocked, c, d) =>
         /\ distance[c] >= 0 <=> distance[Neighbour(c, d)] >= 0
         /\ distance[c] <= distance[Neighbour(c, d)] + 1
  /\ \A c \in Cells : distance[c] >= 0 /\ c # goal =>
       \E d \in Directions :
         Enters(blocked, c, d) /\ distance[Neighbour(c, d)] = distance[c] - 1

LEMMA SearchIsGeodesic ==
  ASSUME NEW blocked, NEW goal \in Cells \ blocked
  PROVE  IsGeodesic(blocked, goal, GeodesicDistance(blocked, goal))
<1> DEFINE s == BreadthFirst(blocked, goal)
<1>1. RoundInv(blocked, goal, s) /\ s.queue = <<>> BY SearchEnds
<1> HIDE DEF s
<1>2. s.distance \in [Cells -> Int] BY <1>1 DEF RoundInv, Searches
<1>3. Queued(s) = {} BY <1>1 DEF Queued
<1>4. \A p \in Found(s) : Expanded(blocked, s, p) BY <1>1, <1>3 DEF RoundInv
<1>5. FoundInv(blocked, goal, s) BY <1>1 DEF RoundInv
<1>6. ASSUME NEW c \in Cells \ blocked, NEW d \in Directions,
             Enters(blocked, c, d)
      PROVE  /\ s.distance[c] >= 0 <=> s.distance[Neighbour(c, d)] >= 0
             /\ s.distance[c] <= s.distance[Neighbour(c, d)] + 1
  <2> DEFINE e == Neighbour(c, d)
  <2>1. e \in Cells \ blocked BY <1>6, NeighbourIsCell
  <2>2. Enters(blocked, e, Opposite(d)) /\ Neighbour(e, Opposite(d)) = c
    BY <1>6, EntersBack
  <2> HIDE DEF e
  <2>3. s.distance[c] \in Int /\ s.distance[e] \in Int BY <1>2, <2>1
  <2>4. ASSUME s.distance[c] >= 0 PROVE s.distance[e] \in 0 .. s.distance[c] + 1
    <3>1. c \in Found(s) BY <2>4 DEF Found
    <3> QED BY <3>1, <1>4, <1>6 DEF Expanded, e
  <2>5. ASSUME s.distance[e] >= 0 PROVE s.distance[c] \in 0 .. s.distance[e] + 1
    <3>1. e \in Found(s) BY <2>1, <2>5 DEF Found
    <3>2. Opposite(d) \in Directions BY OppositeTurns
    <3> QED BY <3>1, <3>2, <2>2, <1>4 DEF Expanded
  <2>6. s.distance[c] >= -1 /\ s.distance[e] >= -1 BY <1>5, <2>1 DEF FoundInv
  <2>7. /\ s.distance[c] >= 0 <=> s.distance[e] >= 0
        /\ s.distance[c] <= s.distance[e] + 1
    BY <2>3, <2>4, <2>5, <2>6
  <2> QED BY <2>7 DEF e
<1>7. ASSUME NEW c \in Cells, s.distance[c] >= 0, c # goal
      PROVE  \E d \in Directions :
               /\ Enters(blocked, c, d)
               /\ s.distance[Neighbour(c, d)] = s.distance[c] - 1
  <2>1. c \in Found(s) BY <1>7 DEF Found
  <2>2. FoundFrom(blocked, s, c) BY <2>1, <1>5, <1>7 DEF FoundInv
  <2>3. PICK p \in Found(s), d \in Directions :
          /\ Enters(blocked, p, d) /\ c = Neighbour(p, d)
          /\ s.distance[c] = s.distance[p] + 1
    BY <2>2 DEF FoundFrom
  <2>4. p \in Cells \ blocked BY <1>5 DEF FoundInv, Found
  <2>5. Enters(blocked, c, Opposite(d)) /\ Neighbour(c, Opposite(d)) = p
    BY <2>3, <2>4, EntersBack
  <2>6. Opposite(d) \in Directions BY OppositeTurns
  <2>7. s.distance[p] = s.distance[c] - 1 BY <2>3, <2>4, <1>2
  <2> QED BY <2>5, <2>6, <2>7
<1>8. \A c \in Cells : s.distance[c] >= 0 => c \notin blocked
  BY <1>5 DEF FoundInv, Found
<1>9. s.distance[goal] = 0 /\ \A c \in Cells : s.distance[c] >= -1
  BY <1>5 DEF FoundInv
<1>10. IsGeodesic(blocked, goal, s.distance)
  BY <1>2, <1>6, <1>7, <1>8, <1>9 DEF IsGeodesic
<1> QED BY <1>10 DEF GeodesicDistance, s

\* A way of n moves from one cell to another.
IsWay(blocked, way, n, from, to) ==
  /\ way \in [0 .. n -> Cells \ blocked] /\ way[0] = from /\ way[n] = to
  /\ \A i \in 0 .. n - 1 : \E d \in Directions :
       Enters(blocked, way[i], d) /\ way[i + 1] = Neighbour(way[i], d)

\* No way to the goal is shorter than the distance.
LEMMA NoWayIsShorter ==
  ASSUME NEW blocked, NEW goal, NEW distance,
         IsGeodesic(blocked, goal, distance),
         NEW n \in Nat, NEW from, NEW way, IsWay(blocked, way, n, from, goal)
  PROVE  0 <= distance[from] /\ distance[from] <= n
<1> DEFINE S == {k \in 0 .. n : distance[way[n - k]] \in 0 .. k}
<1>1. 0 \in S BY DEF IsWay, IsGeodesic
<1>2. ASSUME NEW k \in 0 .. n, k < n, k \in S PROVE k + 1 \in S
  <2> DEFINE c == way[n - (k + 1)]
             e == way[n - k]
  <2>1. /\ n - (k + 1) \in 0 .. n - 1 /\ n - (k + 1) \in 0 .. n
        /\ (n - (k + 1)) + 1 = n - k
    BY <1>2
  <2>2. PICK d \in Directions : Enters(blocked, c, d) /\ e = Neighbour(c, d)
    BY <2>1 DEF IsWay
  <2>3. c \in Cells \ blocked BY <2>1 DEF IsWay
  <2>4. e \in Cells BY <2>2, NeighbourIsCell
  <2>5. distance[e] \in 0 .. k BY <1>2
  <2> HIDE DEF c, e
  <2>6. distance[c] \in Int /\ distance[e] \in Int BY <2>3, <2>4 DEF IsGeodesic
  <2>7. (distance[c] >= 0 <=> distance[e] >= 0) /\ distance[c] <= distance[e] + 1
    BY <2>2, <2>3 DEF IsGeodesic
  <2>8. distance[c] \in 0 .. k + 1 BY <2>5, <2>6, <2>7
  <2> QED BY <2>8, <1>2 DEF c
<1>3. n \in S
  <2>1. 0 .. n \subseteq S
    <3> HIDE DEF S
    <3> QED BY <1>1, <1>2, SetInductionUpTo
  <2> QED BY <2>1
<1>4. n - n = 0 OBVIOUS
<1>5. distance[from] \in 0 .. n BY <1>3, <1>4 DEF IsWay
<1> QED BY <1>5

\* A way as long as the distance.
LEMMA AWayIsAsShort ==
  ASSUME NEW blocked, NEW goal \in Cells \ blocked, NEW distance,
         IsGeodesic(blocked, goal, distance),
         NEW from \in Cells, distance[from] >= 0
  PROVE  \E way : IsWay(blocked, way, distance[from], from, goal)
<1> DEFINE HasWay(c, n) == \E way : IsWay(blocked, way, n, c, goal)
           S == {n \in Nat : \A c \in Cells : distance[c] = n => HasWay(c, n)}
<1>1. 0 \in S
  <2> SUFFICES ASSUME NEW c \in Cells, distance[c] = 0 PROVE HasWay(c, 0)
    OBVIOUS
  <2>1. c = goal
    <3> SUFFICES ASSUME c # goal PROVE FALSE OBVIOUS
    <3>1. PICK d \in Directions :
            Enters(blocked, c, d) /\ distance[Neighbour(c, d)] = distance[c] - 1
      BY DEF IsGeodesic
    <3>2. Neighbour(c, d) \in Cells /\ c \in Cells \ blocked
      BY <3>1, NeighbourIsCell DEF IsGeodesic
    <3>3. distance[c] >= 0 <=> distance[Neighbour(c, d)] >= 0
      BY <3>1, <3>2 DEF IsGeodesic
    <3> QED BY <3>1, <3>3
  <2> DEFINE way == [i \in 0 .. 0 |-> goal]
  <2>2. way \in [0 .. 0 -> Cells \ blocked] /\ way[0] = goal OBVIOUS
  <2> HIDE DEF way
  <2>3. IsWay(blocked, way, 0, c, goal) BY <2>1, <2>2 DEF IsWay
  <2> QED BY <2>3
<1>2. ASSUME NEW n \in Nat, n \in S PROVE n + 1 \in S
  <2> SUFFICES ASSUME NEW c \in Cells, distance[c] = n + 1
               PROVE  HasWay(c, n + 1)
    OBVIOUS
  <2>1. c # goal /\ distance[c] >= 0 BY DEF IsGeodesic
  <2>2. PICK d \in Directions :
          Enters(blocked, c, d) /\ distance[Neighbour(c, d)] = distance[c] - 1
    BY <2>1 DEF IsGeodesic
  <2> DEFINE e == Neighbour(c, d)
  <2>3. e \in Cells \ blocked /\ c \in Cells \ blocked
    BY <2>1, <2>2, NeighbourIsCell DEF IsGeodesic
  <2>4. distance[e] = n BY <2>2
  <2>5. PICK rest : IsWay(blocked, rest, n, e, goal) BY <1>2, <2>3, <2>4
  <2> HIDE DEF e
  <2> DEFINE way == [i \in 0 .. n + 1 |-> IF i = 0 THEN c ELSE rest[i - 1]]
  <2>6. rest \in [0 .. n -> Cells \ blocked] /\ rest[0] = e /\ rest[n] = goal
    BY <2>5 DEF IsWay
  <2>7. /\ way \in [0 .. n + 1 -> Cells \ blocked] /\ way[0] = c
        /\ \A i \in 0 .. n : way[i + 1] = rest[i]
    <3>1. \A i \in 0 .. n + 1 : i = 0 \/ i - 1 \in 0 .. n OBVIOUS
    <3>2. \A i \in 0 .. n : i + 1 \in 0 .. n + 1 /\ i + 1 # 0 /\ (i + 1) - 1 = i
      OBVIOUS
    <3> QED BY <3>1, <3>2, <2>3, <2>6
  <2> HIDE DEF way
  <2>8. way[n + 1] = goal BY <2>6, <2>7
  <2>9. ASSUME NEW i \in 0 .. n
        PROVE  \E f \in Directions :
                 Enters(blocked, way[i], f) /\ way[i + 1] = Neighbour(way[i], f)
    <3>1. CASE i = 0
      <4>1. way[i] = c /\ way[i + 1] = e BY <3>1, <2>6, <2>7
      <4> QED BY <4>1, <2>2 DEF e
    <3>2. CASE i \in 1 .. n
      <4>1. i - 1 \in 0 .. n - 1 /\ i - 1 \in 0 .. n /\ (i - 1) + 1 = i BY <3>2
      <4>2. way[i] = rest[i - 1] /\ way[i + 1] = rest[(i - 1) + 1]
        BY <4>1, <2>7
      <4> QED BY <4>1, <4>2, <2>5 DEF IsWay
    <3> QED BY <3>1, <3>2
  <2>10. (n + 1) - 1 = n OBVIOUS
  <2>11. IsWay(blocked, way, n + 1, c, goal)
    BY <2>7, <2>8, <2>9, <2>10 DEF IsWay
  <2> QED BY <2>11
<1>3. Nat \subseteq S
  <2> HIDE DEF S
  <2> QED BY <1>1, <1>2, SetInduction
<1>4. distance[from] \in Nat BY DEF IsGeodesic
<1> QED BY <1>3, <1>4

\* The breadth-first search of ValidateMazeMapDescriptor finds the geodesic
\* distances on every grid and bitmap: the distance of a cell is the least
\* number of moves that lead from it to the goal, and -1 if none do.
THEOREM SearchFindsShortestWays ==
  ASSUME NEW blocked, NEW goal \in Cells \ blocked, NEW from \in Cells
  PROVE  LET distance == GeodesicDistance(blocked, goal)
         IN  /\ distance[from] \in Nat \cup {-1}
             /\ distance[from] >= 0 =>
                  \E way : IsWay(blocked, way, distance[from], from, goal)
             /\ \A n \in Nat : \A way : IsWay(blocked, way, n, from, goal) =>
                  0 <= distance[from] /\ distance[from] <= n
<1> DEFINE distance == GeodesicDistance(blocked, goal)
<1>1. IsGeodesic(blocked, goal, distance) BY SearchIsGeodesic
<1> HIDE DEF distance
<1>2. distance[from] \in Nat \cup {-1} BY <1>1 DEF IsGeodesic
<1>3. distance[from] >= 0 =>
        \E way : IsWay(blocked, way, distance[from], from, goal)
  BY <1>1, AWayIsAsShort
<1>4. \A n \in Nat : \A way : IsWay(blocked, way, n, from, goal) =>
        0 <= distance[from] /\ distance[from] <= n
  BY <1>1, NoWayIsShorter
<1> QED BY <1>2, <1>3, <1>4 DEF distance

-----------------------------------------------------------------------------
\* How far an agent sees.

RayAt(cell, d, k) ==
  <<cell[1] + k * kDirections[d][1], cell[2] + k * kDirections[d][2]>>

ClearAt(blocked, cell, d, k) ==
  /\ IsWalkable(blocked, RayAt(cell, d, k))
  /\ kDirections[d][1] # 0 /\ kDirections[d][2] # 0 =>
       /\ IsWalkable(blocked, <<RayAt(cell, d, k)[1], RayAt(cell, d, k - 1)[2]>>)
       /\ IsWalkable(blocked, <<RayAt(cell, d, k - 1)[1], RayAt(cell, d, k)[2]>>)

\* A ray ends in front of the first step that is not clear, or at its range.
LEMMA RayEnds ==
  ASSUME NEW blocked, NEW cell, NEW d
  PROVE  LET m == Ray(blocked, cell, d)
         IN  /\ m \in 0 .. RayMaxRange
             /\ \A k \in 1 .. m : ClearAt(blocked, cell, d, k)
             /\ m < RayMaxRange => ~ClearAt(blocked, cell, d, m + 1)
<1> DEFINE Clear(k) == ClearAt(blocked, cell, d, k)
           Seen == {n \in 1 .. RayMaxRange : \A k \in 1 .. n : Clear(k)}
           Walls == {k \in 1 .. RayMaxRange : ~Clear(k)}
<1>1. Ray(blocked, cell, d) = Cardinality(Seen) BY DEF Ray, ClearAt, RayAt
<1> HIDE DEF Clear
<1>2. RayMaxRange \in Nat BY MapConstantsAssumption
<1>3. \E m \in 0 .. RayMaxRange :
        /\ Seen = 1 .. m
        /\ \A k \in 1 .. m : Clear(k)
        /\ m < RayMaxRange => ~Clear(m + 1)
  <2>1. CASE Walls = {}
    <3>1. \A k \in 1 .. RayMaxRange : Clear(k) BY <2>1
    <3>2. Seen = 1 .. RayMaxRange BY <1>2, <3>1
    <3> QED BY <1>2, <3>1, <3>2
  <2>2. CASE Walls # {}
    <3>1. PICK x \in Walls : \A y \in Walls : x <= y
      <4>1. Walls \in SUBSET Nat BY <1>2
      <4> HIDE DEF Walls
      <4> QED BY <4>1, <2>2, LeastElement
    <3>2. x \in 1 .. RayMaxRange /\ ~Clear(x) BY <3>1
    <3>3. \A k \in 1 .. x - 1 : Clear(k) BY <1>2, <3>1, <3>2
    <3>4. Seen = 1 .. x - 1 BY <1>2, <3>2, <3>3
    <3>5. x - 1 \in 0 .. RayMaxRange /\ (x - 1) + 1 = x BY <1>2, <3>2
    <3> QED BY <3>2, <3>3, <3>4, <3>5
  <2> QED BY <2>1, <2>2
<1>4. PICK m \in 0 .. RayMaxRange :
        /\ Seen = 1 .. m
        /\ \A k \in 1 .. m : Clear(k)
        /\ m < RayMaxRange => ~Clear(m + 1)
  BY <1>3
<1>5. Cardinality(Seen) = m
  <2>1. m \in Int /\ m >= 0 BY <1>2
  <2>2. Cardinality(1 .. m) = m BY <2>1, FS_Interval
  <2> QED BY <1>4, <2>2
<1> QED BY <1>1, <1>4, <1>5 DEF Clear

\* The rest of a ray is the ray of the next cell.
LEMMA ClearFurther ==
  ASSUME NEW blocked, NEW cell \in Cells, NEW d \in Directions, NEW k \in Int
  PROVE  ClearAt(blocked, Neighbour(cell, d), d, k) = ClearAt(blocked, cell, d, k + 1)
<1> DEFINE x == kDirections[d][1]
           y == kDirections[d][2]
           to == Neighbour(cell, d)
<1>1. x \in Int /\ y \in Int BY OppositeTurns
<1>2. cell[1] \in Int /\ cell[2] \in Int BY DEF Cells
<1>3. to[1] = cell[1] + x /\ to[2] = cell[2] + y BY DEF Neighbour
<1>4. ASSUME NEW n \in Int PROVE RayAt(to, d, n) = RayAt(cell, d, n + 1)
  <2> HIDE DEF x, y, to
  <2>1. /\ to[1] + n * x = cell[1] + (n + 1) * x
        /\ to[2] + n * y = cell[2] + (n + 1) * y
    BY <1>1, <1>2, <1>3
  <2> QED BY <2>1 DEF RayAt, x, y
<1>5. k - 1 \in Int /\ (k - 1) + 1 = (k + 1) - 1 OBVIOUS
<1>6. RayAt(to, d, k) = RayAt(cell, d, k + 1) BY <1>4
<1>7. RayAt(to, d, k - 1) = RayAt(cell, d, (k + 1) - 1) BY <1>4, <1>5
<1> HIDE DEF to
<1>8. ClearAt(blocked, to, d, k) = ClearAt(blocked, cell, d, k + 1)
  BY <1>6, <1>7 DEF ClearAt
<1> QED BY <1>8 DEF to

LEMMA ClearFirst ==
  ASSUME NEW blocked, NEW cell \in Cells, NEW d \in Directions
  PROVE  ClearAt(blocked, cell, d, 1) = Enters(blocked, cell, d)
<1> DEFINE x == kDirections[d][1]
           y == kDirections[d][2]
<1>1. x \in Int /\ y \in Int BY OppositeTurns
<1>2. cell = <<cell[1], cell[2]>> /\ cell[1] \in Int /\ cell[2] \in Int
  BY DEF Cells
<1>3. cell[1] + 1 * x = cell[1] + x /\ cell[2] + 1 * y = cell[2] + y BY <1>1, <1>2
<1>4. cell[1] + 0 * x = cell[1] /\ cell[2] + 0 * y = cell[2] BY <1>1, <1>2
<1>5. RayAt(cell, d, 1) = Neighbour(cell, d) BY <1>3 DEF RayAt, Neighbour
<1>6. RayAt(cell, d, 1 - 1)[1] = cell[1] /\ RayAt(cell, d, 1 - 1)[2] = cell[2]
  BY <1>4 DEF RayAt
<1> QED BY <1>5, <1>6 DEF ClearAt, Enters

\* MazeObservation::Build: an agent sees in a direction exactly as far as it
\* could go that way, up to the range of its rays.
THEOREM RayIsWalk ==
  ASSUME NEW blocked, NEW cell \in Cells, NEW d \in Directions
  PROVE  Ray(blocked, cell, d) =
           IF ~Enters(blocked, cell, d) THEN 0
           ELSE IF 1 + Ray(blocked, Neighbour(cell, d), d) < RayMaxRange
                THEN 1 + Ray(blocked, Neighbour(cell, d), d)
                ELSE RayMaxRange
<1> DEFINE m == Ray(blocked, cell, d)
           n == Ray(blocked, Neighbour(cell, d), d)
           Clear(k) == ClearAt(blocked, cell, d, k)
<1>1. RayMaxRange \in Nat \ {0} BY MapConstantsAssumption
<1>2. /\ m \in 0 .. RayMaxRange /\ \A k \in 1 .. m : Clear(k)
      /\ m < RayMaxRange => ~Clear(m + 1)
  BY RayEnds
<1>3. n \in 0 .. RayMaxRange /\ \A k \in 1 .. n : Clear(k + 1)
  <2>1. /\ n \in 0 .. RayMaxRange
        /\ \A k \in 1 .. n : ClearAt(blocked, Neighbour(cell, d), d, k)
    BY RayEnds
  <2>2. 1 .. n \subseteq Int OBVIOUS
  <2> QED BY <2>1, <2>2, ClearFurther
<1>4. n < RayMaxRange => ~Clear((n + 1) + 1)
  <2>1. n < RayMaxRange => ~ClearAt(blocked, Neighbour(cell, d), d, n + 1)
    BY RayEnds
  <2>2. n + 1 \in Int BY <1>3, <1>1
  <2> QED BY <2>1, <2>2, ClearFurther
<1>5. Enters(blocked, cell, d) <=> Clear(1) BY ClearFirst
<1> HIDE DEF m, n, Clear
<1>6. CASE ~Clear(1)
  <2>1. m = 0 BY <1>1, <1>2, <1>6
  <2> QED BY <2>1, <1>5, <1>6 DEF m
<1>7. CASE Clear(1)
  <2>1. \A k \in 2 .. n + 1 : Clear(k)
    <3> TAKE k \in 2 .. n + 1
    <3>1. k - 1 \in 1 .. n /\ (k - 1) + 1 = k BY <1>1, <1>3
    <3> QED BY <3>1, <1>3
  <2>2. \A k \in 1 .. n + 1 : Clear(k) BY <2>1, <1>7, <1>3, <1>1
  <2>3. CASE n + 1 < RayMaxRange
    <3>1. ~Clear(n + 2) BY <2>3, <1>1, <1>3, <1>4
    <3>2. m <= n + 1
      <4> SUFFICES ASSUME m > n + 1 PROVE FALSE BY <1>1, <1>2, <1>3
      <4>1. n + 2 \in 1 .. m BY <1>1, <1>2, <1>3
      <4> QED BY <4>1, <1>2, <3>1
    <3>3. m >= n + 1
      <4> SUFFICES ASSUME m < n + 1 PROVE FALSE BY <1>1, <1>2, <1>3
      <4>1. m < RayMaxRange /\ m + 1 \in 1 .. n + 1 BY <2>3, <1>1, <1>2, <1>3
      <4> QED BY <4>1, <1>2, <2>2
    <3>4. m = 1 + n BY <3>2, <3>3, <1>1, <1>2, <1>3
    <3> QED BY <3>4, <2>3, <1>1, <1>3, <1>5, <1>7 DEF m, n
  <2>4. CASE ~(n + 1 < RayMaxRange)
    <3>1. m = RayMaxRange
      <4> SUFFICES ASSUME m < RayMaxRange PROVE FALSE BY <1>1, <1>2
      <4>1. m + 1 \in 1 .. n + 1 BY <2>4, <1>1, <1>2, <1>3
      <4> QED BY <4>1, <1>2, <2>2
    <3> QED BY <3>1, <2>4, <1>1, <1>3, <1>5, <1>7 DEF m, n
  <2> QED BY <2>3, <2>4
<1> QED BY <1>6, <1>7

-----------------------------------------------------------------------------
\* Sums and powers.

IsSum(f, n, sum) ==
  sum[0] = 0 /\ \A k \in 1 .. n : sum[k] = sum[k - 1] + f[k]

\* The sum that SumTo stands for, term by term.
LEMMA SumLoop ==
  ASSUME NEW n \in Nat, NEW f, \A k \in 1 .. n : f[k] \in Int
  PROVE  \E sum : IsSum(f, n, sum) /\ SumTo(f, n) = sum[n]
<1> DEFINE next == [k \in 1 .. n |-> [s \in Int |-> s + f[k]]]
           Step(g) == [k \in 0 .. n |-> IF k = 0 THEN 0 ELSE g[k - 1] + f[k]]
           sum == CHOOSE g : g = Step(g)
<1>1. SumTo(f, n) = sum[n] BY DEF SumTo
<1>2. next \in IterationsOn(n, Int) BY DEF IterationsOn
<1>3. PICK g \in [0 .. n -> Int] :
        g[0] = 0 /\ \A k \in 1 .. n : g[k] = next[k][g[k - 1]]
  <2> HIDE DEF next
  <2> DEFINE init == 0
             T == Int
  <2>0. init \in T /\ next \in IterationsOn(n, T) BY <1>2
  <2> HIDE DEF init, T
  <2>1. \E g \in [0 .. n -> T] : Iterates(g, n, init, next)
    BY <2>0, IterationExists
  <2> QED BY <2>1 DEF Iterates, init, T
<1>4. g = Step(g)
  <2>1. ASSUME NEW k \in 1 .. n PROVE g[k] = g[k - 1] + f[k]
    <3>1. k - 1 \in 0 .. n OBVIOUS
    <3>2. g[k - 1] \in Int BY <3>1
    <3> QED BY <3>2, <1>3
  <2> QED BY <1>3, <2>1
<1>5. sum = Step(sum)
  <2> HIDE DEF Step
  <2> QED BY <1>4
<1> HIDE DEF sum
<1>6. IsSum(f, n, sum) BY <1>5 DEF IsSum
<1> QED BY <1>1, <1>6

\* Any function that adds up the terms ends in the sum.
LEMMA SumIs ==
  ASSUME NEW n \in Nat, NEW f, \A k \in 1 .. n : f[k] \in Int,
         NEW u, IsSum(f, n, u)
  PROVE  SumTo(f, n) = u[n] /\ u[n] \in Int
<1>1. PICK sum : IsSum(f, n, sum) /\ SumTo(f, n) = sum[n] BY SumLoop
<1> DEFINE S == {k \in 0 .. n : sum[k] = u[k] /\ u[k] \in Int}
<1>2. 0 \in S BY <1>1 DEF IsSum
<1>3. ASSUME NEW k \in 0 .. n, k < n, k \in S PROVE k + 1 \in S
  <2>1. k + 1 \in 1 .. n /\ (k + 1) - 1 = k BY <1>3
  <2>2. sum[k + 1] = sum[k] + f[k + 1] /\ u[k + 1] = u[k] + f[k + 1]
    BY <1>1, <2>1 DEF IsSum
  <2> QED BY <1>3, <2>1, <2>2
<1>4. 0 .. n \subseteq S
  <2> HIDE DEF S
  <2> QED BY <1>2, <1>3, SetInductionUpTo
<1> QED BY <1>1, <1>4

LEMMA SumType ==
  ASSUME NEW n \in Nat, NEW f, \A k \in 1 .. n : f[k] \in Int
  PROVE  SumTo(f, n) \in Int
  BY SumLoop, SumIs

LEMMA SumOfNone ==
  ASSUME NEW f
  PROVE  SumTo(f, 0) = 0
<1>1. \A k \in 1 .. 0 : f[k] \in Int OBVIOUS
<1>2. PICK sum : IsSum(f, 0, sum) /\ SumTo(f, 0) = sum[0] BY <1>1, SumLoop
<1> QED BY <1>2 DEF IsSum

\* A common factor.
IsMultiple(f, c, g, n) == \A k \in 1 .. n : g[k] \in Int /\ f[k] = c * g[k]

LEMMA SumScaled ==
  ASSUME NEW n \in Nat, NEW f, NEW g, NEW c \in Int, IsMultiple(f, c, g, n)
  PROVE  SumTo(f, n) = c * SumTo(g, n)
<1> USE DEF IsMultiple
<1>1. \A k \in 1 .. n : f[k] \in Int OBVIOUS
<1>2. PICK v : IsSum(g, n, v) /\ SumTo(g, n) = v[n] BY SumLoop
<1>3. ASSUME NEW m \in 0 .. n PROVE v[m] \in Int
  <2>1. IsSum(g, m, v) /\ \A k \in 1 .. m : g[k] \in Int BY <1>2 DEF IsSum
  <2> QED BY <2>1, SumIs
<1> DEFINE u == [k \in 0 .. n |-> c * v[k]]
<1>4. IsSum(f, n, u)
  <2>1. u[0] = 0 BY <1>2 DEF IsSum
  <2>2. ASSUME NEW k \in 1 .. n PROVE u[k] = u[k - 1] + f[k]
    <3>1. k \in 0 .. n /\ k - 1 \in 0 .. n OBVIOUS
    <3>2. v[k] = v[k - 1] + g[k] /\ v[k - 1] \in Int BY <1>2, <1>3, <3>1 DEF IsSum
    <3>3. c * (v[k - 1] + g[k]) = c * v[k - 1] + c * g[k] BY <3>2
    <3> QED BY <3>1, <3>2, <3>3
  <2> QED BY <2>1, <2>2 DEF IsSum
<1>5. SumTo(f, n) = u[n]
  <2> HIDE DEF u
  <2> QED BY <1>1, <1>4, SumIs
<1> QED BY <1>2, <1>5

\* Term by term.
LEMMA SumAdded ==
  ASSUME NEW n \in Nat, NEW f, NEW g, NEW h,
         \A k \in 1 .. n : g[k] \in Int /\ h[k] \in Int /\ f[k] = g[k] + h[k]
  PROVE  SumTo(f, n) = SumTo(g, n) + SumTo(h, n)
<1>1. \A k \in 1 .. n : f[k] \in Int OBVIOUS
<1>2. PICK v : IsSum(g, n, v) /\ SumTo(g, n) = v[n] BY SumLoop
<1>3. PICK w : IsSum(h, n, w) /\ SumTo(h, n) = w[n] BY SumLoop
<1>4. ASSUME NEW m \in 0 .. n PROVE v[m] \in Int /\ w[m] \in Int
  <2>1. IsSum(g, m, v) /\ IsSum(h, m, w) BY <1>2, <1>3 DEF IsSum
  <2> QED BY <2>1, SumIs
<1> DEFINE u == [k \in 0 .. n |-> v[k] + w[k]]
<1>5. IsSum(f, n, u)
  <2>1. u[0] = 0 BY <1>2, <1>3 DEF IsSum
  <2>2. ASSUME NEW k \in 1 .. n PROVE u[k] = u[k - 1] + f[k]
    <3>1. k \in 0 .. n /\ k - 1 \in 0 .. n OBVIOUS
    <3>2. v[k] = v[k - 1] + g[k] /\ w[k] = w[k - 1] + h[k]
      BY <1>2, <1>3 DEF IsSum
    <3> QED BY <1>4, <3>1, <3>2
  <2> QED BY <2>1, <2>2 DEF IsSum
<1>6. SumTo(f, n) = u[n]
  <2> HIDE DEF u
  <2> QED BY <1>1, <1>5, SumIs
<1> QED BY <1>2, <1>3, <1>6

\* The first term apart.
LEMMA SumFirst ==
  ASSUME NEW n \in Nat, NEW f, NEW g, f[1] \in Int,
         \A k \in 1 .. n : g[k] \in Int /\ f[k + 1] = g[k]
  PROVE  SumTo(f, n + 1) = f[1] + SumTo(g, n)
<1>1. \A k \in 1 .. n + 1 : f[k] \in Int
  <2> TAKE k \in 1 .. n + 1
  <2>1. k = 1 \/ (k - 1 \in 1 .. n /\ (k - 1) + 1 = k) OBVIOUS
  <2> QED BY <2>1
<1>2. PICK v : IsSum(g, n, v) /\ SumTo(g, n) = v[n] BY SumLoop
<1>3. ASSUME NEW m \in 0 .. n PROVE v[m] \in Int
  <2>1. IsSum(g, m, v) /\ \A k \in 1 .. m : g[k] \in Int BY <1>2 DEF IsSum
  <2> QED BY <2>1, SumIs
<1> DEFINE u == [k \in 0 .. n + 1 |-> IF k = 0 THEN 0 ELSE f[1] + v[k - 1]]
<1>4. IsSum(f, n + 1, u)
  <2>1. u[0] = 0 OBVIOUS
  <2>2. ASSUME NEW k \in 1 .. n + 1 PROVE u[k] = u[k - 1] + f[k]
    <3>1. CASE k = 1
      <4>1. v[0] = 0 BY <1>2 DEF IsSum
      <4> QED BY <3>1, <4>1
    <3>2. CASE k # 1
      <4>1. k - 1 \in 1 .. n /\ (k - 1) + 1 = k BY <3>2
      <4>2. v[k - 1] = v[(k - 1) - 1] + g[k - 1] /\ f[k] = g[k - 1]
        BY <1>2, <4>1 DEF IsSum
      <4>3. (k - 1) - 1 \in 0 .. n /\ v[(k - 1) - 1] \in Int /\ g[k - 1] \in Int
        BY <1>3, <4>1
      <4>4. u[k] = f[1] + v[k - 1] /\ u[k - 1] = f[1] + v[(k - 1) - 1] BY <4>1
      <4> QED BY <4>2, <4>3, <4>4
    <3> QED BY <3>1, <3>2
  <2> QED BY <2>1, <2>2 DEF IsSum
<1>5. SumTo(f, n + 1) = u[n + 1]
  <2> HIDE DEF u
  <2> QED BY <1>1, <1>4, SumIs
<1> QED BY <1>2, <1>5

\* The last term apart.
LEMMA SumLast ==
  ASSUME NEW n \in Nat, NEW f, NEW g, f[n + 1] \in Int,
         \A k \in 1 .. n : g[k] \in Int /\ f[k] = g[k]
  PROVE  SumTo(f, n + 1) = SumTo(g, n) + f[n + 1]
<1>1. \A k \in 1 .. n + 1 : f[k] \in Int OBVIOUS
<1>2. PICK u : IsSum(f, n + 1, u) /\ SumTo(f, n + 1) = u[n + 1]
  BY <1>1, SumLoop
<1>3. IsSum(g, n, u) BY <1>2 DEF IsSum
<1>4. SumTo(g, n) = u[n] BY <1>3, SumIs
<1>5. n + 1 \in 1 .. n + 1 /\ (n + 1) - 1 = n OBVIOUS
<1> QED BY <1>2, <1>4, <1>5 DEF IsSum

\* Terms that cancel.
LEMMA SumTelescopes ==
  ASSUME NEW n \in Nat, NEW f, NEW u, \A k \in 0 .. n : u[k] \in Int,
         \A k \in 1 .. n : f[k] = u[k] - u[k - 1]
  PROVE  SumTo(f, n) = u[n] - u[0]
<1> DEFINE w == [k \in 0 .. n |-> u[k] - u[0]]
<1>1. ASSUME NEW k \in 1 .. n PROVE f[k] \in Int /\ w[k] = w[k - 1] + f[k]
  <2>1. k \in 0 .. n /\ k - 1 \in 0 .. n /\ 0 \in 0 .. n OBVIOUS
  <2>2. u[k] \in Int /\ u[k - 1] \in Int /\ u[0] \in Int BY <2>1
  <2> QED BY <2>1, <2>2
<1>2. IsSum(f, n, w) BY <1>1 DEF IsSum
<1>3. SumTo(f, n) = w[n]
  <2> HIDE DEF w
  <2> QED BY <1>1, <1>2, SumIs
<1> QED BY <1>3

IsPower(n, power) ==
  power[0] = 1 /\ \A k \in 1 .. n : power[k] = 2 * power[k - 1]

LEMMA PowerLoop ==
  ASSUME NEW n \in Nat
  PROVE  \E power : IsPower(n, power) /\ Power(n) = power[n]
<1> DEFINE next == [k \in 1 .. n |-> [p \in Nat |-> 2 * p]]
           Step(g) == [k \in 0 .. n |-> IF k = 0 THEN 1 ELSE 2 * g[k - 1]]
           power == CHOOSE g : g = Step(g)
<1>1. Power(n) = power[n] BY DEF Power
<1>2. next \in IterationsOn(n, Nat) BY DEF IterationsOn
<1>3. PICK g \in [0 .. n -> Nat] :
        g[0] = 1 /\ \A k \in 1 .. n : g[k] = next[k][g[k - 1]]
  <2> HIDE DEF next
  <2>1. \E g \in [0 .. n -> Nat] : Iterates(g, n, 1, next)
    BY <1>2, IterationExists
  <2> QED BY <2>1 DEF Iterates
<1>4. g = Step(g)
  <2>1. ASSUME NEW k \in 1 .. n PROVE g[k] = 2 * g[k - 1]
    <3>1. k - 1 \in 0 .. n OBVIOUS
    <3>2. g[k - 1] \in Nat BY <3>1
    <3> QED BY <3>2, <1>3
  <2> QED BY <1>3, <2>1
<1>5. power = Step(power)
  <2> HIDE DEF Step
  <2> QED BY <1>4
<1> HIDE DEF power
<1>6. IsPower(n, power) BY <1>5 DEF IsPower
<1> QED BY <1>1, <1>6

LEMMA PowerDoubles ==
  ASSUME NEW n \in Nat
  PROVE  Power(n) \in Nat /\ Power(n + 1) = 2 * Power(n)
<1>1. PICK p : IsPower(n, p) /\ Power(n) = p[n] BY PowerLoop
<1>2. PICK q : IsPower(n + 1, q) /\ Power(n + 1) = q[n + 1] BY PowerLoop
<1> DEFINE S == {k \in 0 .. n : p[k] = q[k] /\ p[k] \in Nat}
<1>3. 0 \in S BY <1>1, <1>2 DEF IsPower
<1>4. ASSUME NEW k \in 0 .. n, k < n, k \in S PROVE k + 1 \in S
  <2>1. k + 1 \in 1 .. n /\ k + 1 \in 1 .. n + 1 /\ (k + 1) - 1 = k BY <1>4
  <2>2. p[k + 1] = 2 * p[k] /\ q[k + 1] = 2 * q[k]
    BY <1>1, <1>2, <2>1 DEF IsPower
  <2> QED BY <1>4, <2>1, <2>2
<1>5. 0 .. n \subseteq S
  <2> HIDE DEF S
  <2> QED BY <1>3, <1>4, SetInductionUpTo
<1>6. n + 1 \in 1 .. n + 1 /\ (n + 1) - 1 = n /\ n \in 0 .. n OBVIOUS
<1> QED BY <1>1, <1>2, <1>5, <1>6 DEF IsPower

-----------------------------------------------------------------------------
\* The size of an envelope.

LEMMA SampleBytesType == \A sample : SampleBytes(sample) \in 2 .. 3
  BY DEF SampleBytes

\* One sample.
LEMMA BytesOfOne ==
  ASSUME NEW sample
  PROVE  Bytes(<<sample>>) = SampleBytes(sample)
<1> DEFINE f == [i \in 1 .. 1 |-> SampleBytes(sample)]
<1>1. Bytes(<<sample>>) = SumTo(f, 1)
  <2>1. Len(<<sample>>) = 1 /\ \A i \in 1 .. 1 : <<sample>>[i] = sample OBVIOUS
  <2>2. [i \in 1 .. Len(<<sample>>) |-> SampleBytes(<<sample>>[i])] = f BY <2>1
  <2> QED BY <2>1, <2>2 DEF Bytes
<1>2. f[1] = SampleBytes(sample) /\ f[1] \in Int BY SampleBytesType
<1> HIDE DEF f
<1>3. SumTo(f, 0 + 1) = SumTo(f, 0) + f[0 + 1]
  <2>1. \A k \in 1 .. 0 : f[k] \in Int OBVIOUS
  <2>2. f[0 + 1] \in Int BY <1>2
  <2> QED BY <2>1, <2>2, SumLast
<1> QED BY <1>1, <1>2, <1>3, SumOfNone

-----------------------------------------------------------------------------
\* The advantage estimate.

IsSegment(segment, bootstrap) ==
  /\ Len(segment) \in 0 .. TMax /\ bootstrap \in Int
  /\ \A i \in 1 .. Len(segment) :
       segment[i].reward \in Int /\ segment[i].value \in Int

LEMMA HalvedFacts ==
  /\ Halved(0) = Scale
  /\ \A k \in 0 .. 2 * TMax : Halved(k) \in Nat
  /\ \A k \in 0 .. 2 * TMax - 1 : Halved(k) = 2 * Halved(k + 1)
<1>1. TMax \in Nat BY SegmentConstantsAssumption
<1>2. Halved(0) = Scale
  <2>1. 2 * TMax - 0 = 2 * TMax BY <1>1
  <2> QED BY <2>1 DEF Halved, Scale
<1>3. ASSUME NEW k \in 0 .. 2 * TMax PROVE Halved(k) \in Nat
  <2>1. 2 * TMax - k \in Nat BY <1>1
  <2> QED BY <2>1, PowerDoubles DEF Halved
<1>4. ASSUME NEW k \in 0 .. 2 * TMax - 1 PROVE Halved(k) = 2 * Halved(k + 1)
  <2>1. 2 * TMax - (k + 1) \in Nat /\ (2 * TMax - (k + 1)) + 1 = 2 * TMax - k
    BY <1>1
  <2> QED BY <2>1, PowerDoubles DEF Halved
<1> QED BY <1>2, <1>3, <1>4

\* A place for an n-step return.
IsPlace(segment, i, n, h) ==
  /\ i \in Nat \ {0} /\ n \in Nat /\ i + n <= Len(segment) + 1
  /\ h \in Nat /\ h + n <= 2 * TMax

\* The terms of NStepReturn.
Term(segment, i, h, j) == Halved(h + j - 1) * segment[i + j - 1].reward

Terms(segment, i, n, h) == [j \in 1 .. n |-> Term(segment, i, h, j)]

IsNStep(segment, bootstrap, i, n, h) ==
  LET f == Terms(segment, i, n, h)
      value == ValueAt(segment, bootstrap, i + n)
  IN  /\ NStepReturn(segment, bootstrap, i, n, h) =
           SumTo(f, n) + Halved(h + n) * value
      /\ \A j \in 1 .. n : f[j] = Term(segment, i, h, j) /\ f[j] \in Int
      /\ value \in Int /\ Halved(h + n) \in Nat
      /\ NStepReturn(segment, bootstrap, i, n, h) \in Int

LEMMA NStepSum ==
  ASSUME NEW segment, NEW bootstrap, IsSegment(segment, bootstrap),
         NEW i, NEW n, NEW h, IsPlace(segment, i, n, h)
  PROVE  IsNStep(segment, bootstrap, i, n, h)
<1> DEFINE f == [j \in 1 .. n |-> Term(segment, i, h, j)]
           value == ValueAt(segment, bootstrap, i + n)
<1>1. /\ TMax \in Nat /\ Len(segment) \in Nat
      /\ i \in Nat \ {0} /\ n \in Nat /\ i + n <= Len(segment) + 1
      /\ h \in Nat /\ h + n <= 2 * TMax
  BY SegmentConstantsAssumption DEF IsSegment, IsPlace
<1>2. NStepReturn(segment, bootstrap, i, n, h) = SumTo(f, n) + Halved(h + n) * value
  BY DEF NStepReturn, Term
<1>3. ASSUME NEW j \in 1 .. n PROVE Term(segment, i, h, j) \in Int
  <2>1. h + j - 1 \in 0 .. 2 * TMax /\ i + j - 1 \in 1 .. Len(segment) BY <1>1
  <2>2. Halved(h + j - 1) \in Nat BY <2>1, HalvedFacts
  <2>3. segment[i + j - 1].reward \in Int BY <2>1 DEF IsSegment
  <2> QED BY <2>2, <2>3 DEF Term
<1>4. value \in Int
  <2>1. i + n \in 1 .. Len(segment) \/ i + n > Len(segment) BY <1>1
  <2> QED BY <2>1 DEF ValueAt, IsSegment
<1>5. Halved(h + n) \in Nat
  <2>1. h + n \in 0 .. 2 * TMax BY <1>1
  <2> QED BY <2>1, HalvedFacts
<1>6. \A j \in 1 .. n : f[j] = Term(segment, i, h, j) /\ f[j] \in Int BY <1>3
<1>7. SumTo(f, n) \in Int
  <2> HIDE DEF f
  <2> QED BY <1>1, <1>6, SumType
<1>8. NStepReturn(segment, bootstrap, i, n, h) \in Int
  <2> HIDE DEF f, value
  <2> QED BY <1>2, <1>4, <1>5, <1>7
<1> QED BY <1>2, <1>4, <1>5, <1>6, <1>8 DEF IsNStep, Terms

\* An n-step return is twice the halved one.
LEMMA NStepHalves ==
  ASSUME NEW segment, NEW bootstrap, IsSegment(segment, bootstrap),
         NEW i, NEW n, NEW h, IsPlace(segment, i, n, h),
         IsPlace(segment, i, n, h + 1)
  PROVE  NStepReturn(segment, bootstrap, i, n, h) =
           2 * NStepReturn(segment, bootstrap, i, n, h + 1)
<1> DEFINE f == Terms(segment, i, n, h)
           g == Terms(segment, i, n, h + 1)
           value == ValueAt(segment, bootstrap, i + n)
<1>1. /\ TMax \in Nat /\ Len(segment) \in Nat
      /\ i \in Nat \ {0} /\ n \in Nat /\ i + n <= Len(segment) + 1
      /\ h \in Nat /\ (h + 1) + n <= 2 * TMax
  BY SegmentConstantsAssumption DEF IsSegment, IsPlace
<1>2. /\ NStepReturn(segment, bootstrap, i, n, h) =
           SumTo(f, n) + Halved(h + n) * value
      /\ \A j \in 1 .. n : f[j] = Term(segment, i, h, j)
      /\ value \in Int
  BY NStepSum DEF IsNStep
<1>3. /\ NStepReturn(segment, bootstrap, i, n, h + 1) =
           SumTo(g, n) + Halved((h + 1) + n) * value
      /\ \A j \in 1 .. n : g[j] = Term(segment, i, h + 1, j) /\ g[j] \in Int
      /\ Halved((h + 1) + n) \in Nat
  BY NStepSum DEF IsNStep
<1> HIDE DEF f, g, value
<1>4. ASSUME NEW j \in 1 .. n PROVE f[j] = 2 * g[j]
  <2> DEFINE k == h + j - 1
             r == segment[i + j - 1].reward
  <2>1. /\ k \in 0 .. 2 * TMax - 1 /\ k + 1 = (h + 1) + j - 1
        /\ k + 1 \in 0 .. 2 * TMax /\ i + j - 1 \in 1 .. Len(segment)
    BY <1>1
  <2>2. r \in Int BY <2>1 DEF IsSegment
  <2>3. f[j] = Halved(k) * r /\ g[j] = Halved(k + 1) * r
    BY <1>2, <1>3, <2>1 DEF Term
  <2>4. Halved(k) = 2 * Halved(k + 1) /\ Halved(k + 1) \in Nat
    BY <2>1, HalvedFacts
  <2> HIDE DEF k, r
  <2> QED BY <2>2, <2>3, <2>4
<1>5. SumTo(f, n) = 2 * SumTo(g, n)
  <2>1. IsMultiple(f, 2, g, n) BY <1>3, <1>4 DEF IsMultiple
  <2>2. n \in Nat /\ 2 \in Int BY <1>1
  <2> QED BY <2>1, <2>2, SumScaled
<1>6. SumTo(g, n) \in Int BY <1>1, <1>3, SumType
<1>7. Halved(h + n) = 2 * Halved((h + 1) + n)
  <2>1. h + n \in 0 .. 2 * TMax - 1 /\ (h + n) + 1 = (h + 1) + n BY <1>1
  <2> QED BY <2>1, HalvedFacts
<1>8. Halved(h + n) * value = 2 * (Halved((h + 1) + n) * value) BY <1>2, <1>3, <1>7
<1>9. Halved((h + 1) + n) * value \in Int BY <1>2, <1>3
<1> QED BY <1>2, <1>3, <1>5, <1>6, <1>8, <1>9

\* An n-step return is the first reward and the return behind it.
IsFirst(segment, bootstrap, i, n, h) ==
  /\ IsPlace(segment, i + 1, n, h + 1)
  /\ NStepReturn(segment, bootstrap, i, n + 1, h) =
       Halved(h) * segment[i].reward
         + NStepReturn(segment, bootstrap, i + 1, n, h + 1)

LEMMA NStepFirst ==
  ASSUME NEW segment, NEW bootstrap, IsSegment(segment, bootstrap),
         NEW i, NEW n \in Nat, NEW h, IsPlace(segment, i, n + 1, h)
  PROVE  IsFirst(segment, bootstrap, i, n, h)
<1> DEFINE f == Terms(segment, i, n + 1, h)
           g == Terms(segment, i + 1, n, h + 1)
           value == ValueAt(segment, bootstrap, i + (n + 1))
<1>1. /\ TMax \in Nat /\ Len(segment) \in Nat
      /\ i \in Nat \ {0} /\ i + (n + 1) <= Len(segment) + 1
      /\ h \in Nat /\ h + (n + 1) <= 2 * TMax
  BY SegmentConstantsAssumption DEF IsSegment, IsPlace
<1>2. IsPlace(segment, i + 1, n, h + 1) BY <1>1 DEF IsPlace
<1>3. /\ NStepReturn(segment, bootstrap, i, n + 1, h) =
           SumTo(f, n + 1) + Halved(h + (n + 1)) * value
      /\ \A j \in 1 .. n + 1 : f[j] = Term(segment, i, h, j) /\ f[j] \in Int
      /\ value \in Int /\ Halved(h + (n + 1)) \in Nat
  BY NStepSum DEF IsNStep
<1>4. /\ NStepReturn(segment, bootstrap, i + 1, n, h + 1) =
           SumTo(g, n) + Halved((h + 1) + n) * ValueAt(segment, bootstrap, (i + 1) + n)
      /\ \A j \in 1 .. n : g[j] = Term(segment, i + 1, h + 1, j) /\ g[j] \in Int
  BY <1>2, NStepSum DEF IsNStep
<1> HIDE DEF f, g, value
<1>5. (h + 1) + n = h + (n + 1) /\ (i + 1) + n = i + (n + 1) BY <1>1
<1>6. NStepReturn(segment, bootstrap, i + 1, n, h + 1) =
        SumTo(g, n) + Halved(h + (n + 1)) * value
  BY <1>4, <1>5 DEF value
<1>7. f[1] \in Int /\ f[1] = Halved(h) * segment[i].reward
  <2>1. 1 \in 1 .. n + 1 /\ h + 1 - 1 = h /\ i + 1 - 1 = i BY <1>1
  <2> QED BY <1>3, <2>1 DEF Term
<1>8. ASSUME NEW j \in 1 .. n PROVE f[j + 1] = g[j]
  <2>1. /\ j + 1 \in 1 .. n + 1
        /\ h + (j + 1) - 1 = (h + 1) + j - 1 /\ i + (j + 1) - 1 = (i + 1) + j - 1
    BY <1>1
  <2> QED BY <1>3, <1>4, <2>1 DEF Term
<1>9. SumTo(f, n + 1) = f[1] + SumTo(g, n) BY <1>4, <1>7, <1>8, SumFirst
<1>10. SumTo(g, n) \in Int /\ Halved(h + (n + 1)) * value \in Int
  BY <1>3, <1>4, SumType
<1>11. NStepReturn(segment, bootstrap, i, n + 1, h) =
         Halved(h) * segment[i].reward
           + NStepReturn(segment, bootstrap, i + 1, n, h + 1)
  BY <1>3, <1>6, <1>7, <1>9, <1>10
<1> QED BY <1>2, <1>11 DEF IsFirst

\* The lambda return from transition i, halved h times.
LambdaTerms(segment, bootstrap, i, h) ==
  [n \in 1 .. Len(segment) - i |-> NStepReturn(segment, bootstrap, i, n, h + n)]
LambdaLast(segment, bootstrap, i, h) ==
  NStepReturn(segment, bootstrap, i, Len(segment) - i + 1, h + (Len(segment) - i))
LambdaHalved(segment, bootstrap, i, h) ==
  SumTo(LambdaTerms(segment, bootstrap, i, h), Len(segment) - i)
    + LambdaLast(segment, bootstrap, i, h)

\* A place for it.
IsLambdaPlace(segment, i, h) ==
  /\ i \in 1 .. Len(segment) /\ h \in Nat
  /\ h + 2 * (Len(segment) - i) + 1 <= 2 * TMax

IsLambda(segment, bootstrap, i, h) ==
  LET n == Len(segment) - i
      terms == LambdaTerms(segment, bootstrap, i, h)
  IN  /\ n \in Nat
      /\ \A k \in 1 .. n :
           /\ IsPlace(segment, i, k, h + k)
           /\ terms[k] = NStepReturn(segment, bootstrap, i, k, h + k)
           /\ terms[k] \in Int
      /\ IsPlace(segment, i, n + 1, h + n)
      /\ SumTo(terms, n) \in Int
      /\ LambdaLast(segment, bootstrap, i, h) \in Int
      /\ LambdaHalved(segment, bootstrap, i, h) \in Int

LEMMA LambdaSum ==
  ASSUME NEW segment, NEW bootstrap, IsSegment(segment, bootstrap),
         NEW i, NEW h, IsLambdaPlace(segment, i, h)
  PROVE  IsLambda(segment, bootstrap, i, h)
<1> DEFINE n == Len(segment) - i
           terms == LambdaTerms(segment, bootstrap, i, h)
<1>1. /\ TMax \in Nat /\ Len(segment) \in Nat /\ i \in 1 .. Len(segment)
      /\ h \in Nat /\ h + 2 * n + 1 <= 2 * TMax /\ n \in Nat
  BY SegmentConstantsAssumption DEF IsSegment, IsLambdaPlace
<1>2. ASSUME NEW k \in 1 .. n PROVE IsPlace(segment, i, k, h + k)
  BY <1>1 DEF IsPlace
<1>3. IsPlace(segment, i, n + 1, h + n) BY <1>1 DEF IsPlace
<1>4. ASSUME NEW k \in 1 .. n
      PROVE  /\ terms[k] = NStepReturn(segment, bootstrap, i, k, h + k)
             /\ terms[k] \in Int
  <2>1. terms[k] = NStepReturn(segment, bootstrap, i, k, h + k) BY DEF LambdaTerms
  <2>2. IsPlace(segment, i, k, h + k) BY <1>2
  <2>3. IsNStep(segment, bootstrap, i, k, h + k) BY <2>2, NStepSum
  <2> QED BY <2>1, <2>3 DEF IsNStep
<1>5. LambdaLast(segment, bootstrap, i, h) \in Int
  <2>1. IsNStep(segment, bootstrap, i, n + 1, h + n) BY <1>3, NStepSum
  <2> QED BY <2>1 DEF IsNStep, LambdaLast
<1>6. SumTo(terms, n) \in Int
  <2> HIDE DEF terms, n
  <2> QED BY <1>1, <1>4, SumType
<1>7. LambdaHalved(segment, bootstrap, i, h) \in Int
  BY <1>5, <1>6 DEF LambdaHalved
<1> QED BY <1>1, <1>2, <1>3, <1>4, <1>5, <1>6, <1>7 DEF IsLambda

LEMMA LambdaIsHalved ==
  ASSUME NEW segment, NEW bootstrap, IsSegment(segment, bootstrap),
         NEW i \in 1 .. Len(segment)
  PROVE  /\ IsLambdaPlace(segment, i, 0)
         /\ LambdaReturn(segment, bootstrap, i) =
              LambdaHalved(segment, bootstrap, i, 0)
<1> DEFINE n == Len(segment) - i
<1>1. TMax \in Nat /\ Len(segment) \in 0 .. TMax /\ n \in Nat
  BY SegmentConstantsAssumption DEF IsSegment
<1>2. IsLambdaPlace(segment, i, 0) BY <1>1 DEF IsLambdaPlace
<1>3. Len(segment) - i + 1 - 1 = n /\ 0 + n = n BY <1>1
<1>4. [k \in 1 .. n |-> NStepReturn(segment, bootstrap, i, k, k)]
        = LambdaTerms(segment, bootstrap, i, 0)
  <2>1. \A k \in 1 .. n : 0 + k = k BY <1>1
  <2> QED BY <2>1 DEF LambdaTerms
<1>5. LambdaReturn(segment, bootstrap, i) =
        SumTo([k \in 1 .. n |-> NStepReturn(segment, bootstrap, i, k, k)], n)
          + NStepReturn(segment, bootstrap, i, Len(segment) - i + 1, n)
  BY <1>3 DEF LambdaReturn
<1>6. LambdaLast(segment, bootstrap, i, 0) =
        NStepReturn(segment, bootstrap, i, Len(segment) - i + 1, n)
  BY <1>3 DEF LambdaLast
<1> QED BY <1>2, <1>4, <1>5, <1>6 DEF LambdaHalved

\* Halving twice divides by four.
LEMMA LambdaQuarters ==
  ASSUME NEW segment, NEW bootstrap, IsSegment(segment, bootstrap),
         NEW i, IsLambdaPlace(segment, i, 0), IsLambdaPlace(segment, i, 2)
  PROVE  LambdaHalved(segment, bootstrap, i, 0) =
           4 * LambdaHalved(segment, bootstrap, i, 2)
<1> DEFINE n == Len(segment) - i
           f == LambdaTerms(segment, bootstrap, i, 0)
           g == LambdaTerms(segment, bootstrap, i, 2)
<1>1. IsLambda(segment, bootstrap, i, 0) /\ IsLambda(segment, bootstrap, i, 2)
  BY LambdaSum
<1>2. ASSUME NEW k, NEW h \in Nat, IsPlace(segment, i, k, h),
             IsPlace(segment, i, k, h + 2)
      PROVE  NStepReturn(segment, bootstrap, i, k, h) =
               4 * NStepReturn(segment, bootstrap, i, k, h + 2)
  <2>1. IsPlace(segment, i, k, h + 1)
    BY <1>2, SegmentConstantsAssumption DEF IsPlace
  <2>2. (h + 1) + 1 = h + 2 OBVIOUS
  <2>3. IsPlace(segment, i, k, (h + 1) + 1) BY <1>2, <2>2
  <2>4. NStepReturn(segment, bootstrap, i, k, h) =
          2 * NStepReturn(segment, bootstrap, i, k, h + 1)
    BY <1>2, <2>1, NStepHalves
  <2>5. NStepReturn(segment, bootstrap, i, k, h + 1) =
          2 * NStepReturn(segment, bootstrap, i, k, h + 2)
    BY <2>1, <2>2, <2>3, NStepHalves
  <2>6. IsNStep(segment, bootstrap, i, k, h + 2) BY <1>2, NStepSum
  <2>7. NStepReturn(segment, bootstrap, i, k, h + 2) \in Int
    BY <2>6 DEF IsNStep
  <2> QED BY <2>4, <2>5, <2>7
<1>3. n \in Nat BY <1>1 DEF IsLambda
<1>4. IsMultiple(f, 4, g, n)
  <2> SUFFICES ASSUME NEW k \in 1 .. n PROVE g[k] \in Int /\ f[k] = 4 * g[k]
    BY DEF IsMultiple
  <2>1. k \in Nat /\ 0 + k = k /\ 2 + k = k + 2 BY <1>3
  <2>2. /\ IsPlace(segment, i, k, k)
        /\ f[k] = NStepReturn(segment, bootstrap, i, k, k)
    BY <1>1, <2>1 DEF IsLambda
  <2>3. /\ IsPlace(segment, i, k, k + 2)
        /\ g[k] = NStepReturn(segment, bootstrap, i, k, k + 2) /\ g[k] \in Int
    BY <1>1, <2>1 DEF IsLambda
  <2> QED BY <1>2, <2>1, <2>2, <2>3
<1>5. SumTo(f, n) = 4 * SumTo(g, n)
  <2> HIDE DEF f, g, n
  <2>1. 4 \in Int OBVIOUS
  <2> QED BY <1>3, <1>4, <2>1, SumScaled
<1>6. LambdaLast(segment, bootstrap, i, 0) = 4 * LambdaLast(segment, bootstrap, i, 2)
  <2>1. 0 + n = n /\ 2 + n = n + 2 BY <1>3
  <2>2. IsPlace(segment, i, n + 1, n) /\ IsPlace(segment, i, n + 1, n + 2)
    BY <1>1, <2>1 DEF IsLambda
  <2>3. NStepReturn(segment, bootstrap, i, n + 1, n) =
          4 * NStepReturn(segment, bootstrap, i, n + 1, n + 2)
    BY <1>2, <1>3, <2>2
  <2> QED BY <2>1, <2>3 DEF LambdaLast
<1>7. /\ SumTo(g, n) \in Int /\ LambdaLast(segment, bootstrap, i, 2) \in Int
  BY <1>1 DEF IsLambda
<1> QED BY <1>5, <1>6, <1>7 DEF LambdaHalved

\* The lambda return of the last transition.
LEMMA LambdaEnds ==
  ASSUME NEW segment, NEW bootstrap, IsSegment(segment, bootstrap),
         Len(segment) # 0
  PROVE  LambdaHalved(segment, bootstrap, Len(segment), 0) =
           Scale * segment[Len(segment)].reward + Halved(1) * bootstrap
<1> DEFINE n == Len(segment)
<1>1. TMax \in Nat \ {0} /\ n \in 1 .. TMax /\ bootstrap \in Int
  BY SegmentConstantsAssumption DEF IsSegment
<1>2. n - n = 0 /\ n - n + 1 = 0 + 1 /\ 0 + (n - n) = 0 BY <1>1
<1>3. LambdaHalved(segment, bootstrap, n, 0) =
        0 + NStepReturn(segment, bootstrap, n, 0 + 1, 0)
  BY <1>2, SumOfNone DEF LambdaHalved, LambdaLast
<1>4. IsPlace(segment, n, 0 + 1, 0) BY <1>1 DEF IsPlace
<1>5. /\ IsPlace(segment, n + 1, 0, 0 + 1)
      /\ NStepReturn(segment, bootstrap, n, 0 + 1, 0) =
           Halved(0) * segment[n].reward
             + NStepReturn(segment, bootstrap, n + 1, 0, 0 + 1)
  BY <1>4, NStepFirst DEF IsFirst
<1>6. IsNStep(segment, bootstrap, n + 1, 0, 0 + 1) BY <1>5, NStepSum
<1>7. NStepReturn(segment, bootstrap, n + 1, 0, 0 + 1) = Halved(1) * bootstrap
  <2>1. NStepReturn(segment, bootstrap, n + 1, 0, 0 + 1) =
          SumTo(Terms(segment, n + 1, 0, 0 + 1), 0)
            + Halved((0 + 1) + 0) * ValueAt(segment, bootstrap, (n + 1) + 0)
    BY <1>6 DEF IsNStep
  <2>2. (0 + 1) + 0 = 1 /\ (n + 1) + 0 = n + 1 /\ n + 1 > n BY <1>1
  <2>3. ValueAt(segment, bootstrap, n + 1) = bootstrap BY <2>2 DEF ValueAt
  <2>4. Halved(1) \in Nat
    <3>1. 1 \in 0 .. 2 * TMax BY <1>1
    <3> QED BY <3>1, HalvedFacts
  <2>5. Halved(1) * bootstrap \in Int BY <1>1, <2>4
  <2> QED BY <2>1, <2>2, <2>3, <2>5, SumOfNone
<1>8. Halved(0) = Scale /\ Scale \in Nat
  <2>1. 0 \in 0 .. 2 * TMax BY <1>1
  <2> QED BY <2>1, HalvedFacts
<1>9. segment[n].reward \in Int BY <1>1 DEF IsSegment
<1>10. /\ Scale * segment[n].reward \in Int
       /\ NStepReturn(segment, bootstrap, n + 1, 0, 0 + 1) \in Int
  BY <1>6, <1>8, <1>9 DEF IsNStep
<1> QED BY <1>3, <1>5, <1>7, <1>8, <1>10

\* ... and of the others: the reward, a quarter of the value behind, and a
\* quarter of the lambda return behind.
LEMMA LambdaStep ==
  ASSUME NEW segment, NEW bootstrap, IsSegment(segment, bootstrap),
         NEW i \in 1 .. Len(segment), i < Len(segment)
  PROVE  /\ IsLambdaPlace(segment, i + 1, 2)
         /\ LambdaHalved(segment, bootstrap, i, 0) =
              Scale * segment[i].reward + Halved(2) * segment[i + 1].value
                + LambdaHalved(segment, bootstrap, i + 1, 2)
<1> DEFINE p == Len(segment) - (i + 1)
           r == segment[i].reward
           v == segment[i + 1].value
           N(k, n, h) == NStepReturn(segment, bootstrap, k, n, h)
           f == LambdaTerms(segment, bootstrap, i, 0)
           g == LambdaTerms(segment, bootstrap, i + 1, 2)
           a == [k \in 1 .. p + 1 |-> Halved(k) * r]
           b == [k \in 1 .. p + 1 |-> N(i + 1, k - 1, k + 1)]
           u == [k \in 0 .. p + 1 |-> -(Halved(k) * r)]
<1>1. /\ TMax \in Nat /\ Len(segment) \in 0 .. TMax /\ p \in Nat
      /\ Len(segment) - i = p + 1 /\ 2 * p + 4 <= 2 * TMax
  BY SegmentConstantsAssumption DEF IsSegment
<1>2. r \in Int /\ v \in Int
  <2>1. i + 1 \in 1 .. Len(segment) BY <1>1
  <2> QED BY <2>1 DEF IsSegment
<1>3. IsLambdaPlace(segment, i, 0) /\ IsLambdaPlace(segment, i + 1, 2)
  BY <1>1 DEF IsLambdaPlace
<1>4. IsLambda(segment, bootstrap, i, 0) /\ IsLambda(segment, bootstrap, i + 1, 2)
  BY <1>3, LambdaSum
<1>5. ASSUME NEW k \in 0 .. p + 1
      PROVE  /\ Halved(k) \in Nat /\ Halved(k) * r \in Int
             /\ k > 0 => Halved(k - 1) = 2 * Halved(k)
  <2>1. k \in 0 .. 2 * TMax BY <1>1
  <2>2. k > 0 => k - 1 \in 0 .. 2 * TMax - 1 /\ (k - 1) + 1 = k BY <1>1
  <2>3. Halved(k) \in Nat BY <2>1, HalvedFacts
  <2> QED BY <1>2, <2>2, <2>3, HalvedFacts
<1>6. ASSUME NEW n \in Nat, NEW h \in Nat, IsPlace(segment, i, n + 1, h)
      PROVE  /\ N(i, n + 1, h) = Halved(h) * r + N(i + 1, n, h + 1)
             /\ N(i + 1, n, h + 1) \in Int
  <2>1. /\ IsPlace(segment, i + 1, n, h + 1)
        /\ N(i, n + 1, h) = Halved(h) * r + N(i + 1, n, h + 1)
    <3>1. IsFirst(segment, bootstrap, i, n, h) BY <1>6, NStepFirst
    <3> QED BY <3>1 DEF IsFirst
  <2>2. IsNStep(segment, bootstrap, i + 1, n, h + 1) BY <2>1, NStepSum
  <2> QED BY <2>1, <2>2 DEF IsNStep
<1>7. ASSUME NEW k \in 1 .. p + 1
      PROVE  a[k] \in Int /\ b[k] \in Int /\ f[k] = a[k] + b[k]
  <2>1. k \in 1 .. Len(segment) - i /\ 0 + k = k BY <1>1
  <2>2. IsPlace(segment, i, k, k) /\ f[k] = N(i, k, k)
    BY <1>4, <2>1 DEF IsLambda
  <2>3. k - 1 \in Nat /\ (k - 1) + 1 = k /\ k \in Nat BY <1>1
  <2>4. N(i, k, k) = Halved(k) * r + N(i + 1, k - 1, k + 1) /\ N(i + 1, k - 1, k + 1) \in Int
    BY <1>6, <2>2, <2>3
  <2>5. k \in 0 .. p + 1 BY <1>1
  <2> QED BY <1>5, <2>2, <2>4, <2>5
<1>8. SumTo(f, p + 1) = SumTo(a, p + 1) + SumTo(b, p + 1)
  <2>1. p + 1 \in Nat BY <1>1
  <2> HIDE DEF f, a, b, p
  <2> QED BY <1>7, <2>1, SumAdded
<1>9. SumTo(a, p + 1) = Scale * r - Halved(p + 1) * r
  <2>1. \A k \in 0 .. p + 1 : u[k] \in Int /\ u[k] = -(Halved(k) * r) BY <1>5
  <2>2. ASSUME NEW k \in 1 .. p + 1 PROVE a[k] = u[k] - u[k - 1]
    <3>1. k \in 0 .. p + 1 /\ k - 1 \in 0 .. p + 1 BY <1>1
    <3>2. Halved(k - 1) = 2 * Halved(k) /\ Halved(k) \in Nat BY <1>5, <3>1
    <3>3. Halved(k - 1) * r = 2 * (Halved(k) * r) BY <1>2, <3>2
    <3>4. a[k] = Halved(k) * r /\ Halved(k) * r \in Int BY <1>5, <3>1
    <3>5. u[k] = -(Halved(k) * r) /\ u[k - 1] = -(Halved(k - 1) * r)
      BY <2>1, <3>1
    <3> QED BY <3>3, <3>4, <3>5
  <2>3. SumTo(a, p + 1) = u[p + 1] - u[0]
    <3>1. p + 1 \in Nat BY <1>1
    <3> HIDE DEF a, u, p
    <3> QED BY <2>1, <2>2, <3>1, SumTelescopes
  <2>4. u[p + 1] = -(Halved(p + 1) * r) /\ u[0] = -(Halved(0) * r)
    BY <1>1, <2>1
  <2>5. Halved(p + 1) * r \in Int /\ Halved(0) * r \in Int
    <3>1. p + 1 \in 0 .. p + 1 /\ 0 \in 0 .. p + 1 BY <1>1
    <3> HIDE DEF p, r, u, a
    <3> QED BY <1>5, <3>1
  <2> QED BY <2>3, <2>4, <2>5, HalvedFacts
<1>10. b[1] = Halved(2) * v /\ b[1] \in Int
  <2>1. 1 \in 1 .. p + 1 /\ 1 - 1 = 0 /\ 1 + 1 = 2 BY <1>1
  <2>2. b[1] = N(i + 1, 0, 2) /\ b[1] \in Int BY <1>7, <2>1
  <2>3. IsPlace(segment, i + 1, 0, 2) BY <1>1 DEF IsPlace
  <2>4. IsNStep(segment, bootstrap, i + 1, 0, 2) BY <2>3, NStepSum
  <2>5. N(i + 1, 0, 2) = SumTo(Terms(segment, i + 1, 0, 2), 0)
                           + Halved(2 + 0) * ValueAt(segment, bootstrap, (i + 1) + 0)
    BY <2>4 DEF IsNStep
  <2>6. 2 + 0 = 2 /\ (i + 1) + 0 = i + 1 /\ ~(i + 1 > Len(segment)) BY <1>1
  <2>7. ValueAt(segment, bootstrap, i + 1) = v BY <2>6 DEF ValueAt
  <2>8. Halved(2) * v \in Int
    <3>1. 2 \in 0 .. 2 * TMax BY <1>1
    <3> QED BY <1>2, <3>1, HalvedFacts
  <2> QED BY <2>2, <2>5, <2>6, <2>7, <2>8, SumOfNone
<1>11. SumTo(b, p + 1) = b[1] + SumTo(g, p)
  <2>1. ASSUME NEW k \in 1 .. p PROVE g[k] \in Int /\ b[k + 1] = g[k]
    <3>1. /\ k + 1 \in 1 .. p + 1 /\ (k + 1) - 1 = k /\ (k + 1) + 1 = 2 + k
      BY <1>1
    <3>2. g[k] = N(i + 1, k, 2 + k) /\ g[k] \in Int BY <1>4 DEF IsLambda
    <3> QED BY <3>1, <3>2
  <2> HIDE DEF b, g, p
  <2> QED BY <1>1, <1>10, <2>1, SumFirst
<1>12. LambdaLast(segment, bootstrap, i, 0) =
         Halved(p + 1) * r + LambdaLast(segment, bootstrap, i + 1, 2)
  <2>1. /\ Len(segment) - i + 1 = (p + 1) + 1 /\ 0 + (Len(segment) - i) = p + 1
        /\ 2 + (Len(segment) - (i + 1)) = (p + 1) + 1
    BY <1>1
  <2>2. IsPlace(segment, i, (p + 1) + 1, p + 1)
    BY <1>1, <1>4, <2>1 DEF IsLambda
  <2>3. N(i, (p + 1) + 1, p + 1) =
          Halved(p + 1) * r + N(i + 1, p + 1, (p + 1) + 1)
    <3>1. p + 1 \in Nat BY <1>1
    <3> HIDE DEF p
    <3> QED BY <1>6, <2>2, <3>1
  <2>4. LambdaLast(segment, bootstrap, i, 0) = N(i, (p + 1) + 1, p + 1)
    BY <2>1 DEF LambdaLast
  <2>5. LambdaLast(segment, bootstrap, i + 1, 2) = N(i + 1, p + 1, (p + 1) + 1)
    BY <2>1 DEF LambdaLast
  <2> QED BY <2>3, <2>4, <2>5
<1>13. /\ SumTo(g, p) \in Int /\ LambdaLast(segment, bootstrap, i + 1, 2) \in Int
       /\ Halved(p + 1) * r \in Int /\ Scale * r \in Int
  <2>1. p + 1 \in 0 .. p + 1 /\ 0 \in 0 .. p + 1 BY <1>1
  <2>2. Halved(p + 1) * r \in Int /\ Halved(0) * r \in Int BY <1>5, <2>1
  <2> QED BY <1>4, <2>2, HalvedFacts DEF IsLambda
<1>14. /\ LambdaHalved(segment, bootstrap, i, 0) =
            SumTo(f, p + 1) + LambdaLast(segment, bootstrap, i, 0)
       /\ LambdaHalved(segment, bootstrap, i + 1, 2) =
            SumTo(g, p) + LambdaLast(segment, bootstrap, i + 1, 2)
  BY <1>1 DEF LambdaHalved
<1> HIDE DEF f, g, a, b, u, r, v, p
<1>15. LambdaHalved(segment, bootstrap, i, 0) =
         Scale * r + Halved(2) * v + LambdaHalved(segment, bootstrap, i + 1, 2)
  BY <1>8, <1>9, <1>10, <1>11, <1>12, <1>13, <1>14
<1> QED BY <1>3, <1>15 DEF r, v

\* The loop that EstimateRolloutSegment stands for, from the last transition
\* back.
Estimates == [advantage : Int, value : Int]
EstimateStep(t, behind) ==
  [advantage |-> Scale * (t.reward - t.value) + (Scale * behind.value) \div 2
                   + behind.advantage \div 4,
   value |-> t.value]

IsEstimate(segment, bootstrap, back) ==
  LET n == Len(segment)
  IN  /\ back[0] = [advantage |-> 0, value |-> bootstrap]
      /\ \A k \in 1 .. n :
           back[k] = EstimateStep(segment[n - k + 1], back[k - 1])
      /\ \A i \in 1 .. n :
           EstimateRolloutSegment(segment, bootstrap)[i] =
             [advantage |-> back[n - i + 1].advantage,
              target |-> back[n - i + 1].advantage + Scale * segment[i].value]

LEMMA ScaleFacts ==
  /\ Scale \in Nat /\ Halved(1) \in Nat /\ Halved(2) \in Nat
  /\ Scale = 2 * Halved(1) /\ Halved(1) = 2 * Halved(2)
<1>1. TMax \in Nat \ {0} BY SegmentConstantsAssumption
<1>2. /\ 0 \in 0 .. 2 * TMax /\ 1 \in 0 .. 2 * TMax /\ 2 \in 0 .. 2 * TMax
      /\ 0 \in 0 .. 2 * TMax - 1 /\ 1 \in 0 .. 2 * TMax - 1
      /\ 0 + 1 = 1 /\ 1 + 1 = 2
  BY <1>1
<1> QED BY <1>2, HalvedFacts

LEMMA Divides ==
  ASSUME NEW x \in Int
  PROVE  (2 * x) \div 2 = x /\ (4 * x) \div 4 = x
  OBVIOUS

LEMMA Products ==
  ASSUME NEW s \in Nat, NEW h \in Nat, s = 2 * h, NEW x \in Int, NEW y \in Int
  PROVE  /\ s * x \in Int /\ s * x = 2 * (h * x)
         /\ s * (x - y) = s * x - s * y
  OBVIOUS

LEMMA ScaledFacts ==
  ASSUME NEW x \in Int, NEW y \in Int
  PROVE  /\ Scale * x \in Int /\ Halved(1) * x \in Int /\ Halved(2) * x \in Int
         /\ Scale * (x - y) = Scale * x - Scale * y
         /\ Scale * x = 4 * (Halved(2) * x)
         /\ Halved(1) * x = 2 * (Halved(2) * x)
         /\ (Scale * x) \div 2 = Halved(1) * x
<1>1. /\ Scale * x \in Int /\ Scale * x = 2 * (Halved(1) * x)
      /\ Scale * (x - y) = Scale * x - Scale * y
  BY ScaleFacts, Products
<1>2. Halved(1) * x \in Int /\ Halved(1) * x = 2 * (Halved(2) * x)
  BY ScaleFacts, Products
<1>3. Halved(2) * x \in Int BY ScaleFacts
<1>4. (Scale * x) \div 2 = Halved(1) * x BY <1>1, <1>2, Divides
<1> QED BY <1>1, <1>2, <1>3, <1>4

LEMMA EstimateStepType ==
  ASSUME NEW t, t.reward \in Int, t.value \in Int, NEW behind \in Estimates
  PROVE  EstimateStep(t, behind) \in Estimates
<1>1. behind.advantage \in Int /\ behind.value \in Int BY DEF Estimates
<1>2. /\ Scale * (t.reward - t.value) \in Int /\ (Scale * behind.value) \div 2 \in Int
      /\ behind.advantage \div 4 \in Int
  BY <1>1, ScaleFacts
<1> QED BY <1>2 DEF EstimateStep, Estimates

LEMMA EstimateLoop ==
  ASSUME NEW segment, NEW bootstrap, IsSegment(segment, bootstrap)
  PROVE  \E back : IsEstimate(segment, bootstrap, back)
<1> DEFINE n == Len(segment)
           init == [advantage |-> 0, value |-> bootstrap]
           At(k, behind) == EstimateStep(segment[n - k + 1], behind)
           next == [k \in 1 .. n |-> [e \in Estimates |-> At(k, e)]]
           Step(g) == [k \in 0 .. n |-> IF k = 0 THEN init ELSE At(k, g[k - 1])]
           back == CHOOSE g : g = Step(g)
<1>1. n \in Nat /\ init \in Estimates
  BY SegmentConstantsAssumption DEF IsSegment, Estimates
<1>2. EstimateRolloutSegment(segment, bootstrap) =
        [i \in 1 .. n |->
           [advantage |-> back[n - i + 1].advantage,
            target |-> back[n - i + 1].advantage + Scale * segment[i].value]]
  BY DEF EstimateRolloutSegment, EstimateStep
<1>3. \A k \in 1 .. n : \A e \in Estimates : At(k, e) \in Estimates
  <2> TAKE k \in 1 .. n
  <2>1. n - k + 1 \in 1 .. n BY <1>1
  <2> QED BY <2>1, EstimateStepType DEF IsSegment
<1> HIDE DEF n, init, At
<1>4. next \in IterationsOn(n, Estimates) BY <1>3 DEF IterationsOn
<1>5. PICK g \in [0 .. n -> Estimates] :
        g[0] = init /\ \A k \in 1 .. n : g[k] = next[k][g[k - 1]]
  <2> HIDE DEF next
  <2>1. \E g \in [0 .. n -> Estimates] : Iterates(g, n, init, next)
    BY <1>1, <1>4, IterationExists
  <2> QED BY <2>1 DEF Iterates
<1>6. g = Step(g)
  <2>1. ASSUME NEW k \in 1 .. n PROVE g[k] = At(k, g[k - 1])
    <3>1. k - 1 \in 0 .. n BY <1>1
    <3>2. g[k - 1] \in Estimates BY <3>1
    <3> QED BY <3>2, <1>5
  <2> QED BY <1>1, <1>5, <2>1
<1>7. back = Step(back)
  <2> HIDE DEF Step
  <2> QED BY <1>6
<1> HIDE DEF back
<1>8. back[0] = init /\ \A k \in 1 .. n : back[k] = At(k, back[k - 1])
  BY <1>1, <1>7
<1>9. IsEstimate(segment, bootstrap, back)
  BY <1>2, <1>8 DEF IsEstimate, n, init, At
<1> QED BY <1>9

\* EstimateRolloutSegment: the loop over the transitions computes the lambda
\* return of every transition of a segment of any length up to tmax, and every
\* division in it is exact.
THEOREM EstimateIsLambdaReturn ==
  ASSUME NEW segment, NEW bootstrap, IsSegment(segment, bootstrap),
         NEW i \in 1 .. Len(segment)
  PROVE  LET estimate == EstimateRolloutSegment(segment, bootstrap)[i]
             return == LambdaReturn(segment, bootstrap, i)
         IN  /\ estimate.target = return
             /\ estimate.advantage = return - Scale * segment[i].value
<1> DEFINE n == Len(segment)
           L(k) == LambdaHalved(segment, bootstrap, k, 0)
           V(k) == segment[k].value
<1>1. TMax \in Nat /\ n \in Nat /\ n <= TMax
  BY SegmentConstantsAssumption DEF IsSegment
<1>2. PICK back : IsEstimate(segment, bootstrap, back) BY EstimateLoop
<1>3. ASSUME NEW k \in 1 .. n
      PROVE  /\ L(k) \in Int /\ V(k) \in Int /\ segment[k].reward \in Int
             /\ L(k) = LambdaReturn(segment, bootstrap, k)
             /\ Scale * V(k) \in Int
  <2>1. IsLambdaPlace(segment, k, 0) /\ L(k) = LambdaReturn(segment, bootstrap, k)
    BY LambdaIsHalved
  <2>2. IsLambda(segment, bootstrap, k, 0) BY <2>1, LambdaSum
  <2>3. V(k) \in Int /\ segment[k].reward \in Int BY DEF IsSegment
  <2>4. Scale * V(k) \in Int BY <2>3, ScaleFacts
  <2> QED BY <2>1, <2>2, <2>3, <2>4 DEF IsLambda
<1> DEFINE Right(k) == /\ back[k].advantage = L(n - k + 1) - Scale * V(n - k + 1)
                       /\ back[k].value = V(n - k + 1)
           S == {k \in 0 .. n : k # 0 => Right(k)}
<1>4. 0 \in S BY <1>1
<1>5. ASSUME NEW k \in 0 .. n, k < n, k \in S PROVE k + 1 \in S
  <2> DEFINE j == n - (k + 1) + 1
             t == segment[j]
             behind == back[k]
  <2>1. k + 1 \in 1 .. n /\ (k + 1) - 1 = k /\ j \in 1 .. n BY <1>1, <1>5
  <2>2. back[k + 1] = EstimateStep(t, behind)
    BY <1>2, <2>1 DEF IsEstimate
  <2>3. /\ back[k + 1].value = V(j)
        /\ back[k + 1].advantage =
             Scale * (t.reward - t.value) + (Scale * behind.value) \div 2
               + behind.advantage \div 4
    BY <2>2 DEF EstimateStep
  <2>4. /\ L(j) \in Int /\ V(j) \in Int /\ t.reward \in Int /\ Scale * V(j) \in Int
    BY <1>3, <2>1
  <2>5. Scale * (t.reward - t.value) = Scale * t.reward - Scale * V(j)
    BY <2>4, ScaledFacts
  <2>6. back[k + 1].advantage = L(j) - Scale * V(j)
    <3>1. CASE k = 0
      <4>1. j = n /\ n # 0 BY <1>1, <1>5, <3>1
      <4>2. behind.advantage = 0 /\ behind.value = bootstrap /\ bootstrap \in Int
        BY <1>2, <3>1 DEF IsEstimate, IsSegment
      <4>3. L(j) = Scale * t.reward + Halved(1) * bootstrap
        BY <4>1, LambdaEnds
      <4>4. Halved(1) * bootstrap \in Int /\ Scale * t.reward \in Int
        BY <2>4, <4>2, ScaledFacts
      <4>6. (Scale * bootstrap) \div 2 = Halved(1) * bootstrap
        BY <4>2, ScaledFacts
      <4>7. 0 \div 4 = 0 OBVIOUS
      <4> HIDE DEF L, V, t, behind, j
      <4> QED BY <2>3, <2>4, <2>5, <4>2, <4>3, <4>4, <4>6, <4>7
    <3>2. CASE k # 0
      <4> DEFINE w == V(j + 1)
                 Q == LambdaHalved(segment, bootstrap, j + 1, 2)
      <4>1. /\ j < n /\ j + 1 \in 1 .. n /\ n - k + 1 = j + 1 BY <1>1, <1>5, <3>2
      <4>2. behind.advantage = L(j + 1) - Scale * w /\ behind.value = w
        BY <1>5, <3>2, <4>1
      <4>3. /\ IsLambdaPlace(segment, j + 1, 2)
            /\ L(j) = Scale * t.reward + Halved(2) * w + Q
        BY <2>1, <4>1, LambdaStep
      <4>4. IsLambdaPlace(segment, j + 1, 0) BY <4>1, LambdaIsHalved
      <4>5. L(j + 1) = 4 * Q BY <4>3, <4>4, LambdaQuarters
      <4>6. Q \in Int
        <5>1. IsLambda(segment, bootstrap, j + 1, 2) BY <4>3, LambdaSum
        <5> QED BY <5>1 DEF IsLambda
      <4>7. w \in Int BY <1>3, <4>1
      <4> HIDE DEF w, Q, t, behind, j, V, L
      <4>8. /\ Halved(2) * w \in Int /\ Halved(1) * w \in Int
            /\ Scale * w = 4 * (Halved(2) * w)
            /\ Halved(1) * w = 2 * (Halved(2) * w)
            /\ (Scale * w) \div 2 = Halved(1) * w
        BY <4>7, ScaledFacts
      <4>9. Scale * t.reward \in Int BY <2>4, ScaledFacts
      <4>11. behind.advantage = 4 * (Q - Halved(2) * w)
        BY <4>2, <4>5, <4>6, <4>8
      <4>12. Q - Halved(2) * w \in Int BY <4>6, <4>8
      <4>13. behind.advantage \div 4 = Q - Halved(2) * w
        BY <4>11, <4>12, Divides
      <4> DEFINE h == Halved(2) * w
                 gained == Scale * t.reward
                 expected == Scale * V(j)
      <4>14. back[k + 1].advantage = (gained - expected) + 2 * h + (Q - h)
        BY <2>3, <2>5, <4>2, <4>8, <4>13, Zenon
      <4>15. h \in Int /\ gained \in Int /\ expected \in Int /\ Q \in Int
             /\ L(j) = gained + h + Q
        BY <2>4, <4>3, <4>6, <4>8, <4>9, Zenon
      <4> HIDE DEF h, gained, expected
      <4>16. back[k + 1].advantage = L(j) - expected BY <4>14, <4>15
      <4> QED BY <4>16 DEF expected
    <3> QED BY <3>1, <3>2
  <2>7. Right(k + 1) BY <2>3, <2>6
  <2> QED BY <2>1, <2>7
<1>6. 0 .. n \subseteq S
  <2> HIDE DEF S
  <2> QED BY <1>1, <1>4, <1>5, SetInductionUpTo
<1>7. /\ n - i + 1 \in 0 .. n /\ n - i + 1 # 0 /\ n - (n - i + 1) + 1 = i BY <1>1
<1>8. back[n - i + 1].advantage = L(i) - Scale * V(i)
  <2>1. Right(n - i + 1) BY <1>6, <1>7
  <2> QED BY <1>7, <2>1
<1>9. EstimateRolloutSegment(segment, bootstrap)[i] =
        [advantage |-> back[n - i + 1].advantage,
         target |-> back[n - i + 1].advantage + Scale * V(i)]
  BY <1>2 DEF IsEstimate
<1>10. L(i) \in Int /\ Scale * V(i) \in Int /\ L(i) = LambdaReturn(segment, bootstrap, i)
  BY <1>3
<1> HIDE DEF L
<1> QED BY <1>8, <1>9, <1>10

-----------------------------------------------------------------------------
\* The envelopes of a segment.

LEMMA SubSeqFacts ==
  ASSUME NEW T, NEW s \in Seq(T), NEW m \in 0 .. Len(s), NEW n \in m .. Len(s)
  PROVE  /\ SubSeq(s, m + 1, n) \in Seq(T)
         /\ Len(SubSeq(s, m + 1, n)) = n - m
         /\ \A j \in 1 .. n - m :
              SubSeq(s, m + 1, n)[j] = s[m + j] /\ m + j \in 1 .. Len(s)
  OBVIOUS

\* Where every sample fits into an envelope, the next envelope takes at least
\* one sample, and fits.
LEMMA EnvelopeEnds ==
  ASSUME NEW T, NEW processed \in Seq(T), Divisible(processed),
         NEW offset \in 0 .. Len(processed) - 1
  PROVE  LET end == EnvelopeEnd(processed, offset)
         IN  /\ end \in offset + 1 .. Len(processed)
             /\ Fits(SubSeq(processed, offset + 1, end))
<1> DEFINE size == Len(processed)
           Part(end) == SubSeq(processed, offset + 1, end)
           E == {end \in offset + 1 .. size : end = size \/ ~Fits(Part(end + 1))}
<1>1. size \in Nat /\ offset \in Nat /\ offset + 1 \in 1 .. size OBVIOUS
<1>2. PICK x \in E : \A y \in E : x <= y
  <2>1. E \in SUBSET Nat BY <1>1
  <2>2. size \in E BY <1>1
  <2> HIDE DEF E
  <2> QED BY <2>1, <2>2, LeastElement
<1>3. x \in offset + 1 .. size BY <1>2
<1>4. Fits(Part(x))
  <2>1. CASE x = offset + 1
    <3>1. Part(x) = <<processed[offset + 1]>>
      <4>1. offset \in 0 .. size /\ offset + 1 \in offset .. size
            /\ (offset + 1) - offset = 1
        BY <1>1
      <4>2. /\ Part(offset + 1) \in Seq(T) /\ Len(Part(offset + 1)) = 1
            /\ Part(offset + 1)[1] = processed[offset + 1]
        BY <4>1, SubSeqFacts
      <4> HIDE DEF Part
      <4> QED BY <2>1, <4>2
    <3>2. Fits(<<processed[offset + 1]>>) BY <1>1 DEF Divisible
    <3> QED BY <3>1, <3>2
  <2>2. CASE x # offset + 1
    <3>1. x - 1 \in offset + 1 .. size /\ (x - 1) + 1 = x /\ x - 1 < x
      BY <1>1, <1>3, <2>2
    <3>2. x - 1 \notin E
      <4>1. x \in Int BY <1>1, <1>3
      <4> HIDE DEF E
      <4> QED BY <1>2, <4>1
    <3> HIDE DEF Part
    <3> QED BY <3>1, <3>2
  <2> QED BY <2>1, <2>2
<1>5. x < size => ~Fits(Part(x + 1)) BY <1>1, <1>2, <1>3
<1> HIDE DEF E
<1>6. EnvelopeEnd(processed, offset) =
        CHOOSE end \in offset + 1 .. size :
          Fits(Part(end)) /\ (end < size => ~Fits(Part(end + 1)))
  BY DEF EnvelopeEnd
<1> HIDE DEF Part, size
<1>7. LET end == EnvelopeEnd(processed, offset)
      IN  end \in offset + 1 .. size /\ Fits(Part(end))
  BY <1>3, <1>4, <1>5, <1>6
<1> QED BY <1>7 DEF Part, size

\* The loop that FillEnvelopes stands for, by the number of samples left.
FirstEnvelope(processed, left) ==
  SubSeq(processed, Len(processed) - left + 1,
         EnvelopeEnd(processed, Len(processed) - left))
LeftBehind(processed, left) ==
  Len(processed) - EnvelopeEnd(processed, Len(processed) - left)

IsFilling(processed, from) ==
  /\ from[0] = <<>>
  /\ \A left \in 1 .. Len(processed) :
       from[left] = <<FirstEnvelope(processed, left)>>
                      \o from[LeftBehind(processed, left)]
  /\ FillEnvelopes(processed) = from[Len(processed)]

LEMMA FirstFacts ==
  ASSUME NEW T, NEW processed \in Seq(T), Divisible(processed),
         NEW left \in 1 .. Len(processed)
  PROVE  /\ LeftBehind(processed, left) \in 0 .. left - 1
         /\ FirstEnvelope(processed, left) \in Seq(T)
         /\ FirstEnvelope(processed, left) =
              SubSeq(processed, (Len(processed) - left) + 1,
                     Len(processed) - LeftBehind(processed, left))
         /\ Fits(FirstEnvelope(processed, left))
<1> DEFINE size == Len(processed)
           offset == size - left
           end == EnvelopeEnd(processed, offset)
<1>1. size \in Nat /\ offset \in 0 .. size - 1 OBVIOUS
<1>2. end \in offset + 1 .. size /\ Fits(SubSeq(processed, offset + 1, end))
  <2> HIDE DEF offset
  <2> QED BY <1>1, EnvelopeEnds
<1>3. FirstEnvelope(processed, left) = SubSeq(processed, offset + 1, end)
  BY DEF FirstEnvelope
<1>4. LeftBehind(processed, left) = size - end BY DEF LeftBehind
<1> HIDE DEF end
<1>5. size - end \in 0 .. left - 1 /\ size - (size - end) = end BY <1>1, <1>2
<1>6. SubSeq(processed, offset + 1, end) \in Seq(T)
  <2>1. offset \in 0 .. size /\ end \in offset .. size BY <1>1, <1>2
  <2> HIDE DEF offset
  <2> QED BY <2>1, SubSeqFacts
<1> QED BY <1>2, <1>3, <1>4, <1>5, <1>6

LEMMA FillLoop ==
  ASSUME NEW T, NEW processed \in Seq(T), Divisible(processed)
  PROVE  \E from : IsFilling(processed, from)
<1> DEFINE size == Len(processed)
           E == Seq(Seq(T))
           First(left) == <<FirstEnvelope(processed, left)>>
           Put(left, s) == First(left) \o s
           Behind(left) == LeftBehind(processed, left)
           At(n, g) == IF n \in 1 .. size THEN Put(n, g[Behind(n)]) ELSE <<>>
           step == [n \in Nat |-> [g \in [Nat -> E] |-> At(n, g)]]
           Step(g) == [left \in 0 .. size |->
                         IF left = 0 THEN <<>> ELSE Put(left, g[Behind(left)])]
           from == CHOOSE g : g = Step(g)
<1>1. FillEnvelopes(processed) = from[size]
  BY DEF FillEnvelopes, FirstEnvelope, LeftBehind
<1>2. size \in Nat OBVIOUS
<1>3. ASSUME NEW n \in 1 .. size
      PROVE  Behind(n) \in 0 .. n - 1 /\ First(n) \in E
  <2>1. Behind(n) \in 0 .. n - 1 /\ FirstEnvelope(processed, n) \in Seq(T)
    BY FirstFacts
  <2> QED BY <2>1
<1> HIDE DEF size, First, Behind
<1>4. ASSUME NEW n \in Nat, NEW g \in [Nat -> E] PROVE At(n, g) \in E
  <2>1. CASE n \in 1 .. size
    <3>1. Behind(n) \in Nat /\ g[Behind(n)] \in E /\ First(n) \in E
      BY <1>2, <1>3, <2>1
    <3>2. Put(n, g[Behind(n)]) \in E BY <3>1
    <3> QED BY <2>1, <3>2
  <2>2. CASE n \notin 1 .. size BY <2>2
  <2> QED BY <2>1, <2>2
<1>5. \A n \in Nat : \A g, h \in [Nat -> E] :
        (\A k \in 0 .. n - 1 : g[k] = h[k]) => At(n, g) = At(n, h)
  BY <1>3
<1> HIDE DEF At, E, Put
<1>6. step \in StepsOn(E) BY <1>4 DEF StepsOn
<1>7. \A n \in Nat : \A g \in [Nat -> E] : step[n][g] = At(n, g) OBVIOUS
<1> HIDE DEF step
<1>8. LooksBack(E, step) BY <1>5, <1>7 DEF LooksBack
<1>9. PICK f \in [Nat -> E] : \A n \in Nat : f[n] = step[n][f]
  <2>1. <<>> \in E BY DEF E
  <2>2. HasSolution(E, step) BY <2>1, <1>6, <1>8, RecursionExists
  <2> QED BY <2>2 DEF HasSolution
<1>10. \A n \in Nat : f[n] = At(n, f) BY <1>7, <1>9
<1> DEFINE r == [left \in 0 .. size |-> f[left]]
<1>11. r = Step(r)
  <2>1. r[0] = <<>> BY <1>2, <1>10 DEF At
  <2>2. ASSUME NEW left \in 1 .. size PROVE r[left] = Put(left, r[Behind(left)])
    <3>1. Behind(left) \in 0 .. size /\ left \in 0 .. size /\ left \in Nat
      BY <1>2, <1>3
    <3>2. f[left] = Put(left, f[Behind(left)]) BY <1>10, <3>1 DEF At
    <3> QED BY <3>1, <3>2
  <2> HIDE DEF r
  <2>3. r = [left \in 0 .. size |-> r[left]] BY DEF r
  <2>4. ASSUME NEW left \in 0 .. size
        PROVE  r[left] = IF left = 0 THEN <<>> ELSE Put(left, r[Behind(left)])
    <3>1. CASE left = 0 BY <2>1, <3>1
    <3>2. CASE left # 0
      <4>1. left \in 1 .. size BY <1>2, <3>2
      <4> QED BY <2>2, <3>2, <4>1
    <3> QED BY <3>1, <3>2
  <2> QED BY <2>3, <2>4
<1>12. from = Step(from)
  <2> HIDE DEF Step
  <2> QED BY <1>11
<1> HIDE DEF from
<1>13. /\ from[0] = <<>>
       /\ \A left \in 1 .. size : from[left] = Put(left, from[Behind(left)])
  <2>1. ASSUME NEW left \in 0 .. size
        PROVE  from[left] = IF left = 0 THEN <<>> ELSE Put(left, from[Behind(left)])
    BY <1>12
  <2> HIDE DEF Step
  <2>2. 0 \in 0 .. size BY <1>2
  <2>3. ASSUME NEW left \in 1 .. size
        PROVE  from[left] = Put(left, from[Behind(left)])
    <3>1. left \in 0 .. size /\ left # 0 BY <1>2
    <3> QED BY <2>1, <3>1
  <2>4. from[0] = <<>> BY <2>1, <2>2
  <2> QED BY <2>3, <2>4
<1>14. IsFilling(processed, from)
  BY <1>1, <1>13 DEF IsFilling, size, First, Behind, Put
<1> QED BY <1>14

\* Envelopes that divide the samples behind offset at the cuts.
IsDivision(processed, offset, envelopes, cuts) ==
  LET m == Len(envelopes)
  IN  /\ m \in Nat
      /\ cuts[0] = offset /\ cuts[m] = Len(processed)
      /\ \A k \in 0 .. m : cuts[k] \in 0 .. Len(processed)
      /\ \A k \in 1 .. m :
           /\ cuts[k - 1] < cuts[k]
           /\ envelopes[k] = SubSeq(processed, cuts[k - 1] + 1, cuts[k])
           /\ Fits(envelopes[k])

IsPut(put, first, rest) ==
  /\ Len(put) = Len(rest) + 1 /\ put[1] = first
  /\ \A k \in 2 .. Len(rest) + 1 : put[k] = rest[k - 1]

LEMMA PutFacts ==
  ASSUME NEW T, NEW first \in T, NEW rest \in Seq(T)
  PROVE  /\ <<first>> \o rest \in Seq(T)
         /\ IsPut(<<first>> \o rest, first, rest)
  BY DEF IsPut

LEMMA DivisionGrows ==
  ASSUME NEW T, NEW processed \in Seq(T), Divisible(processed),
         NEW left \in 1 .. Len(processed), NEW rest \in Seq(Seq(T)), NEW c,
         IsDivision(processed, Len(processed) - LeftBehind(processed, left), rest, c)
  PROVE  \E cuts :
           IsDivision(processed, Len(processed) - left,
                      <<FirstEnvelope(processed, left)>> \o rest, cuts)
<1> DEFINE size == Len(processed)
           m == Len(rest)
           first == FirstEnvelope(processed, left)
           behind == LeftBehind(processed, left)
           put == <<first>> \o rest
           cuts == [k \in 0 .. m + 1 |-> IF k = 0 THEN size - left ELSE c[k - 1]]
<1>1. size \in Nat /\ m \in Nat /\ left \in 1 .. size OBVIOUS
<1>2. /\ behind \in 0 .. left - 1 /\ first \in Seq(T) /\ Fits(first)
      /\ first = SubSeq(processed, (size - left) + 1, size - behind)
  BY FirstFacts
<1>3. /\ put \in Seq(Seq(T)) /\ Len(put) = m + 1 /\ put[1] = first
      /\ \A k \in 2 .. m + 1 : put[k] = rest[k - 1]
  <2> HIDE DEF first
  <2>1. put \in Seq(Seq(T)) /\ IsPut(put, first, rest) BY <1>2, PutFacts
  <2> HIDE DEF put
  <2> QED BY <2>1 DEF IsPut
<1>4. /\ c[0] = size - behind /\ c[m] = size
      /\ \A k \in 0 .. m : c[k] \in 0 .. size
      /\ \A k \in 1 .. m :
           /\ c[k - 1] < c[k]
           /\ rest[k] = SubSeq(processed, c[k - 1] + 1, c[k])
           /\ Fits(rest[k])
  BY DEF IsDivision
<1> HIDE DEF size, m, first, behind, put
<1>5. /\ cuts[0] = size - left /\ cuts[1] = c[0]
      /\ \A k \in 1 .. m + 1 : cuts[k] = c[k - 1]
  BY <1>1
<1> HIDE DEF cuts
<1>6. cuts[m + 1] = size
  <2>1. m + 1 \in 1 .. m + 1 /\ (m + 1) - 1 = m BY <1>1
  <2> QED BY <1>4, <1>5, <2>1
<1>7. ASSUME NEW k \in 0 .. m + 1 PROVE cuts[k] \in 0 .. size
  <2>1. CASE k = 0 BY <1>1, <1>5, <2>1
  <2>2. CASE k # 0
    <3>1. k \in 1 .. m + 1 /\ k - 1 \in 0 .. m BY <1>1, <2>2
    <3> QED BY <1>4, <1>5, <3>1
  <2> QED BY <2>1, <2>2
<1>8. ASSUME NEW k \in 1 .. m + 1
      PROVE  /\ cuts[k - 1] < cuts[k]
             /\ put[k] = SubSeq(processed, cuts[k - 1] + 1, cuts[k])
             /\ Fits(put[k])
  <2>1. CASE k = 1
    <3>1. k - 1 = 0 /\ size - left < size - behind BY <1>1, <1>2, <2>1
    <3> QED BY <1>2, <1>3, <1>4, <1>5, <2>1, <3>1
  <2>2. CASE k # 1
    <3>1. k \in 2 .. m + 1 /\ k - 1 \in 1 .. m + 1 /\ k - 1 \in 1 .. m
      BY <1>1, <2>2
    <3>2. cuts[k] = c[k - 1] /\ cuts[k - 1] = c[(k - 1) - 1] BY <1>5, <3>1
    <3>3. put[k] = rest[k - 1] BY <1>3, <3>1
    <3> QED BY <1>4, <3>1, <3>2, <3>3
  <2> QED BY <2>1, <2>2
<1>9. m + 1 \in Nat BY <1>1
<1>10. IsDivision(processed, size - left, put, cuts)
  BY <1>3, <1>5, <1>6, <1>7, <1>8, <1>9 DEF IsDivision, size
<1> QED BY <1>10 DEF size, put, first

\* The loop divides what is left, whatever is left.
LEMMA FillDivides ==
  ASSUME NEW T, NEW processed \in Seq(T), Divisible(processed)
  PROVE  \E cuts : IsDivision(processed, 0, FillEnvelopes(processed), cuts)
<1> DEFINE size == Len(processed)
<1>1. PICK from : IsFilling(processed, from) BY FillLoop
<1> DEFINE Good(left) ==
             /\ from[left] \in Seq(Seq(T))
             /\ \E cuts : IsDivision(processed, size - left, from[left], cuts)
           Bad == {left \in 0 .. size : ~Good(left)}
<1>2. size \in Nat OBVIOUS
<1>3. Good(0)
  <2>1. from[0] = <<>> BY <1>1 DEF IsFilling
  <2>2. <<>> \in Seq(Seq(T)) /\ Len(<<>>) = 0 OBVIOUS
  <2> DEFINE cuts == [k \in 0 .. 0 |-> size]
  <2>3. cuts[0] = size /\ \A k \in 0 .. 0 : cuts[k] = size OBVIOUS
  <2> HIDE DEF cuts
  <2>4. IsDivision(processed, size - 0, <<>>, cuts)
    BY <1>2, <2>2, <2>3 DEF IsDivision
  <2> QED BY <2>1, <2>2, <2>4
<1>4. ASSUME NEW left \in 1 .. size, \A less \in 0 .. left - 1 : Good(less)
      PROVE  Good(left)
  <2> DEFINE behind == LeftBehind(processed, left)
             first == FirstEnvelope(processed, left)
  <2>1. behind \in 0 .. left - 1 /\ first \in Seq(T) BY FirstFacts
  <2>2. Good(behind)
    <3> HIDE DEF Good, behind
    <3> QED BY <1>4, <2>1
  <2>3. PICK c : IsDivision(processed, size - behind, from[behind], c) BY <2>2
  <2>4. from[left] = <<first>> \o from[behind] BY <1>1 DEF IsFilling
  <2>5. from[behind] \in Seq(Seq(T)) BY <2>2
  <2>6. \E cuts : IsDivision(processed, size - left, <<first>> \o from[behind], cuts)
    BY <2>3, <2>5, DivisionGrows
  <2>7. <<first>> \o from[behind] \in Seq(Seq(T))
    <3> HIDE DEF first, behind
    <3> QED BY <2>1, <2>5, PutFacts
  <2> QED BY <2>4, <2>6, <2>7
<1>5. Bad = {}
  <2> HIDE DEF Good
  <2> SUFFICES ASSUME Bad # {} PROVE FALSE OBVIOUS
  <2>1. Bad \in SUBSET Nat BY <1>2
  <2>2. PICK x \in Bad : \A y \in Bad : x <= y BY <2>1, LeastElement
  <2>3. x \in 0 .. size /\ ~Good(x) /\ x # 0 BY <2>2, <1>3
  <2>4. x \in 1 .. size BY <1>2, <2>3
  <2>5. ASSUME NEW y \in 0 .. x - 1 PROVE Good(y)
    <3>1. y \in 0 .. size /\ ~(x <= y) BY <1>2, <2>4
    <3> QED BY <2>2, <3>1
  <2> QED BY <1>4, <2>3, <2>4, <2>5
<1>6. Good(size)
  <2>1. size \in 0 .. size BY <1>2
  <2> HIDE DEF Good
  <2> QED BY <1>5, <2>1
<1>7. size - size = 0 /\ from[size] = FillEnvelopes(processed)
  BY <1>1, <1>2 DEF IsFilling
<1> QED BY <1>6, <1>7

\* The samples in front of an envelope are those up to its cut.
LEMMA BeforeIsCut ==
  ASSUME NEW T, NEW processed \in Seq(T), NEW envelopes, NEW cuts,
         IsDivision(processed, 0, envelopes, cuts)
  PROVE  /\ \A k \in 1 .. Len(envelopes) :
              /\ envelopes[k] = SubSeq(processed, cuts[k - 1] + 1, cuts[k])
              /\ Len(envelopes[k]) = cuts[k] - cuts[k - 1]
              /\ cuts[k - 1] \in 0 .. Len(processed)
              /\ cuts[k] \in cuts[k - 1] + 1 .. Len(processed)
         /\ \A k \in 1 .. Len(envelopes) + 1 : Before(envelopes, k) = cuts[k - 1]
<1> DEFINE size == Len(processed)
           m == Len(envelopes)
<1>1. /\ size \in Nat /\ m \in Nat /\ cuts[0] = 0
      /\ \A k \in 0 .. m : cuts[k] \in 0 .. size
      /\ \A k \in 1 .. m : /\ cuts[k - 1] < cuts[k]
                           /\ envelopes[k] = SubSeq(processed, cuts[k - 1] + 1, cuts[k])
  BY DEF IsDivision
<1>2. ASSUME NEW k \in 1 .. m
      PROVE  /\ envelopes[k] = SubSeq(processed, cuts[k - 1] + 1, cuts[k])
             /\ Len(envelopes[k]) = cuts[k] - cuts[k - 1]
             /\ cuts[k - 1] \in 0 .. size
             /\ cuts[k] \in cuts[k - 1] + 1 .. size
  <2>1. k - 1 \in 0 .. m /\ k \in 0 .. m BY <1>1
  <2>2. /\ cuts[k - 1] \in 0 .. size
        /\ cuts[k] \in cuts[k - 1] + 1 .. size
        /\ cuts[k] \in cuts[k - 1] .. size
    BY <1>1, <2>1
  <2>3. Len(SubSeq(processed, cuts[k - 1] + 1, cuts[k])) = cuts[k] - cuts[k - 1]
    BY <2>2, SubSeqFacts
  <2> QED BY <1>1, <2>2, <2>3
<1>3. ASSUME NEW k \in 1 .. m + 1 PROVE Before(envelopes, k) = cuts[k - 1]
  <2> DEFINE f == [j \in 1 .. k - 1 |-> Len(envelopes[j])]
  <2>1. k - 1 \in Nat /\ 0 .. k - 1 \subseteq 0 .. m /\ 1 .. k - 1 \subseteq 1 .. m
    BY <1>1
  <2>2. \A j \in 1 .. k - 1 : f[j] = cuts[j] - cuts[j - 1] BY <1>2, <2>1
  <2>3. \A j \in 0 .. k - 1 : cuts[j] \in Int BY <1>1, <2>1
  <2>4. SumTo(f, k - 1) = cuts[k - 1] - cuts[0]
    <3> HIDE DEF f
    <3> QED BY <2>1, <2>2, <2>3, SumTelescopes
  <2>5. Before(envelopes, k) = SumTo(f, k - 1) BY DEF Before
  <2>6. cuts[k - 1] \in Int BY <2>1, <2>3
  <2> HIDE DEF f
  <2> QED BY <1>1, <2>4, <2>5, <2>6
<1> QED BY <1>2, <1>3

\* The envelopes of a segment whose every sample fits into one: each
\* transition once and in order, with its lambda return, in envelopes that
\* keep both limits.
THEOREM EnvelopesHoldExactly ==
  ASSUME NEW segment, NEW bootstrap, IsSegment(segment, bootstrap),
         Divisible(ProjectProcessedSegment(segment, bootstrap))
  PROVE  HoldExactly(FillEnvelopes(ProjectProcessedSegment(segment, bootstrap)),
                     segment, bootstrap)
<1> DEFINE n == Len(segment)
           P == ProjectProcessedSegment(segment, bootstrap)
           envelopes == FillEnvelopes(P)
           Sample(i) == [observation |-> segment[i].observation,
                         value |-> segment[i].value,
                         advantage |-> EstimateRolloutSegment(segment, bootstrap)[i].advantage,
                         target |-> EstimateRolloutSegment(segment, bootstrap)[i].target]
           T == {Sample(i) : i \in 1 .. n}
<1>1. n \in Nat BY DEF IsSegment
<1>2. P = [i \in 1 .. n |-> Sample(i)] BY DEF ProjectProcessedSegment
<1>3. /\ P \in Seq(T) /\ Len(P) = n /\ \A i \in 1 .. n : P[i] = Sample(i)
  <2> HIDE DEF P, Sample, n
  <2> QED BY <1>1, <1>2
<1>4. ASSUME NEW i \in 1 .. n
      PROVE  /\ P[i].observation = segment[i].observation
             /\ P[i].target = LambdaReturn(segment, bootstrap, i)
             /\ P[i].advantage = LambdaReturn(segment, bootstrap, i)
                                   - Scale * segment[i].value
  <2>1. /\ P[i].observation = segment[i].observation
        /\ P[i].target = EstimateRolloutSegment(segment, bootstrap)[i].target
        /\ P[i].advantage = EstimateRolloutSegment(segment, bootstrap)[i].advantage
    <3>1. P[i] = Sample(i)
      <4> HIDE DEF Sample, P, n, T
      <4> QED BY <1>3
    <3> HIDE DEF P, n
    <3> QED BY <3>1
  <2>2. LET estimate == EstimateRolloutSegment(segment, bootstrap)[i]
            return == LambdaReturn(segment, bootstrap, i)
        IN  /\ estimate.target = return
            /\ estimate.advantage = return - Scale * segment[i].value
    BY EstimateIsLambdaReturn
  <2> HIDE DEF P
  <2> QED BY <2>1, <2>2
<1> HIDE DEF P, T, Sample, n
<1>5. PICK cuts : IsDivision(P, 0, envelopes, cuts)
  BY <1>3, FillDivides DEF P
<1> HIDE DEF envelopes
<1>6. /\ \A k \in 1 .. Len(envelopes) :
           /\ envelopes[k] = SubSeq(P, cuts[k - 1] + 1, cuts[k])
           /\ Len(envelopes[k]) = cuts[k] - cuts[k - 1]
           /\ cuts[k - 1] \in 0 .. n
           /\ cuts[k] \in cuts[k - 1] + 1 .. n
      /\ \A k \in 1 .. Len(envelopes) + 1 : Before(envelopes, k) = cuts[k - 1]
  BY <1>3, <1>5, BeforeIsCut
<1>7. /\ Len(envelopes) \in Nat /\ cuts[Len(envelopes)] = n
      /\ \A k \in 1 .. Len(envelopes) : Fits(envelopes[k])
  BY <1>3, <1>5 DEF IsDivision
<1>8. Before(envelopes, Len(envelopes) + 1) = n
  <2>1. /\ Len(envelopes) + 1 \in 1 .. Len(envelopes) + 1
        /\ (Len(envelopes) + 1) - 1 = Len(envelopes)
    BY <1>7
  <2> QED BY <1>6, <1>7, <2>1
<1>9. ASSUME NEW k \in 1 .. Len(envelopes)
      PROVE  /\ envelopes[k] # <<>>
             /\ Len(envelopes[k]) <= EnvelopeMaxTransitions
             /\ Bytes(envelopes[k]) <= EnvelopeMaxBytes
  <2>1. cuts[k] - cuts[k - 1] # 0 BY <1>1, <1>6
  <2>2. Len(envelopes[k]) # 0 BY <1>6, <2>1
  <2>3. envelopes[k] # <<>>
    <3>1. Len(<<>>) = 0 OBVIOUS
    <3> QED BY <2>2, <3>1, Zenon
  <2> QED BY <1>7, <2>3 DEF Fits
<1>10. ASSUME NEW k \in 1 .. Len(envelopes), NEW j \in 1 .. Len(envelopes[k])
       PROVE  LET i == Before(envelopes, k) + j
                  return == LambdaReturn(segment, bootstrap, i)
              IN  /\ envelopes[k][j].observation = segment[i].observation
                  /\ envelopes[k][j].target = return
                  /\ envelopes[k][j].advantage = return - Scale * segment[i].value
  <2> DEFINE low == cuts[k - 1]
             high == cuts[k]
             i == low + j
  <2>1. low \in 0 .. n /\ high \in low + 1 .. n /\ high \in low .. n BY <1>1, <1>6
  <2>2. envelopes[k] = SubSeq(P, low + 1, high) /\ j \in 1 .. high - low BY <1>6
  <2>3. Before(envelopes, k) = low
    <3>1. k \in 1 .. Len(envelopes) + 1 BY <1>7
    <3> QED BY <1>6, <3>1
  <2> HIDE DEF low, high
  <2>4. SubSeq(P, low + 1, high)[j] = P[low + j] /\ low + j \in 1 .. n
    BY <1>3, <2>1, <2>2, SubSeqFacts
  <2>5. envelopes[k][j] = P[i] /\ i \in 1 .. n BY <2>2, <2>4
  <2> HIDE DEF i
  <2>6. Before(envelopes, k) + j = i BY <2>3 DEF i
  <2> QED BY <1>4, <2>5, <2>6
<1>11. HoldExactly(envelopes, segment, bootstrap)
  BY <1>8, <1>9, <1>10 DEF HoldExactly, n
<1> QED BY <1>11 DEF envelopes, P
=============================================================================
