------------------------------- MODULE Journey -------------------------------
(***************************************************************************)
(* The day of one person, told as places stayed at and ways between them   *)
(* (ramupin-server/src/journey).  The positions lie on a line, in units of *)
(* the radius within which one is still at the same place.                 *)
(***************************************************************************)
EXTENDS Integers, Lists

CONSTANTS
  Spots,       \* positions a fix may have
  Gaps,        \* minutes that may pass between two fixes
  Radius,      \* STAY_RADIUS_M
  MergeRadius, \* MERGE_STAY_RADIUS_M
  MinStay,     \* MIN_STAY_MINUTES
  MergeGap,    \* MERGE_GAP_MINUTES
  MaxFixes,    \* bound: fixes of the day
  MaxRough     \* bound: fixes of the day that are inaccurate

\* No two rows of a person have one time: it is in their key.
ASSUME JourneyAssumption ==
  /\ Spots \subseteq Nat /\ Gaps \subseteq Nat \ {0}
  /\ {Radius, MergeRadius, MinStay, MergeGap, MaxFixes, MaxRough} \subseteq Nat
  /\ Radius <= MergeRadius /\ MinStay > 0

VARIABLE day \* the rows of dayPoints, in the order they were measured

Minutes == 0 .. (MaxFixes * (CHOOSE g \in Gaps : \A h \in Gaps : h <= g))

Fixes == [at: Minutes, spot: Spots, rough: BOOLEAN]

JourneyTypeOK == day \in Seq(Fixes)

----------------------------------------------------------------------------
(* buildJourney.  A segment is the interval [from, to] of the fixes used.  *)

\* The inaccurate fixes are left out, unless there are no others.
Usable ==
  LET accurate == {i \in DOMAIN day : ~day[i].rough}
  IN  IF accurate # {} THEN Picked(day, accurate) ELSE day

Distance(f, g) == IF f.spot < g.spot THEN g.spot - f.spot ELSE f.spot - g.spot

\* What a loop has made last.
Latest(made) == made[Len(made)]

Until(segments, i) == [segments EXCEPT ![Len(segments)].to = i]

\* A fix near the first one of the segment belongs to it.
Group(fixes, segments, i) ==
  IF segments # <<>> /\ Distance(fixes[Latest(segments).from], fixes[i]) <= Radius
  THEN Until(segments, i)
  ELSE Append(segments, [from |-> i, to |-> i])

Clusters(fixes) ==
  LET made[i \in 0 .. Len(fixes)] == IF i = 0 THEN <<>> ELSE Group(fixes, made[i - 1], i)
      groups == made[Len(fixes)]
  IN  [i \in DOMAIN groups |->
         [from |-> groups[i].from, to |-> groups[i].to,
          stayed |-> fixes[groups[i].to].at - fixes[groups[i].from].at >= MinStay]]

\* Ways that follow one another are one way.
JoinMove(segments, s) ==
  IF segments # <<>> /\ ~Latest(segments).stayed /\ ~s.stayed
  THEN Until(segments, s.to)
  ELSE Append(segments, s)

Joined(fixes) ==
  LET clusters == Clusters(fixes)
      made[i \in 0 .. Len(clusters)] ==
        IF i = 0 THEN <<>> ELSE JoinMove(made[i - 1], clusters[i])
  IN  made[Len(clusters)]

Mergeable(fixes, s, t) ==
  /\ s.stayed /\ t.stayed
  /\ fixes[t.from].at - fixes[s.to].at < MergeGap
  /\ Distance(fixes[s.from], fixes[t.from]) <= MergeRadius

\* Mutation: only stays that touch are merged.
MergeTouching(fixes, segments, s) ==
  IF segments # <<>> /\ Mergeable(fixes, Latest(segments), s)
  THEN Until(segments, s.to)
  ELSE Append(segments, s)

\* mergeNearbyStays: a stay near the one before, with at most a short way
\* between them, goes on with it.
MergeStay(fixes, segments, s) ==
  LET way == segments # <<>> /\ ~Latest(segments).stayed
      before == IF way THEN Len(segments) - 1 ELSE Len(segments)
  IN  IF before > 0 /\ Mergeable(fixes, segments[before], s)
      THEN Until(SubSeq(segments, 1, before), s.to)
      ELSE Append(segments, s)

Route(fixes) ==
  LET joined == Joined(fixes)
      made[i \in 0 .. Len(joined)] ==
        IF i = 0 THEN <<>> ELSE MergeStay(fixes, made[i - 1], joined[i])
  IN  made[Len(joined)]

\* The stays as the user reads them; a stop that is open is where the user still
\* is.  The last segment is looked for at the place it had before the merging.
Stops(fixes) ==
  LET route == Route(fixes)
      stays == InOrder({i \in DOMAIN route : route[i].stayed})
  IN  [n \in DOMAIN stays |->
         [spot |-> fixes[route[stays[n]].from].spot,
          arrived |-> fixes[route[stays[n]].from].at,
          open |-> stays[n] = Len(Joined(fixes)),
          left |-> fixes[route[stays[n]].to].at]]

\* Spots in one building have one address.
Address(spot) == spot \div 2

\* mergeSameAddress: the stop goes on until the later one is left.
SameAddress(stops, s) ==
  IF stops # <<>> /\ Address(Latest(stops).spot) = Address(s.spot)
  THEN [stops EXCEPT ![Len(stops)].open = s.open, ![Len(stops)].left = s.left]
  ELSE Append(stops, s)

Told(fixes) ==
  LET stops == Stops(fixes)
      made[i \in 0 .. Len(stops)] ==
        IF i = 0 THEN <<>> ELSE SameAddress(made[i - 1], stops[i])
  IN  made[Len(stops)]

----------------------------------------------------------------------------
(* The day.                                                                *)

JourneyInit == day = <<>>

\* A fix is saved.
Walk(gap, spot, rough) ==
  /\ Len(day) < MaxFixes
  /\ rough => Cardinality({i \in DOMAIN day : day[i].rough}) < MaxRough
  /\ day' = Append(day, [at |-> IF day = <<>> THEN 0 ELSE Latest(day).at + gap,
                         spot |-> spot, rough |-> rough])

JourneyNext == \E gap \in Gaps, spot \in Spots, rough \in BOOLEAN : Walk(gap, spot, rough)

journeyVars == <<day>>

JourneySpec == JourneyInit /\ [][JourneyNext]_journeyVars

----------------------------------------------------------------------------
(* Properties.                                                             *)

\* The route has every fix it is made of once and in order, and ways and stays
\* take turns.
Tiles(fixes, route) ==
  /\ fixes # <<>> => route # <<>> /\ route[1].from = 1 /\ Latest(route).to = Len(fixes)
  /\ \A i \in 1 .. Len(route) - 1 :
       /\ route[i + 1].from = route[i].to + 1
       /\ route[i].stayed \/ route[i + 1].stayed

\* One place is one stay: two stays are never left apart that the rule would make
\* one, and no stay hides a time away that is as long as MergeGap.
OnePlaceOneStay(fixes, joined, route) ==
  /\ \A i, j \in DOMAIN route :
       i < j /\ (\A k \in i + 1 .. j - 1 : ~route[k].stayed)
       => ~Mergeable(fixes, route[i], route[j])
  /\ \A i \in DOMAIN joined, j \in DOMAIN route :
       /\ ~joined[i].stayed /\ route[j].stayed
       /\ route[j].from <= joined[i].from /\ joined[i].to <= route[j].to
       => fixes[joined[i].to + 1].at - fixes[joined[i].from - 1].at < MergeGap

\* The stops are read from the top: each is left before the next is arrived at,
\* none but the last is where the user still is, and neighbours differ in their
\* address.
Readable(stops) ==
  \A i \in 1 .. Len(stops) - 1 :
    /\ ~stops[i].open
    /\ stops[i].left < stops[i + 1].arrived
    /\ Address(stops[i].spot) # Address(stops[i + 1].spot)

\* What the three passes of buildJourney and the fourth by address make of a day
\* is that day, in as few pieces as the rules of the product ask for (the reports
\* 63 and 82 quoted in stay-detection.ts are of days where it was not).
DayTold ==
  LET fixes == Usable
      route == Route(fixes)
  IN  /\ Tiles(fixes, route)
      /\ OnePlaceOneStay(fixes, Joined(fixes), route)
      /\ Readable(Told(fixes))
=============================================================================
