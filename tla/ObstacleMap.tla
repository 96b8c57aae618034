---------------------------- MODULE ObstacleMap -----------------------------
(***************************************************************************)
(* What the obstacle worker computes from a scan: the points it deskews    *)
(* with the pose history, the tracks it keeps of them, and the distance    *)
(* field it builds from the confirmed ones.                                *)
(*                                                                         *)
(* The car drives along the first axis, so that a pose is its east         *)
(* coordinate; points are pairs.  Times are ticks, lengths are grid cells. *)
(* Distances are kept squared, which spares the square root.               *)
(***************************************************************************)
EXTENDS SequencesExt, Integers

CONSTANTS
  Retention,                  \* retention of the pose history
  MaximumExtrapolation,       \* maximum_extrapolation_s
  ConfirmationUpdates,        \* confirmation_updates
  PersistenceUpdates,         \* persistence_updates
  AssociationDistance,        \* association_distance_m
  InflationSquared,           \* obstacle_inflation_radius_m, squared
  MaximumSquared,             \* maximum_distance_m, squared
  GridWidth, GridHeight,      \* cells of the field
  Large,                      \* kLargeDistance
  Scale,                      \* a multiple of every divisor of an intersection
  None                        \* no pose, no return of a ray

ASSUME ObstacleConfigAssumption ==
  /\ Retention \in Nat \ {0}
  /\ MaximumExtrapolation \in Nat
  /\ ConfirmationUpdates \in Nat \ {0}
  /\ PersistenceUpdates \in Nat
  /\ AssociationDistance \in Nat \ {0}
  /\ InflationSquared \in Nat
  /\ MaximumSquared \in Nat \ {0}

ASSUME GridAssumption ==
  /\ GridWidth \in Nat \ {0, 1}
  /\ GridHeight \in Nat \ {0, 1}
  /\ Scale \in Nat \ {0}
  /\ \A d \in 1 .. GridWidth + GridHeight : Scale % (2 * d) = 0

\* No distance that matters is anywhere near kLargeDistance.
ASSUME LargeAssumption ==
  /\ Large \in Nat
  /\ GridWidth <= Large /\ GridHeight <= Large
  /\ MaximumSquared <= Large

ASSUME NoneAssumption == None \notin Int \cup (Int \X Int)

\* The entries of a sequence that are there, in order.
Present(entries) ==
  LET upto[i \in 0 .. Len(entries)] ==
        IF i = 0 THEN <<>>
        ELSE IF entries[i] = None THEN upto[i - 1] ELSE Append(upto[i - 1], entries[i])
  IN  upto[Len(entries)]

Squared(p, q) == (p[1] - q[1]) * (p[1] - q[1]) + (p[2] - q[2]) * (p[2] - q[2])

-----------------------------------------------------------------------------
(* PoseHistory: samples in order of their stamps, each a pose and a speed. *)

\* Faulty variant: the oldest sample goes as soon as it is out of retention.
TrimFirst(samples, cutoff) ==
  SelectSeq(samples, LAMBDA s : s.stamp >= cutoff)

\* The samples before the last one that is older than the cutoff are dropped.
Trim(samples, cutoff) ==
  LET keep == {i \in 2 .. Len(samples) - 1 : samples[i].stamp < cutoff}
  IN  IF keep = {} THEN samples ELSE SubSeq(samples, Max(keep), Len(samples))

\* PoseHistory::Add of a sample newer than the others.
Add(samples, sample) == Trim(Append(samples, sample), sample.stamp - Retention)

Extrapolate(sample, elapsed) == sample.east + elapsed * sample.speed

PoseAt(samples, stamp) ==
  CASE samples = <<>> -> None
    [] samples # <<>> /\ stamp < Head(samples).stamp ->
         IF Head(samples).stamp - stamp > MaximumExtrapolation THEN None
         ELSE Extrapolate(Head(samples), stamp - Head(samples).stamp)
    [] samples # <<>> /\ stamp > Last(samples).stamp ->
         IF stamp - Last(samples).stamp > MaximumExtrapolation THEN None
         ELSE Extrapolate(Last(samples), stamp - Last(samples).stamp)
    [] OTHER ->
         LET upper == Min({i \in DOMAIN samples : samples[i].stamp >= stamp})
             after == samples[upper]
             before == samples[upper - 1]
         IN  IF upper = 1 \/ after.stamp = stamp THEN after.east
             ELSE before.east + ((stamp - before.stamp) * (after.east - before.east))
                                  \div (after.stamp - before.stamp)

-----------------------------------------------------------------------------
(* DeskewLaserScan.  A ray gives the way to what it hit, or None.          *)

\* A driver that leaves time_increment out gives scan_time.
TimeIncrement(scan) ==
  IF scan.time_increment = 0 /\ Len(scan.ranges) > 1
    THEN scan.scan_time \div (Len(scan.ranges) - 1)
    ELSE scan.time_increment

RayStamp(scan, i) == scan.first_ray_stamp + TimeIncrement(scan) * (i - 1)

ReferencePose(samples, scan) == PoseAt(samples, RayStamp(scan, Len(scan.ranges)))

\* The points in ray order, or None when a ray that hit something has no pose.
DeskewLaserScan(samples, scan) ==
  LET pose == [i \in DOMAIN scan.ranges |-> PoseAt(samples, RayStamp(scan, i))]
      hits == {i \in DOMAIN scan.ranges : scan.ranges[i] # None}
      points == [i \in DOMAIN scan.ranges |->
                   IF i \in hits THEN <<pose[i] + scan.ranges[i][1], scan.ranges[i][2]>>
                                 ELSE None]
  IN  IF ReferencePose(samples, scan) = None \/ \E i \in hits : pose[i] = None
        THEN None
        ELSE Present(points)

-----------------------------------------------------------------------------
(* TemporalObstacleFilter::Update.                                         *)

ToCell(point) ==
  <<point[1] \div AssociationDistance, point[2] \div AssociationDistance>>

CellLess(c, d) == c[2] < d[2] \/ (c[2] = d[2] /\ c[1] < d[1])

\* The cells of the tracks when the update starts.
SpatialIndex(tracks) == [i \in DOMAIN tracks |-> ToCell(tracks[i].point)]

\* Faulty variant: only the cell of the observation is searched.
SameCellOnly(cell, other) == cell = other

\* The nine cells around an observation.
Neighbour(cell, other) ==
  /\ other[1] - cell[1] \in -1 .. 1
  /\ other[2] - cell[2] \in -1 .. 1

\* The tracks an observation may be matched with: those within the association
\* distance that are not matched yet.
Associable(tracks, matched, observation) ==
  {i \in DOMAIN tracks \ matched :
     Squared(tracks[i].point, observation) <= AssociationDistance * AssociationDistance}

\* Those of them the search comes across.
Candidates(tracks, index, matched, observation) ==
  {i \in Associable(tracks, matched, observation) \cap DOMAIN index :
     Neighbour(ToCell(observation), index[i])}

\* The nearest, and of the nearest the first the search comes across.
Best(tracks, index, observation, candidates) ==
  LET Distance(i) == Squared(tracks[i].point, observation)
      Before(i, j) ==
        \/ Distance(i) < Distance(j)
        \/ Distance(i) = Distance(j) /\ CellLess(index[i], index[j])
        \/ Distance(i) = Distance(j) /\ index[i] = index[j] /\ i < j
  IN  CHOOSE i \in candidates : \A j \in candidates \ {i} : Before(i, j)

NewTrack(observation) ==
  [point |-> observation, hits |-> 1, missed |-> 0,
   confirmed |-> ConfirmationUpdates = 1]

Hit(track, observation) ==
  LET hits == IF ~track.confirmed /\ track.hits < ConfirmationUpdates
                THEN track.hits + 1 ELSE track.hits
  IN  [point |-> observation, hits |-> hits, missed |-> 0,
       confirmed |-> track.confirmed \/ hits >= ConfirmationUpdates]

\* One observation: what it does to the tracks and to those matched.
Match(before, index, observation, candidates) ==
  IF candidates = {}
    THEN [tracks |-> Append(before.tracks, NewTrack(observation)),
          matched |-> before.matched \cup {Len(before.tracks) + 1}]
    ELSE LET best == Best(before.tracks, index, observation, candidates)
         IN  [tracks |-> [before.tracks EXCEPT ![best] = Hit(@, observation)],
              matched |-> before.matched \cup {best}]

MatchByIndex(before, index, observation) ==
  Match(before, index, observation,
        Candidates(before.tracks, index, before.matched, observation))

\* What the tracks are after each observation.
Associations(tracks, observations) ==
  LET index == SpatialIndex(tracks)
      after[i \in 0 .. Len(observations)] ==
        IF i = 0 THEN [tracks |-> tracks, matched |-> {}]
        ELSE MatchByIndex(after[i - 1], index, observations[i])
  IN  after

Associate(tracks, observations) == Associations(tracks, observations)[Len(observations)]

\* Faulty variant: a track that was not confirmed keeps its hits when missed.
RetainsAll(track) == track.missed < PersistenceUpdates

\* A track that was not matched stays while it is confirmed and persists.
Retains(track) == track.confirmed /\ track.missed < PersistenceUpdates

Update(tracks, observations) ==
  LET after == Associate(tracks, observations)
      aged == [i \in DOMAIN after.tracks |->
                 IF i \in after.matched THEN after.tracks[i]
                 ELSE IF Retains(after.tracks[i])
                        THEN [after.tracks[i] EXCEPT !.missed = @ + 1] ELSE None]
  IN  Present(aged)

ConfirmedPoints(tracks) ==
  {tracks[i].point : i \in {j \in DOMAIN tracks : tracks[j].confirmed}}

-----------------------------------------------------------------------------
(* SignedDistanceFieldBuilder.                                             *)

\* Single precision next to kLargeDistance: what is small is lost.
Widen(large, small) == IF large >= Large THEN Large ELSE large + small

Difference(a, b) ==
  CASE a >= Large /\ b >= Large -> 0
    [] a >= Large /\ b < Large -> Large
    [] a < Large /\ b >= Large -> -Large
    [] OTHER -> a - b

Infinity == Scale * Large + 1

\* Where the parabola of q meets that of an earlier location, scaled.
Intersection(input, q, location) ==
  Difference(Widen(input[q], q * q), Widen(input[location], location * location))
    * (Scale \div (2 * (q - location)))

\* One round of the do-while: an intersection that makes the piece k vanish is
\* compared with the piece below before it is computed anew.
FitPiece(boundaries, k, crossing, below) ==
  CASE crossing > boundaries[k] -> [k |-> k, boundary |-> crossing]
    [] crossing <= boundaries[k] /\ k > 0 /\ crossing <= boundaries[k - 1] -> below
    [] OTHER -> [k |-> k - 1, boundary |-> crossing]

\* The do-while of DistanceTransform1D.
FitParabola(input, q, envelope) ==
  LET fit[k \in 0 .. envelope.k] ==
        FitPiece(envelope.boundaries, k,
                 Intersection(input, q, envelope.locations[k]), fit[k - 1])
  IN  fit[envelope.k]

\* The parabola of q becomes the last piece; boundaries above are never read.
PushPiece(envelope, q, fit) ==
  [k |-> fit.k + 1,
   locations |-> [envelope.locations EXCEPT ![fit.k + 1] = q],
   boundaries |-> [envelope.boundaries EXCEPT ![fit.k + 1] = fit.boundary,
                                              ![fit.k + 2] = Infinity]]

AddParabola(input, envelope, q) ==
  PushPiece(envelope, q, FitParabola(input, q, envelope))

LowerEnvelope(input, count) ==
  LET envelope[q \in 0 .. count - 1] ==
        IF q = 0
          THEN [k |-> 0, locations |-> [i \in 0 .. count - 1 |-> 0],
                boundaries |-> [i \in 0 .. count |-> IF i = 0 THEN -Infinity ELSE Infinity]]
          ELSE AddParabola(input, envelope[q - 1], q)
  IN  envelope[count - 1]

\* The first piece that reaches q; the scan never goes back to an earlier one.
PieceAt(envelope, from, q) ==
  Min({k \in from .. envelope.k : envelope.boundaries[k + 1] >= Scale * q})

\* The pieces that hold at 0 .. count - 1.
Pieces(envelope, count) ==
  LET piece[q \in 0 .. count - 1] ==
        PieceAt(envelope, IF q = 0 THEN 0 ELSE piece[q - 1], q)
  IN  piece

ReadPieces(input, count, envelope) ==
  LET pieces == Pieces(envelope, count)
  IN  [q \in 0 .. count - 1 |->
         LET location == envelope.locations[pieces[q]]
         IN  Widen(input[location], (q - location) * (q - location))]

DistanceTransform1D(input, count) ==
  ReadPieces(input, count, LowerEnvelope(input, count))

GridCells == (0 .. GridWidth - 1) \X (0 .. GridHeight - 1)

\* The rows, then the columns.
SquaredDistanceTransform(feature) ==
  LET rows == [y \in 0 .. GridHeight - 1 |->
                 DistanceTransform1D([x \in 0 .. GridWidth - 1 |->
                                        IF <<x, y>> \in feature THEN 0 ELSE Large],
                                     GridWidth)]
      columns == [x \in 0 .. GridWidth - 1 |->
                    DistanceTransform1D([y \in 0 .. GridHeight - 1 |-> rows[y][x]],
                                        GridHeight)]
  IN  [cell \in GridCells |-> columns[cell[1]][cell[2]]]

\* The cells the points and what is near them fall into, about the center.
Occupied(points, center) ==
  LET Nearest(p) == <<p[1] - center + GridWidth \div 2, p[2] + GridHeight \div 2>>
  IN  {cell \in GridCells :
         \E p \in points : Squared(cell, Nearest(p)) <= InflationSquared}

\* Faulty variant: the distance to an obstacle, inside one too.
DistanceToObstacle(cell, occupied, to_obstacle, to_free) == to_obstacle[cell]

SignedDistance(cell, occupied, to_obstacle, to_free) ==
  IF cell \in occupied THEN -Min({to_free[cell], MaximumSquared})
                       ELSE Min({to_obstacle[cell], MaximumSquared})

SignedField(occupied, to_obstacle, to_free) ==
  [cell \in GridCells |->
     IF occupied = {} THEN MaximumSquared
     ELSE SignedDistance(cell, occupied, to_obstacle, to_free)]

BuildField(occupied) ==
  SignedField(occupied, SquaredDistanceTransform(occupied),
              SquaredDistanceTransform(GridCells \ occupied))

Build(points, center) == BuildField(Occupied(points, center))

=============================================================================
