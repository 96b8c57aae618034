----------------------------- MODULE Perception -----------------------------
(***************************************************************************)
(* The data of the obstacle worker over time: a car that drives along,     *)
(* adds an EKF pose now and then, and scans a few places.  Which mutexes   *)
(* are held, and what a reset interrupts, is in module ObstaclePipeline;   *)
(* here a scan is processed in one step.                                   *)
(***************************************************************************)
EXTENDS ObstacleMap

CONSTANTS
  Places,                     \* where a ray may hit something
  Speeds,                     \* cells in a tick
  RayCount,                   \* rays in a scan, a tick apart
  MaxTime,                    \* bound on the clock
  MaxEpoch                    \* bound on pose_epoch_

ASSUME DriveAssumption ==
  /\ Places \subseteq Int \X Int
  /\ Speeds \subseteq Int
  /\ \E top \in Speeds : \A v \in Speeds : v <= top
  /\ RayCount \in Nat \ {0, 1}
  /\ MaxTime \in Nat
  /\ MaxEpoch \in Nat

VARIABLES
  clock,
  journey,                    \* where the car was at each tick
  speed,                      \* its speed since the newest pose
  samples,                    \* PoseHistory::samples_
  first_pose,                 \* stamp of the first pose since the last reset
  pose_epoch,                 \* pose_epoch_
  temporal_epoch,             \* the epoch of the tracks
  tracks,                     \* TemporalObstacleFilter::tracks_
  recent                      \* the points of the last scans since a clear

driveVars == <<clock, journey, speed>>
poseVars == <<samples, first_pose, pose_epoch>>
trackVars == <<temporal_epoch, tracks, recent>>
vars == <<driveVars, poseVars, trackVars>>

Init ==
  /\ clock = 1
  /\ journey = [t \in 1 .. 1 |-> 0]
  /\ speed = Max(Speeds)
  /\ samples = <<>>
  /\ first_pose = None
  /\ pose_epoch = 0
  /\ temporal_epoch = None
  /\ tracks = <<>>
  /\ recent = <<>>

Drive ==
  /\ clock < MaxTime
  /\ clock' = clock + 1
  /\ journey' = Append(journey, journey[clock] + speed)
  /\ UNCHANGED <<speed, poseVars, trackVars>>

\* StateCallback accepts a pose; from then on the car may go at another speed.
\* Messages may be lost: a tick need not have one.
AddPose ==
  /\ samples # <<>> => Last(samples).stamp < clock
  /\ speed' \in Speeds
  /\ samples' = Add(samples, [stamp |-> clock, east |-> journey[clock], speed |-> speed'])
  /\ first_pose' = IF samples = <<>> THEN clock ELSE first_pose
  /\ UNCHANGED <<clock, journey, pose_epoch, trackVars>>

\* ... with a new reset counter: the history is cleared first.
ResetAndAddPose ==
  /\ pose_epoch < MaxEpoch
  /\ samples # <<>>
  /\ speed' \in Speeds
  /\ samples' = Add(<<>>, [stamp |-> clock, east |-> journey[clock], speed |-> speed'])
  /\ first_pose' = clock
  /\ pose_epoch' = pose_epoch + 1
  /\ UNCHANGED <<clock, journey, trackVars>>

\* A scan of the last ticks: what each ray hit, seen from where the car was.
Scan(first, increment, hit) ==
  [first_ray_stamp |-> first, time_increment |-> increment, scan_time |-> RayCount - 1,
   ranges |-> [i \in 1 .. RayCount |->
                 IF hit[i] = None THEN None
                 ELSE <<hit[i][1] - journey[first + i - 1], hit[i][2]>>]]

FirstRays == {t \in 1 .. clock : t + RayCount - 1 <= clock}
Hits == [1 .. RayCount -> Places \cup {None}]

\* What the worker can get from a scan.  Whether the driver gives the time between
\* two rays or leaves it out makes no difference to it (see StandingPlacesStand).
Deskewed ==
  {DeskewLaserScan(samples, Scan(first, 0, hit)) : first \in FirstRays, hit \in Hits}

Stale == temporal_epoch # pose_epoch

\* Faulty variant: the tracks live on in the next EKF epoch.
NeverCleared == tracks

\* The filter is cleared before the first scan after a reset.
Cleared == IF Stale THEN <<>> ELSE tracks

\* The last scans that can bear on a track.
Remember(points) ==
  LET all == Append(IF Stale THEN <<>> ELSE recent, ToSet(points))
      memory == Max({ConfirmationUpdates, PersistenceUpdates + 1})
  IN  SubSeq(all, Max({1, Len(all) - memory + 1}), Len(all))

\* ObstacleWorker, a scan it does not drop: the field is built of the confirmed
\* tracks, about the pose of its last ray.
ProcessScan ==
  /\ \E points \in Deskewed \ {None} :
       /\ tracks' = Update(Cleared, points)
       /\ recent' = Remember(points)
  /\ temporal_epoch' = pose_epoch
  /\ UNCHANGED <<driveVars, poseVars>>

\* The pose history does not cover the scan.
DropScan ==
  /\ None \in Deskewed
  /\ UNCHANGED vars

Next == Drive \/ AddPose \/ ResetAndAddPose \/ ProcessScan \/ DropScan

Spec == Init /\ [][Next]_vars

\* The points of the newest field.
FieldPoints == ConfirmedPoints(tracks)

-----------------------------------------------------------------------------
(* Properties                                                              *)

Covered(first) ==
  /\ samples # <<>>
  /\ first >= first_pose
  /\ first >= Last(samples).stamp - Retention
  /\ first + RayCount - 1 <= Last(samples).stamp + MaximumExtrapolation

\* Between two poses the car does not change its speed, so that a standing place
\* is put where it stands whichever ray hits it, however the driver gave the
\* times of the rays, and although old poses were dropped.  No scan within the
\* retention of the history is lost.
StandingPlacesStand ==
  \A first \in FirstRays, increment \in {0, 1}, hit \in Hits :
    Covered(first) =>
      DeskewLaserScan(samples, Scan(first, increment, hit))
        = Present(hit)

\* The search of the nine cells comes across every track that a search of all the
\* tracks would, although tracks move while the index stays.
SpatialIndexIsExact ==
  \A hit \in Hits :
    LET observations == Present(hit)
        after == Associations(tracks, observations)
    IN  \A i \in DOMAIN observations :
          Candidates(after[i - 1].tracks, SpatialIndex(tracks), after[i - 1].matched,
                     observations[i])
            = Associable(after[i - 1].tracks, after[i - 1].matched, observations[i])

\* A point of the field was hit by one of the last scans, no more of them than
\* persistence_updates passed since, and none of them of another EKF epoch.
FieldPointsAreRecent ==
  \A p \in FieldPoints :
    \E i \in DOMAIN recent : p \in recent[i] /\ Len(recent) - i <= PersistenceUpdates

\* obstacle_avoidance.md:22-24: a track enters the field only after
\* confirmation_updates consecutive completed scans: when the field was empty, each
\* of those scans has a point as near to the next one's as the association asks.
ConfirmedByConsecutiveScans ==
  [][FieldPoints = {} \/ Stale =>
       \A p \in FieldPoints' :
         /\ Len(recent') >= ConfirmationUpdates
         /\ \A back \in 0 .. ConfirmationUpdates - 1 :
              \E q \in recent'[Len(recent') - back] :
                Squared(p, q) <= back * back * AssociationDistance * AssociationDistance
    ]_trackVars

TrueSquared(cell, occupied) ==
  LET other == IF cell \in occupied THEN GridCells \ occupied ELSE occupied
  IN  Min({Squared(cell, c) : c \in other} \cup {MaximumSquared})

\* The field of a scan that ends now.
Occupancy == Occupied(FieldPoints, journey[clock])
Field == Build(FieldPoints, journey[clock])

\* Inside an obstacle the field is negative, outside it is positive, and nowhere
\* is it nearer to zero than the distance it stands for.
FieldHasRightSide ==
    LET occupied == Occupancy
        distance == Field
    IN  \A cell \in GridCells :
          IF cell \in occupied
            THEN distance[cell] <= -TrueSquared(cell, occupied)
            ELSE distance[cell] >= TrueSquared(cell, occupied)

\* obstacle_avoidance.md:14-15: the field is a signed Euclidean distance field.
FieldIsEuclidean ==
    LET occupied == Occupancy
        distance == Field
    IN  \A cell \in GridCells :
          distance[cell] =
            TrueSquared(cell, occupied) * (IF cell \in occupied THEN -1 ELSE 1)

=============================================================================
