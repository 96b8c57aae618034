---------------------------- MODULE FrictionProofs --------------------------
(***************************************************************************)
(* Proofs about Friction for every number of pose times, resets and        *)
(* hand-overs.  One inductive invariant, HandOverInv, orders the           *)
(* generations of the vehicle parameters: those of the solver and of a     *)
(* solve under way never exceed those handed over, and equal generations   *)
(* mean the same coefficient.  Another, GripInv, ties the entries of the   *)
(* window of peaks to the epoch of the grip thread, to the observation the *)
(* monitor started with, and to the time that the condition has disagreed  *)
(* with the latch.                                                         *)
(***************************************************************************)
EXTENDS Friction, WellFoundedInduction, TLAPS

\* What the hand-over computes with; the rest of the state does not matter to it.
HandOverTypes ==
  /\ estimate \in Int \cup {None}
  /\ applied_vehicle \in Int \cup {None}
  /\ solver_vehicle \in Int
  /\ {applied_vehicle_generation, solver_vehicle_generation, offered} \subseteq Nat

HandOverInv ==
  /\ HandOverTypes
  /\ applied_vehicle = None <=> applied_vehicle_generation = 0
  /\ solver_vehicle_generation <= applied_vehicle_generation
  /\ offered <= applied_vehicle_generation
  /\ PlanUsesFrictionOnOffer

-----------------------------------------------------------------------------

USE DEF nodeVars, solutionVars, appliedVars, solverVars, gripVars, muVars, vars

\* Nothing has been handed over at first.
LEMMA InvInit == Init => HandOverInv
  BY MuAssumption DEF Init, HandOverInv, HandOverTypes, PlanUsesFrictionOnOffer

\* A clamped coefficient is one the solver can plan with.
LEMMA ClampedIsNumber == ASSUME NEW mu \in Int PROVE Clamped(mu) \in Int
  BY MuAssumption DEF Clamped

\* Taking the vehicle over leaves the solver with the newest generation.
LEMMA TakenIsNewest ==
  ASSUME HandOverInv, TakesVehicle
  PROVE  /\ solver_vehicle' \in Int
         /\ solver_vehicle_generation' = applied_vehicle_generation
         /\ applied_vehicle # None => solver_vehicle' = applied_vehicle
  BY DEF HandOverInv, HandOverTypes, PlanUsesFrictionOnOffer, TakesVehicle

\* The estimator's result is a coefficient or nothing.
LEMMA EstimateIsNumber ==
  ASSUME HandOverTypes, Estimates PROVE estimate' \in Int \cup {None}
<1>1. CASE UNCHANGED estimate \/ estimate' = None
  BY <1>1 DEF HandOverTypes
<1>2. CASE \E fitted \in Mus :
             estimate' \in IF estimate = None THEN {fitted} ELSE Between(estimate, fitted)
  <2>1. PICK fitted \in Mus :
             estimate' \in IF estimate = None THEN {fitted} ELSE Between(estimate, fitted)
    BY <1>2
  <2>2. estimate' \in Mus
    BY <2>1 DEF Between
  <2> QED
    BY <2>2, MuAssumption
<1> QED
  BY <1>1, <1>2 DEF Estimates

\* Every step keeps the order of the generations.
LEMMA InvStep == HandOverInv /\ [Next]_vars => HandOverInv'
<1> SUFFICES ASSUME HandOverInv, [Next]_vars PROVE HandOverInv'
  OBVIOUS
<1> USE DEF HandOverInv, HandOverTypes, PlanUsesFrictionOnOffer
<1>1. CASE OnObservation
  BY <1>1 DEF OnObservation
<1>2. CASE Reset
  BY <1>2 DEF Reset
<1>3. CASE ResetSolutions
  BY <1>3 DEF ResetSolutions
<1>4. CASE TakeObservation
  BY <1>4 DEF TakeObservation
<1>5. CASE Solve
  <2>1. /\ solver_vehicle' \in Int
        /\ solver_vehicle_generation' = applied_vehicle_generation
        /\ applied_vehicle # None => solver_vehicle' = applied_vehicle
    BY <1>5, TakenIsNewest DEF Solve
  <2>2. latest_solution' # None =>
          latest_solution'.generation >= latest_solution'.offered
    BY <1>5, <2>1 DEF Solve
  <2> QED
    BY <1>5, <2>1, <2>2 DEF Solve
<1>6. CASE SolveFails
  BY <1>6, TakenIsNewest DEF SolveFails
<1>7. CASE BeginPublication
  BY <1>7 DEF BeginPublication
<1>8. CASE EndPublication
  BY <1>8 DEF EndPublication
<1>9. CASE GripReadsObservation
  BY <1>9 DEF GripReadsObservation
<1>10. CASE GripReadsSolution
  BY <1>10 DEF GripReadsSolution
<1>11. CASE GripUpdatesMonitor
  BY <1>11 DEF GripUpdatesMonitor
<1>12. CASE MuReadsObservation
  BY <1>12 DEF MuReadsObservation
<1>13. CASE MuUpdates
  <2>1. estimate' \in Int \cup {None}
    BY <1>13, EstimateIsNumber DEF MuUpdates
  <2>2. CASE UNCHANGED appliedVars
    BY <1>13, <2>1, <2>2 DEF MuUpdates
  <2>3. CASE estimate' # None /\ HandsOver(Clamped(estimate'))
    <3>1. applied_vehicle' \in Int /\ applied_vehicle' # None
      BY <2>1, <2>3, ClampedIsNumber, NoneAssumption DEF HandsOver
    <3> QED
      BY <1>13, <2>1, <2>3, <3>1 DEF MuUpdates, HandsOver
  <2> QED
    BY <1>13, <2>2, <2>3 DEF MuUpdates
<1>14. CASE UNCHANGED vars
  BY <1>14
<1> QED
  BY <1>1, <1>2, <1>3, <1>4, <1>5, <1>6, <1>7, <1>8, <1>9, <1>10, <1>11, <1>12,
     <1>13, <1>14
  DEF Next

\* No friction coefficient handed over is lost on its way into a plan.
THEOREM FrictionCorrect == Spec => []PlanUsesFrictionOnOffer
<1>1. HandOverInv => PlanUsesFrictionOnOffer
  BY DEF HandOverInv
<1> QED
  BY <1>1, InvInit, InvStep, PTL DEF Spec

-----------------------------------------------------------------------------
(* The window of peaks.                                                    *)

Observations == [pose_time : Nat, epoch : Nat, finite : BOOLEAN]
Filtered == Observations \cup {None}
Entries == [time : Nat, epoch : Nat, measured : Filtered, condition : BOOLEAN]
Monitors == [initialized : BOOLEAN, started : Filtered, last_time : Nat,
             measured : Filtered, latched : BOOLEAN, condition_time : Nat,
             peak_window : Seq(Entries)]

\* A set of numbers has a least one.
LEMMA LeastNumber ==
  ASSUME NEW T, T \subseteq Nat, T # {}
  PROVE  \E x \in T : \A y \in T : x <= y
<1> DEFINE R == OpToRel(<, Nat)
<1>1. IsWellFoundedOn(R, Nat)
  BY NatLessThanWellFounded
<1>2. \A x \in Nat, y \in Nat : <<y, x>> \in R <=> y < x
  BY DEF OpToRel
<1> HIDE DEF R
<1>3. PICK x \in T : \A y \in T : ~ (<<y, x>> \in R)
  BY <1>1, WFMin
<1>4. \A y \in T : ~ (y < x)
  BY <1>2, <1>3
<1> QED
  BY <1>4

\* Dropping old entries leaves a tail of the window, as long as the newest is recent.
LEMMA WindowIsTail ==
  ASSUME NEW window \in Seq(Entries), NEW time \in Int,
         window # <<>>, time - window[Len(window)].time <= PeakWindow
  PROVE  \E first \in 1 .. Len(window) :
           WithinPeakWindow(window, time) = SubSeq(window, first, Len(window))
<1> DEFINE recent == {i \in DOMAIN window : time - window[i].time <= PeakWindow}
           first == CHOOSE i \in recent : \A j \in recent : i <= j
<1>1. Len(window) \in DOMAIN window
  OBVIOUS
<1>2. recent \subseteq Nat /\ recent # {}
  BY <1>1
<1>3. \E i \in recent : \A j \in recent : i <= j
  BY <1>2, LeastNumber
<1>4. first \in 1 .. Len(window)
  BY <1>3
<1>5. WithinPeakWindow(window, time) = SubSeq(window, first, Len(window))
  BY DEF WithinPeakWindow
<1> QED
  BY <1>4, <1>5

\* The first measurement since the monitor started over was finite.
StartedFinite(m) == m.initialized /\ m.started.finite

\* A monitor and its entries are of the epoch, and hold nothing older than the
\* measurement it started with, if that was finite.
OfEpoch(m, epoch) ==
  /\ ~m.initialized => m.peak_window = <<>>
  /\ m.initialized => m.started.epoch = epoch
  /\ StartedFinite(m) => m.measured = m.started
  /\ \A i \in 1 .. Len(m.peak_window) :
       /\ m.peak_window[i].epoch = epoch
       /\ StartedFinite(m) => m.peak_window[i].measured = m.started

\* Every entry since the time that the condition began to disagree tells so.
CountsDisagreement(m) ==
  /\ ~m.initialized => m.peak_window = <<>>
  /\ \A i \in 1 .. Len(m.peak_window) :
       /\ m.peak_window[i].time <= m.last_time
       /\ m.peak_window[i].time > m.last_time - m.condition_time =>
            m.peak_window[i].condition # m.latched

\* The entries newer than the latch time agree with the latch.
SteadyFor(m) ==
  \A i \in 1 .. Len(m.peak_window) :
    m.peak_window[i].time > m.last_time - LatchTime => m.peak_window[i].condition = m.latched

\* A reset monitor is one of any epoch, with nothing counted.
LEMMA UnlatchedIsNew ==
  ASSUME NEW filtered \in Filtered, NEW epoch
  PROVE  /\ Unlatched(filtered) \in Monitors
         /\ OfEpoch(Unlatched(filtered), epoch)
         /\ CountsDisagreement(Unlatched(filtered))
  BY DEF Unlatched, Monitors, Filtered, StartedFinite, OfEpoch, CountsDisagreement

\* What an update does to the fields, and to the window: a tail of it with the
\* newest entry.
LEMMA UpdateUnfolds ==
  ASSUME NEW before \in Monitors, NEW observed \in Observations, NEW condition \in BOOLEAN,
         before.initialized => before.last_time <= observed.pose_time
  PROVE  LET after == MonitorUpdate(before, observed, condition)
             entry == [time |-> observed.pose_time, epoch |-> observed.epoch,
                       measured |-> after.measured, condition |-> condition]
             window == Append(before.peak_window, entry)
         IN  /\ after \in Monitors
             /\ after.initialized
             /\ after.last_time = observed.pose_time
             /\ entry \in Entries
             /\ \E first \in 1 .. Len(window) :
                  after.peak_window = SubSeq(window, first, Len(window))
<1> DEFINE time == observed.pose_time
           measured == Filter(before, observed)
           started == IF before.initialized THEN before.started ELSE observed
           step == IF before.initialized THEN time - before.last_time ELSE 0
           held == ConditionTime(before, condition, step)
           entry == [time |-> time, epoch |-> observed.epoch, measured |-> measured,
                     condition |-> condition]
           window == Append(before.peak_window, entry)
           after == MonitorUpdate(before, observed, condition)
<1>1. time \in Nat /\ measured \in Filtered /\ started \in Filtered /\ step \in Nat
  BY DEF Observations, Monitors, Filtered, Filter
<1>2. held \in Nat
  BY <1>1 DEF ConditionTime, Monitors
<1>3. entry \in Entries
  BY <1>1 DEF Entries, Observations
<1>4. before.peak_window \in Seq(Entries)
  BY DEF Monitors
<1>5. window \in Seq(Entries) /\ window # <<>> /\ window[Len(window)] = entry
  BY <1>3, <1>4
<1>6. time - window[Len(window)].time <= PeakWindow
  BY <1>1, <1>5, TimesAssumption
<1> DEFINE kept == WithinPeakWindow(window, time)
<1>7. after = [initialized |-> TRUE, started |-> started, last_time |-> time,
               measured |-> measured,
               latched |-> IF held >= LatchTime THEN condition ELSE before.latched,
               condition_time |-> IF held >= LatchTime THEN 0 ELSE held,
               peak_window |-> kept]
  BY DEF MonitorUpdate
<1> HIDE DEF window, time, held, measured, started, step, entry, after
<1>8. PICK first \in 1 .. Len(window) : kept = SubSeq(window, first, Len(window))
  BY <1>1, <1>5, <1>6, WindowIsTail
<1>9. kept \in Seq(Entries)
  BY <1>5, <1>8
<1> HIDE DEF kept
<1>10. after \in Monitors
  BY <1>1, <1>2, <1>7, <1>9 DEF Monitors
<1>11. /\ after.initialized /\ after.last_time = time /\ after.measured = measured
       /\ after.peak_window = kept
  BY <1>7
<1> QED
  BY <1>3, <1>8, <1>10, <1>11 DEF entry, window, measured, time, after

\* An update for an observation of the epoch keeps the window of the epoch.
LEMMA UpdateKeepsEpoch ==
  ASSUME NEW before \in Monitors, NEW observed \in Observations, NEW condition \in BOOLEAN,
         before.initialized => before.last_time <= observed.pose_time,
         OfEpoch(before, observed.epoch)
  PROVE  OfEpoch(MonitorUpdate(before, observed, condition), observed.epoch)
<1> DEFINE after == MonitorUpdate(before, observed, condition)
           epoch == observed.epoch
           entry == [time |-> observed.pose_time, epoch |-> epoch,
                     measured |-> after.measured, condition |-> condition]
           window == Append(before.peak_window, entry)
<1>0. /\ after.started = IF before.initialized THEN before.started ELSE observed
      /\ after.measured = Filter(before, observed)
  BY DEF MonitorUpdate
<1>1. /\ after.initialized
      /\ entry \in Entries
      /\ \E first \in 1 .. Len(window) :
           after.peak_window = SubSeq(window, first, Len(window))
  BY UpdateUnfolds
<1>2. before.peak_window \in Seq(Entries) /\ before.initialized \in BOOLEAN
  BY DEF Monitors
<1>3. entry.epoch = epoch /\ entry.measured = after.measured
  OBVIOUS
<1> HIDE DEF after, epoch, entry
<1>4. /\ ~before.initialized => before.peak_window = <<>>
      /\ before.initialized => before.started.epoch = epoch
      /\ StartedFinite(before) => before.measured = before.started
      /\ \A i \in 1 .. Len(before.peak_window) :
           /\ before.peak_window[i].epoch = epoch
           /\ StartedFinite(before) => before.peak_window[i].measured = before.started
  BY DEF OfEpoch, epoch
<1>5. after.started.epoch = epoch
  BY <1>0, <1>2, <1>4 DEF epoch
\* The first measurement replaces the filter; later ones leave it as old as it was.
<1>6. /\ StartedFinite(after) => after.measured = after.started
      /\ before.initialized /\ StartedFinite(after) =>
           StartedFinite(before) /\ after.started = before.started
  <2>1. CASE before.initialized
    BY <1>0, <1>1, <1>4, <2>1 DEF StartedFinite, Filter
  <2>2. CASE ~before.initialized
    BY <1>0, <2>2 DEF StartedFinite, Filter
  <2> QED
    BY <1>2, <2>1, <2>2
<1>7. window \in Seq(Entries) /\ Len(window) = Len(before.peak_window) + 1
  BY <1>1, <1>2
<1>8. \A i \in 1 .. Len(window) :
        window[i] = IF i = Len(window) THEN entry ELSE before.peak_window[i]
  BY <1>1, <1>2
<1> HIDE DEF window
<1>9. \A i \in 1 .. Len(window) :
        /\ window[i].epoch = epoch
        /\ StartedFinite(after) => window[i].measured = after.started
  <2> SUFFICES ASSUME NEW i \in 1 .. Len(window)
               PROVE  /\ window[i].epoch = epoch
                      /\ StartedFinite(after) => window[i].measured = after.started
    OBVIOUS
  <2>1. CASE i = Len(window)
    BY <2>1, <1>3, <1>6, <1>8
  <2>2. CASE i # Len(window)
    <3>1. i \in 1 .. Len(before.peak_window) /\ window[i] = before.peak_window[i]
      BY <2>2, <1>2, <1>7, <1>8
    <3>2. before.initialized
      BY <3>1, <1>2, <1>4
    <3> QED
      BY <3>1, <3>2, <1>4, <1>6
  <2> QED
    BY <2>1, <2>2
<1>10. PICK first \in 1 .. Len(window) :
         after.peak_window = SubSeq(window, first, Len(window))
  BY <1>1
<1>11. \A i \in 1 .. Len(after.peak_window) :
         /\ i + first - 1 \in 1 .. Len(window)
         /\ after.peak_window[i] = window[i + first - 1]
  BY <1>7, <1>10
<1>12. \A i \in 1 .. Len(after.peak_window) :
         /\ after.peak_window[i].epoch = epoch
         /\ StartedFinite(after) => after.peak_window[i].measured = after.started
  BY <1>9, <1>11
<1> QED
  BY <1>1, <1>5, <1>6, <1>12 DEF OfEpoch, after, epoch

\* It goes on counting, and turns the latch only when the condition was steady.
LEMMA UpdateCounts ==
  ASSUME NEW before \in Monitors, NEW observed \in Observations, NEW condition \in BOOLEAN,
         before.initialized => before.last_time <= observed.pose_time,
         CountsDisagreement(before)
  PROVE  LET after == MonitorUpdate(before, observed, condition)
         IN  /\ CountsDisagreement(after)
             /\ after.latched # before.latched => SteadyFor(after)
<1> DEFINE after == MonitorUpdate(before, observed, condition)
           time == observed.pose_time
           step == IF before.initialized THEN time - before.last_time ELSE 0
           held == ConditionTime(before, condition, step)
           entry == [time |-> time, epoch |-> observed.epoch,
                     measured |-> after.measured, condition |-> condition]
           window == Append(before.peak_window, entry)
           count == Len(before.peak_window)
<1>1. /\ after.initialized /\ after.last_time = time
      /\ entry \in Entries
      /\ \E first \in 1 .. Len(window) :
           after.peak_window = SubSeq(window, first, Len(window))
  BY UpdateUnfolds
<1>2. /\ after.latched = IF held >= LatchTime THEN condition ELSE before.latched
      /\ after.condition_time = IF held >= LatchTime THEN 0 ELSE held
  BY DEF MonitorUpdate
<1>3. /\ before.peak_window \in Seq(Entries) /\ before.condition_time \in Nat
      /\ before.last_time \in Nat /\ before.latched \in BOOLEAN /\ before.initialized \in BOOLEAN
      /\ time \in Nat /\ (before.initialized => before.last_time <= time)
  BY DEF Monitors, Observations
<1>4. entry.time = time /\ entry.condition = condition
  OBVIOUS
<1>5. /\ ~before.initialized => count = 0
      /\ \A i \in 1 .. count :
           /\ before.peak_window[i].time \in Nat
           /\ before.peak_window[i].condition \in BOOLEAN
           /\ before.peak_window[i].time <= before.last_time
           /\ before.peak_window[i].time > before.last_time - before.condition_time =>
                before.peak_window[i].condition # before.latched
  <2>1. ASSUME NEW i \in 1 .. count
        PROVE  before.peak_window[i].time \in Nat /\ before.peak_window[i].condition \in BOOLEAN
    <3>1. before.peak_window[i] \in Entries
      BY <1>3
    <3> QED
      BY <3>1 DEF Entries
  <2>2. ~before.initialized => count = 0
    BY DEF CountsDisagreement
  <2> QED
    BY <2>1, <2>2 DEF CountsDisagreement
<1>6. window \in Seq(Entries) /\ Len(window) = count + 1
  BY <1>1, <1>3
<1>7. \A i \in 1 .. Len(window) :
        window[i] = IF i = Len(window) THEN entry ELSE before.peak_window[i]
  BY <1>1, <1>3
<1>8. count \in Nat
  BY <1>3
<1>9. /\ step \in Nat
      /\ before.initialized => step = time - before.last_time
      /\ held = IF condition # before.latched THEN before.condition_time + step ELSE 0
  BY <1>3 DEF ConditionTime
<1> HIDE DEF after, time, entry, window, count, step, held
\* What the condition was since it began to disagree.
<1>10. \A i \in 1 .. Len(window) :
         /\ window[i].time <= time
         /\ window[i].time > time - held => window[i].condition # before.latched
  <2> SUFFICES ASSUME NEW i \in 1 .. Len(window)
               PROVE  /\ window[i].time <= time
                      /\ window[i].time > time - held => window[i].condition # before.latched
    OBVIOUS
  <2>1. CASE i = Len(window)
    <3>1. window[i].time = time /\ window[i].condition = condition
      BY <2>1, <1>4, <1>7
    <3>2. CASE condition # before.latched
      BY <3>1, <3>2, <1>3
    <3>3. CASE condition = before.latched
      <4>1. held = 0
        BY <3>3, <1>9
      <4> QED
        BY <3>1, <4>1, <1>3
    <3> QED
      BY <3>2, <3>3
  <2>2. CASE i # Len(window)
    <3>1. i \in 1 .. count /\ window[i] = before.peak_window[i]
      BY <2>2, <1>6, <1>7, <1>8
    <3>2. before.initialized /\ step = time - before.last_time
      BY <3>1, <1>5, <1>8, <1>9
    <3>3. /\ window[i].time \in Nat /\ window[i].time <= before.last_time
          /\ window[i].time > before.last_time - before.condition_time =>
               window[i].condition # before.latched
      BY <3>1, <1>5
    <3>4. window[i].time <= time
      BY <3>2, <3>3, <1>3
    <3>5. CASE condition = before.latched
      <4>1. held = 0
        BY <3>5, <1>9
      <4> QED
        BY <3>3, <3>4, <4>1, <1>3
    <3>6. CASE condition # before.latched
      <4>1. time - held = before.last_time - before.condition_time
        BY <3>2, <3>6, <1>3, <1>9
      <4> QED
        BY <3>3, <3>4, <4>1
    <3> QED
      BY <3>5, <3>6
  <2> QED
    BY <2>1, <2>2
<1>11. PICK first \in 1 .. Len(window) :
         after.peak_window = SubSeq(window, first, Len(window))
  BY <1>1
<1>12. \A i \in 1 .. Len(after.peak_window) :
         /\ i + first - 1 \in 1 .. Len(window)
         /\ after.peak_window[i] = window[i + first - 1]
  BY <1>6, <1>11
<1>13. \A i \in 1 .. Len(window) : window[i].time \in Nat /\ window[i].condition \in BOOLEAN
  <2>1. \A i \in 1 .. Len(window) : window[i] \in Entries
    BY <1>6
  <2> QED
    BY <2>1 DEF Entries
<1>14. \A i \in 1 .. Len(after.peak_window) :
         /\ after.peak_window[i].time \in Nat /\ after.peak_window[i].condition \in BOOLEAN
         /\ after.peak_window[i].time <= time
         /\ after.peak_window[i].time > time - held =>
              after.peak_window[i].condition # before.latched
  BY <1>10, <1>12, <1>13
<1>15. held \in Nat /\ LatchTime \in Nat
  BY <1>3, <1>9, TimesAssumption
<1>16. CountsDisagreement(after)
  <2> SUFFICES ASSUME NEW i \in 1 .. Len(after.peak_window),
                      after.peak_window[i].time > time - after.condition_time
               PROVE  after.peak_window[i].condition # after.latched
    BY <1>1, <1>14 DEF CountsDisagreement
  <2>1. after.condition_time # 0
    BY <1>3, <1>14
  <2>2. ~(held >= LatchTime)
    BY <2>1, <1>2
  <2>3. after.condition_time = held /\ after.latched = before.latched
    BY <2>2, <1>2
  <2> QED
    BY <2>3, <1>14
<1>17. ASSUME after.latched # before.latched PROVE SteadyFor(after)
  <2> SUFFICES ASSUME NEW i \in 1 .. Len(after.peak_window),
                      after.peak_window[i].time > time - LatchTime
               PROVE  after.peak_window[i].condition = after.latched
    BY <1>1 DEF SteadyFor
  <2>1. held >= LatchTime
    BY <1>2, <1>17
  <2>2. after.latched = condition /\ condition # before.latched
    BY <2>1, <1>2, <1>17
  <2>3. after.peak_window[i].time > time - held
    BY <2>1, <1>3, <1>14, <1>15
  <2>4. after.peak_window[i].condition # before.latched
    BY <2>3, <1>14
  <2> QED
    BY <2>2, <2>4, <1>3, <1>14
<1> QED
  BY <1>16, <1>17 DEF after

-----------------------------------------------------------------------------
(* The grip thread.                                                        *)

\* What the grip thread computes with.
GripTypes ==
  /\ {reset_epoch, previous_pose_time, grip_epoch, grip_reset_epoch} \subseteq Nat
  /\ latest_observation \in Observations \cup {None}
  /\ grip_observation \in Observations \cup {None}
  /\ monitor \in Monitors

\* An observation is of the epoch it is read with, and the monitor is in that epoch
\* when it is updated.
ObservationOfEpoch ==
  /\ latest_observation # None => latest_observation.epoch = reset_epoch
  /\ grip_observation # None => grip_observation.epoch = grip_epoch
  /\ grip_pc = "update" => grip_observation # None /\ grip_epoch = grip_reset_epoch

GripInv ==
  /\ GripTypes
  /\ ObservationOfEpoch
  /\ OfEpoch(monitor, grip_reset_epoch)
  /\ CountsDisagreement(monitor)

\* A change of the latch is a reset or follows a steady condition.
LatchStep ==
  monitor'.latched # monitor.latched =>
    \/ ~monitor'.latched /\ (~monitor'.initialized \/ Restarts(monitor'.last_time))
    \/ SteadyFor(monitor')

\* The monitor starts without an entry, in the first epoch.
LEMMA GripInit == Init => GripInv
<1> SUFFICES ASSUME Init PROVE GripInv
  OBVIOUS
<1>1. None \in Filtered
  BY DEF Filtered
<1>2. monitor \in Monitors /\ OfEpoch(monitor, grip_reset_epoch) /\ CountsDisagreement(monitor)
  BY <1>1, UnlatchedIsNew DEF Init
<1>3. ObservationOfEpoch
  BY DEF Init, ObservationOfEpoch
<1> QED
  BY <1>2, <1>3 DEF Init, GripInv, GripTypes

\* Only the grip thread changes the monitor.
LEMMA GripUnchanged ==
  ASSUME GripInv, UNCHANGED gripVars, latest_observation' = latest_observation,
         reset_epoch' = reset_epoch, previous_pose_time' = previous_pose_time
  PROVE  GripInv' /\ LatchStep
  BY DEF GripInv, GripTypes, ObservationOfEpoch, OfEpoch, StartedFinite,
         CountsDisagreement, LatchStep

\* An observation and a reset replace the newest observation and leave the one read alone.
LEMMA GripNode ==
  ASSUME GripInv, OnObservation \/ Reset PROVE GripInv' /\ LatchStep
<1>1. UNCHANGED gripVars
  BY DEF OnObservation, Reset
<1>2. /\ latest_observation' \in Observations \cup {None}
      /\ reset_epoch' \in Nat /\ previous_pose_time' \in Nat
      /\ latest_observation' # None => latest_observation'.epoch = reset_epoch'
  <2>1. CASE OnObservation
    <3>1. PICK time \in previous_pose_time + 1 .. MaxTime, finite \in BOOLEAN :
            /\ latest_observation' =
                 [pose_time |-> time, epoch |-> reset_epoch, finite |-> finite]
            /\ previous_pose_time' = time
      BY <2>1 DEF OnObservation
    <3>2. time \in Nat /\ reset_epoch \in Nat
      BY <3>1, TimesAssumption DEF GripInv, GripTypes
    <3> QED
      BY <2>1, <3>1, <3>2 DEF OnObservation, Observations
  <2>2. CASE Reset
    BY <2>2 DEF Reset, GripInv, GripTypes
  <2> QED
    BY <2>1, <2>2
<1>3. GripTypes' /\ ObservationOfEpoch'
  BY <1>1, <1>2 DEF GripInv, GripTypes, ObservationOfEpoch
<1> QED
  BY <1>1, <1>3 DEF GripInv, OfEpoch, StartedFinite, CountsDisagreement, LatchStep

\* The observation and the epoch are read together.
LEMMA GripReads ==
  ASSUME GripInv, GripReadsObservation PROVE GripInv' /\ LatchStep
<1>1. UNCHANGED <<latest_observation, reset_epoch, previous_pose_time, monitor, grip_reset_epoch>>
  BY DEF GripReadsObservation
<1>2. GripTypes' /\ ObservationOfEpoch'
  BY <1>1 DEF GripInv, GripTypes, ObservationOfEpoch, GripReadsObservation
<1> QED
  BY <1>1, <1>2 DEF GripInv, OfEpoch, StartedFinite, CountsDisagreement, LatchStep

\* The monitor is brought to the epoch of the observation before it is updated.
LEMMA GripResetsMonitor ==
  ASSUME GripInv, GripReadsSolution PROVE GripInv' /\ LatchStep
<1>1. UNCHANGED <<latest_observation, reset_epoch, previous_pose_time, grip_observation,
                 grip_epoch>>
  BY DEF GripReadsSolution
<1>2. grip_reset_epoch' = grip_epoch
  BY DEF GripReadsSolution, GripResets
<1>3. grip_pc' = "update" => grip_observation # None
  BY DEF GripReadsSolution
<1>4. /\ monitor' \in Monitors /\ OfEpoch(monitor', grip_reset_epoch')
      /\ CountsDisagreement(monitor')
      /\ monitor' = monitor \/ (~monitor'.latched /\ ~monitor'.initialized)
  <2>1. CASE grip_epoch # grip_reset_epoch
    <3>1. monitor' = Unlatched(monitor.measured)
      BY <2>1 DEF GripReadsSolution, GripResets
    <3>2. monitor.measured \in Filtered
      BY DEF GripInv, GripTypes, Monitors
    <3>3. ~Unlatched(monitor.measured).latched /\ ~Unlatched(monitor.measured).initialized
      BY DEF Unlatched
    <3> QED
      BY <3>1, <3>2, <3>3, UnlatchedIsNew
  <2>2. CASE grip_epoch = grip_reset_epoch
    <3>1. monitor' = monitor /\ grip_reset_epoch' = grip_reset_epoch
      BY <2>2 DEF GripReadsSolution, GripResets
    <3> QED
      BY <3>1 DEF GripInv, GripTypes
  <2> QED
    BY <2>1, <2>2
<1>5. GripTypes' /\ ObservationOfEpoch'
  BY <1>1, <1>2, <1>3, <1>4 DEF GripInv, GripTypes, ObservationOfEpoch
<1>6. OfEpoch(monitor, grip_reset_epoch)' /\ CountsDisagreement(monitor)'
  BY <1>4 DEF OfEpoch, StartedFinite, CountsDisagreement
<1> QED
  BY <1>4, <1>5, <1>6 DEF GripInv, LatchStep

\* An update is for an observation of the monitor's epoch, later than the last one
\* unless the filters start over.
LEMMA GripUpdates ==
  ASSUME GripInv, GripUpdatesMonitor PROVE GripInv' /\ LatchStep
<1> DEFINE time == grip_observation.pose_time
           before == IF Restarts(time) THEN Unlatched(monitor.measured) ELSE monitor
<1>1. PICK condition \in BOOLEAN : monitor' = MonitorUpdate(before, grip_observation, condition)
  BY DEF GripUpdatesMonitor
<1>2. /\ UNCHANGED <<latest_observation, reset_epoch, previous_pose_time, grip_observation,
                     grip_epoch, grip_reset_epoch>>
      /\ grip_pc' = "wait"
  BY DEF GripUpdatesMonitor
<1>3. /\ grip_observation \in Observations /\ grip_observation.epoch = grip_reset_epoch
      /\ monitor \in Monitors
  BY DEF GripUpdatesMonitor, GripInv, GripTypes, ObservationOfEpoch
<1>4. monitor.measured \in Filtered /\ monitor.last_time \in Nat /\ time \in Nat
  BY <1>3 DEF Monitors, Observations
<1>5. /\ before \in Monitors /\ OfEpoch(before, grip_reset_epoch) /\ CountsDisagreement(before)
      /\ before.initialized => before.last_time <= time
      /\ before = monitor \/ (Restarts(time) /\ ~before.latched)
  <2>1. CASE Restarts(time)
    <3>1. before = Unlatched(monitor.measured)
      BY <2>1
    <3>2. ~Unlatched(monitor.measured).latched /\ ~Unlatched(monitor.measured).initialized
      BY DEF Unlatched
    <3> QED
      BY <1>4, <2>1, <3>1, <3>2, UnlatchedIsNew
  <2>2. CASE ~Restarts(time)
    BY <1>3, <1>4, <2>2 DEF Restarts, GripInv
  <2> QED
    BY <2>1, <2>2
<1>6. monitor'.last_time = time
  BY <1>1 DEF MonitorUpdate
<1> HIDE DEF before, time
<1>7. monitor' \in Monitors
  BY <1>1, <1>3, <1>5, UpdateUnfolds DEF time
<1>8. OfEpoch(monitor', grip_reset_epoch)
  BY <1>1, <1>3, <1>5, UpdateKeepsEpoch DEF time
<1>9. /\ CountsDisagreement(monitor')
      /\ monitor'.latched # before.latched => SteadyFor(monitor')
  BY <1>1, <1>3, <1>5, UpdateCounts DEF time
<1>10. GripTypes' /\ ObservationOfEpoch'
  BY <1>2, <1>7 DEF GripInv, GripTypes, ObservationOfEpoch
<1>11. OfEpoch(monitor, grip_reset_epoch)' /\ CountsDisagreement(monitor)'
  BY <1>2, <1>8, <1>9 DEF OfEpoch, StartedFinite, CountsDisagreement
<1>12. LatchStep
  <2>1. CASE before = monitor
    BY <2>1, <1>9 DEF LatchStep
  <2>2. CASE Restarts(time) /\ ~before.latched
    <3>1. CASE ~monitor'.latched
      BY <2>2, <3>1, <1>6 DEF LatchStep
    <3>2. CASE monitor'.latched
      BY <2>2, <3>2, <1>9 DEF LatchStep
    <3> QED
      BY <3>1, <3>2
  <2> QED
    BY <2>1, <2>2, <1>5
<1> QED
  BY <1>10, <1>11, <1>12 DEF GripInv

\* Every step keeps the invariant and turns the latch only as it may.
LEMMA GripStep == GripInv /\ [Next]_vars => GripInv' /\ LatchStep
<1> SUFFICES ASSUME GripInv, [Next]_vars PROVE GripInv' /\ LatchStep
  OBVIOUS
<1>1. CASE OnObservation \/ Reset
  BY <1>1, GripNode
<1>2. CASE GripReadsObservation
  BY <1>2, GripReads
<1>3. CASE GripReadsSolution
  BY <1>3, GripResetsMonitor
<1>4. CASE GripUpdatesMonitor
  BY <1>4, GripUpdates
<1>5. CASE ResetSolutions
  BY <1>5, GripUnchanged DEF ResetSolutions
<1>6. CASE TakeObservation
  BY <1>6, GripUnchanged DEF TakeObservation
<1>7. CASE Solve
  BY <1>7, GripUnchanged DEF Solve
<1>8. CASE SolveFails
  BY <1>8, GripUnchanged DEF SolveFails
<1>9. CASE BeginPublication
  BY <1>9, GripUnchanged DEF BeginPublication
<1>10. CASE EndPublication
  BY <1>10, GripUnchanged DEF EndPublication
<1>11. CASE MuReadsObservation
  BY <1>11, GripUnchanged DEF MuReadsObservation
<1>12. CASE MuUpdates
  BY <1>12, GripUnchanged DEF MuUpdates
<1>13. CASE UNCHANGED vars
  BY <1>13, GripUnchanged
<1> QED
  BY <1>1, <1>2, <1>3, <1>4, <1>5, <1>6, <1>7, <1>8, <1>9, <1>10, <1>11, <1>12, <1>13 DEF Next

\* The window of peaks is of one epoch, and mixes in nothing older than the first
\* measurement since the monitor started over, if that was finite.
THEOREM PeaksCorrect == Spec => []PeaksOfOneEpoch
<1>1. GripInv => PeaksOfOneEpoch
  <2> SUFFICES ASSUME GripInv PROVE PeaksOfOneEpoch
    OBVIOUS
  <2>1. DOMAIN monitor.peak_window = 1 .. Len(monitor.peak_window)
    BY DEF GripInv, GripTypes, Monitors
  <2>2. ASSUME NEW i \in 1 .. Len(monitor.peak_window)
        PROVE  /\ monitor.peak_window[i].epoch = grip_reset_epoch
               /\ monitor.started.finite =>
                    /\ monitor.peak_window[i].measured = monitor.started
                    /\ monitor.started.epoch = grip_reset_epoch
    <3>1. monitor.initialized
      BY DEF GripInv, GripTypes, Monitors, OfEpoch
    <3> QED
      BY <3>1 DEF GripInv, OfEpoch, StartedFinite
  <2> QED
    BY <2>1, <2>2 DEF PeaksOfOneEpoch
<1>2. Init => GripInv
  BY GripInit
<1>3. GripInv /\ [Next]_vars => GripInv'
  BY GripStep
<1> QED
  BY <1>1, <1>2, <1>3, PTL DEF Spec

\* The flag turns only after a condition that held for the latch time, or at a reset.
THEOREM LatchCorrect == Spec => LatchFollowsSteadyCondition
<1> DEFINE Allowed ==
      monitor'.latched # monitor.latched =>
        \/ ~monitor'.latched /\ (~monitor'.initialized \/ Restarts(monitor'.last_time))
        \/ \A i \in DOMAIN monitor'.peak_window :
             LET entry == monitor'.peak_window[i]
             IN  entry.time > monitor'.last_time - LatchTime =>
                   entry.condition = monitor'.latched
<1>1. GripInv /\ [Next]_vars => [Allowed]_monitor
  <2> SUFFICES ASSUME GripInv, [Next]_vars PROVE Allowed
    OBVIOUS
  <2>1. GripInv' /\ LatchStep
    BY GripStep
  <2>2. DOMAIN monitor'.peak_window = 1 .. Len(monitor'.peak_window)
    BY <2>1 DEF GripInv, GripTypes, Monitors
  <2> QED
    BY <2>1, <2>2 DEF LatchStep, SteadyFor
<1>2. Init => GripInv
  BY GripInit
<1>3. GripInv /\ [Next]_vars => GripInv'
  BY GripStep
<1> QED
  BY <1>1, <1>2, <1>3, PTL DEF Spec, LatchFollowsSteadyCondition

=============================================================================
