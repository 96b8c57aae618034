---------------------------- MODULE PlannerProofs ---------------------------
(***************************************************************************)
(* Proofs about Planner for every horizon, clock, number of resets and     *)
(* slew limit.  The inductive invariant, IInv, carries the order of the    *)
(* poses through the hands they pass: the one the controller planned, the  *)
(* one being solved and the one in the mailbox, and beside them the pose   *)
(* the nominal sequence was computed from.  A requested reset suspends it. *)
(*                                                                         *)
(* Before it, the lemmas about the operators of SamplingUpdate: what       *)
(* LimitControlRate returns, that the mean of two limited candidates is    *)
(* limited, and what an update and a shift are.                            *)
(***************************************************************************)
EXTENDS Planner, WellFoundedInduction, TLAPS

-----------------------------------------------------------------------------
(* The sampling update.                                                    *)

\* A set of numbers has a least one.
LEMMA LeastNumber ==
  ASSUME NEW T, T \subseteq Nat, T # {}
  PROVE  \E x \in T : \A y \in T : ~ (y < x)
<1> DEFINE R == OpToRel(<, Nat)
<1>1. IsWellFoundedOn(R, Nat)
  BY NatLessThanWellFounded
<1>2. \A x \in Nat, y \in Nat : <<y, x>> \in R <=> y < x
  BY DEF OpToRel
<1> HIDE DEF R
<1>3. PICK x \in T : \A y \in T : ~ (<<y, x>> \in R)
  BY <1>1, WFMin
<1> QED
  BY <1>2, <1>3

\* What a control is limited against.
Prior(f, previous, t) == IF t = 0 THEN previous ELSE f[t - 1]

LimitedAt(f, candidate, previous, t) ==
  f[t] = Clamp(candidate[t], Prior(f, previous, t) - RateStep,
                             Prior(f, previous, t) + RateStep)

\* Limiting step by step comes to an end for every horizon.
LEMMA LimitedExists ==
  ASSUME NEW candidate \in Sequences, NEW previous \in Int, NEW n \in Time
  PROVE  \E f \in [0 .. n -> Int] : \A t \in 0 .. n : LimitedAt(f, candidate, previous, t)
<1> USE SizesAssumption, ControlsAssumption
<1> DEFINE Reaches(m) ==
             \E f \in [0 .. m -> Int] : \A t \in 0 .. m : LimitedAt(f, candidate, previous, t)
           T == {m \in Time : ~ Reaches(m)}
<1>1. Reaches(0)
  <2> DEFINE f == [t \in 0 .. 0 |-> Clamp(candidate[0], previous - RateStep, previous + RateStep)]
  <2>1. f \in [0 .. 0 -> Int]
    <3>1. candidate[0] \in Int
      BY DEF Time, Sequences
    <3>2. Clamp(candidate[0], previous - RateStep, previous + RateStep) \in Int
      BY <3>1 DEF Clamp, Least, Most
    <3> QED
      BY <3>2
  <2>2. \A t \in 0 .. 0 : LimitedAt(f, candidate, previous, t)
    BY DEF LimitedAt, Prior
  <2> HIDE DEF f
  <2> QED
    BY <2>1, <2>2
<1>2. ASSUME NEW m \in Time, m + 1 \in Time, Reaches(m) PROVE Reaches(m + 1)
  <2>1. PICK f \in [0 .. m -> Int] : \A t \in 0 .. m : LimitedAt(f, candidate, previous, t)
    BY <1>2
  <2> DEFINE g == [t \in 0 .. m + 1 |->
                     IF t <= m THEN f[t]
                     ELSE Clamp(candidate[m + 1], f[m] - RateStep, f[m] + RateStep)]
  <2>2. g \in [0 .. m + 1 -> Int]
    <3>1. candidate[m + 1] \in Int /\ f[m] \in Int /\ m \in Nat
      BY <1>2 DEF Time, Sequences
    <3>2. Clamp(candidate[m + 1], f[m] - RateStep, f[m] + RateStep) \in Int
      BY <3>1 DEF Clamp, Least, Most
    <3> QED
      BY <3>1, <3>2
  <2>3. \A t \in 0 .. m : LimitedAt(g, candidate, previous, t)
    BY <2>1 DEF LimitedAt, Prior, Time
  <2>4. LimitedAt(g, candidate, previous, m + 1)
    BY DEF LimitedAt, Prior, Time
  <2> HIDE DEF g
  <2>5. \A t \in 0 .. m + 1 : LimitedAt(g, candidate, previous, t)
    BY <2>3, <2>4 DEF Time
  <2> QED
    BY <2>2, <2>5
<1> HIDE DEF Reaches
<1>3. T = {}
  <2> SUFFICES ASSUME T # {} PROVE FALSE
    OBVIOUS
  <2>1. T \subseteq Nat
    BY DEF Time
  <2>2. PICK x \in T : \A y \in T : ~ (y < x)
    BY <2>1, LeastNumber
  <2>3. x # 0
    BY <1>1
  <2>4. x - 1 \in Time /\ x - 1 \notin T
    BY <2>1, <2>2, <2>3 DEF Time
  <2>5. Reaches(x - 1)
    BY <2>4
  <2> QED
    BY <1>2, <2>4, <2>5 DEF Time
<1>4. Reaches(n)
  BY <1>3
<1> QED
  BY <1>4 DEF Reaches

\* What LimitControlRate returns when there is a limit.
LEMMA LimitControlRateUnfolds ==
  ASSUME NEW candidate \in Sequences, NEW previous \in Int, RateStep > 0
  PROVE  /\ LimitControlRate(candidate, previous) \in Sequences
         /\ \A t \in Time :
              LimitedAt(LimitControlRate(candidate, previous), candidate, previous, t)
<1> USE SizesAssumption, ControlsAssumption
<1> DEFINE Step(f) ==
             [t \in Time |->
                LET prior == IF t = 0 THEN previous ELSE f[t - 1]
                IN  Clamp(candidate[t], prior - RateStep, prior + RateStep)]
           limited == CHOOSE f : f = Step(f)
<1>1. LimitControlRate(candidate, previous) = limited
  BY DEF LimitControlRate
<1>2. PICK f \in Sequences : \A t \in Time : LimitedAt(f, candidate, previous, t)
  <2>1. Horizon - 1 \in Time /\ Time = 0 .. Horizon - 1
    BY DEF Time
  <2> QED
    BY <2>1, LimitedExists DEF Sequences
<1>3. f = Step(f)
  BY <1>2 DEF LimitedAt, Prior, Sequences
<1>4. limited = Step(limited)
  BY <1>3
<1>5. \A t \in Time : LimitedAt(limited, candidate, previous, t)
  BY <1>4 DEF LimitedAt, Prior
<1>6. DOMAIN limited = Time /\ limited = [t \in Time |-> limited[t]]
  BY <1>4
<1> HIDE DEF limited
<1> DEFINE T == {t \in Time : limited[t] \notin Int}
<1>7. T = {}
  <2> SUFFICES ASSUME T # {} PROVE FALSE
    OBVIOUS
  <2>0. T \subseteq Nat
    BY DEF Time
  <2>1. PICK x \in T : \A y \in T : ~ (y < x)
    BY <2>0, LeastNumber
  <2>2. x = 0 \/ limited[x - 1] \in Int
    BY <2>1 DEF Time
  <2>3. Prior(limited, previous, x) \in Int
    BY <2>2 DEF Prior
  <2>4. candidate[x] \in Int
    BY DEF Sequences
  <2> QED
    BY <1>5, <2>3, <2>4 DEF LimitedAt, Clamp, Least, Most
<1> QED
  BY <1>1, <1>5, <1>6, <1>7 DEF Sequences

\* With or without a limit.
LEMMA LimitControlRateType ==
  ASSUME NEW candidate \in Sequences, NEW previous \in Int
  PROVE  LimitControlRate(candidate, previous) \in Sequences
<1>1. CASE RateStep > 0
  BY <1>1, LimitControlRateUnfolds
<1>2. CASE ~ (RateStep > 0)
  BY <1>2 DEF LimitControlRate
<1> QED
  BY <1>1, <1>2

\* What the slew limit promises of a sequence after a command.
Limited(f, previous) ==
  \A t \in Time :
    -RateStep <= f[t] - Prior(f, previous, t) /\ f[t] - Prior(f, previous, t) <= RateStep

\* A limit is a number.
LEMMA PriorType ==
  ASSUME NEW f \in Sequences, NEW previous \in Int, NEW t \in Time
  PROVE  Prior(f, previous, t) \in Int
  BY SizesAssumption DEF Sequences, Time, Prior

\* A limited sequence keeps the limit, its first step included.
LEMMA LimitControlRateLimits ==
  ASSUME NEW candidate \in Sequences, NEW previous \in Int, RateStep > 0
  PROVE  Limited(LimitControlRate(candidate, previous), previous)
<1> DEFINE f == LimitControlRate(candidate, previous)
<1>1. f \in Sequences /\ \A t \in Time : LimitedAt(f, candidate, previous, t)
  BY LimitControlRateUnfolds
<1> HIDE DEF f
<1> SUFFICES ASSUME NEW t \in Time
             PROVE  /\ -RateStep <= f[t] - Prior(f, previous, t)
                    /\ f[t] - Prior(f, previous, t) <= RateStep
  BY DEF Limited, f
<1>2. candidate[t] \in Int /\ Prior(f, previous, t) \in Int
  BY <1>1, PriorType DEF Sequences
<1>3. LimitedAt(f, candidate, previous, t)
  BY <1>1
<1> QED
  BY <1>2, <1>3, ControlsAssumption DEF LimitedAt, Clamp, Least, Most

\* A candidate is a sequence of controls before it is limited.
LEMMA NominalCandidateType ==
  ASSUME NEW seed \in Sequences, NEW e \in Perturbations(seed)
  PROVE  BuildCandidate(seed, e) \in Sequences
<1> USE SizesAssumption, ControlsAssumption
<1>1. \A t \in Time : seed[t] \in Int
  BY DEF Sequences
<1>2. \A t \in Time : e[t] \in Int
  <2>1. CASE e \in [Time -> Noise]
    BY <2>1
  <2>2. CASE e \notin [Time -> Noise]
    BY <1>1, <2>2 DEF Perturbations
  <2> QED
    BY <2>1, <2>2
<1>3. \A t \in Time :
        Clamp(seed[t] + (IF t < DelaySteps THEN 0 ELSE e[t]), ControlMin, ControlMax) \in Int
  BY <1>1, <1>2 DEF Clamp, Least, Most
<1> QED
  BY <1>3 DEF BuildCandidate, Sequences

\* A candidate is a sequence of controls, and limited.
LEMMA CandidatesLimited ==
  ASSUME NEW seed \in Sequences, NEW previous \in Int,
         NEW c \in Candidates(seed, previous)
  PROVE  c \in Sequences /\ (RateStep > 0 => Limited(c, previous))
<1>1. PICK e \in Perturbations(seed) :
         c = LimitControlRate(BuildCandidate(seed, e), previous)
  BY DEF Candidates
<1> QED
  BY <1>1, NominalCandidateType, LimitControlRateType, LimitControlRateLimits

\* The mean of two values that move by no more than r moves by no more than r,
\* and so does what the box makes of it.
LEMMA MeanMovesLess ==
  ASSUME NEW a \in Int, NEW b \in Int, NEW c \in Int, NEW d \in Int, NEW r \in Nat,
         -r <= a - c, a - c <= r, -r <= b - d, b - d <= r
  PROVE  LET m == Clamp((a + b) \div 2, ControlMin, ControlMax)
             n == Clamp((c + d) \div 2, ControlMin, ControlMax)
         IN  -r <= m - n /\ m - n <= r
<1> DEFINE p == (a + b) \div 2
           q == (c + d) \div 2
<1>1. p \in Int /\ q \in Int /\ -r <= p - q /\ p - q <= r
  OBVIOUS
<1> HIDE DEF p, q
<1>2. LET m == Clamp(p, ControlMin, ControlMax)
          n == Clamp(q, ControlMin, ControlMax)
      IN  -r <= m - n /\ m - n <= r
  BY <1>1, ControlsAssumption DEF Clamp, Least, Most
<1> QED
  BY <1>2 DEF p, q

\* An update is a sequence of controls in the box, limited between its steps, and
\* from a command in the box limited at its first.
LEMMA UpdatesLimited ==
  ASSUME NEW seed \in Sequences, NEW previous \in Int,
         NEW u \in Updates(seed, previous)
  PROVE  /\ u \in Sequences
         /\ RateStep > 0 =>
              \A t \in Time :
                t > 0 \/ InBox(previous) =>
                  /\ -RateStep <= u[t] - Prior(u, previous, t)
                  /\ u[t] - Prior(u, previous, t) <= RateStep
<1> USE SizesAssumption, ControlsAssumption
<1>1. PICK a \in Candidates(seed, previous), b \in Candidates(seed, previous) :
         u = WeightedControls(a, b)
  BY DEF Updates
<1>2. a \in Sequences /\ b \in Sequences
  BY CandidatesLimited
<1>3. \A t \in Time : u[t] = Clamp((a[t] + b[t]) \div 2, ControlMin, ControlMax)
  BY <1>1 DEF WeightedControls
<1>4. \A t \in Time : a[t] \in Int /\ b[t] \in Int
  BY <1>2 DEF Sequences
<1>5. u \in Sequences
  <2>1. \A x \in Int : Clamp(x, ControlMin, ControlMax) \in Int
    BY DEF Clamp, Least, Most
  <2>2. \A t \in Time : Clamp((a[t] + b[t]) \div 2, ControlMin, ControlMax) \in Int
    BY <1>4, <2>1
  <2> QED
    BY <1>1, <2>2 DEF WeightedControls, Sequences
<1>6. ASSUME RateStep > 0, NEW t \in Time, t > 0 \/ InBox(previous)
      PROVE  /\ -RateStep <= u[t] - Prior(u, previous, t)
             /\ u[t] - Prior(u, previous, t) <= RateStep
  <2> DEFINE c == Prior(a, previous, t)
             d == Prior(b, previous, t)
  <2>1. c \in Int /\ d \in Int
    BY <1>2, PriorType
  <2>2. Limited(a, previous) /\ Limited(b, previous)
    BY <1>6, CandidatesLimited
  <2>3. -RateStep <= a[t] - c /\ a[t] - c <= RateStep
        /\ -RateStep <= b[t] - d /\ b[t] - d <= RateStep
    BY <2>2 DEF Limited
  <2>4. Prior(u, previous, t) = Clamp((c + d) \div 2, ControlMin, ControlMax)
    <3>1. CASE t = 0
      BY <1>6, <3>1 DEF Prior, InBox, Clamp, Least, Most
    <3>2. CASE t # 0
      <4>1. t - 1 \in Time
        BY <3>2 DEF Time
      <4> QED
        BY <1>3, <3>2, <4>1 DEF Prior
    <3> QED
      BY <3>1, <3>2
  <2> HIDE DEF c, d
  <2> QED
    BY <1>3, <1>4, <2>1, <2>3, <2>4, MeanMovesLess
<1> QED
  BY <1>5, <1>6

\* A seeded nominal is a sequence of controls.
LEMMA SeedType == SeedNominal \in Sequences
  BY ControlsAssumption DEF SeedNominal, Sequences

\* A shifted sequence is one.
LEMMA ShiftType ==
  ASSUME NEW u \in Sequences, NEW shift \in Nat
  PROVE  ShiftNominal(u, shift) \in Sequences
<1> USE SizesAssumption
<1> SUFFICES ASSUME NEW t \in Time
             PROVE  LET last == Horizon - 1
                        query == t * Dt + Most(shift, 0)
                        low == Least(query \div Dt, last)
                        high == Least(low + 1, last)
                        fraction == Least(query - low * Dt, Dt)
                    IN  ((Dt - fraction) * u[low] + fraction * u[high]) \div Dt \in Int
  BY DEF ShiftNominal, Sequences
<1> DEFINE last == Horizon - 1
           query == t * Dt + Most(shift, 0)
           low == Least(query \div Dt, last)
           high == Least(low + 1, last)
           fraction == Least(query - low * Dt, Dt)
<1>1. query \in Nat
  BY DEF Most, Time
<1>2. query \div Dt \in Nat
  BY <1>1
<1>3. low \in Time /\ high \in Time
  BY <1>2 DEF Least, Time
<1>4. fraction \in Int
  BY <1>1, <1>3 DEF Least, Time
<1>5. u[low] \in Int /\ u[high] \in Int
  BY <1>3 DEF Sequences
<1> HIDE DEF last, query, low, high, fraction
<1>6. (Dt - fraction) * u[low] + fraction * u[high] \in Int
  BY <1>4, <1>5
<1>7. ((Dt - fraction) * u[low] + fraction * u[high]) \div Dt \in Int
  BY <1>6
<1> QED
  BY <1>7 DEF last, query, low, high, fraction

-----------------------------------------------------------------------------
(* The warm start.                                                         *)

\* The node remembers what is in the mailbox, of the epoch of the runtime.
MailboxInv ==
  /\ latest_observation = None => node_pose_time = None
  /\ latest_observation # None =>
       /\ node_pose_time = latest_observation.pose_time
       /\ latest_observation.epoch = reset_epoch

\* A pose the solver still knows is older than the one it will take.
Overtaken(pose_time) ==
  /\ latest_observation # None
  /\ pose_time <= latest_observation.pose_time
  /\ waiting => pose_time < latest_observation.pose_time

\* The poses the controller planned and plans.
PoseInv ==
  /\ ~reset_requested /\ solver_pc = "wait" /\ previous_pose_time # None =>
       Overtaken(previous_pose_time)
  /\ solver_pc # "wait" /\ previous_pose_time # None =>
       previous_pose_time < observation.pose_time
  /\ ~reset_requested /\ solver_pc # "wait" =>
       /\ Overtaken(observation.pose_time)
       /\ observation.epoch = latest_observation.epoch

\* The nominal sequence, unless the next solve starts afresh: no older than the
\* pose the controller planned, older than the one it plans, and of its epoch.
NominalInv ==
  ~reset_next =>
    /\ previous_pose_time # None
    /\ nominal # None
    /\ previous_pose_time <= nominal.pose_time
    /\ solver_pc # "wait" =>
         /\ nominal.pose_time < observation.pose_time
         /\ nominal.epoch = observation.epoch
    /\ solver_pc = "wait" /\ ~reset_requested =>
         /\ Overtaken(nominal.pose_time)
         /\ nominal.epoch = latest_observation.epoch

IInv == TypeOK /\ MailboxInv /\ PoseInv /\ NominalInv

-----------------------------------------------------------------------------

USE DEF nodeVars, mailboxVars, resetVars, solutionVars, solverVars, controllerVars, vars

\* Nothing has been received, planned or warm-started at first.
LEMMA InvInit == Init => IInv
<1> SUFFICES ASSUME Init PROVE IInv
  OBVIOUS
<1>1. TypeOK
  <2>1. clock \in 1 .. MaxTime /\ reset_epoch \in Epoch /\ last_applied_control \in Int
    BY TimesAssumption DEF Init, Epoch
  <2> QED
    BY <2>1, Zenon DEF Init, TypeOK
<1>2. MailboxInv /\ PoseInv /\ NominalInv
  BY DEF Init, MailboxInv, PoseInv, NominalInv
<1> QED
  BY <1>1, <1>2 DEF IInv

\* A sequence computed from the observation at hand is a plan.
LEMMA PlanFromPoseType ==
  ASSUME TypeOK, solver_pc = "plan", NEW controls \in Sequences
  PROVE  /\ PreviousControl \in Int
         /\ PlanFromPose(controls) \in Plan
         /\ PlanFromPose(controls) # None
         /\ PlanFromPose(controls).pose_time = observation.pose_time
         /\ PlanFromPose(controls).epoch = observation.epoch
         /\ PlanFromPose(controls).previous = PreviousControl
         /\ PlanFromPose(controls).controls = controls
<1>1. observation \in Observation
  BY DEF TypeOK
<1>2. PreviousControl \in Int
  BY <1>1, MeasuredAssumption DEF TypeOK, PreviousControl, Observation
<1>3. PlanFromPose(controls) \in Plan
  BY <1>1, <1>2 DEF PlanFromPose, Plan, Observation
<1> QED
  BY <1>2, <1>3, NoneAssumption DEF PlanFromPose

\* A solve draws around a plan, and its update, shifted or not, is one.
LEMMA SampledType ==
  ASSUME IInv, solver_pc = "plan"
  PROVE  /\ SampledNominal \in Plan
         /\ SampledNominal # None
         /\ SampledNominal.controls \in Sequences
<1>1. CASE PlanResets
  BY <1>1, SeedType, PlanFromPoseType DEF SampledNominal, IInv
<1>2. CASE ~PlanResets
  <2>1. nominal \in Plan
    BY <1>2 DEF IInv, TypeOK, NominalInv, PlanResets
  <2> QED
    BY <1>2, <2>1, NoneAssumption DEF SampledNominal, Plan
<1> QED
  BY <1>1, <1>2

\* What the optimizer keeps of a solve is a plan of the pose at hand.
LEMMA ShiftedType ==
  ASSUME IInv, solver_pc = "plan",
         NEW updated \in Updates(SampledNominal.controls, PreviousControl)
  PROVE  /\ updated \in Sequences
         /\ Shifted(updated) \in Plan
         /\ Shifted(updated) # None
         /\ Shifted(updated).pose_time = observation.pose_time
         /\ Shifted(updated).epoch = observation.epoch
<1>1. PreviousControl \in Int
  BY SeedType, PlanFromPoseType DEF IInv
<1>2. updated \in Sequences
  BY <1>1, SampledType, UpdatesLimited
<1>3. Shift \in Nat
  BY TimesAssumption, NoneAssumption
  DEF Shift, Elapsed, IInv, TypeOK, Observation, PoseTime
<1>4. ShiftNominal(updated, Shift) \in Sequences
  BY <1>2, <1>3, ShiftType
<1> QED
  BY <1>2, <1>4, PlanFromPoseType DEF Shifted, IInv

\* What a failed solve may leave of the nominal.
LEMMA LeftNominalType ==
  ASSUME IInv, solver_pc = "plan", PlanFails
  PROVE  \/ nominal' = nominal
         \/ /\ nominal' \in Plan
            /\ nominal' # None
            /\ nominal'.pose_time = observation.pose_time
            /\ nominal'.epoch = observation.epoch
<1>1. CASE nominal' = SampledNominal
  <2>1. CASE PlanResets
    BY <1>1, <2>1, SampledType, SeedType, PlanFromPoseType DEF SampledNominal, IInv
  <2>2. CASE ~PlanResets
    BY <1>1, <2>2 DEF SampledNominal
  <2> QED
    BY <2>1, <2>2
<1>2. CASE \E updated \in Updates(SampledNominal.controls, PreviousControl) :
             nominal' = Shifted(updated)
  BY <1>2, ShiftedType
<1> QED
  BY <1>1, <1>2 DEF PlanFails

-----------------------------------------------------------------------------

\* Every step keeps the types: a nominal that is used is one.
LEMMA TypeStep == IInv /\ [Next]_vars => TypeOK'
<1> SUFFICES ASSUME IInv, [Next]_vars PROVE TypeOK'
  OBVIOUS
<1> USE TimesAssumption, ControlsAssumption, MeasuredAssumption
<1>0. TypeOK
  BY DEF IInv
<1> USE DEF TypeOK
<1>1. CASE Tick
  BY <1>0, <1>1 DEF Tick
<1>2. CASE StateCallback
  <2>1. PICK time \in PoseTime, counter \in ResetCounters :
          \/ \E measured \in Measured : AcceptState(time, counter, measured)
          \/ \E measured \in Measured : ResetAndAcceptState(time, counter, measured)
          \/ ResetAndRejectState(time, counter)
          \/ RejectState
    BY <1>2 DEF StateCallback
  <2>2. ASSUME NEW measured \in Measured, AcceptState(time, counter, measured)
        PROVE  TypeOK'
    BY <1>0, <2>2 DEF AcceptState, OnObservation, Observation
  <2>3. ASSUME NEW measured \in Measured, ResetAndAcceptState(time, counter, measured)
        PROVE  TypeOK'
    BY <1>0, <2>3 DEF ResetAndAcceptState, RuntimeReset, OnObservation, Observation, Epoch
  <2>4. CASE ResetAndRejectState(time, counter)
    BY <1>0, <2>4 DEF ResetAndRejectState, RuntimeReset, Epoch
  <2>5. CASE RejectState
    BY <1>0, <2>5 DEF RejectState
  <2> QED
    BY <2>1, <2>2, <2>3, <2>4, <2>5
<1>3. CASE TakeObservation
  BY <1>0, <1>3 DEF TakeObservation, TakeWaiting, RecordPublishedControl
<1>4. CASE TakeReset
  <2>1. last_applied_control' \in Int
    BY <1>0, <1>4 DEF TakeReset, RecordPublishedControl
  <2>2. CASE TakeWaiting
    BY <1>0, <1>4, <2>1, <2>2 DEF TakeReset, TakeWaiting
  <2>3. CASE UNCHANGED <<waiting, solverVars>>
    BY <1>0, <1>4, <2>1, <2>3 DEF TakeReset
  <2> QED
    BY <1>4, <2>2, <2>3 DEF TakeReset
<1>5. CASE UpdateObservation
  BY <1>0, <1>5 DEF UpdateObservation
<1>6. CASE PlanLatest
  <2>1. PICK updated \in Updates(SampledNominal.controls, PreviousControl) :
          /\ nominal' = Shifted(updated)
          /\ latest_solution' = IF observation.epoch = reset_epoch
                                  THEN PlanFromPose(updated) ELSE latest_solution
    BY <1>6 DEF PlanLatest
  <2>2. solver_pc = "plan"
    BY <1>6 DEF PlanLatest
  <2>3. nominal' \in Plan /\ PlanFromPose(updated) \in Plan
    BY <1>0, <2>1, <2>2, ShiftedType, PlanFromPoseType
  <2>4. observation.pose_time \in PoseTime
    BY <1>0, <2>2 DEF Observation
  <2> QED
    BY <1>0, <1>6, <2>1, <2>3, <2>4 DEF PlanLatest
<1>7. CASE PlanFails
  <2>1. nominal' \in Plan \cup {None}
    BY <1>0, <1>7, LeftNominalType DEF PlanFails
  <2> QED
    BY <1>0, <1>7, <2>1 DEF PlanFails
<1>8. CASE PublishControl
  BY <1>0, <1>8 DEF PublishControl
<1>9. CASE UNCHANGED vars
  BY <1>0, <1>9
<1> QED
  BY <1>1, <1>2, <1>3, <1>4, <1>5, <1>6, <1>7, <1>8, <1>9 DEF Next

\* The times the invariant compares.
LEMMA TimesAreNumbers ==
  ASSUME TypeOK
  PROVE  /\ PoseTime \subseteq Int
         /\ \A p \in PoseTime : p <= p
         /\ None \notin PoseTime
         /\ latest_observation # None => latest_observation.pose_time \in PoseTime
         /\ solver_pc # "wait" => observation.pose_time \in PoseTime
         /\ previous_pose_time # None => previous_pose_time \in PoseTime
         /\ nominal # None => nominal.pose_time \in PoseTime
  BY NoneAssumption DEF TypeOK, PoseTime, Observation, Plan

\* A message that is accepted without a reset is newer than the mailbox.
LEMMA AcceptedIsNewer ==
  ASSUME IInv, NEW time \in PoseTime, NEW counter \in ResetCounters, NEW measured \in Measured,
         AcceptState(time, counter, measured)
  PROVE  /\ latest_observation' # None
         /\ latest_observation'.pose_time = time
         /\ latest_observation'.epoch = reset_epoch
         /\ node_pose_time' = time
         /\ \A p \in PoseTime : Overtaken(p) => p < time /\ p <= time
         /\ latest_observation # None => latest_observation.epoch = reset_epoch
<1>1. latest_observation' = [pose_time |-> time, measured |-> measured, epoch |-> reset_epoch]
  BY DEF AcceptState, OnObservation
<1>2. latest_observation' \in Observation
  BY <1>1 DEF IInv, TypeOK, Observation
<1>3. \A p \in PoseTime : Overtaken(p) => p < time
  BY TimesAreNumbers
  DEF IInv, MailboxInv, Overtaken, AcceptState, ObservationTimely
<1>4. \A p \in PoseTime : p < time => p <= time
  BY TimesAreNumbers DEF IInv
<1> QED
  BY <1>1, <1>2, <1>3, <1>4, NoneAssumption DEF IInv, MailboxInv, AcceptState, OnObservation

\* An older pose is overtaken, too.
LEMMA OlderIsOvertaken ==
  ASSUME TypeOK, NEW p \in PoseTime, NEW q \in PoseTime, p < q
  PROVE  p <= q /\ (Overtaken(q) => Overtaken(p))
<1>1. p <= q
  BY TimesAreNumbers
<1>2. latest_observation # None /\ q <= latest_observation.pose_time =>
        p <= latest_observation.pose_time /\ p < latest_observation.pose_time
  BY TimesAreNumbers
<1> QED
  BY <1>1, <1>2 DEF Overtaken

\* Every step keeps the poses in order.
LEMMA InvStep == IInv /\ [Next]_vars => IInv'
<1> SUFFICES ASSUME IInv, [Next]_vars PROVE IInv'
  OBVIOUS
<1>0. TypeOK' /\ TypeOK
  BY TypeStep DEF IInv
<1>t. /\ PoseTime \subseteq Int
      /\ \A p \in PoseTime : p <= p
      /\ None \notin PoseTime
      /\ latest_observation # None => latest_observation.pose_time \in PoseTime
      /\ solver_pc # "wait" => observation.pose_time \in PoseTime
      /\ previous_pose_time # None => previous_pose_time \in PoseTime
      /\ nominal # None => nominal.pose_time \in PoseTime
  BY <1>0, TimesAreNumbers
<1> SUFFICES MailboxInv' /\ PoseInv' /\ NominalInv'
  BY <1>0 DEF IInv
<1>i. MailboxInv /\ PoseInv /\ NominalInv
  BY DEF IInv
<1>1. CASE Tick
  BY <1>i, <1>1 DEF Tick, MailboxInv, PoseInv, NominalInv, Overtaken
<1>2. CASE StateCallback
  <2>1. PICK time \in PoseTime, counter \in ResetCounters :
          \/ \E measured \in Measured : AcceptState(time, counter, measured)
          \/ \E measured \in Measured : ResetAndAcceptState(time, counter, measured)
          \/ ResetAndRejectState(time, counter)
          \/ RejectState
    BY <1>2 DEF StateCallback
  <2>2. ASSUME NEW measured \in Measured, AcceptState(time, counter, measured)
        PROVE  MailboxInv' /\ PoseInv' /\ NominalInv'
    <3>1. /\ latest_observation' # None
          /\ latest_observation'.pose_time = time
          /\ latest_observation'.epoch = reset_epoch
          /\ node_pose_time' = time
          /\ \A p \in PoseTime : Overtaken(p) => p < time /\ p <= time
          /\ latest_observation # None => latest_observation.epoch = reset_epoch
      BY <2>2, AcceptedIsNewer
    <3>2. /\ UNCHANGED <<resetVars, solverVars, controllerVars, nominal>>
      BY <2>2 DEF AcceptState
    <3>3. MailboxInv'
      BY <3>1, <3>2 DEF MailboxInv
    <3>5. PoseInv'
      BY <1>t, <1>i, <3>1, <3>2, Zenon DEF PoseInv, Overtaken
    <3>6. NominalInv'
      BY <1>t, <1>i, <3>1, <3>2, Zenon DEF NominalInv, Overtaken
    <3> QED
      BY <3>3, <3>5, <3>6
  <2>3. ASSUME NEW measured \in Measured, ResetAndAcceptState(time, counter, measured)
        PROVE  MailboxInv' /\ PoseInv' /\ NominalInv'
    <3>1. latest_observation' =
            [pose_time |-> time, measured |-> measured, epoch |-> reset_epoch']
      BY <2>3 DEF ResetAndAcceptState, OnObservation
    <3>2. latest_observation' # None
      BY <1>0, <3>1, NoneAssumption DEF TypeOK, Observation
    <3> QED
      BY <1>i, <2>3, <3>1, <3>2
      DEF ResetAndAcceptState, RuntimeReset, OnObservation, MailboxInv, PoseInv, NominalInv
  <2>4. CASE ResetAndRejectState(time, counter)
    BY <1>i, <2>4 DEF ResetAndRejectState, RuntimeReset, MailboxInv, PoseInv, NominalInv
  <2>5. CASE RejectState
    BY <1>i, <2>5 DEF RejectState, MailboxInv, PoseInv, NominalInv, Overtaken
  <2> QED
    BY <2>1, <2>2, <2>3, <2>4, <2>5
<1>3. CASE TakeObservation
  <2>1. /\ ~reset_requested /\ solver_pc = "wait" /\ solver_pc' # "wait"
        /\ waiting /\ ~waiting'
        /\ latest_observation # None /\ observation' = latest_observation
        /\ UNCHANGED <<nodeVars, latest_observation, resetVars, previous_pose_time,
                       reset_next, nominal>>
    BY <1>3 DEF TakeObservation, TakeWaiting
  <2>2. latest_observation.pose_time <= latest_observation.pose_time
    BY <1>t, <2>1
  <2> QED
    BY <1>i, <2>1, <2>2, Zenon DEF MailboxInv, PoseInv, NominalInv, Overtaken
<1>4. CASE TakeReset
  <2>1. /\ solver_pc = "wait" /\ previous_pose_time' = None /\ reset_next'
        /\ UNCHANGED <<nodeVars, latest_observation, reset_epoch>>
    BY <1>4 DEF TakeReset
  <2>2. CASE TakeWaiting
    <3>1. /\ ~waiting' /\ latest_observation # None
          /\ observation' = latest_observation /\ solver_pc' # "wait"
      BY <2>2 DEF TakeWaiting
    <3>2. latest_observation.pose_time <= latest_observation.pose_time
      BY <1>t, <3>1
    <3> QED
      BY <1>i, <2>1, <3>1, <3>2, Zenon DEF MailboxInv, PoseInv, NominalInv, Overtaken
  <2>3. CASE UNCHANGED <<waiting, solverVars>>
    BY <1>i, <2>1, <2>3, Zenon DEF MailboxInv, PoseInv, NominalInv
  <2> QED
    BY <1>4, <2>2, <2>3 DEF TakeReset
<1>5. CASE UpdateObservation
  <2>1. /\ solver_pc # "wait"
        /\ UNCHANGED <<nodeVars, mailboxVars, resetVars, observation, previous_pose_time,
                       nominal>>
        /\ \/ solver_pc' # "wait" /\ reset_next' = reset_next
           \/ solver_pc' = "wait" /\ reset_next'
    BY <1>5 DEF UpdateObservation
  <2>2. previous_pose_time # None /\ Overtaken(observation.pose_time) =>
          Overtaken(previous_pose_time)
    BY <1>0, <1>t, <1>i, <2>1, OlderIsOvertaken DEF PoseInv
  <2>3. MailboxInv' /\ PoseInv'
    BY <1>i, <2>1, <2>2, Zenon DEF MailboxInv, PoseInv, Overtaken
  <2>4. NominalInv'
    <3>1. CASE reset_next'
      BY <3>1 DEF NominalInv
    <3>2. CASE solver_pc' # "wait" /\ reset_next' = reset_next
      BY <1>i, <2>1, <3>2, Zenon DEF NominalInv
    <3> QED
      BY <2>1, <3>1, <3>2
  <2> QED
    BY <2>3, <2>4
<1>6. CASE PlanLatest
  <2>1. PICK updated \in Updates(SampledNominal.controls, PreviousControl) :
          nominal' = Shifted(updated)
    BY <1>6 DEF PlanLatest
  <2>2. /\ nominal' # None
        /\ nominal'.pose_time = observation.pose_time
        /\ nominal'.epoch = observation.epoch
    BY <1>6, <2>1, ShiftedType DEF PlanLatest
  <2>3. /\ UNCHANGED <<nodeVars, mailboxVars, resetVars, observation>>
        /\ previous_pose_time' = observation.pose_time
        /\ solver_pc # "wait" /\ solver_pc' = "wait"
    BY <1>6 DEF PlanLatest
  <2>4. /\ observation.pose_time # None
        /\ observation.pose_time <= observation.pose_time
    BY <1>t, <2>3
  <2> QED
    BY <1>i, <2>2, <2>3, <2>4, Zenon DEF MailboxInv, PoseInv, NominalInv, Overtaken
<1>7. CASE PlanFails
  <2>1. \/ nominal' = nominal
        \/ /\ nominal' # None
           /\ nominal'.pose_time = observation.pose_time
           /\ nominal'.epoch = observation.epoch
    BY <1>7, LeftNominalType DEF PlanFails
  <2>2. /\ UNCHANGED <<nodeVars, mailboxVars, resetVars, observation, controllerVars>>
        /\ solver_pc # "wait" /\ solver_pc' = "wait"
    BY <1>7 DEF PlanFails
  <2>3. previous_pose_time # None =>
          /\ previous_pose_time <= observation.pose_time
          /\ Overtaken(observation.pose_time) => Overtaken(previous_pose_time)
    BY <1>0, <1>t, <1>i, <2>2, OlderIsOvertaken DEF PoseInv
  <2>4. ~reset_next =>
          (Overtaken(observation.pose_time) => Overtaken(nominal.pose_time))
    BY <1>0, <1>t, <1>i, <2>2, OlderIsOvertaken DEF NominalInv
  <2>5. MailboxInv' /\ PoseInv'
    BY <1>i, <2>2, <2>3, Zenon DEF MailboxInv, PoseInv, Overtaken
  <2>6. NominalInv'
    <3>1. CASE nominal' = nominal
      BY <1>i, <2>1, <2>2, <2>4, <3>1, Zenon DEF PoseInv, NominalInv, Overtaken
    <3>2. CASE /\ nominal' # None
               /\ nominal'.pose_time = observation.pose_time
               /\ nominal'.epoch = observation.epoch
      BY <1>i, <2>1, <2>2, <2>3, <3>2, Zenon DEF PoseInv, NominalInv, Overtaken
    <3> QED
      BY <2>1, <3>1, <3>2
  <2> QED
    BY <2>5, <2>6
<1>8. CASE PublishControl
  BY <1>i, <1>8 DEF PublishControl, MailboxInv, PoseInv, NominalInv, Overtaken
<1>9. CASE UNCHANGED vars
  BY <1>i, <1>9 DEF MailboxInv, PoseInv, NominalInv, Overtaken
<1> QED
  BY <1>1, <1>2, <1>3, <1>4, <1>5, <1>6, <1>7, <1>8, <1>9 DEF Next

\* The order of the poses survives lost, late and rejected messages, failed solves
\* and resets.
THEOREM Invariance == Spec => []IInv
  BY InvInit, InvStep, PTL DEF Spec

\* Every variable keeps its type; above all, a solve that does not start afresh
\* has a nominal sequence to draw around.
THEOREM TypeCorrect == Spec => []TypeOK
<1>1. IInv => TypeOK
  BY DEF IInv
<1> QED
  BY <1>1, Invariance, PTL

\* The controller never plans a pose that is not newer than the last.
THEOREM ElapsedCorrect == Spec => []ElapsedIsPositive
<1>1. IInv => ElapsedIsPositive
  <2> SUFFICES ASSUME IInv, solver_pc = "plan", previous_pose_time # None
               PROVE  Elapsed > 0
    BY DEF ElapsedIsPositive
  <2>1. previous_pose_time < observation.pose_time
    BY DEF IInv, PoseInv
  <2> QED
    BY <2>1, TimesAreNumbers DEF IInv, Elapsed
<1> QED
  BY <1>1, Invariance, PTL

\* A warm start is of its own epoch, older than the pose at hand and no older than
\* the gap the controller accepts.
THEOREM NominalCorrect == Spec => []NominalIsRecent
<1>1. IInv => NominalIsRecent
  <2> SUFFICES ASSUME IInv, solver_pc = "plan", ~PlanResets
               PROVE  /\ nominal # None
                      /\ nominal.epoch = observation.epoch
                      /\ nominal.pose_time < observation.pose_time
                      /\ observation.pose_time - nominal.pose_time <= MaximumShift
    BY DEF NominalIsRecent
  <2>1. /\ previous_pose_time # None /\ nominal # None
        /\ previous_pose_time <= nominal.pose_time
        /\ nominal.pose_time < observation.pose_time
        /\ nominal.epoch = observation.epoch
        /\ ~(Elapsed > MaximumShift)
    BY DEF IInv, NominalInv, PlanResets
  <2>2. observation.pose_time - nominal.pose_time <= MaximumShift
    BY <2>1, TimesAreNumbers, TimesAssumption DEF IInv, Elapsed
  <2> QED
    BY <2>1, <2>2
<1> QED
  BY <1>1, Invariance, PTL

-----------------------------------------------------------------------------

\* A new solution is limited, and others were.
LEMMA SlewStep == IInv /\ SlewLimited /\ [Next]_vars => SlewLimited'
<1> SUFFICES ASSUME IInv, SlewLimited, [Next]_vars PROVE SlewLimited'
  OBVIOUS
<1>1. CASE latest_solution' = latest_solution \/ latest_solution' = None
  BY <1>1 DEF SlewLimited
<1>2. CASE PlanLatest /\ latest_solution' # latest_solution
  <2>1. PICK updated \in Updates(SampledNominal.controls, PreviousControl) :
          latest_solution' = PlanFromPose(updated)
    BY <1>2 DEF PlanLatest
  <2>2. SampledNominal.controls \in Sequences /\ PreviousControl \in Int
        /\ updated \in Sequences
    BY <1>2, SampledType, SeedType, PlanFromPoseType, ShiftedType DEF PlanLatest, IInv
  <2>3. latest_solution'.previous = PreviousControl /\ latest_solution'.controls = updated
    BY <2>1 DEF PlanFromPose
  <2>4. ASSUME RateStep > 0, NEW t \in Time, t > 0 \/ InBox(PreviousControl)
        PROVE  /\ -RateStep <= updated[t] - Prior(updated, PreviousControl, t)
               /\ updated[t] - Prior(updated, PreviousControl, t) <= RateStep
    BY <2>2, <2>4, UpdatesLimited
  <2>5. ASSUME RateStep > 0, NEW t \in Time
        PROVE  LET prior == IF t = 0 THEN latest_solution'.previous
                                     ELSE latest_solution'.controls[t - 1]
                   step == latest_solution'.controls[t] - prior
               IN  t > 0 \/ InBox(prior) => -RateStep <= step /\ step <= RateStep
    <3>1. CASE t = 0
      BY <2>3, <2>4, <2>5, <3>1 DEF Prior
    <3>2. CASE t # 0
      <4>1. t > 0
        BY <3>2, SizesAssumption DEF Time
      <4> QED
        BY <2>3, <2>4, <2>5, <3>2, <4>1 DEF Prior
    <3> QED
      BY <3>1, <3>2
  <2> QED
    BY <2>5 DEF SlewLimited
<1> QED
  BY <1>1, <1>2
  DEF Next, Tick, StateCallback, AcceptState, ResetAndAcceptState, ResetAndRejectState,
      RejectState, RuntimeReset, TakeObservation, TakeReset, UpdateObservation, PlanLatest,
      PlanFails, PublishControl

\* No plan leaves the slew limit, for every horizon, box, noise and rate.
THEOREM SlewCorrect == Spec => []SlewLimited
<1>1. Init => SlewLimited
  BY DEF Init, SlewLimited
<1> QED
  BY <1>1, SlewStep, Invariance, PTL DEF Spec

=============================================================================
