------------------------ MODULE RolloutKernelsProofs ------------------------
(***************************************************************************)
(* Four results about a rollout's cost, for every horizon, number of       *)
(* substeps, number of samples, track and weighting.  The kernels around   *)
(* TensorRT compute what the one kernel of the analytic models computes:   *)
(* the inductive invariant compares what the arrays hold between two       *)
(* kernels with a prefix of the rollout that the one kernel makes.  The    *)
(* breakdown adds up to that cost and the host's evaluator agrees with it: *)
(* both by induction over the horizon, prefix sum against prefix.  And the *)
(* rollouts that are picked are the heaviest: the invariant says that the  *)
(* picks so far rank before everything that is left.                       *)
(***************************************************************************)
EXTENDS RolloutKernels, FiniteSetTheorems, WellFoundedInduction, TLAPS

\* A set of numbers has a least one.
LEMMA LeastNumber ==
  ASSUME NEW T, T \subseteq Nat, T # {}
  PROVE  \E x \in T : \A y \in T : ~ (y < x)
<1> DEFINE R == OpToRel(<, Nat)
<1>1. IsWellFoundedOn(R, Nat)
  BY NatLessThanWellFounded
<1>2. \A x \in Nat, y \in Nat : <<y, x>> \in R <=> y < x
  BY DEF OpToRel
<1> HIDE DEF R
<1>3. PICK x \in T : \A y \in T : ~ (<<y, x>> \in R)
  BY <1>1, WFMin
<1> QED
  BY <1>2, <1>3

-----------------------------------------------------------------------------
(* The two recursions of a rollout.                                        *)

Euler(state, control) == EulerStep(state, Derivative(state, control))

\* The substeps of one integration step, the unfinished ones too.
Substates(state, control) ==
  LET after[n \in 0 .. Substeps] ==
        IF n = 0 THEN state ELSE EulerStep(after[n - 1], Derivative(after[n - 1], control))
  IN  after

IsSubstate(f, n, state, control) ==
  f[n] = IF n = 0 THEN state ELSE EulerStep(f[n - 1], Derivative(f[n - 1], control))

\* There is such a sequence of every length.
LEMMA SubstatesExist ==
  ASSUME NEW state, NEW control, NEW length \in Nat
  PROVE  \E f : /\ f = [n \in 0 .. length |-> f[n]]
                /\ \A n \in 0 .. length : IsSubstate(f, n, state, control)
<1> DEFINE Reaches(m) ==
             \E f : /\ f = [n \in 0 .. m |-> f[n]]
                    /\ \A n \in 0 .. m : IsSubstate(f, n, state, control)
           T == {m \in Nat : ~ Reaches(m)}
<1>1. Reaches(0)
  <2> DEFINE f == [n \in 0 .. 0 |-> state]
  <2>1. f = [n \in 0 .. 0 |-> f[n]]
    OBVIOUS
  <2>2. \A n \in 0 .. 0 : IsSubstate(f, n, state, control)
    BY DEF IsSubstate
  <2> HIDE DEF f
  <2> QED
    BY <2>1, <2>2
<1>2. ASSUME NEW m \in Nat, Reaches(m) PROVE Reaches(m + 1)
  <2>1. PICK f : \A n \in 0 .. m : IsSubstate(f, n, state, control)
    BY <1>2
  <2> DEFINE g == [n \in 0 .. m + 1 |->
                     IF n = m + 1 THEN EulerStep(f[m], Derivative(f[m], control)) ELSE f[n]]
  <2>2. ASSUME NEW n \in 0 .. m + 1
        PROVE  IsSubstate(g, n, state, control)
    <3>1. CASE n = 0
      BY <2>1, <3>1 DEF IsSubstate
    <3>2. CASE n = m + 1
      BY <3>2 DEF IsSubstate
    <3>3. CASE n # 0 /\ n # m + 1
      <4>1. n \in 0 .. m /\ n - 1 \in 0 .. m /\ n - 1 # m + 1
        BY <3>3
      <4> QED
        BY <2>1, <3>3, <4>1 DEF IsSubstate
    <3> QED
      BY <3>1, <3>2, <3>3
  <2>3. g = [n \in 0 .. m + 1 |-> g[n]]
    OBVIOUS
  <2> HIDE DEF g
  <2> QED
    BY <2>2, <2>3
<1> HIDE DEF Reaches
<1>3. T = {}
  <2> SUFFICES ASSUME T # {} PROVE FALSE
    OBVIOUS
  <2>1. PICK x \in T : \A y \in T : ~ (y < x)
    BY LeastNumber
  <2>2. x # 0
    BY <1>1
  <2>3. x - 1 \in Nat /\ Reaches(x - 1)
    BY <2>1, <2>2
  <2> QED
    BY <1>2, <2>3
<1> QED
  BY <1>3 DEF Reaches

\* Each substep is an Euler step, and the last ends the integration.
LEMMA SubstatesUnfold ==
  ASSUME NEW state, NEW control
  PROVE  /\ Substates(state, control)[0] = state
         /\ \A n \in 0 .. Substeps - 1 :
              Substates(state, control)[n + 1] = Euler(Substates(state, control)[n], control)
         /\ Substates(state, control)[Substeps] = IntegrateAnalyticStep(state, control)
<1> DEFINE Unfolded(f) == [n \in 0 .. Substeps |->
                         IF n = 0 THEN state
                         ELSE EulerStep(f[n - 1], Derivative(f[n - 1], control))]
           after == CHOOSE f : f = Unfolded(f)
<1>1. Substates(state, control) = after
  BY DEF Substates
<1>2. IntegrateAnalyticStep(state, control) = after[Substeps]
  BY DEF IntegrateAnalyticStep
<1>3. \E f : f = Unfolded(f)
  <2>1. Substeps \in Nat
    BY SizesAssumption
  <2>2. PICK f : /\ f = [n \in 0 .. Substeps |-> f[n]]
                 /\ \A n \in 0 .. Substeps : IsSubstate(f, n, state, control)
    BY <2>1, SubstatesExist
  <2> QED
    BY <2>2 DEF IsSubstate
<1>4. after = Unfolded(after)
  BY <1>3
<1> HIDE DEF after
<1>5. after[0] = state
  BY <1>4, SizesAssumption
<1>6. ASSUME NEW n \in 0 .. Substeps - 1 PROVE after[n + 1] = Euler(after[n], control)
  <2>1. n + 1 \in 0 .. Substeps /\ n + 1 # 0 /\ (n + 1) - 1 = n
    BY SizesAssumption
  <2> QED
    BY <1>4, <2>1 DEF Euler
<1> QED
  BY <1>1, <1>2, <1>5, <1>6

IsRollout(f, t, initial, initial_path, previous, controls, sequence, frame) ==
  f[t] = IF t = 0 THEN RolloutStart(initial, initial_path, frame)
         ELSE RolloutStep(f[t - 1], controls[t - 1], Prior(controls, previous, t - 1),
                          sequence[t - 1], t - 1, frame)

\* Rolling out step by step comes to an end for every horizon.
LEMMA RolloutExists ==
  ASSUME NEW initial, NEW initial_path, NEW previous, NEW controls, NEW sequence, NEW frame,
         NEW length \in Nat
  PROVE  \E f : /\ f = [t \in 0 .. length |-> f[t]]
                /\ \A t \in 0 .. length :
                     IsRollout(f, t, initial, initial_path, previous, controls, sequence, frame)
<1> DEFINE Is(f, t) ==
             IsRollout(f, t, initial, initial_path, previous, controls, sequence, frame)
           Reaches(m) == \E f : f = [t \in 0 .. m |-> f[t]] /\ \A t \in 0 .. m : Is(f, t)
           T == {m \in Nat : ~ Reaches(m)}
<1>1. Reaches(0)
  <2> DEFINE f == [t \in 0 .. 0 |-> RolloutStart(initial, initial_path, frame)]
  <2>1. f = [t \in 0 .. 0 |-> f[t]]
    OBVIOUS
  <2>2. \A t \in 0 .. 0 : Is(f, t)
    BY DEF IsRollout
  <2> HIDE DEF f
  <2> QED
    BY <2>1, <2>2
<1>2. ASSUME NEW m \in Nat, Reaches(m) PROVE Reaches(m + 1)
  <2>1. PICK f : \A t \in 0 .. m : Is(f, t)
    BY <1>2
  <2> DEFINE g == [t \in 0 .. m + 1 |->
                     IF t = m + 1
                       THEN RolloutStep(f[m], controls[m], Prior(controls, previous, m),
                                        sequence[m], m, frame)
                       ELSE f[t]]
  <2>2. ASSUME NEW t \in 0 .. m + 1
        PROVE  Is(g, t)
    <3>1. CASE t = 0
      BY <2>1, <3>1 DEF IsRollout
    <3>2. CASE t = m + 1
      BY <3>2 DEF IsRollout
    <3>3. CASE t # 0 /\ t # m + 1
      <4>1. t \in 0 .. m /\ t - 1 \in 0 .. m /\ t - 1 # m + 1
        BY <3>3
      <4> QED
        BY <2>1, <3>3, <4>1 DEF IsRollout
    <3> QED
      BY <3>1, <3>2, <3>3
  <2>3. g = [t \in 0 .. m + 1 |-> g[t]]
    OBVIOUS
  <2> HIDE DEF g
  <2> QED
    BY <2>2, <2>3
<1> HIDE DEF Reaches
<1>3. T = {}
  <2> SUFFICES ASSUME T # {} PROVE FALSE
    OBVIOUS
  <2>1. PICK x \in T : \A y \in T : ~ (y < x)
    BY LeastNumber
  <2>2. x # 0
    BY <1>1
  <2>3. x - 1 \in Nat /\ Reaches(x - 1)
    BY <2>1, <2>2
  <2> QED
    BY <1>2, <2>3
<1> QED
  BY <1>3 DEF Reaches

\* Every step of a rollout is one of RolloutStep.
LEMMA RolloutUnfolds ==
  ASSUME NEW initial, NEW initial_path, NEW previous, NEW controls, NEW sequence, NEW frame
  PROVE  LET rollout == Rollout(initial, initial_path, previous, controls, sequence, frame)
         IN  /\ rollout[0] = RolloutStart(initial, initial_path, frame)
             /\ \A t \in Stages :
                  rollout[t + 1] = RolloutStep(rollout[t], controls[t],
                                               Prior(controls, previous, t), sequence[t], t,
                                               frame)
<1> DEFINE Unfolded(f) ==
             [t \in 0 .. Horizon |->
                IF t = 0 THEN RolloutStart(initial, initial_path, frame)
                ELSE RolloutStep(f[t - 1], controls[t - 1], Prior(controls, previous, t - 1),
                                 sequence[t - 1], t - 1, frame)]
           after == CHOOSE f : f = Unfolded(f)
<1>1. Rollout(initial, initial_path, previous, controls, sequence, frame) = after
  BY DEF Rollout
<1>2. \E f : f = Unfolded(f)
  <2>1. Horizon \in Nat
    BY SizesAssumption
  <2>2. PICK f : /\ f = [t \in 0 .. Horizon |-> f[t]]
                 /\ \A t \in 0 .. Horizon :
                      IsRollout(f, t, initial, initial_path, previous, controls, sequence,
                                frame)
    BY <2>1, RolloutExists
  <2> QED
    BY <2>2 DEF IsRollout
<1>3. after = Unfolded(after)
  BY <1>2
<1> HIDE DEF after
<1>4. after[0] = RolloutStart(initial, initial_path, frame)
  BY <1>3, SizesAssumption
<1>5. ASSUME NEW t \in Stages
      PROVE  after[t + 1] = RolloutStep(after[t], controls[t], Prior(controls, previous, t),
                                        sequence[t], t, frame)
  <2>1. t + 1 \in 0 .. Horizon /\ t + 1 # 0 /\ (t + 1) - 1 = t
    BY SizesAssumption DEF Stages
  <2> QED
    BY <1>3, <2>1
<1> QED
  BY <1>1, <1>4, <1>5

\* A place of the lap, taken near the arc length it was computed from, is that
\* arc length again.
LEMMA ProjectionOfItself ==
  ASSUME NEW path \in Int PROVE ProjectOnTrack(path % Lap, path) = path
<1> DEFINE laps == path \div Lap
           place == path % Lap
<1>1. Lap \in Nat /\ Lap > 0 /\ Span \in Nat
  BY SizesAssumption
<1>2. laps \in Int /\ place \in Int /\ path = Lap * laps + place
  BY <1>1
<1> HIDE DEF laps, place
<1>3. 2 * (path - place) + Lap = (2 * Lap) * laps + Lap
  BY <1>1, <1>2
<1>4. ((2 * Lap) * laps + Lap) \div (2 * Lap) = laps
  BY <1>1, <1>2
<1>5. place + ((2 * (path - place) + Lap) \div (2 * Lap)) * Lap = path
  BY <1>1, <1>2, <1>3, <1>4
<1>6. ProjectOnTrack(place, path) = path
  BY <1>1, <1>5 DEF ProjectOnTrack
<1> QED
  BY <1>6 DEF place

\* Where a rollout is looked for next is where it was found last: at the start
\* because of the projection, and then because every step keeps it.
LEMMA HintIsPath ==
  ASSUME initial_state \in InitialStates, cartesian \in BOOLEAN,
         NEW k \in Samples, NEW t \in 0 .. Horizon
  PROVE  SampleRollout(k)[t].hint = SampleRollout(k)[t].path
<1>1. CASE t = 0
  <2>1. initial_state # NotFinite /\ InitialPath \in Int
    BY StatesAssumption DEF InitialPath, States
  <2>2. InitialPath # NotFinite
    BY <2>1, WeightAssumption
  <2>3. PathEvolution(cartesian, initial_state, InitialPath) = InitialPath
    BY <2>1, <2>2, ProjectionOfItself DEF PathEvolution, InitialPath
  <2>4. SampleRollout(k)[0] = RolloutStart(initial_state, InitialPath, cartesian)
    BY RolloutUnfolds DEF SampleRollout
  <2> QED
    BY <1>1, <2>3, <2>4 DEF RolloutStart
<1>2. CASE t # 0
  <2>1. t - 1 \in Stages /\ (t - 1) + 1 = t
    BY <1>2, SizesAssumption DEF Stages
  <2>2. SampleRollout(k)[t] =
          RolloutStep(SampleRollout(k)[t - 1], candidates[k][t - 1],
                      Prior(candidates[k], PreviousControl, t - 1), nominal[t - 1], t - 1,
                      cartesian)
    BY <2>1, RolloutUnfolds DEF SampleRollout
  <2> QED
    BY <2>2 DEF RolloutStep
<1> QED
  BY <1>1, <1>2

\* What a step of the one kernel leaves in its registers.
LEMMA RegistersAfterStep ==
  ASSUME NEW k \in Samples, NEW t \in Stages
  PROVE  LET before == SampleRollout(k)[t]
             after == SampleRollout(k)[t + 1]
             control == candidates[k][t]
         IN  /\ after.state = IntegrateAnalyticStep(before.state, control)
             /\ after.path = PathEvolution(cartesian, after.state, before.hint)
             /\ after.latches =
                  StateLatches(before.state, before.path, before.latches, LatchesAt(t))
             /\ after.cost =
                  Plus(Plus(before.cost,
                            Plus(StateCost(before.state, before.path, after.latches,
                                           Discount(t)),
                                 ControlCost(control, Prior(candidates[k], PreviousControl, t))
                                   + Importance(control, nominal[t]))),
                       AccelerationCost(before.state, after.state))
<1>1. SampleRollout(k)[t + 1] =
        RolloutStep(SampleRollout(k)[t], candidates[k][t],
                    Prior(candidates[k], PreviousControl, t), nominal[t], t, cartesian)
  BY RolloutUnfolds DEF SampleRollout
<1> QED
  BY <1>1 DEF RolloutStep

-----------------------------------------------------------------------------
(* The invariant.                                                          *)

Within == {"pack", "infer", "integrate"}

LoopInv ==
  /\ cartesian \in BOOLEAN
  /\ initial_state \in InitialStates
  /\ time_index \in 0 .. Horizon
  /\ substep \in 0 .. Substeps - 1
  /\ kernel \in {"rollout", "stage", "finalize", "weigh", "select"} \cup Within
  /\ kernel = "rollout" => time_index = 0
  /\ kernel \in {"rollout", "stage"} => substep = 0
  /\ kernel \in {"stage"} \cup Within => time_index \in Stages
  /\ kernel = "finalize" => time_index = Horizon

\* The states stored so far.
StoredInv ==
  kernel \in {"stage", "finalize"} \cup Within =>
    \A k \in Samples :
      trajectories[k] = [t \in 0 .. time_index |-> SampleRollout(k)[t].state]

\* Between two steps the arrays hold what the one kernel has in its registers.
StageInv ==
  kernel \in {"stage", "finalize"} =>
    \A k \in Samples :
      LET before == SampleRollout(k)[time_index]
      IN  /\ current_states[k] = before.state
          /\ PathEvolution(cartesian, current_states[k], path_s_hint[k]) = before.path
          /\ latches[k] = before.latches
          /\ costs[k] = before.cost

\* Within a step the stage has been paid for, and some substeps are done.
WithinInv ==
  kernel \in Within =>
    \A k \in Samples :
      LET before == SampleRollout(k)[time_index]
          control == candidates[k][time_index]
      IN  /\ current_states[k] = Substates(before.state, control)[substep]
          /\ path_s_hint[k] = before.path
          /\ latches[k] = StateLatches(before.state, before.path, before.latches,
                                       LatchesAt(time_index))
          /\ costs[k] =
               Plus(before.cost,
                    Plus(StateCost(before.state, before.path, latches[k],
                                   Discount(time_index)),
                         ControlCost(control, Prior(candidates[k], PreviousControl, time_index))
                           + Importance(control, nominal[time_index])))
          /\ kernel \in {"infer", "integrate"} =>
               model_input[k] = [state |-> current_states[k], control |-> control]
          /\ kernel = "integrate" =>
               derivatives[k] = Derivative(current_states[k], control)

IInv == LoopInv /\ StoredInv /\ StageInv /\ WithinInv /\ KernelsAgree

-----------------------------------------------------------------------------

USE DEF inputVars, loopVars, modelVars, costVars, pickVars, vars

\* Before the first kernel nothing has been computed.
LEMMA InvInit == Init => IInv
  BY SizesAssumption
  DEF Init, IInv, LoopInv, StoredInv, StageInv, WithinInv, KernelsAgree, Within

\* The rollouts that the arrays are compared with do not change.
LEMMA RolloutsStay ==
  ASSUME UNCHANGED inputVars, NEW k
  PROVE  SampleRollout(k)' = SampleRollout(k) /\ InitialPath' = InitialPath
  BY DEF SampleRollout, InitialPath

\* The one kernel is what the others are compared with.
LEMMA AnalyticStep == IInv /\ RolloutAndCost => IInv'
<1> SUFFICES ASSUME IInv, RolloutAndCost PROVE IInv'
  OBVIOUS
<1>1. UNCHANGED inputVars /\ kernel' = "weigh"
  BY DEF RolloutAndCost
<1>2. LoopInv'
  BY SizesAssumption DEF RolloutAndCost, IInv, LoopInv, Within
<1>3. KernelsAgree'
  BY <1>1, RolloutsStay DEF RolloutAndCost, KernelsAgree
<1> QED
  BY <1>1, <1>2, <1>3 DEF IInv, StoredInv, StageInv, WithinInv, Within

\* The arrays start as the registers do.
LEMMA InitializeStep == IInv /\ InitializeNeuralRollouts => IInv'
<1> SUFFICES ASSUME IInv, InitializeNeuralRollouts PROVE IInv'
  OBVIOUS
<1>1. UNCHANGED inputVars /\ kernel' = "stage" /\ time_index' = 0 /\ substep' = 0
  BY DEF InitializeNeuralRollouts, IInv, LoopInv
<1>2. LoopInv'
  BY <1>1, SizesAssumption DEF InitializeNeuralRollouts, IInv, LoopInv, Stages, Within
<1>3. ASSUME NEW k \in Samples
      PROVE  SampleRollout(k)'[0] = RolloutStart(initial_state, InitialPath, cartesian)
  BY <1>1, RolloutUnfolds, RolloutsStay DEF SampleRollout
<1>4. StoredInv'
  BY <1>1, <1>3 DEF InitializeNeuralRollouts, StoredInv, RolloutStart
<1>5. StageInv'
  BY <1>1, <1>3 DEF InitializeNeuralRollouts, StageInv, RolloutStart, InitialPath
<1> QED
  BY <1>1, <1>2, <1>4, <1>5 DEF IInv, WithinInv, KernelsAgree, Within

\* A stage pays what the one kernel pays before it integrates.
LEMMA StageStep == IInv /\ NeuralStageCostAndPack => IInv'
<1> SUFFICES ASSUME IInv, NeuralStageCostAndPack PROVE IInv'
  OBVIOUS
<1>1. /\ UNCHANGED inputVars /\ kernel = "stage" /\ kernel' = "infer"
      /\ time_index' = time_index /\ substep' = 0 /\ substep = 0
  BY DEF NeuralStageCostAndPack, IInv, LoopInv
<1>2. LoopInv'
  BY <1>1, SizesAssumption DEF NeuralStageCostAndPack, IInv, LoopInv, Within
<1>3. StoredInv'
  BY <1>1, RolloutsStay DEF NeuralStageCostAndPack, IInv, StoredInv
<1>4. WithinInv'
  <2> SUFFICES ASSUME NEW k \in Samples
               PROVE  LET before == SampleRollout(k)[time_index]
                          control == candidates[k][time_index]
                      IN  /\ current_states[k] = Substates(before.state, control)[0]
                          /\ path_s_hint'[k] = before.path
                          /\ latches'[k] = StateLatches(before.state, before.path,
                                             before.latches, LatchesAt(time_index))
                          /\ costs'[k] =
                               Plus(before.cost,
                                 Plus(StateCost(before.state, before.path, latches'[k],
                                                Discount(time_index)),
                                   ControlCost(control,
                                     Prior(candidates[k], PreviousControl, time_index))
                                   + Importance(control, nominal[time_index])))
                          /\ model_input'[k] =
                               [state |-> current_states[k], control |-> control]
    BY <1>1, RolloutsStay DEF NeuralStageCostAndPack, WithinInv
  <2> DEFINE before == SampleRollout(k)[time_index]
  <2>1. /\ current_states[k] = before.state
        /\ PathEvolution(cartesian, current_states[k], path_s_hint[k]) = before.path
        /\ latches[k] = before.latches
        /\ costs[k] = before.cost
    BY <1>1 DEF IInv, StageInv
  <2>2. NewHints[k] = before.path
    BY <2>1 DEF NewHints
  <2>3. path_s_hint'[k] = before.path
    BY <2>2 DEF NeuralStageCostAndPack
  <2>4. latches'[k] =
          StateLatches(before.state, before.path, before.latches, LatchesAt(time_index))
    BY <2>1, <2>2 DEF NeuralStageCostAndPack, NewLatches
  <2>5. costs'[k] =
          Plus(before.cost,
               Plus(StateCost(before.state, before.path, latches'[k], Discount(time_index)),
                    ControlCost(candidates[k][time_index],
                                Prior(candidates[k], PreviousControl, time_index))
                      + Importance(candidates[k][time_index], nominal[time_index])))
    BY <2>1, <2>2 DEF NeuralStageCostAndPack
  <2>6. model_input'[k] =
          [state |-> current_states[k], control |-> candidates[k][time_index]]
    BY DEF NeuralStageCostAndPack, Packed
  <2>7. current_states[k] = Substates(before.state, candidates[k][time_index])[0]
    BY <2>1, SubstatesUnfold
  <2> QED
    BY <2>3, <2>4, <2>5, <2>6, <2>7
<1> QED
  BY <1>1, <1>2, <1>3, <1>4 DEF IInv, StageInv, KernelsAgree

\* Packing and inference look at the state of the substep.
LEMMA SubstepStep == IInv /\ (PackNeuralInputs \/ InferAsync) => IInv'
<1> SUFFICES ASSUME IInv, PackNeuralInputs \/ InferAsync PROVE IInv'
  OBVIOUS
<1>1. /\ UNCHANGED inputVars /\ UNCHANGED costVars /\ UNCHANGED current_states
      /\ time_index' = time_index /\ substep' = substep
      /\ kernel \in Within /\ kernel' \in {"infer", "integrate"}
  BY DEF PackNeuralInputs, InferAsync, Within
<1>2. LoopInv'
  BY <1>1 DEF IInv, LoopInv, Within
<1>3. StoredInv'
  BY <1>1, RolloutsStay DEF IInv, StoredInv, Within
<1>4. ASSUME NEW k \in Samples
      PROVE  /\ model_input'[k] =
                  [state |-> current_states[k], control |-> candidates[k][time_index]]
             /\ kernel' = "integrate" =>
                  derivatives'[k] = Derivative(current_states[k], candidates[k][time_index])
  <2>1. CASE PackNeuralInputs
    BY <2>1 DEF PackNeuralInputs, Packed
  <2>2. CASE InferAsync
    <3>1. model_input[k] =
            [state |-> current_states[k], control |-> candidates[k][time_index]]
      BY <2>2 DEF InferAsync, IInv, WithinInv, Within
    <3> QED
      BY <2>2, <3>1 DEF InferAsync
  <2> QED
    BY <2>1, <2>2
<1>5. WithinInv'
  BY <1>1, <1>4, RolloutsStay DEF IInv, WithinInv
<1> QED
  BY <1>1, <1>2, <1>3, <1>5 DEF IInv, StageInv, KernelsAgree, Within

\* A substep is one of the one kernel's; the last ends the step.
LEMMA IntegrateStep == IInv /\ NeuralIntegrateAndStore => IInv'
<1> SUFFICES ASSUME IInv, NeuralIntegrateAndStore PROVE IInv'
  OBVIOUS
<1> DEFINE before(k) == SampleRollout(k)[time_index]
           control(k) == candidates[k][time_index]
<1>1. /\ UNCHANGED inputVars /\ UNCHANGED <<model_input, derivatives, latches, path_s_hint>>
      /\ kernel = "integrate" /\ time_index \in Stages /\ substep \in 0 .. Substeps - 1
  BY DEF NeuralIntegrateAndStore, IInv, LoopInv, Within
<1>2. ASSUME NEW k \in Samples
      PROVE  current_states'[k] = Substates(before(k).state, control(k))[substep + 1]
  <2>1. /\ current_states[k] = Substates(before(k).state, control(k))[substep]
        /\ derivatives[k] = Derivative(current_states[k], control(k))
    BY <1>1 DEF IInv, WithinInv, Within
  <2>2. current_states'[k] = EulerStep(current_states[k], derivatives[k])
    BY DEF NeuralIntegrateAndStore
  <2>3. Substates(before(k).state, control(k))[substep + 1] =
          Euler(Substates(before(k).state, control(k))[substep], control(k))
    BY <1>1, SubstatesUnfold
  <2> QED
    BY <2>1, <2>2, <2>3 DEF Euler
<1>3. CASE substep + 1 # Substeps
  <2>1. /\ kernel' = "pack" /\ time_index' = time_index /\ substep' = substep + 1
        /\ UNCHANGED <<trajectories, costs>>
    BY <1>3 DEF NeuralIntegrateAndStore
  <2>2. LoopInv'
    BY <1>1, <1>3, <2>1, SizesAssumption DEF IInv, LoopInv, Within
  <2>3. StoredInv'
    BY <1>1, <2>1, RolloutsStay DEF IInv, StoredInv, Within
  <2>4. WithinInv'
    BY <1>1, <1>2, <2>1, RolloutsStay DEF IInv, WithinInv, Within
  <2> QED
    BY <2>1, <2>2, <2>3, <2>4 DEF IInv, StageInv, KernelsAgree
<1>4. CASE substep + 1 = Substeps
  <2> DEFINE after(k) == SampleRollout(k)[time_index + 1]
  <2>1. /\ kernel' \in {"stage", "finalize"}
        /\ kernel' = "finalize" <=> time_index + 1 = Horizon
        /\ time_index' = time_index + 1 /\ substep' = 0
    BY <1>4 DEF NeuralIntegrateAndStore
  <2>2. LoopInv'
    BY <1>1, <2>1, SizesAssumption DEF IInv, LoopInv, Stages, Within
  <2>3. ASSUME NEW k \in Samples
        PROVE  /\ after(k).state = Substates(before(k).state, control(k))[Substeps]
               /\ after(k).path = PathEvolution(cartesian, after(k).state, before(k).hint)
    BY <1>1, RegistersAfterStep, SubstatesUnfold
  <2>4. ASSUME NEW k \in Samples PROVE current_states'[k] = after(k).state
    BY <1>2, <1>4, <2>3
  <2>5. ASSUME NEW k \in Samples, NEW t \in 0 .. time_index
        PROVE  trajectories[k][t] = SampleRollout(k)[t].state
    <3>1. trajectories[k] = [n \in 0 .. time_index |-> SampleRollout(k)[n].state]
      BY <1>1 DEF IInv, StoredInv, Within
    <3> QED
      BY <3>1
  <2>6. StoredInv'
    <3>1. ASSUME NEW k \in Samples
          PROVE  trajectories'[k] = [t \in 0 .. time_index + 1 |-> SampleRollout(k)[t].state]
      <4>1. trajectories'[k] = [t \in 0 .. time_index + 1 |->
                                 IF t <= time_index THEN trajectories[k][t]
                                                    ELSE current_states'[k]]
        BY <1>4 DEF NeuralIntegrateAndStore
      <4>2. \A t \in 0 .. time_index + 1 : t <= time_index \/ t = time_index + 1
        BY <1>1 DEF Stages
      <4>3. \A t \in 0 .. time_index + 1 :
              (IF t <= time_index THEN trajectories[k][t] ELSE current_states'[k])
                = SampleRollout(k)[t].state
        <5> SUFFICES ASSUME NEW t \in 0 .. time_index + 1
                     PROVE  (IF t <= time_index THEN trajectories[k][t] ELSE current_states'[k])
                              = SampleRollout(k)[t].state
          OBVIOUS
        <5>1. CASE t <= time_index
          <6>1. t \in 0 .. time_index
            BY <1>1, <5>1, SizesAssumption DEF Stages
          <6> QED
            BY <2>5, <5>1, <6>1
        <5>2. CASE t = time_index + 1
          BY <1>1, <2>4, <5>2, SizesAssumption DEF Stages
        <5> QED
          BY <4>2, <5>1, <5>2
      <4> QED
        BY <4>1, <4>3
    <3> QED
      BY <1>1, <2>1, <3>1, RolloutsStay DEF StoredInv
  <2>7. ASSUME NEW k \in Samples
        PROVE  PathEvolution(cartesian, current_states'[k], path_s_hint'[k]) = after(k).path
    <3>1. path_s_hint'[k] = before(k).path
      BY <1>1 DEF IInv, WithinInv, Within
    <3>2. before(k).hint = before(k).path
      BY HintIsPath DEF IInv, LoopInv
    <3>3. after(k).path = PathEvolution(cartesian, after(k).state, before(k).hint)
      BY <2>3
    <3> QED
      BY <2>4, <3>1, <3>2, <3>3
  <2>8. ASSUME NEW k \in Samples PROVE latches'[k] = after(k).latches
    <3>1. latches[k] = StateLatches(before(k).state, before(k).path, before(k).latches,
                                    LatchesAt(time_index))
      BY <1>1 DEF IInv, WithinInv, Within
    <3> QED
      BY <1>1, <3>1, RegistersAfterStep
  <2>9. ASSUME NEW k \in Samples PROVE costs'[k] = after(k).cost
    <3>1. costs'[k] = Plus(costs[k], AccelerationCost(trajectories[k][time_index],
                                                      current_states'[k]))
      BY <1>4 DEF NeuralIntegrateAndStore
    <3>2. trajectories[k][time_index] = before(k).state
      <4>1. time_index \in 0 .. time_index
        BY <1>1, SizesAssumption DEF Stages
      <4> QED
        BY <2>5, <4>1
    <3>3. latches[k] = after(k).latches
      BY <1>1, <2>8
    <3>4. costs[k] =
            Plus(before(k).cost,
                 Plus(StateCost(before(k).state, before(k).path, latches[k],
                                Discount(time_index)),
                      ControlCost(control(k), Prior(candidates[k], PreviousControl, time_index))
                        + Importance(control(k), nominal[time_index])))
      BY <1>1 DEF IInv, WithinInv, Within
    <3>5. after(k).cost = Plus(costs[k], AccelerationCost(before(k).state, after(k).state))
      BY <1>1, <3>3, <3>4, RegistersAfterStep
    <3> QED
      BY <2>4, <3>1, <3>2, <3>5
  <2>10. StageInv'
    BY <1>1, <2>1, <2>4, <2>7, <2>8, <2>9, RolloutsStay DEF StageInv
  <2> QED
    BY <2>1, <2>2, <2>6, <2>10 DEF IInv, WithinInv, KernelsAgree, Within
<1> QED
  BY <1>3, <1>4

\* The terminal state is paid for as the one kernel does.
LEMMA FinalizeStep == IInv /\ FinalizeNeuralCosts => IInv'
<1> SUFFICES ASSUME IInv, FinalizeNeuralCosts PROVE IInv'
  OBVIOUS
<1>1. /\ UNCHANGED inputVars /\ UNCHANGED trajectories /\ time_index' = time_index
      /\ kernel = "finalize" /\ kernel' = "weigh" /\ time_index = Horizon
  BY DEF FinalizeNeuralCosts, IInv, LoopInv
<1>2. LoopInv'
  BY <1>1 DEF FinalizeNeuralCosts, IInv, LoopInv, Within
<1>3. ASSUME NEW k \in Samples
      PROVE  costs'[k] = RolloutCost(SampleRollout(k), InitialPath)
  <2> DEFINE last == SampleRollout(k)[Horizon]
  <2>1. /\ current_states[k] = last.state
        /\ PathEvolution(cartesian, current_states[k], path_s_hint[k]) = last.path
        /\ latches[k] = last.latches
        /\ costs[k] = last.cost
    BY <1>1 DEF IInv, StageInv
  <2>2. NewHints[k] = last.path
    BY <2>1 DEF NewHints
  <2>3. NewLatches(TRUE)[k] = StateLatches(last.state, last.path, last.latches, TRUE)
    BY <2>1, <2>2 DEF NewLatches
  <2>4. costs'[k] =
          Plus(Plus(last.cost, StateCost(last.state, last.path,
                                         StateLatches(last.state, last.path, last.latches, TRUE),
                                         Discount(Horizon))),
               IF last.path = NotFinite THEN NotFinite
                 ELSE -Weight["progress"] * (last.path - InitialPath))
    BY <2>1, <2>2, <2>3 DEF FinalizeNeuralCosts
  <2> QED
    BY <2>4 DEF RolloutCost, Plus
<1>4. KernelsAgree'
  BY <1>1, <1>3, RolloutsStay DEF IInv, StoredInv, KernelsAgree
<1> QED
  BY <1>1, <1>2, <1>4 DEF IInv, StoredInv, StageInv, WithinInv, Within

\* No kernel of the sequence leaves the prefix.
LEMMA InvStep == IInv /\ [Next]_vars => IInv'
<1> SUFFICES ASSUME IInv, [Next]_vars PROVE IInv'
  OBVIOUS
<1>1. CASE ComputeWeights \/ SelectHeaviest
  <2>1. /\ UNCHANGED <<cartesian, initial_state, time_index, substep>>
        /\ kernel \in {"weigh", "select"} /\ kernel' = "select"
    BY <1>1 DEF ComputeWeights, SelectHeaviest
  <2> QED
    BY <2>1 DEF IInv, LoopInv, StoredInv, StageInv, WithinInv, KernelsAgree, Within
<1>2. CASE Finished \/ UNCHANGED vars
  <2>1. UNCHANGED vars
    BY <1>2 DEF Finished
  <2>2. LoopInv'
    BY <2>1 DEF IInv, LoopInv
  <2>3. StoredInv'
    BY <2>1, RolloutsStay DEF IInv, StoredInv
  <2>4. StageInv'
    BY <2>1, RolloutsStay DEF IInv, StageInv
  <2>5. WithinInv'
    BY <2>1, RolloutsStay DEF IInv, WithinInv
  <2>6. KernelsAgree'
    BY <2>1, RolloutsStay DEF IInv, KernelsAgree
  <2> QED
    BY <2>2, <2>3, <2>4, <2>5, <2>6 DEF IInv
<1> QED
  BY <1>1, <1>2, AnalyticStep, InitializeStep, StageStep, SubstepStep, IntegrateStep,
     FinalizeStep
  DEF Next

\* The arrays of the learned model follow the rollout of the one kernel.
THEOREM Invariance == Spec => []IInv
  BY InvInit, InvStep, PTL DEF Spec

\* Both ways to roll out leave the same trajectories and costs, for every
\* horizon, number of substeps, track and set of samples.
THEOREM KernelsCorrect == Spec => []KernelsAgree
<1>1. IInv => KernelsAgree
  BY DEF IInv
<1> QED
  BY <1>1, Invariance, PTL

-----------------------------------------------------------------------------
(* Sums and recursions.                                                    *)

\* What holds first and holds next whenever it holds, holds all the way.
LEMMA UpTo ==
  ASSUME NEW T, NEW length \in Nat, 0 \in T,
         \A n \in 0 .. length - 1 : n \in T => n + 1 \in T
  PROVE  \A n \in 0 .. length : n \in T
<1> DEFINE U == {n \in 0 .. length : n \notin T}
<1> SUFFICES ASSUME U # {} PROVE FALSE
  OBVIOUS
<1>1. PICK x \in U : \A y \in U : ~ (y < x)
  <2>1. U \subseteq Nat
    OBVIOUS
  <2> HIDE DEF U
  <2> QED
    BY <2>1, LeastNumber
<1>2. x # 0 /\ x \in 0 .. length
  OBVIOUS
<1>3. x - 1 \in 0 .. length - 1 /\ (x - 1) + 1 = x /\ x - 1 \in 0 .. length
  BY <1>2
<1>4. x - 1 \in T
  BY <1>1, <1>3
<1> QED
  BY <1>3, <1>4

\* A sequence of values in S, each a step from the one before.
IsChain(f, S, start, length, step) ==
  /\ f \in [0 .. length -> S]
  /\ f[0] = start
  /\ \A n \in 0 .. length - 1 : f[n + 1] = step[n][f[n]]

\* Steps on a set can be made one after another.
LEMMA StepsCompose ==
  ASSUME NEW S, NEW start \in S, NEW length \in Nat, NEW step,
         step \in [0 .. length - 1 -> [S -> S]]
  PROVE  \E f : IsChain(f, S, start, length, step)
<1> DEFINE Reaches(m) ==
             \E f \in [0 .. m -> S] :
               f[0] = start /\ \A n \in 0 .. m - 1 : f[n + 1] = step[n][f[n]]
           T == {m \in Nat : Reaches(m)}
<1>1. 0 \in T
  <2> DEFINE f == [n \in 0 .. 0 |-> start]
  <2>1. f \in [0 .. 0 -> S] /\ f[0] = start
    OBVIOUS
  <2>2. \A n \in 0 .. 0 - 1 : f[n + 1] = step[n][f[n]]
    OBVIOUS
  <2> QED
    BY <2>1, <2>2
<1>2. ASSUME NEW m \in 0 .. length - 1, m \in T PROVE m + 1 \in T
  <2>1. PICK f \in [0 .. m -> S] :
               f[0] = start /\ \A n \in 0 .. m - 1 : f[n + 1] = step[n][f[n]]
    BY <1>2
  <2> DEFINE g == [n \in 0 .. m + 1 |-> IF n = m + 1 THEN step[m][f[m]] ELSE f[n]]
  <2>2. f[m] \in S /\ step[m] \in [S -> S]
    BY <1>2
  <2>3. g \in [0 .. m + 1 -> S]
    <3>1. step[m][f[m]] \in S
      BY <2>2
    <3>2. \A n \in 0 .. m + 1 : n = m + 1 \/ n \in 0 .. m
      BY <1>2
    <3> QED
      BY <3>1, <3>2
  <2>4. g[0] = start
    BY <1>2, <2>1
  <2>5. ASSUME NEW n \in 0 .. m + 1 - 1 PROVE g[n + 1] = step[n][g[n]]
    <3>1. n \in 0 .. m + 1 /\ n + 1 \in 0 .. m + 1 /\ n # m + 1
      BY <1>2
    <3>2. g[n] = f[n]
      BY <3>1
    <3>3. CASE n = m
      BY <3>1, <3>2, <3>3
    <3>4. CASE n # m
      <4>1. n \in 0 .. m - 1 /\ n + 1 # m + 1
        BY <1>2, <3>4
      <4>2. g[n + 1] = f[n + 1]
        BY <3>1, <4>1
      <4> QED
        BY <2>1, <3>2, <4>1, <4>2
    <3> QED
      BY <3>3, <3>4
  <2> HIDE DEF g
  <2>6. m + 1 \in Nat
    BY <1>2
  <2>7. Reaches(m + 1)
    BY <2>3, <2>4, <2>5
  <2> QED
    BY <2>6, <2>7
<1> HIDE DEF T
<1>3. length \in 0 .. length
  OBVIOUS
<1>4. length \in T
  BY <1>1, <1>2, <1>3, UpTo
<1> QED
  BY <1>4 DEF T, IsChain

\* A sum grows by one value at a time.
LEMMA PrefixSumsUnfold ==
  ASSUME NEW length \in Nat, NEW f \in [0 .. length - 1 -> Int]
  PROVE  LET sum == PrefixSums(f, length)
         IN  /\ sum[0] = 0
             /\ \A n \in 0 .. length - 1 : sum[n + 1] = sum[n] + f[n]
             /\ \A n \in 0 .. length : sum[n] \in Int
<1> DEFINE Unfolded(g) == [n \in 0 .. length |-> IF n = 0 THEN 0 ELSE g[n - 1] + f[n - 1]]
           sum == CHOOSE g : g = Unfolded(g)
<1>1. PrefixSums(f, length) = sum
  BY DEF PrefixSums
<1>2. \E g : g = Unfolded(g)
  <2> DEFINE step == [n \in 0 .. length - 1 |-> [x \in Int |-> x + f[n]]]
  <2>1. step \in [0 .. length - 1 -> [Int -> Int]]
    OBVIOUS
  <2>2. \A n \in 0 .. length - 1, x \in Int : step[n][x] = x + f[n]
    OBVIOUS
  <2> HIDE DEF step
  <2>3. PICK g \in [0 .. length -> Int] :
               g[0] = 0 /\ \A n \in 0 .. length - 1 : g[n + 1] = step[n][g[n]]
    <3> DEFINE S == Int
               start == 0
    <3>1. start \in S /\ step \in [0 .. length - 1 -> [S -> S]]
      BY <2>1
    <3> HIDE DEF S, start
    <3>2. \E g : IsChain(g, S, start, length, step)
      BY <3>1, StepsCompose
    <3> QED
      BY <3>2 DEF S, start, IsChain
  <2>4. \A n \in 0 .. length : g[n] = IF n = 0 THEN 0 ELSE g[n - 1] + f[n - 1]
    <3> SUFFICES ASSUME NEW n \in 0 .. length, n # 0 PROVE g[n] = g[n - 1] + f[n - 1]
      BY <2>3
    <3>1. n - 1 \in 0 .. length - 1 /\ (n - 1) + 1 = n /\ g[n - 1] \in Int
      OBVIOUS
    <3> QED
      BY <2>2, <2>3, <3>1
  <2>5. g = [n \in 0 .. length |-> g[n]]
    OBVIOUS
  <2> QED
    BY <2>4, <2>5
<1>3. sum = Unfolded(sum)
  BY <1>2
<1> HIDE DEF sum
<1>4. sum[0] = 0
  BY <1>3
<1>5. \A n \in 0 .. length - 1 : sum[n + 1] = sum[n] + f[n]
  BY <1>3
<1>6. \A n \in 0 .. length : sum[n] \in Int
  <2> DEFINE T == {n \in 0 .. length : sum[n] \in Int}
  <2>1. 0 \in T
    BY <1>4
  <2>2. \A n \in 0 .. length - 1 : n \in T => n + 1 \in T
    BY <1>5
  <2> HIDE DEF T
  <2>3. \A n \in 0 .. length : n \in T
    BY <2>1, <2>2, UpTo
  <2> QED
    BY <2>3 DEF T
<1> QED
  BY <1>1, <1>4, <1>5, <1>6

-----------------------------------------------------------------------------
(* What the operators return.                                              *)

\* The latches a rollout may have.
LatchStates == [crashed : BOOLEAN, sliding : BOOLEAN, close : BOOLEAN]

\* A derivative is one of a state, or not finite.
LEMMA DerivativeTyped ==
  ASSUME NEW state \in States \cup {NotFinite}, NEW control \in ControlValues
  PROVE  Derivative(state, control) \in States \cup {NotFinite}
<1>1. CASE Derivative(state, control) = NotFinite
  BY <1>1
<1>2. CASE Derivative(state, control) # NotFinite
  <2>1. state \in States
    BY <1>2 DEF Derivative
  <2>2. Derivative(state, control) =
          [speed |-> control.torque, sideslip |-> control.steering,
           lateral |-> state.sideslip, path |-> state.speed]
    BY <1>2 DEF Derivative
  <2>3. /\ control.torque \in Int /\ control.steering \in Int
        /\ state.sideslip \in Int /\ state.speed \in Int
    BY <2>1 DEF States, ControlValues
  <2> QED
    BY <2>2, <2>3 DEF States
<1> QED
  BY <1>1, <1>2

\* An Euler step gives a state, or what is not finite.
LEMMA EulerTyped ==
  ASSUME NEW state \in States \cup {NotFinite}, NEW derivative \in States \cup {NotFinite}
  PROVE  EulerStep(state, derivative) \in States \cup {NotFinite}
<1>1. CASE NotFinite \in {state, derivative}
  BY <1>1 DEF EulerStep
<1>2. CASE ~ (NotFinite \in {state, derivative})
  <2>1. state \in States /\ derivative \in States
    BY <1>2
  <2> QED
    BY <1>2, <2>1 DEF EulerStep, States
<1> QED
  BY <1>1, <1>2

\* So does an integration step; it cannot recover from what is not finite.
LEMMA IntegrateTyped ==
  ASSUME NEW state \in States \cup {NotFinite}, NEW control \in ControlValues
  PROVE  /\ IntegrateAnalyticStep(state, control) \in States \cup {NotFinite}
         /\ state = NotFinite => IntegrateAnalyticStep(state, control) = NotFinite
<1> DEFINE after == Substates(state, control)
           T == {n \in 0 .. Substeps : /\ after[n] \in States \cup {NotFinite}
                                       /\ state = NotFinite => after[n] = NotFinite}
<1>1. /\ after[0] = state
      /\ \A n \in 0 .. Substeps - 1 : after[n + 1] = Euler(after[n], control)
      /\ after[Substeps] = IntegrateAnalyticStep(state, control)
  BY SubstatesUnfold
<1> HIDE DEF after
<1>2. Substeps \in Nat
  BY SizesAssumption
<1>3. 0 \in T
  BY <1>1, <1>2
<1>4. ASSUME NEW n \in 0 .. Substeps - 1, n \in T PROVE n + 1 \in T
  <2>1. after[n + 1] = EulerStep(after[n], Derivative(after[n], control))
    BY <1>1 DEF Euler
  <2>2. after[n + 1] \in States \cup {NotFinite}
    BY <1>4, <2>1, DerivativeTyped, EulerTyped
  <2>3. state = NotFinite => after[n + 1] = NotFinite
    BY <1>4, <2>1 DEF EulerStep
  <2>4. n + 1 \in 0 .. Substeps
    BY <1>2
  <2> QED
    BY <2>2, <2>3, <2>4
<1> HIDE DEF T
<1>5. \A n \in 0 .. Substeps : n \in T
  BY <1>2, <1>3, <1>4, UpTo
<1>6. Substeps \in T
  BY <1>2, <1>5
<1> QED
  BY <1>1, <1>6 DEF T

\* A projection is an arc length.
LEMMA ProjectTyped ==
  ASSUME NEW place \in Int, NEW hint \in Int
  PROVE  ProjectOnTrack(place, hint) \in Int
<1>1. Lap \in Nat /\ Lap > 0 /\ Span \in Nat
  BY SizesAssumption
<1> DEFINE laps == (2 * (hint - place) + Lap) \div (2 * Lap)
<1>2. laps \in Int
  BY <1>1
<1> HIDE DEF laps
<1>3. place + laps * Lap \in Int
  BY <1>1, <1>2
<1> QED
  BY <1>1, <1>3 DEF ProjectOnTrack, laps

\* The arc length is a number exactly when the state is one and there is a hint.
LEMMA PathTyped ==
  ASSUME NEW frame, NEW state \in States \cup {NotFinite}, NEW hint \in Int \cup {NotFinite}
  PROVE  /\ PathEvolution(frame, state, hint) \in Int \cup {NotFinite}
         /\ state = NotFinite => PathEvolution(frame, state, hint) = NotFinite
         /\ state # NotFinite /\ hint \in Int => PathEvolution(frame, state, hint) \in Int
<1>1. CASE NotFinite \in {state, hint}
  BY <1>1, WeightAssumption DEF PathEvolution
<1>2. CASE ~ (NotFinite \in {state, hint})
  <2>1. state.path \in Int /\ hint \in Int
    BY <1>2 DEF States
  <2>2. Lap \in Nat /\ Lap > 0
    BY SizesAssumption
  <2>3. state.path % Lap \in Int
    BY <2>1, <2>2
  <2>4. ProjectOnTrack(state.path % Lap, hint) \in Int
    BY <2>1, <2>3, ProjectTyped
  <2>5. PathEvolution(frame, state, hint) =
          IF frame THEN ProjectOnTrack(state.path % Lap, hint) ELSE state.path
    BY <1>2 DEF PathEvolution
  <2> QED
    BY <1>2, <2>1, <2>4, <2>5
<1> QED
  BY <1>1, <1>2

\* Latches stay latches.
LEMMA LatchTyped ==
  ASSUME NEW state, NEW path, NEW before \in LatchStates, NEW latch_violations
  PROVE  StateLatches(state, path, before, latch_violations) \in LatchStates
  BY DEF StateLatches, Latch, LatchStates

\* The terms of a state, and their sum.
LEMMA StateTermsTyped ==
  ASSUME NEW state \in States, NEW held, NEW t \in 0 .. Horizon
  PROVE  LET terms == StateTerms(state, held, Discount(t))
         IN  /\ terms["shape"] \in Nat
             /\ terms["crash"] = IF held.crashed THEN Weight["crash"] * Discount(t) ELSE 0
             /\ terms["sideslip_kill"] = IF held.sliding THEN Weight["sideslip_kill"] ELSE 0
             /\ terms["obstacle_latching"] =
                  IF held.close THEN Weight["obstacle_latching"] ELSE 0
             /\ terms["crash"] \in Nat
             /\ terms["sideslip_kill"] \in Nat
             /\ terms["obstacle_latching"] \in Nat
             /\ SumTerms(terms) = terms["shape"] + terms["crash"] + terms["sideslip_kill"]
                                    + terms["obstacle_latching"]
<1>1. /\ Weight["shape"] \in Nat /\ Weight["crash"] \in Nat /\ Weight["sideslip_kill"] \in Nat
      /\ Weight["obstacle_latching"] \in Nat
  BY WeightAssumption DEF Terms
<1>2. Discount(t) \in Nat
  BY WeightAssumption DEF Discount
<1>3. Weight["crash"] * Discount(t) \in Nat
  BY <1>1, <1>2
<1>4. Shape(state) \in Nat
  <2>1. state.speed \in Int /\ state.sideslip \in Int /\ state.lateral \in Int
    BY DEF States
  <2>2. \A x \in Int : Square(x) \in Nat
    BY DEF Square
  <2>3. Square(state.speed) + Square(state.sideslip) + Square(state.lateral) \in Nat
    BY <2>1, <2>2
  <2> HIDE DEF Square
  <2> QED
    BY <1>1, <2>3 DEF Shape
<1> DEFINE terms == StateTerms(state, held, Discount(t))
<1>5. terms["shape"] = Shape(state)
  BY DEF StateTerms, Terms
<1>6. terms["crash"] = IF held.crashed THEN Weight["crash"] * Discount(t) ELSE 0
  BY DEF StateTerms, Terms
<1>7. terms["sideslip_kill"] = IF held.sliding THEN Weight["sideslip_kill"] ELSE 0
  BY DEF StateTerms, Terms
<1>8. terms["obstacle_latching"] = IF held.close THEN Weight["obstacle_latching"] ELSE 0
  BY DEF StateTerms, Terms
<1>9. /\ terms["control"] = 0 /\ terms["importance"] = 0 /\ terms["acceleration"] = 0
      /\ terms["deceleration"] = 0 /\ terms["progress"] = 0
  BY DEF StateTerms, Terms
<1> HIDE DEF terms
<1>10. terms["crash"] \in Nat /\ terms["sideslip_kill"] \in Nat
         /\ terms["obstacle_latching"] \in Nat /\ terms["shape"] \in Nat
  BY <1>1, <1>3, <1>4, <1>5, <1>6, <1>7, <1>8
<1>11. SumTerms(terms) = terms["shape"] + terms["crash"] + terms["sideslip_kill"]
                           + terms["obstacle_latching"]
  BY <1>9, <1>10 DEF SumTerms
<1> QED
  BY <1>6, <1>7, <1>8, <1>10, <1>11 DEF terms

\* The cost of a state is a number, or not finite.
LEMMA StateCostTyped ==
  ASSUME NEW state \in States \cup {NotFinite}, NEW path, NEW held, NEW t \in 0 .. Horizon
  PROVE  StateCost(state, path, held, Discount(t)) \in Int \cup {NotFinite}
<1>1. CASE NotFinite \in {state, path}
  BY <1>1 DEF StateCost
<1>2. CASE ~ (NotFinite \in {state, path})
  <2>1. state \in States
    BY <1>2
  <2> DEFINE terms == StateTerms(state, held, Discount(t))
  <2>2. /\ terms["shape"] \in Nat /\ terms["crash"] \in Nat /\ terms["sideslip_kill"] \in Nat
        /\ terms["obstacle_latching"] \in Nat
        /\ SumTerms(terms) = terms["shape"] + terms["crash"] + terms["sideslip_kill"]
                               + terms["obstacle_latching"]
    BY <2>1, StateTermsTyped
  <2>3. StateCost(state, path, held, Discount(t)) = SumTerms(terms)
    BY <1>2 DEF StateCost
  <2> HIDE DEF terms
  <2>4. SumTerms(terms) \in Int
    BY <2>2
  <2> QED
    BY <2>3, <2>4
<1> QED
  BY <1>1, <1>2

\* The terms of a control are numbers.
LEMMA ControlCostTyped ==
  ASSUME NEW control \in ControlValues, NEW prior \in ControlValues
  PROVE  ControlCost(control, prior) \in Int /\ Importance(control, prior) \in Int
<1>1. /\ control.torque \in Int /\ control.steering \in Int
      /\ prior.torque \in Int /\ prior.steering \in Int
  BY DEF ControlValues
<1>2. \A x \in Int : Square(x) \in Int
  BY DEF Square
<1>3. Weight["control"] \in Int /\ Gamma \in Int
  BY WeightAssumption DEF Terms
<1> DEFINE effort == Square(control.torque) + Square(control.steering)
                       + Square(control.torque - prior.torque)
                       + Square(control.steering - prior.steering)
           product == prior.torque * (control.torque - prior.torque)
                        + prior.steering * (control.steering - prior.steering)
<1>4. effort \in Int /\ product \in Int
  BY <1>1, <1>2
<1>5. ControlCost(control, prior) = Weight["control"] * effort
  BY DEF ControlCost
<1>6. Importance(control, prior) = Gamma * product
  BY DEF Importance
<1> HIDE DEF effort, product
<1> QED
  BY <1>3, <1>4, <1>5, <1>6

\* So is the price of an acceleration between two states.
LEMMA AccelerationTyped ==
  ASSUME NEW before \in States \cup {NotFinite}, NEW after \in States \cup {NotFinite}
  PROVE  /\ AccelerationCost(before, after) \in Int \cup {NotFinite}
         /\ NotFinite \notin {before, after} => AccelerationCost(before, after) \in Int
<1>1. CASE NotFinite \in {before, after}
  BY <1>1 DEF AccelerationCost
<1>2. CASE NotFinite \notin {before, after}
  <2>1. before.speed \in Int /\ after.speed \in Int
    BY <1>2 DEF States
  <2> DEFINE change == after.speed - before.speed
             weight == Weight[IF change >= 0 THEN "acceleration" ELSE "deceleration"]
  <2>2. change \in Int /\ weight \in Int
    BY <2>1, WeightAssumption DEF Terms
  <2>3. AccelerationCost(before, after) = weight * Square(change)
    BY <1>2 DEF AccelerationCost
  <2> HIDE DEF change, weight
  <2>4. Square(change) \in Int
    BY <2>2 DEF Square
  <2>5. weight * Square(change) \in Int
    BY <2>2, <2>4
  <2> QED
    BY <2>3, <2>5
<1> QED
  BY <1>1, <1>2

\* Costs add up to costs.
LEMMA PlusTyped ==
  ASSUME NEW a \in Int \cup {NotFinite}, NEW b \in Int \cup {NotFinite}
  PROVE  Plus(a, b) \in Int \cup {NotFinite}
  BY DEF Plus

\* The hints of the breakdown.
LEMMA PathsUnfold ==
  ASSUME NEW states, NEW initial_path \in Int, NEW frame,
         \A t \in 0 .. Horizon : states[t] \in States /\ states[t] # NotFinite
  PROVE  LET path == Paths(states, initial_path, frame)
         IN  /\ path[0] = PathEvolution(frame, states[0], initial_path)
             /\ \A t \in Stages :
                  path[t + 1] = PathEvolution(frame, states[t + 1],
                                              IF t = 0 THEN initial_path ELSE path[t])
<1> DEFINE Unfolded(f) ==
             [t \in 0 .. Horizon |->
                PathEvolution(frame, states[t], IF t <= 1 THEN initial_path ELSE f[t - 1])]
           path == CHOOSE f : f = Unfolded(f)
<1>1. Paths(states, initial_path, frame) = path
  BY DEF Paths
<1>2. Horizon \in Nat /\ Stages = 0 .. Horizon - 1
  BY SizesAssumption DEF Stages
<1>3. ASSUME NEW t \in 0 .. Horizon, NEW hint \in Int
      PROVE  PathEvolution(frame, states[t], hint) \in Int
  BY PathTyped
<1>4. \E f : f = Unfolded(f)
  <2> DEFINE S == Int
             start == PathEvolution(frame, states[0], initial_path)
             step == [n \in 0 .. Horizon - 1 |-> [x \in S |->
                        PathEvolution(frame, states[n + 1],
                                      IF n = 0 THEN initial_path ELSE x)]]
  <2>1. start \in S
    BY <1>2, <1>3
  <2>2. step \in [0 .. Horizon - 1 -> [S -> S]]
    <3>1. ASSUME NEW n \in 0 .. Horizon - 1, NEW x \in S
          PROVE  PathEvolution(frame, states[n + 1], IF n = 0 THEN initial_path ELSE x) \in S
      <4>1. n + 1 \in 0 .. Horizon
        BY <1>2
      <4> QED
        BY <1>3, <4>1
    <3> QED
      BY <3>1
  <2>3. \A n \in 0 .. Horizon - 1, x \in S :
          step[n][x] = PathEvolution(frame, states[n + 1],
                                     IF n = 0 THEN initial_path ELSE x)
    OBVIOUS
  <2> HIDE DEF S, step, start
  <2>4. PICK f : IsChain(f, S, start, Horizon, step)
    BY <1>2, <2>1, <2>2, StepsCompose
  <2>5. f = [n \in 0 .. Horizon |-> f[n]] /\ \A n \in 0 .. Horizon : f[n] \in S
    BY <2>4 DEF IsChain
  <2>6. ASSUME NEW t \in 0 .. Horizon
        PROVE  f[t] = PathEvolution(frame, states[t],
                                    IF t <= 1 THEN initial_path ELSE f[t - 1])
    <3>1. CASE t = 0
      BY <2>4, <3>1 DEF IsChain, start
    <3>2. CASE t # 0
      <4>1. t - 1 \in 0 .. Horizon - 1 /\ (t - 1) + 1 = t /\ t - 1 \in 0 .. Horizon
        BY <1>2, <3>2
      <4>2. f[t] = step[t - 1][f[t - 1]] /\ f[t - 1] \in S
        BY <2>4, <2>5, <4>1 DEF IsChain
      <4>3. t <= 1 <=> t - 1 = 0
        BY <1>2, <3>2
      <4> QED
        BY <2>3, <4>1, <4>2, <4>3
    <3> QED
      BY <3>1, <3>2
  <2> QED
    BY <2>5, <2>6
<1>5. path = Unfolded(path)
  BY <1>4
<1> HIDE DEF path
<1>6. path[0] = PathEvolution(frame, states[0], initial_path)
  BY <1>2, <1>5
<1>7. ASSUME NEW t \in Stages
      PROVE  path[t + 1] = PathEvolution(frame, states[t + 1],
                                         IF t = 0 THEN initial_path ELSE path[t])
  <2>1. t + 1 \in 0 .. Horizon /\ (t + 1) - 1 = t /\ (t + 1 <= 1 <=> t = 0)
    BY <1>2
  <2> QED
    BY <1>5, <2>1
<1> QED
  BY <1>1, <1>6, <1>7

\* The latches of the breakdown and of the host.
LEMMA LatchesUnfold ==
  ASSUME NEW states, NEW paths, NEW latch_first
  PROVE  LET along == LatchesAlong(states, paths, latch_first)
         IN  /\ along[0] = StateLatches(states[0], paths[0], NoLatches,
                                        latch_first \/ LatchesAt(0))
             /\ \A t \in Stages :
                  along[t + 1] = StateLatches(states[t + 1], paths[t + 1], along[t],
                                              latch_first \/ LatchesAt(t + 1))
             /\ \A t \in 0 .. Horizon : along[t] \in LatchStates
<1> DEFINE Unfolded(f) ==
             [t \in 0 .. Horizon |->
                StateLatches(states[t], paths[t], IF t = 0 THEN NoLatches ELSE f[t - 1],
                             latch_first \/ LatchesAt(t))]
           along == CHOOSE f : f = Unfolded(f)
<1>1. LatchesAlong(states, paths, latch_first) = along
  BY DEF LatchesAlong
<1>2. Horizon \in Nat /\ Stages = 0 .. Horizon - 1
  BY SizesAssumption DEF Stages
<1>3. NoLatches \in LatchStates
  BY DEF NoLatches, LatchStates
<1>4. \E f : f = Unfolded(f)
  <2> DEFINE start == StateLatches(states[0], paths[0], NoLatches,
                                   latch_first \/ LatchesAt(0))
             step == [n \in 0 .. Horizon - 1 |-> [x \in LatchStates |->
                        StateLatches(states[n + 1], paths[n + 1], x,
                                     latch_first \/ LatchesAt(n + 1))]]
  <2>1. start \in LatchStates
    BY <1>3, LatchTyped
  <2>2. step \in [0 .. Horizon - 1 -> [LatchStates -> LatchStates]]
    <3>1. ASSUME NEW n \in 0 .. Horizon - 1, NEW x \in LatchStates
          PROVE  StateLatches(states[n + 1], paths[n + 1], x,
                              latch_first \/ LatchesAt(n + 1)) \in LatchStates
      BY LatchTyped
    <3> QED
      BY <3>1
  <2>3. \A n \in 0 .. Horizon - 1, x \in LatchStates :
          step[n][x] = StateLatches(states[n + 1], paths[n + 1], x,
                                    latch_first \/ LatchesAt(n + 1))
    OBVIOUS
  <2> HIDE DEF step, start
  <2>4. PICK f : IsChain(f, LatchStates, start, Horizon, step)
    BY <1>2, <2>1, <2>2, StepsCompose
  <2>5. f = [n \in 0 .. Horizon |-> f[n]] /\ \A n \in 0 .. Horizon : f[n] \in LatchStates
    BY <2>4 DEF IsChain
  <2>6. ASSUME NEW t \in 0 .. Horizon
        PROVE  f[t] = StateLatches(states[t], paths[t], IF t = 0 THEN NoLatches ELSE f[t - 1],
                                   latch_first \/ LatchesAt(t))
    <3>1. CASE t = 0
      BY <2>4, <3>1 DEF IsChain, start
    <3>2. CASE t # 0
      <4>1. t - 1 \in 0 .. Horizon - 1 /\ (t - 1) + 1 = t /\ t - 1 \in 0 .. Horizon
        BY <1>2, <3>2
      <4>2. f[t] = step[t - 1][f[t - 1]] /\ f[t - 1] \in LatchStates
        BY <2>4, <2>5, <4>1 DEF IsChain
      <4> QED
        BY <2>3, <3>2, <4>1, <4>2
    <3> QED
      BY <3>1, <3>2
  <2> QED
    BY <2>5, <2>6
<1>5. along = Unfolded(along)
  BY <1>4
<1> HIDE DEF along
<1>6. along[0] = StateLatches(states[0], paths[0], NoLatches, latch_first \/ LatchesAt(0))
  BY <1>2, <1>5
<1>7. ASSUME NEW t \in Stages
      PROVE  along[t + 1] = StateLatches(states[t + 1], paths[t + 1], along[t],
                                         latch_first \/ LatchesAt(t + 1))
  <2>1. t + 1 \in 0 .. Horizon /\ (t + 1) - 1 = t /\ t + 1 # 0
    BY <1>2
  <2> QED
    BY <1>5, <2>1
<1>8. \A t \in 0 .. Horizon : along[t] \in LatchStates
  <2> DEFINE T == {t \in 0 .. Horizon : along[t] \in LatchStates}
  <2>1. 0 \in T
    BY <1>2, <1>3, <1>6, LatchTyped
  <2>2. ASSUME NEW t \in 0 .. Horizon - 1, t \in T PROVE t + 1 \in T
    <3>1. t + 1 \in 0 .. Horizon /\ t \in Stages
      BY <1>2
    <3> QED
      BY <1>7, <2>2, <3>1, LatchTyped
  <2> HIDE DEF T
  <2>3. \A t \in 0 .. Horizon : t \in T
    BY <1>2, <2>1, <2>2, UpTo
  <2> QED
    BY <2>3 DEF T
<1> QED
  BY <1>1, <1>6, <1>7, <1>8

-----------------------------------------------------------------------------
(* A rollout of the inputs a solve may have.                               *)

\* The inputs of a solve stay among those it may have.
InputsInv ==
  /\ cartesian \in BOOLEAN
  /\ initial_state \in InitialStates
  /\ nominal \in Nominals
  /\ candidates \in [Samples -> [Stages -> Controls]]

\* The fields of the inputs are numbers.
LEMMA InputsTyped ==
  ASSUME InputsInv
  PROVE  /\ initial_state \in States /\ initial_state # NotFinite /\ InitialPath \in Int
         /\ \A t \in Stages : nominal[t] \in ControlValues
         /\ \A k \in Samples, t \in Stages :
              /\ candidates[k][t] \in ControlValues
              /\ Prior(candidates[k], PreviousControl, t) \in ControlValues
<1>1. initial_state \in States /\ initial_state # NotFinite
  BY StatesAssumption DEF InputsInv
<1>2. InitialPath \in Int
  BY <1>1 DEF InitialPath, States
<1>3. nominal \in [Stages -> ControlValues] /\ PreviousControl \in ControlValues
  BY ControlsAssumption DEF InputsInv
<1>4. ASSUME NEW k \in Samples, NEW t \in Stages PROVE candidates[k][t] \in ControlValues
  BY ControlsAssumption DEF InputsInv
<1>5. ASSUME NEW k \in Samples, NEW t \in Stages
      PROVE  Prior(candidates[k], PreviousControl, t) \in ControlValues
  <2>1. t # 0 => t - 1 \in Stages
    BY SizesAssumption DEF Stages
  <2> QED
    BY <1>3, <1>4, <2>1 DEF Prior
<1> QED
  BY <1>1, <1>2, <1>3, <1>4, <1>5

\* The types of what the one kernel keeps, and when the arc length is a number.
Registers(r) ==
  /\ r.state \in States \cup {NotFinite}
  /\ r.path \in Int \cup {NotFinite}
  /\ r.hint \in Int \cup {NotFinite}
  /\ r.cost \in Int \cup {NotFinite}
  /\ r.state # NotFinite /\ r.hint \in Int => r.path \in Int

\* A rollout has states and a cost, or has diverged.
LEMMA RolloutTyped ==
  ASSUME InputsInv, NEW k \in Samples
  PROVE  \A t \in 0 .. Horizon : Registers(SampleRollout(k)[t])
<1> DEFINE rollout == SampleRollout(k)
           T == {t \in 0 .. Horizon : Registers(rollout[t])}
<1>1. Horizon \in Nat /\ Stages = 0 .. Horizon - 1
  BY SizesAssumption DEF Stages
<1>2. rollout[0] = RolloutStart(initial_state, InitialPath, cartesian)
  BY RolloutUnfolds DEF SampleRollout
<1>3. \A t \in Stages :
        rollout[t + 1] = RolloutStep(rollout[t], candidates[k][t],
                                     Prior(candidates[k], PreviousControl, t), nominal[t], t,
                                     cartesian)
  BY RolloutUnfolds DEF SampleRollout
<1> HIDE DEF rollout
<1>4. 0 \in T
  <2>1. PathEvolution(cartesian, initial_state, InitialPath) \in Int
    BY InputsTyped, PathTyped
  <2> QED
    BY <1>1, <1>2, <2>1, InputsTyped DEF RolloutStart, Registers
<1>5. ASSUME NEW t \in 0 .. Horizon - 1, t \in T PROVE t + 1 \in T
  <2> DEFINE before == rollout[t]
             control == candidates[k][t]
             prior == Prior(candidates[k], PreviousControl, t)
             latched == StateLatches(before.state, before.path, before.latches, LatchesAt(t))
             state == IntegrateAnalyticStep(before.state, control)
             path == PathEvolution(cartesian, state, before.hint)
             staged == Plus(StateCost(before.state, before.path, latched, Discount(t)),
                            ControlCost(control, prior) + Importance(control, nominal[t]))
             total == Plus(Plus(before.cost, staged), AccelerationCost(before.state, state))
  <2>1. /\ rollout[t + 1].state = state /\ rollout[t + 1].path = path
        /\ rollout[t + 1].hint = path /\ rollout[t + 1].cost = total
    <3>1. rollout[t + 1] = RolloutStep(before, control, prior, nominal[t], t, cartesian)
      BY <1>1, <1>3
    <3> QED
      BY <3>1 DEF RolloutStep
  <2>2. control \in ControlValues /\ prior \in ControlValues /\ nominal[t] \in ControlValues
    BY <1>1, InputsTyped
  <2>3. Registers(before) /\ t \in 0 .. Horizon
    BY <1>5
  <2>4. before.state \in States \cup {NotFinite} /\ before.hint \in Int \cup {NotFinite}
          /\ before.cost \in Int \cup {NotFinite}
    BY <2>3 DEF Registers
  <2>5. state \in States \cup {NotFinite}
    BY <2>2, <2>4, IntegrateTyped
  <2>6. path \in Int \cup {NotFinite} /\ (state # NotFinite /\ path \in Int => path \in Int)
    BY <2>4, <2>5, PathTyped
  <2>7. ControlCost(control, prior) + Importance(control, nominal[t]) \in Int \cup {NotFinite}
    BY <2>2, ControlCostTyped
  <2>8. StateCost(before.state, before.path, latched, Discount(t)) \in Int \cup {NotFinite}
    BY <2>3, <2>4, StateCostTyped
  <2>9. staged \in Int \cup {NotFinite}
    BY <2>7, <2>8, PlusTyped
  <2>10. AccelerationCost(before.state, state) \in Int \cup {NotFinite}
    BY <2>4, <2>5, AccelerationTyped
  <2>11. Plus(before.cost, staged) \in Int \cup {NotFinite}
    BY <2>4, <2>9, PlusTyped
  <2>12. total \in Int \cup {NotFinite}
    BY <2>10, <2>11, PlusTyped
  <2> HIDE DEF state, path, total
  <2>13. Registers(rollout[t + 1])
    BY <2>1, <2>5, <2>6, <2>12 DEF Registers
  <2>14. t + 1 \in 0 .. Horizon
    BY <1>1
  <2> QED
    BY <2>13, <2>14
<1> HIDE DEF T
<1>6. \A t \in 0 .. Horizon : t \in T
  BY <1>1, <1>4, <1>5, UpTo
<1> QED
  BY <1>6 DEF T, rollout

\* What is not finite stays so.
LEMMA StaysNotFinite ==
  ASSUME InputsInv, NEW k \in Samples, NEW t \in 0 .. Horizon,
         SampleRollout(k)[t].state = NotFinite
  PROVE  SampleRollout(k)[Horizon].state = NotFinite
<1> DEFINE rollout == SampleRollout(k)
           T == {n \in 0 .. Horizon - t : rollout[t + n].state = NotFinite}
<1>1. Horizon \in Nat /\ Stages = 0 .. Horizon - 1 /\ t \in Nat /\ Horizon - t \in Nat
  BY SizesAssumption DEF Stages
<1>2. \A n \in Stages :
        rollout[n + 1].state = IntegrateAnalyticStep(rollout[n].state, candidates[k][n])
  BY RegistersAfterStep
<1>3. rollout[t].state = NotFinite
  OBVIOUS
<1> HIDE DEF rollout
<1>4. 0 \in T
  BY <1>1, <1>3
<1>5. ASSUME NEW n \in 0 .. (Horizon - t) - 1, n \in T PROVE n + 1 \in T
  <2>1. /\ t + n \in Stages /\ (t + n) + 1 = t + (n + 1) /\ n + 1 \in 0 .. Horizon - t
    BY <1>1
  <2>2. rollout[t + (n + 1)].state = IntegrateAnalyticStep(NotFinite, candidates[k][t + n])
    BY <1>2, <1>5, <2>1
  <2>3. IntegrateAnalyticStep(NotFinite, candidates[k][t + n]) = NotFinite
    BY <2>1, InputsTyped, IntegrateTyped
  <2> QED
    BY <2>1, <2>2, <2>3
<1> HIDE DEF T
<1>6. \A n \in 0 .. Horizon - t : n \in T
  BY <1>1, <1>4, <1>5, UpTo
<1>7. Horizon - t \in T /\ t + (Horizon - t) = Horizon
  BY <1>1, <1>6
<1> QED
  BY <1>7 DEF T, rollout

\* The cost of a rollout is a number, and none if a state is none.
LEMMA RolloutCostTyped ==
  ASSUME InputsInv, NEW k \in Samples
  PROVE  /\ RolloutCost(SampleRollout(k), InitialPath) \in Int \cup {NotFinite}
         /\ \A t \in 0 .. Horizon :
              SampleRollout(k)[t].state = NotFinite =>
                RolloutCost(SampleRollout(k), InitialPath) = NotFinite
<1> DEFINE last == SampleRollout(k)[Horizon]
           latched == StateLatches(last.state, last.path, last.latches, TRUE)
           total == Plus(last.cost, StateCost(last.state, last.path, latched,
                                              Discount(Horizon)))
           progress == -Weight["progress"] * (last.path - InitialPath)
<1>1. Horizon \in 0 .. Horizon /\ Horizon - 1 \in Stages /\ (Horizon - 1) + 1 = Horizon
  BY SizesAssumption DEF Stages
<1>2. Registers(last)
  BY <1>1, RolloutTyped
<1>3. RolloutCost(SampleRollout(k), InitialPath) =
        IF last.path = NotFinite THEN NotFinite ELSE Plus(total, progress)
  BY DEF RolloutCost
<1>4. total \in Int \cup {NotFinite}
  BY <1>1, <1>2, StateCostTyped, PlusTyped DEF Registers
<1>5. last.path # NotFinite => progress \in Int
  <2>1. last.path # NotFinite => last.path \in Int
    BY <1>2 DEF Registers
  <2>2. Weight["progress"] \in Int /\ InitialPath \in Int
    BY InputsTyped, WeightAssumption DEF Terms
  <2> HIDE DEF last
  <2> QED
    BY <2>1, <2>2
<1>6. ASSUME NEW t \in 0 .. Horizon, SampleRollout(k)[t].state = NotFinite
      PROVE  last.path = NotFinite
  <2>1. last.state = NotFinite
    BY <1>6, StaysNotFinite
  <2>2. last.path = PathEvolution(cartesian, last.state, SampleRollout(k)[Horizon - 1].hint)
    BY <1>1, RegistersAfterStep
  <2> QED
    BY <2>1, <2>2 DEF PathEvolution
<1> HIDE DEF last, total, progress
<1>7. last.path # NotFinite => Plus(total, progress) \in Int \cup {NotFinite}
  BY <1>4, <1>5, PlusTyped
<1> QED
  BY <1>3, <1>6, <1>7

\* What EvaluateCostBreakdown is given, and the hints it computes.
StatesOf(k) == [t \in 0 .. Horizon |-> SampleRollout(k)[t].state]
PathsOf(k) == Paths(StatesOf(k), InitialPath, cartesian)

\* The breakdown walks over the states of a rollout with the hints and the
\* latches that the rollout had.
LEMMA WalkFollowsRollout ==
  ASSUME InputsInv, NEW k \in Samples,
         \A t \in 0 .. Horizon : SampleRollout(k)[t].state # NotFinite
  PROVE  /\ StatesOf(k) \in [0 .. Horizon -> States]
         /\ NotFinite \notin {StatesOf(k)[t] : t \in 0 .. Horizon}
         /\ \A t \in 0 .. Horizon :
              /\ StatesOf(k)[t] = SampleRollout(k)[t].state
              /\ PathsOf(k)[t] = SampleRollout(k)[t].path
              /\ PathsOf(k)[t] \in Int
<1> DEFINE rollout == SampleRollout(k)
           states == StatesOf(k)
           paths == PathsOf(k)
<1>1. Horizon \in Nat /\ Stages = 0 .. Horizon - 1
  BY SizesAssumption DEF Stages
<1>2. \A t \in 0 .. Horizon : Registers(rollout[t]) /\ rollout[t].state # NotFinite
  BY RolloutTyped
<1>3. \A t \in 0 .. Horizon : states[t] = rollout[t].state
  BY DEF StatesOf
<1>4. \A t \in 0 .. Horizon : rollout[t].state \in States
  BY <1>2 DEF Registers
<1>5. states \in [0 .. Horizon -> States]
  BY <1>4 DEF StatesOf
<1>6. NotFinite \notin {states[t] : t \in 0 .. Horizon}
  BY <1>2, <1>3
<1>7. InitialPath \in Int
  BY InputsTyped
<1>8. /\ paths[0] = PathEvolution(cartesian, states[0], InitialPath)
      /\ \A t \in Stages :
           paths[t + 1] = PathEvolution(cartesian, states[t + 1],
                                        IF t = 0 THEN InitialPath ELSE paths[t])
  <2>1. PathsOf(k) = Paths(states, InitialPath, cartesian)
    BY DEF PathsOf
  <2> HIDE DEF states
  <2> QED
    BY <1>2, <1>3, <1>4, <1>7, <2>1, PathsUnfold
<1>9. rollout[0] = RolloutStart(initial_state, InitialPath, cartesian)
  BY RolloutUnfolds DEF SampleRollout
<1>10. rollout[0].state = initial_state /\ rollout[0].hint = InitialPath
         /\ rollout[0].path = PathEvolution(cartesian, initial_state, InitialPath)
  BY <1>9 DEF RolloutStart
<1>11. \A t \in Stages :
         /\ rollout[t + 1].path = PathEvolution(cartesian, rollout[t + 1].state, rollout[t].hint)
         /\ rollout[t + 1].hint = rollout[t + 1].path
  <2> SUFFICES ASSUME NEW t \in Stages
               PROVE /\ rollout[t + 1].path =
                          PathEvolution(cartesian, rollout[t + 1].state, rollout[t].hint)
                     /\ rollout[t + 1].hint = rollout[t + 1].path
    OBVIOUS
  <2>1. t + 1 \in 0 .. Horizon
    BY <1>1
  <2>2. rollout[t + 1].hint = rollout[t + 1].path
    BY <2>1, HintIsPath DEF InputsInv
  <2> QED
    BY <2>2, RegistersAfterStep
<1> DEFINE T == {t \in 0 .. Horizon :
                   /\ paths[t] = rollout[t].path
                   /\ rollout[t].hint \in Int
                   /\ rollout[t].path \in Int
                   /\ t # 0 => rollout[t].hint = rollout[t].path}
<1> HIDE DEF rollout, states, paths
<1>12. 0 \in T
  <2>1. paths[0] = rollout[0].path
    BY <1>1, <1>3, <1>8, <1>10
  <2>2. rollout[0].path \in Int
    BY <1>1, <1>2, <1>7, <1>10 DEF Registers
  <2> QED
    BY <1>1, <1>7, <1>10, <2>1, <2>2
<1>13. ASSUME NEW t \in 0 .. Horizon - 1, t \in T PROVE t + 1 \in T
  <2>1. t \in Stages /\ t + 1 \in 0 .. Horizon /\ t + 1 # 0 /\ t \in 0 .. Horizon
    BY <1>1
  <2>2. (IF t = 0 THEN InitialPath ELSE paths[t]) = rollout[t].hint
    BY <1>10, <1>13
  <2>3. paths[t + 1] = PathEvolution(cartesian, states[t + 1], rollout[t].hint)
    BY <1>8, <2>1, <2>2
  <2>4. states[t + 1] = rollout[t + 1].state
    BY <1>3, <2>1
  <2>5. rollout[t + 1].path = PathEvolution(cartesian, rollout[t + 1].state, rollout[t].hint)
          /\ rollout[t + 1].hint = rollout[t + 1].path
    BY <1>11, <2>1
  <2>6. rollout[t + 1].path \in Int
    BY <1>2, <1>4, <1>13, <2>1, <2>5, PathTyped
  <2> QED
    BY <2>1, <2>3, <2>4, <2>5, <2>6
<1> HIDE DEF T
<1>14. \A t \in 0 .. Horizon : t \in T
  BY <1>1, <1>12, <1>13, UpTo
<1> QED
  BY <1>3, <1>5, <1>6, <1>14 DEF T, rollout, states, paths

\* The latches of the walk, the terminal ones too.
LEMMA LatchesFollowRollout ==
  ASSUME InputsInv, NEW k \in Samples,
         \A t \in 0 .. Horizon : SampleRollout(k)[t].state # NotFinite
  PROVE  LET along == LatchesAlong(StatesOf(k), PathsOf(k), FALSE)
             last == SampleRollout(k)[Horizon]
         IN  /\ \A t \in Stages : along[t] = SampleRollout(k)[t + 1].latches
             /\ along[Horizon] = StateLatches(last.state, last.path, last.latches, TRUE)
<1> DEFINE rollout == SampleRollout(k)
           states == StatesOf(k)
           paths == PathsOf(k)
           along == LatchesAlong(states, paths, FALSE)
<1>1. Horizon \in Nat /\ Stages = 0 .. Horizon - 1 /\ Horizon # 0
  BY SizesAssumption DEF Stages
<1>2. \A t \in 0 .. Horizon : states[t] = rollout[t].state /\ paths[t] = rollout[t].path
  BY WalkFollowsRollout
<1>3. /\ along[0] = StateLatches(states[0], paths[0], NoLatches, FALSE \/ LatchesAt(0))
      /\ \A t \in Stages :
           along[t + 1] = StateLatches(states[t + 1], paths[t + 1], along[t],
                                       FALSE \/ LatchesAt(t + 1))
  <2> DEFINE first == FALSE
  <2> HIDE DEF states, paths, first
  <2>1. /\ LatchesAlong(states, paths, first)[0] =
             StateLatches(states[0], paths[0], NoLatches, first \/ LatchesAt(0))
        /\ \A t \in Stages :
             LatchesAlong(states, paths, first)[t + 1] =
               StateLatches(states[t + 1], paths[t + 1],
                            LatchesAlong(states, paths, first)[t],
                            first \/ LatchesAt(t + 1))
    BY LatchesUnfold
  <2> QED
    BY <2>1 DEF first
<1>4. \A t \in Stages :
        rollout[t + 1].latches = StateLatches(rollout[t].state, rollout[t].path,
                                              rollout[t].latches, LatchesAt(t))
  BY RegistersAfterStep
<1>5. rollout[0].latches = NoLatches
  <2>1. rollout[0] = RolloutStart(initial_state, InitialPath, cartesian)
    BY RolloutUnfolds DEF SampleRollout
  <2> QED
    BY <2>1 DEF RolloutStart
<1>6. \A t \in 0 .. Horizon : (FALSE \/ LatchesAt(t)) = LatchesAt(t)
  BY DEF LatchesAt
<1> HIDE DEF rollout, states, paths, along
<1> DEFINE T == {t \in 0 .. Horizon :
                   along[t] = StateLatches(rollout[t].state, rollout[t].path,
                                           rollout[t].latches, LatchesAt(t))}
<1>7. 0 \in T
  BY <1>1, <1>2, <1>3, <1>5, <1>6
<1>8. ASSUME NEW t \in 0 .. Horizon - 1, t \in T PROVE t + 1 \in T
  <2>1. t \in Stages /\ t + 1 \in 0 .. Horizon
    BY <1>1
  <2>2. along[t + 1] = StateLatches(states[t + 1], paths[t + 1], along[t], LatchesAt(t + 1))
    BY <1>3, <1>6, <2>1
  <2>3. along[t] = rollout[t + 1].latches
    BY <1>4, <1>8, <2>1
  <2> QED
    BY <1>2, <2>1, <2>2, <2>3
<1> HIDE DEF T
<1>9. \A t \in 0 .. Horizon : t \in T
  BY <1>1, <1>7, <1>8, UpTo
<1>10. \A t \in Stages : along[t] = rollout[t + 1].latches
  BY <1>1, <1>4, <1>9 DEF T
<1>11. along[Horizon] = StateLatches(rollout[Horizon].state, rollout[Horizon].path,
                                     rollout[Horizon].latches, TRUE)
  <2> DEFINE last == rollout[Horizon]
  <2>1. along[Horizon] =
          StateLatches(last.state, last.path, last.latches, LatchesAt(Horizon))
    BY <1>1, <1>9 DEF T
  <2>2. LatchesAt(Horizon)
    BY <1>1 DEF LatchesAt
  <2>3. StateLatches(last.state, last.path, last.latches, LatchesAt(Horizon)) =
          StateLatches(last.state, last.path, last.latches, TRUE)
    BY <2>2 DEF StateLatches, Latch
  <2> QED
    BY <2>1, <2>3
<1> QED
  BY <1>10, <1>11 DEF rollout, states, paths, along

-----------------------------------------------------------------------------
(* The breakdown.                                                          *)

\* On numbers, adding costs is addition.
LEMMA PlusOfNumbers ==
  ASSUME NEW a \in Int, NEW b \in Int
  PROVE  Plus(a, b) = a + b /\ Plus(a, b) \in Int
  BY WeightAssumption DEF Plus

\* What one step of a rollout that does not diverge adds to its cost.
LEMMA CostOfStep ==
  ASSUME InputsInv, NEW k \in Samples, NEW t \in Stages,
         \A n \in 0 .. Horizon : SampleRollout(k)[n].state # NotFinite,
         SampleRollout(k)[t].cost \in Int
  PROVE  LET before == SampleRollout(k)[t]
             after == SampleRollout(k)[t + 1]
             control == candidates[k][t]
             prior == Prior(candidates[k], PreviousControl, t)
             terms == StateTerms(before.state, after.latches, Discount(t))
         IN  /\ StateCost(before.state, before.path, after.latches, Discount(t))
                  = terms["shape"] + terms["crash"] + terms["sideslip_kill"]
                      + terms["obstacle_latching"]
             /\ after.cost = before.cost
                  + (terms["shape"] + terms["crash"] + terms["sideslip_kill"]
                       + terms["obstacle_latching"])
                  + ControlCost(control, prior) + Importance(control, nominal[t])
                  + AccelerationCost(before.state, after.state)
<1> DEFINE before == SampleRollout(k)[t]
           after == SampleRollout(k)[t + 1]
           control == candidates[k][t]
           prior == Prior(candidates[k], PreviousControl, t)
           terms == StateTerms(before.state, after.latches, Discount(t))
           cost == StateCost(before.state, before.path, after.latches, Discount(t))
           acceleration == AccelerationCost(before.state, after.state)
<1>1. t \in 0 .. Horizon /\ t + 1 \in 0 .. Horizon
  BY SizesAssumption DEF Stages
<1>2. before.state \in States /\ after.state \in States
        /\ NotFinite \notin {before.state, after.state} /\ before.path \in Int
  <2>1. Registers(before) /\ Registers(after)
    BY <1>1, RolloutTyped
  <2>2. before.path \in Int
    BY <1>1, WalkFollowsRollout
  <2>3. before.state # NotFinite /\ after.state # NotFinite
    BY <1>1
  <2> QED
    BY <2>1, <2>2, <2>3 DEF Registers
<1>3. control \in ControlValues /\ prior \in ControlValues /\ nominal[t] \in ControlValues
  BY InputsTyped
<1>4. /\ terms["shape"] \in Nat /\ terms["crash"] \in Nat /\ terms["sideslip_kill"] \in Nat
      /\ terms["obstacle_latching"] \in Nat
      /\ SumTerms(terms) = terms["shape"] + terms["crash"] + terms["sideslip_kill"]
                             + terms["obstacle_latching"]
  BY <1>1, <1>2, StateTermsTyped
<1>5. cost = SumTerms(terms)
  BY <1>2, WeightAssumption DEF StateCost
<1>6. acceleration \in Int
  BY <1>2, AccelerationTyped
<1>7. ControlCost(control, prior) \in Int /\ Importance(control, nominal[t]) \in Int
  BY <1>3, ControlCostTyped
<1>8. after.cost = Plus(Plus(before.cost,
                             Plus(cost, ControlCost(control, prior)
                                          + Importance(control, nominal[t]))),
                        acceleration)
  BY RegistersAfterStep
<1>9. before.cost \in Int
  OBVIOUS
<1> HIDE DEF before, after, control, prior, terms, cost, acceleration
<1> DEFINE controls == ControlCost(control, prior) + Importance(control, nominal[t])
<1>10. controls \in Int /\ cost \in Int
  BY <1>4, <1>5, <1>7
<1>11. Plus(cost, controls) = cost + controls /\ Plus(cost, controls) \in Int
  BY <1>10, PlusOfNumbers
<1>12. Plus(before.cost, Plus(cost, controls)) = before.cost + (cost + controls)
         /\ Plus(before.cost, Plus(cost, controls)) \in Int
  BY <1>9, <1>11, PlusOfNumbers
<1>13. after.cost = before.cost + (cost + controls) + acceleration
  BY <1>6, <1>8, <1>12, PlusOfNumbers
<1>14. cost = terms["shape"] + terms["crash"] + terms["sideslip_kill"]
                + terms["obstacle_latching"]
  BY <1>4, <1>5
<1>15. after.cost = before.cost
         + (terms["shape"] + terms["crash"] + terms["sideslip_kill"]
              + terms["obstacle_latching"])
         + ControlCost(control, prior) + Importance(control, nominal[t]) + acceleration
  BY <1>4, <1>6, <1>7, <1>9, <1>13, <1>14
<1> QED
  BY <1>14, <1>15 DEF before, after, control, prior, terms, cost, acceleration

\* sum[t] adds up the first t values of f.
IsSumOf(sum, f) ==
  /\ sum[0] = 0
  /\ \A t \in Stages : sum[t + 1] = sum[t] + f[t] /\ f[t] \in Int
  /\ \A t \in 0 .. Horizon : sum[t] \in Int

\* Sums over the stages, and over the states.
LEMMA SumOfStages ==
  ASSUME NEW f, f \in [Stages -> Int]
  PROVE  IsSumOf(PrefixSums(f, Horizon), f)
<1>1. Horizon \in Nat /\ Stages = 0 .. Horizon - 1
  BY SizesAssumption DEF Stages
<1> QED
  BY <1>1, PrefixSumsUnfold DEF IsSumOf

\* The same for what is summed over the states, the last one included.
LEMMA SumOfStates ==
  ASSUME NEW f, f \in [0 .. Horizon -> Int]
  PROVE  LET sum == PrefixSums(f, Horizon + 1)
         IN  /\ IsSumOf(sum, f)
             /\ sum[Horizon + 1] = sum[Horizon] + f[Horizon]
<1> DEFINE length == Horizon + 1
<1>1. /\ Horizon \in Nat /\ Stages = 0 .. Horizon - 1 /\ length \in Nat
      /\ 0 .. length - 1 = 0 .. Horizon /\ length = Horizon + 1
  BY SizesAssumption DEF Stages
<1>2. f \in [0 .. length - 1 -> Int]
  BY <1>1
<1> HIDE DEF length
<1> DEFINE sum == PrefixSums(f, length)
<1>3. /\ sum[0] = 0
      /\ \A t \in 0 .. length - 1 : sum[t + 1] = sum[t] + f[t]
      /\ \A t \in 0 .. length : sum[t] \in Int
  BY <1>1, <1>2, PrefixSumsUnfold
<1> HIDE DEF sum
<1>4. IsSumOf(sum, f) /\ sum[Horizon + 1] = sum[Horizon] + f[Horizon]
  BY <1>1, <1>3 DEF IsSumOf
<1> QED
  BY <1>4 DEF sum, length

\* The terms of the breakdown add up to the cost of the rollout.
LEMMA BreakdownOfRollout ==
  ASSUME InputsInv, NEW k \in Samples,
         \A t \in 0 .. Horizon : SampleRollout(k)[t].state # NotFinite
  PROVE  RolloutCost(SampleRollout(k), InitialPath) =
           SumTerms(CostTerms(StatesOf(k), InitialPath, PreviousControl, candidates[k],
                              nominal, cartesian))
<1> DEFINE rollout == SampleRollout(k)
           states == StatesOf(k)
           paths == PathsOf(k)
           length == Horizon + 1
           along == LatchesAlong(states, paths, FALSE)
           controls == candidates[k]
           Speeding(t) == states[t + 1].speed >= states[t].speed
           Values(x) ==
             [t \in 0 .. Horizon |-> StateTerms(states[t], along[t], Discount(t))[x]]
           control == [t \in Stages |->
             ControlCost(controls[t], BreakdownPrior(controls, PreviousControl, t))]
           importance == [t \in Stages |-> Importance(controls[t], nominal[t])]
           acceleration == [t \in Stages |->
             IF Speeding(t) THEN AccelerationCost(states[t], states[t + 1]) ELSE 0]
           deceleration == [t \in Stages |->
             IF Speeding(t) THEN 0 ELSE AccelerationCost(states[t], states[t + 1])]
           terms == CostTerms(states, InitialPath, PreviousControl, controls, nominal,
                              cartesian)
           ofShape == PrefixSums(Values("shape"), length)
           ofCrash == PrefixSums(Values("crash"), length)
           ofSliding == PrefixSums(Values("sideslip_kill"), length)
           ofObstacle == PrefixSums(Values("obstacle_latching"), length)
           ofControl == PrefixSums(control, Horizon)
           ofImportance == PrefixSums(importance, Horizon)
           ofAcceleration == PrefixSums(acceleration, Horizon)
           ofDeceleration == PrefixSums(deceleration, Horizon)
<1>1. Horizon \in Nat /\ Stages = 0 .. Horizon - 1 /\ length \in Nat
        /\ 0 .. length - 1 = 0 .. Horizon /\ length = Horizon + 1 /\ Horizon \in 0 .. Horizon
  BY SizesAssumption DEF Stages
<1>2. /\ terms.shape = ofShape[length]
      /\ terms.crash = ofCrash[length]
      /\ terms.sideslip_kill = ofSliding[length]
      /\ terms.obstacle_latching = ofObstacle[length]
      /\ terms.control = ofControl[Horizon]
      /\ terms.importance = ofImportance[Horizon]
      /\ terms.acceleration = ofAcceleration[Horizon]
      /\ terms.deceleration = ofDeceleration[Horizon]
      /\ terms.progress = -Weight["progress"] * (paths[Horizon] - InitialPath)
  BY DEF CostTerms, AlongStages, AlongStates, PathsOf
<1>3. /\ \A t \in 0 .. Horizon : /\ states[t] = rollout[t].state
                                 /\ paths[t] = rollout[t].path
                                 /\ states[t] \in States
                                 /\ paths[t] \in Int
      /\ \A t \in Stages : along[t] = rollout[t + 1].latches
      /\ along[Horizon] = StateLatches(rollout[Horizon].state, rollout[Horizon].path,
                                       rollout[Horizon].latches, TRUE)
  BY WalkFollowsRollout, LatchesFollowRollout
<1> HIDE DEF length
<1>4. ASSUME NEW t \in 0 .. Horizon
      PROVE  /\ Values("shape")[t] \in Int /\ Values("crash")[t] \in Int
             /\ Values("sideslip_kill")[t] \in Int /\ Values("obstacle_latching")[t] \in Int
             /\ StateCost(states[t], paths[t], along[t], Discount(t)) =
                  Values("shape")[t] + Values("crash")[t] + Values("sideslip_kill")[t]
                    + Values("obstacle_latching")[t]
  <2> DEFINE now == StateTerms(states[t], along[t], Discount(t))
  <2>1. /\ now["shape"] \in Nat /\ now["crash"] \in Nat /\ now["sideslip_kill"] \in Nat
        /\ now["obstacle_latching"] \in Nat
        /\ SumTerms(now) = now["shape"] + now["crash"] + now["sideslip_kill"]
                             + now["obstacle_latching"]
    <3> HIDE DEF states, along
    <3> QED
      BY <1>3, StateTermsTyped
  <2>2. /\ Values("shape")[t] = now["shape"] /\ Values("crash")[t] = now["crash"]
        /\ Values("sideslip_kill")[t] = now["sideslip_kill"]
        /\ Values("obstacle_latching")[t] = now["obstacle_latching"]
    OBVIOUS
  <2>3. StateCost(states[t], paths[t], along[t], Discount(t)) = SumTerms(now)
    <3>1. states[t] # NotFinite /\ paths[t] # NotFinite
      BY <1>3, WeightAssumption
    <3> QED
      BY <3>1 DEF StateCost
  <2> HIDE DEF now, Values, states, paths, along
  <2> QED
    BY <2>1, <2>2, <2>3
<1>5. ASSUME NEW t \in Stages
      PROVE  /\ control[t] = ControlCost(controls[t], Prior(controls, PreviousControl, t))
             /\ importance[t] = Importance(controls[t], nominal[t])
             /\ control[t] \in Int /\ importance[t] \in Int
             /\ acceleration[t] \in Int /\ deceleration[t] \in Int
             /\ acceleration[t] + deceleration[t] =
                  AccelerationCost(rollout[t].state, rollout[t + 1].state)
  <2>1. control[t] = ControlCost(controls[t], Prior(controls, PreviousControl, t))
    BY DEF BreakdownPrior, Prior
  <2>2. importance[t] = Importance(controls[t], nominal[t])
    OBVIOUS
  <2>3. control[t] \in Int /\ importance[t] \in Int
    BY <2>1, <2>2, InputsTyped, ControlCostTyped
  <2>4. t \in 0 .. Horizon /\ t + 1 \in 0 .. Horizon
    BY <1>1
  <2>5. /\ acceleration[t] =
             IF Speeding(t) THEN AccelerationCost(states[t], states[t + 1]) ELSE 0
        /\ deceleration[t] =
             IF Speeding(t) THEN 0 ELSE AccelerationCost(states[t], states[t + 1])
    OBVIOUS
  <2>6. /\ rollout[t].state = states[t] /\ rollout[t + 1].state = states[t + 1]
        /\ states[t] \in States /\ states[t + 1] \in States
        /\ NotFinite \notin {states[t], states[t + 1]}
    BY <1>3, <2>4
  <2> HIDE DEF states, rollout, acceleration, deceleration, control, importance
  <2>7. AccelerationCost(states[t], states[t + 1]) \in Int
    BY <2>6, AccelerationTyped
  <2>8. /\ acceleration[t] \in Int /\ deceleration[t] \in Int
        /\ acceleration[t] + deceleration[t] = AccelerationCost(states[t], states[t + 1])
    BY <2>5, <2>7
  <2> QED
    BY <2>1, <2>2, <2>3, <2>6, <2>8
<1>6. /\ Values("shape") \in [0 .. Horizon -> Int]
      /\ Values("crash") \in [0 .. Horizon -> Int]
      /\ Values("sideslip_kill") \in [0 .. Horizon -> Int]
      /\ Values("obstacle_latching") \in [0 .. Horizon -> Int]
  BY <1>4
<1>7. /\ control \in [Stages -> Int] /\ importance \in [Stages -> Int]
      /\ acceleration \in [Stages -> Int] /\ deceleration \in [Stages -> Int]
  BY <1>5
<1> DEFINE shape == Values("shape")
           crash == Values("crash")
           sliding == Values("sideslip_kill")
           obstacle == Values("obstacle_latching")
<1>8. /\ IsSumOf(ofShape, shape) /\ IsSumOf(ofCrash, crash)
      /\ IsSumOf(ofSliding, sliding) /\ IsSumOf(ofObstacle, obstacle)
      /\ ofShape[length] = ofShape[Horizon] + shape[Horizon]
      /\ ofCrash[length] = ofCrash[Horizon] + crash[Horizon]
      /\ ofSliding[length] = ofSliding[Horizon] + sliding[Horizon]
      /\ ofObstacle[length] = ofObstacle[Horizon] + obstacle[Horizon]
  <2> HIDE DEF Values
  <2> QED
    BY <1>1, <1>6, SumOfStates
<1>9. /\ IsSumOf(ofControl, control) /\ IsSumOf(ofImportance, importance)
      /\ IsSumOf(ofAcceleration, acceleration) /\ IsSumOf(ofDeceleration, deceleration)
  <2> HIDE DEF control, importance, acceleration, deceleration
  <2> QED
    BY <1>7, SumOfStages
<1> DEFINE Summed(t) == ofShape[t] + ofCrash[t] + ofSliding[t] + ofObstacle[t]
                          + ofControl[t] + ofImportance[t] + ofAcceleration[t]
                          + ofDeceleration[t]
           T == {t \in 0 .. Horizon : rollout[t].cost = Summed(t)}
<1>10. ASSUME NEW t \in Stages, rollout[t].cost \in Int
       PROVE  rollout[t + 1].cost =
                rollout[t].cost + (shape[t] + crash[t] + sliding[t] + obstacle[t])
                  + control[t] + importance[t]
                  + AccelerationCost(rollout[t].state, rollout[t + 1].state)
  <2>1. along[t] = rollout[t + 1].latches /\ states[t] = rollout[t].state /\ t \in 0 .. Horizon
    <3> HIDE DEF states, along, rollout, paths
    <3> QED
      BY <1>1, <1>3
  <2>2. /\ shape[t] = StateTerms(rollout[t].state, rollout[t + 1].latches, Discount(t))["shape"]
        /\ crash[t] = StateTerms(rollout[t].state, rollout[t + 1].latches, Discount(t))["crash"]
        /\ sliding[t] =
             StateTerms(rollout[t].state, rollout[t + 1].latches, Discount(t))["sideslip_kill"]
        /\ obstacle[t] = StateTerms(rollout[t].state, rollout[t + 1].latches,
                                    Discount(t))["obstacle_latching"]
    <3> HIDE DEF states, along, rollout
    <3> QED
      BY <2>1
  <2>3. control[t] = ControlCost(controls[t], Prior(controls, PreviousControl, t))
          /\ importance[t] = Importance(controls[t], nominal[t])
    BY <1>5
  <2> HIDE DEF shape, crash, sliding, obstacle, control, importance
  <2> QED
    BY <1>10, <2>2, <2>3, CostOfStep
<1>11. rollout[0].cost = 0
  <2>1. rollout[0] = RolloutStart(initial_state, InitialPath, cartesian)
    BY RolloutUnfolds DEF SampleRollout
  <2> QED
    BY <2>1 DEF RolloutStart
<1>12. Registers(rollout[Horizon]) /\ rollout[Horizon].path \in Int
  BY <1>1, <1>3, RolloutTyped
<1> DEFINE last == rollout[Horizon]
           latched == StateLatches(last.state, last.path, last.latches, TRUE)
           final == StateCost(last.state, last.path, latched, Discount(Horizon))
           progress == -Weight["progress"] * (last.path - InitialPath)
<1>13. RolloutCost(rollout, InitialPath) =
         IF last.path = NotFinite THEN NotFinite ELSE Plus(Plus(last.cost, final), progress)
  BY DEF RolloutCost
<1>14. final = shape[Horizon] + crash[Horizon] + sliding[Horizon] + obstacle[Horizon]
  <2>1. final = StateCost(states[Horizon], paths[Horizon], along[Horizon], Discount(Horizon))
    BY <1>1, <1>3
  <2> HIDE DEF Values, final, states, paths, along
  <2> QED
    BY <1>1, <1>4, <2>1
<1>15. progress \in Int
  <2>1. Weight["progress"] \in Int /\ InitialPath \in Int
    BY InputsTyped, WeightAssumption DEF Terms
  <2> HIDE DEF rollout
  <2> QED
    BY <1>12, <2>1
<1>16. terms.progress = progress
  BY <1>1, <1>2, <1>3
<1>17. shape[Horizon] \in Int /\ crash[Horizon] \in Int /\ sliding[Horizon] \in Int
         /\ obstacle[Horizon] \in Int
  BY <1>1, <1>4
<1> HIDE DEF rollout, states, paths, along, shape, crash, sliding, obstacle, control,
             importance, acceleration, deceleration, terms, ofShape, ofCrash, ofSliding,
             ofObstacle, ofControl, ofImportance, ofAcceleration, ofDeceleration, progress,
             final
<1>18. \A t \in 0 .. Horizon : Summed(t) \in Int
  BY <1>8, <1>9 DEF IsSumOf
<1>19. 0 \in T
  <2>1. /\ ofShape[0] = 0 /\ ofCrash[0] = 0 /\ ofSliding[0] = 0 /\ ofObstacle[0] = 0
        /\ ofControl[0] = 0 /\ ofImportance[0] = 0 /\ ofAcceleration[0] = 0
        /\ ofDeceleration[0] = 0
    BY <1>8, <1>9 DEF IsSumOf
  <2>2. Summed(0) = 0
    BY <2>1
  <2>3. 0 \in 0 .. Horizon
    BY <1>1
  <2> HIDE DEF Summed
  <2> QED
    BY <1>11, <2>2, <2>3
<1>20. ASSUME NEW t \in 0 .. Horizon - 1, t \in T PROVE t + 1 \in T
  <2>1. t \in Stages /\ t \in 0 .. Horizon /\ t + 1 \in 0 .. Horizon
    BY <1>1
  <2>2. rollout[t].cost = Summed(t) /\ rollout[t].cost \in Int
    BY <1>18, <1>20, <2>1
  <2>3. rollout[t + 1].cost =
          rollout[t].cost + (shape[t] + crash[t] + sliding[t] + obstacle[t])
            + control[t] + importance[t]
            + AccelerationCost(rollout[t].state, rollout[t + 1].state)
    BY <1>10, <2>1, <2>2
  <2>4. acceleration[t] + deceleration[t] =
          AccelerationCost(rollout[t].state, rollout[t + 1].state)
    BY <1>5, <2>1
  <2>5. /\ ofShape[t + 1] = ofShape[t] + shape[t]
        /\ ofCrash[t + 1] = ofCrash[t] + crash[t]
        /\ ofSliding[t + 1] = ofSliding[t] + sliding[t]
        /\ ofObstacle[t + 1] = ofObstacle[t] + obstacle[t]
        /\ ofControl[t + 1] = ofControl[t] + control[t]
        /\ ofImportance[t + 1] = ofImportance[t] + importance[t]
        /\ ofAcceleration[t + 1] = ofAcceleration[t] + acceleration[t]
        /\ ofDeceleration[t + 1] = ofDeceleration[t] + deceleration[t]
        /\ {shape[t], crash[t], sliding[t], obstacle[t], control[t], importance[t],
            acceleration[t], deceleration[t], ofShape[t], ofCrash[t], ofSliding[t],
            ofObstacle[t], ofControl[t], ofImportance[t], ofAcceleration[t],
            ofDeceleration[t]} \subseteq Int
    BY <1>8, <1>9, <2>1 DEF IsSumOf
  <2>6. rollout[t + 1].cost = Summed(t + 1)
    BY <2>2, <2>3, <2>4, <2>5
  <2> QED
    BY <2>1, <2>6
<1> HIDE DEF T
<1>21. \A t \in 0 .. Horizon : t \in T
  BY <1>1, <1>19, <1>20, UpTo
<1>22. last.cost = Summed(Horizon) /\ last.cost \in Int
  BY <1>1, <1>18, <1>21 DEF T
<1>23. final \in Int
  BY <1>14, <1>17
<1>24. last.path # NotFinite
  BY <1>12, WeightAssumption
<1>25. Plus(last.cost, final) = last.cost + final /\ Plus(last.cost, final) \in Int
  BY <1>22, <1>23, PlusOfNumbers
<1>26. RolloutCost(rollout, InitialPath) = last.cost + final + progress
  BY <1>13, <1>15, <1>24, <1>25, PlusOfNumbers
<1>27. {ofShape[Horizon], ofCrash[Horizon], ofSliding[Horizon], ofObstacle[Horizon],
        ofControl[Horizon], ofImportance[Horizon], ofAcceleration[Horizon],
        ofDeceleration[Horizon]} \subseteq Int
  BY <1>1, <1>8, <1>9 DEF IsSumOf
<1>28. RolloutCost(rollout, InitialPath) =
         terms.shape + terms.crash + terms.sideslip_kill + terms.obstacle_latching
           + terms.control + terms.importance + terms.acceleration + terms.deceleration
           + terms.progress
  <2> HIDE DEF last
  <2> QED
    BY <1>2, <1>8, <1>14, <1>15, <1>16, <1>17, <1>22, <1>26, <1>27
<1> QED
  BY <1>28 DEF SumTerms, terms, rollout, states

-----------------------------------------------------------------------------
(* The host.                                                               *)

\* A projection follows a step that is short enough.
LEMMA ProjectionFollows ==
  ASSUME NEW path \in Int, NEW hint \in Int,
         Magnitude(path - hint) <= Span, 2 * Magnitude(path - hint) < Lap
  PROVE  ProjectOnTrack(path % Lap, hint) = path
<1> DEFINE laps == path \div Lap
           place == path % Lap
           way == path - hint
<1>1. Lap \in Nat /\ Lap > 0 /\ Span \in Nat
  BY SizesAssumption
<1>2. laps \in Int /\ place \in Int /\ path = Lap * laps + place
  BY <1>1
<1>3. way \in Int /\ path = hint + way /\ -Span <= way /\ way <= Span
        /\ 2 * way < Lap /\ -Lap < 2 * way
  BY <1>1 DEF Magnitude
<1> HIDE DEF laps, place, way
<1> DEFINE rest == Lap - 2 * way
<1>4. rest \in 0 .. 2 * Lap - 1
  BY <1>1, <1>3
<1>5. 2 * (hint - place) + Lap = (2 * Lap) * laps + rest
  BY <1>1, <1>2, <1>3
<1> HIDE DEF rest
<1>6. ((2 * Lap) * laps + rest) \div (2 * Lap) = laps
  <2> DEFINE double == 2 * Lap
  <2>1. double \in Nat /\ double > 0 /\ rest \in 0 .. double - 1
    BY <1>1, <1>4
  <2> HIDE DEF double
  <2>2. (double * laps + rest) \div double = laps
    BY <1>2, <2>1
  <2> QED
    BY <2>2 DEF double
<1>7. place + ((2 * (hint - place) + Lap) \div (2 * Lap)) * Lap = path
  BY <1>1, <1>2, <1>5, <1>6
<1>8. ProjectOnTrack(place, hint) = path
  BY <1>1, <1>3, <1>7 DEF ProjectOnTrack
<1> QED
  BY <1>8 DEF place

\* Then the arc length a rollout works with is that of its state.
LEMMA PathsAreOwn ==
  ASSUME InputsInv, NEW k \in Samples,
         \A t \in 0 .. Horizon : SampleRollout(k)[t].state # NotFinite,
         cartesian => Followed(StatesOf(k))
  PROVE  \A t \in 0 .. Horizon : StatesOf(k)[t].path = SampleRollout(k)[t].path
<1> DEFINE rollout == SampleRollout(k)
           states == StatesOf(k)
           T == {t \in 0 .. Horizon : /\ states[t].path = rollout[t].path
                                      /\ states[t].path = rollout[t].hint}
<1>1. Horizon \in Nat /\ Stages = 0 .. Horizon - 1
  BY SizesAssumption DEF Stages
<1>2. \A t \in 0 .. Horizon : states[t] = rollout[t].state /\ states[t] \in States
                              /\ states[t] # NotFinite /\ states[t].path \in Int
  <2>1. \A t \in 0 .. Horizon : states[t] = rollout[t].state /\ states[t] # NotFinite
    BY WalkFollowsRollout
  <2>2. \A t \in 0 .. Horizon : states[t] \in States
    BY <2>1, RolloutTyped DEF Registers
  <2> QED
    BY <2>1, <2>2 DEF States
<1>3. rollout[0] = RolloutStart(initial_state, InitialPath, cartesian)
  BY RolloutUnfolds DEF SampleRollout
<1>4. rollout[0].state = initial_state /\ rollout[0].hint = InitialPath
  BY <1>3 DEF RolloutStart
<1>5. \A t \in Stages :
        rollout[t + 1].path = PathEvolution(cartesian, rollout[t + 1].state, rollout[t].hint)
  BY RegistersAfterStep
<1>6. \A t \in 0 .. Horizon : rollout[t].hint = rollout[t].path
  BY HintIsPath DEF InputsInv
<1>7. ASSUME NEW t \in Stages, cartesian
      PROVE  /\ Magnitude(states[t + 1].path - states[t].path) <= Span
             /\ 2 * Magnitude(states[t + 1].path - states[t].path) < Lap
  BY <1>7 DEF Followed
<1> HIDE DEF rollout, states
<1>8. 0 \in T
  BY <1>1, <1>2, <1>4, <1>6 DEF InitialPath
<1>9. ASSUME NEW t \in 0 .. Horizon - 1, t \in T PROVE t + 1 \in T
  <2>1. t \in Stages /\ t \in 0 .. Horizon /\ t + 1 \in 0 .. Horizon
    BY <1>1
  <2> DEFINE path == states[t + 1].path
             hint == states[t].path
  <2>2. path \in Int /\ hint \in Int
    BY <1>2, <2>1
  <2>3. rollout[t + 1].path = PathEvolution(cartesian, states[t + 1], hint)
    BY <1>2, <1>5, <1>9, <2>1
  <2>4. PathEvolution(cartesian, states[t + 1], hint) =
          IF cartesian THEN ProjectOnTrack(path % Lap, hint) ELSE path
    BY <1>2, <2>1, <2>2, WeightAssumption DEF PathEvolution
  <2>5. cartesian => ProjectOnTrack(path % Lap, hint) = path
    <3>1. cartesian => /\ Magnitude(path - hint) <= Span
                       /\ 2 * Magnitude(path - hint) < Lap
      BY <1>7, <2>1
    <3> HIDE DEF path, hint
    <3> QED
      BY <2>2, <3>1, ProjectionFollows
  <2>6. rollout[t + 1].path = path
    BY <2>3, <2>4, <2>5
  <2> QED
    BY <1>6, <2>1, <2>6
<1> HIDE DEF T
<1>10. \A t \in 0 .. Horizon : t \in T
  BY <1>1, <1>8, <1>9, UpTo
<1> QED
  BY <1>10 DEF T, rollout, states

\* What one has latched the other has too.
NoMore(held, more) ==
  /\ held.crashed => more.crashed
  /\ held.sliding => more.sliding
  /\ held.close => more.close

\* More latches never make a state cheaper.
LEMMA LatchesCost ==
  ASSUME NEW state \in States, NEW path \in Int, state # NotFinite, NEW t \in 0 .. Horizon,
         NEW held, NEW more, NoMore(held, more)
  PROVE  /\ StateCost(state, path, held, Discount(t)) \in Int
         /\ StateCost(state, path, more, Discount(t)) \in Int
         /\ StateCost(state, path, held, Discount(t))
              <= StateCost(state, path, more, Discount(t))
<1> DEFINE few == StateTerms(state, held, Discount(t))
           many == StateTerms(state, more, Discount(t))
<1>1. /\ StateCost(state, path, held, Discount(t)) = SumTerms(few)
      /\ StateCost(state, path, more, Discount(t)) = SumTerms(many)
  BY WeightAssumption DEF StateCost
<1>2. few["shape"] = many["shape"]
  BY DEF StateTerms, Terms
<1>3. /\ few["crash"] = IF held.crashed THEN Weight["crash"] * Discount(t) ELSE 0
      /\ few["sideslip_kill"] = IF held.sliding THEN Weight["sideslip_kill"] ELSE 0
      /\ few["obstacle_latching"] = IF held.close THEN Weight["obstacle_latching"] ELSE 0
      /\ few["shape"] \in Nat /\ few["crash"] \in Nat /\ few["sideslip_kill"] \in Nat
      /\ few["obstacle_latching"] \in Nat
      /\ SumTerms(few) = few["shape"] + few["crash"] + few["sideslip_kill"]
                           + few["obstacle_latching"]
  BY StateTermsTyped
<1>4. /\ many["crash"] = IF more.crashed THEN Weight["crash"] * Discount(t) ELSE 0
      /\ many["sideslip_kill"] = IF more.sliding THEN Weight["sideslip_kill"] ELSE 0
      /\ many["obstacle_latching"] = IF more.close THEN Weight["obstacle_latching"] ELSE 0
      /\ many["shape"] \in Nat /\ many["crash"] \in Nat /\ many["sideslip_kill"] \in Nat
      /\ many["obstacle_latching"] \in Nat
      /\ SumTerms(many) = many["shape"] + many["crash"] + many["sideslip_kill"]
                            + many["obstacle_latching"]
  BY StateTermsTyped
<1> HIDE DEF few, many
<1>5. few["crash"] <= many["crash"]
  BY <1>3, <1>4 DEF NoMore
<1>6. few["sideslip_kill"] <= many["sideslip_kill"]
  BY <1>3, <1>4 DEF NoMore
<1>7. few["obstacle_latching"] <= many["obstacle_latching"]
  BY <1>3, <1>4 DEF NoMore
<1>8. SumTerms(few) \in Int /\ SumTerms(many) \in Int /\ SumTerms(few) <= SumTerms(many)
  BY <1>2, <1>3, <1>4, <1>5, <1>6, <1>7
<1> QED
  BY <1>1, <1>8

\* Latching keeps that order.
LEMMA LatchingMonotone ==
  ASSUME NEW state, NEW path, NEW held, NEW more, NoMore(held, more)
  PROVE  NoMore(StateLatches(state, path, held, TRUE), StateLatches(state, path, more, TRUE))
<1>1. CASE NotFinite \in {state, path}
  BY <1>1 DEF StateLatches
<1>2. CASE ~ (NotFinite \in {state, path})
  <2>1. /\ StateLatches(state, path, held, TRUE) = Latch(state, path, held, TRUE)
        /\ StateLatches(state, path, more, TRUE) = Latch(state, path, more, TRUE)
    BY <1>2 DEF StateLatches
  <2> DEFINE crash == Magnitude(state.lateral) > HalfWidth \/ path > PassLimit
             slide == Magnitude(state.sideslip) > MaximumSideslip
             near == Clearance(state) < LatchThreshold
             After(before) == Latch(state, path, before, TRUE)
  <2>2. ASSUME NEW before
        PROVE  /\ After(before).crashed <=> before.crashed \/ crash
               /\ After(before).sliding <=> before.sliding \/ slide
               /\ After(before).close <=> before.close \/ near
    BY DEF Latch
  <2> HIDE DEF After, crash, slide, near
  <2>3. NoMore(After(held), After(more))
    BY <2>2 DEF NoMore
  <2> QED
    BY <2>1, <2>3 DEF After
<1> QED
  BY <1>1, <1>2

\* The latches of CostEvaluator::Evaluate.
HostLatches(k) ==
  LatchesAlong(StatesOf(k), [t \in 0 .. Horizon |-> StatesOf(k)[t].path], TRUE)

StartsClean == Latch(initial_state, InitialPath, NoLatches, TRUE) = NoLatches

\* The host latches whatever the kernels do, and no more from a clean start.
LEMMA HostLatchesMore ==
  ASSUME InputsInv, NEW k \in Samples,
         \A t \in 0 .. Horizon : SampleRollout(k)[t].state # NotFinite,
         cartesian => Followed(StatesOf(k))
  PROVE  LET along == LatchesAlong(StatesOf(k), PathsOf(k), FALSE)
         IN  /\ \A t \in 0 .. Horizon : NoMore(along[t], HostLatches(k)[t])
             /\ StartsClean => \A t \in 0 .. Horizon : along[t] = HostLatches(k)[t]
<1> DEFINE states == StatesOf(k)
           paths == PathsOf(k)
           own == [t \in 0 .. Horizon |-> states[t].path]
           along == LatchesAlong(states, paths, FALSE)
           host == LatchesAlong(states, own, TRUE)
<1>1. Horizon \in Nat /\ Stages = 0 .. Horizon - 1
  BY SizesAssumption DEF Stages
<1>2. \A t \in 0 .. Horizon : own[t] = paths[t]
  <2>1. \A t \in 0 .. Horizon : states[t].path = paths[t]
    BY PathsAreOwn, WalkFollowsRollout
  <2> QED
    BY <2>1
<1>3. states[0] = initial_state /\ own[0] = InitialPath
        /\ initial_state # NotFinite /\ InitialPath # NotFinite
  <2>1. SampleRollout(k)[0] = RolloutStart(initial_state, InitialPath, cartesian)
    BY RolloutUnfolds DEF SampleRollout
  <2>2. states[0] = initial_state
    BY <1>1, <2>1, WalkFollowsRollout DEF RolloutStart
  <2>3. own[0] = InitialPath
    BY <1>1, <2>2 DEF InitialPath
  <2> QED
    BY <2>2, <2>3, InputsTyped, WeightAssumption
<1> HIDE DEF states, paths, own
<1>4. /\ along[0] = StateLatches(states[0], paths[0], NoLatches, FALSE)
      /\ \A t \in Stages :
           along[t + 1] = StateLatches(states[t + 1], paths[t + 1], along[t], TRUE)
  <2> DEFINE first == FALSE
  <2> HIDE DEF first
  <2>1. /\ LatchesAlong(states, paths, first)[0] =
             StateLatches(states[0], paths[0], NoLatches, first \/ LatchesAt(0))
        /\ \A t \in Stages :
             LatchesAlong(states, paths, first)[t + 1] =
               StateLatches(states[t + 1], paths[t + 1],
                            LatchesAlong(states, paths, first)[t],
                            first \/ LatchesAt(t + 1))
    BY LatchesUnfold
  <2>2. (first \/ LatchesAt(0)) = FALSE
    BY DEF first, LatchesAt
  <2>3. \A t \in Stages : (first \/ LatchesAt(t + 1)) = TRUE
    BY <1>1 DEF LatchesAt
  <2> QED
    BY <2>1, <2>2, <2>3 DEF first
<1>5. /\ host[0] = StateLatches(states[0], own[0], NoLatches, TRUE)
      /\ \A t \in Stages :
           host[t + 1] = StateLatches(states[t + 1], own[t + 1], host[t], TRUE)
  <2> DEFINE first == TRUE
  <2> HIDE DEF first
  <2>1. /\ LatchesAlong(states, own, first)[0] =
             StateLatches(states[0], own[0], NoLatches, first \/ LatchesAt(0))
        /\ \A t \in Stages :
             LatchesAlong(states, own, first)[t + 1] =
               StateLatches(states[t + 1], own[t + 1],
                            LatchesAlong(states, own, first)[t],
                            first \/ LatchesAt(t + 1))
    BY LatchesUnfold
  <2>2. \A t \in 0 .. Horizon : (first \/ LatchesAt(t)) = TRUE
    BY DEF first
  <2>3. \A t \in Stages : t + 1 \in 0 .. Horizon
    BY <1>1
  <2> QED
    BY <1>1, <2>1, <2>2, <2>3 DEF first
<1>6. along[0] = NoLatches
  <2>1. NotFinite \notin {states[0], paths[0]}
    BY <1>1, <1>2, <1>3
  <2>2. along[0] = Latch(states[0], paths[0], NoLatches, FALSE)
    BY <1>4, <2>1 DEF StateLatches
  <2> QED
    BY <2>2 DEF Latch, NoLatches
<1>7. StartsClean => host[0] = NoLatches
  BY <1>3, <1>5 DEF StartsClean, StateLatches
<1> HIDE DEF along, host
<1> DEFINE T == {t \in 0 .. Horizon : /\ NoMore(along[t], host[t])
                                      /\ StartsClean => along[t] = host[t]}
<1>8. 0 \in T
  BY <1>1, <1>6, <1>7 DEF NoMore, NoLatches
<1>9. ASSUME NEW t \in 0 .. Horizon - 1, t \in T PROVE t + 1 \in T
  <2>1. t \in Stages /\ t + 1 \in 0 .. Horizon /\ own[t + 1] = paths[t + 1]
    BY <1>1, <1>2
  <2>2. /\ along[t + 1] = StateLatches(states[t + 1], paths[t + 1], along[t], TRUE)
        /\ host[t + 1] = StateLatches(states[t + 1], paths[t + 1], host[t], TRUE)
    BY <1>4, <1>5, <2>1
  <2>3. NoMore(along[t], host[t])
    BY <1>9
  <2>4. NoMore(along[t + 1], host[t + 1])
    BY <2>2, <2>3, LatchingMonotone
  <2>5. StartsClean => along[t + 1] = host[t + 1]
    BY <1>9, <2>2
  <2> QED
    BY <2>1, <2>4, <2>5
<1> HIDE DEF T
<1>10. \A t \in 0 .. Horizon : t \in T
  BY <1>1, <1>8, <1>9, UpTo
<1> QED
  BY <1>10 DEF T, HostLatches, along, host, states, paths, own

AtRest == \A t \in Stages : nominal[t] = [torque |-> 0, steering |-> 0]

\* With the nominal at rest a rollout costs no more than the host says.
LEMMA HostCostOfRollout ==
  ASSUME InputsInv, AtRest, NEW k \in Samples,
         \A t \in 0 .. Horizon : SampleRollout(k)[t].state # NotFinite,
         cartesian => Followed(StatesOf(k))
  PROVE  LET cost == RolloutCost(SampleRollout(k), InitialPath)
             host == HostCost(StatesOf(k), PreviousControl, candidates[k])
         IN  cost <= host /\ (StartsClean => cost = host)
<1> DEFINE rollout == SampleRollout(k)
           states == StatesOf(k)
           controls == candidates[k]
           own == [t \in 0 .. Horizon |-> states[t].path]
           hostLatches == HostLatches(k)
           along == LatchesAlong(states, PathsOf(k), FALSE)
           length == Horizon + 1
           stateCosts == [t \in 0 .. Horizon |->
                            StateCost(states[t], own[t], hostLatches[t], Discount(t))]
           stageCosts == [t \in Stages |->
                            ControlCost(controls[t], Prior(controls, PreviousControl, t))
                              + AccelerationCost(states[t], states[t + 1])]
           ofStates == PrefixSums(stateCosts, length)
           ofStages == PrefixSums(stageCosts, Horizon)
           kernelCost(t) == StateCost(rollout[t].state, rollout[t].path, along[t], Discount(t))
<1>1. Horizon \in Nat /\ Stages = 0 .. Horizon - 1 /\ length = Horizon + 1
        /\ Horizon \in 0 .. Horizon
  BY SizesAssumption DEF Stages
<1>2. HostCost(states, PreviousControl, controls) =
        ofStates[length] - Weight["progress"] * (own[Horizon] - own[0]) + ofStages[Horizon]
  BY DEF HostCost, AlongStates, AlongStages, HostLatches
<1>3. /\ \A t \in 0 .. Horizon : /\ states[t] = rollout[t].state
                                 /\ states[t].path = rollout[t].path
                                 /\ states[t] \in States
                                 /\ states[t] # NotFinite
                                 /\ rollout[t].path \in Int
      /\ \A t \in Stages : along[t] = rollout[t + 1].latches
      /\ along[Horizon] = StateLatches(rollout[Horizon].state, rollout[Horizon].path,
                                       rollout[Horizon].latches, TRUE)
  BY WalkFollowsRollout, LatchesFollowRollout, PathsAreOwn
<1>4. ASSUME NEW t \in 0 .. Horizon
      PROVE  /\ stateCosts[t] \in Int /\ kernelCost(t) \in Int
             /\ kernelCost(t) <= stateCosts[t]
             /\ StartsClean => kernelCost(t) = stateCosts[t]
  <2>1. NoMore(along[t], hostLatches[t]) /\ (StartsClean => along[t] = hostLatches[t])
    BY HostLatchesMore
  <2>2. stateCosts[t] = StateCost(rollout[t].state, rollout[t].path, hostLatches[t],
                                  Discount(t))
    <3> HIDE DEF states, rollout, hostLatches
    <3> QED
      BY <1>3
  <2>3. rollout[t].state \in States /\ rollout[t].path \in Int /\ rollout[t].state # NotFinite
    BY <1>3
  <2> HIDE DEF states, rollout, hostLatches, along, stateCosts
  <2> QED
    BY <2>1, <2>2, <2>3, LatchesCost
<1>5. ASSUME NEW t \in Stages
      PROVE  /\ ControlCost(controls[t], Prior(controls, PreviousControl, t)) \in Int
             /\ Importance(controls[t], nominal[t]) = 0
             /\ AccelerationCost(rollout[t].state, rollout[t + 1].state) \in Int
             /\ stageCosts[t] \in Int
             /\ stageCosts[t] = ControlCost(controls[t], Prior(controls, PreviousControl, t))
                                  + AccelerationCost(rollout[t].state, rollout[t + 1].state)
  <2>1. t \in 0 .. Horizon /\ t + 1 \in 0 .. Horizon
    BY <1>1
  <2>2. ControlCost(controls[t], Prior(controls, PreviousControl, t)) \in Int
    BY InputsTyped, ControlCostTyped
  <2>3. Importance(controls[t], nominal[t]) = 0
    <3>1. controls[t].torque \in Int /\ controls[t].steering \in Int
      BY InputsTyped DEF ControlValues
    <3>2. nominal[t].torque = 0 /\ nominal[t].steering = 0
      BY DEF AtRest
    <3>3. Gamma \in Int
      BY WeightAssumption
    <3> DEFINE torque == controls[t].torque
               steering == controls[t].steering
    <3> HIDE DEF torque, steering
    <3>4. Importance(controls[t], nominal[t]) = Gamma * (0 * (torque - 0) + 0 * (steering - 0))
      BY <3>2 DEF Importance, torque, steering
    <3> QED
      BY <3>1, <3>3, <3>4 DEF torque, steering
  <2>4. /\ rollout[t].state \in States /\ rollout[t + 1].state \in States
        /\ rollout[t].state # NotFinite /\ rollout[t + 1].state # NotFinite
        /\ states[t] = rollout[t].state /\ states[t + 1] = rollout[t + 1].state
    BY <1>3, <2>1
  <2> HIDE DEF states, rollout
  <2>5. AccelerationCost(rollout[t].state, rollout[t + 1].state) \in Int
    BY <2>4, AccelerationTyped
  <2>6. stageCosts[t] = ControlCost(controls[t], Prior(controls, PreviousControl, t))
                          + AccelerationCost(rollout[t].state, rollout[t + 1].state)
    BY <2>4
  <2> HIDE DEF stageCosts
  <2> QED
    BY <2>2, <2>3, <2>5, <2>6
<1>6. IsSumOf(ofStages, stageCosts)
  <2>1. stageCosts \in [Stages -> Int]
    BY <1>5
  <2> HIDE DEF stageCosts
  <2> QED
    BY <2>1, SumOfStages
<1>7. IsSumOf(ofStates, stateCosts) /\ ofStates[length] = ofStates[Horizon] + stateCosts[Horizon]
  <2>1. stateCosts \in [0 .. Horizon -> Int]
    BY <1>4
  <2> HIDE DEF stateCosts
  <2> QED
    BY <2>1, SumOfStates
<1>8. ASSUME NEW t \in Stages, rollout[t].cost \in Int
      PROVE  rollout[t + 1].cost =
               rollout[t].cost + kernelCost(t)
                 + ControlCost(controls[t], Prior(controls, PreviousControl, t))
                 + Importance(controls[t], nominal[t])
                 + AccelerationCost(rollout[t].state, rollout[t + 1].state)
  <2>1. along[t] = rollout[t + 1].latches
    <3> HIDE DEF along, rollout, states
    <3> QED
      BY <1>3
  <2> DEFINE now == StateTerms(rollout[t].state, rollout[t + 1].latches, Discount(t))
  <2>2. /\ StateCost(rollout[t].state, rollout[t].path, rollout[t + 1].latches, Discount(t))
             = now["shape"] + now["crash"] + now["sideslip_kill"] + now["obstacle_latching"]
        /\ rollout[t + 1].cost = rollout[t].cost
             + (now["shape"] + now["crash"] + now["sideslip_kill"] + now["obstacle_latching"])
             + ControlCost(controls[t], Prior(controls, PreviousControl, t))
             + Importance(controls[t], nominal[t])
             + AccelerationCost(rollout[t].state, rollout[t + 1].state)
    BY <1>8, CostOfStep
  <2> HIDE DEF now, rollout, along, controls
  <2> QED
    BY <2>1, <2>2
<1>9. rollout[0].cost = 0 /\ rollout[0].state = initial_state
  <2>1. rollout[0] = RolloutStart(initial_state, InitialPath, cartesian)
    BY RolloutUnfolds DEF SampleRollout
  <2> QED
    BY <2>1 DEF RolloutStart
<1> DEFINE last == rollout[Horizon]
           latched == StateLatches(last.state, last.path, last.latches, TRUE)
           final == StateCost(last.state, last.path, latched, Discount(Horizon))
           way == last.path - InitialPath
<1>10. RolloutCost(rollout, InitialPath) =
         IF last.path = NotFinite THEN NotFinite
         ELSE Plus(Plus(last.cost, final), -Weight["progress"] * way)
  BY DEF RolloutCost
<1>11. final = kernelCost(Horizon)
  BY <1>3
<1>12. way \in Int /\ last.path # NotFinite /\ own[Horizon] - own[0] = way
  <2>1. InitialPath \in Int /\ last.path \in Int
    BY <1>1, <1>3, InputsTyped
  <2>2. last.path # NotFinite
    BY <2>1, WeightAssumption
  <2>3. own[Horizon] = last.path /\ own[0] = InitialPath
    BY <1>1, <1>3, <1>9 DEF InitialPath
  <2> HIDE DEF last, own
  <2> QED
    BY <2>1, <2>2, <2>3
<1> DEFINE T == {t \in 0 .. Horizon :
                   /\ rollout[t].cost \in Int
                   /\ rollout[t].cost <= ofStates[t] + ofStages[t]
                   /\ StartsClean => rollout[t].cost = ofStates[t] + ofStages[t]}
<1> HIDE DEF rollout, states, own, hostLatches, along, stateCosts, stageCosts, ofStates,
             ofStages, kernelCost, way, final, length
<1>13. 0 \in T
  <2>1. ofStates[0] = 0 /\ ofStages[0] = 0
    BY <1>6, <1>7 DEF IsSumOf
  <2> QED
    BY <1>1, <1>9, <2>1
<1>14. ASSUME NEW t \in 0 .. Horizon - 1, t \in T PROVE t + 1 \in T
  <2>1. t \in Stages /\ t \in 0 .. Horizon /\ t + 1 \in 0 .. Horizon
    BY <1>1
  <2>2. /\ rollout[t].cost \in Int
        /\ rollout[t].cost <= ofStates[t] + ofStages[t]
        /\ StartsClean => rollout[t].cost = ofStates[t] + ofStages[t]
    BY <1>14
  <2>3. /\ ofStates[t + 1] = ofStates[t] + stateCosts[t]
        /\ ofStages[t + 1] = ofStages[t] + stageCosts[t]
        /\ ofStates[t] \in Int /\ ofStages[t] \in Int
    BY <1>6, <1>7, <2>1 DEF IsSumOf
  <2> DEFINE effort == ControlCost(controls[t], Prior(controls, PreviousControl, t))
             change == AccelerationCost(rollout[t].state, rollout[t + 1].state)
             drawn == Importance(controls[t], nominal[t])
  <2>4. effort \in Int /\ drawn = 0 /\ change \in Int
          /\ stageCosts[t] = effort + change
    BY <1>5, <2>1
  <2>5. rollout[t + 1].cost = rollout[t].cost + kernelCost(t) + effort + drawn + change
    BY <1>8, <2>1, <2>2
  <2>6. /\ stateCosts[t] \in Int /\ kernelCost(t) \in Int /\ kernelCost(t) <= stateCosts[t]
        /\ StartsClean => kernelCost(t) = stateCosts[t]
    BY <1>4, <2>1
  <2> HIDE DEF effort, change, drawn
  <2>7. /\ rollout[t + 1].cost \in Int
        /\ rollout[t + 1].cost <= ofStates[t + 1] + ofStages[t + 1]
    BY <2>2, <2>3, <2>4, <2>5, <2>6
  <2>8. ASSUME StartsClean PROVE rollout[t + 1].cost = ofStates[t + 1] + ofStages[t + 1]
    <3>1. rollout[t].cost = ofStates[t] + ofStages[t] /\ kernelCost(t) = stateCosts[t]
      BY <2>2, <2>6, <2>8
    <3> QED
      BY <2>3, <2>4, <2>5, <2>6, <3>1
  <2> QED
    BY <2>1, <2>7, <2>8
<1> HIDE DEF T
<1>15. \A t \in 0 .. Horizon : t \in T
  BY <1>1, <1>13, <1>14, UpTo
<1>16. /\ last.cost \in Int
       /\ last.cost <= ofStates[Horizon] + ofStages[Horizon]
       /\ StartsClean => last.cost = ofStates[Horizon] + ofStages[Horizon]
  BY <1>1, <1>15 DEF T
<1> HIDE DEF last
<1>17. /\ final \in Int /\ stateCosts[Horizon] \in Int /\ final <= stateCosts[Horizon]
       /\ StartsClean => final = stateCosts[Horizon]
  BY <1>1, <1>4, <1>11
<1> DEFINE progress == Weight["progress"] * way
<1>18. progress \in Int /\ -Weight["progress"] * way = -progress
         /\ Weight["progress"] * (own[Horizon] - own[0]) = progress
  BY <1>12, WeightAssumption DEF Terms
<1> HIDE DEF progress
<1>19. Plus(last.cost, final) = last.cost + final /\ Plus(last.cost, final) \in Int
  BY <1>16, <1>17, PlusOfNumbers
<1>20. RolloutCost(rollout, InitialPath) = last.cost + final - progress
  <2>1. -progress \in Int
    BY <1>18
  <2>2. Plus(Plus(last.cost, final), -progress) = Plus(last.cost, final) + -progress
    BY <1>19, <2>1, PlusOfNumbers
  <2> QED
    BY <1>10, <1>12, <1>16, <1>17, <1>18, <1>19, <2>2
<1>21. ofStates[Horizon] \in Int /\ ofStages[Horizon] \in Int
  BY <1>1, <1>6, <1>7 DEF IsSumOf
<1>22. HostCost(states, PreviousControl, controls) =
         ofStates[Horizon] + stateCosts[Horizon] - progress + ofStages[Horizon]
  BY <1>2, <1>7, <1>17, <1>18, <1>21
<1>23. RolloutCost(rollout, InitialPath) <= HostCost(states, PreviousControl, controls)
  BY <1>16, <1>17, <1>18, <1>20, <1>21, <1>22
<1>24. ASSUME StartsClean
       PROVE  RolloutCost(rollout, InitialPath) = HostCost(states, PreviousControl, controls)
  <2>1. last.cost = ofStates[Horizon] + ofStages[Horizon] /\ final = stateCosts[Horizon]
    BY <1>16, <1>17, <1>24
  <2> QED
    BY <1>16, <1>17, <1>18, <1>20, <1>21, <1>22, <2>1
<1> QED
  BY <1>23, <1>24 DEF rollout, states

-----------------------------------------------------------------------------

\* A solve does not change what it is given.
LEMMA InputsInvariance == Spec => []InputsInv
<1>1. Init => InputsInv
  BY DEF Init, InputsInv
<1>2. InputsInv /\ [Next]_vars => InputsInv'
  <2>1. [Next]_vars => UNCHANGED inputVars
    BY DEF Next, RolloutAndCost, InitializeNeuralRollouts, NeuralStageCostAndPack,
           PackNeuralInputs, InferAsync, NeuralIntegrateAndStore, FinalizeNeuralCosts,
           ComputeWeights, SelectHeaviest, Finished
  <2> QED
    BY <2>1 DEF InputsInv
<1> QED
  BY <1>1, <1>2, PTL DEF Spec

\* What a rollout that has not diverged left behind.
LEMMA StatesLeft ==
  ASSUME KernelsAgree, kernel = "weigh", NEW k \in Samples, ~ Diverged(k)
  PROVE  /\ trajectories[k] = StatesOf(k)
         /\ costs[k] = RolloutCost(SampleRollout(k), InitialPath)
         /\ \A t \in 0 .. Horizon : SampleRollout(k)[t].state # NotFinite
<1>1. /\ trajectories[k] = [t \in 0 .. Horizon |-> SampleRollout(k)[t].state]
      /\ costs[k] = RolloutCost(SampleRollout(k), InitialPath)
  BY DEF KernelsAgree
<1>2. \A t \in 0 .. Horizon : trajectories[k][t] = SampleRollout(k)[t].state
  BY <1>1
<1>3. \A t \in 0 .. Horizon : trajectories[k][t] # NotFinite
  BY DEF Diverged
<1> QED
  BY <1>1, <1>2, <1>3 DEF StatesOf

\* The breakdown that is published explains the cost of every rollout that did
\* not diverge, whatever the weights, the horizon and the frame.
THEOREM BreakdownCorrect == Spec => []BreakdownSumsToCost
<1>1. InputsInv /\ KernelsAgree => BreakdownSumsToCost
  <2> SUFFICES ASSUME InputsInv, KernelsAgree, kernel = "weigh",
                      NEW k \in Samples, ~ Diverged(k)
               PROVE  costs[k] = SumTerms(CostTerms(trajectories[k], InitialPath,
                                   PreviousControl, candidates[k], nominal, cartesian))
    BY DEF BreakdownSumsToCost
  <2> QED
    BY StatesLeft, BreakdownOfRollout
<1> QED
  BY <1>1, KernelsCorrect, InputsInvariance, PTL

\* The reference on the host agrees with the kernels from a clean start, and is
\* never cheaper.
THEOREM HostAgrees == Spec => []HostAgreesFromCleanStart
<1>1. InputsInv /\ KernelsAgree => HostAgreesFromCleanStart
  <2> SUFFICES ASSUME InputsInv, KernelsAgree, kernel = "weigh", AtRest,
                      NEW k \in Samples, ~ Diverged(k),
                      cartesian => Followed(trajectories[k])
               PROVE  LET host == HostCost(trajectories[k], PreviousControl, candidates[k])
                      IN  costs[k] <= host /\ (StartsClean => costs[k] = host)
    BY DEF HostAgreesFromCleanStart, AtRest, StartsClean
  <2> QED
    BY StatesLeft, HostCostOfRollout
<1> QED
  BY <1>1, KernelsCorrect, InputsInvariance, PTL

-----------------------------------------------------------------------------
(* The picks.                                                              *)

\* A sequence shorter than the samples are many leaves one out.
LEMMA OneLeftOut ==
  ASSUME NEW s \in Seq(Samples), Len(s) < SampleCount
  PROVE  \E k \in Samples : \A n \in 1 .. Len(s) : s[n] # k
<1> SUFFICES ASSUME \A k \in Samples : \E n \in 1 .. Len(s) : s[n] = k
             PROVE  FALSE
  OBVIOUS
<1> DEFINE S == Samples
           T == 1 .. Len(s)
           f == [k \in S |-> CHOOSE n \in T : s[n] = k]
<1>1. SampleCount \in Nat /\ SampleCount > 0 /\ Len(s) \in Nat
  BY SamplesAssumption
<1>2. IsFiniteSet(S) /\ Cardinality(S) = SampleCount
  <2> DEFINE first == 0
             last == SampleCount - 1
  <2>1. first \in Int /\ last \in Int /\ last - first + 1 = SampleCount /\ ~ (first > last)
    BY <1>1
  <2> HIDE DEF first, last
  <2>2. IsFiniteSet(first .. last) /\ Cardinality(first .. last) = last - first + 1
    BY <2>1, FS_Interval
  <2> QED
    BY <2>1, <2>2 DEF Samples, first, last
<1>3. IsFiniteSet(T) /\ Cardinality(T) = Len(s)
  <2>1. CASE Len(s) = 0
    <3>1. 1 .. Len(s) = 1 .. 0
      BY <2>1
    <3>2. IsFiniteSet(1 .. 0) /\ Cardinality(1 .. 0) = 0
      BY FS_Interval
    <3> QED
      BY <2>1, <3>1, <3>2
  <2>2. CASE Len(s) # 0
    <3> DEFINE first == 1
               last == Len(s)
    <3>1. first \in Int /\ last \in Int /\ last - first + 1 = Len(s) /\ ~ (first > last)
      BY <1>1, <2>2
    <3> HIDE DEF first, last
    <3>2. IsFiniteSet(first .. last) /\ Cardinality(first .. last) = last - first + 1
      BY <3>1, FS_Interval
    <3> QED
      BY <3>1, <3>2 DEF first, last
  <2> QED
    BY <2>1, <2>2
<1>4. f \in [S -> T] /\ \A k \in S : s[f[k]] = k
  OBVIOUS
<1> HIDE DEF S, T, f
<1>5. \E x, y \in S : x # y /\ f[x] = f[y]
  BY <1>1, <1>2, <1>3, <1>4, FS_PigeonHole
<1> QED
  BY <1>4, <1>5

\* Among any samples one ranks before all others, and no other does.
LEMMA FirstRanked ==
  ASSUME weights \in [Samples -> 0 .. Underflow], NEW E, E \subseteq Samples, E # {}
  PROVE  \E p \in E : /\ \A j \in E \ {p} : RanksBefore(p, j)
                      /\ {k \in E : \A j \in E \ {k} : RanksBefore(k, j)} = {p}
<1> DEFINE Lacks == {Underflow - weights[k] : k \in E}
<1>1. Underflow \in Nat /\ SampleCount \in Nat
  BY SamplesAssumption
<1>2. \A k \in E : k \in Nat /\ weights[k] \in Nat /\ Underflow - weights[k] \in Nat
  BY <1>1 DEF Samples
<1>3. Lacks \subseteq Nat /\ Lacks # {}
  BY <1>2
<1>4. PICK least \in Lacks : \A y \in Lacks : ~ (y < least)
  <2> HIDE DEF Lacks
  <2> QED
    BY <1>3, LeastNumber
<1> DEFINE Heaviest == {k \in E : Underflow - weights[k] = least}
<1>5. Heaviest \subseteq Nat /\ Heaviest # {}
  BY <1>2, <1>4
<1>6. PICK p \in Heaviest : \A k \in Heaviest : ~ (k < p)
  <2> HIDE DEF Heaviest
  <2> QED
    BY <1>5, LeastNumber
<1>7. ASSUME NEW j \in E \ {p} PROVE RanksBefore(p, j)
  <2>1. /\ weights[p] \in Nat /\ weights[j] \in Nat /\ p \in Nat /\ j \in Nat /\ p # j
        /\ Underflow - weights[p] = least /\ ~ (Underflow - weights[j] < least)
    BY <1>2, <1>4, <1>6
  <2>2. weights[j] <= weights[p]
    BY <1>1, <2>1
  <2>3. weights[j] = weights[p] => p < j
    BY <1>6, <2>1
  <2> QED
    BY <2>1, <2>2, <2>3 DEF RanksBefore
<1>8. ASSUME NEW k \in E, \A j \in E \ {k} : RanksBefore(k, j)
      PROVE  k = p
  <2> SUFFICES ASSUME k # p PROVE FALSE
    OBVIOUS
  <2>1. RanksBefore(k, p) /\ RanksBefore(p, k)
    BY <1>7, <1>8
  <2>2. weights[p] \in Nat /\ weights[k] \in Nat /\ p \in Nat /\ k \in Nat
    BY <1>2
  <2> QED
    BY <2>1, <2>2 DEF RanksBefore
<1>9. p \in E
  OBVIOUS
<1> HIDE DEF Heaviest
<1> QED
  BY <1>7, <1>8, <1>9

\* Weights fall with the cost.
LEMMA SoftmaxFalls ==
  ASSUME NEW a \in Nat, NEW b \in Nat, a <= b
  PROVE  /\ Softmax(a) \in 0 .. Underflow /\ Softmax(b) \in 0 .. Underflow
         /\ Softmax(b) <= Softmax(a)
<1> DEFINE low == a \div Lambda
           high == b \div Lambda
<1>1. Lambda \in Nat /\ Lambda > 0 /\ Underflow \in Nat
  BY SamplesAssumption
<1>2. /\ low \in Nat /\ high \in Nat
      /\ Lambda * low <= a /\ b < Lambda * (high + 1)
  BY <1>1
<1> HIDE DEF low, high
<1>3. low <= high
  <2> SUFFICES ASSUME high + 1 <= low PROVE FALSE
    BY <1>2
  <2>1. PICK d \in Nat : low = (high + 1) + d
    <3>1. low - (high + 1) \in Nat /\ low = (high + 1) + (low - (high + 1))
      BY <1>2
    <3> QED
      BY <3>1
  <2>2. Lambda * low = Lambda * (high + 1) + Lambda * d /\ Lambda * d \in Nat
    BY <1>1, <1>2, <2>1
  <2>3. Lambda * (high + 1) \in Nat /\ Lambda * low \in Nat
    BY <1>1, <1>2
  <2> QED
    BY <1>2, <2>2, <2>3
<1>4. Softmax(a) = (IF low >= Underflow THEN 0 ELSE Underflow - low)
        /\ Softmax(b) = (IF high >= Underflow THEN 0 ELSE Underflow - high)
  BY DEF Softmax, low, high
<1> QED
  BY <1>1, <1>2, <1>3, <1>4

\* Costs lie between a least and a greatest.
LEMMA CostsBounded ==
  ASSUME \A k \in Samples : costs[k] \in Int \cup {NotFinite}, FiniteCosts # {}
  PROVE  /\ FiniteCosts \subseteq Int
         /\ Min(FiniteCosts) \in FiniteCosts /\ \A c \in FiniteCosts : Min(FiniteCosts) <= c
         /\ Max(FiniteCosts) \in FiniteCosts /\ \A c \in FiniteCosts : c <= Max(FiniteCosts)
<1>1. SampleCount \in Nat /\ FiniteCosts \subseteq Int
  BY SamplesAssumption DEF FiniteCosts
<1> DEFINE Before(n) == {costs[k] : k \in 0 .. n - 1} \ {NotFinite}
           T == {n \in 0 .. SampleCount :
                   \E b \in Nat : \A c \in Before(n) : -b <= c /\ c <= b}
<1>2. 0 \in T
  BY <1>1
<1>3. ASSUME NEW n \in 0 .. SampleCount - 1, n \in T PROVE n + 1 \in T
  <2>1. PICK b \in Nat : \A c \in Before(n) : -b <= c /\ c <= b
    BY <1>3
  <2>2. n \in Samples /\ costs[n] \in Int \cup {NotFinite}
    BY DEF Samples
  <2>3. \A k \in 0 .. (n + 1) - 1 : k = n \/ k \in 0 .. n - 1
    BY <1>1
  <2>4. ASSUME NEW c \in Before(n + 1) PROVE c = costs[n] \/ c \in Before(n)
    BY <2>3
  <2>5. ASSUME NEW c \in Before(n + 1) PROVE c \in Int
    <3>1. \A k \in 0 .. (n + 1) - 1 : k \in Samples
      BY <1>1 DEF Samples
    <3> QED
      BY <3>1
  <2> HIDE DEF Before
  <2> DEFINE more == IF costs[n] \in Int THEN b + Magnitude(costs[n]) ELSE b
  <2>6. more \in Nat /\ b <= more
          /\ (costs[n] \in Int => -more <= costs[n] /\ costs[n] <= more)
    BY DEF Magnitude
  <2> HIDE DEF more
  <2>7. \A c \in Before(n + 1) : -more <= c /\ c <= more
    BY <2>1, <2>4, <2>5, <2>6
  <2>8. n + 1 \in 0 .. SampleCount
    BY <1>1
  <2> QED
    BY <2>6, <2>7, <2>8
<1> HIDE DEF T
<1>4. SampleCount \in T
  <2>1. \A n \in 0 .. SampleCount : n \in T
    BY <1>1, <1>2, <1>3, UpTo
  <2> QED
    BY <1>1, <2>1
<1>5. PICK b \in Nat : \A c \in FiniteCosts : -b <= c /\ c <= b
  BY <1>4 DEF T, FiniteCosts, Samples
<1>6. \E x \in FiniteCosts : \A y \in FiniteCosts : x <= y
  <2> DEFINE U == {c + b : c \in FiniteCosts}
  <2>1. \A c \in FiniteCosts : c \in Int /\ c + b \in Nat
    BY <1>1, <1>5
  <2>2. PICK u \in U : \A v \in U : ~ (v < u)
    <3>1. U \subseteq Nat /\ U # {}
      BY <2>1
    <3> HIDE DEF U
    <3> QED
      BY <3>1, LeastNumber
  <2>3. \A y \in FiniteCosts : ~ (y + b < u)
    <3>1. \A y \in FiniteCosts : y + b \in U
      OBVIOUS
    <3> HIDE DEF U
    <3> QED
      BY <2>2, <3>1
  <2> QED
    BY <2>1, <2>3
<1>7. \E x \in FiniteCosts : \A y \in FiniteCosts : x >= y
  <2> DEFINE U == {b - c : c \in FiniteCosts}
  <2>1. \A c \in FiniteCosts : c \in Int /\ b - c \in Nat
    BY <1>1, <1>5
  <2>2. PICK u \in U : \A v \in U : ~ (v < u)
    <3>1. U \subseteq Nat /\ U # {}
      BY <2>1
    <3> HIDE DEF U
    <3> QED
      BY <3>1, LeastNumber
  <2>3. \A y \in FiniteCosts : ~ (b - y < u)
    <3>1. \A y \in FiniteCosts : b - y \in U
      OBVIOUS
    <3> HIDE DEF U
    <3> QED
      BY <2>2, <3>1
  <2> QED
    BY <2>1, <2>3
<1>8. Min(FiniteCosts) \in FiniteCosts /\ \A c \in FiniteCosts : Min(FiniteCosts) <= c
  BY <1>6 DEF Min
<1>9. Max(FiniteCosts) \in FiniteCosts /\ \A c \in FiniteCosts : Max(FiniteCosts) >= c
  BY <1>7 DEF Max
<1> QED
  BY <1>1, <1>8, <1>9

\* The pick of the round before.
Last == IF selected = <<>> THEN SampleCount ELSE selected[Len(selected)]

\* A rollout that has diverged weighs no more than any other.
WeightsInv ==
  /\ weights \in [Samples -> 0 .. Underflow]
  /\ \A i, j \in Samples : Diverged(i) => weights[i] <= weights[j]

\* Every pick ranks before all that were left after it.
PicksInv ==
  /\ selected \in Seq(Samples)
  /\ Len(selected) <= SelectCount
  /\ kernel # "select" => selected = <<>>
  /\ kernel = "select" =>
       /\ WeightsInv
       /\ \A i \in 1 .. Len(selected) :
            /\ \A j \in 1 .. i - 1 : selected[j] # selected[i]
            /\ \A j \in Samples \ {selected[n] : n \in 1 .. i} : RanksBefore(selected[i], j)

\* A sample that has diverged weighs no more than any other.
LEMMA WeighStep ==
  ASSUME InputsInv, KernelsAgree, PicksInv, ComputeWeights
  PROVE  PicksInv'
<1>1. /\ kernel = "weigh" /\ kernel' = "select" /\ UNCHANGED <<selected, trajectories>>
      /\ selected = <<>>
  BY DEF ComputeWeights, PicksInv
<1>2. Underflow \in Nat
  BY SamplesAssumption
<1>3. ASSUME NEW k \in Samples
      PROVE  /\ costs[k] \in Int \cup {NotFinite}
             /\ Diverged(k) => costs[k] = NotFinite
  <2>1. /\ trajectories[k] = [t \in 0 .. Horizon |-> SampleRollout(k)[t].state]
        /\ costs[k] = RolloutCost(SampleRollout(k), InitialPath)
    BY <1>1 DEF KernelsAgree
  <2>2. \A t \in 0 .. Horizon : trajectories[k][t] = SampleRollout(k)[t].state
    BY <2>1
  <2>3. Diverged(k) => \E t \in 0 .. Horizon : SampleRollout(k)[t].state = NotFinite
    BY <2>2 DEF Diverged
  <2> QED
    BY <2>1, <2>3, RolloutCostTyped
<1>4. \A k \in Samples : weights'[k] =
        IF FiniteCosts = {} THEN 1 ELSE Softmax(Sanitized(k) - Min(FiniteCosts))
  BY DEF ComputeWeights
<1>5. weights' = [k \in Samples |-> weights'[k]]
  BY DEF ComputeWeights
<1>6. WeightsInv'
  <2>1. CASE FiniteCosts = {}
    <3>1. \A k \in Samples : weights'[k] = 1
      BY <1>4, <2>1
    <3>2. Underflow \in Nat \ {0}
      BY SamplesAssumption
    <3> QED
      BY <1>5, <3>1, <3>2 DEF WeightsInv
  <2>2. CASE FiniteCosts # {}
    <3>1. /\ FiniteCosts \subseteq Int
          /\ Min(FiniteCosts) \in FiniteCosts /\ \A c \in FiniteCosts : Min(FiniteCosts) <= c
          /\ Max(FiniteCosts) \in FiniteCosts /\ \A c \in FiniteCosts : c <= Max(FiniteCosts)
      BY <1>3, <2>2, CostsBounded
    <3>2. ASSUME NEW k \in Samples
          PROVE  /\ Sanitized(k) \in FiniteCosts
                 /\ costs[k] = NotFinite => Sanitized(k) = Max(FiniteCosts)
      BY <2>2, <3>1 DEF Sanitized, FiniteCosts
    <3> DEFINE least == Min(FiniteCosts)
               excess(k) == Sanitized(k) - least
    <3>3. ASSUME NEW k \in Samples
          PROVE  /\ excess(k) \in Nat
                 /\ costs[k] = NotFinite => \A j \in Samples : excess(j) <= excess(k)
      <4>1. \A j \in Samples : Sanitized(j) \in Int /\ least \in Int /\ least <= Sanitized(j)
        BY <3>1, <3>2
      <4>2. costs[k] = NotFinite => \A j \in Samples : Sanitized(j) <= Sanitized(k)
        BY <3>1, <3>2
      <4> HIDE DEF least
      <4> QED
        BY <4>1, <4>2
    <3>4. \A k \in Samples : weights'[k] = Softmax(excess(k))
      BY <1>4, <2>2
    <3> HIDE DEF excess
    <3>5. \A k \in Samples : weights'[k] \in 0 .. Underflow
      BY <3>3, <3>4, SoftmaxFalls
    <3>6. \A i, j \in Samples : costs[i] = NotFinite => weights'[i] <= weights'[j]
      BY <3>3, <3>4, SoftmaxFalls
    <3>7. \A k \in Samples : Diverged(k)' <=> Diverged(k)
      BY <1>1 DEF Diverged
    <3>8. weights' \in [Samples -> 0 .. Underflow]
      BY <1>5, <3>5
    <3> QED
      BY <1>3, <3>6, <3>7, <3>8 DEF WeightsInv
  <2> QED
    BY <2>1, <2>2
<1> QED
  BY <1>1, <1>6, SamplesAssumption DEF PicksInv

\* A round picks the first of those that are left.
LEMMA SelectStep ==
  ASSUME PicksInv, SelectHeaviest
  PROVE  PicksInv'
<1> DEFINE eligible == {k \in Samples : Eligible(k, Last)}
           best == {k \in eligible : \A j \in eligible \ {k} : RanksBefore(k, j)}
           pick == IF best = {} THEN SampleCount ELSE Min(best)
<1>1. /\ kernel = "select" /\ kernel' = "select" /\ UNCHANGED <<weights, trajectories>>
      /\ Len(selected) < SelectCount /\ selected' = Append(selected, pick)
  BY DEF SelectHeaviest, Last
<1>2. /\ selected \in Seq(Samples) /\ WeightsInv /\ SelectCount <= SampleCount
      /\ SampleCount \in Nat /\ SelectCount \in Nat
  BY <1>1, SamplesAssumption DEF PicksInv
<1>3. \A i \in 1 .. Len(selected) :
        /\ \A j \in 1 .. i - 1 : selected[j] # selected[i]
        /\ \A j \in Samples \ {selected[n] : n \in 1 .. i} : RanksBefore(selected[i], j)
  BY <1>1 DEF PicksInv
<1> DEFINE L == Len(selected)
           rest == {k \in Samples : \A n \in 1 .. L : selected[n] # k}
<1>4. L \in Nat
  BY <1>2
<1>5. rest # {}
  BY <1>1, <1>2, <1>4, OneLeftOut
<1>6. selected # <<>> => L \in 1 .. L /\ L - 1 \in Nat /\ Last = selected[L] /\ L # 0
  BY <1>2, <1>4 DEF Last
<1>7. \A n \in 1 .. L : selected[n] \in Samples
  BY <1>2
<1>8. \A a, b \in Samples : ~ (RanksBefore(a, b) /\ RanksBefore(b, a))
  <2>1. \A k \in Samples : weights[k] \in Nat /\ k \in Nat
    BY <1>2, SamplesAssumption DEF WeightsInv, Samples
  <2> QED
    BY <2>1 DEF RanksBefore
<1>9. eligible = rest
  <2>1. ASSUME NEW k \in rest PROVE Eligible(k, Last)
    <3>1. CASE selected = <<>>
      BY <3>1 DEF Last, Eligible
    <3>2. CASE selected # <<>>
      <4>1. k \in Samples \ {selected[n] : n \in 1 .. L}
        OBVIOUS
      <4>2. RanksBefore(selected[L], k)
        BY <1>3, <1>6, <3>2, <4>1
      <4> QED
        BY <1>6, <3>2, <4>2 DEF Eligible
    <3> QED
      BY <3>1, <3>2
  <2>2. ASSUME NEW n \in 1 .. L PROVE ~ Eligible(selected[n], Last)
    <3>1. selected # <<>> /\ L \in 1 .. L /\ Last = selected[L] /\ Last \in Samples
      BY <1>4, <1>6, <1>7
    <3>2. Last # SampleCount
      BY <1>2, <3>1 DEF Samples
    <3>3. ~ RanksBefore(selected[L], selected[n])
      <4>1. CASE n = L
        BY <1>7, <1>8, <3>1, <4>1
      <4>2. CASE n # L
        <5>1. \A m \in 1 .. n : m \in 1 .. L - 1
          BY <1>4, <4>2
        <5>2. selected[L] \in Samples \ {selected[m] : m \in 1 .. n}
          BY <1>3, <1>7, <3>1, <5>1
        <5>3. RanksBefore(selected[n], selected[L])
          BY <1>3, <5>2
        <5> QED
          BY <1>7, <1>8, <3>1, <5>3
      <4> QED
        BY <4>1, <4>2
    <3> QED
      BY <3>1, <3>2, <3>3 DEF Eligible
  <2> QED
    BY <2>1, <2>2
<1>10. PICK p \in rest : /\ \A j \in rest \ {p} : RanksBefore(p, j)
                         /\ {k \in rest : \A j \in rest \ {k} : RanksBefore(k, j)} = {p}
  <2>1. weights \in [Samples -> 0 .. Underflow] /\ rest \subseteq Samples
    BY <1>2 DEF WeightsInv
  <2> HIDE DEF rest
  <2> QED
    BY <1>5, <2>1, FirstRanked
<1>11. pick = p
  <2>1. best = {p}
    BY <1>9, <1>10
  <2>2. p \in Int
    BY <1>2 DEF Samples
  <2>3. Min({p}) = p
    BY <2>2 DEF Min
  <2> HIDE DEF best
  <2> QED
    BY <2>1, <2>3
<1>12. /\ selected' \in Seq(Samples) /\ Len(selected') = L + 1
       /\ \A n \in 1 .. L : selected'[n] = selected[n]
       /\ selected'[L + 1] = p
  BY <1>1, <1>2, <1>11
<1>13. ASSUME NEW i \in 1 .. L + 1
       PROVE  /\ \A j \in 1 .. i - 1 : selected'[j] # selected'[i]
              /\ \A j \in Samples \ {selected'[n] : n \in 1 .. i} :
                   RanksBefore(selected'[i], j)
  <2>1. CASE i \in 1 .. L
    <3>1. \A n \in 1 .. i : n \in 1 .. L
      BY <1>4, <2>1
    <3>2. {selected'[n] : n \in 1 .. i} = {selected[n] : n \in 1 .. i}
      BY <1>12, <3>1
    <3> QED
      BY <1>3, <1>12, <2>1, <3>1, <3>2
  <2>2. CASE i = L + 1
    <3>1. \A n \in 1 .. i : n \in 1 .. L \/ n = L + 1
      BY <1>4, <2>2
    <3>2. \A j \in 1 .. i - 1 : j \in 1 .. L
      BY <1>4, <2>2
    <3>3. \A n \in 1 .. L : n \in 1 .. i
      BY <1>4, <2>2
    <3>4. i \in 1 .. i
      BY <1>4, <2>2
    <3>5. ASSUME NEW j \in Samples, j \notin {selected'[n] : n \in 1 .. i}
          PROVE  j \in rest \ {p}
      BY <1>12, <2>2, <3>3, <3>4, <3>5
    <3> QED
      BY <1>10, <1>12, <2>2, <3>2, <3>5
  <2> QED
    BY <1>4, <2>1, <2>2
<1>14. WeightsInv'
  <2>1. \A k \in Samples : Diverged(k)' <=> Diverged(k)
    BY <1>1 DEF Diverged
  <2> QED
    BY <1>1, <1>2, <2>1 DEF WeightsInv
<1>16. Len(selected') <= SelectCount
  BY <1>1, <1>2, <1>4, <1>12
<1> HIDE DEF eligible, best, pick, rest
<1>17. ASSUME NEW i \in 1 .. Len(selected')
       PROVE  /\ \A j \in 1 .. i - 1 : selected'[j] # selected'[i]
              /\ \A j \in Samples \ {selected'[n] : n \in 1 .. i} :
                   RanksBefore(selected[i], j)'
  <2>1. \A j : RanksBefore(selected[i], j)' <=> RanksBefore(selected'[i], j)
    BY <1>1 DEF RanksBefore
  <2>2. i \in 1 .. L + 1
    BY <1>12
  <2> QED
    BY <1>13, <2>1, <2>2
<1> QED
  BY <1>1, <1>12, <1>14, <1>16, <1>17 DEF PicksInv

\* The picks are ranked from the first round to the last.
LEMMA PicksInvariance == Spec => []PicksInv
<1>1. Init => PicksInv
  BY SamplesAssumption DEF Init, PicksInv
<1>2. InputsInv /\ KernelsAgree /\ PicksInv /\ [Next]_vars => PicksInv'
  <2> SUFFICES ASSUME InputsInv, KernelsAgree, PicksInv, [Next]_vars PROVE PicksInv'
    OBVIOUS
  <2>1. CASE ComputeWeights
    BY <2>1, WeighStep
  <2>2. CASE SelectHeaviest
    BY <2>2, SelectStep
  <2>3. CASE Finished \/ UNCHANGED vars
    <3>1. UNCHANGED vars
      BY <2>3 DEF Finished
    <3> QED
      BY <3>1 DEF PicksInv, WeightsInv, Diverged, RanksBefore
  <2>4. CASE RolloutAndCost \/ InitializeNeuralRollouts \/ NeuralStageCostAndPack
               \/ PackNeuralInputs \/ InferAsync \/ NeuralIntegrateAndStore
               \/ FinalizeNeuralCosts
    <3>1. kernel # "select" /\ kernel' # "select" /\ selected' = selected
      BY <2>4 DEF RolloutAndCost, InitializeNeuralRollouts, NeuralStageCostAndPack,
                  PackNeuralInputs, InferAsync, NeuralIntegrateAndStore, FinalizeNeuralCosts
    <3> QED
      BY <3>1 DEF PicksInv
  <2> QED
    BY <2>1, <2>2, <2>3, <2>4 DEF Next
<1> QED
  BY <1>1, <1>2, InputsInvariance, KernelsCorrect, PTL DEF Spec

\* The rollouts shown are the heaviest, whatever the costs are, and a rollout
\* that diverged is never shown in place of a heavier one.
THEOREM PicksCorrect == Spec => []PicksAreBest
<1>1. PicksInv => PicksAreBest
  <2> SUFFICES ASSUME PicksInv, NEW i \in DOMAIN selected
               PROVE  /\ selected[i] \in Samples
                      /\ \A j \in 1 .. i - 1 : selected[j] # selected[i]
                      /\ \A j \in Samples \ {selected[n] : n \in 1 .. i} :
                           /\ weights[j] <= weights[selected[i]]
                           /\ Diverged(selected[i]) /\ ~Diverged(j) =>
                                weights[j] = weights[selected[i]]
    BY DEF PicksAreBest
  <2>1. selected \in Seq(Samples) /\ i \in 1 .. Len(selected) /\ selected[i] \in Samples
    BY DEF PicksInv
  <2>2. kernel = "select"
    BY <2>1 DEF PicksInv
  <2>3. /\ \A j \in 1 .. i - 1 : selected[j] # selected[i]
        /\ \A j \in Samples \ {selected[n] : n \in 1 .. i} : RanksBefore(selected[i], j)
    BY <2>1, <2>2 DEF PicksInv
  <2>4. ASSUME NEW j \in Samples, RanksBefore(selected[i], j)
        PROVE  /\ weights[j] <= weights[selected[i]]
               /\ Diverged(selected[i]) => weights[j] = weights[selected[i]]
    <3>1. weights[j] \in Nat /\ weights[selected[i]] \in Nat
      BY <2>1, <2>2, SamplesAssumption DEF PicksInv, WeightsInv
    <3>2. Diverged(selected[i]) => weights[selected[i]] <= weights[j]
      BY <2>1, <2>2 DEF PicksInv, WeightsInv
    <3> QED
      BY <2>4, <3>1, <3>2 DEF RanksBefore
  <2> QED
    BY <2>1, <2>3, <2>4
<1> QED
  BY <1>1, PicksInvariance, PTL

=============
