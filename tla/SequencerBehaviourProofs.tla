---------------------- MODULE SequencerBehaviourProofs ----------------------
(***************************************************************************)
(* Proofs about whole runs of the sequencer: what the record of its past   *)
(* cycles says of the context it is in, and what follows for restarts,     *)
(* reversals and resets; and that Sequencer implements SpindleContract:    *)
(* every branch of the state dispatch is an action of the contract or a    *)
(* stuttering step, and of the pins only the feedback is one.              *)
(***************************************************************************)
EXTENDS SequencerHistory, SequencerContract, SequencerProofs

historyVars == <<vars, past>>

\* The record adds nothing to what the sequencer does.
LEMMA HistorySpecIsSpec == HistorySpec => Spec
<1>1. HistoryInit => Init
  BY DEF HistoryInit
<1>2. [HistoryNext]_historyVars => [Next]_vars
  BY DEF HistoryNext, Next, historyVars, vars
<1> QED
  BY <1>1, <1>2, PTL DEF HistorySpec, Spec, historyVars

-----------------------------------------------------------------------------
(* The remembered reset pin *)

\* A context that remembers value as the last sample of the reset pin.
Remembers(c, value) == "previous_reset" \in DOMAIN c /\ c.previous_reset = value

\* Nothing but the sampling of the pin changes what is remembered.
LEMMA KeepRemembering ==
    ASSUME NEW c, NEW value, Remembers(c, value)
    PROVE  /\ \A code : Remembers(Latch(c, code), value)
           /\ Remembers(Release(c), value)
           /\ \A state : Remembers([c EXCEPT !.state = state], value)
           /\ \A state : Remembers(Hold(c, state), value)
           /\ \A reverse : Remembers([c EXCEPT !.held_reverse = reverse], value)
           /\ Remembers(Validate(c), value)
           /\ Remembers(AcceptReset(c), value)
<1>1. ASSUME NEW code PROVE Remembers(Latch(c, code), value)
  BY DEF Remembers, Latch
<1>2. Remembers(Release(c), value)
  BY DEF Remembers, Release
<1>3. ASSUME NEW state PROVE Remembers([c EXCEPT !.state = state], value)
  BY DEF Remembers
<1>4. ASSUME NEW state PROVE Remembers(Hold(c, state), value)
  BY DEF Remembers, Hold
<1>5. ASSUME NEW reverse PROVE Remembers([c EXCEPT !.held_reverse = reverse], value)
  BY DEF Remembers
<1>6. Remembers(Validate(c), value) /\ Remembers(AcceptReset(c), value)
  BY DEF Remembers, Validate, AcceptReset
<1> QED
  BY <1>1, <1>2, <1>3, <1>4, <1>5, <1>6

\* A cycle remembers the reset pin as it sampled it, whatever else it does.
LEMMA ResetRemembered ==
    ASSUME TypeOK, Cycle
    PROVE  ctx'.previous_reset = pins.reset
<1> DEFINE R(c) == Remembers(c, pins.reset)
<1>1. R([ctx EXCEPT !.previous_reset = pins.reset])
  BY DEF TypeOK, Context, Remembers
<1>2. \A c : R(c) => R(Validate(c)) /\ R(AcceptReset(c)) /\ R(HoldFaulted(c))
  BY KeepRemembering DEF HoldFaulted
<1>3. \A c : R(c) => R(RefuseRequest(c)) /\ R(RefuseConfiguration(c)) /\ R(RefuseDirection(c))
                     /\ R(DropRequest(c))
  BY KeepRemembering DEF RefuseRequest, RefuseConfiguration, RefuseDirection, DropRequest
<1> HIDE DEF R
<1>4. R(Gated)
  BY <1>1, <1>2, <1>3 DEF Gated, Sampled
<1> DEFINE c == Gated
<1>5. R(c) /\ Dispatch(c)
  BY <1>4 DEF Cycle
<1> HIDE DEF c
<1>6. /\ R(Release(c)) /\ \A state : R([Release(c) EXCEPT !.state = state])
      /\ \A state : R(Hold(c, state))
      /\ \A state, reverse : R([Hold(c, state) EXCEPT !.held_reverse = reverse])
  BY <1>5, KeepRemembering DEF R
<1>7. \A d, control, frequency : Commit(d, control, frequency) /\ R(d) => R(ctx')
  BY DEF Commit
<1>8. R(ctx')
  <2>1. CASE HoldStopped(c)
    BY <1>6, <1>7, <2>1 DEF HoldStopped
  <2>2. CASE BeginArming(c)
    BY <1>6, <1>7, <2>2 DEF BeginArming
  <2>3. CASE AwaitReadback(c) \/ StartRotation(c) \/ AwaitSpeed(c) \/ VerifySpeed(c)
    BY <1>6, <1>7, <2>3 DEF AwaitReadback, StartRotation, AwaitSpeed, VerifySpeed
  <2>4. CASE AwaitStop(c)
    BY <1>5, <1>7, <2>4 DEF AwaitStop
  <2>5. CASE FinishStop(c)
    BY <1>6, <1>7, <2>5 DEF FinishStop
  <2>6. CASE HoldFault(c)
    BY <1>5, <1>6, <1>7, <2>6 DEF HoldFault
  <2> QED
    BY <1>5, <2>1, <2>2, <2>3, <2>4, <2>5, <2>6 DEF Dispatch
<1> QED
  BY <1>8 DEF R, Remembers

-----------------------------------------------------------------------------
(* The invariant *)

\* What the record of the past says of the context: the fault behind a standing request is
\* still latched; the spindle turns, or comes to rest, in the direction the context holds;
\* and a spent press of reset is the one the context remembers.
HistoryInv ==
    /\ past.standing => ctx.fault_latched
    /\ past.turned # CONTROL_STOP =>
         ctx.state \in {"Starting", "Running", "Stopping"} /\ past.turned = RunWord(ctx)
    /\ past.spent => ctx.previous_reset

\* A cycle that turns, or keeps turning, the spindle.
LEMMA TurnedCycle ==
    ASSUME IInv, Cycle
    PROVE  /\ out'.main_control # CONTROL_STOP =>
                ctx'.state \in {"Starting", "Running"} /\ out'.main_control = RunWord(ctx')
           /\ /\ ctx.state \in {"Starting", "Running", "Stopping"}
              /\ out'.main_control = CONTROL_STOP /\ ~stopped_feedback
              => ctx'.state = "Stopping" /\ RunWord(ctx') = RunWord(ctx)
<1>1. out'.main_control =
        IF ctx'.state \in {"Starting", "Running"} THEN RunWord(ctx') ELSE CONTROL_STOP
  <2>1. RunWord(ctx)' = RunWord(ctx')
    BY DEF RunWord
  <2> QED
    BY <2>1, CycleIInv DEF IInv, RunWordJustified
<1> DEFINE c == Gated
<1>2. TypeOK /\ Good(ctx)
  BY DEF IInv
<1>3. /\ Good(c) /\ SameHold(c, ctx) /\ Dispatch(c) /\ (c = Sampled \/ Stopped(Sampled, c))
  BY <1>2, GatedGood DEF Cycle
<1> HIDE DEF c
<1>4. ASSUME ctx.state \in {"Starting", "Running", "Stopping"}
      PROVE  c.state \in {"Starting", "Running", "Stopping"}
  BY <1>2, <1>3, <1>4, SampledGood DEF Stopped
<1>5. ASSUME ctx.state \in {"Starting", "Running", "Stopping"},
             out'.main_control = CONTROL_STOP, ~stopped_feedback
      PROVE  ctx'.state = "Stopping" /\ RunWord(ctx') = RunWord(ctx)
  <2>1. \A d, control, frequency :
          Commit(d, control, frequency) => ctx' = d /\ out'.main_control = control
    BY DEF Commit
  <2>2. RunWord(c) # CONTROL_STOP
    BY DEF RunWord, CONTROL_FORWARD, CONTROL_REVERSE, CONTROL_STOP
  <2>3. c.state \in {"Starting", "Running", "Stopping"}
    BY <1>4, <1>5
  <2>4. AwaitStop(c)
    BY <1>3, <1>5, <2>1, <2>2, <2>3
       DEF Dispatch, HoldStopped, BeginArming, AwaitReadback, StartRotation, AwaitSpeed,
           VerifySpeed, FinishStop, HoldFault
  <2>5. ctx' = c /\ c.state = "Stopping"
    BY <2>1, <2>4 DEF AwaitStop
  <2> QED
    BY <1>3, <2>5 DEF SameHold, RunWord
<1>6. \A d : RunWord(d) # CONTROL_STOP
  BY DEF RunWord, CONTROL_FORWARD, CONTROL_REVERSE, CONTROL_STOP
<1> QED
  BY <1>1, <1>5

\* Every cycle keeps the record true.
LEMMA CycleHistoryInv == IInv /\ HistoryInv /\ Cycle /\ Remember => HistoryInv'
<1> SUFFICES ASSUME IInv, HistoryInv, Cycle, Remember PROVE HistoryInv'
  OBVIOUS
<1>1. TypeOK
  BY DEF IInv
<1>2. past'.standing => ctx'.fault_latched
  <2>1. ASSUME past.standing, request.run_request PROVE ctx'.fault_latched
    BY <2>1, TripOutlives DEF HistoryInv, ResetAccepted
  <2> QED
    BY <2>1 DEF Remember
<1>3. past'.turned # CONTROL_STOP =>
        ctx'.state \in {"Starting", "Running", "Stopping"} /\ past'.turned = RunWord(ctx')
  BY TurnedCycle DEF HistoryInv, Remember
<1>4. past'.spent => ctx'.previous_reset
  BY <1>1, ResetRemembered DEF Remember
<1>5. RunWord(ctx)' = RunWord(ctx')
  BY DEF RunWord
<1> QED
  BY <1>2, <1>3, <1>4, <1>5 DEF HistoryInv

\* The record is true of every state.
LEMMA SpecHistoryInv == HistorySpec => [](IInv /\ HistoryInv)
<1>1. HistoryInit => HistoryInv
  BY DEF HistoryInit, NoPast, HistoryInv
<1>2. ASSUME HistoryInv, UNCHANGED <<ctx, past>> PROVE HistoryInv'
  BY <1>2 DEF HistoryInv, RunWord
<1>3. Environment => UNCHANGED ctx
  BY DEF Environment, SetPins, SetRequest, SetSpeed, SetReset, SetLink, SetParameters,
         SetFeedback, SetReadback, SetConfig
<1>4. IInv /\ HistoryInv /\ [HistoryNext]_historyVars => HistoryInv'
  BY <1>2, <1>3, CycleHistoryInv DEF HistoryNext, historyVars, vars
<1> QED
  BY <1>1, <1>4, HistorySpecIsSpec, SpecIInv, PTL DEF HistorySpec, historyVars

-----------------------------------------------------------------------------
(* The theorems *)

\* Whatever resets and other pins do meanwhile, a request that stood when a fault was
\* latched starts nothing before a cycle has sampled it low.
THEOREM HistoryNoRestartOnStandingRequest == HistorySpec => []NoRestartOnStandingRequest
<1>1. IInv /\ HistoryInv => NoRestartOnStandingRequest
  BY DEF IInv, HistoryInv, Good, Consistent, RunWordJustified, NoRestartOnStandingRequest
<1> QED
  BY <1>1, SpecHistoryInv, PTL

\* The sequencer never commands a direction before a cycle has sampled rest under STOP
\* since it last commanded the opposite one.
THEOREM HistoryNoReversalWithoutRest == HistorySpec => NoReversalWithoutRest
<1> DEFINE Goal == out'.main_control \in {past.turned, CONTROL_STOP} \/ past.turned = CONTROL_STOP
<1>1. ASSUME IInv, HistoryInv, Cycle PROVE Goal
  <2>1. CASE out'.main_control # CONTROL_STOP /\ past.turned # CONTROL_STOP
    <3>1. out'.main_control = RunWord(Gated) /\ Gated.held_reverse = ctx.held_reverse
      BY <1>1, <2>1, RunCycle
    <3>2. past.turned = RunWord(ctx)
      BY <1>1, <2>1 DEF HistoryInv
    <3> QED
      BY <3>1, <3>2 DEF RunWord
  <2> QED
    BY <2>1
<1>2. ASSUME IInv, HistoryInv, UNCHANGED out PROVE Goal
  BY <1>2 DEF IInv, HistoryInv, RunWordJustified
<1>3. Environment => UNCHANGED out
  BY DEF Environment, SetPins, SetRequest, SetSpeed, SetReset, SetLink, SetParameters,
         SetFeedback, SetReadback, SetConfig
<1>4. IInv /\ HistoryInv /\ [HistoryNext]_historyVars => [Goal]_historyVars
  BY <1>1, <1>2, <1>3 DEF HistoryNext
<1> QED
  BY <1>4, SpecHistoryInv, PTL DEF HistorySpec, NoReversalWithoutRest, historyVars

\* A press of reset that was accepted once is accepted no second time.
THEOREM HistoryOneResetPerPress == HistorySpec => OneResetPerPress
<1> DEFINE Goal == past.spent /\ ctx.fault_latched => ctx'.fault_latched
<1>1. ASSUME IInv, HistoryInv, Cycle PROVE Goal
  BY <1>1, TripOutlives DEF HistoryInv, ResetAccepted, reset_rising
<1>2. Environment => UNCHANGED ctx
  BY DEF Environment, SetPins, SetRequest, SetSpeed, SetReset, SetLink, SetParameters,
         SetFeedback, SetReadback, SetConfig
<1>3. IInv /\ HistoryInv /\ [HistoryNext]_historyVars => [Goal]_historyVars
  BY <1>1, <1>2 DEF HistoryNext
<1> QED
  BY <1>3, SpecHistoryInv, PTL DEF HistorySpec, OneResetPerPress, historyVars

-----------------------------------------------------------------------------
(* The contract *)

ContractNext == [Contract!Next]_(Contract!contract_vars)

\* What a context that is not active holds decides between idle and halted.
Resting(c) == c.state \notin ActiveStates
Direction(c) == IF Resting(c) /\ c.held_frequency = 0 THEN CONTROL_STOP ELSE RunWord(c)

\* The phase and the direction of the contract, read off the context.
LEMMA PhaseOf ==
    /\ ctx.state = "Arming" => contract_phase = "selected"
    /\ ctx.state \in {"Starting", "Running"} => contract_phase = "turning"
    /\ Resting(ctx) /\ ctx.held_frequency = 0 => contract_phase = "idle"
    /\ Resting(ctx) /\ ctx.held_frequency # 0 => contract_phase = "halted"
    /\ contract_direction = Direction(ctx)
    /\ ctx.state \in ActiveStates =>
         ctx.state = "Arming" \/ ctx.state \in {"Starting", "Running"}
  BY DEF contract_phase, contract_direction, Direction, Resting, ActiveStates

\* The same after a step.
LEMMA PhaseAfter ==
    /\ ctx'.state = "Arming" => contract_phase' = "selected"
    /\ ctx'.state \in {"Starting", "Running"} => contract_phase' = "turning"
    /\ Resting(ctx') /\ ctx'.held_frequency = 0 => contract_phase' = "idle"
    /\ Resting(ctx') /\ ctx'.held_frequency # 0 => contract_phase' = "halted"
    /\ contract_direction' = Direction(ctx')
  BY DEF contract_phase, contract_direction, Direction, Resting, ActiveStates

\* A run word is a direction of the contract.
LEMMA Words ==
    \A c : RunWord(c) \in {CONTROL_FORWARD, CONTROL_REVERSE} /\ RunWord(c) # CONTROL_STOP
  BY DEF RunWord, CONTROL_FORWARD, CONTROL_REVERSE, CONTROL_STOP

\* Every cycle is an action of the contract or a stuttering step of it.
LEMMA CycleSimulates == IInv /\ Cycle => ContractNext
<1> SUFFICES ASSUME IInv, Cycle PROVE ContractNext
  OBVIOUS
<1> DEFINE c == Gated
           F == 1 .. MaxRegister
<1>1. /\ TypeOK /\ Good(ctx) /\ out.given_frequency = ctx.held_frequency
      /\ out.main_control =
           IF ctx.state \in {"Starting", "Running"} THEN RunWord(ctx) ELSE CONTROL_STOP
  BY DEF IInv, RunWordJustified
<1>2. /\ Good(ctx') /\ out'.given_frequency = ctx'.held_frequency
      /\ out'.main_control =
           IF ctx'.state \in {"Starting", "Running"} THEN RunWord(ctx') ELSE CONTROL_STOP
  <2>1. IInv'
    BY CycleIInv
  <2>2. Good(ctx)' <=> Good(ctx')
    BY DEF Good, Consistent, Held, InternalStateValid
  <2>3. RunWord(ctx)' = RunWord(ctx')
    BY DEF RunWord
  <2> QED
    BY <2>1, <2>2, <2>3 DEF IInv, RunWordJustified
<1>3. /\ Good(c) /\ SameHold(c, ctx) /\ Dispatch(c)
      /\ c = Sampled \/ Stopped(Sampled, c)
  BY <1>1, GatedGood DEF Cycle
<1>4. stopped_feedback' = stopped_feedback /\ stopped_feedback \in BOOLEAN
  <2>1. UNCHANGED pins
    BY DEF Cycle, Dispatch, HoldStopped, BeginArming, AwaitReadback, StartRotation, AwaitSpeed,
           VerifySpeed, AwaitStop, FinishStop, HoldFault, Commit
  <2> QED
    BY <2>1 DEF stopped_feedback, is_running
<1>5. ASSUME c.state # "Stopping"
      PROVE  ctx.state = c.state /\ ctx.fault_latched = c.fault_latched
  <2>1. c = Sampled
    BY <1>3, <1>5 DEF Stopped
  <2> QED
    BY <1>1, <1>5, <2>1, SampledGood
<1>6. /\ ctx'.fault_latched = c.fault_latched
      /\ ctx.fault_latched /\ ~ctx'.fault_latched => stopped_feedback
  BY <1>3, DispatchKeepsFault, TripOutlives DEF Good
<1>7. \A d, control, frequency : Commit(d, control, frequency) => ctx' = d
  BY DEF Commit
<1> HIDE DEF c
<1>8. /\ ctx \in Context /\ ctx' \in Context /\ c \in Context
      /\ ctx.state \in {"Stopped", "Fault"} => ctx.held_frequency = 0
      /\ ctx'.state \in {"Stopped", "Fault"} => ctx'.held_frequency = 0
      /\ ctx'.state \in ActiveStates => ctx'.held_frequency \in F
      /\ ctx.state \in ActiveStates => ctx.held_frequency \in F
      /\ c.fault_latched => c.state \in {"Stopping", "Fault"}
  BY <1>1, <1>2, <1>3 DEF Good, Held, Consistent
<1>9. RunWord(c) = RunWord(ctx)
  BY <1>3 DEF SameHold, RunWord
<1>10. ASSUME contract_phase' = contract_phase, contract_direction' = contract_direction,
              out'.main_control = out.main_control, out'.given_frequency = out.given_frequency,
              ctx'.fault_latched = ctx.fault_latched
       PROVE  ContractNext
  BY <1>4, <1>10 DEF ContractNext, Contract!contract_vars
<1>11. CASE HoldStopped(c) \/ HoldFault(c)
  <2>1. c.state \in {"Stopped", "Fault"} /\ ctx'.state = c.state
    BY <1>7, <1>8, <1>11 DEF HoldStopped, HoldFault, Release, Context
  <2>2. /\ ctx.state \in {"Stopped", "Fault"} /\ ctx'.state \in {"Stopped", "Fault"}
        /\ ctx'.fault_latched = ctx.fault_latched
    BY <1>5, <1>6, <2>1
  <2>3. /\ Resting(ctx) /\ Resting(ctx') /\ ctx.held_frequency = 0 /\ ctx'.held_frequency = 0
    BY <1>8, <2>2 DEF Resting, ActiveStates
  <2>4. /\ contract_phase' = contract_phase /\ contract_direction' = contract_direction
    BY <2>3, PhaseOf, PhaseAfter DEF Direction
  <2>5. out'.main_control = out.main_control /\ out'.given_frequency = out.given_frequency
    BY <1>1, <1>2, <2>2, <2>3
  <2> QED
    BY <1>10, <2>2, <2>4, <2>5
<1>12. CASE BeginArming(c)
  <2>1. c.state = "Stopped" /\ ctx'.state = "Arming"
    BY <1>7, <1>8, <1>12 DEF BeginArming, Hold, Context
  <2>2. /\ ctx.state = "Stopped" /\ ~ctx.fault_latched /\ ctx'.fault_latched = ctx.fault_latched
    BY <1>5, <1>6, <1>8, <2>1
  <2>3. /\ Resting(ctx) /\ ctx.held_frequency = 0 /\ ~Resting(ctx') /\ ctx'.held_frequency \in F
    BY <1>8, <2>1, <2>2 DEF Resting, ActiveStates
  <2>4. /\ contract_phase = "idle" /\ contract_phase' = "selected"
        /\ contract_direction' \in {CONTROL_FORWARD, CONTROL_REVERSE}
    BY <2>1, <2>3, PhaseOf, PhaseAfter, Words DEF Direction
  <2>5. out'.main_control = out.main_control /\ out'.given_frequency \in F
    BY <1>1, <1>2, <2>1, <2>2, <2>3
  <2>6. Contract!Select
    BY <1>4, <2>2, <2>4, <2>5 DEF Contract!Select, Contract!Frequencies
  <2> QED
    BY <2>6 DEF ContractNext, Contract!Next
<1>13. CASE AwaitReadback(c) \/ StartRotation(c) \/ AwaitSpeed(c) \/ VerifySpeed(c)
  <2>1. PICK state \in ActiveStates : ctx' = Hold(c, state)
    BY <1>7, <1>13 DEF AwaitReadback, StartRotation, AwaitSpeed, VerifySpeed, ActiveStates
  <2>2. /\ c.state \in ActiveStates /\ ctx'.state = state /\ RunWord(ctx') = RunWord(c)
        /\ state = "Arming" => c.state = "Arming"
    BY <1>7, <1>8, <1>13, <2>1
       DEF AwaitReadback, StartRotation, AwaitSpeed, VerifySpeed, ActiveStates, Hold, Context, RunWord
  <2>3. /\ ctx.state = c.state /\ ctx'.fault_latched = ctx.fault_latched
    BY <1>5, <1>6, <2>2 DEF ActiveStates
  <2>4. /\ contract_direction' = contract_direction /\ contract_direction = RunWord(ctx)
        /\ contract_phase \in {"selected", "turning"} /\ out'.given_frequency \in F
        /\ contract_phase' = IF state = "Arming" THEN "selected" ELSE "turning"
    BY <1>2, <1>8, <1>9, <2>2, <2>3, PhaseOf, PhaseAfter DEF Direction, Resting, ActiveStates
  <2>5. CASE state = "Arming"
    <3>1. contract_phase = "selected" /\ out'.main_control = out.main_control
      BY <1>1, <1>2, <2>2, <2>3, <2>5, PhaseOf
    <3>2. Contract!Retarget
      BY <1>4, <2>3, <2>4, <2>5, <3>1 DEF Contract!Retarget, Contract!Frequencies
    <3> QED
      BY <3>2 DEF ContractNext, Contract!Next
  <2>6. CASE state # "Arming"
    <3>1. out'.main_control = contract_direction
      BY <1>2, <1>9, <2>2, <2>4, <2>6 DEF ActiveStates
    <3>2. Contract!Turn
      BY <1>4, <2>3, <2>4, <2>6, <3>1 DEF Contract!Turn, Contract!Frequencies
    <3> QED
      BY <3>2 DEF ContractNext, Contract!Next
  <2> QED
    BY <2>5, <2>6
<1>14. CASE AwaitStop(c)
  <2>1. /\ ~stopped_feedback /\ ctx' = c /\ c.state = "Stopping" /\ ctx'.state = "Stopping"
    BY <1>7, <1>14 DEF AwaitStop
  <2>2. /\ ctx'.held_frequency = ctx.held_frequency /\ RunWord(ctx') = RunWord(ctx)
        /\ Resting(ctx') /\ out'.main_control = CONTROL_STOP
        /\ out'.given_frequency = out.given_frequency
    BY <1>1, <1>2, <1>3, <1>9, <2>1 DEF SameHold, Resting, ActiveStates
  <2>3. ctx.fault_latched => ctx'.fault_latched
    BY <1>6, <2>1
  <2>4. CASE ctx.state \in ActiveStates
    <3>1. ctx'.held_frequency # 0
      <4>1. ctx.held_frequency \in F
        BY <1>8, <2>4
      <4>2. \A n \in F : n # 0
        BY DEF MaxRegister
      <4> QED
        BY <2>2, <4>1, <4>2
    <3>2. /\ contract_phase \in {"selected", "turning"} /\ contract_phase' = "halted"
          /\ contract_direction' = contract_direction
      BY <2>2, <2>4, <3>1, PhaseOf, PhaseAfter DEF Direction, Resting
    <3>3. ctx'.fault_latched \in BOOLEAN
      BY <1>8 DEF Context
    <3>4. Contract!Halt
      BY <1>4, <2>1, <2>2, <3>2, <3>3 DEF Contract!Halt, Contract!ToRest
    <3> QED
      BY <3>4 DEF ContractNext, Contract!Next
  <2>5. CASE ctx.state \notin ActiveStates
    <3>1. /\ contract_phase \in {"idle", "halted"} /\ contract_phase' = contract_phase
          /\ contract_direction' = contract_direction
      BY <2>2, <2>5, PhaseOf, PhaseAfter DEF Direction, Resting
    <3>2. out'.main_control = out.main_control /\ out.main_control = CONTROL_STOP
      BY <1>1, <2>2, <2>5 DEF ActiveStates
    <3>3. CASE ctx'.fault_latched = ctx.fault_latched
      BY <1>10, <2>2, <3>1, <3>2, <3>3
    <3>4. CASE ctx'.fault_latched # ctx.fault_latched
      <4>1. ctx.fault_latched = FALSE /\ ctx'.fault_latched = TRUE
        BY <1>8, <2>3, <3>4 DEF Context
      <4>2. Contract!Trip
        BY <1>4, <2>1, <2>2, <3>1, <3>2, <4>1 DEF Contract!Trip, Contract!ToRest
      <4> QED
        BY <4>2 DEF ContractNext, Contract!Next
    <3> QED
      BY <3>3, <3>4
  <2> QED
    BY <2>4, <2>5
<1>15. CASE FinishStop(c)
  <2>1. stopped_feedback /\ ctx'.state \in {"Stopped", "Fault"}
    <3>1. ctx' = [Release(c) EXCEPT !.state = IF c.fault_latched THEN "Fault" ELSE "Stopped"]
      BY <1>7, <1>15 DEF FinishStop
    <3>2. ctx'.state = IF c.fault_latched THEN "Fault" ELSE "Stopped"
      BY <1>8, <3>1 DEF Release, Context
    <3> QED
      BY <1>15, <3>2 DEF FinishStop
  <2>2. /\ ctx'.held_frequency = 0 /\ Resting(ctx') /\ out'.main_control = CONTROL_STOP
        /\ out'.given_frequency = 0 /\ contract_phase' = "idle" /\ contract_direction' = CONTROL_STOP
    BY <1>2, <1>8, <2>1, PhaseAfter DEF Resting, ActiveStates, Direction
  <2>3. Contract!ToRest
    BY <1>4, <2>1, <2>2 DEF Contract!ToRest
  <2>4. ctx.fault_latched \in BOOLEAN /\ ctx'.fault_latched \in BOOLEAN
    BY <1>8 DEF Context
  <2>5. CASE ctx.state \in ActiveStates
    <3>1. contract_phase \in {"selected", "turning"}
      BY <2>5, PhaseOf
    <3>2. Contract!Halt
      BY <2>3, <2>4, <3>1 DEF Contract!Halt
    <3> QED
      BY <3>2 DEF ContractNext, Contract!Next
  <2>6. CASE ctx.state \notin ActiveStates
    <3>1. /\ contract_phase = IF ctx.held_frequency = 0 THEN "idle" ELSE "halted"
          /\ out.main_control = CONTROL_STOP
          /\ ctx.held_frequency = 0 => contract_direction = CONTROL_STOP
      BY <1>1, <2>6, PhaseOf DEF Resting, ActiveStates, Direction
    <3>2. CASE ctx.fault_latched /\ ~ctx'.fault_latched
      <4>1. Contract!Acknowledge
        BY <2>1, <2>3, <2>4, <3>2 DEF Contract!Acknowledge
      <4> QED
        BY <4>1 DEF ContractNext, Contract!Next
    <3>3. CASE ~ctx.fault_latched /\ ctx'.fault_latched
      <4>1. Contract!Trip
        BY <1>1, <1>4, <2>2, <2>3, <2>4, <3>1, <3>3 DEF Contract!Trip
      <4> QED
        BY <4>1 DEF ContractNext, Contract!Next
    <3>4. CASE ctx.fault_latched = ctx'.fault_latched /\ ctx.held_frequency # 0
      <4>1. Contract!Settle
        BY <2>1, <2>3, <3>1, <3>4 DEF Contract!Settle
      <4> QED
        BY <4>1 DEF ContractNext, Contract!Next
    <3>5. CASE ctx.fault_latched = ctx'.fault_latched /\ ctx.held_frequency = 0
      BY <1>1, <1>10, <2>2, <3>1, <3>5
    <3> QED
      BY <2>4, <3>2, <3>3, <3>4, <3>5
  <2> QED
    BY <2>5, <2>6
<1> QED
  BY <1>3, <1>11, <1>12, <1>13, <1>14, <1>15 DEF Dispatch

\* Of the pins only the feedback concerns the contract, and it is its sensor.
LEMMA EnvironmentSimulates == Environment => ContractNext
<1> SUFFICES ASSUME Environment PROVE ContractNext
  OBVIOUS
<1>1. UNCHANGED <<ctx, out>>
  BY DEF Environment, SetPins, SetRequest, SetSpeed, SetReset, SetLink, SetParameters,
         SetFeedback, SetReadback, SetConfig
<1>2. contract_phase' = contract_phase /\ contract_direction' = contract_direction
  BY <1>1 DEF contract_phase, contract_direction, RunWord
<1>3. stopped_feedback \in BOOLEAN /\ stopped_feedback' \in BOOLEAN
  BY DEF stopped_feedback
<1>4. CASE stopped_feedback' = stopped_feedback
  BY <1>1, <1>2, <1>4 DEF ContractNext, Contract!contract_vars
<1>5. CASE stopped_feedback' # stopped_feedback
  <2>1. Contract!Sense
    BY <1>1, <1>2, <1>3, <1>5 DEF Contract!Sense
  <2> QED
    BY <2>1 DEF ContractNext, Contract!Next
<1> QED
  BY <1>4, <1>5

\* Every behaviour of the sequencer is one of the contract, for every set of pin and
\* configuration values.
THEOREM SpecImplementsContract == Spec => ImplementsContract
<1>1. Init => Contract!Init
  <2> SUFFICES ASSUME Init PROVE Contract!Init
    OBVIOUS
  <2>1. ctx.state = "Stopping" /\ ctx.held_frequency = 0 /\ ctx.fault_latched = FALSE
    BY DEF Init, NewContext
  <2>2. contract_phase = "idle" /\ contract_direction = CONTROL_STOP
    BY <2>1, PhaseOf DEF Resting, ActiveStates, Direction
  <2>3. out.main_control = CONTROL_STOP /\ out.given_frequency = 0
    BY DEF Init, InitialOutput
  <2>4. stopped_feedback \in BOOLEAN
    BY DEF stopped_feedback
  <2> QED
    BY <2>1, <2>2, <2>3, <2>4 DEF Contract!Init
<1>2. UNCHANGED vars => ContractNext
  <2> SUFFICES ASSUME UNCHANGED vars PROVE ContractNext
    OBVIOUS
  <2>1. UNCHANGED <<pins, ctx, out>>
    BY DEF vars
  <2> QED
    BY <2>1 DEF ContractNext, Contract!contract_vars, contract_phase, contract_direction, RunWord,
                stopped_feedback, is_running
<1>3. IInv /\ [Next]_vars => ContractNext
  BY <1>2, CycleSimulates, EnvironmentSimulates DEF Next
<1> QED
  BY <1>1, <1>3, SpecIInv, PTL DEF Spec, ImplementsContract, Contract!Spec, ContractNext
==============================================================================
