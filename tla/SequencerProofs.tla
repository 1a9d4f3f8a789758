-------------------------- MODULE SequencerProofs --------------------------
(***************************************************************************)
(* Proofs about Sequencer, for every set of pin and configuration values.  *)
(***************************************************************************)
EXTENDS Sequencer, TLAPS, WellFoundedInduction

\* A nonempty set of numbers has a least element.
LEMMA LeastElement ==
    ASSUME NEW S, S \subseteq Nat, S # {}
    PROVE  Min(S) \in S
<1> DEFINE less == {ss \in Nat \X Nat : ss[1] < ss[2]}
<1>1. IsWellFoundedOn(less, Nat)
  BY NatLessThanWellFounded DEF OpToRel
<1>2. PICK m \in S : \A n \in S : <<n, m>> \notin less
  <2> HIDE DEF less
  <2> QED
    BY <1>1, WFMin
<1>3. \A n \in S : m =< n
  <2> SUFFICES ASSUME NEW n \in S
               PROVE  ~(n < m)
    OBVIOUS
  <2> DEFINE pair == <<n, m>>
  <2>1. pair \in Nat \X Nat /\ pair[1] = n /\ pair[2] = m
    OBVIOUS
  <2>2. pair \notin less
    BY <1>2
  <2> HIDE DEF pair
  <2> QED
    BY <2>1, <2>2
<1> QED
  BY <1>3 DEF Min

\* The codes of the two orders are block codes, and neither "None" nor the code of
\* an inconsistent context is among them.
LEMMA OrderedCodes ==
    /\ InOrder(ConfigurationOrder) \subseteq BlockCodes \ {"None", "InternalState"}
    /\ InOrder(RequestOrder) \subseteq BlockCodes \ {"None", "InternalState"}
<1>1. \A i \in DOMAIN ConfigurationOrder : ConfigurationOrder[i] \notin {"None", "InternalState"}
  BY DEF ConfigurationOrder
<1>2. \A i \in DOMAIN RequestOrder : RequestOrder[i] \notin {"None", "InternalState"}
  BY DEF RequestOrder
<1> QED
  BY <1>1, <1>2, Zenon DEF InOrder, BlockCodes

\* configuration_block returns one of its codes, or "None" when no condition blocks.
LEMMA ConfigurationBlockCode ==
    /\ configuration_block \in BlockCodes \ {"InternalState"}
    /\ configuration_block = "None" =>
         \A i \in DOMAIN ConfigurationOrder : ~Blocks(ConfigurationOrder[i])
<1> DEFINE hits == {i \in DOMAIN ConfigurationOrder : Blocks(ConfigurationOrder[i])}
<1>1. CASE hits = {}
  <2>1. configuration_block = "None"
    BY <1>1 DEF configuration_block, FirstIn
  <2> QED
    BY <1>1, <2>1, Zenon DEF BlockCodes
<1>2. CASE hits # {}
  <2>1. hits \subseteq Nat
    BY DEF ConfigurationOrder
  <2>2. Min(hits) \in hits
    BY <1>2, <2>1, LeastElement
  <2>3. configuration_block = ConfigurationOrder[Min(hits)]
    BY <1>2 DEF configuration_block, FirstIn
  <2>4. configuration_block \in InOrder(ConfigurationOrder)
    BY <2>2, <2>3 DEF InOrder
  <2> QED
    BY <2>4, OrderedCodes
<1> QED
  BY <1>1, <1>2

\* run_reason is a block code, and when it lets a considered run through, no
\* condition blocks and none refuses.
LEMMA RunReasonCode ==
    /\ run_reason \in BlockCodes \ {"InternalState"}
    /\ RunConsidered /\ run_reason = "None" =>
         /\ configuration_block = "None"
         /\ \A i \in DOMAIN RequestOrder : ~Refuses(RequestOrder[i])
<1>1. CASE ~(RunConsidered /\ configuration_block = "None")
  BY <1>1, ConfigurationBlockCode DEF run_reason
<1>2. CASE RunConsidered /\ configuration_block = "None"
  <2> DEFINE hits == {i \in DOMAIN RequestOrder : Refuses(RequestOrder[i])}
  <2>1. CASE hits = {}
    <3>1. run_reason = "None"
      BY <1>2, <2>1 DEF run_reason, FirstIn
    <3> QED
      BY <1>2, <2>1, <3>1, Zenon DEF BlockCodes
  <2>2. CASE hits # {}
    <3>1. hits \subseteq Nat
      BY DEF RequestOrder
    <3>2. Min(hits) \in hits
      BY <2>2, <3>1, LeastElement
    <3>3. run_reason = RequestOrder[Min(hits)]
      BY <1>2, <2>2 DEF run_reason, FirstIn
    <3>4. run_reason \in InOrder(RequestOrder)
      BY <3>2, <3>3 DEF InOrder
    <3> QED
      BY <3>4, OrderedCodes
  <2> QED
    BY <2>1, <2>2
<1> QED
  BY <1>1, <1>2

LEMMA DivisionBounds ==
    ASSUME NEW x \in Int, NEW y \in Int, y > 0
    PROVE  /\ x \div y \in Int
           /\ y * (x \div y) <= x
           /\ x < y * ((x \div y) + 1)
  OBVIOUS

LEMMA ProductMonotone ==
    ASSUME NEW a \in Int, NEW b \in Int, NEW c \in Int, a <= b, c > 0
    PROVE  c * a <= c * b
  OBVIOUS

\* Rounding n / d to the nearest integer never crosses an integer: (raw_float + 0.5)
\* as u32 keeps a frequency on its side of every register value.
LEMMA Rounding ==
    ASSUME NEW n \in Int, NEW d \in Int, d > 0, NEW k \in Int
    PROVE  LET q == (2 * n + d) \div (2 * d)
           IN  /\ q \in Int
               /\ n <= k * d => q <= k
               /\ k * d <= n => k <= q
<1> DEFINE x == 2 * n + d
           y == 2 * d
           q == x \div y
<1>1. x \in Int /\ y \in Int /\ y > 0
  OBVIOUS
<1>2. q \in Int /\ y * q <= x /\ x < y * (q + 1)
  <2> HIDE DEF x, y
  <2> QED
    BY <1>1, DivisionBounds
<1>3. ASSUME n <= k * d, q > k
      PROVE  FALSE
  <2>1. y * (k + 1) <= y * q
    <3> HIDE DEF y, q
    <3> QED
      BY <1>1, <1>2, <1>3, ProductMonotone
  <2>2. y * (k + 1) = 2 * (k * d) + 2 * d
    OBVIOUS
  <2> QED
    BY <1>2, <1>3, <2>1, <2>2
<1>4. ASSUME k * d <= n, q < k
      PROVE  FALSE
  <2>1. y * (q + 1) <= y * k
    <3> HIDE DEF y, q
    <3> QED
      BY <1>1, <1>2, <1>4, ProductMonotone
  <2>2. y * k = 2 * (k * d)
    OBVIOUS
  <2> QED
    BY <1>2, <1>4, <2>1, <2>2
<1>5. n <= k * d => q <= k
  BY <1>2, <1>3
<1>6. k * d <= n => k <= q
  BY <1>2, <1>4
<1> QED
  BY <1>2, <1>5, <1>6

\* A register value is a natural number.
LEMMA RegisterValues ==
    /\ \A n \in 1 .. MaxRegister : n \in Nat /\ n <= MaxRegister
    /\ 0 <= MaxRegister
<1>1. MaxRegister \in Nat
  BY DEF MaxRegister
<1> QED
  BY <1>1

\* A run request every gate lets through has a speed that is a number, a frequency
\* between F011 and F005 and a register value that fits.
LEMMA RequestedFrequency ==
    ASSUME TypeOK, RunConsidered, run_reason = "None"
    PROVE  /\ requested_hz \in [num : Int, den : Int]
           /\ requested_raw \in 1 .. MaxRegister
           /\ pins.speed \in config.minimum .. config.maximum
           /\ units_per_decihz * pins.parameters.F011 <= requested_raw
           /\ requested_raw <= units_per_decihz * config.F005
<1> DEFINE hz == requested_hz
           u == units_per_decihz
<1>1. ~Blocks("RpmLimits")
  <2>1. ConfigurationOrder[13] = "RpmLimits" /\ 13 \in DOMAIN ConfigurationOrder
    BY DEF ConfigurationOrder
  <2> QED
    BY <2>1, RunReasonCode, ConfigurationBlockCode
<1>2. \A code \in {"SpeedInvalid", "SpeedLow", "SpeedHigh", "BelowF011", "FrequencyRange"} :
        ~Refuses(code)
  <2>1. \A code \in {"SpeedInvalid", "SpeedLow", "SpeedHigh", "BelowF011", "FrequencyRange"} :
          \E i \in DOMAIN RequestOrder : RequestOrder[i] = code
    <3>1. /\ \A i \in 3 .. 8 : i \in DOMAIN RequestOrder
          /\ RequestOrder[3] = "SpeedInvalid" /\ RequestOrder[5] = "SpeedLow"
          /\ RequestOrder[6] = "SpeedHigh" /\ RequestOrder[7] = "BelowF011"
          /\ RequestOrder[8] = "FrequencyRange"
      BY DEF RequestOrder
    <3> QED
      BY <3>1
  <2> QED
    BY <2>1, RunReasonCode
<1>3. /\ config.rated \in Int /\ config.minimum \in Int /\ config.maximum \in Int
      /\ config.F004 \in Nat /\ config.F005 \in Nat /\ pins.parameters.F011 \in Nat
      /\ pins.speed \in Int \cup {NotFinite}
  BY DEF TypeOK, Config, Pins, Parameter
<1>4. config.rated > 0
  BY <1>1, <1>3 DEF Blocks
<1>5. pins.speed \in Int /\ pins.speed # NotFinite
  BY <1>2, <1>3 DEF Refuses
<1>6. pins.speed \in config.minimum .. config.maximum
  <2>1. ~(pins.speed < config.minimum) /\ ~(pins.speed > config.maximum)
    BY <1>2, <1>5 DEF Refuses
  <2> QED
    BY <1>3, <1>5, <2>1
<1>7. hz.num \in Int /\ hz.den \in Int /\ hz.den > 0 /\ hz \in [num : Int, den : Int]
  BY <1>3, <1>4, <1>5 DEF requested_hz
<1>8. ~(hz.num < pins.parameters.F011 * hz.den)
  BY <1>2, <1>5 DEF Refuses
<1>9. /\ ~(u * hz.num > MaxRegister * hz.den)
      /\ ~(hz.num > config.F005 * hz.den)
      /\ requested_raw # 0
      /\ ~(hz.num <= 0)
  BY <1>2, <1>5 DEF Refuses
<1> DEFINE n == u * hz.num
           d == hz.den
<1>10. u \in {1, 10} /\ n \in Int /\ d \in Int /\ d > 0
  BY <1>7 DEF units_per_decihz
<1>11. requested_raw = (2 * n + d) \div (2 * d)
  BY <1>7, <1>10 DEF requested_raw
<1>12. (u * pins.parameters.F011) * d <= n /\ n <= (u * config.F005) * d
  <2>1. pins.parameters.F011 * hz.den \in Int /\ config.F005 * hz.den \in Int
    BY <1>3, <1>7
  <2>2. /\ (u * pins.parameters.F011) * d = u * (pins.parameters.F011 * d)
        /\ (u * config.F005) * d = u * (config.F005 * d)
    BY <1>3, <1>7, <1>10
  <2>3. pins.parameters.F011 * d <= hz.num /\ hz.num <= config.F005 * d
    BY <1>7, <1>8, <1>9, <2>1
  <2> QED
    BY <1>7, <1>10, <2>1, <2>2, <2>3
<1>13. 0 * d <= n /\ n <= MaxRegister * d
  BY <1>7, <1>9, <1>10 DEF MaxRegister
<1>14. u * pins.parameters.F011 \in Int /\ u * config.F005 \in Int /\ MaxRegister \in Int
  BY <1>3, <1>10 DEF MaxRegister
<1>15. /\ requested_raw \in Int /\ 0 <= requested_raw /\ requested_raw <= MaxRegister
       /\ u * pins.parameters.F011 <= requested_raw /\ requested_raw <= u * config.F005
  <2> HIDE DEF n, d, u
  <2> QED
    BY <1>10, <1>11, <1>12, <1>13, <1>14, Rounding
<1> QED
  BY <1>6, <1>7, <1>9, <1>15

-----------------------------------------------------------------------------
(* What the gates do to a context *)

\* FaultConsistent of any context.
Consistent(c) ==
    /\ InternalStateValid(c)
    /\ c.fault_latched => c.state \in {"Stopping", "Fault"}
    /\ c.state = "Fault" => c.fault_latched
    /\ c.fault_code # "InternalState"

\* The part of FrequencyHeld about any context.
Held(c) ==
    /\ c.state \in ActiveStates => c.held_frequency \in 1 .. MaxRegister
    /\ c.state \in {"Stopped", "Fault"} => c.held_frequency = 0 /\ ~c.held_reverse
    /\ c.held_frequency <= MaxRegister

Good(c) == c \in Context /\ Consistent(c) /\ Held(c)

\* Two contexts that hold the same frequency, target and direction.
SameHold(c, d) ==
    /\ c.held_frequency = d.held_frequency
    /\ c.held_target = d.held_target
    /\ c.held_reverse = d.held_reverse

LEMMA LatchGood ==
    ASSUME NEW c, Good(c), NEW code \in BlockCodes \ {"None", "InternalState"}
    PROVE  /\ Good(Latch(c, code))
           /\ SameHold(Latch(c, code), c)
           /\ Latch(c, code).fault_latched
           /\ Latch(c, code).state = "Stopping"
<1> DEFINE l == Latch(c, code)
<1>1. c \in Context /\ InternalStateValid(c) /\ c.fault_code # "InternalState"
  BY DEF Good, Consistent
<1>2. /\ l \in Context
      /\ l.state = "Stopping" /\ l.fault_latched
      /\ l.fault_code = IF c.fault_latched THEN c.fault_code ELSE code
      /\ l.fault_record = IF c.fault_latched THEN c.fault_record ELSE code
      /\ SameHold(l, c)
  BY <1>1 DEF Latch, Context, States, SameHold
<1>3. Consistent(l)
  BY <1>1, <1>2 DEF Consistent, InternalStateValid, States
<1>4. Held(l)
  BY <1>2 DEF Held, SameHold, ActiveStates, Good
<1> QED
  BY <1>2, <1>3, <1>4 DEF Good

\* The context after the reset and hold steps: nothing changed but the remembered
\* reset pin and, when a reset is accepted, the latch.
LEMMA SampledGood ==
    ASSUME TypeOK, Good(ctx)
    PROVE  /\ Good(Sampled)
           /\ SameHold(Sampled, ctx)
           /\ IF ResetAccepted
              THEN ~Sampled.fault_latched /\ Sampled.state = "Stopping"
              ELSE /\ Sampled.state = ctx.state
                   /\ Sampled.fault_latched = ctx.fault_latched
                   /\ Sampled.fault_code = ctx.fault_code
                   /\ Sampled.fault_record = ctx.fault_record
<1> DEFINE c == [ctx EXCEPT !.previous_reset = pins.reset]
           r == [c EXCEPT !.state = "Stopping", !.fault_latched = FALSE, !.fault_code = "None",
                          !.fault_record = "None"]
<1>1. pins.reset \in BOOLEAN /\ ctx \in Context
  BY DEF TypeOK, Pins
<1>2. /\ c \in Context /\ SameHold(c, ctx) /\ c.state = ctx.state
      /\ c.fault_latched = ctx.fault_latched /\ c.fault_code = ctx.fault_code
      /\ c.fault_record = ctx.fault_record
  BY <1>1 DEF Context, SameHold
<1>3. Good(c)
  BY <1>2 DEF Good, Consistent, Held, InternalStateValid, SameHold
<1>4. Validate(c) = c
  BY <1>3 DEF Validate, Good, Consistent
<1>5. /\ r \in Context /\ SameHold(r, ctx) /\ r.state = "Stopping" /\ ~r.fault_latched
      /\ r.fault_code = "None" /\ r.fault_record = "None"
  BY <1>2 DEF Context, SameHold, States, BlockCodes
<1>6. Good(r)
  <2>1. Consistent(r)
    BY <1>5 DEF Consistent, InternalStateValid, States
  <2>2. Held(r)
    BY <1>2, <1>3, <1>5 DEF Good, Held, SameHold, ActiveStates
  <2> QED
    BY <1>5, <2>1, <2>2 DEF Good
<1>7. CASE ResetAccepted
  <2>1. AcceptReset(Validate(c)) = r
    BY <1>4, <1>7 DEF AcceptReset
  <2>2. Sampled = r
    BY <1>5, <2>1 DEF Sampled, HoldFaulted
  <2> QED
    BY <1>5, <1>6, <1>7, <2>2
<1>8. CASE ~ResetAccepted
  <2>1. AcceptReset(Validate(c)) = c
    BY <1>4, <1>8 DEF AcceptReset
  <2>2. Sampled = c
    BY <1>3, <2>1 DEF Sampled, HoldFaulted, Good, Consistent
  <2> QED
    BY <1>2, <1>3, <1>8, <2>2
<1> QED
  BY <1>7, <1>8

\* A gate either lets a context pass unchanged or stops it, keeping what it holds and
\* any fault it has latched.
Stopped(c, d) ==
    /\ Good(d)
    /\ d.state = "Stopping"
    /\ SameHold(d, c)
    /\ c.fault_latched => /\ d.fault_latched
                          /\ d.fault_code = c.fault_code
                          /\ d.fault_record = c.fault_record

LEMMA LatchStops ==
    ASSUME NEW c, Good(c), NEW code \in BlockCodes \ {"None", "InternalState"}
    PROVE  Stopped(c, Latch(c, code))
<1>1. c.fault_latched => /\ Latch(c, code).fault_code = c.fault_code
                         /\ Latch(c, code).fault_record = c.fault_record
  BY DEF Latch, Good, Context
<1> QED
  BY <1>1, LatchGood DEF Stopped

LEMMA DropStops ==
    ASSUME NEW c, Good(c), c.state \in ActiveStates
    PROVE  Stopped(c, [c EXCEPT !.state = "Stopping"])
<1> DEFINE d == [c EXCEPT !.state = "Stopping"]
<1>1. /\ d \in Context /\ d.state = "Stopping" /\ SameHold(d, c)
      /\ d.fault_latched = c.fault_latched /\ d.fault_code = c.fault_code
      /\ d.fault_record = c.fault_record
  BY DEF Good, Context, States, SameHold
<1>2. Consistent(d)
  BY <1>1 DEF Good, Consistent, InternalStateValid, States
<1>3. Held(d)
  BY <1>1 DEF Good, Held, SameHold, ActiveStates
<1> QED
  BY <1>1, <1>2, <1>3 DEF Stopped, Good

\* What the state dispatch finds: the sampled context, unless a gate has stopped it;
\* and a context left in an active state, or at rest with an enabled request, belongs
\* to a run request that passed every check.
LEMMA GatedGood ==
    ASSUME TypeOK, Good(ctx)
    PROVE  /\ Good(Gated)
           /\ SameHold(Gated, ctx)
           /\ Gated = Sampled \/ Stopped(Sampled, Gated)
           /\ Gated.state \in ActiveStates => run_enabled
           /\ Gated.state \in ActiveStates \cup {"Stopped"} /\ run_enabled =>
                RunConsidered /\ run_reason = "None"
<1> DEFINE c1 == Sampled
           c2 == RefuseRequest(c1)
           c3 == RefuseConfiguration(c2)
           c4 == RefuseDirection(c3)
           c5 == DropRequest(c4)
<1>1. Good(c1) /\ SameHold(c1, ctx) /\ Gated = c5
  BY SampledGood DEF Gated
<1>2. \A d : Stopped(c1, d) => d.state = "Stopping" /\ d.state \notin ActiveStates /\ Good(d)
  BY DEF Stopped, ActiveStates
<1>3. /\ c2 = c1 \/ Stopped(c1, c2)
      /\ RunConsidered /\ run_reason # "None" => Stopped(c1, c2)
  <2>1. CASE RunConsidered /\ run_reason # "None"
    BY <1>1, <2>1, LatchStops, RunReasonCode DEF RefuseRequest
  <2>2. CASE ~(RunConsidered /\ run_reason # "None")
    BY <2>2 DEF RefuseRequest
  <2> QED
    BY <2>1, <2>2
<1>4. /\ c3 = c1 \/ Stopped(c1, c3)
      /\ Stopped(c1, c2) => c3 = c2
  <2>1. CASE Stopped(c1, c2)
    BY <1>2, <2>1 DEF RefuseConfiguration
  <2>2. CASE c2 = c1 /\ c1.state \in ActiveStates /\ configuration_block # "None"
    BY <1>1, <1>2, <2>2, LatchStops, ConfigurationBlockCode DEF RefuseConfiguration
  <2>3. CASE c2 = c1 /\ ~(c1.state \in ActiveStates /\ configuration_block # "None") /\ ~Stopped(c1, c2)
    BY <2>3 DEF RefuseConfiguration
  <2>4. CASE c2 = c1 /\ ~(c1.state \in ActiveStates /\ configuration_block # "None") /\ Stopped(c1, c2)
    BY <2>4, <2>1
  <2> QED
    BY <1>2, <1>3, <2>1, <2>2, <2>3, <2>4
<1>5. /\ c4 = c1 \/ Stopped(c1, c4)
      /\ Stopped(c1, c3) => c4 = c3
  <2>1. CASE Stopped(c1, c3)
    BY <1>2, <2>1 DEF RefuseDirection
  <2>2. CASE c3 = c1 /\ ~Stopped(c1, c3)
    <3>1. "DirectionFeedback" \in BlockCodes \ {"None", "InternalState"}
      BY Zenon DEF BlockCodes
    <3> QED
      BY <1>1, <2>2, <3>1, LatchStops DEF RefuseDirection
  <2> QED
    BY <1>4, <2>1, <2>2
<1>6. /\ c5 = c1 \/ Stopped(c1, c5)
      /\ Stopped(c1, c4) => c5 = c4
      /\ c5.state \in ActiveStates => run_enabled
  <2>1. CASE Stopped(c1, c4)
    BY <1>2, <2>1 DEF DropRequest
  <2>2. CASE c4 = c1 /\ ~Stopped(c1, c4)
    BY <1>1, <1>2, <2>2, DropStops DEF DropRequest
  <2> QED
    BY <1>5, <2>1, <2>2
<1>7. Good(Gated) /\ SameHold(Gated, ctx)
  BY <1>1, <1>6 DEF Stopped, SameHold
<1>8. ASSUME Gated.state \in ActiveStates \cup {"Stopped"}, run_enabled
      PROVE  RunConsidered /\ run_reason = "None"
  <2>1. Gated.state # "Stopping" /\ Gated.state # "Fault"
    BY <1>8 DEF ActiveStates
  <2>2. ~Stopped(c1, c5) /\ c5 = c1 /\ ~Stopped(c1, c2)
    BY <1>1, <1>3, <1>4, <1>5, <1>6, <2>1 DEF Stopped
  <2>3. ~c1.fault_latched
    BY <1>1, <2>1, <2>2 DEF Good, Consistent
  <2> QED
    BY <1>3, <1>8, <2>2, <2>3 DEF RunConsidered
<1> QED
  BY <1>1, <1>6, <1>7, <1>8

-----------------------------------------------------------------------------
(* The inductive invariant *)

\* TypeOK, FaultConsistent, FrequencyHeld and RunWordJustified together: none is
\* inductive alone. A context is consistent after a cycle because it was before; what
\* a cycle holds fits the register only if the gates saw a typed sample; and the
\* published word follows the held direction only while no gate changes it.
IInv ==
    /\ TypeOK
    /\ Good(ctx)
    /\ RunWordJustified
    /\ out.given_frequency = ctx.held_frequency

LEMMA InitIInv == Init => IInv
<1> SUFFICES ASSUME Init PROVE IInv
  OBVIOUS
<1>1. pins \in Pins
  BY DEF Init, InitialPins, Pins, Request, Link, Parameter, Feedback
<1>2. config \in Config
  BY DEF Init, SafeConfig, Config
<1>3. ctx \in Context
  BY DEF Init, NewContext, Context, NoTarget, States, BlockCodes
<1>4. out \in Output
  BY DEF Init, InitialOutput, Output, States, BlockCodes, ControlWords
<1>5. Consistent(ctx)
  BY DEF Init, NewContext, Consistent, InternalStateValid, States
<1>6. Held(ctx)
  BY DEF Init, NewContext, Held, ActiveStates, MaxRegister
<1>7. RunWordJustified /\ out.given_frequency = ctx.held_frequency
  BY DEF Init, NewContext, InitialOutput, RunWordJustified
<1> QED
  BY <1>1, <1>2, <1>3, <1>4, <1>5, <1>6, <1>7 DEF IInv, TypeOK, Good

\* A cycle that commits a good context and publishes its frequency and the control word
\* its state calls for preserves the invariant.
LEMMA CommitIInv ==
    ASSUME TypeOK, NEW c, Good(c), NEW control \in ControlWords, NEW frequency \in Nat,
           Commit(c, control, frequency),
           frequency = c.held_frequency,
           control = IF c.state \in {"Starting", "Running"} THEN RunWord(c) ELSE CONTROL_STOP
    PROVE  IInv'
<1>1. ctx' = c /\ pins' = pins /\ config' = config
  BY DEF Commit
<1>2. out'.main_control = control /\ out'.given_frequency = frequency
  BY DEF Commit
<1>3. pins' \in Pins /\ config' \in Config
  BY <1>1 DEF TypeOK
<1>4. c \in Context /\ ctx' \in Context
  BY <1>1 DEF Good
<1>5. /\ configuration_block \in BlockCodes /\ run_reason \in BlockCodes
      /\ c.fault_code \in BlockCodes /\ c.state \in States
      /\ c.fault_latched \in BOOLEAN /\ c.held_reverse \in BOOLEAN
      /\ request.run_request \in BOOLEAN
  BY <1>4, ConfigurationBlockCode, RunReasonCode DEF Context, TypeOK, Pins, Request, request
<1>6. out' \in Output
  BY <1>5 DEF Commit, Output
<1>7. TypeOK'
  BY <1>3, <1>4, <1>6 DEF TypeOK
<1>8. Good(ctx)'
  BY <1>1 DEF Good, Consistent, Held, InternalStateValid
<1>9. RunWordJustified'
  BY <1>1, <1>2 DEF RunWordJustified, RunWord
<1> QED
  BY <1>1, <1>2, <1>7, <1>8, <1>9 DEF IInv

\* Holding the requested frequency in an active state, and releasing what is held in a
\* resting one, keep a context good.
LEMMA HoldGood ==
    ASSUME TypeOK, NEW c, Good(c), RunConsidered, run_reason = "None", ~c.fault_latched,
           NEW state \in ActiveStates
    PROVE  /\ Good(Hold(c, state))
           /\ Hold(c, state).state = state
           /\ Hold(c, state).held_frequency = requested_raw
           /\ Hold(c, state).held_reverse = c.held_reverse
           /\ requested_raw \in Nat
<1> DEFINE h == Hold(c, state)
<1>1. /\ requested_raw \in 1 .. MaxRegister /\ requested_raw \in Nat
      /\ requested_hz \in [num : Int, den : Int]
  <2>1. requested_raw \in 1 .. MaxRegister /\ requested_hz \in [num : Int, den : Int]
    BY RequestedFrequency, Zenon
  <2> QED
    BY <2>1, RegisterValues, Zenon
<1>2. /\ h \in Context /\ h.state = state /\ h.held_frequency = requested_raw
      /\ h.held_reverse = c.held_reverse /\ h.fault_latched = c.fault_latched
      /\ h.fault_code = c.fault_code /\ h.fault_record = c.fault_record
  BY <1>1 DEF Hold, Good, Context, States, ActiveStates
<1> HIDE DEF h
<1>3. Consistent(h)
  BY <1>2 DEF Consistent, Good, InternalStateValid, States, ActiveStates
<1>4. Held(h)
  BY <1>1, <1>2, RegisterValues DEF Held, ActiveStates
<1>5. Good(h)
  BY <1>2, <1>3, <1>4 DEF Good
<1> QED
  BY <1>1, <1>2, <1>5 DEF h

LEMMA ReleaseGood ==
    ASSUME NEW c, Good(c), c.state \in {"Stopped", "Stopping", "Fault"},
           NEW state \in {"Stopped", "Fault"}, state = "Fault" <=> c.fault_latched
    PROVE  LET r == [Release(c) EXCEPT !.state = state]
           IN  Good(r) /\ r.state = state /\ r.held_frequency = 0
<1> DEFINE q == Release(c)
<1>1. /\ q \in Context /\ q.held_frequency = 0 /\ ~q.held_reverse
      /\ q.fault_latched = c.fault_latched /\ q.fault_code = c.fault_code
      /\ q.fault_record = c.fault_record
  <2>1. c \in Context
    BY DEF Good
  <2>2. NoTarget \in [num : Int, den : Int]
    BY DEF NoTarget
  <2> QED
    BY <2>1, <2>2 DEF Release, Context
<1> DEFINE r == [q EXCEPT !.state = state]
<1>2. /\ r \in Context /\ r.state = state /\ r.held_frequency = 0 /\ ~r.held_reverse
      /\ r.fault_latched = c.fault_latched /\ r.fault_code = c.fault_code
      /\ r.fault_record = c.fault_record
  <2> HIDE DEF q
  <2> QED
    BY <1>1 DEF Context, States
<1> HIDE DEF r
<1>3. Consistent(r)
  BY <1>2 DEF Consistent, Good, InternalStateValid, States
<1>4. Held(r)
  BY <1>2 DEF Held, ActiveStates, MaxRegister
<1>5. Good(r) /\ r.state = state /\ r.held_frequency = 0
  BY <1>2, <1>3, <1>4 DEF Good
<1> QED
  BY <1>5 DEF r

LEMMA CycleIInv == IInv /\ Cycle => IInv'
<1> SUFFICES ASSUME IInv, Cycle PROVE IInv'
  OBVIOUS
<1> DEFINE c == Gated
<1>1. TypeOK /\ Good(ctx)
  BY DEF IInv
<1>2. /\ Good(c)
      /\ c.state \in ActiveStates => run_enabled
      /\ c.state \in ActiveStates \cup {"Stopped"} /\ run_enabled =>
           RunConsidered /\ run_reason = "None"
  BY <1>1, GatedGood
<1>3. Dispatch(c)
  BY DEF Cycle
<1> HIDE DEF c
<1>4. /\ c.fault_latched => c.state \in {"Stopping", "Fault"}
      /\ c.state = "Fault" => c.fault_latched
      /\ c.held_frequency \in Nat
  BY <1>2 DEF Good, Consistent, Context
<1>5. CONTROL_STOP \in ControlWords /\ RunWord(c) \in ControlWords
  BY DEF ControlWords, RunWord
<1>6. ASSUME c.state \in {"Arming", "Starting", "Running"}
      PROVE  RunConsidered /\ run_reason = "None" /\ ~c.fault_latched
  BY <1>2, <1>4, <1>6 DEF ActiveStates
<1>7. CASE HoldStopped(c)
  <2>1. /\ c.state = "Stopped" /\ ~c.fault_latched /\ c.state \in {"Stopped", "Fault"}
        /\ Commit(Release(c), CONTROL_STOP, 0)
    BY <1>4, <1>7 DEF HoldStopped
  <2>2. c \in Context
    BY <1>2 DEF Good
  <2>3. Release(c) = [Release(c) EXCEPT !.state = "Stopped"]
    BY <2>1, <2>2 DEF Release, Context
  <2>4. Good(Release(c)) /\ Release(c).state = "Stopped" /\ Release(c).held_frequency = 0
    BY <1>2, <2>1, <2>3, ReleaseGood
  <2> QED
    BY <1>1, <1>5, <2>1, <2>4, CommitIInv
<1>8. CASE BeginArming(c)
  <2> DEFINE h == Hold(c, "Arming")
             a == [h EXCEPT !.held_reverse = requested_reverse]
  <2>1. /\ c.state = "Stopped" /\ run_enabled /\ ~c.fault_latched
        /\ Commit(a, CONTROL_STOP, requested_raw)
    BY <1>4, <1>8 DEF BeginArming
  <2>2. RunConsidered /\ run_reason = "None" /\ "Arming" \in ActiveStates
    BY <1>2, <2>1 DEF ActiveStates
  <2>3. /\ Good(h) /\ h.state = "Arming" /\ h.held_frequency = requested_raw
        /\ requested_raw \in Nat
    BY <1>1, <1>2, <2>1, <2>2, HoldGood
  <2>4. requested_reverse \in BOOLEAN
    BY DEF requested_reverse
  <2>5. Good(a) /\ a.state = "Arming" /\ a.held_frequency = requested_raw
    <3> HIDE DEF h
    <3>1. h \in Context /\ Consistent(h) /\ Held(h)
      BY <2>3 DEF Good
    <3>2. /\ a \in Context /\ a.state = "Arming" /\ a.held_frequency = requested_raw
          /\ a.fault_latched = h.fault_latched /\ a.fault_code = h.fault_code
          /\ a.fault_record = h.fault_record
      BY <2>3, <2>4, <3>1 DEF Context
    <3> HIDE DEF a
    <3>3. Consistent(a)
      BY <2>3, <3>1, <3>2 DEF Consistent, InternalStateValid
    <3>4. Held(a)
      BY <2>3, <3>1, <3>2 DEF Held, ActiveStates
    <3> QED
      BY <3>2, <3>3, <3>4 DEF Good
  <2> HIDE DEF a
  <2> QED
    BY <1>1, <1>5, <2>1, <2>3, <2>5, CommitIInv
<1>9. CASE AwaitReadback(c)
  <2>1. c.state = "Arming" /\ Commit(Hold(c, "Arming"), CONTROL_STOP, requested_raw)
    BY <1>9 DEF AwaitReadback
  <2>2. "Arming" \in ActiveStates
    BY DEF ActiveStates
  <2> QED
    BY <1>1, <1>2, <1>5, <1>6, <2>1, <2>2, HoldGood, CommitIInv
<1>10. ASSUME c.state \in {"Arming", "Starting", "Running"}, NEW state \in {"Starting", "Running"},
              Commit(Hold(c, state), RunWord(c), requested_raw)
       PROVE  IInv'
  <2>1. state \in ActiveStates
    BY <1>10 DEF ActiveStates
  <2> DEFINE h == Hold(c, state)
  <2>2. /\ Good(h) /\ h.state = state /\ h.held_frequency = requested_raw
        /\ h.held_reverse = c.held_reverse /\ requested_raw \in Nat
    BY <1>1, <1>2, <1>6, <1>10, <2>1, HoldGood
  <2>3. RunWord(h) = RunWord(c)
    BY <2>2 DEF RunWord
  <2>4. Commit(h, RunWord(c), requested_raw)
    BY <1>10
  <2> HIDE DEF h
  <2> QED
    BY <1>1, <1>5, <1>10, <2>2, <2>3, <2>4, CommitIInv
<1>11. CASE StartRotation(c)
  BY <1>10, <1>11 DEF StartRotation
<1>12. CASE AwaitSpeed(c)
  BY <1>10, <1>12 DEF AwaitSpeed
<1>13. CASE VerifySpeed(c)
  BY <1>10, <1>13 DEF VerifySpeed
<1>14. CASE AwaitStop(c)
  <2>1. c.state = "Stopping" /\ Commit(c, CONTROL_STOP, c.held_frequency)
    BY <1>14 DEF AwaitStop
  <2> QED
    BY <1>1, <1>2, <1>4, <1>5, <2>1, CommitIInv
<1>15. CASE FinishStop(c)
  <2> DEFINE rest == IF c.fault_latched THEN "Fault" ELSE "Stopped"
             r == [Release(c) EXCEPT !.state = rest]
  <2>1. c.state = "Stopping" /\ Commit(r, CONTROL_STOP, 0)
    BY <1>15 DEF FinishStop
  <2>2. /\ Good(r) /\ r.state = rest /\ r.held_frequency = 0
        /\ rest \in {"Stopped", "Fault"}
    BY <1>2, <2>1, ReleaseGood
  <2> HIDE DEF r, rest
  <2> QED
    BY <1>1, <1>5, <2>1, <2>2, CommitIInv
<1>16. CASE HoldFault(c)
  <2> DEFINE held == IF stopped_feedback THEN Release(c) ELSE c
  <2>1. c.state = "Fault" /\ Commit(held, CONTROL_STOP, held.held_frequency)
    BY <1>16 DEF HoldFault
  <2>2. c \in Context /\ c.fault_latched
    BY <1>2, <1>4, <2>1 DEF Good
  <2>3. Release(c) = [Release(c) EXCEPT !.state = "Fault"]
    BY <2>1, <2>2 DEF Release, Context
  <2>4. Good(Release(c)) /\ Release(c).state = "Fault"
    BY <1>2, <2>1, <2>2, <2>3, ReleaseGood
  <2>5. Good(held) /\ held.state = "Fault" /\ held.held_frequency \in Nat
    <3>1. Good(held) /\ held.state = "Fault"
      BY <1>2, <2>1, <2>4
    <3> QED
      BY <3>1 DEF Good, Context
  <2> HIDE DEF held
  <2> QED
    BY <1>1, <1>5, <2>1, <2>5, CommitIInv
<1> QED
  BY <1>3, <1>7, <1>8, <1>9, <1>11, <1>12, <1>13, <1>14, <1>15, <1>16 DEF Dispatch

\* The invariant asks only for the type of what the sequencer does not write.
LEMMA PinsIInv ==
    ASSUME IInv, pins' \in Pins, config' \in Config, UNCHANGED <<ctx, out>>
    PROVE  IInv'
<1>1. TypeOK'
  BY DEF IInv, TypeOK
<1>2. Good(ctx)'
  BY DEF IInv, Good, Consistent, Held, InternalStateValid
<1>3. RunWordJustified' /\ (out.given_frequency = ctx.held_frequency)'
  BY DEF IInv, RunWordJustified, RunWord
<1> QED
  BY <1>1, <1>2, <1>3 DEF IInv

\* A pin or configuration change keeps its type and touches nothing else.
LEMMA EnvironmentIInv == IInv /\ Environment => IInv'
<1> SUFFICES ASSUME IInv, Environment PROVE IInv'
  OBVIOUS
<1>1. pins \in Pins /\ config \in Config
  BY DEF IInv, TypeOK
<1>2. pins' \in Pins /\ config' \in Config /\ UNCHANGED <<ctx, out>>
  <2>1. CASE SetRequest
    BY <1>1, <2>1, RequestsAssumption DEF SetRequest, SetPins, Pins
  <2>2. CASE SetSpeed
    BY <1>1, <2>2, SpeedCommandsAssumption DEF SetSpeed, SetPins, Pins
  <2>3. CASE SetReset
    BY <1>1, <2>3, ResetsAssumption DEF SetReset, SetPins, Pins
  <2>4. CASE SetLink
    BY <1>1, <2>4, LinksAssumption DEF SetLink, SetPins, Pins
  <2>5. CASE SetParameters
    BY <1>1, <2>5, ParametersAssumption DEF SetParameters, SetPins, Pins
  <2>6. CASE SetFeedback
    BY <1>1, <2>6, FeedbacksAssumption DEF SetFeedback, SetPins, Pins
  <2>7. CASE SetReadback
    BY <1>1, <2>7, ReadbacksAssumption DEF SetReadback, SetPins, Pins
  <2>8. CASE SetConfig
    BY <1>1, <2>8, ConfigsAssumption DEF SetConfig
  <2> QED
    BY <2>1, <2>2, <2>3, <2>4, <2>5, <2>6, <2>7, <2>8 DEF Environment
<1> QED
  BY <1>2, PinsIInv

LEMMA StutterIInv == IInv /\ UNCHANGED vars => IInv'
  BY DEF IInv, vars, TypeOK, Good, Consistent, Held, InternalStateValid, RunWordJustified, RunWord

\* The invariant of the specification.
LEMMA SpecIInv == Spec => []IInv
<1>1. IInv /\ [Next]_vars => IInv'
  BY CycleIInv, EnvironmentIInv, StutterIInv DEF Next
<1> QED
  BY InitIInv, <1>1, PTL DEF Spec

\* The state of the context always decodes, and every other variable has its type.
THEOREM SpecTypeOK == Spec => []TypeOK
<1>1. IInv => TypeOK
  BY DEF IInv
<1> QED
  BY SpecIInv, <1>1, PTL

\* The latch, the code, the record and the state always agree, so that
\* validate_internal_state never rejects a context step left behind.
THEOREM SpecFaultConsistent == Spec => []FaultConsistent
<1>1. IInv => FaultConsistent
  BY DEF IInv, Good, Consistent, FaultConsistent
<1> QED
  BY SpecIInv, <1>1, PTL

\* A run holds a frequency that fits the register, a resting sequencer holds none, and
\* what is published is what is held.
THEOREM SpecFrequencyHeld == Spec => []FrequencyHeld
<1>1. IInv => FrequencyHeld
  BY DEF IInv, Good, Held, FrequencyHeld
<1> QED
  BY SpecIInv, <1>1, PTL

\* The published control word is the one the state and the held direction call for.
THEOREM SpecRunWordJustified == Spec => []RunWordJustified
<1>1. IInv => RunWordJustified
  BY DEF IInv
<1> QED
  BY SpecIInv, <1>1, PTL

-----------------------------------------------------------------------------
(* What a step may never do *)

\* A step that is neither a cycle nor a change of a pin or the configuration does
\* nothing at all.
LEMMA OnlyCyclesKeepPins == Environment /\ CycleStep => UNCHANGED vars
  BY DEF Environment, CycleStep, vars, SetPins, SetRequest, SetSpeed, SetReset, SetLink,
         SetParameters, SetFeedback, SetReadback, SetConfig

\* The state dispatch keeps the fault the gates left.
LEMMA DispatchKeepsFault ==
    ASSUME NEW c, c \in Context, Dispatch(c)
    PROVE  /\ ctx'.fault_latched = c.fault_latched
           /\ ctx'.fault_code = c.fault_code
           /\ ctx'.fault_record = c.fault_record
<1> DEFINE Kept(d) == /\ d.fault_latched = c.fault_latched
                      /\ d.fault_code = c.fault_code
                      /\ d.fault_record = c.fault_record
<1>1. \A state : Kept(Hold(c, state)) /\ Kept([Hold(c, state) EXCEPT !.held_reverse = requested_reverse])
  BY DEF Hold, Context
<1>2. Kept(Release(c)) /\ \A state : Kept([Release(c) EXCEPT !.state = state])
  BY DEF Release, Context
<1>3. Kept(c)
  OBVIOUS
<1>4. \A d, control, frequency : Commit(d, control, frequency) /\ Kept(d) => Kept(ctx')
  BY DEF Commit
<1> HIDE DEF Kept
<1>5. Kept(ctx')
  <2>1. CASE HoldStopped(c)
    BY <1>2, <1>4, <2>1 DEF HoldStopped
  <2>2. CASE BeginArming(c)
    BY <1>1, <1>4, <2>2 DEF BeginArming
  <2>3. CASE AwaitReadback(c)
    BY <1>1, <1>4, <2>3 DEF AwaitReadback
  <2>4. CASE StartRotation(c)
    BY <1>1, <1>4, <2>4 DEF StartRotation
  <2>5. CASE AwaitSpeed(c)
    BY <1>1, <1>4, <2>5 DEF AwaitSpeed
  <2>6. CASE VerifySpeed(c)
    BY <1>1, <1>4, <2>6 DEF VerifySpeed
  <2>7. CASE AwaitStop(c)
    BY <1>3, <1>4, <2>7 DEF AwaitStop
  <2>8. CASE FinishStop(c)
    BY <1>2, <1>4, <2>8 DEF FinishStop
  <2>9. CASE HoldFault(c)
    BY <1>2, <1>3, <1>4, <2>9 DEF HoldFault
  <2> QED
    BY <2>1, <2>2, <2>3, <2>4, <2>5, <2>6, <2>7, <2>8, <2>9 DEF Dispatch
<1> QED
  BY <1>5 DEF Kept

\* A latched fault outlives every cycle but the one that accepts a reset, and only a
\* cycle at rest accepts one.
LEMMA TripOutlives ==
    ASSUME IInv, Cycle, ctx.fault_latched, ~ctx'.fault_latched
    PROVE  stopped_feedback /\ ResetAccepted
<1>1. TypeOK /\ Good(ctx)
  BY DEF IInv
<1>2. Good(Gated) /\ Dispatch(Gated) /\ (Gated = Sampled \/ Stopped(Sampled, Gated))
  BY <1>1, GatedGood DEF Cycle
<1>3. ctx'.fault_latched = Gated.fault_latched
  BY <1>2, DispatchKeepsFault DEF Good
<1>4. ResetAccepted
  BY <1>1, <1>2, <1>3, SampledGood DEF Stopped
<1> QED
  BY <1>4 DEF ResetAccepted

\* The first fault and its record survive until a reset is accepted, and a reset is
\* accepted only on a rising edge at rest, without a request or another fault.
THEOREM SpecFaultKept == Spec => FaultKept
<1> DEFINE Accepted == /\ reset_rising
                       /\ ~request.run_request
                       /\ stopped_feedback
                       /\ ~pins.link.link_fault
                       /\ pins.feedback.current_fault = 0
           Kept == /\ ctx'.fault_latched
                   /\ ctx'.fault_code = ctx.fault_code
                   /\ ctx'.fault_record = ctx.fault_record
<1>1. ASSUME IInv, Cycle, ctx.fault_latched, ~Accepted
      PROVE  Kept
  <2>1. TypeOK /\ Good(ctx)
    BY <1>1 DEF IInv
  <2>2. ~ResetAccepted
    BY <1>1 DEF ResetAccepted
  <2>3. /\ Sampled.fault_latched = ctx.fault_latched
        /\ Sampled.fault_code = ctx.fault_code
        /\ Sampled.fault_record = ctx.fault_record
    BY <2>1, <2>2, SampledGood
  <2>4. /\ Gated.fault_latched /\ Gated.fault_code = ctx.fault_code
        /\ Gated.fault_record = ctx.fault_record
    BY <1>1, <2>1, <2>3, GatedGood DEF Stopped
  <2>5. Gated \in Context
    BY <2>1, GatedGood DEF Good
  <2> QED
    BY <1>1, <2>4, <2>5, DispatchKeepsFault DEF Cycle
<1>2. ASSUME IInv, [Next]_vars, ctx.fault_latched
      PROVE  Accepted \/ Kept
  <2>1. CASE Cycle
    BY <1>1, <1>2, <2>1
  <2>2. CASE Environment \/ UNCHANGED vars
    <3>1. UNCHANGED ctx
      BY <2>2 DEF Environment, vars, SetPins, SetRequest, SetSpeed, SetReset, SetLink,
                  SetParameters, SetFeedback, SetReadback, SetConfig
    <3> QED
      BY <1>2, <3>1
  <2> QED
    BY <1>2, <2>1, <2>2 DEF Next
<1>3. IInv /\ [Next]_vars => [ctx.fault_latched => Kept \/ Accepted]_vars
  BY <1>2
<1> QED
  BY SpecIInv, <1>3, PTL DEF Spec, FaultKept

\* Outside a run the published frequency is retained until rest is sampled, then
\* cleared, and never raised.
THEOREM SpecFrequencyRetained == Spec => FrequencyRetained
<1> DEFINE Goal == out'.given_frequency = IF stopped_feedback THEN 0 ELSE out.given_frequency
<1>1. ASSUME IInv, Cycle, ctx'.state \notin ActiveStates
      PROVE  Goal
  <2> DEFINE c == Gated
  <2>1. /\ TypeOK /\ Good(ctx) /\ out.given_frequency = ctx.held_frequency
    BY <1>1 DEF IInv
  <2>2. /\ Good(c) /\ c.held_frequency = ctx.held_frequency /\ Dispatch(c)
    BY <1>1, <2>1, GatedGood DEF SameHold, Cycle
  <2> HIDE DEF c
  <2>3. c \in Context /\ (c.state \in {"Stopped", "Fault"} => c.held_frequency = 0)
    BY <2>2 DEF Good, Held
  <2>4. \A d, control, frequency :
          Commit(d, control, frequency) => ctx' = d /\ out'.given_frequency = frequency
    BY DEF Commit
  <2>5. \A state \in ActiveStates : Hold(c, state).state \in ActiveStates
    BY <2>3 DEF Hold, Context
  <2>6. "Arming" \in ActiveStates /\ "Starting" \in ActiveStates /\ "Running" \in ActiveStates
    BY DEF ActiveStates
  <2>7. CASE HoldStopped(c)
    BY <2>1, <2>2, <2>3, <2>4, <2>7 DEF HoldStopped
  <2>8. CASE BeginArming(c)
    <3> DEFINE h == Hold(c, "Arming")
               a == [h EXCEPT !.held_reverse = requested_reverse]
    <3>1. Commit(a, CONTROL_STOP, requested_raw)
      BY <2>8 DEF BeginArming
    <3>2. h.state = "Arming" /\ a.state = h.state
      BY <2>3 DEF Hold, Context
    <3> HIDE DEF h, a
    <3>3. ctx'.state = "Arming"
      BY <2>4, <3>1, <3>2
    <3> QED
      BY <1>1, <2>6, <3>3
  <2>9. CASE AwaitReadback(c)
    BY <1>1, <2>4, <2>5, <2>6, <2>9 DEF AwaitReadback
  <2>10. CASE StartRotation(c)
    BY <1>1, <2>4, <2>5, <2>6, <2>10 DEF StartRotation
  <2>11. CASE AwaitSpeed(c)
    BY <1>1, <2>4, <2>5, <2>6, <2>11 DEF AwaitSpeed
  <2>12. CASE VerifySpeed(c)
    BY <1>1, <2>4, <2>5, <2>6, <2>12 DEF VerifySpeed
  <2>13. CASE AwaitStop(c)
    BY <2>1, <2>2, <2>4, <2>13 DEF AwaitStop
  <2>14. CASE FinishStop(c)
    BY <2>4, <2>14 DEF FinishStop
  <2>15. CASE HoldFault(c)
    <3>1. Release(c).held_frequency = 0
      BY <2>3 DEF Release, Context
    <3> QED
      BY <2>1, <2>2, <2>4, <2>15, <3>1 DEF HoldFault
  <2> QED
    BY <2>2, <2>7, <2>8, <2>9, <2>10, <2>11, <2>12, <2>13, <2>14, <2>15 DEF Dispatch
<1>2. IInv /\ [Next]_vars => [CycleStep /\ ctx'.state \notin ActiveStates => Goal]_vars
  BY <1>1, OnlyCyclesKeepPins DEF Next
<1> QED
  BY SpecIInv, <1>2, PTL DEF Spec, FrequencyRetained

\* A cycle publishes a run word only from the states that turn the spindle, with the
\* frequency the request asks for.
LEMMA RunCycle ==
    ASSUME IInv, Cycle, out'.main_control # CONTROL_STOP
    PROVE  /\ RunConsidered /\ run_reason = "None"
           /\ ~ctx'.fault_latched
           /\ out'.main_control = RunWord(Gated) /\ Gated.held_reverse = ctx.held_reverse
           /\ out'.given_frequency = requested_raw
           /\ ctx'.state = "Running" => VerifySpeed(Gated)
<1> DEFINE c == Gated
<1>1. TypeOK /\ Good(ctx)
  BY DEF IInv
<1>2. /\ Good(c) /\ Dispatch(c) /\ c.held_reverse = ctx.held_reverse
      /\ c.state \in ActiveStates => RunConsidered /\ run_reason = "None"
  BY <1>1, GatedGood DEF SameHold, Cycle
<1> HIDE DEF c
<1>3. c \in Context /\ (c.state \in ActiveStates => ~c.fault_latched)
  BY <1>2 DEF Good, Consistent, ActiveStates
<1>4. \A d, control, frequency :
        Commit(d, control, frequency) =>
          ctx' = d /\ out'.main_control = control /\ out'.given_frequency = frequency
  BY DEF Commit
<1>5. StartRotation(c) \/ AwaitSpeed(c) \/ VerifySpeed(c)
  BY <1>2, <1>4 DEF Dispatch, HoldStopped, BeginArming, AwaitReadback, AwaitStop, FinishStop,
                    HoldFault
<1>6. /\ c.state \in ActiveStates
      /\ out'.main_control = RunWord(c) /\ out'.given_frequency = requested_raw
  BY <1>4, <1>5 DEF StartRotation, AwaitSpeed, VerifySpeed, ActiveStates
<1>7. ~ctx'.fault_latched
  BY <1>2, <1>3, <1>6, DispatchKeepsFault
<1>8. ASSUME ctx'.state = "Running", ~VerifySpeed(c)
      PROVE  FALSE
  <2>1. Hold(c, "Starting").state = "Starting"
    BY <1>3 DEF Hold, Context
  <2> QED
    BY <1>4, <1>5, <1>8, <2>1 DEF StartRotation, AwaitSpeed
<1> QED
  BY <1>2, <1>6, <1>7, <1>8 DEF c

\* configuration_block reports no block exactly when every precondition holds.
LEMMA BlockedOrReady ==
    ASSUME TypeOK
    PROVE  configuration_block = "None" <=> Preconditions
<1>1. configuration_block = "None" <=>
        \A i \in DOMAIN ConfigurationOrder : ~Blocks(ConfigurationOrder[i])
  <2>1. ASSUME \A i \in DOMAIN ConfigurationOrder : ~Blocks(ConfigurationOrder[i])
        PROVE  configuration_block = "None"
    BY <2>1 DEF configuration_block, FirstIn
  <2> QED
    BY <2>1, ConfigurationBlockCode
<1>2. (\A i \in DOMAIN ConfigurationOrder : ~Blocks(ConfigurationOrder[i])) <=>
        \A code \in InOrder(ConfigurationOrder) : ~Blocks(code)
  BY DEF InOrder
<1>3. InOrder(ConfigurationOrder) =
        {"Link", "CommandDisabled", "F001", "F002", "F024", "F163", "F164", "F165", "F169",
         "ExplicitFrequency", "F004", "F005", "RpmLimits", "VfdFault"}
  BY DEF InOrder, ConfigurationOrder
<1> DEFINE p == pins.parameters
<1>4. (\A code \in InOrder(ConfigurationOrder) : ~Blocks(code)) <=>
        /\ ~pins.link.link_fault /\ ~pins.link.any_command_disabled
        /\ p.F001 = 2 /\ p.F002 = 2 /\ p.F024 = 1 /\ p.F163 = 1 /\ p.F164 = 2 /\ p.F165 = 3
        /\ ~(p.F169 > 1)
        /\ config.F004 # 0 /\ config.F005 # 0
        /\ p.F004 = config.F004 /\ p.F005 = config.F005
        /\ config.finite
        /\ ~(config.rated <= 0) /\ ~(config.minimum <= 0)
        /\ ~(config.maximum < config.minimum) /\ ~(config.maximum > config.rated)
        /\ ~(config.tolerance < 0)
        /\ pins.feedback.current_fault = 0
  BY <1>3 DEF Blocks
<1> QED
  BY <1>1, <1>2, <1>4 DEF Preconditions, TypeOK, Pins, Config, Parameter, Link

\* A run word is only published under every precondition, for one direction, within
\* the RPM limits, and with a register value between F011 and F005.
THEOREM SpecRunOnlyWhenPermitted == Spec => RunOnlyWhenPermitted
<1>1. ASSUME IInv, Cycle, out'.main_control # CONTROL_STOP
      PROVE  RunPermitted
  <2>1. TypeOK
    BY <1>1 DEF IInv
  <2>2. /\ RunConsidered /\ run_reason = "None" /\ ~ctx'.fault_latched
        /\ out'.given_frequency = requested_raw
    BY <1>1, RunCycle
  <2>3. run_enabled
    BY <2>2 DEF RunConsidered
  <2>4. Preconditions
    BY <2>1, <2>2, RunReasonCode, BlockedOrReady
  <2>5. request.forward_request # request.reverse_request
    <3>1. RequestOrder[1] = "Direction" /\ 1 \in DOMAIN RequestOrder
      BY DEF RequestOrder
    <3>2. ~Refuses("Direction")
      BY <2>2, <3>1, RunReasonCode
    <3> QED
      BY <3>2 DEF Refuses
  <2>6. /\ requested_raw \in 1 .. MaxRegister
        /\ pins.speed \in config.minimum .. config.maximum
        /\ units_per_decihz * pins.parameters.F011 <= requested_raw
        /\ requested_raw <= units_per_decihz * config.F005
    BY <2>1, <2>2, RequestedFrequency, Zenon
  <2>7. requested_raw \in
          units_per_decihz * pins.parameters.F011 .. units_per_decihz * config.F005
    <3>1. /\ requested_raw \in Int /\ units_per_decihz \in {1, 10}
          /\ pins.parameters.F011 \in Nat /\ config.F005 \in Nat
      <4>1. requested_raw \in Nat
        BY <2>6, RegisterValues, Zenon
      <4> QED
        BY <2>1, <4>1 DEF TypeOK, Pins, Parameter, Config, units_per_decihz
    <3> QED
      BY <2>6, <3>1
  <2> QED
    BY <2>2, <2>3, <2>4, <2>5, <2>6, <2>7, Zenon DEF RunPermitted
<1>2. IInv /\ [Next]_vars => [CycleStep /\ out'.main_control # CONTROL_STOP => RunPermitted]_vars
  BY <1>1, OnlyCyclesKeepPins DEF Next
<1> QED
  BY SpecIInv, <1>2, PTL DEF Spec, RunOnlyWhenPermitted

\* What ready says of the sample of its cycle.
LEMMA ReadyCycle ==
    ASSUME IInv, Cycle
    PROVE  out'.ready = (Preconditions /\ ~ctx'.fault_latched)
<1>1. \A d, control, frequency :
        Commit(d, control, frequency) =>
          out'.ready = (configuration_block = "None" /\ ~ctx'.fault_latched)
  BY DEF Commit
<1>2. out'.ready = (configuration_block = "None" /\ ~ctx'.fault_latched)
  BY <1>1 DEF Cycle, Dispatch, HoldStopped, BeginArming, AwaitReadback, StartRotation,
              AwaitSpeed, VerifySpeed, AwaitStop, FinishStop, HoldFault
<1>3. TypeOK
  BY DEF IInv
<1> QED
  BY <1>2, <1>3, BlockedOrReady

\* ready is published exactly when every precondition holds and no fault is latched.
THEOREM SpecReadyHonest == Spec => ReadyHonest
<1>1. IInv /\ [Next]_vars =>
        [CycleStep => out'.ready = (Preconditions /\ ~ctx'.fault_latched)]_vars
  BY ReadyCycle, OnlyCyclesKeepPins DEF Next
<1> QED
  BY SpecIInv, <1>1, PTL DEF Spec, ReadyHonest

\* With a run requested, at-speed is published only on a sample that shows rotation in
\* the commanded direction within the tolerance of the speed it requests.
THEOREM SpecAtSpeedHonest == Spec => AtSpeedHonest
<1> DEFINE Goal == /\ is_running /\ pins.speed # NotFinite
                   /\ ("Reverse" \in pins.feedback.main_status) =
                        (out'.main_control = CONTROL_REVERSE)
                   /\ out'.main_control # CONTROL_STOP
                   /\ WithinTolerance
<1>1. ASSUME IInv, Cycle, request.run_request, out'.at_speed
      PROVE  Goal
  <2>1. \A d, control, frequency :
          Commit(d, control, frequency) =>
            out'.at_speed = (~request.run_request \/ ctx'.state = "Running")
    BY DEF Commit
  <2>2. out'.at_speed = (~request.run_request \/ ctx'.state = "Running")
    BY <1>1, <2>1 DEF Cycle, Dispatch, HoldStopped, BeginArming, AwaitReadback, StartRotation,
                      AwaitSpeed, VerifySpeed, AwaitStop, FinishStop, HoldFault
  <2>3. ctx'.state = "Running"
    BY <1>1, <2>2
  <2>4. IInv'
    BY <1>1, CycleIInv
  <2>5. out'.main_control = RunWord(ctx)'
    BY <2>3, <2>4 DEF IInv, RunWordJustified
  <2>6. out'.main_control # CONTROL_STOP
    BY <2>5 DEF RunWord, CONTROL_FORWARD, CONTROL_REVERSE, CONTROL_STOP
  <2>7. /\ RunConsidered /\ run_reason = "None" /\ VerifySpeed(Gated)
        /\ out'.main_control = RunWord(Gated) /\ Gated.held_reverse = ctx.held_reverse
    BY <1>1, <2>3, <2>6, RunCycle
  <2>8. is_running /\ direction_feedback_matches /\ WithinTolerance
    BY <2>7 DEF VerifySpeed, SpeedVerified
  <2>9. ("Reverse" \in pins.feedback.main_status) = (out'.main_control = CONTROL_REVERSE)
    <3>1. Gated.held_reverse \in BOOLEAN
      BY <1>1, GatedGood DEF IInv, Good, Context
    <3> QED
      BY <2>7, <2>8, <3>1
         DEF RunWord, direction_feedback_matches, CONTROL_FORWARD, CONTROL_REVERSE
  <2>10. pins.speed # NotFinite
    <3>1. RequestOrder[3] = "SpeedInvalid" /\ 3 \in DOMAIN RequestOrder
      BY DEF RequestOrder
    <3> QED
      BY <2>7, <3>1, RunReasonCode DEF Refuses
  <2> QED
    BY <2>6, <2>8, <2>9, <2>10
<1>2. IInv /\ [Next]_vars => [CycleStep /\ request.run_request /\ out'.at_speed => Goal]_vars
  BY <1>1, OnlyCyclesKeepPins DEF Next
<1> QED
  BY SpecIInv, <1>2, PTL DEF Spec, AtSpeedHonest
=============================================================================
