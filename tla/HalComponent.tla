---------------------------- MODULE HalComponent ----------------------------
(***************************************************************************)
(* The HAL component around the sequencer (h100-spindle/src/component):    *)
(* how it is loaded, fails to load and is unloaded, and how a cycle        *)
(* publishes what Context::step returned, pin by pin, under a generation   *)
(* counter by which an observer in another process recognises a snapshot.  *)
(*                                                                         *)
(* What the step computes is Sequencer's matter; here a cycle publishes    *)
(* any of the Frames.  Pins that are written one after another and always  *)
(* together make one group; the command words, ready, the running and      *)
(* at-speed flags, the state and the speeds in Hz and RPM are left out,    *)
(* nothing here reads them.  HAL, the thread and the observer are          *)
(* external.                                                               *)
(***************************************************************************)
EXTENDS Integers, FiniteSets, Functions

CONSTANTS
    Items,     \* how many pins and parameters the interface has
    Frames,    \* what a cycle may publish: the output of the step and two sampled registers
    Modulus,   \* of the generation counter, a u32
    Registers  \* values of the current-fault register, those of Frames among them

NoRecord == -1

\* A record is known by the code it explains; None is -1.
Frame == [fault_latched : BOOLEAN, fault_code : Nat, block_code : Nat,
          fault_record : Nat \cup {NoRecord}, block_record : Nat \cup {NoRecord},
          current_fault : Nat, main_status : SUBSET (0 .. 31)]

\* Block code 0 is None. A block's record is made of its code at the end of step; that a
\* latched fault has a code and its record is FaultConsistent of Sequencer.
ASSUME FramesAssumption ==
    /\ Frames \subseteq Frame
    /\ \A f \in Frames :
         /\ f.fault_latched <=> f.fault_code # 0
         /\ f.fault_record = IF f.fault_latched THEN f.fault_code ELSE NoRecord
         /\ f.block_record = IF f.block_code # 0 THEN f.block_code ELSE NoRecord
ASSUME RegistersAssumption ==
    Registers \subseteq Nat /\ {f.current_fault : f \in Frames} \subseteq Registers
ASSUME ItemsAssumption == Items \in Nat \ {0}
ASSUME ModulusAssumption == Modulus \in Nat /\ Modulus % 2 = 0 /\ Modulus > 2

VARIABLES
    loader,    \* rtapi_app_main and rtapi_app_exit: where they are, and COMPONENT_ID
    hal,       \* what HAL holds for the component
    component, \* the Component in HAL memory, and the update_component that works on it
    pins,      \* the output pins
    observer   \* another process that reads the pins

componentVars == <<loader, hal, component, pins, observer>>

-----------------------------------------------------------------------------
(* What a cycle writes, in the order of update_component *)

DIAGNOSTICS == 1 .. 24
BlockCodes == {0} \cup DIAGNOSTICS
KnownStatusBits == 0 .. 7

VfdFaultCode == INSTANCE VfdFault
Python == INSTANCE Protocol

Sampled(f) ==
    [observed_current_fault |-> f.current_fault, observed_main_status |-> f.main_status]

Codes(f) == [fault_latched |-> f.fault_latched, fault_code |-> f.fault_code,
             block_code |-> f.block_code]

Kinds(f) ==
    [fault_kind |-> {f.fault_code} \cap DIAGNOSTICS,
     fault_kind_unknown |-> f.fault_code # 0 /\ f.fault_code \notin DIAGNOSTICS,
     block_kind |-> {f.block_code} \cap BlockCodes,
     block_kind_unknown |-> f.block_code \notin BlockCodes]

Drive(f) ==
    LET decoded == VfdFaultCode!decode(f.current_fault)
        is_some == decoded # VfdFaultCode!NoFault
    IN  [status_bits |-> f.main_status \cap KnownStatusBits,
         reserved |-> f.main_status \ KnownStatusBits,
         present |-> f.current_fault # 0,
         known |-> is_some,
         unknown |-> f.current_fault # 0 /\ ~is_some,
         family |-> Range(VfdFaultCode!VfdFaultFamilies) \cap {decoded.family},
         phase |-> Range(VfdFaultCode!VfdFaultPhases) \cap {decoded.phase}]

\* Mutant of Evidence: a block is explained before a latched fault.
Evidence_mutant(f) == IF f.block_record # NoRecord THEN f.block_record ELSE f.fault_record

Evidence(f) == IF f.fault_record # NoRecord THEN f.fault_record ELSE f.block_record

Groups == {"sampled", "codes", "kinds", "drive", "evidence"}
Publication(f) ==
    [g \in Groups |-> CASE g = "sampled" -> Sampled(f) [] g = "codes" -> Codes(f)
                        [] g = "kinds" -> Kinds(f) [] g = "drive" -> Drive(f)
                        [] OTHER -> Evidence(f)]

\* What publish_initial_values writes: nothing latched, blocked or sampled.
SafeFrame == [fault_latched |-> FALSE, fault_code |-> 0, block_code |-> 0,
              fault_record |-> NoRecord, block_record |-> NoRecord, current_fault |-> 0,
              main_status |-> {}]

-----------------------------------------------------------------------------
(* Loading: rtapi_app_main *)

Nowhere == [at |-> "unloaded", id |-> -1]
NoComponent == [alive |-> FALSE, items |-> 0, exported |-> FALSE, added |-> FALSE,
                refused |-> FALSE]
NoMemory == [at |-> "absent", generation |-> 0, frame |-> SafeFrame]
Idle == [at |-> "away", first |-> 0, seen |-> <<>>, age |-> 0]
\* Zeroed pins differ from the initial values: they flag no block code, not even None.
Zeroed == [Publication(SafeFrame) EXCEPT !["kinds"].block_kind = {}]

At(place) == loader.at = place
Goto(place) == loader' = [loader EXCEPT !.at = place]

\* hal_init takes the name once.
InitSucceeds ==
    /\ At("unloaded") /\ ~hal.alive
    /\ loader' = [at |-> "allocate", id |-> 1]
    /\ hal' = [hal EXCEPT !.alive = TRUE]
    /\ UNCHANGED <<component, pins, observer>>

Allocate ==
    /\ At("allocate")
    /\ Goto("register")
    /\ component' = [NoMemory EXCEPT !.at = "new"]
    /\ UNCHANGED <<hal, pins, observer>>

\* HAL points the registered pin at memory of its own, zeroed.
Register ==
    /\ At("register") /\ hal.items < Items
    /\ hal' = [hal EXCEPT !.items = @ + 1]
    /\ pins' = [generation |-> 0, groups |-> Zeroed]
    /\ UNCHANGED <<loader, component, observer>>

\* Mutant of PublishInitialValues: the function is exported first.
PublishInitialValues_mutant ==
    /\ At("register") /\ hal.items = Items
    /\ Goto("export")
    /\ component' = [component EXCEPT !.at = "idle"]
    /\ UNCHANGED <<hal, pins, observer>>

PublishInitialValues ==
    /\ At("register") /\ hal.items = Items
    /\ Goto("export")
    /\ component' = [component EXCEPT !.at = "idle"]
    /\ pins' = [pins EXCEPT !.groups = Publication(SafeFrame)]
    /\ UNCHANGED <<hal, observer>>

Export ==
    /\ At("export")
    /\ Goto("ready")
    /\ hal' = [hal EXCEPT !.exported = TRUE]
    /\ UNCHANGED <<component, pins, observer>>

Ready ==
    /\ At("ready")
    /\ Goto("loaded")
    /\ UNCHANGED <<hal, component, pins, observer>>

\* hal_exit of a component takes its memory, its function and its pins from HAL; HAL
\* does so between two cycles, and the observer starts anew.
ExitComponent ==
    /\ component.at \in {"absent", "new", "idle"}
    /\ hal' = NoComponent /\ component' = NoMemory
    /\ pins' = [generation |-> 0, groups |-> Zeroed]
    /\ observer' = Idle

\* hal_exit reports an error, and HAL keeps what it has; the component only logs it.
ExitRefused ==
    /\ hal' = [hal EXCEPT !.refused = TRUE]
    /\ UNCHANGED <<component, pins, observer>>

\* Mutant of StartupFails: the error is returned, and nothing taken back.
StartupFails_mutant ==
    /\ loader.at \in {"allocate", "register", "export", "ready"}
    /\ loader' = Nowhere
    /\ UNCHANGED <<hal, component, pins, observer>>

\* hal_malloc, the registration of an item, the export or hal_ready fails. (A hal_init
\* that fails leaves nothing to take back.)
StartupFails ==
    /\ loader.at \in {"allocate", "register", "export", "ready"}
    /\ loader' = Nowhere
    /\ ExitComponent \/ ExitRefused

Unload ==
    /\ At("loaded")
    /\ loader' = Nowhere
    /\ ExitComponent \/ ExitRefused

Load ==
    \/ InitSucceeds \/ Allocate \/ Register \/ PublishInitialValues \/ Export \/ Ready
    \/ StartupFails \/ Unload

-----------------------------------------------------------------------------
(* One cycle: update_component *)

\* Any process may add an exported function to a thread, ready or not.
AddFunction ==
    /\ hal.exported /\ ~hal.added
    /\ hal' = [hal EXCEPT !.added = TRUE]
    /\ UNCHANGED <<loader, component, pins, observer>>

\* Mutant of BeginCycle: the counter does not wrap.
BeginCycle_mutant ==
    /\ hal.added /\ component.at = "idle"
    /\ \E f \in Frames :
         component' = [at |-> "computed", frame |-> f,
                       generation |-> component.generation + 2]
    /\ UNCHANGED <<loader, hal, pins, observer>>

\* The inputs are sampled and the step computed before anything is written.
BeginCycle ==
    /\ hal.added /\ component.at = "idle"
    /\ \E f \in Frames :
         component' = [at |-> "computed", frame |-> f,
                       generation |-> (component.generation + 2) % Modulus]
    /\ UNCHANGED <<loader, hal, pins, observer>>

\* How many cycles may publish while an observer reads: with one more, a whole revolution
\* of the counter may pass between its two reads, and it cannot tell. (A bound on the
\* observer, who has 2^31 - 1 cycles for it.)
MostAge == Modulus \div 2 - 1

Aged == IF observer.at = "away" THEN observer ELSE [observer EXCEPT !.age = @ + 1]

\* Mutant of OpenSnapshot: the counter is left even while the pins are written.
OpenSnapshot_mutant ==
    /\ component.at = "computed"
    /\ observer.age < MostAge
    /\ component' = [component EXCEPT !.at = "sampled"]
    /\ observer' = Aged
    /\ UNCHANGED <<loader, hal, pins>>

OpenSnapshot ==
    /\ component.at = "computed"
    /\ observer.age < MostAge
    /\ component' = [component EXCEPT !.at = "sampled"]
    /\ pins' = [pins EXCEPT !.generation = component.generation + 1]
    /\ observer' = Aged
    /\ UNCHANGED <<loader, hal>>

After(group) ==
    CASE group = "sampled" -> "codes" [] group = "codes" -> "kinds"
      [] group = "kinds" -> "drive" [] group = "drive" -> "evidence" [] OTHER -> "written"

WriteGroup ==
    /\ component.at \in Groups
    /\ component' = [component EXCEPT !.at = After(@)]
    /\ pins' = [pins EXCEPT !.groups[component.at] = Publication(component.frame)[component.at]]
    /\ UNCHANGED <<loader, hal, observer>>

CloseSnapshot ==
    /\ component.at = "written"
    /\ component' = [component EXCEPT !.at = "idle", !.frame = SafeFrame]
    /\ pins' = [pins EXCEPT !.generation = component.generation]
    /\ UNCHANGED <<loader, hal, observer>>

update_component == BeginCycle \/ OpenSnapshot \/ WriteGroup \/ CloseSnapshot

-----------------------------------------------------------------------------
(* The observer: the counter, the pins in any order, the counter again *)

Watched == At("loaded") /\ UNCHANGED <<loader, hal, component, pins>>

BeginReading ==
    /\ Watched
    /\ observer.at = "away" /\ pins.generation % 2 = 0
    /\ observer' = [at |-> "reading", first |-> pins.generation, seen |-> <<>>, age |-> 0]

ReadGroup ==
    /\ Watched
    /\ observer.at = "reading"
    /\ \E g \in Groups \ DOMAIN observer.seen :
         observer' = [observer EXCEPT !.seen =
                         [h \in DOMAIN @ \cup {g} |-> IF h = g THEN pins.groups[g] ELSE @[h]]]

\* The snapshot is taken if the counter has not moved.
EndReading ==
    /\ Watched
    /\ observer.at = "reading" /\ DOMAIN observer.seen = Groups
    /\ observer' = IF pins.generation = observer.first
                   THEN [observer EXCEPT !.at = "accepted"] ELSE Idle

Discard ==
    /\ Watched
    /\ observer.at # "away"
    /\ observer' = Idle

Observe == BeginReading \/ ReadGroup \/ EndReading \/ Discard

-----------------------------------------------------------------------------
(* The specification *)

Init ==
    /\ loader = Nowhere /\ hal = NoComponent /\ component = NoMemory
    /\ pins = [generation |-> 0, groups |-> Zeroed]
    /\ observer = Idle

Next == Load \/ AddFunction \/ update_component \/ Observe

Spec == Init /\ [][Next]_componentVars

-----------------------------------------------------------------------------
(* Properties *)

Cycling == {"computed", "written"} \cup Groups

TypeOK ==
    /\ loader \in [at : {"unloaded", "allocate", "register", "export", "ready", "loaded"},
                   id : {-1, 1}]
    /\ hal \in [alive : BOOLEAN, items : 0 .. Items, exported : BOOLEAN, added : BOOLEAN,
                refused : BOOLEAN]
    /\ component \in [at : {"absent", "new", "idle"} \cup Cycling,
                      generation : 0 .. Modulus - 1, frame : Frames \cup {SafeFrame}]
    /\ component.generation % 2 = 0
    /\ pins.generation \in 0 .. Modulus - 1
    /\ observer.at \in {"away", "reading", "accepted"} /\ observer.age \in 0 .. MostAge

\* update_component works on a component all of whose pins are registered and hold their
\* initial values, though it may be called as soon as it is exported, before hal_ready.
CycleInitialised ==
    component.at \in Cycling =>
        /\ hal.items = Items
        /\ pins.groups["kinds"].block_kind # {} \/ pins.groups["kinds"].block_kind_unknown

\* Whatever call of rtapi_app_main fails, and when it is unloaded, the component leaves
\* nothing in HAL, unless hal_exit itself refused (tests: "every lifecycle failure is
\* returned and cleaned up").
NothingLeftBehind ==
    At("unloaded") /\ ~hal.refused => hal = NoComponent /\ component = NoMemory

\* A snapshot accepted by the counter is what one cycle published, or the initial values:
\* never a code of one cycle with the flags or the evidence of another.
SnapshotConsistent ==
    observer.at = "accepted" =>
        \E f \in Frames \cup {SafeFrame} : observer.seen = Publication(f)

\* The evidence of an accepted snapshot explains the latched fault it shows, else the
\* block, and there is evidence exactly when there is something to explain.
EvidenceExplains ==
    observer.at = "accepted" =>
        LET codes == observer.seen["codes"]
            code == IF codes.fault_latched THEN codes.fault_code ELSE codes.block_code
        IN  observer.seen["evidence"] = IF code = 0 THEN NoRecord ELSE code

\* The flags of the drive's fault name what the commissioning tools' decoder makes of the
\* same register value, down to its cause and its remedy; and where that knows nothing
\* they name nothing, and say unknown unless the value is zero.
NamedAlike(raw, drive) ==
    LET theirs == Python!decode_h100_fault(raw)
    IN  /\ drive.known <=> theirs.source_known
        /\ drive.unknown <=> raw # 0 /\ ~theirs.source_known
        /\ IF theirs.source_known
           THEN \E family \in drive.family, phase \in drive.phase :
                   LET ours == VfdFaultCode!shown([family |-> family, phase |-> phase])
                   IN  /\ drive.family = {family} /\ drive.phase = {phase}
                       /\ \A text \in DOMAIN ours : ours[text] = theirs[text]
           ELSE drive.family = {} /\ drive.phase = {}

DecodersAgree ==
    \A raw \in Registers : NamedAlike(raw, Drive([SafeFrame EXCEPT !.current_fault = raw]))

\* So for every value the register may have, and in every accepted snapshot for the value
\* shown beside the flags, which is written long before them.
FaultNamed ==
    /\ DecodersAgree
    /\ observer.at = "accepted" =>
         NamedAlike(observer.seen["sampled"].observed_current_fault, observer.seen["drive"])
=============================================================================
