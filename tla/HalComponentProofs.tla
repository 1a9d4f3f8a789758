------------------------- MODULE HalComponentProofs -------------------------
(***************************************************************************)
(* Proofs about HalComponent, for every number of interface items, every   *)
(* set of frames and every even modulus of the generation counter.         *)
(***************************************************************************)
EXTENDS HalComponent, TLAPS

AllFrames == Frames \cup {SafeFrame}

\* The places of update_component, and of a component that waits for it.
Live == {"idle"} \cup Cycling
Writing == Groups \cup {"written"}

Loaders == [at : {"unloaded", "allocate", "register", "export", "ready", "loaded"}, id : {-1, 1}]
Hals == [alive : BOOLEAN, items : 0 .. Items, exported : BOOLEAN, added : BOOLEAN,
         refused : BOOLEAN]
Components == [at : {"absent", "new"} \cup Live, generation : 0 .. Modulus - 1, frame : AllFrames]

\* TypeOK, and what it leaves open of pins and observer: their fields, and which groups
\* there are.
Shape ==
    /\ loader \in Loaders /\ hal \in Hals /\ component \in Components
    /\ component.generation % 2 = 0
    /\ pins = [generation |-> pins.generation, groups |-> pins.groups]
    /\ pins.generation \in 0 .. Modulus - 1
    /\ pins.groups = [g \in Groups |-> pins.groups[g]]
    /\ observer = [at |-> observer.at, first |-> observer.first, seen |-> observer.seen,
                   age |-> observer.age]
    /\ observer.at \in {"away", "reading", "accepted"} /\ observer.age \in 0 .. MostAge
    /\ observer.seen = [g \in DOMAIN observer.seen |-> observer.seen[g]]
    /\ DOMAIN observer.seen \subseteq Groups

\* Where the loader is tells what HAL holds and how far the component has come.
Lifecycle ==
    /\ At("unloaded") => hal.refused \/ (hal = NoComponent /\ component = NoMemory)
    /\ hal.refused => At("unloaded")
    /\ hal.refused \/ ~At("unloaded") => hal.alive
    /\ At("allocate") => component = NoMemory
    /\ At("register") => component.at = "new"
    /\ loader.at \in {"export", "ready", "loaded"} => component.at \in Live
    /\ component.at \in Live => hal.items = Items
    /\ component.at \notin Live =>
         /\ component.generation = 0 /\ pins.generation = 0 /\ observer.at = "away"

\* What the groups hold between two cycles and while one is writing them.
Published ==
    /\ component.at \in Live =>
         \E f \in AllFrames : pins.groups["kinds"] = Publication(f)["kinds"]
    /\ component.at \in {"idle", "computed"} => \E f \in AllFrames : pins.groups = Publication(f)
    /\ component.at \in Writing \ {"sampled"} =>
         pins.groups["sampled"] = Publication(component.frame)["sampled"]
    /\ component.at \in Writing \ {"sampled", "codes"} =>
         pins.groups["codes"] = Publication(component.frame)["codes"]
    /\ component.at \in {"drive", "evidence", "written"} =>
         pins.groups["kinds"] = Publication(component.frame)["kinds"]
    /\ component.at \in {"evidence", "written"} =>
         pins.groups["drive"] = Publication(component.frame)["drive"]
    /\ component.at = "written" =>
         pins.groups["evidence"] = Publication(component.frame)["evidence"]

\* a is b on a counter of the modulus, of which b has gone round once at most.
SameCount(a, b) == a = b \/ a + Modulus = b

\* The counter on the pins is the component's, one more while the pins are written, and two
\* less, modulo its range, when the next output has been computed.
Counted ==
    /\ component.at = "idle" => pins.generation = component.generation
    /\ component.at = "computed" => /\ pins.generation % 2 = 0
                                    /\ SameCount(component.generation, pins.generation + 2)
    /\ component.at \in Writing => pins.generation = component.generation + 1

\* The counter has moved by two for each cycle that published since it was first read; and
\* what was seen while none did is what the pins still show.
Reading ==
    observer.at = "reading" =>
        /\ observer.first \in 0 .. Modulus - 1 /\ observer.first % 2 = 0
        /\ component.at \in {"idle", "computed"} =>
             SameCount(pins.generation, observer.first + 2 * observer.age)
        /\ component.at \in Writing =>
             /\ observer.age > 0
             /\ SameCount(component.generation, observer.first + 2 * observer.age)
        /\ observer.age = 0 =>
             \A g \in DOMAIN observer.seen : observer.seen[g] = pins.groups[g]

HInv == Shape /\ Lifecycle /\ Published /\ Counted /\ Reading /\ SnapshotConsistent

-----------------------------------------------------------------------------
(* The counter *)

\* Two cycles' distance on the counter, without its modulo.
LEMMA NextCount ==
    ASSUME NEW n \in 0 .. Modulus - 1, n % 2 = 0
    PROVE  LET next == (n + 2) % Modulus
           IN  next \in 0 .. Modulus - 1 /\ next % 2 = 0 /\ SameCount(next, n + 2)
<1>1. Modulus \in Nat /\ Modulus > 2 /\ Modulus % 2 = 0
  BY ModulusAssumption
<1>2. n + 2 <= Modulus
  BY <1>1
<1>3. CASE n + 2 = Modulus
  <2>1. Modulus % Modulus = 0
    BY <1>1
  <2> QED
    BY <1>1, <1>3, <2>1 DEF SameCount
<1>4. CASE n + 2 < Modulus
  <2>1. (n + 2) % Modulus = n + 2
    BY <1>1, <1>4
  <2> QED
    BY <1>1, <1>4, <2>1 DEF SameCount
<1> QED
  BY <1>1, <1>2, <1>3, <1>4

\* While no more than MostAge cycles have published, the counter shows its first value
\* again only if none has.
LEMMA NoRevolution ==
    ASSUME NEW n \in 0 .. Modulus - 1, NEW first \in 0 .. Modulus - 1, first % 2 = 0,
           NEW age \in 0 .. MostAge
    PROVE  /\ SameCount(n, first + 2 * age) /\ n = first => age = 0
           /\ SameCount(n, first + 2 * age) => n % 2 = 0
<1>1. Modulus \in Nat /\ Modulus > 2 /\ Modulus % 2 = 0
  BY ModulusAssumption
<1>2. MostAge \in Nat /\ 2 * MostAge = Modulus - 2
  BY <1>1 DEF MostAge
<1> QED
  BY <1>1, <1>2 DEF SameCount

\* What is published is a function on the groups.
LEMMA PublicationGroups ==
    /\ \A f : Publication(f) = [g \in Groups |-> Publication(f)[g]]
    /\ Zeroed = [g \in Groups |-> Zeroed[g]]
  BY DEF Publication, Zeroed

-----------------------------------------------------------------------------
(* The invariant *)

\* An observer that has just begun has seen no group.
LEMMA NothingSeen == DOMAIN <<>> = {} /\ <<>> = [g \in DOMAIN <<>> |-> <<>>[g]]
  OBVIOUS

\* Before the module is loaded there is nothing to be inconsistent.
LEMMA InitHInv == Init => HInv
<1> SUFFICES ASSUME Init PROVE HInv
  OBVIOUS
<1>1. Modulus \in Nat /\ Modulus > 2 /\ MostAge \in Nat /\ Items \in Nat
  BY ModulusAssumption, ItemsAssumption DEF MostAge
<1>2. Shape
  <2>1. loader \in Loaders /\ hal \in Hals /\ component \in Components /\ component.generation % 2 = 0
    BY <1>1 DEF Init, Nowhere, NoComponent, NoMemory, Loaders, Hals, Components, AllFrames
  <2>2. pins.groups = [g \in Groups |-> pins.groups[g]]
    BY PublicationGroups DEF Init
  <2>3. pins = [generation |-> pins.generation, groups |-> pins.groups] /\ pins.generation = 0
    BY DEF Init
  <2>4. /\ observer.seen = <<>> /\ observer.at = "away" /\ observer.age = 0
        /\ observer = [at |-> observer.at, first |-> observer.first, seen |-> observer.seen,
                       age |-> observer.age]
    BY DEF Init, Idle
  <2>5. observer.seen = [g \in DOMAIN observer.seen |-> observer.seen[g]] /\ DOMAIN observer.seen = {}
    BY <2>4, NothingSeen, Zenon
  <2> QED
    BY <1>1, <2>1, <2>2, <2>3, <2>4, <2>5 DEF Shape
<1>3. Lifecycle
  BY DEF Init, Lifecycle, At, Nowhere, NoComponent, NoMemory, Idle, Live, Cycling, Groups
<1>4. Published /\ Counted /\ Reading /\ SnapshotConsistent
  BY DEF Init, Published, Counted, Reading, SnapshotConsistent, NoMemory, Idle, Live, Cycling,
         Writing, Groups
<1> QED
  BY <1>2, <1>3, <1>4 DEF HInv

\* A step of the loader alone keeps what concerns the pins and their reader.
LEMMA Untouched ==
    ASSUME HInv, UNCHANGED <<component, pins, observer>>
    PROVE  Published' /\ Counted' /\ Reading' /\ SnapshotConsistent'
  BY DEF HInv, Published, Counted, Reading, SnapshotConsistent

\* A component that hal_exit took back leaves the state there was before it.
LEMMA ExitInv ==
    ASSUME HInv, ExitComponent, loader' = Nowhere
    PROVE  HInv'
<1>1. Modulus \in Nat /\ Modulus > 2 /\ MostAge \in Nat /\ Items \in Nat
  BY ModulusAssumption, ItemsAssumption DEF MostAge
<1>2. Shape'
  <2>1. loader' \in Loaders /\ hal' \in Hals /\ component' \in Components
        /\ component'.generation % 2 = 0
    BY <1>1 DEF ExitComponent, Nowhere, NoComponent, NoMemory, Loaders, Hals, Components, AllFrames
  <2>2. pins'.groups = [g \in Groups |-> pins'.groups[g]]
    BY PublicationGroups DEF ExitComponent
  <2>3. pins' = [generation |-> pins'.generation, groups |-> pins'.groups] /\ pins'.generation = 0
    BY DEF ExitComponent
  <2>4. /\ observer'.seen = <<>> /\ observer'.at = "away" /\ observer'.age = 0
        /\ observer' = [at |-> observer'.at, first |-> observer'.first, seen |-> observer'.seen,
                        age |-> observer'.age]
    BY DEF ExitComponent, Idle
  <2>5. observer'.seen = [g \in DOMAIN observer'.seen |-> observer'.seen[g]] /\ DOMAIN observer'.seen = {}
    BY <2>4, NothingSeen, Zenon
  <2> QED
    BY <1>1, <2>1, <2>2, <2>3, <2>4, <2>5 DEF Shape
<1>3. Lifecycle'
  BY DEF ExitComponent, Lifecycle, At, Nowhere, NoComponent, NoMemory, Idle, Live, Cycling, Groups
<1>4. Published' /\ Counted' /\ Reading' /\ SnapshotConsistent'
  BY DEF ExitComponent, Published, Counted, Reading, SnapshotConsistent, NoMemory, Idle, Live, Cycling,
         Writing, Groups
<1> QED
  BY <1>2, <1>3, <1>4 DEF HInv

\* A component that HAL keeps is one nothing is loaded over.
LEMMA RefusedInv ==
    ASSUME HInv, ExitRefused, loader' = Nowhere, ~At("unloaded")
    PROVE  HInv'
<1>1. Shape'
  BY ZenonT(40) DEF ExitRefused, HInv, Shape, Loaders, Hals, Nowhere
<1>2. Lifecycle'
  BY DEF ExitRefused, HInv, Shape, Lifecycle, Hals, Nowhere, At
<1> QED
  BY <1>1, <1>2, Untouched DEF ExitRefused, HInv

\* Loading registers, publishes and exports in order, and takes back what it can.
LEMMA LoadHInv == HInv /\ Load => HInv'
<1> SUFFICES ASSUME HInv, Load PROVE HInv'
  OBVIOUS
<1>1. Shape /\ Lifecycle /\ Published /\ Counted /\ Reading /\ SnapshotConsistent
  BY DEF HInv
<1>2. CASE InitSucceeds
  <2>1. Shape'
    BY ZenonT(40), <1>1, <1>2 DEF InitSucceeds, Shape, Loaders, Hals
  <2>2. Lifecycle'
    BY <1>1, <1>2 DEF InitSucceeds, Shape, Lifecycle, At, Hals, NoMemory, NoComponent
  <2> QED
    BY <1>2, <2>1, <2>2, Untouched DEF InitSucceeds, HInv
<1>3. CASE Allocate
  <2>1. component.at = "absent" /\ component.generation = 0 /\ pins.generation = 0
        /\ observer.at = "away" /\ component' = [NoMemory EXCEPT !.at = "new"]
    BY <1>1, <1>3 DEF Allocate, Lifecycle, NoMemory, Live, Cycling, Groups
  <2>2. Shape'
    BY <1>1, <1>3, <2>1 DEF Allocate, Goto, Shape, Loaders, Components, NoMemory, AllFrames
  <2>3. Lifecycle'
    BY <1>1, <1>3, <2>1 DEF Allocate, Goto, Shape, Loaders, Lifecycle, At, NoMemory, Live,
                            Cycling, Groups
  <2>4. Published' /\ Counted' /\ Reading' /\ SnapshotConsistent'
    BY <1>3, <2>1 DEF Allocate, Published, Counted, Reading, SnapshotConsistent, NoMemory, Live,
                      Cycling, Writing, Groups
  <2> QED
    BY <2>2, <2>3, <2>4 DEF HInv
<1>4. CASE Register
  <2>1. component.at = "new" /\ component.generation = 0 /\ observer.at = "away" /\ hal.items + 1 \in 0 .. Items
    BY <1>1, <1>4, ItemsAssumption DEF Register, Lifecycle, At, Shape, Hals, Live, Cycling, Groups
  <2>2. Shape'
    BY <1>1, <1>4, <2>1, PublicationGroups, ModulusAssumption DEF Register, Shape, Hals
  <2>3. Lifecycle'
    BY <1>1, <1>4, <2>1 DEF Register, Shape, Hals, Lifecycle, At, Live, Cycling, Groups
  <2>4. Published' /\ Counted' /\ Reading' /\ SnapshotConsistent'
    BY <1>4, <2>1 DEF Register, Published, Counted, Reading, SnapshotConsistent, Live,
                      Cycling, Writing, Groups
  <2> QED
    BY <2>2, <2>3, <2>4 DEF HInv
<1>5. CASE PublishInitialValues
  <2>1. component.at = "new" /\ component.generation = 0 /\ pins.generation = 0
        /\ observer.at = "away" /\ hal.items = Items
    BY <1>1, <1>5 DEF PublishInitialValues, Lifecycle, At, Live, Cycling, Groups
  <2>2. component'.at = "idle" /\ component'.generation = 0 /\ pins'.generation = 0
        /\ pins'.groups = Publication(SafeFrame) /\ SafeFrame \in AllFrames
    BY <1>1, <1>5, <2>1 DEF PublishInitialValues, Shape, Components, AllFrames
  <2>3. Shape'
    BY <1>1, <1>5, <2>1, <2>2, PublicationGroups
       DEF PublishInitialValues, Goto, Shape, Loaders, Components, Live
  <2>4. Lifecycle'
    BY <1>1, <1>5, <2>1, <2>2 DEF PublishInitialValues, Goto, Shape, Loaders, Lifecycle, At, Live
  <2>5. Published' /\ Counted' /\ Reading' /\ SnapshotConsistent'
    BY <1>5, <2>1, <2>2 DEF PublishInitialValues, Published, Counted, Reading, SnapshotConsistent,
                            Live, Cycling, Writing, Groups
  <2> QED
    BY <2>3, <2>4, <2>5 DEF HInv
<1>6. CASE Export \/ Ready
  <2>1. Shape'
    BY <1>1, <1>6 DEF Export, Ready, Goto, Shape, Loaders, Hals
  <2>2. Lifecycle'
    BY <1>1, <1>6 DEF Export, Ready, Goto, Shape, Loaders, Hals, Lifecycle, At
  <2> QED
    BY <1>6, <2>1, <2>2, Untouched DEF Export, Ready, HInv
<1>7. CASE StartupFails \/ Unload
  BY <1>7, ExitInv, RefusedInv DEF StartupFails, Unload, At
<1> QED
  BY <1>2, <1>3, <1>4, <1>5, <1>6, <1>7 DEF Load

\* An even value of the counter has an odd one above it.
LEMMA OddAbove ==
    ASSUME NEW n \in 0 .. Modulus - 1, n % 2 = 0
    PROVE  n + 1 \in 0 .. Modulus - 1 /\ (n + 1) % 2 = 1
  BY ModulusAssumption

\* One more publication while the counter is being read.
LEMMA CountOn ==
    ASSUME NEW n \in 0 .. Modulus - 1, NEW next \in 0 .. Modulus - 1,
           NEW first \in 0 .. Modulus - 1, first % 2 = 0, NEW age \in Nat, age < MostAge,
           SameCount(n, first + 2 * age), SameCount(next, n + 2)
    PROVE  SameCount(next, first + 2 * (age + 1))
<1>1. Modulus \in Nat /\ 2 * MostAge = Modulus - 2 /\ MostAge \in Nat
  BY ModulusAssumption DEF MostAge
<1>2. first + 2 * (age + 1) < 2 * Modulus
  BY <1>1
<1> QED
  BY <1>1, <1>2 DEF SameCount

\* A cycle brings the groups up to its frame one after another, under an odd counter.
LEMMA CycleHInv == HInv /\ (AddFunction \/ update_component) => HInv'
<1> SUFFICES ASSUME HInv, AddFunction \/ update_component PROVE HInv'
  OBVIOUS
<1>1. Shape /\ Lifecycle /\ Published /\ Counted /\ Reading /\ SnapshotConsistent
  BY DEF HInv
<1>2. CASE AddFunction
  <2>1. Shape'
    BY <1>1, <1>2 DEF AddFunction, Shape, Hals
  <2>2. Lifecycle'
    BY <1>1, <1>2 DEF AddFunction, Shape, Hals, Lifecycle, At, NoComponent
  <2> QED
    BY <1>2, <2>1, <2>2, Untouched DEF AddFunction, HInv
<1>3. CASE BeginCycle
  <2> DEFINE next == (component.generation + 2) % Modulus
  <2>1. /\ component.at = "idle" /\ component'.at = "computed"
        /\ component'.generation = next /\ component'.frame \in Frames
        /\ component' = [at |-> "computed", frame |-> component'.frame, generation |-> next]
        /\ UNCHANGED <<loader, hal, pins, observer>>
    BY <1>3 DEF BeginCycle
  <2>2. next \in 0 .. Modulus - 1 /\ next % 2 = 0 /\ SameCount(next, component.generation + 2)
    BY <1>1, NextCount DEF Shape, Components
  <2> HIDE DEF next
  <2>3. Shape'
    BY <1>1, <2>1, <2>2 DEF Shape, Components, AllFrames, Live, Cycling
  <2>4. Lifecycle'
    BY <1>1, <2>1 DEF Lifecycle, At, NoMemory, NoComponent, Live, Cycling
  <2>5. Published' /\ SnapshotConsistent'
    BY <1>1, <2>1 DEF Published, SnapshotConsistent, Writing, Groups, Live
  <2>6. Counted' /\ Reading'
    BY <1>1, <2>1, <2>2 DEF Counted, Reading, Writing, Groups, Shape
  <2> QED
    BY <2>3, <2>4, <2>5, <2>6 DEF HInv
<1>4. CASE OpenSnapshot
  <2>1. /\ component.at = "computed" /\ component' = [component EXCEPT !.at = "sampled"]
        /\ pins' = [pins EXCEPT !.generation = component.generation + 1]
        /\ observer.age < MostAge /\ observer' = Aged /\ UNCHANGED <<loader, hal>>
    BY <1>4 DEF OpenSnapshot
  <2>2. /\ component'.at = "sampled" /\ component'.generation = component.generation
        /\ component'.frame = component.frame /\ component' \in Components
    BY <1>1, <2>1 DEF Shape, Components, Live, Cycling, Groups
  <2>3. /\ pins'.generation = component.generation + 1 /\ pins'.groups = pins.groups
        /\ pins' = [generation |-> pins'.generation, groups |-> pins'.groups]
    BY <1>1, <2>1 DEF Shape
  <2>4. component.generation + 1 \in 0 .. Modulus - 1
    BY <1>1, OddAbove DEF Shape, Components
  <2>5. /\ observer'.at = observer.at /\ observer'.first = observer.first
        /\ observer'.seen = observer.seen
        /\ observer'.age = IF observer.at = "away" THEN observer.age ELSE observer.age + 1
        /\ observer' = [at |-> observer'.at, first |-> observer'.first, seen |-> observer'.seen,
                        age |-> observer'.age]
    BY <1>1, <2>1 DEF Shape, Aged
  <2>6. observer'.age \in 0 .. MostAge /\ MostAge \in Nat
    BY <1>1, <2>1, <2>5, ModulusAssumption DEF Shape, MostAge
  <2>7. Shape'
    BY <1>1, <2>1, <2>2, <2>3, <2>4, <2>5, <2>6 DEF Shape
  <2>8. Lifecycle'
    BY <1>1, <2>1, <2>2 DEF Lifecycle, At, NoMemory, NoComponent, Live, Cycling, Groups
  <2>9. Published' /\ SnapshotConsistent'
    BY <1>1, <2>1, <2>2, <2>3, <2>5
       DEF Published, SnapshotConsistent, Writing, Groups, Live, Cycling
  <2>10. Counted'
    BY <2>2, <2>3 DEF Counted, Writing, Groups
  <2>11. ASSUME observer.at = "reading"
         PROVE  SameCount(component.generation, observer.first + 2 * (observer.age + 1))
    <3>1. /\ observer.first \in 0 .. Modulus - 1 /\ observer.first % 2 = 0
          /\ observer.age \in Nat /\ pins.generation \in 0 .. Modulus - 1
          /\ component.generation \in 0 .. Modulus - 1
          /\ SameCount(pins.generation, observer.first + 2 * observer.age)
          /\ SameCount(component.generation, pins.generation + 2)
      BY <1>1, <2>1, <2>11 DEF Shape, Components, Reading, Counted
    <3> QED
      BY <2>1, <3>1, CountOn
  <2>12. Reading'
    BY <1>1, <2>2, <2>5, <2>11 DEF Reading, Shape, Writing, Groups
  <2> QED
    BY <2>7, <2>8, <2>9, <2>10, <2>12 DEF HInv
<1>5. CASE WriteGroup
  <2> DEFINE g == component.at
             value == Publication(component.frame)[g]
  <2>1. /\ g \in Groups /\ component' = [component EXCEPT !.at = After(g)]
        /\ pins' = [pins EXCEPT !.groups[g] = value]
        /\ UNCHANGED <<loader, hal, observer>>
    BY <1>1, <1>5 DEF WriteGroup, Shape, Components
  <2>2. /\ component'.at = After(g) /\ component'.generation = component.generation
        /\ component'.frame = component.frame
        /\ component' = [at |-> After(g), generation |-> component.generation,
                         frame |-> component.frame]
    BY <1>1, <2>1 DEF Shape, Components
  <2>3. /\ pins'.generation = pins.generation
        /\ pins'.groups = [h \in Groups |-> IF h = g THEN value ELSE pins.groups[h]]
        /\ pins' = [generation |-> pins'.generation, groups |-> pins'.groups]
    BY <1>1, <2>1 DEF Shape
  <2>4. After(g) \in Writing \ {"sampled"} /\ After(g) \in Live
    BY <2>1 DEF After, Writing, Groups, Live, Cycling
  <2>5. Shape'
    BY <1>1, <2>1, <2>2, <2>3, <2>4 DEF Shape, Components
  <2>6. Lifecycle'
    BY <1>1, <2>1, <2>2, <2>4 DEF Lifecycle, At, NoMemory, NoComponent, Live, Cycling, Groups
  <2>7. Published'
    <3>1. component.frame \in AllFrames
      BY <1>1 DEF Shape, Components
    <3> QED
      BY <1>1, <2>1, <2>2, <2>3, <3>1 DEF Published, After, Writing, Groups, Live, Cycling
  <2>8. SnapshotConsistent' /\ Counted'
    BY <1>1, <2>1, <2>2, <2>3, <2>4 DEF Counted, Writing, Groups, SnapshotConsistent
  <2>9. Reading'
    BY <1>1, <2>1, <2>2, <2>4 DEF Reading, Shape, Writing, Groups
  <2> QED
    BY <2>5, <2>6, <2>7, <2>8, <2>9 DEF HInv
<1>6. CASE CloseSnapshot
  <2>1. /\ component.at = "written"
        /\ component' = [component EXCEPT !.at = "idle", !.frame = SafeFrame]
        /\ pins' = [pins EXCEPT !.generation = component.generation]
        /\ UNCHANGED <<loader, hal, observer>>
    BY <1>6 DEF CloseSnapshot
  <2>2. /\ component'.at = "idle" /\ component'.generation = component.generation
        /\ component' \in Components
    BY <1>1, <2>1 DEF Shape, Components, Live, AllFrames
  <2>3. /\ pins'.generation = component.generation /\ pins'.groups = pins.groups
        /\ pins' = [generation |-> pins'.generation, groups |-> pins'.groups]
        /\ component.generation \in 0 .. Modulus - 1
    BY <1>1, <2>1 DEF Shape, Components
  <2>4. Shape'
    BY <1>1, <2>1, <2>2, <2>3 DEF Shape
  <2>5. Lifecycle'
    BY <1>1, <2>1, <2>2 DEF Lifecycle, At, NoMemory, NoComponent, Live, Cycling
  <2>6. pins.groups = Publication(component.frame) /\ component.frame \in AllFrames
    <3>1. \A g \in Groups : pins.groups[g] = Publication(component.frame)[g]
      BY <1>1, <2>1 DEF Published, Writing, Groups
    <3> QED
      BY <1>1, <3>1, PublicationGroups DEF Shape, Components
  <2>7. Published' /\ SnapshotConsistent'
    BY <1>1, <2>1, <2>2, <2>3, <2>6 DEF Published, SnapshotConsistent, Writing, Groups
  <2>8. Counted' /\ Reading'
    BY <1>1, <2>1, <2>2, <2>3 DEF Counted, Reading, Writing, Groups, Shape
  <2> QED
    BY <2>4, <2>5, <2>7, <2>8 DEF HInv
<1> QED
  BY <1>2, <1>3, <1>4, <1>5, <1>6 DEF update_component

\* An observer looks at a loaded component and changes nothing.
LEMMA ObserveHInv == HInv /\ Observe => HInv'
<1> SUFFICES ASSUME HInv, Observe PROVE HInv'
  OBVIOUS
<1>1. Shape /\ Lifecycle /\ Published /\ Counted /\ Reading /\ SnapshotConsistent
  BY DEF HInv
<1>2. At("loaded") /\ UNCHANGED <<loader, hal, component, pins>> /\ component.at \in Live
  BY <1>1 DEF Observe, BeginReading, ReadGroup, EndReading, Discard, Watched, Lifecycle, At
<1>3. Published' /\ Counted' /\ Lifecycle'
  <2>1. Published' /\ Counted'
    BY <1>1, <1>2 DEF Published, Counted
  <2> QED
    BY <1>1, <1>2, <2>1 DEF Lifecycle, At
<1>4. 0 \in 0 .. MostAge /\ DOMAIN Idle.seen \subseteq Groups
  BY ModulusAssumption, NothingSeen DEF MostAge, Idle
<1>5. ASSUME observer' = Idle PROVE HInv'
  <2>1. /\ observer'.seen = <<>> /\ observer'.at = "away" /\ observer'.age = 0
        /\ observer' = [at |-> observer'.at, first |-> observer'.first, seen |-> observer'.seen,
                        age |-> observer'.age]
    BY <1>5 DEF Idle
  <2>2. observer'.seen = [g \in DOMAIN observer'.seen |-> observer'.seen[g]] /\ DOMAIN observer'.seen = {}
    BY <2>1, NothingSeen, Zenon
  <2>3. Shape'
    BY <1>1, <1>2, <1>4, <2>1, <2>2 DEF Shape
  <2>4. Reading' /\ SnapshotConsistent'
    BY <2>1 DEF Reading, SnapshotConsistent
  <2> QED
    BY <1>3, <2>3, <2>4 DEF HInv
<1>6. CASE ReadGroup
  <2>1. PICK g \in Groups \ DOMAIN observer.seen :
          observer' = [observer EXCEPT !.seen =
                          [h \in DOMAIN @ \cup {g} |-> IF h = g THEN pins.groups[g] ELSE @[h]]]
    BY <1>6 DEF ReadGroup
  <2>2. /\ observer.at = "reading" /\ observer'.at = "reading"
        /\ observer'.first = observer.first /\ observer'.age = observer.age
        /\ observer'.seen = [h \in DOMAIN observer.seen \cup {g} |->
                                IF h = g THEN pins.groups[g] ELSE observer.seen[h]]
        /\ observer' = [at |-> observer'.at, first |-> observer'.first, seen |-> observer'.seen,
                        age |-> observer'.age]
    BY <1>1, <1>6, <2>1 DEF ReadGroup, Shape
  <2>3. Shape'
    BY <1>1, <1>2, <2>2 DEF Shape
  <2>4. Reading'
    BY <1>1, <1>2, <2>2 DEF Reading
  <2> QED
    BY <1>3, <2>2, <2>3, <2>4 DEF HInv, SnapshotConsistent
<1>7. CASE EndReading
  <2>1. CASE pins.generation = observer.first
    <3>1. /\ observer.at = "reading" /\ DOMAIN observer.seen = Groups
          /\ observer' = [observer EXCEPT !.at = "accepted"]
      BY <1>7, <2>1 DEF EndReading
    <3>2. /\ observer'.at = "accepted" /\ observer'.seen = observer.seen
          /\ observer'.age = observer.age
          /\ observer' = [at |-> observer'.at, first |-> observer'.first, seen |-> observer'.seen,
                          age |-> observer'.age]
      BY <1>1, <3>1 DEF Shape
    <3>3. component.at \in {"idle", "computed"}
      BY <1>1, <1>2, <2>1, <3>1, OddAbove
         DEF Counted, Reading, Shape, Components, Live, Cycling, Writing
    <3>4. observer.age = 0
      BY <1>1, <2>1, <3>1, <3>3, NoRevolution DEF Reading, Shape
    <3>5. observer.seen = pins.groups
      BY <1>1, <3>1, <3>4 DEF Reading, Shape
    <3>6. \E f \in AllFrames : observer'.seen = Publication(f)
      BY <1>1, <3>2, <3>3, <3>5 DEF Published
    <3>7. Shape' /\ Reading' /\ SnapshotConsistent'
      BY <1>1, <1>2, <3>2, <3>6 DEF Shape, Reading, SnapshotConsistent, AllFrames
    <3> QED
      BY <1>3, <3>7 DEF HInv
  <2>2. CASE pins.generation # observer.first
    BY <1>5, <1>7, <2>2 DEF EndReading
  <2> QED
    BY <2>1, <2>2
<1>8. CASE Discard
  BY <1>5, <1>8 DEF Discard
<1>9. CASE BeginReading
  <2>1. /\ pins.generation % 2 = 0 /\ observer'.at = "reading"
        /\ observer'.first = pins.generation /\ observer'.seen = <<>> /\ observer'.age = 0
        /\ observer' = [at |-> observer'.at, first |-> observer'.first, seen |-> observer'.seen,
                        age |-> observer'.age]
    BY <1>9 DEF BeginReading
  <2>2. observer'.seen = [g \in DOMAIN observer'.seen |-> observer'.seen[g]] /\ DOMAIN observer'.seen = {}
    BY <2>1, NothingSeen, Zenon
  <2>3. Shape'
    BY <1>1, <1>2, <1>4, <2>1, <2>2 DEF Shape
  <2>4. component.at \in {"idle", "computed"}
    BY <1>1, <1>2, <2>1, OddAbove DEF Counted, Shape, Components, Live, Cycling, Writing
  <2>5. Reading'
    BY <1>1, <1>2, <2>1, <2>2, <2>4 DEF Reading, Shape, Writing, Groups, SameCount
  <2> QED
    BY <1>3, <2>1, <2>3, <2>5 DEF HInv, SnapshotConsistent
<1> QED
  BY <1>6, <1>7, <1>8, <1>9 DEF Observe

-----------------------------------------------------------------------------
(* The theorems *)

\* HInv is inductive, and so holds in every state a component can be in.
THEOREM SpecHInv == Spec => []HInv
<1>1. HInv /\ UNCHANGED componentVars => HInv'
  BY DEF componentVars, HInv, Shape, Lifecycle, At, Published, Counted, Reading, SnapshotConsistent
<1>2. HInv /\ [Next]_componentVars => HInv'
  BY <1>1, LoadHInv, CycleHInv, ObserveHInv DEF Next
<1> QED
  BY <1>2, InitHInv, PTL DEF Spec

\* Every variable keeps its type: the generation counter of the component stays even and
\* within its range through every wrap, and the loader registers no item too many.
THEOREM SpecTypeOK == Spec => []TypeOK
<1>1. HInv => TypeOK
  BY DEF HInv, Shape, TypeOK, Loaders, Hals, Components, AllFrames, Live
<1> QED
  BY <1>1, SpecHInv, PTL

\* update_component never runs on a component whose pins are not all registered and
\* initialised, whatever order the loader and the thread take.
THEOREM SpecCycleInitialised == Spec => []CycleInitialised
<1>1. ASSUME HInv, component.at \in Cycling PROVE CycleInitialised
  <2>1. hal.items = Items
    BY <1>1 DEF HInv, Lifecycle, Live
  <2>2. PICK f \in AllFrames : pins.groups["kinds"] = Kinds(f)
    BY <1>1 DEF HInv, Published, Live, Publication, Groups
  <2>3. Kinds(f).block_kind # {} \/ Kinds(f).block_kind_unknown
    BY DEF Kinds
  <2> QED
    BY <2>1, <2>2, <2>3 DEF CycleInitialised
<1> QED
  BY <1>1, SpecHInv, PTL DEF CycleInitialised

\* Whichever call of the loading fails, HAL is left with nothing of the component.
THEOREM SpecNothingLeftBehind == Spec => []NothingLeftBehind
<1>1. HInv => NothingLeftBehind
  BY DEF HInv, Lifecycle, NothingLeftBehind
<1> QED
  BY <1>1, SpecHInv, PTL

\* However reader and writer interleave, and however often the counter wraps, a snapshot
\* the counter accepts is the publication of one cycle.
THEOREM SpecSnapshotConsistent == Spec => []SnapshotConsistent
<1>1. HInv => SnapshotConsistent
  BY DEF HInv
<1> QED
  BY <1>1, SpecHInv, PTL

\* So the evidence of an accepted snapshot explains the code that is beside it.
THEOREM SpecEvidenceExplains == Spec => []EvidenceExplains
<1>1. ASSUME SnapshotConsistent, observer.at = "accepted" PROVE EvidenceExplains
  <2>1. PICK f \in AllFrames : observer.seen = Publication(f)
    BY <1>1 DEF SnapshotConsistent, AllFrames
  <2>2. observer.seen["codes"] = Codes(f) /\ observer.seen["evidence"] = Evidence(f)
    BY <2>1 DEF Publication, Groups
  <2>3. /\ f.fault_latched \in BOOLEAN /\ f.fault_code \in Nat /\ f.block_code \in Nat
        /\ f.fault_latched <=> f.fault_code # 0
        /\ f.fault_record = IF f.fault_latched THEN f.fault_code ELSE NoRecord
        /\ f.block_record = IF f.block_code # 0 THEN f.block_code ELSE NoRecord
    <3>1. CASE f \in Frames
      <4>1. f \in Frame
        BY <3>1, FramesAssumption
      <4> QED
        BY <3>1, <4>1, FramesAssumption DEF Frame
    <3>2. CASE f = SafeFrame
      BY <3>2 DEF SafeFrame
    <3> QED
      BY <3>1, <3>2 DEF AllFrames
  <2> QED
    BY <2>2, <2>3 DEF EvidenceExplains, Codes, Evidence, NoRecord
<1>2. SnapshotConsistent => EvidenceExplains
  BY <1>1 DEF EvidenceExplains
<1> QED
  BY <1>2, SpecSnapshotConsistent, PTL

-----------------------------------------------------------------------------
(* The two decoders of the drive's fault *)

\* Where the families begin in the register, in both decoders.
Bases == <<64, 80, 88, 92, 96, 100, 104>>

\* Both tables have seven families, in the same order.
LEMMA FamilyTables ==
    /\ DOMAIN VfdFaultCode!VfdFaultFamilies = 1 .. 7 /\ DOMAIN Python!H100_FAULT_FAMILIES = 1 .. 7
    /\ \A i \in 1 .. 7 : /\ VfdFaultCode!base_code[VfdFaultCode!VfdFaultFamilies[i]] = Bases[i]
                         /\ Python!H100_FAULT_FAMILIES[i][1] = Bases[i]
<1>1. /\ DOMAIN VfdFaultCode!VfdFaultFamilies = 1 .. 7
      /\ DOMAIN Python!H100_FAULT_FAMILIES = 1 .. 7
  BY DEF VfdFaultCode!VfdFaultFamilies, Python!H100_FAULT_FAMILIES
<1>2. ASSUME NEW i \in 1 .. 7
      PROVE  /\ VfdFaultCode!base_code[VfdFaultCode!VfdFaultFamilies[i]] = Bases[i]
             /\ Python!H100_FAULT_FAMILIES[i][1] = Bases[i]
  <2>1. i = 1 \/ i = 2 \/ i = 3 \/ i = 4 \/ i = 5 \/ i = 6 \/ i = 7
    OBVIOUS
  <2> QED
    BY <2>1 DEF Bases, VfdFaultCode!base_code, VfdFaultCode!VfdFaultFamilies, Python!H100_FAULT_FAMILIES
<1> QED
  BY <1>1, <1>2

\* No two families overlap.
LEMMA OneFamily ==
    ASSUME NEW raw \in Int, NEW i \in 1 .. 7, NEW j \in 1 .. 7,
           raw - Bases[i] \in 0 .. 3, raw - Bases[j] \in 0 .. 3
    PROVE  i = j
<1>1. i \in {1, 2, 3, 4, 5, 6, 7} /\ j \in {1, 2, 3, 4, 5, 6, 7}
  OBVIOUS
<1> QED
  BY <1>1 DEF Bases

\* What both decoders make of a value the table holds, ...
LEMMA BothDecode ==
    ASSUME NEW raw \in Nat, NEW i \in 1 .. 7, raw - Bases[i] \in 0 .. 3
    PROVE  LET offset == raw - Bases[i]
               family == Python!H100_FAULT_FAMILIES[i][2]
               suffix == Python!H100_FAULT_SUFFIXES[offset + 1]
           IN  /\ VfdFaultCode!decode(raw) = [family |-> VfdFaultCode!VfdFaultFamilies[i],
                                              phase |-> VfdFaultCode!VfdFaultPhases[offset + 1]]
               /\ Python!decode_h100_fault(raw) =
                    [source_known |-> TRUE,
                     name |-> <<Python!Identity(family), Python!Identity(suffix)>>,
                     drive_display |-> <<family, suffix>>,
                     summary |-> <<Python!H100_FAULT_CAUSE(family),
                                   Python!H100_FAULT_PHASE_CONTEXT(suffix)>>,
                     action |-> IF family = "E.OC" THEN Python!over_current_action(suffix)
                                ELSE Python!H100_FAULT_ACTION(family)]
<1> DEFINE ours == {k \in DOMAIN VfdFaultCode!VfdFaultFamilies :
                      raw \in VfdFaultCode!base_code[VfdFaultCode!VfdFaultFamilies[k]]
                              .. VfdFaultCode!base_code[VfdFaultCode!VfdFaultFamilies[k]] + 3}
           theirs == {k \in DOMAIN Python!H100_FAULT_FAMILIES :
                        raw - Python!H100_FAULT_FAMILIES[k][1] \in 0 .. 3}
<1>1. \A k \in 1 .. 7 : Bases[k] \in Nat
  <2>1. \A k \in 1 .. 7 : k \in {1, 2, 3, 4, 5, 6, 7}
    OBVIOUS
  <2> QED
    BY <2>1 DEF Bases
<1>2. ours = {i} /\ theirs = {i}
  <2>1. ASSUME NEW k \in 1 .. 7 PROVE raw - Bases[k] \in 0 .. 3 <=> k = i
    BY OneFamily
  <2>2. ASSUME NEW k \in 1 .. 7
        PROVE  raw - Bases[k] \in 0 .. 3 <=> raw \in Bases[k] .. Bases[k] + 3
    BY <1>1
  <2>3. ours = {k \in 1 .. 7 : raw - Bases[k] \in 0 .. 3}
    BY <2>2, FamilyTables
  <2>4. theirs = {k \in 1 .. 7 : raw - Bases[k] \in 0 .. 3}
    BY FamilyTables
  <2> QED
    BY <2>1, <2>3, <2>4
<1>3. VfdFaultCode!Min({i}) = i /\ Python!Min({i}) = i
  BY DEF VfdFaultCode!Min, Python!Min
<1>4. VfdFaultCode!decode(raw) = [family |-> VfdFaultCode!VfdFaultFamilies[i],
                                  phase |-> VfdFaultCode!VfdFaultPhases[raw - Bases[i] + 1]]
  BY <1>2, <1>3, FamilyTables DEF VfdFaultCode!decode, VfdFaultCode!from_offset
<1>5. Python!H100_FAULT_FAMILIES[i][1] = Bases[i]
  BY FamilyTables
<1> QED
  BY <1>2, <1>3, <1>4, <1>5 DEF Python!decode_h100_fault

\* ... and of one it does not.
LEMMA NeitherDecodes ==
    ASSUME NEW raw \in Nat, \A i \in 1 .. 7 : raw - Bases[i] \notin 0 .. 3
    PROVE  /\ VfdFaultCode!decode(raw) = VfdFaultCode!NoFault
           /\ Python!decode_h100_fault(raw) = Python!UnknownFault
<1>1. \A k \in 1 .. 7 : Bases[k] \in Nat
  <2>1. \A k \in 1 .. 7 : k \in {1, 2, 3, 4, 5, 6, 7}
    OBVIOUS
  <2> QED
    BY <2>1 DEF Bases
<1> QED
  BY <1>1, FamilyTables DEF VfdFaultCode!decode, Python!decode_h100_fault

\* What both show of family i and phase p.
LEMMA ShownAlike ==
    ASSUME NEW i \in 1 .. 7, NEW p \in 1 .. 4
    PROVE  LET ours == VfdFaultCode!shown([family |-> VfdFaultCode!VfdFaultFamilies[i],
                                           phase |-> VfdFaultCode!VfdFaultPhases[p]])
               family == Python!H100_FAULT_FAMILIES[i][2]
               suffix == Python!H100_FAULT_SUFFIXES[p]
           IN  /\ ours.name = <<Python!Identity(family), Python!Identity(suffix)>>
               /\ ours.drive_display = <<family, suffix>>
               /\ ours.summary = <<Python!H100_FAULT_CAUSE(family),
                                   Python!H100_FAULT_PHASE_CONTEXT(suffix)>>
               /\ ours.action = IF family = "E.OC" THEN Python!over_current_action(suffix)
                                ELSE Python!H100_FAULT_ACTION(family)
<1> DEFINE family == VfdFaultCode!VfdFaultFamilies[i]
           phase == VfdFaultCode!VfdFaultPhases[p]
           theirs == Python!H100_FAULT_FAMILIES[i][2]
           suffix == Python!H100_FAULT_SUFFIXES[p]
<1>1. \/ family = "Eoc" /\ theirs = "E.OC"
      \/ family = "Eou" /\ theirs = "E.oU"
      \/ family = "Elu" /\ theirs = "E.Lu"
      \/ family = "Eoh" /\ theirs = "E.oH"
      \/ family = "Eol" /\ theirs = "E.oL"
      \/ family = "Eoa" /\ theirs = "E.oA"
      \/ family = "Eot" /\ theirs = "E.oT"
  <2>1. i = 1 \/ i = 2 \/ i = 3 \/ i = 4 \/ i = 5 \/ i = 6 \/ i = 7
    OBVIOUS
  <2> QED
    BY <2>1 DEF VfdFaultCode!VfdFaultFamilies, Python!H100_FAULT_FAMILIES
<1>2. \/ phase = "S" /\ suffix = "S"
      \/ phase = "A" /\ suffix = "A"
      \/ phase = "D" /\ suffix = "d"
      \/ phase = "N" /\ suffix = "n"
  <2>1. p = 1 \/ p = 2 \/ p = 3 \/ p = 4
    OBVIOUS
  <2> QED
    BY <2>1 DEF VfdFaultCode!VfdFaultPhases, Python!H100_FAULT_SUFFIXES
<1> HIDE DEF family, phase, theirs, suffix
<1> DEFINE code == [family |-> family, phase |-> phase]
<1>7. code.family = family /\ code.phase = phase
  OBVIOUS
<1> HIDE DEF code
<1>3. VfdFaultCode!name(code) = <<Python!Identity(theirs), Python!Identity(suffix)>>
  BY <1>1, <1>2, <1>7 DEF VfdFaultCode!name, Python!Identity
<1>4. VfdFaultCode!summary(code) = <<Python!H100_FAULT_CAUSE(theirs),
                                     Python!H100_FAULT_PHASE_CONTEXT(suffix)>>
  BY <1>1, <1>2, <1>7
     DEF VfdFaultCode!summary, Python!H100_FAULT_CAUSE, Python!H100_FAULT_PHASE_CONTEXT
<1>5. VfdFaultCode!action(code) = IF theirs = "E.OC" THEN Python!over_current_action(suffix)
                                  ELSE Python!H100_FAULT_ACTION(theirs)
  BY <1>1, <1>2, <1>7 DEF VfdFaultCode!action, Python!over_current_action, Python!H100_FAULT_ACTION
<1>6. <<VfdFaultCode!family_display[family], VfdFaultCode!phase_display[phase]>> = <<theirs, suffix>>
  BY <1>1, <1>2 DEF VfdFaultCode!family_display, VfdFaultCode!phase_display
<1> QED
  BY <1>3, <1>4, <1>5, <1>6 DEF VfdFaultCode!shown, code, family, phase, theirs, suffix

\* So the flags of any frame name what the commissioning tools make of its register.
LEMMA FlagsNameTheFault ==
    ASSUME NEW f, f.current_fault \in Nat
    PROVE  NamedAlike(f.current_fault, Drive(f))
<1> DEFINE raw == f.current_fault
           drive == Drive(f)
           decoded == VfdFaultCode!decode(raw)
           theirs == Python!decode_h100_fault(raw)
<1>1. /\ drive.known = (decoded # VfdFaultCode!NoFault)
      /\ drive.unknown = (raw # 0 /\ ~(decoded # VfdFaultCode!NoFault))
      /\ drive.family = Range(VfdFaultCode!VfdFaultFamilies) \cap {decoded.family}
      /\ drive.phase = Range(VfdFaultCode!VfdFaultPhases) \cap {decoded.phase}
  BY DEF Drive
<1> HIDE DEF drive, decoded, theirs
<1>2. CASE \E i \in 1 .. 7 : raw - Bases[i] \in 0 .. 3
  <2>1. PICK i \in 1 .. 7 : raw - Bases[i] \in 0 .. 3
    BY <1>2
  <2> DEFINE p == raw - Bases[i] + 1
             family == VfdFaultCode!VfdFaultFamilies[i]
             phase == VfdFaultCode!VfdFaultPhases[p]
             ours == VfdFaultCode!shown([family |-> family, phase |-> phase])
  <2>2. decoded = [family |-> family, phase |-> phase] /\ theirs.source_known = TRUE
    BY <2>1, BothDecode DEF decoded, theirs
  <2>3. p \in 1 .. 4
    <3>1. i \in {1, 2, 3, 4, 5, 6, 7}
      OBVIOUS
    <3> QED
      BY <2>1, <3>1 DEF Bases
  <2>4. /\ theirs.name = ours.name /\ theirs.drive_display = ours.drive_display
        /\ theirs.summary = ours.summary /\ theirs.action = ours.action
    <3> DEFINE name == Python!H100_FAULT_FAMILIES[i][2]
               suffix == Python!H100_FAULT_SUFFIXES[p]
    <3>1. /\ ours.name = <<Python!Identity(name), Python!Identity(suffix)>>
          /\ ours.drive_display = <<name, suffix>>
          /\ ours.summary = <<Python!H100_FAULT_CAUSE(name), Python!H100_FAULT_PHASE_CONTEXT(suffix)>>
          /\ ours.action = IF name = "E.OC" THEN Python!over_current_action(suffix)
                           ELSE Python!H100_FAULT_ACTION(name)
      BY <2>3, ShownAlike
    <3>2. /\ theirs.name = <<Python!Identity(name), Python!Identity(suffix)>>
          /\ theirs.drive_display = <<name, suffix>>
          /\ theirs.summary = <<Python!H100_FAULT_CAUSE(name), Python!H100_FAULT_PHASE_CONTEXT(suffix)>>
          /\ theirs.action = IF name = "E.OC" THEN Python!over_current_action(suffix)
                             ELSE Python!H100_FAULT_ACTION(name)
      BY <2>1, BothDecode DEF theirs
    <3> HIDE DEF name, suffix, ours, theirs
    <3> QED
      BY <3>1, <3>2
  <2>5. DOMAIN ours = {"name", "drive_display", "summary", "action"}
    BY DEF VfdFaultCode!shown
  <2>6. \A text \in DOMAIN ours : ours[text] = theirs[text]
    BY <2>4, <2>5
  <2>7. /\ family \in Range(VfdFaultCode!VfdFaultFamilies) /\ phase \in Range(VfdFaultCode!VfdFaultPhases)
        /\ family # "none"
    <3>1. i \in {1, 2, 3, 4, 5, 6, 7} /\ p \in {1, 2, 3, 4}
      BY <2>3
    <3> QED
      BY <3>1 DEF Range, VfdFaultCode!VfdFaultFamilies, VfdFaultCode!VfdFaultPhases
  <2> HIDE DEF family, phase, p
  <2>8. drive.family = {family} /\ drive.phase = {phase} /\ drive.known /\ ~drive.unknown
    BY ZenonT(40), <1>1, <2>2, <2>7 DEF VfdFaultCode!NoFault
  <2> HIDE DEF ours
  <2>9. \E family_ \in drive.family, phase_ \in drive.phase :
           /\ drive.family = {family_} /\ drive.phase = {phase_}
           /\ VfdFaultCode!shown([family |-> family_, phase |-> phase_]) = ours
    BY <2>8 DEF ours
  <2> QED
    BY <1>1, <2>2, <2>6, <2>8, <2>9 DEF NamedAlike, theirs, drive
<1>3. CASE \A i \in 1 .. 7 : raw - Bases[i] \notin 0 .. 3
  <2>1. decoded = VfdFaultCode!NoFault /\ theirs.source_known = FALSE
    BY <1>3, NeitherDecodes DEF decoded, theirs, Python!UnknownFault
  <2>2. "none" \notin Range(VfdFaultCode!VfdFaultFamilies)
        /\ "none" \notin Range(VfdFaultCode!VfdFaultPhases)
    BY DEF Range, VfdFaultCode!VfdFaultFamilies, VfdFaultCode!VfdFaultPhases
  <2>3. /\ drive.known = FALSE /\ drive.unknown = (raw # 0)
        /\ drive.family = {} /\ drive.phase = {}
    BY <1>1, <2>1, <2>2 DEF VfdFaultCode!NoFault
  <2>4. NamedAlike(raw, drive)
    BY <1>1, <2>1, <2>3 DEF NamedAlike, theirs
  <2> QED
    BY <2>4 DEF drive
<1> QED
  BY <1>2, <1>3

\* For every value the register may have, the component's decoder and the tools' agree.
THEOREM DecodersAlwaysAgree == DecodersAgree
<1>1. ASSUME NEW raw \in Registers
      PROVE  NamedAlike(raw, Drive([SafeFrame EXCEPT !.current_fault = raw]))
  BY RegistersAssumption, FlagsNameTheFault DEF SafeFrame
<1> QED
  BY <1>1 DEF DecodersAgree

\* And what an accepted snapshot shows of the drive's fault is what its register says.
THEOREM SpecFaultNamed == Spec => []FaultNamed
<1>1. ASSUME SnapshotConsistent, observer.at = "accepted"
      PROVE  NamedAlike(observer.seen["sampled"].observed_current_fault, observer.seen["drive"])
  <2>1. PICK f \in AllFrames : observer.seen = Publication(f)
    BY <1>1 DEF SnapshotConsistent, AllFrames
  <2>2. /\ observer.seen["sampled"].observed_current_fault = f.current_fault
        /\ observer.seen["drive"] = Drive(f)
    BY <2>1 DEF Publication, Groups, Sampled
  <2>3. f.current_fault \in Nat
    BY FramesAssumption DEF AllFrames, Frame, SafeFrame
  <2> QED
    BY <2>2, <2>3, FlagsNameTheFault
<1>2. SnapshotConsistent => FaultNamed
  BY <1>1, DecodersAlwaysAgree DEF FaultNamed
<1> QED
  BY <1>2, SpecSnapshotConsistent, PTL
=============================================================================
