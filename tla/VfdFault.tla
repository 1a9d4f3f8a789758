------------------------------- MODULE VfdFault -------------------------------
(***************************************************************************)
(* The component's decoder of the drive's current-fault register           *)
(* (sequencer/vfd_fault.rs): seven families of four phases, and for each   *)
(* what is shown of it.  A text is known by the word that tells it apart:  *)
(* a summary by its cause and its context, an action by its remedy.        *)
(***************************************************************************)
EXTENDS Integers, Sequences, FiniteSetsExt

VfdFaultFamilies == <<"Eoc", "Eou", "Elu", "Eoh", "Eol", "Eoa", "Eot">>
VfdFaultPhases == <<"S", "A", "D", "N">>

base_code == [Eoc |-> 64, Eou |-> 80, Elu |-> 88, Eoh |-> 92, Eol |-> 96, Eoa |-> 100,
              Eot |-> 104]

family_display == [Eoc |-> "E.OC", Eou |-> "E.oU", Elu |-> "E.Lu", Eoh |-> "E.oH",
                   Eol |-> "E.oL", Eoa |-> "E.oA", Eot |-> "E.oT"]

phase_display == [S |-> "S", A |-> "A", D |-> "d", N |-> "n"]

from_offset(offset) == VfdFaultPhases[offset + 1]

\* Stands for None.
NoFault == [family |-> "none", phase |-> "none"]

\* Mutant of decode: a family ends before its last phase.
decode_mutant(raw) ==
    LET hits == {i \in DOMAIN VfdFaultFamilies :
                    raw \in base_code[VfdFaultFamilies[i]] .. base_code[VfdFaultFamilies[i]] + 2}
        family == VfdFaultFamilies[Min(hits)]
    IN  IF hits = {} THEN NoFault
        ELSE [family |-> family, phase |-> from_offset(raw - base_code[family])]

\* VfdFaultCode::decode: the first family whose four codes hold the raw value.
decode(raw) ==
    LET hits == {i \in DOMAIN VfdFaultFamilies :
                    raw \in base_code[VfdFaultFamilies[i]] .. base_code[VfdFaultFamilies[i]] + 3}
        family == VfdFaultFamilies[Min(hits)]
    IN  IF hits = {} THEN NoFault
        ELSE [family |-> family, phase |-> from_offset(raw - base_code[family])]

\* H100_E_OC_S and so on.
name(code) ==
    <<[Eoc |-> "E_OC", Eou |-> "E_OU", Elu |-> "E_LU", Eoh |-> "E_OH", Eol |-> "E_OL",
       Eoa |-> "E_OA", Eot |-> "E_OT"][code.family], code.phase>>

summary(code) ==
    <<[Eoc |-> "over-current", Eou |-> "over-voltage", Elu |-> "low-input-voltage",
       Eoh |-> "inverter-overheated", Eol |-> "inverter-overload",
       Eoa |-> "motor-overload", Eot |-> "motor-over-torque"][code.family],
      [S |-> "at-stop", A |-> "during-acceleration", D |-> "during-deceleration",
       N |-> "at-constant-speed"][code.phase]>>

action(code) ==
    [Eoc |-> CASE code.phase = "A" -> "lengthen-acceleration"
               [] code.phase = "N" -> "blocked-spindle-supply"
               [] OTHER -> "lengthen-deceleration-DC-braking",
     Eou |-> "input-voltage-braking", Elu |-> "supply-continuity",
     Eoh |-> "cooling", Eol |-> "jam-VF-configuration",
     Eoa |-> "load-motor-condition", Eot |-> "jam-motor-size"][code.family]

\* The Display of a code: everything an operator is shown of a known fault.
shown(code) ==
    [name |-> name(code), drive_display |-> <<family_display[code.family],
                                              phase_display[code.phase]>>,
     summary |-> summary(code), action |-> action(code)]
=============================================================================
