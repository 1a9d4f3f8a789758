---------------------------- MODULE MCComponent ----------------------------
(***************************************************************************)
(* Values for the run of HalComponent: frames that differ in every group,  *)
(* one blocked by what is not the latched fault, with drive faults at the  *)
(* borders of the families.                                                *)
(***************************************************************************)
EXTENDS HalComponent

Blocked(code, fault, status) ==
    [SafeFrame EXCEPT !.block_code = code, !.block_record = code, !.current_fault = fault,
                      !.main_status = status]
Latched(frame, code) ==
    [frame EXCEPT !.fault_latched = TRUE, !.fault_code = code, !.fault_record = code]

\* 92 is the first of a family and one past the last of the one before it; 107 is the last
\* that is known.
MCFrames ==
    {Latched(Blocked(22, 92, {3, 5}), 13), Blocked(13, 107, {3}),
     [SafeFrame EXCEPT !.main_status = {9}]}

\* All of the families with their neighbours, and the largest value.
MCRegisters == 0 .. 120 \cup {65535}
=============================================================================
