---------------------------- MODULE MCInterlock ----------------------------
(* The values of MCSequencer for the runs of the sequencer with its history and its *)
(* contract.                                                                        *)
EXTENDS MCSequencer, SequencerHistory, SequencerContract
=============================================================================
