------------------------------ MODULE MCPktUart ------------------------------
(***************************************************************************)
(* Values for the run of PktUart: the answer and the noise of the captures *)
(* in README.md, shortened to the bytes a capture may hold here, an        *)
(* abnormal response, and a write of another master.                       *)
(***************************************************************************)
EXTENDS PktUart

BothModes == {"passive", "readonly"}
OneFailure == {-5}

\* Output frequency zero; data address invalid.
TwoAnswers == {<<1, 4, 2, 0, 0>>, <<1, 132, 2>>}

\* No damage, one bit, two bits far apart, and a burst over two bytes.
Damage == {{}, {27}, {9, 40}, 24 .. 39}

TwoStrays == {[frame |-> <<0, 0, 2, 17, 1>>, flags |-> 49152],
              [frame |-> write_single_register_request(513, 3000, 1), flags |-> 0]}
=============================================================================
