---------------------------- MODULE MCLoraFrames -----------------------------
(****************************************************************************)
(* An instance of LoraFrames: commands of both formats, with and without a  *)
(* payload, one of them a text too long for the buffer.  As in the code,    *)
(* the buffer is one longer than a multiple of five, the length of an ACK2. *)
(****************************************************************************)
EXTENDS LoraFrames

Cmd(v2, seq, payload) ==
    [v2 |-> v2, version |-> 1, class |-> 3, seq |-> seq, flags |-> 0, payload |-> payload]

MCTraffic ==
    {<<Cmd(TRUE, 1, << >>), Cmd(TRUE, 2, <<7>>)>>,
     <<Cmd(FALSE, 1, <<255>>), Cmd(TRUE, 2, <<10, 178>>)>>,
     <<Cmd(FALSE, 1, <<1, 2, 3, 4>>), Cmd(TRUE, 2, <<162, 10, 85, 0>>)>>}
MCPositions == {5, -9, 9}

\* The hypothesis of the theorems about lines without faults (LoraFramesProofs).
ASSUME TrafficIsRegular == RegularTraffic
=============================================================================
