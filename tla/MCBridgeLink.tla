---------------------------- MODULE MCBridgeLink -----------------------------
(****************************************************************************)
(* Instances of BridgeLink: an FC (system 1), a camera (system 2) and the   *)
(* frames they may send.                                                    *)
(****************************************************************************)
EXTENDS BridgeLink

Msg(v2, sys, msg, payload) == [v2 |-> v2, sys |-> sys, msg |-> msg, payload |-> payload]

FC == Msg(TRUE, 1, HEARTBEAT, <<12, 128, 3>>)

Frames ==
    {FC, Msg(FALSE, 1, HEARTBEAT, <<12, 0, 3>>),
     Msg(TRUE, 2, HEARTBEAT, <<8, 128, 3>>), Msg(FALSE, 1, HEARTBEAT, <<12>>),
     Msg(TRUE, 1, ATTITUDE, <<1, 0>>), Msg(FALSE, 1, ATTITUDE, <<1, 5>>),
     Msg(TRUE, 1, ATTITUDE, <<1, NaN>>), Msg(TRUE, 1, ATTITUDE, <<1, 2, 3>>),
     Msg(TRUE, 1, LOCAL_NED, <<0, 0>>), Msg(TRUE, 1, LOCAL_NED, <<1, NaN>>),
     Msg(TRUE, 1, LOCAL_NED, <<1, 2, 3>>),
     Msg(TRUE, 1, GLOBAL_INT, <<1, 6>>), Msg(TRUE, 1, GLOBAL_INT, <<1, 2, 3>>),
     Msg(TRUE, 1, GPS_RAW, <<3, 9>>), Msg(TRUE, 1, GPS_RAW, <<1, 0>>),
     Msg(FALSE, 1, GPS_RAW, <<1, 0>>),
     Msg(TRUE, 1, EKF_STATUS, <<4, 7>>), Msg(TRUE, 1, EKF_STATUS, <<4, 0>>),
     Msg(FALSE, 1, EKF_STATUS, <<4, 0>>),
     Msg(TRUE, 1, SYS_TIME, <<8, 0>>), Msg(TRUE, 1, SYS_TIME, <<0, 5>>),
     Msg(FALSE, 1, SYS_TIME, <<1, 2, 3>>),
     Msg(TRUE, 1, COMMAND_ACK, <<2, 1>>), Msg(TRUE, 1, COMMAND_ACK, <<2, 0>>),
     Msg(FALSE, 2, 1, << >>)}

\* The FC's heartbeat and any frame; the same output twice.
MCTraffic ==
    {<<FC, m>> : m \in Frames}
    \cup {<<Msg(FALSE, 1, ATTITUDE, <<1, 5>>), Msg(TRUE, 1, ATTITUDE, <<1, 0>>)>>,
          <<Msg(TRUE, 1, GLOBAL_INT, <<1, 6>>), Msg(TRUE, 1, LOCAL_NED, <<0, 0>>)>>}

\* The hypothesis under which LastFrameShown is proved (FramesUnderstood).
ASSUME TrafficIsRegular == RegularTraffic
=============================================================================
