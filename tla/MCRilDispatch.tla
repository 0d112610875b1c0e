--------------------------- MODULE MCRilDispatch ---------------------------
(* RilDispatch with measurements on both sides of every test of the        *)
(* conversions.                                                            *)
EXTENDS RilDispatch

MCMeasurements ==
    [ gw : {0, 31, 99}, cdma : {20, 75}, evdo : {75}, lte : {-1, 20}, rsrp : {-1, -90, 90, INT_MAX},
      rsrq : {-1, 10}, cqi : {-1, 7}, timingAdvance : {5}, rscp : {60} ]
=============================================================================
