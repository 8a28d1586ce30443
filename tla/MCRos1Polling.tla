--------------------------- MODULE MCRos1Polling ---------------------------
(* The polling timer of the ROS 1 nodelet. *)
EXTENDS Ros1Polling, TLC

\* Parameters on both sides of 0 and of the minimum period, and the largest int.
SomeParams == {-1, 0, 50, 100, 101, 5000, INT_MAX}
=============================================================================
