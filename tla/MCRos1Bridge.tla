---------------------------- MODULE MCRos1Bridge ----------------------------
(* The ROS 1 nodelet with its server. *)
EXTENDS Ros1Bridge, TLC

\* Connections are interchangeable, and so are the ids that clients choose.
Symmetry == Permutations(Conns) \union Permutations(SubIds)
              \union Permutations(ClientChannels)
=============================================================================
