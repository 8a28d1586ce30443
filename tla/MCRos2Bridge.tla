---------------------------- MODULE MCRos2Bridge ----------------------------
(* The ROS 2 bridge with its server. *)
EXTENDS Ros2Bridge, TLC

\* Connections are interchangeable, and so are the ids that clients choose.
\* Topics are not: the constants tell them apart.
Symmetry == Permutations(Conns) \union Permutations(SubIds)
              \union Permutations(ClientChannels)
=============================================================================
