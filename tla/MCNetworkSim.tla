---------------------------- MODULE MCNetworkSim ----------------------------
(* The five network simulations with two producers where there are several. *)
EXTENDS NetworkSim

AllVersions ==
  {"packet_loss", "packet_loss_fix", "packet_loss2", "producers", "bound"}
=============================================================================
