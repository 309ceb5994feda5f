-------------------------- MODULE MCProdConsBound --------------------------
(***************************************************************************)
(* The runs of ProdConsBound give their constants in the configurations.   *)
(***************************************************************************)
EXTENDS ProdConsBound
=============================================================================
