--------------------------- MODULE MCRakeRunChain ---------------------------
(***************************************************************************)
(* The jobs of MCRakeRun, checked against the abstract chain.              *)
(***************************************************************************)
EXTENDS RakeRunChain, MCRakeRun
=============================================================================
