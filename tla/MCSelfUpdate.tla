---------------------------- MODULE MCSelfUpdate ----------------------------
(***************************************************************************)
(* Two channels and three versions: an update may be overtaken by the next  *)
(* one, and a nested run may want another channel than its parent.          *)
(***************************************************************************)
EXTENDS SelfUpdate

MCChannel == {"stable", "nightly"}
=============================================================================
