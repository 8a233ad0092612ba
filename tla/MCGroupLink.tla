---------------------------- MODULE MCGroupLink ----------------------------
(* Instances of GroupLink for TLC, all of whose constants the cfgs give. *)
EXTENDS GroupLink
=============================================================================
