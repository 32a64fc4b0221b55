----------------------------- MODULE MCReroute -----------------------------
(* Instances of Reroute for TLC: model values only, given in the .cfg.      *)
EXTENDS Reroute
=============================================================================
