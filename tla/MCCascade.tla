----------------------------- MODULE MCCascade -----------------------------
(* Small instances of Cascade. *)
EXTENDS Cascade
=============================================================================
