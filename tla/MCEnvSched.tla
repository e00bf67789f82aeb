---------------------------- MODULE MCEnvSched ----------------------------
(* Instances of EnvSched for TLC; the constants are given in the cfg files. *)
EXTENDS EnvSched
===========================================================================
