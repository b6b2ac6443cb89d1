---------------------------- MODULE MCCommandLine ----------------------------
(***************************************************************************)
(* Two of the thresholds, one value a user gives, and every command line   *)
(* of at most four arguments (enough for an input, a function, -override   *)
(* and a threshold) with every state of the two input files.               *)
(***************************************************************************)
EXTENDS CommandLine
=============================================================================
