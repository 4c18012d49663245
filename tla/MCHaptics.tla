------------------------------ MODULE MCHaptics ------------------------------
(* The rumble of the main loop, with one level besides rest.               *)
EXTENDS Haptics
=============================================================================
