--------------------------- MODULE MCBenchScreen ----------------------------
(***************************************************************************)
(* The instance of BenchScreen for TLC: an intent and a press.             *)
(***************************************************************************)
EXTENDS BenchScreen

CONSTANTS siri, press

MCRequests == {siri, press}
MCIntents == {siri}
MCProfiles == {"vp-mode", "raw"}
=============================================================================
