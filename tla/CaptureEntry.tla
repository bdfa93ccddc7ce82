---------------------------- MODULE CaptureEntry ----------------------------
(***************************************************************************)
(* The captures that device and receiver tell each other about             *)
(* (app/lib/bench/models.dart, CaptureEntry).                              *)
(***************************************************************************)
CONSTANTS
  Entries,    \* ids of the captures
  Notes,      \* those with a text payload, which have no audio file
  Rejected,   \* those the receiver's validation refuses
  Secrets,    \* "right", "wrong": what the user may have set as secret
  None

ASSUME EntryAssumption ==
  /\ Notes \subseteq Entries
  /\ Rejected \subseteq Entries
  /\ Secrets \subseteq {"right", "wrong"} /\ Secrets # {}
  /\ None \notin Entries
=============================================================================
