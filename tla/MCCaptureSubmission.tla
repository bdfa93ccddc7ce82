------------------------ MODULE MCCaptureSubmission ------------------------
(***************************************************************************)
(* Instances of CaptureSubmission for TLC.                                 *)
(***************************************************************************)
EXTENDS CaptureSubmission

CONSTANTS memo, note, i1, i2

\* A recording and a text note.
MCEntries == {memo, note}
MCNotes == {note}
MCNone == {}
MCOneEntry == {memo}
MCAttempts == {i1, i2}
MCRight == {"right"}
MCBoth == {"right", "wrong"}
=============================================================================
