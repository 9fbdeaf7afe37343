---------------------------- MODULE MCRecorder ----------------------------
(***************************************************************************)
(* Small instances of Recorder for TLC.  All frames have the same size: no *)
(* step depends on more than the number of frames in a file.               *)
(***************************************************************************)
EXTENDS Recorder

OneSize == {1}

=============================================================================
