--------------------------- MODULE MCMmapBuffers ---------------------------
(***************************************************************************)
(* A small instance of MmapBuffers for TLC: the driver grants from none to *)
(* three buffers of three bytes, and a restart may grant other than before.*)
(***************************************************************************)
EXTENDS MmapBuffers

MCCounts == 0 .. 3

MCSizes == {1, 2}

=============================================================================
