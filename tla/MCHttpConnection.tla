-------------------------- MODULE MCHttpConnection --------------------------
(***************************************************************************)
(* A small instance of HttpConnection for TLC.  Connections and streams    *)
(* are interchangeable, the only properties being invariants.              *)
(***************************************************************************)
EXTENDS HttpConnection, TLC

Symmetry == Permutations(Conns) \cup Permutations(Streams)

=============================================================================
