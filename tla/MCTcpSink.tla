----------------------------- MODULE MCTcpSink -----------------------------
(* Small instances of TcpSink for TLC: a few bytes of buffer, and a source *)
(* that fills it more than once.                                           *)
EXTENDS TcpSink
=============================================================================
