----------------------------- MODULE ByteStream -----------------------------
(***************************************************************************)
(* What a response body promises: the bytes of its source reach the client *)
(* in order, none is sent before it was read, and the stream is over only  *)
(* when all were sent.  A client may leave at any time, and the server may *)
(* give it up with a part of a send.                                       *)
(***************************************************************************)
EXTENDS Naturals

CONSTANT Total

VARIABLES taken, sent, over,
          lost       \* the client has left, or was given up

vars == <<taken, sent, over, lost>>

Init == taken = 0 /\ sent = 0 /\ over = FALSE /\ lost = FALSE

Take == /\ taken' \in taken + 1 .. Total
        /\ UNCHANGED <<sent, over, lost>>

Send == /\ sent' \in sent + 1 .. taken
        /\ lost' \in {lost, lost \/ sent' < taken}
        /\ UNCHANGED <<taken, over>>

Finish == /\ ~over /\ sent = Total
          /\ over' = TRUE
          /\ UNCHANGED <<taken, sent, lost>>

Leave == /\ lost' = TRUE
         /\ UNCHANGED <<taken, sent, over>>

Next == Take \/ Send \/ Finish \/ Leave

SafeSpec == Init /\ [][Next]_vars

\* For a client that is not lost the stream goes on to its end.
Progress == ~lost /\ (Take \/ Send \/ Finish)

Spec == SafeSpec /\ WF_vars(Progress)

=============================================================================
