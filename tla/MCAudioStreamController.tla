----------------------- MODULE MCAudioStreamController -----------------------
(* Two audio tracks of three fragments, the last one after a discontinuity; *)
(* one failure, or one call of the user.                                    *)
EXTENDS AudioStreamController
=============================================================================
