------------------------- MODULE MCStreamController -------------------------
(* Two levels; two fragments, the first of them encrypted and the second,  *)
(* the last, without a key frame at its start; the first level chosen by a *)
(* bitrate test; two failures and one call of the user.                    *)
EXTENDS StreamController

MCStartLevels == {-1}
=============================================================================
