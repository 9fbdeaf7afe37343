------------------------- MODULE MCLevelController -------------------------
(* Two levels; the lower one has a redundant stream, the higher one is     *)
(* what the bandwidth affords at first.                                    *)
EXTENDS LevelController
MCVariants == <<1, 2, 1>>
MCInit == Init /\ abr = 1
MCSpec == MCInit /\ [][Next]_vars /\ Live
=============================================================================
