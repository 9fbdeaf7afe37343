----------------------------- MODULE MCTransmuxer -----------------------------
(***************************************************************************)
(* The streams of the model: how video is put into PES packets, with or    *)
(* without their length, where the audio packets are cut, when the audio   *)
(* begins and how much of it is missing, on which side of a turn of the    *)
(* clock, by how much presentation follows decoding, where a discontinuity *)
(* is.                                                                     *)
(***************************************************************************)
EXTENDS Transmuxer

Opt(shape, tail, known, cut, base, accurate) ==
  [shape |-> shape, tail |-> tail, known |-> known, cut |-> cut, lead |-> 0, gap |-> 0, lag |-> 0,
   base |-> base, accurate |-> accurate, break |-> 0]

MCOptions ==
  UNION {
    {Opt("aud", 0, TRUE, 0, 1000, TRUE), [Opt("aud", 0, FALSE, 0, 1000, TRUE) EXCEPT !.gap = 1]},
    {[Opt("aud", 0, TRUE, 1, 45000, FALSE) EXCEPT !.lag = 3600]},
    {[Opt("aud", 0, FALSE, 2, 95000, accurate) EXCEPT !.break = 2] : accurate \in BOOLEAN},
    {[Opt("plain", 0, known, 2, 45000, TRUE) EXCEPT !.lead = 700] : known \in BOOLEAN},
    {[Opt("nal", 0, FALSE, 0, 95000, TRUE) EXCEPT !.lead = 700]},
    {Opt("late", 2, TRUE, 1, 1000, TRUE), Opt("late", 3, FALSE, 1, 45000, TRUE)},
    {[Opt("late", 4, TRUE, 0, 1000, TRUE) EXCEPT !.gap = 3],
     [Opt("late", 1, FALSE, 0, 45000, TRUE) EXCEPT !.gap = 3]},
    {Opt("extra", tail, TRUE, 3, 1000, TRUE) : tail \in {7, 8}},
    {Opt("extra", 6, FALSE, 3, 1000, FALSE)},
    {[Opt("extra", 9, FALSE, 0, 1000, FALSE) EXCEPT !.gap = 2]}}
=============================================================================
