--------------------------- MODULE MCHlsSegments ---------------------------
(***************************************************************************)
(* Small instances of HlsSegments for TLC.  The clock stands still, goes   *)
(* on by a slice, skips a part of one, or goes back by more than a slice;  *)
(* integers have six bits and floats four, so that times go beyond both.   *)
(***************************************************************************)
EXTENDS HlsSegments

MCSizes == {1, 2}

MCSteps == {-3, 0, 2, 3}

Width == 6

Precision == 4

\* Rounded to Precision bits, halves to even.
MCFloat(n) ==
    LET ulp == CHOOSE u \in {2 ^ k : k \in 0 .. Width} :
                  /\ n < u * 2 ^ Precision
                  /\ u = 1 \/ n >= u * 2 ^ (Precision - 1)
        low == n \div ulp
        rest == n % ulp
        up == 2 * rest > ulp \/ (2 * rest = ulp /\ low % 2 = 1)
    IN  ulp * (IF up THEN low + 1 ELSE low)

MCRange == 2 ^ Width

MCExact == 2 ^ Precision

=============================================================================
