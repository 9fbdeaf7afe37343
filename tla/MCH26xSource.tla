--------------------------- MODULE MCH26xSource ---------------------------
(***************************************************************************)
(* Small instances of H26xSource for TLC: both codecs, packets with every  *)
(* pattern of three markers, and packets that bring, change and use        *)
(* parameter sets.                                                         *)
(***************************************************************************)
EXTENDS H26xSource

MCCodecs == {<<"sps", "pps">>, <<"vps", "sps", "pps">>}

Long(t, d)  == [type |-> t, long |-> TRUE,  data |-> d]
Short(t, d) == [type |-> t, long |-> FALSE, data |-> d]

Patterns ==
    {[i \in DOMAIN m |-> [type |-> "slice", long |-> m[i], data |-> i]] :
        m \in UNION {[1 .. n -> BOOLEAN] : n \in {0, 3}}}

ConfigPackets ==
    { <<Long("vps", 1), Long("sps", 1), Long("pps", 1), Long("idr", 1)>>,
      <<Long("sps", 2), Long("idr", 2)>>,
      <<Long("idr", 3), Short("pps", 3), Short("idr", 4)>>,
      <<Short("vps", 2), Short("sps", 3), Long("pps", 2), Short("slice", 5)>> }

MCPackets == Patterns \cup ConfigPackets

=============================================================================
