------------------------- MODULE HlsSegmentsProofs -------------------------
(***************************************************************************)
(* What MemoryBufferSink and the playlists promise for any slice duration, *)
(* any number of slices, any clock and any rounding of a float.  The clock *)
(* decides everything: as long as it does not go back, the slice of the    *)
(* last frame is the newest one kept, so that only that one still grows,   *)
(* and a playlist lists the slices before it.                              *)
(***************************************************************************)
EXTENDS HlsSegments, FiniteSetTheorems, WellFoundedInduction, TLAPS

(***************************************************************************)
(* Least and greatest elements.                                            *)
(***************************************************************************)

LEMMA Least ==
    ASSUME NEW T, T \subseteq Nat, T # {}
    PROVE  \E x \in T : \A y \in T : x <= y
<1>. DEFINE R == {p \in Nat \X Nat : p[1] < p[2]}
<1>1. R = OpToRel(<, Nat)
  BY Zenon DEF OpToRel
<1>2. IsWellFoundedOn(R, Nat)
  BY <1>1, NatLessThanWellFounded
<1>3. PICK x \in T : \A y \in T : ~(<<y, x>> \in R)
  <2>. HIDE DEF R
  <2>. QED
    BY <1>2, WFMin
<1>4. ASSUME NEW y \in T PROVE x <= y
  <2>1. ~(y < x)
    BY <1>3
  <2>. QED
    BY <2>1
<1>. QED
  BY <1>4

LEMMA Greatest ==
    ASSUME NEW B \in Nat, NEW T, T \subseteq 0 .. B, T # {}
    PROVE  \E x \in T : \A y \in T : y <= x
<1>. DEFINE U == {B - x : x \in T}
<1>1. \A x \in T : x \in Nat /\ B - x \in Nat
  OBVIOUS
<1>2. U \subseteq Nat /\ U # {}
  BY <1>1, Zenon
<1>3. PICK u \in U : \A v \in U : u <= v
  <2>. HIDE DEF U
  <2>. QED
    BY <1>2, Least
<1>4. PICK x \in T : u = B - x
  OBVIOUS
<1>5. ASSUME NEW y \in T PROVE y <= x
  <2>1. B - x <= B - y
    BY <1>3, <1>4
  <2>. QED
    BY <1>1, <2>1
<1>. QED
  BY <1>5

LEMMA MinFacts ==
    ASSUME NEW T, T \subseteq Slices, T # {}
    PROVE  MinOf(T) \in T /\ \A y \in T : MinOf(T) <= y
<1>1. T \subseteq Nat
  BY DEF Slices
<1>2. \E x \in T : \A y \in T : x <= y
  BY <1>1, Least
<1>. QED
  BY <1>2 DEF MinOf

LEMMA MaxFacts ==
    ASSUME NEW T, T \subseteq Slices, T # {}
    PROVE  MaxOf(T) \in T /\ \A y \in T : y <= MaxOf(T)
<1>1. \E x \in T : \A y \in T : y <= x
  <2>. DEFINE B == UIntRange - 1
  <2>1. B \in Nat /\ T \subseteq 0 .. B
    BY RangeAssumption DEF Slices
  <2>. HIDE DEF B
  <2>. QED
    BY <2>1, Greatest
<1>. QED
  BY <1>1 DEF MaxOf

\* The greatest element is known when an upper bound is an element.
LEMMA MaxIs ==
    ASSUME NEW T, T \subseteq Slices, NEW m \in T, \A y \in T : y <= m
    PROVE  MaxOf(T) = m
<1>1. PICK x \in T : x = MaxOf(T) /\ m <= x
  BY MaxFacts
<1>2. x <= m
  OBVIOUS
<1>3. x \in Nat /\ m \in Nat
  BY DEF Slices
<1>. QED
  BY <1>1, <1>2, <1>3

(***************************************************************************)
(* Arithmetic of an unsigned int, of slices and of floats.                 *)
(***************************************************************************)

LEMMA UnsignedFacts ==
    /\ \A i \in Int : Unsigned(i) \in Slices
    /\ \A i \in Slices : Unsigned(i) = i
BY RangeAssumption DEF Unsigned, Slices

LEMMA SliceFacts ==
    ASSUME NEW a \in Nat
    PROVE  /\ a \div SliceDuration \in Nat
           /\ (a \div SliceDuration) * SliceDuration <= a
           /\ a < (a \div SliceDuration + 1) * SliceDuration
           /\ a \div SliceDuration <= a
BY DurationAssumption

LEMMA SliceGrows ==
    ASSUME NEW a \in Nat, NEW b \in Nat
    PROVE  /\ a <= b => a \div SliceDuration <= b \div SliceDuration
           /\ b <= a + SliceDuration =>
                 b \div SliceDuration <= a \div SliceDuration + 1
BY DurationAssumption

LEMMA SliceOfMultiple ==
    ASSUME NEW k \in Nat
    PROVE  /\ k * SliceDuration \in Nat
           /\ (k * SliceDuration) \div SliceDuration = k
           /\ k <= k * SliceDuration
BY DurationAssumption

LEMMA MultipleGrows ==
    ASSUME NEW k \in Nat, NEW j \in Nat
    PROVE  k <= j <=> k * SliceDuration <= j * SliceDuration
BY DurationAssumption

LEMMA QuotientFacts ==
    ASSUME NEW a \in Int
    PROVE  /\ Quotient(a, SliceDuration) \in Int
           /\ a \in Nat => Quotient(a, SliceDuration) = a \div SliceDuration
           /\ -SliceDuration < a /\ a < 0 => Quotient(a, SliceDuration) = 0
BY DurationAssumption DEF Quotient

LEMMA SliceOfType == ASSUME NEW t \in Nat, refTime \in Nat PROVE SliceOf(t) \in Slices
<1>1. Ref(t) \in Nat
  BY DEF Ref
<1>2. Quotient(t - Ref(t), SliceDuration) \in Int
  BY <1>1, QuotientFacts
<1>. QED
  BY <1>2, UnsignedFacts DEF SliceOf

\* In the first seconds of a stream a slice is a division.
LEMMA SliceOfTime ==
    ASSUME NEW t \in Nat, refTime \in Nat, Ref(t) <= t, t - Ref(t) < UIntRange
    PROVE  /\ SliceOf(t) = (t - Ref(t)) \div SliceDuration
           /\ (t - Ref(t)) \div SliceDuration \in Slices
<1>. DEFINE a == t - Ref(t)
            q == a \div SliceDuration
<1>1. a \in Nat /\ a < UIntRange
  BY DEF Ref
<1>. HIDE DEF a
<1>2. q \in Nat /\ q <= a
  BY <1>1, SliceFacts
<1>3. q \in Slices
  BY <1>1, <1>2, RangeAssumption DEF Slices
<1>4. Quotient(a, SliceDuration) = q
  BY <1>1, QuotientFacts
<1>5. SliceOf(t) = Unsigned(q)
  BY <1>4 DEF SliceOf, a
<1>. QED
  BY <1>3, <1>5, UnsignedFacts DEF a

\* Floats are exact for the first seconds of a stream.
LEMMA FloatFacts ==
    ASSUME NEW n \in Slices
    PROVE  Float(n) \in Nat /\ (n <= MaxExact => Float(n) = n)
BY FloatAssumption DEF Slices

(***************************************************************************)
(* The map of slices.                                                      *)
(***************************************************************************)

LEMMA AppendedFacts ==
    ASSUME TypeOK, NEW s \in Slices
    PROVE  LET n == Len(stamp) + 1
               f == Appended(s, n)
           IN  /\ DOMAIN f = DOMAIN outputs \cup {s}
               /\ \A x \in DOMAIN outputs : x # s => f[x] = outputs[x]
               /\ f[s] = IF s \in DOMAIN outputs THEN Append(outputs[s], n)
                                                 ELSE <<n>>
               /\ \A x \in DOMAIN f : f[x] \in Seq(1 .. n)
<1>. DEFINE n == Len(stamp) + 1
            f == Appended(s, n)
<1>1. /\ DOMAIN f = DOMAIN outputs \cup {s}
      /\ \A x \in DOMAIN outputs : x # s => f[x] = outputs[x]
      /\ f[s] = IF s \in DOMAIN outputs THEN Append(outputs[s], n) ELSE <<n>>
  BY Zenon DEF Appended
<1>2. Len(stamp) \in Nat /\ n \in Nat /\ n \in 1 .. n
  BY DEF TypeOK
<1>3. \A x \in DOMAIN outputs : outputs[x] \in Seq(1 .. n)
  <2>1. ASSUME NEW x \in DOMAIN outputs PROVE outputs[x] \in Seq(1 .. n)
    <3>1. outputs[x] \in Seq(1 .. Len(stamp))
      BY DEF TypeOK
    <3>2. 1 .. Len(stamp) \subseteq 1 .. n
      BY <1>2
    <3>. QED
      BY <3>1, <3>2
  <2>. QED
    BY <2>1
<1>4. f[s] \in Seq(1 .. n)
  <2>. HIDE DEF f, n
  <2>1. CASE s \in DOMAIN outputs
    BY <1>1, <1>2, <1>3, <2>1
  <2>2. CASE s \notin DOMAIN outputs
    BY <1>1, <1>2, <2>2
  <2>. QED
    BY <2>1, <2>2
<1>. QED
  <2>. HIDE DEF f, n
  <2>1. \A x \in DOMAIN f : f[x] \in Seq(1 .. n)
    BY <1>1, <1>3, <1>4
  <2>. QED
    BY <1>1, <2>1 DEF f, n

LEMMA SliceSets ==
    ASSUME NEW D, D \subseteq Slices
    PROVE  IsFiniteSet(D) /\ Cardinality(D) \in Nat
<1>1. IsFiniteSet(Slices)
  BY FS_Interval, RangeAssumption DEF Slices
<1>. QED
  BY <1>1, FS_Subset, FS_CardinalityType

\* Erasing the oldest leaves no more than m_nbSlices, the newest among them,
\* and whatever is newer than a slice that is left.
LEMMA NewestFacts ==
    ASSUME NEW f, DOMAIN f \subseteq Slices
    PROVE  /\ Newest(f) \subseteq DOMAIN f
           /\ Cardinality(Newest(f)) <= NbSlices
           /\ \A m \in DOMAIN f :
                 (\A x \in DOMAIN f : x <= m) => m \in Newest(f)
<1>. DEFINE D == DOMAIN f
            Above(x) == {y \in D : y > x}
<1>1. /\ Newest(f) \subseteq D
      /\ \A x \in D : x \in Newest(f) <=> Cardinality(Above(x)) < NbSlices
  BY DEF Newest
<1>2. D \subseteq Slices
  OBVIOUS
<1>. HIDE DEF D
<1>n. D \subseteq Nat
  BY <1>2 DEF Slices
<1>3. \A x \in D : IsFiniteSet(Above(x)) /\ Cardinality(Above(x)) \in Nat
  <2>1. \A x \in D : Above(x) \subseteq Slices
    BY <1>2
  <2>. QED
    BY <2>1, SliceSets, Zenon
<1>4. Cardinality(Newest(f)) <= NbSlices
  <2>1. CASE Newest(f) = {}
    BY <2>1, FS_EmptySet, DurationAssumption
  <2>2. CASE Newest(f) # {}
    <3>1. PICK m \in Newest(f) : \A y \in Newest(f) : m <= y
      <4>1. Newest(f) \subseteq Nat
        BY <1>1, <1>n
      <4>. QED
        BY <2>2, <4>1, Least
    <3>2. m \in D /\ Cardinality(Above(m)) < NbSlices
      BY <1>1, <3>1
    <3>3. ASSUME NEW y \in Newest(f) PROVE y \in Above(m) \cup {m}
      <4>1. m <= y /\ y \in D /\ y \in Nat /\ m \in Nat
        BY <1>1, <1>n, <3>1, <3>2
      <4>. QED
        BY <4>1
    <3>4. Newest(f) \subseteq Above(m) \cup {m}
      BY <3>3
    <3>5. m \notin Above(m)
      BY <1>n, <3>2
    <3>. HIDE DEF Above
    <3>6. /\ IsFiniteSet(Above(m) \cup {m})
          /\ Cardinality(Above(m) \cup {m}) = Cardinality(Above(m)) + 1
      BY <1>3, <3>2, <3>5, FS_AddElement
    <3>7. Cardinality(Newest(f)) <= Cardinality(Above(m) \cup {m})
      BY <3>4, <3>6, FS_Subset
    <3>8. Cardinality(Newest(f)) \in Nat
      BY <1>1, <1>2, SliceSets
    <3>. QED
      BY <1>3, <3>2, <3>6, <3>7, <3>8, DurationAssumption
  <2>. QED
    BY <2>1, <2>2
<1>5. ASSUME NEW m \in D, \A x \in D : x <= m PROVE m \in Newest(f)
  <2>1. ASSUME NEW y \in Above(m) PROVE FALSE
    <3>1. y \in Nat /\ m \in Nat /\ y > m /\ y <= m
      BY <1>5, <1>n
    <3>. QED
      BY <3>1
  <2>2. Above(m) = {}
    BY <2>1
  <2>3. Cardinality(Above(m)) = 0
    BY <2>2, FS_EmptySet
  <2>. QED
    BY <1>1, <2>3, DurationAssumption
<1>. QED
  BY <1>1, <1>4, <1>5 DEF D

(***************************************************************************)
(* A frame is stored.                                                      *)
(***************************************************************************)

Stored(t) ==
    LET f == Appended(SliceOf(t), Len(stamp) + 1)
    IN  /\ refTime' = Ref(t) /\ now' = t /\ stamp' = Append(stamp, t)
        /\ outputs' = Restricted(f, Newest(f))
        /\ UNCHANGED <<bufferSize, slice, playlist, mpd, response>>

LEMMA StoreStep ==
    ASSUME TypeOK, NEW size \in Sizes, NEW step \in Steps, StoreFrame(size, step)
    PROVE  \E t \in Nat \ {0} : Stored(t)
<1>. DEFINE t == IF stamp = <<>> THEN now ELSE now + step
<1>1. t \in Nat \ {0}
  BY ClockAssumption DEF StoreFrame, TypeOK
<1>2. Stored(t)
  BY DEF StoreFrame, Stored
<1>. QED
  BY <1>1, <1>2

LEMMA StampAfter ==
    ASSUME TypeOK, NEW t \in Nat \ {0}, Stored(t)
    PROVE  /\ stamp' \in Seq(Nat) /\ stamp' # <<>>
           /\ Len(stamp) \in Nat /\ Len(stamp') = Len(stamp) + 1
           /\ \A n \in 1 .. Len(stamp) : stamp'[n] = stamp[n]
           /\ stamp'[Len(stamp) + 1] = t
           /\ refTime' \in Nat \ {0} /\ now' = t
<1>1. stamp' = Append(stamp, t) /\ stamp \in Seq(Nat) /\ now' = t
  BY DEF Stored, TypeOK
<1>2. refTime' \in Nat \ {0}
  BY DEF Stored, TypeOK, Ref
<1>. QED
  BY <1>1, <1>2

\* The slice of the new frame gets it; what is erased is erased whole.
LEMMA OutputsAfter ==
    ASSUME TypeOK, NEW t \in Nat \ {0}, Stored(t)
    PROVE  LET s == SliceOf(t)
               n == Len(stamp) + 1
           IN  /\ s \in Slices
               /\ DOMAIN outputs' \subseteq DOMAIN outputs \cup {s}
               /\ DOMAIN outputs' = Newest(Appended(s, n))
               /\ \A x \in DOMAIN outputs' : x # s => outputs'[x] = outputs[x]
               /\ s \in DOMAIN outputs' =>
                     outputs'[s] = IF s \in DOMAIN outputs
                                     THEN Append(outputs[s], n) ELSE <<n>>
               /\ (\A x \in DOMAIN outputs : x <= s) => s \in DOMAIN outputs'
               /\ Cardinality(DOMAIN outputs') <= NbSlices
               /\ \A x \in DOMAIN outputs' : outputs'[x] \in Seq(1 .. n)
<1>. DEFINE s == SliceOf(t)
            n == Len(stamp) + 1
            f == Appended(s, n)
<1>1. s \in Slices
  BY SliceOfType DEF TypeOK
<1>2. outputs' = [x \in Newest(f) |-> f[x]]
  BY DEF Stored, Restricted
<1>. HIDE DEF s
<1>3. /\ DOMAIN f = DOMAIN outputs \cup {s}
      /\ \A x \in DOMAIN outputs : x # s => f[x] = outputs[x]
      /\ f[s] = IF s \in DOMAIN outputs THEN Append(outputs[s], n) ELSE <<n>>
      /\ \A x \in DOMAIN f : f[x] \in Seq(1 .. n)
  BY <1>1, AppendedFacts
<1>. HIDE DEF f, n
<1>4. DOMAIN f \subseteq Slices
  <2>1. DOMAIN outputs \subseteq Slices
    BY DEF TypeOK
  <2>. QED
    BY <1>1, <1>3, <2>1
<1>5. /\ Newest(f) \subseteq DOMAIN f
      /\ Cardinality(Newest(f)) <= NbSlices
      /\ \A m \in DOMAIN f :
            (\A x \in DOMAIN f : x <= m) => m \in Newest(f)
  BY <1>4, NewestFacts
<1>6. DOMAIN outputs' = Newest(f) /\ \A x \in Newest(f) : outputs'[x] = f[x]
  BY <1>2
<1>7. (\A x \in DOMAIN outputs : x <= s) => s \in DOMAIN outputs'
  <2>1. s <= s
    BY <1>1 DEF Slices
  <2>. QED
    BY <2>1, <1>3, <1>5, <1>6
<1>8. \A x \in DOMAIN outputs' :
         /\ x # s => outputs'[x] = outputs[x]
         /\ outputs'[x] \in Seq(1 .. n)
  BY <1>3, <1>5, <1>6
<1>9. s \in DOMAIN outputs' =>
         outputs'[s] = IF s \in DOMAIN outputs THEN Append(outputs[s], n) ELSE <<n>>
  BY <1>3, <1>6
<1>. QED
  BY <1>1, <1>3, <1>5, <1>6, <1>7, <1>8, <1>9 DEF s, n, f

(***************************************************************************)
(* Types.                                                                  *)
(***************************************************************************)

LEMMA InitTypes == Init => TypeOK
<1>. SUFFICES ASSUME Init PROVE TypeOK
  OBVIOUS
<1>1. DOMAIN outputs = {} /\ Cardinality({}) = 0
  BY FS_EmptySet DEF Init
<1>2. /\ bufferSize \in Nat /\ refTime \in Nat /\ now \in Nat
      /\ stamp \in Seq(Nat) /\ slice \in Nat
  BY SizeAssumption, ClockAssumption DEF Init
<1>4. mpd \in Nat \cup {-1}
  BY DEF Init
<1>3. /\ playlist.segments \in Seq(Slices)
      /\ response.length \in Nat /\ response.body \in Seq(1 .. Len(stamp))
  BY DEF Init, NotFound
<1>. QED
  BY <1>1, <1>2, <1>3, <1>4, DurationAssumption DEF TypeOK

LEMMA MapTimes ==
    ASSUME TypeOK
    PROVE  FirstTime \in Slices /\ Duration \in Slices
<1>1. 0 \in Slices
  BY RangeAssumption DEF Slices
<1>2. CASE DOMAIN outputs = {}
  BY <1>1, <1>2 DEF FirstTime, Duration
<1>3. CASE DOMAIN outputs # {}
  <2>. DEFINE lo == MinOf(DOMAIN outputs)
              hi == MaxOf(DOMAIN outputs)
  <2>1. lo \in Slices /\ hi \in Slices
    BY <1>3, MinFacts, MaxFacts DEF TypeOK
  <2>2. lo \in Int /\ hi \in Int
    BY <2>1 DEF Slices
  <2>3. FirstTime = Unsigned(lo * SliceDuration)
        /\ Duration = Unsigned((hi - lo) * SliceDuration)
    BY <1>3 DEF FirstTime, Duration
  <2>. HIDE DEF lo, hi
  <2>4. lo * SliceDuration \in Int /\ (hi - lo) * SliceDuration \in Int
    BY <2>2, DurationAssumption
  <2>. QED
    BY <2>3, <2>4, UnsignedFacts
<1>. QED
  BY <1>2, <1>3

LEMMA StoreTypes ==
    ASSUME TypeOK, NEW t \in Nat \ {0}, Stored(t)
    PROVE  TypeOK'
<1>. DEFINE n == Len(stamp) + 1
<1>1. /\ bufferSize' \in Nat /\ refTime' \in Nat /\ now' \in Nat
      /\ stamp' \in Seq(Nat) /\ Len(stamp') = n /\ Len(stamp) \in Nat
      /\ slice' \in Nat /\ playlist' = playlist
  BY StampAfter DEF Stored, TypeOK
<1>2. mpd' = mpd /\ response' = response
  BY DEF Stored
<1>3. DOMAIN outputs' \subseteq Slices
  BY OutputsAfter DEF TypeOK
<1>4. Cardinality(DOMAIN outputs') <= NbSlices
  BY OutputsAfter
<1>5. \A x \in DOMAIN outputs' : outputs'[x] \in Seq(1 .. n)
  BY OutputsAfter
<1>6. response.body \in Seq(1 .. n)
  <2>1. 1 .. Len(stamp) \subseteq 1 .. n
    BY <1>1
  <2>2. response.body \in Seq(1 .. Len(stamp))
    BY DEF TypeOK
  <2>. QED
    BY <2>1, <2>2
<1>. HIDE DEF n
<1>. QED
  BY <1>1, <1>2, <1>3, <1>4, <1>5, <1>6 DEF TypeOK

(***************************************************************************)
(* The loop that writes a playlist.                                        *)
(***************************************************************************)

\* The span of the slices is the duration, so that the float of the one is the
\* float of the other.
LEMMA DurationExact ==
    ASSUME TypeOK, DOMAIN outputs # {}
    PROVE  LET lo == MinOf(DOMAIN outputs)
               hi == MaxOf(DOMAIN outputs)
               d == hi - lo
           IN  /\ lo \in DOMAIN outputs /\ hi \in DOMAIN outputs
               /\ lo \in Nat /\ hi \in Nat /\ d \in Nat /\ d \in Slices
               /\ DurationNPT = Seconds(d) /\ ~Listed(d)
<1>. DEFINE lo == MinOf(DOMAIN outputs)
            hi == MaxOf(DOMAIN outputs)
<1>1. /\ lo \in DOMAIN outputs /\ hi \in DOMAIN outputs /\ lo <= hi
  BY MinFacts, MaxFacts DEF TypeOK
<1>2. lo \in Slices /\ hi \in Slices
  BY <1>1 DEF TypeOK
<1>3. Duration = Unsigned((hi - lo) * SliceDuration)
  BY DEF Duration
<1>. HIDE DEF lo, hi
<1>4. PICK d \in Nat : d = hi - lo
  BY <1>1, <1>2 DEF Slices
<1>5. lo \in Nat /\ hi \in Nat /\ d \in Slices
  <2>1. Slices \subseteq Nat
    BY DEF Slices
  <2>2. lo \in Nat /\ hi \in Nat /\ hi <= UIntRange - 1
    BY <1>2, <2>1 DEF Slices
  <2>3. d <= UIntRange - 1
    BY <1>4, <2>2, RangeAssumption
  <2>. QED
    BY <2>2, <2>3 DEF Slices
<1>6. DurationNPT = Seconds(d) /\ ~Listed(d)
  <2>1. Duration \in Slices
    BY MapTimes
  <2>2. DurationNPT = Seconds(d) /\ DurationNPT \in Nat
    BY <1>3, <1>4, <2>1, FloatFacts DEF DurationNPT, Seconds
  <2>. QED
    BY <2>2 DEF Listed
<1>. QED
  BY <1>1, <1>4, <1>5, <1>6 DEF lo, hi

\* A playlist is not written for an empty map.
LEMMA SomeSlice ==
    ASSUME DurationNPT > 0 PROVE DOMAIN outputs # {}
<1>. SUFFICES ASSUME DOMAIN outputs = {} PROVE FALSE
  OBVIOUS
<1>1. Duration = 0 /\ 0 \in Slices /\ 0 <= MaxExact
  BY RangeAssumption DEF Duration, Slices
<1>2. DurationNPT = 0
  BY <1>1, FloatFacts DEF DurationNPT
<1>. QED
  BY <1>1, <1>2

\* The loop ends, and no later than with the newest slice.
LEMMA LoopEnds ==
    ASSUME TypeOK, DOMAIN outputs # {}
    PROVE  LET nb == MinOf({k \in Slices : ~Listed(k)})
           IN  /\ nb \in Slices /\ nb \in Nat
               /\ nb <= MaxOf(DOMAIN outputs) - MinOf(DOMAIN outputs)
<1>. DEFINE U == {k \in Slices : ~Listed(k)}
<1>1. PICK d \in Slices : /\ d = MaxOf(DOMAIN outputs) - MinOf(DOMAIN outputs)
                          /\ ~Listed(d)
  BY DurationExact
<1>2. d \in U /\ U # {} /\ U \subseteq Slices
  BY <1>1
<1>. HIDE DEF U
<1>3. MinOf(U) \in U /\ MinOf(U) <= d
  BY <1>2, MinFacts
<1>4. MinOf(U) \in Slices
  BY <1>2, <1>3
<1>. QED
  BY <1>1, <1>3, <1>4 DEF U, Slices

LEMMA PlaylistTypes ==
    ASSUME TypeOK, SendM3u8PlayList
    PROVE  TypeOK'
<1>. DEFINE nb == MinOf({k \in Slices : ~Listed(k)})
            segs == [k \in 1 .. nb |-> Segment(k - 1)]
<1>1. /\ UNCHANGED <<sinkVars, slice, mpd, response>>
      /\ playlist'.segments = segs
  BY DEF SendM3u8PlayList
<1>2. nb \in Nat
  BY LoopEnds, SomeSlice DEF SendM3u8PlayList, Slices
<1>3. \A k \in 1 .. nb : Segment(k - 1) \in Slices
  <2>1. CurrentNPT \in Nat
    BY MapTimes, FloatFacts DEF CurrentNPT
  <2>2. ASSUME NEW k \in Nat PROVE CurrentNPT + k * SliceDuration \in Int
    BY <2>1, DurationAssumption
  <2>3. \A k \in Nat : Segment(k) \in Slices
    BY <2>2, UnsignedFacts DEF Segment
  <2>. QED
    BY <1>2, <2>3
<1>4. segs \in Seq(Slices)
  <2>. HIDE DEF nb
  <2>. QED
    BY <1>2, <1>3
<1>. HIDE DEF segs
<1>. QED
  BY <1>1, <1>4 DEF TypeOK, sinkVars

LEMMA StepTypes == TypeOK /\ [Next]_vars => TypeOK'
<1>. SUFFICES ASSUME TypeOK, [Next]_vars PROVE TypeOK'
  OBVIOUS
<1>1. ASSUME NEW size \in Sizes, TruncatedFrame(size) PROVE TypeOK'
  <2>1. bufferSize' \in Nat
    BY <1>1, SizeAssumption DEF TruncatedFrame, Grown, TypeOK
  <2>. QED
    BY <1>1, <2>1 DEF TruncatedFrame, TypeOK
<1>2. ASSUME NEW size \in Sizes, NEW step \in Steps, StoreFrame(size, step)
      PROVE  TypeOK'
  BY <1>2, StoreStep, StoreTypes
<1>3. CASE SendM3u8PlayList
  BY <1>3, PlaylistTypes
<1>4. CASE SendMpdPlayList
  <2>1. mpd' \in Nat
    BY <1>4, MapTimes, FloatFacts DEF SendMpdPlayList, CurrentNPT
  <2>. QED
    BY <1>4, <2>1 DEF SendMpdPlayList, TypeOK, sinkVars
<1>5. ASSUME NEW offset \in Offsets, PlaySeek(offset) \/ SendSegment(offset)
      PROVE  TypeOK'
  <2>1. offset \in Nat
    BY DurationAssumption DEF Offsets
  <2>2. SeekSlice(offset) \in Nat
    BY <2>1, SliceFacts DEF SeekSlice
  <2>3. CASE PlaySeek(offset)
    BY <2>2, <2>3 DEF PlaySeek, TypeOK, sinkVars
  <2>4. CASE SendSegment(offset)
    <3>1. GetBuffer(SeekSlice(offset)) \in Seq(1 .. Len(stamp))
      <4>. DEFINE S == 1 .. Len(stamp)
      <4>1. <<>> \in Seq(S) /\ \A s \in DOMAIN outputs : outputs[s] \in Seq(S)
        BY DEF TypeOK
      <4>. HIDE DEF S
      <4>2. \A s : GetBuffer(s) \in Seq(S)
        BY <4>1 DEF GetBuffer
      <4>. QED
        BY <4>2 DEF S
    <3>2. response'.length \in Nat /\ response'.body \in Seq(1 .. Len(stamp))
      BY <2>4, <3>1 DEF SendSegment, NumBytes, NotFound
    <3>. QED
      BY <2>2, <2>4, <3>2 DEF SendSegment, TypeOK, sinkVars
  <2>. QED
    BY <1>5, <2>3, <2>4
<1>6. CASE UNCHANGED vars
  BY <1>6 DEF vars, sinkVars, TypeOK
<1>. QED
  BY <1>1, <1>2, <1>3, <1>4, <1>5, <1>6 DEF Next

(***************************************************************************)
(* The clock: while it does not go back, the newest slice kept is the one  *)
(* of the last frame, and a slice is the frames of its seconds.            *)
(***************************************************************************)

Steady == NeverBack /\ NotWrapped

SliceNow == (now - refTime) \div SliceDuration

History ==
    /\ stamp = <<>> => refTime = 0 /\ DOMAIN outputs = {}
    /\ stamp # <<>> => refTime # 0 /\ now = stamp[Len(stamp)]

HoldsItsTimes(s) ==
    /\ {outputs[s][i] : i \in 1 .. Len(outputs[s])} = TimesOf(s)
    /\ \A i, j \in 1 .. Len(outputs[s]) :
          i < j => outputs[s][i] < outputs[s][j]

Clock ==
    stamp # <<>> /\ Steady =>
        /\ \A n \in 1 .. Len(stamp) : refTime <= stamp[n] /\ stamp[n] <= now
        /\ SliceNow \in DOMAIN outputs
        /\ \A s \in DOMAIN outputs : s <= SliceNow /\ HoldsItsTimes(s)

LEMMA StoreHistory ==
    ASSUME TypeOK, NEW t \in Nat \ {0}, Stored(t)
    PROVE  History'
<1>1. /\ stamp' # <<>> /\ refTime' \in Nat \ {0} /\ now' = t
      /\ Len(stamp') = Len(stamp) + 1 /\ stamp'[Len(stamp) + 1] = t
  BY StampAfter
<1>. QED
  BY <1>1 DEF History

\* If the clock has not gone back with this frame, it had not before.
LEMMA StillSteady ==
    ASSUME TypeOK, History, Clock, NEW t \in Nat \ {0}, Stored(t), Steady'
    PROVE  /\ refTime' \in Nat /\ refTime' <= t /\ t - refTime' < UIntRange
           /\ SliceOf(t) = (t - refTime') \div SliceDuration
           /\ SliceNow' = SliceOf(t) /\ SliceOf(t) \in Slices
           /\ stamp # <<>> => /\ Steady /\ refTime' = refTime
                              /\ refTime <= now /\ now <= t
                              /\ SliceNow <= SliceNow'
<1>1. /\ Len(stamp) \in Nat /\ Len(stamp') = Len(stamp) + 1
      /\ \A n \in 1 .. Len(stamp) : stamp'[n] = stamp[n]
      /\ stamp'[Len(stamp) + 1] = t
      /\ refTime' \in Nat \ {0} /\ now' = t
  BY StampAfter
<1>2. refTime' = Ref(t) /\ t - refTime' < UIntRange
  BY <1>1 DEF Stored, Steady, NotWrapped
<1>3. ASSUME stamp # <<>>
      PROVE  /\ Steady /\ refTime' = refTime /\ refTime <= now /\ now <= t
  <2>1. Len(stamp) \in 1 .. Len(stamp) /\ now = stamp[Len(stamp)]
    BY <1>1, <1>3 DEF History, TypeOK
  <2>2. refTime' = refTime
    BY <1>2, <1>3 DEF History, Ref
  <2>3. now <= t
    <3>1. Len(stamp) + 1 \in 2 .. Len(stamp')
      BY <1>1, <2>1
    <3>2. stamp'[Len(stamp) + 1 - 1] <= stamp'[Len(stamp) + 1]
      BY <3>1 DEF Steady, NeverBack
    <3>3. Len(stamp) + 1 - 1 = Len(stamp)
      BY <1>1
    <3>. QED
      BY <1>1, <2>1, <3>2, <3>3
  <2>4. NeverBack
    <3>. SUFFICES ASSUME NEW n \in 2 .. Len(stamp)
                  PROVE  stamp[n - 1] <= stamp[n]
      BY DEF NeverBack
    <3>1. /\ n \in 2 .. Len(stamp') /\ n \in 1 .. Len(stamp)
          /\ n - 1 \in 1 .. Len(stamp)
      BY <1>1
    <3>2. stamp'[n - 1] <= stamp'[n]
      BY <3>1 DEF Steady, NeverBack
    <3>. QED
      BY <1>1, <3>1, <3>2
  <2>5. NotWrapped
    BY <1>2, <2>2, <2>3, RangeAssumption DEF NotWrapped, TypeOK
  <2>6. refTime <= now
    BY <1>3, <2>1, <2>4, <2>5 DEF Clock, Steady
  <2>. QED
    BY <2>2, <2>3, <2>4, <2>5, <2>6 DEF Steady
<1>4. Ref(t) <= t
  BY <1>2, <1>3 DEF History, Ref, TypeOK
<1>5. /\ SliceOf(t) = (t - refTime') \div SliceDuration
      /\ SliceOf(t) \in Slices
  <2>1. t - Ref(t) < UIntRange /\ t \in Nat /\ refTime \in Nat
    BY <1>2 DEF TypeOK
  <2>2. /\ SliceOf(t) = (t - Ref(t)) \div SliceDuration
        /\ (t - Ref(t)) \div SliceDuration \in Slices
    BY <1>4, <2>1, SliceOfTime
  <2>. QED
    BY <1>2, <2>2
<1>6. SliceNow' = SliceOf(t)
  BY <1>1, <1>5 DEF SliceNow
<1>7. ASSUME stamp # <<>> PROVE SliceNow <= SliceNow'
  <2>1. now - refTime \in Nat /\ t - refTime \in Nat /\ now - refTime <= t - refTime
    BY <1>3, <1>7 DEF TypeOK
  <2>2. (now - refTime) \div SliceDuration <= (t - refTime) \div SliceDuration
    BY <2>1, SliceGrows
  <2>. QED
    BY <1>1, <1>3, <1>7, <2>2 DEF SliceNow
<1>. QED
  BY <1>1, <1>2, <1>3, <1>4, <1>5, <1>6, <1>7

LEMMA StoreClock ==
    ASSUME TypeOK, History, Clock, NEW t \in Nat \ {0}, Stored(t)
    PROVE  Clock'
<1>. SUFFICES ASSUME Steady'
              PROVE  /\ \A n \in 1 .. Len(stamp') :
                           refTime' <= stamp'[n] /\ stamp'[n] <= now'
                     /\ SliceNow' \in DOMAIN outputs'
                     /\ \A x \in DOMAIN outputs' :
                           x <= SliceNow' /\ HoldsItsTimes(x)'
  BY DEF Clock
<1>1. PICK n \in Nat : n = Len(stamp) + 1
  BY DEF TypeOK
<1>2. PICK s \in Slices : s = SliceOf(t)
  BY StillSteady
<1>3. /\ Len(stamp) \in Nat /\ Len(stamp') = n
      /\ \A m \in 1 .. Len(stamp) : stamp'[m] = stamp[m]
      /\ stamp'[n] = t /\ now' = t
  BY <1>1, StampAfter
<1>4. /\ refTime' \in Nat /\ refTime' <= t
      /\ s = (t - refTime') \div SliceDuration /\ SliceNow' = s
  BY <1>2, StillSteady
<1>5. ASSUME stamp # <<>>
      PROVE  /\ Steady /\ refTime' = refTime /\ now <= t /\ SliceNow <= s
  BY <1>2, <1>5, StillSteady
<1>6. DOMAIN outputs # {} => stamp # <<>>
  BY DEF History
<1>7. \A x \in DOMAIN outputs : x <= s
  <2>. SUFFICES ASSUME NEW x \in DOMAIN outputs PROVE x <= s
    OBVIOUS
  <2>1. x <= SliceNow /\ SliceNow \in DOMAIN outputs /\ SliceNow <= s
    BY <1>5, <1>6 DEF Clock
  <2>2. DOMAIN outputs \subseteq Nat
    BY DEF TypeOK, Slices
  <2>3. x \in Nat /\ SliceNow \in Nat /\ s \in Nat
    BY <2>1, <2>2 DEF Slices
  <2>. QED
    BY <2>1, <2>3
<1>8. /\ s \in DOMAIN outputs' /\ DOMAIN outputs' \subseteq DOMAIN outputs \cup {s}
      /\ \A x \in DOMAIN outputs' : x # s => outputs'[x] = outputs[x]
      /\ outputs'[s] = IF s \in DOMAIN outputs THEN Append(outputs[s], n) ELSE <<n>>
  BY <1>1, <1>2, <1>7, OutputsAfter
<1>9. \A m \in 1 .. Len(stamp') : refTime' <= stamp'[m] /\ stamp'[m] <= now'
  <2>. SUFFICES ASSUME NEW m \in 1 .. Len(stamp')
                PROVE  refTime' <= stamp'[m] /\ stamp'[m] <= now'
    OBVIOUS
  <2>1. CASE m = n
    BY <1>3, <1>4, <2>1
  <2>2. CASE m # n
    <3>1. m \in 1 .. Len(stamp) /\ stamp # <<>>
      BY <1>1, <1>3, <2>2
    <3>2. refTime <= stamp[m] /\ stamp[m] <= now /\ stamp[m] \in Nat
      BY <1>5, <3>1 DEF Clock, TypeOK
    <3>. QED
      BY <1>3, <1>5, <3>1, <3>2 DEF TypeOK
  <2>. QED
    BY <2>1, <2>2
\* The frames of the seconds of a slice: those there were, and the new one.
<1>10. \A m \in 1 .. Len(stamp) :
          stamp # <<>> => (stamp'[m] - refTime') \div SliceDuration
                             = (stamp[m] - refTime) \div SliceDuration
  BY <1>3, <1>5
<1>11. ASSUME NEW x \in Slices
       PROVE  \A m \in 1 .. n :
                 m \in TimesOf(x)' <=> IF m = n THEN x = s
                                       ELSE m \in TimesOf(x)
  <2>. SUFFICES ASSUME NEW m \in 1 .. n
                PROVE  m \in TimesOf(x)' <=> IF m = n THEN x = s
                                             ELSE m \in TimesOf(x)
    OBVIOUS
  <2>1. m \in TimesOf(x)' <=> (stamp'[m] - refTime') \div SliceDuration = x
    BY <1>3 DEF TimesOf
  <2>2. CASE m = n
    BY <1>3, <1>4, <2>1, <2>2
  <2>3. CASE m # n
    <3>1. m \in 1 .. Len(stamp) /\ stamp # <<>>
      BY <1>1, <1>3, <2>3
    <3>2. m \in TimesOf(x) <=> (stamp[m] - refTime) \div SliceDuration = x
      BY <3>1 DEF TimesOf
    <3>. QED
      BY <1>10, <2>1, <2>3, <3>1, <3>2
  <2>. QED
    BY <2>2, <2>3
<1>12. \A x \in Slices : TimesOf(x) \subseteq 1 .. Len(stamp)
                         /\ TimesOf(x)' \subseteq 1 .. n
  BY <1>3 DEF TimesOf
<1>13. ASSUME NEW x \in DOMAIN outputs', x # s PROVE HoldsItsTimes(x)'
  <2>1. x \in DOMAIN outputs /\ x \in Slices /\ outputs'[x] = outputs[x]
    BY <1>8, <1>13 DEF TypeOK
  <2>2. HoldsItsTimes(x)
    BY <1>5, <1>6, <2>1 DEF Clock
  <2>3. TimesOf(x)' = TimesOf(x)
    <3>1. \A m : m \in TimesOf(x)' <=> m \in TimesOf(x)
      <4>. SUFFICES ASSUME NEW m, m \in 1 .. n
                    PROVE  m \in TimesOf(x)' <=> m \in TimesOf(x)
        BY <1>1, <1>3, <1>12, <2>1
      <4>1. n \notin TimesOf(x)
        BY <1>1, <1>3, <1>12, <2>1
      <4>. QED
        BY <1>11, <1>13, <2>1, <4>1
    <3>. QED
      BY <3>1
  <2>. QED
    BY <2>1, <2>2, <2>3 DEF HoldsItsTimes
<1>14. HoldsItsTimes(s)'
  <2>1. CASE s \in DOMAIN outputs
    <3>. DEFINE old == outputs[s]
                new == outputs'[s]
    <3>1. HoldsItsTimes(s)
      BY <1>5, <1>6, <2>1 DEF Clock
    <3>2. old \in Seq(1 .. Len(stamp)) /\ new = Append(old, n)
      BY <1>8, <2>1 DEF TypeOK
    <3>3. Len(old) \in Nat /\ \A i \in 1 .. Len(old) : old[i] \in 1 .. Len(stamp)
      BY <3>2
    <3>4. /\ Len(new) = Len(old) + 1 /\ new[Len(old) + 1] = n
          /\ \A i \in 1 .. Len(old) : new[i] = old[i]
      BY <1>1, <3>2
    <3>5. TimesOf(s)' = {old[i] : i \in 1 .. Len(old)} \cup {n}
      <4>1. {old[i] : i \in 1 .. Len(old)} = TimesOf(s)
        BY <3>1 DEF HoldsItsTimes
      <4>2. \A m : m \in TimesOf(s)' <=> m \in TimesOf(s) \cup {n}
        <5>1. n \in 1 .. n /\ n \notin TimesOf(s)
          BY <1>1, <1>3, <1>12
        <5>2. \A m \in 1 .. n : m \in TimesOf(s)' <=> m \in TimesOf(s) \cup {n}
          BY <1>11, <5>1
        <5>. QED
          BY <1>1, <1>3, <1>12, <5>1, <5>2
      <4>. QED
        BY <4>1, <4>2
    <3>6. {new[i] : i \in 1 .. Len(new)} = {old[i] : i \in 1 .. Len(old)} \cup {n}
      <4>. HIDE DEF old, new
      <4>. QED
        BY <3>3, <3>4
    <3>7. ASSUME NEW i \in 1 .. Len(new), NEW j \in 1 .. Len(new), i < j
          PROVE  new[i] < new[j]
      <4>1. i \in 1 .. Len(old) /\ new[i] = old[i]
        BY <3>3, <3>4, <3>7
      <4>2. CASE j = Len(old) + 1
        BY <1>1, <1>3, <3>3, <3>4, <4>1, <4>2
      <4>3. CASE j \in 1 .. Len(old)
        BY <3>1, <3>4, <3>7, <4>1, <4>3 DEF HoldsItsTimes
      <4>. QED
        BY <3>3, <3>4, <4>2, <4>3
    <3>. QED
      BY <3>5, <3>6, <3>7 DEF HoldsItsTimes
  <2>2. CASE s \notin DOMAIN outputs
    <3>1. outputs'[s] = <<n>>
      BY <1>8, <2>2
    <3>2. \A m \in 1 .. Len(stamp) : m \notin TimesOf(s)
      <4>. SUFFICES ASSUME NEW m \in 1 .. Len(stamp)
                    PROVE  (stamp[m] - refTime) \div SliceDuration # s
        BY DEF TimesOf
      <4>1. stamp # <<>>
        BY <1>3
      <4>2. refTime <= stamp[m] /\ stamp[m] <= now /\ stamp[m] \in Nat
        <5>1. stamp[m] \in Nat
          BY DEF TypeOK
        <5>. QED
          BY <1>5, <4>1, <5>1 DEF Clock
      <4>3. SliceNow \in DOMAIN outputs /\ SliceNow <= s
        BY <1>5, <4>1 DEF Clock
      <4>4. stamp[m] - refTime \in Nat /\ now - refTime \in Nat
            /\ stamp[m] - refTime <= now - refTime
        <5>1. refTime \in Nat /\ now \in Nat
          BY DEF TypeOK
        <5>. QED
          BY <4>2, <5>1
      <4>5. (stamp[m] - refTime) \div SliceDuration <= SliceNow
        BY <4>4, SliceGrows DEF SliceNow
      <4>6. DOMAIN outputs \subseteq Nat /\ s \in Nat
        BY DEF TypeOK, Slices
      <4>7. (stamp[m] - refTime) \div SliceDuration \in Nat
        BY <4>4, SliceFacts
      <4>. QED
        BY <2>2, <4>3, <4>5, <4>6, <4>7
    <3>3. TimesOf(s)' = {n}
      <4>1. n \in 1 .. n
        BY <1>1, <1>3
      <4>2. \A m \in 1 .. n : m \in TimesOf(s)' <=> m = n
        <5>1. \A m \in 1 .. n : m # n => m \in 1 .. Len(stamp)
          BY <1>1, <1>3
        <5>. QED
          BY <1>11, <3>2, <5>1
      <4>. QED
        BY <1>12, <4>1, <4>2
    <3>. QED
      BY <3>1, <3>3 DEF HoldsItsTimes
  <2>. QED
    BY <2>1, <2>2
<1>15. ASSUME NEW x \in DOMAIN outputs' PROVE x <= SliceNow' /\ HoldsItsTimes(x)'
  <2>1. CASE x = s
    <3>1. s <= s
      BY DEF Slices
    <3>. QED
      BY <1>4, <1>14, <2>1, <3>1
  <2>2. CASE x # s
    BY <1>4, <1>7, <1>8, <1>13, <1>15, <2>2
  <2>. QED
    BY <2>1, <2>2
<1>. QED
  BY <1>4, <1>8, <1>9, <1>15

(***************************************************************************)
(* What a playlist lists: the slices before the newest, which grow no more *)
(* while the clock does not go back.                                       *)
(***************************************************************************)

Window == DOMAIN playlist.window

WindowType == Window \subseteq Slices /\ (Window # {} => stamp # <<>>)

Listing ==
    \A k \in 1 .. Len(playlist.segments) :
        /\ Window # {}
        /\ Counted => /\ SeekSlice(playlist.segments[k]) = MinOf(Window) + k - 1
                      /\ MinOf(Window) + k - 1 < MaxOf(Window)

Short ==
    IF Window = {} THEN Len(playlist.segments) = 0
    ELSE Len(playlist.segments) <= MaxOf(Window) - MinOf(Window)

Finished ==
    Steady /\ Window # {} =>
        /\ MaxOf(Window) <= SliceNow
        /\ \A x \in Window \cap DOMAIN outputs :
              x < MaxOf(Window) => outputs[x] = playlist.window[x]

\* A playlist leaves what it does not write, and what it writes is the map.
LEMMA Written ==
    ASSUME TypeOK, SendM3u8PlayList
    PROVE  LET nb == MinOf({k \in Slices : ~Listed(k)})
           IN  /\ UNCHANGED <<sinkVars, slice, mpd, response>>
               /\ DOMAIN outputs # {}
               /\ nb \in Nat
               /\ nb <= MaxOf(DOMAIN outputs) - MinOf(DOMAIN outputs)
               /\ playlist'.segments = [k \in 1 .. nb |-> Segment(k - 1)]
               /\ playlist'.window = outputs
<1>1. DOMAIN outputs # {}
  BY SomeSlice DEF SendM3u8PlayList
<1>. QED
  BY <1>1, LoopEnds DEF SendM3u8PlayList

\* While a float counts every second, the k-th segment is the k-th slice.
LEMMA SegmentIsSlice ==
    ASSUME TypeOK, DOMAIN outputs # {}, NEW d \in Nat,
           d = MaxOf(DOMAIN outputs) - MinOf(DOMAIN outputs),
           MaxOf(DOMAIN outputs) * SliceDuration <= MaxExact,
           NEW k \in 0 .. d
    PROVE  SeekSlice(Segment(k)) = MinOf(DOMAIN outputs) + k
<1>. DEFINE lo == MinOf(DOMAIN outputs)
            hi == MaxOf(DOMAIN outputs)
<1>1. /\ lo \in DOMAIN outputs /\ hi \in DOMAIN outputs
      /\ lo \in Nat /\ hi \in Nat
  BY DurationExact
<1>2. FirstTime = Unsigned(lo * SliceDuration)
  BY DEF FirstTime
<1>3. hi = lo + d /\ hi * SliceDuration <= MaxExact
  BY <1>1
<1>. HIDE DEF lo, hi
<1>4. ASSUME NEW x \in 0 .. hi
      PROVE  /\ x \in Nat /\ x * SliceDuration \in Slices
             /\ x * SliceDuration <= MaxExact
             /\ Unsigned(x * SliceDuration) = x * SliceDuration
  <2>1. x \in Nat /\ x <= hi
    BY <1>1
  <2>2. PICK e \in Nat : e = x * SliceDuration
    BY <2>1, SliceOfMultiple
  <2>3. PICK m \in Nat : m = hi * SliceDuration
    BY <1>1, SliceOfMultiple
  <2>4. e <= m /\ m <= MaxExact
    BY <1>1, <1>3, <2>1, <2>2, <2>3, MultipleGrows
  <2>5. e \in Slices /\ e <= MaxExact
    BY <2>4, RangeAssumption DEF Slices
  <2>. QED
    BY <2>1, <2>2, <2>5, UnsignedFacts
<1>5. lo \in 0 .. hi /\ lo + k \in 0 .. hi
  BY <1>1, <1>3
<1>6. CurrentNPT = lo * SliceDuration
  <2>1. FirstTime = lo * SliceDuration
    BY <1>2, <1>4, <1>5
  <2>. QED
    BY <1>4, <1>5, <2>1, FloatFacts DEF CurrentNPT
<1>7. lo * SliceDuration + k * SliceDuration = (lo + k) * SliceDuration
  BY <1>1, DurationAssumption
<1>8. Segment(k) = (lo + k) * SliceDuration
  BY <1>4, <1>5, <1>6, <1>7 DEF Segment
<1>. QED
  BY <1>1, <1>8, SliceOfMultiple DEF SeekSlice, lo

LEMMA SendListing ==
    ASSUME TypeOK, SendM3u8PlayList PROVE Listing' /\ Short'
<1>. DEFINE lo == MinOf(DOMAIN outputs)
            hi == MaxOf(DOMAIN outputs)
<1>1. PICK nb \in Nat :
         /\ nb <= hi - lo
         /\ playlist'.segments = [k \in 1 .. nb |-> Segment(k - 1)]
         /\ playlist'.window = outputs
         /\ DOMAIN outputs # {}
  BY Written
<1>2. /\ Len(playlist'.segments) = nb
      /\ \A k \in 1 .. nb : playlist'.segments[k] = Segment(k - 1)
  BY <1>1
<1>3. Window' = DOMAIN outputs /\ Window' # {}
  BY <1>1 DEF Window
<1>4. Counted' <=> hi * SliceDuration <= MaxExact
  BY <1>1 DEF Counted
<1>5. PICK d \in Nat : d = hi - lo /\ hi \in Nat /\ lo \in Nat
  BY <1>1, DurationExact
<1>6. ASSUME Counted', NEW k \in 1 .. nb
      PROVE  /\ SeekSlice(playlist'.segments[k]) = lo + k - 1
             /\ lo + k - 1 < hi
  <2>1. nb <= d /\ hi * SliceDuration <= MaxExact
    BY <1>1, <1>4, <1>5, <1>6
  <2>2. k - 1 \in 0 .. d /\ k \in Nat
    BY <2>1
  <2>3. SeekSlice(Segment(k - 1)) = lo + (k - 1)
    BY <1>1, <1>5, <2>1, <2>2, SegmentIsSlice
  <2>. HIDE DEF hi, lo
  <2>. QED
    BY <1>2, <1>5, <2>1, <2>2, <2>3
<1>7. MinOf(Window') = lo /\ MaxOf(Window') = hi
  BY <1>3
<1>. HIDE DEF lo, hi
<1>8. Listing'
  BY <1>2, <1>3, <1>6, <1>7 DEF Listing, SeekSlice
<1>9. Short'
  BY <1>1, <1>2, <1>3, <1>7 DEF Short
<1>. QED
  BY <1>8, <1>9

LEMMA SendFinished ==
    ASSUME TypeOK, History, Clock, SendM3u8PlayList
    PROVE  WindowType' /\ Finished'
<1>1. /\ stamp' = stamp /\ outputs' = outputs /\ now' = now /\ refTime' = refTime
      /\ DOMAIN outputs # {} /\ playlist'.window = outputs
  BY Written DEF sinkVars
<1>2. stamp # <<>> /\ DOMAIN outputs \subseteq Slices
  BY <1>1 DEF History, TypeOK
<1>3. WindowType'
  BY <1>1, <1>2 DEF WindowType, Window
<1>4. Steady' => MaxOf(DOMAIN outputs) <= SliceNow
  <2>1. MaxOf(DOMAIN outputs) \in DOMAIN outputs
    BY <1>1, <1>2, MaxFacts
  <2>. QED
    BY <1>1, <1>2, <2>1 DEF Clock, Steady, NeverBack, NotWrapped
<1>5. Window' = DOMAIN outputs /\ SliceNow' = SliceNow
  BY <1>1 DEF Window, SliceNow
<1>6. Finished'
  BY <1>1, <1>4, <1>5 DEF Finished
<1>. QED
  BY <1>3, <1>6

LEMMA StoreFinished ==
    ASSUME TypeOK, History, Clock, WindowType, Finished,
           NEW t \in Nat \ {0}, Stored(t)
    PROVE  WindowType' /\ Finished'
<1>1. playlist' = playlist /\ stamp' # <<>>
  BY StampAfter DEF Stored
<1>2. WindowType'
  BY <1>1 DEF WindowType, Window
<1>3. ASSUME Steady', Window # {}
      PROVE  /\ MaxOf(Window) <= SliceNow'
             /\ \A x \in Window \cap DOMAIN outputs' :
                   x < MaxOf(Window) => outputs'[x] = playlist.window[x]
  <2>1. PICK s \in Slices : s = SliceOf(t)
    BY <1>3, StillSteady
  <2>2. stamp # <<>> /\ Window \subseteq Slices
    BY <1>3 DEF WindowType
  <2>3. Steady /\ SliceNow <= s /\ SliceNow' = s
    BY <1>3, <2>1, <2>2, StillSteady
  <2>4. SliceNow \in DOMAIN outputs
    BY <2>2, <2>3 DEF Clock
  <2>5. PICK m \in Slices : m = MaxOf(Window)
    BY <1>3, <2>2, MaxFacts
  <2>6. m \in Nat /\ s \in Nat /\ SliceNow \in Nat
    BY <2>4 DEF TypeOK, Slices
  <2>7. m <= SliceNow
    BY <1>3, <2>3, <2>5 DEF Finished
  <2>8. m <= s
    BY <2>3, <2>6, <2>7
  <2>9. ASSUME NEW x \in Window \cap DOMAIN outputs', x < m
        PROVE  outputs'[x] = playlist.window[x]
    <3>1. x \in Nat
      BY <2>2 DEF Slices
    <3>2. x # s
      BY <2>6, <2>8, <2>9, <3>1
    <3>3. x \in DOMAIN outputs /\ outputs'[x] = outputs[x]
      BY <2>1, <3>2, OutputsAfter
    <3>. QED
      BY <1>3, <2>3, <2>5, <2>9, <3>3 DEF Finished
  <2>. QED
    BY <2>3, <2>5, <2>8, <2>9
<1>. QED
  BY <1>1, <1>2, <1>3 DEF Finished, Window

(***************************************************************************)
(* With a frame in every slice, the slices kept are the last m_nbSlices.   *)
(***************************************************************************)

Dense ==
    NoGap /\ Steady /\ stamp # <<>> =>
        \A x \in Slices :
            x \in DOMAIN outputs <=> x <= SliceNow /\ SliceNow < x + NbSlices

WindowDense ==
    NoGap /\ Steady /\ Window # {} =>
        \A x \in Window : MaxOf(Window) < x + NbSlices

\* What erasing leaves of slices without a gap up to s.
LEMMA NewestOfRun ==
    ASSUME NEW f, DOMAIN f \subseteq Slices, NEW s \in DOMAIN f,
           \A x \in DOMAIN f : x <= s,
           \A x \in Slices : x <= s /\ s < x + NbSlices => x \in DOMAIN f
    PROVE  \A x \in Slices : x \in Newest(f) <=> x <= s /\ s < x + NbSlices
<1>. DEFINE D == DOMAIN f
            Above(x) == {y \in D : y > x}
<1>1. /\ D \subseteq Slices /\ s \in D /\ \A x \in D : x <= s
      /\ \A x \in Slices : x <= s /\ s < x + NbSlices => x \in D
      /\ Newest(f) \subseteq D
      /\ \A x \in D : x \in Newest(f) <=> Cardinality(Above(x)) < NbSlices
  BY DEF Newest
<1>. HIDE DEF D
<1>2. Slices \subseteq Nat /\ NbSlices \in Nat
  BY DurationAssumption DEF Slices
<1>3. s \in Nat /\ s \in Slices
  BY <1>1, <1>2
<1>4. ASSUME NEW x \in D, s < x + NbSlices PROVE x \in Newest(f)
  <2>1. x \in Nat /\ x <= s
    BY <1>1, <1>2
  <2>2. ASSUME NEW y PROVE y \in Above(x) <=> y \in (x + 1) .. s
    <3>1. y \in Above(x) => y \in (x + 1) .. s
      <4>1. D \subseteq Nat
        BY <1>1, <1>2
      <4>. QED
        BY <1>1, <1>3, <2>1, <4>1
    <3>2. y \in (x + 1) .. s => y \in Above(x)
      <4>. SUFFICES ASSUME y \in (x + 1) .. s PROVE y \in D /\ y > x
        OBVIOUS
      <4>1. y \in Nat /\ y > x /\ y <= s /\ s < y + NbSlices
        BY <1>2, <1>3, <1>4, <2>1
      <4>2. y \in Slices
        BY <1>3, <4>1, RangeAssumption DEF Slices
      <4>. QED
        BY <1>1, <4>1, <4>2
    <3>. QED
      BY <3>1, <3>2
  <2>3. Above(x) = (x + 1) .. s
    BY <2>2, Zenon
  <2>4. Cardinality((x + 1) .. s) = s - x
    <3>1. x + 1 \in Int /\ s \in Int
      BY <1>3, <2>1
    <3>2. Cardinality((x + 1) .. s) = IF x + 1 > s THEN 0 ELSE s - (x + 1) + 1
      BY <3>1, FS_Interval
    <3>. QED
      BY <1>3, <2>1, <3>2
  <2>. QED
    BY <1>1, <1>2, <1>3, <1>4, <2>1, <2>3, <2>4
<1>5. ASSUME NEW x \in D, ~(s < x + NbSlices) PROVE x \notin Newest(f)
  <2>1. x \in Nat /\ x <= s
    BY <1>1, <1>2
  <2>. DEFINE I == (s - NbSlices + 1) .. s
  <2>2. I \subseteq Above(x)
    <3>. SUFFICES ASSUME NEW y \in I PROVE y \in D /\ y > x
      OBVIOUS
    <3>1. y \in Nat /\ y > x /\ y <= s /\ s < y + NbSlices
      BY <1>2, <1>3, <1>5, <2>1
    <3>2. y \in Slices
      BY <1>3, <3>1, RangeAssumption DEF Slices
    <3>. QED
      BY <1>1, <3>1, <3>2
  <2>3. Cardinality(I) = NbSlices
    <3>1. s - NbSlices + 1 \in Int /\ s \in Int
      BY <1>2, <1>3
    <3>2. Cardinality(I) = IF s - NbSlices + 1 > s THEN 0
                           ELSE s - (s - NbSlices + 1) + 1
      BY <3>1, FS_Interval
    <3>. QED
      BY <1>3, <3>2, DurationAssumption
  <2>4. IsFiniteSet(Above(x)) /\ Cardinality(Above(x)) \in Nat
    <3>1. Above(x) \subseteq Slices
      BY <1>1
    <3>. QED
      BY <3>1, SliceSets
  <2>. HIDE DEF I, Above
  <2>5. Cardinality(I) <= Cardinality(Above(x))
    BY <2>2, <2>4, FS_Subset
  <2>. QED
    BY <1>1, <1>2, <2>3, <2>4, <2>5 DEF Above
<1>. QED
  BY <1>1, <1>4, <1>5

\* If no slice has been left out with this frame, none had been before.
LEMMA StillNoGap ==
    ASSUME TypeOK, History, Clock, NEW t \in Nat \ {0}, Stored(t),
           Steady', NoGap', stamp # <<>>
    PROVE  /\ NoGap
           /\ SliceNow' = SliceNow \/ SliceNow' = SliceNow + 1
<1>1. /\ Len(stamp) \in Nat /\ Len(stamp') = Len(stamp) + 1
      /\ \A n \in 1 .. Len(stamp) : stamp'[n] = stamp[n]
      /\ stamp'[Len(stamp) + 1] = t
      /\ now' = t
  BY StampAfter
<1>2. /\ refTime' = refTime /\ refTime <= now /\ now <= t
      /\ SliceNow <= SliceNow'
  BY StillSteady
<1>3. Len(stamp) \in 1 .. Len(stamp) /\ now = stamp[Len(stamp)]
  BY <1>1 DEF History, TypeOK
<1>4. NoGap
  <2>. SUFFICES ASSUME NEW n \in 2 .. Len(stamp)
                PROVE  stamp[n] <= stamp[n - 1] + SliceDuration
    BY DEF NoGap
  <2>1. /\ n \in 2 .. Len(stamp') /\ n \in 1 .. Len(stamp)
        /\ n - 1 \in 1 .. Len(stamp)
    BY <1>1
  <2>2. stamp'[n] <= stamp'[n - 1] + SliceDuration
    BY <2>1 DEF NoGap
  <2>. QED
    BY <1>1, <2>1, <2>2
<1>5. t <= now + SliceDuration
  <2>1. Len(stamp) + 1 \in 2 .. Len(stamp')
    BY <1>1, <1>3
  <2>2. stamp'[Len(stamp) + 1] <= stamp'[Len(stamp) + 1 - 1] + SliceDuration
    BY <2>1 DEF NoGap
  <2>3. Len(stamp) + 1 - 1 = Len(stamp)
    BY <1>1
  <2>. QED
    BY <1>1, <1>3, <2>2, <2>3
<1>6. /\ now - refTime \in Nat /\ t - refTime \in Nat
      /\ t - refTime <= (now - refTime) + SliceDuration
  BY <1>2, <1>5, DurationAssumption DEF TypeOK
<1>7. SliceNow' <= SliceNow + 1
  <2>1. (t - refTime) \div SliceDuration <= (now - refTime) \div SliceDuration + 1
    BY <1>6, SliceGrows
  <2>. QED
    BY <1>1, <1>2, <2>1 DEF SliceNow
<1>8. SliceNow \in Nat /\ SliceNow' \in Nat
  BY <1>1, <1>2, <1>6, SliceFacts DEF SliceNow
<1>. QED
  BY <1>2, <1>4, <1>7, <1>8

LEMMA StoreDense ==
    ASSUME TypeOK, History, Clock, Dense, NEW t \in Nat \ {0}, Stored(t)
    PROVE  Dense'
<1>. SUFFICES ASSUME NoGap', Steady'
              PROVE  \A x \in Slices :
                        x \in DOMAIN outputs'
                            <=> x <= SliceNow' /\ SliceNow' < x + NbSlices
  BY DEF Dense
<1>1. PICK s \in Slices : s = SliceOf(t)
  BY StillSteady
<1>2. PICK f : f = Appended(s, Len(stamp) + 1)
  OBVIOUS
<1>3. SliceNow' = s
  BY <1>1, StillSteady
<1>4. DOMAIN outputs' = Newest(f)
  BY <1>1, <1>2, OutputsAfter
<1>5. DOMAIN f = DOMAIN outputs \cup {s} /\ DOMAIN f \subseteq Slices
  <2>1. DOMAIN f = DOMAIN outputs \cup {s}
    BY <1>2 DEF Appended
  <2>2. DOMAIN outputs \subseteq Slices
    BY DEF TypeOK
  <2>. QED
    BY <2>1, <2>2
<1>6. Slices \subseteq Nat /\ s \in Nat /\ NbSlices \in Nat \ {0}
  BY DurationAssumption DEF Slices
<1>7. /\ \A x \in DOMAIN f : x <= s
      /\ \A x \in Slices : x <= s /\ s < x + NbSlices => x \in DOMAIN f
  <2>1. CASE stamp = <<>>
    <3>1. DOMAIN outputs = {} /\ refTime' = t
      BY <2>1 DEF History, Stored, Ref
    <3>2. s = 0
      <4>1. s = (t - t) \div SliceDuration
        BY <1>1, <3>1, StillSteady
      <4>. QED
        BY <4>1, DurationAssumption
    <3>. QED
      BY <1>5, <1>6, <3>1, <3>2
  <2>2. CASE stamp # <<>>
    <3>1. NoGap /\ (s = SliceNow \/ s = SliceNow + 1)
      BY <1>3, <2>2, StillNoGap
    <3>2. PICK q \in Slices : q = SliceNow
      BY <2>2, StillSteady DEF Clock, TypeOK
    <3>3. \A x \in Slices : x \in DOMAIN outputs <=> x <= q /\ q < x + NbSlices
      BY <2>2, <3>1, <3>2, StillSteady DEF Dense
    <3>4. ASSUME NEW x \in DOMAIN f PROVE x <= s
      <4>1. x \in Nat /\ q \in Nat
        BY <1>5, <1>6
      <4>. QED
        BY <1>5, <1>6, <3>1, <3>2, <3>3, <4>1
    <3>5. ASSUME NEW x \in Slices, x <= s, s < x + NbSlices PROVE x \in DOMAIN f
      <4>1. x \in Nat /\ q \in Nat
        BY <1>6
      <4>2. x = s \/ (x <= q /\ q < x + NbSlices)
        BY <1>6, <3>1, <3>2, <3>5, <4>1
      <4>. QED
        BY <1>5, <3>3, <4>2
    <3>. QED
      BY <3>4, <3>5
  <2>. QED
    BY <2>1, <2>2
<1>8. \A x \in Slices : x \in Newest(f) <=> x <= s /\ s < x + NbSlices
  BY <1>5, <1>7, NewestOfRun
<1>. QED
  BY <1>3, <1>4, <1>8

LEMMA StoreWindowDense ==
    ASSUME TypeOK, History, Clock, WindowType, WindowDense,
           NEW t \in Nat \ {0}, Stored(t)
    PROVE  WindowDense'
<1>1. playlist' = playlist
  BY DEF Stored
<1>2. ASSUME NoGap', Steady', Window # {}
      PROVE  \A x \in Window : MaxOf(Window) < x + NbSlices
  <2>1. stamp # <<>>
    BY <1>2 DEF WindowType
  <2>2. NoGap /\ Steady
    BY <1>2, <2>1, StillNoGap, StillSteady
  <2>. QED
    BY <1>2, <2>2 DEF WindowDense
<1>. QED
  BY <1>1, <1>2 DEF WindowDense, Window

LEMMA SendWindowDense ==
    ASSUME TypeOK, History, Clock, Dense, SendM3u8PlayList
    PROVE  WindowDense'
<1>1. /\ stamp' = stamp /\ outputs' = outputs /\ now' = now /\ refTime' = refTime
      /\ DOMAIN outputs # {} /\ playlist'.window = outputs
  BY Written DEF sinkVars
<1>2. (NoGap' <=> NoGap) /\ (Steady' <=> Steady)
  BY <1>1 DEF NoGap, Steady, NeverBack, NotWrapped
<1>3. stamp # <<>> /\ DOMAIN outputs \subseteq Slices
  BY <1>1 DEF History, TypeOK
<1>4. ASSUME NoGap, Steady, NEW x \in DOMAIN outputs
      PROVE  MaxOf(DOMAIN outputs) < x + NbSlices
  <2>1. SliceNow \in DOMAIN outputs /\ \A y \in DOMAIN outputs : y <= SliceNow
    BY <1>3, <1>4 DEF Clock
  <2>2. MaxOf(DOMAIN outputs) = SliceNow
    BY <1>3, <2>1, MaxIs
  <2>. QED
    BY <1>3, <1>4, <2>2 DEF Dense
<1>5. Window' = DOMAIN outputs
  BY <1>1 DEF Window
<1>. QED
  BY <1>2, <1>4, <1>5 DEF WindowDense

(***************************************************************************)
(* The inductive invariant.                                                *)
(***************************************************************************)

Kept     == History /\ Clock /\ Dense
Promised == WindowType /\ Listing /\ Short /\ Finished /\ WindowDense
IInv     == TypeOK /\ Kept /\ Promised /\ LengthIsTrue

LEMMA InitInv == Init => IInv
<1>. SUFFICES ASSUME Init PROVE IInv
  OBVIOUS
<1>1. stamp = <<>> /\ refTime = 0 /\ DOMAIN outputs = {}
  BY DEF Init
<1>2. Window = {} /\ Len(playlist.segments) = 0
  BY DEF Init, Window
<1>3. Kept
  BY <1>1 DEF Kept, History, Clock, Dense
<1>4. Promised
  BY <1>2 DEF Promised, WindowType, Listing, Short, Finished, WindowDense
<1>5. LengthIsTrue
  BY DEF LengthIsTrue, Init, NotFound
<1>. QED
  BY <1>3, <1>4, <1>5, InitTypes DEF IInv

LEMMA StoreInv ==
    ASSUME IInv, NEW t \in Nat \ {0}, Stored(t) PROVE IInv'
<1>1. TypeOK /\ Kept /\ Promised /\ LengthIsTrue
  BY DEF IInv
<1>2. playlist' = playlist /\ response' = response
  BY DEF Stored
<1>3. TypeOK'
  BY <1>1, StoreTypes
<1>4. Kept'
  BY <1>1, StoreHistory, StoreClock, StoreDense DEF Kept
<1>5. Listing' /\ Short'
  BY <1>1, <1>2 DEF Promised, Listing, Short, Window, Counted, SeekSlice
<1>6. Promised'
  BY <1>1, <1>5, StoreFinished, StoreWindowDense DEF Kept, Promised
<1>7. LengthIsTrue'
  BY <1>1, <1>2 DEF LengthIsTrue
<1>. QED
  BY <1>3, <1>4, <1>6, <1>7 DEF IInv

\* A step that leaves the slices and the playlist alone.
LEMMA IdleInv ==
    ASSUME Kept, Promised, UNCHANGED <<refTime, now, stamp, outputs, playlist>>
    PROVE  Kept' /\ Promised'
<1>1. Steady' <=> Steady
  BY DEF Steady, NeverBack, NotWrapped
<1>2. NoGap' <=> NoGap
  BY DEF NoGap
<1>3. SliceNow' = SliceNow /\ Window' = Window
  BY DEF SliceNow, Window
<1>4. \A x : HoldsItsTimes(x)' <=> HoldsItsTimes(x)
  BY DEF HoldsItsTimes, TimesOf
<1>5. History' /\ Clock' /\ Dense'
  BY <1>1, <1>2, <1>3, <1>4 DEF Kept, History, Clock, Dense
<1>6. WindowType' /\ Listing' /\ Short' /\ Finished' /\ WindowDense'
  BY <1>1, <1>2, <1>3 DEF Promised, WindowType, Listing, Short, Counted, SeekSlice,
                          Finished, WindowDense
<1>. QED
  BY <1>5, <1>6 DEF Kept, Promised

LEMMA SendInv == ASSUME IInv, SendM3u8PlayList PROVE IInv'
<1>1. TypeOK /\ Kept /\ Promised /\ LengthIsTrue
  BY DEF IInv
<1>2. UNCHANGED <<refTime, now, stamp, outputs, response>>
  BY DEF SendM3u8PlayList, sinkVars
<1>3. TypeOK'
  BY <1>1, PlaylistTypes
<1>4. Steady' <=> Steady
  BY <1>2 DEF Steady, NeverBack, NotWrapped
<1>5. NoGap' <=> NoGap
  BY <1>2 DEF NoGap
<1>6. SliceNow' = SliceNow
  BY <1>2 DEF SliceNow
<1>7. \A x : HoldsItsTimes(x)' <=> HoldsItsTimes(x)
  BY <1>2 DEF HoldsItsTimes, TimesOf
<1>8. History' /\ Clock' /\ Dense'
  BY <1>1, <1>2, <1>4, <1>5, <1>6, <1>7 DEF Kept, History, Clock, Dense
<1>9. Promised'
  BY <1>1, SendListing, SendFinished, SendWindowDense DEF Kept, Promised
<1>10. LengthIsTrue'
  BY <1>1, <1>2 DEF LengthIsTrue
<1>. QED
  BY <1>1, <1>3, <1>8, <1>9, <1>10 DEF IInv, Kept

LEMMA StepInv == IInv /\ [Next]_vars => IInv'
<1>. SUFFICES ASSUME IInv, [Next]_vars PROVE IInv'
  OBVIOUS
<1>1. TypeOK /\ Kept /\ Promised /\ LengthIsTrue
  BY DEF IInv
<1>2. TypeOK'
  BY <1>1, StepTypes
<1>3. ASSUME NEW size \in Sizes, TruncatedFrame(size) PROVE IInv'
  <2>1. UNCHANGED <<refTime, now, stamp, outputs, playlist, response>>
    BY <1>3 DEF TruncatedFrame
  <2>. QED
    BY <1>1, <1>2, <2>1, IdleInv DEF IInv, LengthIsTrue
<1>4. ASSUME NEW size \in Sizes, NEW step \in Steps, StoreFrame(size, step)
      PROVE  IInv'
  BY <1>1, <1>4, StoreStep, StoreInv
<1>5. CASE SendM3u8PlayList
  BY <1>5, SendInv
<1>6. CASE SendMpdPlayList
  <2>1. UNCHANGED <<refTime, now, stamp, outputs, playlist, response>>
    BY <1>6 DEF SendMpdPlayList, sinkVars
  <2>. QED
    BY <1>1, <1>2, <2>1, IdleInv DEF IInv, LengthIsTrue
<1>7. ASSUME NEW offset \in Offsets, PlaySeek(offset) PROVE IInv'
  <2>1. UNCHANGED <<refTime, now, stamp, outputs, playlist, response>>
    BY <1>7 DEF PlaySeek, sinkVars
  <2>. QED
    BY <1>1, <1>2, <2>1, IdleInv DEF IInv, LengthIsTrue
\* The length announced is the one of the buffer that is then read.
<1>8. ASSUME NEW offset \in Offsets, SendSegment(offset) PROVE IInv'
  <2>1. UNCHANGED <<refTime, now, stamp, outputs, playlist>>
    BY <1>8 DEF SendSegment, sinkVars
  <2>2. LengthIsTrue'
    BY <1>8 DEF SendSegment, LengthIsTrue, NumBytes, NotFound
  <2>. QED
    BY <1>1, <1>2, <2>1, <2>2, IdleInv DEF IInv
<1>9. CASE UNCHANGED vars
  <2>1. UNCHANGED <<refTime, now, stamp, outputs, playlist, response>>
    BY <1>9 DEF vars, sinkVars
  <2>. QED
    BY <1>1, <1>2, <2>1, IdleInv DEF IInv, LengthIsTrue
<1>. QED
  BY <1>3, <1>4, <1>5, <1>6, <1>7, <1>8, <1>9 DEF Next

LEMMA Invariant == Spec => []IInv
BY InitInv, StepInv, PTL DEF Spec

(***************************************************************************)
(* What the runs check.                                                    *)
(***************************************************************************)

\* MemoryBufferSink: whatever the clock did, slices are numbered and counted
\* as they should be; while it has not gone back, a slice kept is the frames of
\* its seconds, in order; a segment has the length announced for it.
THEOREM SlicesHold == Spec => []SlicesTrue
<1>1. ASSUME IInv PROVE SliceIsTimeRange
  <2>. SUFFICES ASSUME Steady, NEW s \in DOMAIN outputs PROVE HoldsItsTimes(s)
    BY DEF SliceIsTimeRange, Steady, HoldsItsTimes
  <2>. QED
    BY <1>1 DEF IInv, Kept, History, Clock
<1>2. IInv => SlicesTrue
  BY <1>1 DEF IInv, SlicesTrue
<1>. QED
  BY <1>2, Invariant, PTL

\* HTTPServer: a segment of a playlist was complete when it was listed, and is
\* there until as many slices have begun as its place in the list.
THEOREM ListedSegmentsHold == Spec => []ListedSegments
<1>1. ASSUME IInv PROVE ListedSegmentsFinal
  <2>. SUFFICES ASSUME Steady, NEW k \in 1 .. Len(playlist.segments),
                       NEW s, s = SeekSlice(playlist.segments[k]),
                       Counted, s \in DOMAIN outputs, s \in Window
                PROVE  outputs[s] = playlist.window[s]
    BY DEF ListedSegmentsFinal, Steady, Window
  <2>1. s < MaxOf(Window)
    BY <1>1 DEF IInv, Promised, Listing
  <2>. QED
    BY <1>1, <2>1 DEF IInv, Promised, Finished
<1>2. ASSUME IInv PROVE ListedSegmentsServed
  <2>. SUFFICES ASSUME Steady, NoGap, NEW k \in 1 .. Len(playlist.segments),
                       Counted,
                       SeekSlice(playlist.segments[k]) \notin DOMAIN outputs
                PROVE  MaxOf(DOMAIN outputs) >= MaxOf(Window) + k
    BY DEF ListedSegmentsServed, Steady, Window
  <2>1. TypeOK /\ Clock /\ Dense /\ WindowType /\ Listing /\ Finished /\ WindowDense
    BY <1>2 DEF IInv, Kept, Promised
  <2>2. Window # {} /\ Window \subseteq Slices /\ stamp # <<>>
    BY <2>1 DEF Listing, WindowType
  <2>3. PICK lo \in Window : lo = MinOf(Window)
    BY <2>2, MinFacts
  <2>4. PICK hi \in Window : hi = MaxOf(Window)
    BY <2>2, MaxFacts
  <2>5. PICK s : s = SeekSlice(playlist.segments[k])
    OBVIOUS
  <2>6. s = lo + k - 1 /\ s < hi /\ s \notin DOMAIN outputs
    BY <2>1, <2>3, <2>4, <2>5 DEF Listing
  <2>7. Slices \subseteq Nat /\ k \in Nat \ {0} /\ NbSlices \in Nat
    BY DurationAssumption DEF Slices
  <2>8. hi < lo + NbSlices /\ hi <= SliceNow
    BY <2>1, <2>2, <2>3, <2>4 DEF WindowDense, Finished
  <2>9. PICK q \in DOMAIN outputs : q = SliceNow /\ \A x \in DOMAIN outputs : x <= q
    BY <2>1, <2>2 DEF Clock
  <2>10. DOMAIN outputs \subseteq Slices /\ q \in Nat /\ lo \in Nat /\ hi \in Nat
    BY <2>1, <2>2, <2>7 DEF TypeOK
  <2>11. MaxOf(DOMAIN outputs) = q
    BY <2>9, <2>10, MaxIs
  <2>12. s \in Slices
    <3>1. hi \in Slices
      BY <2>2
    <3>2. s \in Nat /\ hi <= UIntRange - 1
      BY <2>6, <2>7, <2>10, <3>1 DEF Slices
    <3>. QED
      BY <2>6, <2>10, <3>2, RangeAssumption DEF Slices
  <2>13. ~(s <= q /\ q < s + NbSlices)
    BY <2>1, <2>2, <2>6, <2>9, <2>12 DEF Dense
  <2>14. q >= hi + k
    BY <2>6, <2>7, <2>8, <2>9, <2>10, <2>13
  <2>. QED
    BY <2>4, <2>11, <2>14
<1>3. IInv => ListedSegments
  BY <1>1, <1>2 DEF ListedSegments
<1>. QED
  BY <1>3, Invariant, PTL

\* HTTPServer: whatever the float does, the loop that writes a playlist ends
\* within the seconds streamed; with a frame in every slice the playlist is
\* shorter than the window of slices.
THEOREM PlaylistBoundedHolds == Spec => []PlaylistBounded
<1>1. ASSUME IInv PROVE PlaylistBounded
  <2>. SUFFICES ASSUME Steady
                PROVE  /\ Len(playlist.segments) * SliceDuration <= now - refTime
                       /\ NoGap => Len(playlist.segments) < NbSlices
    BY DEF PlaylistBounded, Steady
  <2>. DEFINE n == Len(playlist.segments)
  <2>1. TypeOK /\ History /\ Clock /\ WindowType /\ Short /\ Finished /\ WindowDense
    BY <1>1 DEF IInv, Kept, Promised
  <2>2. n \in Nat /\ now \in Nat /\ refTime \in Nat /\ now - refTime \in Int
    BY <2>1 DEF TypeOK
  <2>3. CASE Window = {}
    <3>1. n = 0
      BY <2>1, <2>3 DEF Short
    <3>2. refTime <= now
      <4>1. CASE stamp = <<>>
        BY <2>1, <2>2, <4>1 DEF History
      <4>2. CASE stamp # <<>>
        <5>1. Len(stamp) \in 1 .. Len(stamp) /\ now = stamp[Len(stamp)]
          BY <2>1, <4>2 DEF History, TypeOK
        <5>. QED
          BY <2>1, <4>2, <5>1 DEF Clock
      <4>. QED
        BY <4>1, <4>2
    <3>. HIDE DEF n
    <3>. QED
      BY <2>2, <3>1, <3>2, DurationAssumption DEF n
  <2>4. CASE Window # {}
    <3>1. Window \subseteq Slices /\ stamp # <<>>
      BY <2>1, <2>4 DEF WindowType
    <3>2. PICK lo \in Window : lo = MinOf(Window)
      BY <2>4, <3>1, MinFacts
    <3>3. PICK hi \in Window : hi = MaxOf(Window)
      BY <2>4, <3>1, MaxFacts
    <3>4. lo \in Nat /\ hi \in Nat /\ n <= hi - lo
      BY <2>1, <2>4, <3>1, <3>2, <3>3 DEF Short, Slices
    <3>5. hi <= SliceNow
      BY <2>1, <2>4, <3>3 DEF Finished
    <3>6. now - refTime \in Nat
      <4>1. Len(stamp) \in 1 .. Len(stamp) /\ now = stamp[Len(stamp)]
        BY <2>1, <3>1 DEF History, TypeOK
      <4>2. refTime <= now
        BY <2>1, <3>1, <4>1 DEF Clock
      <4>. QED
        BY <2>2, <4>2
    <3>7. SliceNow \in Nat /\ SliceNow * SliceDuration <= now - refTime
      BY <3>6, SliceFacts DEF SliceNow
    <3>. HIDE DEF n
    <3>8. n * SliceDuration <= SliceNow * SliceDuration
      <4>1. n <= SliceNow
        BY <2>2, <3>4, <3>5, <3>7
      <4>. QED
        BY <2>2, <3>7, <4>1, MultipleGrows
    <3>9. n * SliceDuration \in Nat /\ SliceNow * SliceDuration \in Nat
      BY <2>2, <3>7, SliceOfMultiple
    <3>10. n * SliceDuration <= now - refTime
      BY <3>6, <3>7, <3>8, <3>9
    <3>11. NoGap => n < NbSlices
      <4>1. NoGap => hi < lo + NbSlices
        BY <2>1, <2>4, <3>2, <3>3 DEF WindowDense
      <4>. QED
        BY <2>2, <3>4, <4>1, DurationAssumption
    <3>. QED
      BY <3>10, <3>11 DEF n
  <2>. QED
    BY <2>3, <2>4
<1>. QED
  BY <1>1, Invariant, PTL

=============================================================================
