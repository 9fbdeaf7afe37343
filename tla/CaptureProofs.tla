--------------------------- MODULE CaptureProofs ---------------------------
(***************************************************************************)
(* What the two ends of the capture of encoded video promise: the buffers  *)
(* of the driver that packets are read from, for any number of them, any   *)
(* length and any sequence of calls of which any ioctl may fail; and the   *)
(* source that splits the packets, for any packets and any codec.          *)
(***************************************************************************)
EXTENDS MmapBuffers, H26xSource, SequenceTheorems, WellFoundedInduction, TLAPS

(***************************************************************************)
(* MmapBuffers.  The invariant that carries the rest is PartialOwned: the  *)
(* buffer of a partial write is out of the driver's hands for as long as   *)
(* stop() does not come in between.                                        *)
(***************************************************************************)

\* While the device is used, all its buffers are mapped.
AllMapped == ready => mapped = Buffers(n_buffers)

\* The buffer of a partial write belongs to the process, and the device was
\* not set up again since.
PartialOwned ==
    partial /\ ~stale =>
        /\ mapped = Buffers(n_buffers)
        /\ index \in Buffers(n_buffers)
        /\ index \notin queued

IInv == TypeOK /\ BuffersConserved /\ MappingsKnown /\ AllMapped /\ PartialOwned

LEMMA BuffersFacts ==
    ASSUME NEW n \in Nat
    PROVE  /\ Buffers(n) \subseteq Nat
           /\ Buffers(0) = {}
           /\ \A i \in Nat : i \in Buffers(n) <=> i < n
           /\ n > 0 => Buffers(n) # {}
BY DEF Buffers

\* A call of VIDIOC_QBUF keeps the types, adds no other buffer to the driver's
\* and accounts for the buffer that was given back.
LEMMA RequeuedFacts ==
    ASSUME NEW i \in Nat, NEW Q \in SUBSET Nat, lost \subseteq Nat,
           Requeued(i, Q)
    PROVE  /\ queued' \subseteq Nat /\ lost' \subseteq Nat
           /\ queued' \subseteq Q \cup {i}
           /\ Q \cup {i} \subseteq queued' \cup lost'
           /\ lost \subseteq queued' \cup lost'
BY DEF Requeued

LEMMA InitInv == Init => IInv
<1>. SUFFICES ASSUME Init PROVE IInv
  OBVIOUS
<1>2. TypeOK
  <2>1. n_buffers \in Nat /\ index \in Nat /\ bytesused \in 0 .. Length
    BY SizesAssumption DEF Init, V4L2MMAP_NBBUFFER
  <2>2. mapped \subseteq Nat /\ queued \subseteq Nat /\ lost \subseteq Nat
    BY DEF Init
  <2>3. streaming \in BOOLEAN /\ ready \in BOOLEAN /\ partial \in BOOLEAN
        /\ stale \in BOOLEAN
    BY Zenon DEF Init
  <2>. QED
    BY <2>1, <2>2, <2>3 DEF TypeOK
<1>3. BuffersConserved /\ MappingsKnown /\ AllMapped /\ PartialOwned
  BY DEF Init, BuffersConserved, MappingsKnown, AllMapped, PartialOwned
<1>. QED
  BY <1>2, <1>3 DEF IInv

LEMMA StartInv == ASSUME IInv, Start PROVE IInv'
<1>. USE DEF Start, IInv
<1>1. PICK n \in Counts : \E M, Q \in SUBSET Buffers(n), on \in BOOLEAN :
         /\ n_buffers' = n /\ mapped' = M /\ queued' = Q /\ streaming' = on
         /\ ready' = (M = Buffers(n) /\ Q = Buffers(n) /\ on)
         /\ lost' = {}
  BY Zenon
<1>2. PICK M \in SUBSET Buffers(n), Q \in SUBSET Buffers(n), on \in BOOLEAN :
         /\ n_buffers' = n /\ mapped' = M /\ queued' = Q /\ streaming' = on
         /\ ready' = (M = Buffers(n) /\ Q = Buffers(n) /\ on)
         /\ lost' = {}
  BY <1>1
<1>3. n \in Nat /\ Buffers(n) \subseteq Nat
  BY CountsAssumption, BuffersFacts DEF V4L2MMAP_NBBUFFER
<1>4. TypeOK'
  <2>1. (n_buffers \in Nat /\ mapped \subseteq Nat /\ queued \subseteq Nat
         /\ lost \subseteq Nat)'
    BY <1>2, <1>3
  <2>2. (streaming \in BOOLEAN /\ ready \in BOOLEAN)'
    BY <1>2
  <2>3. (partial \in BOOLEAN /\ stale \in BOOLEAN /\ index \in Nat
         /\ bytesused \in 0 .. Length)'
    BY DEF TypeOK, partialVars
  <2>. QED
    BY <2>1, <2>2, <2>3 DEF TypeOK
<1>5. BuffersConserved'
  BY <1>2 DEF BuffersConserved
<1>6. MappingsKnown' /\ AllMapped'
  BY <1>2 DEF MappingsKnown, AllMapped
<1>7. PartialOwned'
  <2>1. ~(partial /\ ~stale)
    BY DEF PartialOwned
  <2>. QED
    BY <2>1 DEF PartialOwned, partialVars
<1>. QED
  BY <1>4, <1>5, <1>6, <1>7

LEMMA StopInv == ASSUME IInv, Stop PROVE IInv'
<1>1. PICK off \in BOOLEAN : /\ streaming' = (streaming /\ ~off)
                             /\ queued' = IF off THEN {} ELSE queued
  BY Zenon DEF Stop
<1>2. queued' = {} \/ queued' = queued
  BY <1>1, Zenon
<1>3. /\ mapped' = {} /\ n_buffers' = 0 /\ Buffers(0) = {}
      /\ ready' = FALSE /\ stale' = partial
      /\ UNCHANGED <<partial, index, bytesused, lost>>
  BY BuffersFacts DEF Stop, IInv, Unmapped, MappingsKnown, partialVars
<1>4. TypeOK'
  <2>1. (mapped \subseteq Nat /\ queued \subseteq Nat /\ lost \subseteq Nat)'
    BY <1>2, <1>3 DEF IInv, TypeOK
  <2>2. (streaming \in BOOLEAN)'
    BY <1>1, Zenon
  <2>3. (n_buffers \in Nat /\ ready \in BOOLEAN /\ partial \in BOOLEAN
         /\ stale \in BOOLEAN /\ index \in Nat /\ bytesused \in 0 .. Length)'
    BY <1>3 DEF IInv, TypeOK
  <2>. QED
    BY <2>1, <2>2, <2>3 DEF TypeOK
<1>5. BuffersConserved' /\ MappingsKnown' /\ AllMapped'
  BY <1>3 DEF BuffersConserved, MappingsKnown, AllMapped
<1>6. PartialOwned'
  BY <1>3 DEF PartialOwned
<1>. QED
  BY <1>4, <1>5, <1>6 DEF IInv

LEMMA ReadWriteInv == ASSUME IInv, ReadWriteInternal PROVE IInv'
<1>. USE DEF IInv
<1>1. PICK i \in queued : Dequeued(i) /\ Requeued(i, queued \ {i})
  BY DEF ReadWriteInternal
<1>2. /\ queued' \subseteq Nat /\ lost' \subseteq Nat
      /\ queued' \subseteq queued
      /\ queued \cup lost \subseteq queued' \cup lost'
  <2>1. /\ i \in Nat /\ queued \ {i} \in SUBSET Nat /\ lost \subseteq Nat
    BY DEF TypeOK
  <2>2. /\ queued' \subseteq Nat /\ lost' \subseteq Nat
        /\ queued' \subseteq (queued \ {i}) \cup {i}
        /\ (queued \ {i}) \cup {i} \subseteq queued' \cup lost'
        /\ lost \subseteq queued' \cup lost'
    BY <2>1, <1>1, RequeuedFacts
  <2>. QED
    BY <2>2
<1>3. UNCHANGED <<n_buffers, mapped, streaming, ready, partial, index,
                  bytesused, stale>>
  BY DEF ReadWriteInternal, partialVars
<1>4. TypeOK'
  BY <1>2, <1>3 DEF TypeOK
<1>5. BuffersConserved'
  BY <1>2, <1>3 DEF BuffersConserved, Buffers
<1>6. MappingsKnown' /\ AllMapped' /\ PartialOwned'
  BY <1>2, <1>3 DEF MappingsKnown, AllMapped, PartialOwned, Buffers
<1>. QED
  BY <1>4, <1>5, <1>6

LEMMA StartPartialInv == ASSUME IInv, StartPartialWrite PROVE IInv'
<1>. USE DEF StartPartialWrite, IInv
<1>1. PICK i \in queued :
         Dequeued(i) /\ queued' = queued \ {i} /\ index' = i
  OBVIOUS
<1>2. i \in Nat /\ n_buffers \in Nat /\ i < n_buffers
  BY <1>1 DEF TypeOK, Dequeued
<1>3. i \in Buffers(n_buffers)
  BY <1>2, BuffersFacts
<1>4. TypeOK'
  <2>1. (n_buffers \in Nat /\ mapped \subseteq Nat /\ queued \subseteq Nat
         /\ lost \subseteq Nat /\ index \in Nat)'
    BY <1>1, <1>2 DEF TypeOK
  <2>2. (streaming \in BOOLEAN /\ ready \in BOOLEAN /\ partial \in BOOLEAN
         /\ stale \in BOOLEAN)'
    BY DEF TypeOK
  <2>3. bytesused' \in 0 .. Length
    BY SizesAssumption
  <2>. QED
    BY <2>1, <2>2, <2>3 DEF TypeOK
<1>5. BuffersConserved'
  BY <1>1 DEF BuffersConserved, Buffers
<1>6. MappingsKnown' /\ AllMapped'
  BY DEF MappingsKnown, AllMapped, Buffers
<1>7. PartialOwned'
  BY <1>1, <1>3 DEF PartialOwned, AllMapped, InUse, Buffers
<1>. QED
  BY <1>4, <1>5, <1>6, <1>7

LEMMA WritePartialInv ==
    ASSUME IInv, NEW size \in Sizes, WritePartialInternal(size)
    PROVE  IInv'
<1>. USE DEF WritePartialInternal, IInv
<1>1. UNCHANGED <<n_buffers, mapped, queued, streaming, ready, partial, index,
                  lost, stale>>
  BY DEF driverVars
<1>2. bytesused' \in 0 .. Length
  BY SizesAssumption DEF TypeOK, Grown
<1>3. TypeOK'
  BY <1>1, <1>2 DEF TypeOK
<1>4. BuffersConserved' /\ MappingsKnown' /\ AllMapped' /\ PartialOwned'
  BY <1>1 DEF BuffersConserved, MappingsKnown, AllMapped, PartialOwned, Buffers
<1>. QED
  BY <1>3, <1>4

LEMMA EndPartialInv == ASSUME IInv, EndPartialWrite PROVE IInv'
<1>. USE DEF EndPartialWrite, IInv
<1>1. UNCHANGED <<n_buffers, mapped, streaming, ready, index, bytesused>>
  OBVIOUS
<1>2. /\ queued' \subseteq Nat /\ lost' \subseteq Nat
      /\ queued \cup lost \subseteq queued' \cup lost'
      /\ n_buffers > 0 => index \in queued' \cup lost'
  <2>1. CASE n_buffers > 0
    <3>1. /\ queued' \subseteq Nat /\ lost' \subseteq Nat
          /\ queued \cup {index} \subseteq queued' \cup lost'
          /\ lost \subseteq queued' \cup lost'
      BY <2>1, RequeuedFacts DEF TypeOK
    <3>. QED
      BY <3>1
  <2>2. CASE ~(n_buffers > 0)
    BY <2>2 DEF TypeOK
  <2>. QED
    BY <2>1, <2>2
<1>3. TypeOK'
  BY <1>1, <1>2 DEF TypeOK
<1>4. BuffersConserved'
  BY <1>1, <1>2 DEF BuffersConserved, Buffers, TypeOK
<1>5. MappingsKnown' /\ AllMapped' /\ PartialOwned'
  BY <1>1 DEF MappingsKnown, AllMapped, PartialOwned, Buffers
<1>. QED
  BY <1>3, <1>4, <1>5

LEMMA NextInv == ASSUME IInv, [Next]_vars PROVE IInv'
<1>1. CASE StartRefused
  <2>1. ready' = FALSE /\ UNCHANGED <<n_buffers, mapped, queued, streaming,
            partial, index, bytesused, lost, stale>>
    BY <1>1 DEF StartRefused, driverVars, partialVars
  <2>2. TypeOK'
    BY <2>1 DEF IInv, TypeOK
  <2>3. BuffersConserved' /\ MappingsKnown' /\ AllMapped' /\ PartialOwned'
    BY <2>1 DEF IInv, BuffersConserved, MappingsKnown, AllMapped, PartialOwned,
                Buffers
  <2>. QED
    BY <2>2, <2>3 DEF IInv
<1>2. CASE Start
  BY <1>2, StartInv
<1>3. CASE Stop
  BY <1>3, StopInv
<1>4. CASE ReadWriteInternal
  BY <1>4, ReadWriteInv
<1>5. CASE StartPartialWrite
  BY <1>5, StartPartialInv
<1>6. CASE EndPartialWrite
  BY <1>6, EndPartialInv
<1>7. CASE \E size \in Sizes : WritePartialInternal(size)
  BY <1>7, WritePartialInv
<1>8. CASE UNCHANGED vars
  BY <1>8 DEF vars, driverVars, partialVars, IInv, TypeOK, BuffersConserved,
              MappingsKnown, AllMapped, PartialOwned, Buffers
<1>. QED
  BY <1>1, <1>2, <1>3, <1>4, <1>5, <1>6, <1>7, <1>8 DEF Next

\* The inductive invariant holds in every reachable state: the types, the
\* rotation of buffers and who owns the buffer of a partial write.
THEOREM Invariance == Spec => []IInv
BY InitInv, NextInv, PTL DEF Spec

\* The variables keep their types; in particular a partial write never goes
\* beyond the length of its buffer.
THEOREM TypeCorrect == Spec => []TypeOK
<1>1. IInv => TypeOK
  BY DEF IInv
<1>. QED
  BY <1>1, Invariance, PTL

\* No buffer drops out of the rotation between the driver and the process.
THEOREM NoBufferDropped == Spec => []BuffersConserved
<1>1. IInv => BuffersConserved
  BY DEF IInv
<1>. QED
  BY <1>1, Invariance, PTL

\* stop() unmaps everything that is mapped, whatever failed in start().
THEOREM NoMappingLost == Spec => []MappingsKnown
<1>1. IInv => MappingsKnown
  BY DEF IInv
<1>. QED
  BY <1>1, Invariance, PTL

\* Reads and writes touch only buffers that are mapped and not the driver's.
THEOREM OwnBuffersTouched == Spec => []OwnBuffersOnly
<1>1. ASSUME IInv PROVE OwnBuffersOnly
  <2>1. ASSUME MayWritePartial, ~stale PROVE index \in mapped \ queued
    BY <1>1, <2>1 DEF IInv, MayWritePartial, PartialOwned
  <2>2. ASSUME InUse, NEW i \in queued, Dequeued(i) PROVE i \in mapped
    BY <1>1, <2>2, BuffersFacts DEF IInv, TypeOK, AllMapped, InUse, Dequeued
  <2>. QED
    BY <2>1, <2>2 DEF OwnBuffersOnly
<1>. QED
  BY <1>1, Invariance, PTL

\* Every buffer is with the driver, in the partial write or refused by the
\* driver, for any number of buffers and any sequence of calls.
THEOREM RotationKept == Spec => []Rotation
<1>1. TypeOK /\ BuffersConserved => Rotation
  BY DEF Rotation
<1> QED
  BY <1>1, TypeCorrect, NoBufferDropped, PTL

\* The process touches only buffers that are mapped and its own, and stop()
\* knows every mapping.
THEOREM OwnershipKept == Spec => []BuffersOwned
<1>1. OwnBuffersOnly /\ MappingsKnown => BuffersOwned
  BY DEF BuffersOwned
<1> QED
  BY <1>1, OwnBuffersTouched, NoMappingLost, PTL

(***************************************************************************)
(* H26xSource.  What a loop computes is a function that counts up: it      *)
(* exists, and an induction over its arguments says what it is.            *)
(***************************************************************************)

LEMMA LeastOf ==
    ASSUME NEW T, T \subseteq Nat, T # {}
    PROVE  \E x \in T : \A y \in T : x <= y
<1>. DEFINE R == {q \in Nat \X Nat : q[1] < q[2]}
<1>1. R = OpToRel(<, Nat)
  BY Zenon DEF OpToRel
<1>2. IsWellFoundedOn(R, Nat)
  BY <1>1, NatLessThanWellFounded
<1>3. PICK x \in T : \A y \in T : ~(<<y, x>> \in R)
  <2>. HIDE DEF R
  <2>. QED
    BY <1>2, WFMin
<1>4. ASSUME NEW y \in T PROVE x <= y
  <2>1. ~(y < x)
    BY <1>3
  <2>. QED
    BY <2>1
<1>. QED
  BY <1>4

LEMMA CountUp ==
    ASSUME NEW n \in Nat, NEW T, 0 \in T, \A i \in 1 .. n : i - 1 \in T => i \in T
    PROVE  \A i \in 0 .. n : i \in T
<1>. DEFINE Bad == {i \in Nat : i <= n /\ i \notin T}
<1>1. CASE Bad = {}
  BY <1>1
<1>2. CASE Bad # {}
  <2>1. PICK i \in Bad : \A j \in Bad : i <= j
    <3>1. Bad \subseteq Nat
      OBVIOUS
    <3>. HIDE DEF Bad
    <3>. QED
      BY <1>2, <3>1, LeastOf
  <2>2. i # 0 /\ i \in 1 .. n /\ i - 1 \in Nat /\ i - 1 <= n
    BY <2>1
  <2>3. i - 1 \in T
    BY <2>1, <2>2
  <2>. QED
    BY <2>1, <2>2, <2>3
<1>. QED
  BY <1>1, <1>2

Iterates(g, step, n) == \A i \in 1 .. n : g[i] = step[<<i, g[i - 1]>>]

LEMMA Iteration ==
    ASSUME NEW S, NEW n \in Nat, NEW a \in S, NEW step \in [(1 .. n) \X S -> S]
    PROVE  \E g \in [0 .. n -> S] : g[0] = a /\ Iterates(g, step, n)
<1>. DEFINE Fits(g, k) == g[0] = a /\ \A i \in 1 .. k : g[i] = step[<<i, g[i - 1]>>]
            T == {k \in 0 .. n : \E g \in [0 .. k -> S] : Fits(g, k)}
<1>1. 0 \in T
  <2>1. PICK g : g = [i \in 0 .. 0 |-> a]
    OBVIOUS
  <2>2. g \in [0 .. 0 -> S] /\ Fits(g, 0)
    BY <2>1
  <2>. QED
    BY <2>2
<1>2. ASSUME NEW k \in 1 .. n, k - 1 \in T PROVE k \in T
  <2>1. PICK g \in [0 .. k - 1 -> S] : Fits(g, k - 1)
    BY <1>2
  <2>2. PICK w \in S : w = g[k - 1]
    BY <2>1
  <2>3. PICK v \in S : v = step[<<k, w>>]
    OBVIOUS
  <2>4. PICK h : h = [i \in 0 .. k |-> IF i = k THEN v ELSE g[i]]
    OBVIOUS
  <2>5. h \in [0 .. k -> S]
    BY <2>1, <2>3, <2>4
  <2>6. ASSUME NEW i \in 1 .. k PROVE h[i] = step[<<i, h[i - 1]>>]
    <3>1. h[i - 1] = g[i - 1]
      BY <2>4
    <3>2. CASE i = k
      <4>1. h[i] = v /\ h[i - 1] = w
        BY <2>2, <2>4, <3>1, <3>2
      <4>. QED
        BY <2>3, <3>2, <4>1
    <3>3. CASE i # k
      <4>1. i \in 1 .. k - 1 /\ h[i] = g[i]
        BY <2>4, <3>3
      <4>. QED
        BY <2>1, <3>1, <4>1
    <3>. QED
      BY <3>2, <3>3
  <2>7. h[0] = a
    BY <2>1, <2>4
  <2>8. Fits(h, k)
    BY <2>6, <2>7
  <2>. QED
    BY <2>5, <2>8
<1>3. n \in T
  <2>. HIDE DEF T
  <2>. QED
    BY <1>1, <1>2, CountUp
<1>. QED
  BY <1>3 DEF Iterates

Alike(f, g, n) == \A i \in 1 .. n : f[i - 1] = g[i - 1] => f[i] = g[i]

\* Two that start alike and step alike are alike.
LEMMA SameIteration ==
    ASSUME NEW n \in Nat, NEW f, NEW g, f[0] = g[0], Alike(f, g, n)
    PROVE  \A i \in 0 .. n : f[i] = g[i]
<1>. DEFINE T == {i \in Nat : f[i] = g[i]}
<1>1. 0 \in T /\ \A i \in 1 .. n : i - 1 \in T => i \in T
  BY DEF Alike
<1>2. \A i \in 0 .. n : i \in T
  <2>. HIDE DEF T
  <2>. QED
    BY <1>1, CountUp
<1>. QED
  BY <1>2

(***************************************************************************)
(* extractFrame.                                                           *)
(***************************************************************************)

LEMMA FirstOfLeast ==
    ASSUME NEW S, S \subseteq Nat, S # {}, NEW none
    PROVE  FirstOf(S, none) \in S /\ \A l \in S : FirstOf(S, none) <= l
<1>1. \E k \in S : \A l \in S : k <= l
  BY LeastOf
<1>. QED
  BY <1>1, Zenon DEF FirstOf

\* A frame starts in the packet, at the first long marker if there is one.
LEMMA StartFacts ==
    ASSUME NEW pk \in Seq(Unit), NEW i \in 1 .. Len(pk)
    PROVE  /\ StartFrame(pk, i) \in i .. Len(pk)
           /\ pk[i].long \/ LongFrom(pk, i) = {} => StartFrame(pk, i) = i
<1>1. LongFrom(pk, i) \subseteq i .. Len(pk) /\ LongFrom(pk, i) \subseteq Nat
  BY DEF LongFrom
<1>2. CASE LongFrom(pk, i) = {}
  <2>1. StartFrame(pk, i) = i
    BY <1>2, Zenon DEF StartFrame, FirstOf
  <2>. QED
    BY <2>1
<1>3. CASE LongFrom(pk, i) # {}
  <2>1. StartFrame(pk, i) \in LongFrom(pk, i)
        /\ \A l \in LongFrom(pk, i) : StartFrame(pk, i) <= l
    BY <1>1, <1>3, FirstOfLeast, Zenon DEF StartFrame
  <2>2. pk[i].long => i \in LongFrom(pk, i)
    BY DEF LongFrom
  <2>. QED
    BY <1>1, <1>3, <2>1, <2>2
<1>4. i \in i .. Len(pk)
  OBVIOUS
<1>. QED
  BY <1>2, <1>3, <1>4

\* A frame ends behind its start, before the next long marker, and where the
\* one after it starts.
LEMMA EndFacts ==
    ASSUME NEW pk \in Seq(Unit), NEW s \in 1 .. Len(pk)
    PROVE  /\ EndFrame(pk, s) \in s + 1 .. Len(pk) + 1
           /\ \A k \in s + 1 .. EndFrame(pk, s) - 1 : ~pk[k].long
           /\ EndFrame(pk, s) <= Len(pk) =>
                  StartFrame(pk, EndFrame(pk, s)) = EndFrame(pk, s)
<1>. DEFINE e == EndFrame(pk, s)
<1>1. /\ LongFrom(pk, s + 1) \subseteq s + 1 .. Len(pk)
      /\ LongFrom(pk, s + 1) \subseteq Nat
      /\ \A k \in LongFrom(pk, s + 1) : pk[k].long
  BY DEF LongFrom
<1>2. CASE LongFrom(pk, s + 1) = {}
  <2>1. e = s + 1
    BY <1>2, Zenon DEF EndFrame, FirstOf
  <2>2. ASSUME e <= Len(pk) PROVE StartFrame(pk, e) = e
    <3>1. e \in 1 .. Len(pk) /\ LongFrom(pk, e) = {}
      BY <1>2, <2>1, <2>2
    <3>. HIDE DEF e
    <3>. QED
      BY <3>1, StartFacts
  <2>. HIDE DEF e
  <2>3. e \in s + 1 .. Len(pk) + 1 /\ \A k \in s + 1 .. e - 1 : ~pk[k].long
    BY <2>1
  <2>. QED
    BY <2>2, <2>3 DEF e
<1>3. CASE LongFrom(pk, s + 1) # {}
  <2>1. e \in LongFrom(pk, s + 1) /\ \A l \in LongFrom(pk, s + 1) : e <= l
    BY <1>1, <1>3, FirstOfLeast, Zenon DEF EndFrame
  <2>. HIDE DEF e
  <2>2. e \in s + 1 .. Len(pk) /\ pk[e].long
    BY <1>1, <2>1
  <2>3. ASSUME NEW k \in s + 1 .. e - 1, pk[k].long PROVE FALSE
    <3>1. k \in LongFrom(pk, s + 1)
      BY <2>2, <2>3 DEF LongFrom
    <3>. QED
      BY <2>1, <2>2, <3>1
  <2>4. StartFrame(pk, e) = e
    BY <2>2, StartFacts
  <2>. QED
    BY <2>2, <2>3, <2>4 DEF e
<1>. QED
  BY <1>2, <1>3

LEMMA EmptyStart == ASSUME NEW pk, Len(pk) = 0 PROVE StartFrame(pk, 1) = 1
<1>1. LongFrom(pk, 1) = {}
  BY DEF LongFrom
<1>. QED
  BY <1>1, Zenon DEF StartFrame, FirstOf

(***************************************************************************)
(* The loop of splitFrames cuts the packet at points that follow each      *)
(* other, from the first frame to the end.                                 *)
(***************************************************************************)

Piece(pk, m, n) == SubSeq(pk, m, n - 1)

\* What is cut from a packet.
LEMMA PieceFacts ==
    ASSUME NEW pk \in Seq(Unit), NEW m \in 1 .. Len(pk) + 1, NEW n \in m .. Len(pk) + 1
    PROVE  /\ Piece(pk, m, n) \in Seq(Unit)
           /\ Len(Piece(pk, m, n)) = n - m
           /\ \A i \in 1 .. n - m : Piece(pk, m, n)[i] = pk[m + i - 1]
<1>1. \A i \in m .. n - 1 : pk[i] \in Unit
  BY ElementOfSeq
<1>2. /\ SubSeq(pk, m, n - 1) \in Seq(Unit)
      /\ Len(SubSeq(pk, m, n - 1)) = IF m <= n - 1 THEN n - 1 - m + 1 ELSE 0
      /\ \A i \in 1 .. n - 1 - m + 1 : SubSeq(pk, m, n - 1)[i] = pk[m + i - 1]
  <2>1. m \in Int /\ n - 1 \in Int
    OBVIOUS
  <2>. QED
    BY <1>1, <2>1, SubSeqProperties
<1>. QED
  BY <1>2 DEF Piece

LEMMA PieceEmpty == ASSUME NEW pk, NEW m \in Int PROVE Piece(pk, m, m) = <<>>
<1>1. m - 1 \in Int /\ m - 1 < m
  OBVIOUS
<1>. QED
  BY <1>1, SubSeqEmpty DEF Piece

LEMMA PieceJoined ==
    ASSUME NEW pk \in Seq(Unit), NEW m \in 1 .. Len(pk) + 1,
           NEW k \in m .. Len(pk) + 1, NEW n \in k .. Len(pk) + 1
    PROVE  Piece(pk, m, k) \o Piece(pk, k, n) = Piece(pk, m, n)
<1>1. /\ k - 1 \in m - 1 .. Len(pk) /\ n - 1 \in k - 1 .. Len(pk)
      /\ (k - 1) + 1 = k
  OBVIOUS
<1>. QED
  BY <1>1, ConcatAdjacentSubSeq DEF Piece

CutAt(pk, b, i, f) ==
    /\ b[i - 1] < b[i] /\ f = Piece(pk, b[i - 1], b[i])
    /\ \A k \in b[i - 1] + 1 .. b[i] - 1 : ~pk[k].long

\* The frames fs are the pieces between the points b.
Cut(pk, fs, b) ==
    /\ fs \in Seq(Seq(Unit)) /\ b \in [0 .. Len(fs) -> 1 .. Len(pk) + 1]
    /\ b[0] = StartFrame(pk, 1)
    /\ \A i \in 1 .. Len(fs) : CutAt(pk, b, i, fs[i])

Loops(pk) == [at : 1 .. Len(pk) + 1, found : Seq(Seq(Unit))]

NextFrame(pk, l) ==
    [at    |-> EndFrame(pk, StartFrame(pk, l.at)),
     found |-> Append(l.found, Piece(pk, StartFrame(pk, l.at),
                                         EndFrame(pk, StartFrame(pk, l.at))))]

FrameLoop(pk, l) == IF l.at > Len(pk) THEN l ELSE NextFrame(pk, l)

LEMMA NextFrameType ==
    ASSUME NEW pk \in Seq(Unit), NEW l \in Loops(pk)
    PROVE  FrameLoop(pk, l) \in Loops(pk)
<1>1. CASE l.at > Len(pk)
  BY <1>1 DEF FrameLoop
<1>2. CASE ~(l.at > Len(pk))
  <2>1. l.at \in 1 .. Len(pk) /\ l.found \in Seq(Seq(Unit))
    BY <1>2 DEF Loops
  <2>2. PICK s \in 1 .. Len(pk) : s = StartFrame(pk, l.at)
    BY <2>1, StartFacts
  <2>3. PICK e \in s + 1 .. Len(pk) + 1 : e = EndFrame(pk, s)
    BY EndFacts, Zenon
  <2>4. Piece(pk, s, e) \in Seq(Unit) /\ e \in 1 .. Len(pk) + 1
    <3>1. s \in 1 .. Len(pk) + 1 /\ e \in s .. Len(pk) + 1 /\ e \in 1 .. Len(pk) + 1
      BY <2>3
    <3>. QED
      BY <3>1, PieceFacts
  <2>5. Append(l.found, Piece(pk, s, e)) \in Seq(Seq(Unit))
    BY <2>1, <2>4, AppendProperties
  <2>6. NextFrame(pk, l) \in Loops(pk)
    BY <2>2, <2>3, <2>4, <2>5 DEF NextFrame, Loops
  <2>. QED
    BY <1>2, <2>6 DEF FrameLoop
<1>. QED
  BY <1>1, <1>2

\* The loop is a function, one step of it after the other.
LEMMA FramesLoop ==
    ASSUME NEW pk \in Seq(Unit)
    PROVE  \E loop \in [0 .. Len(pk) -> Loops(pk)] :
              /\ loop[0] = [at |-> 1, found |-> <<>>]
              /\ \A n \in 1 .. Len(pk) : loop[n] = FrameLoop(pk, loop[n - 1])
              /\ Frames(pk) = loop[Len(pk)].found
<1>. DEFINE N == Len(pk)
            a == [at |-> 1, found |-> <<>>]
            Is(f) == f = [n \in 0 .. N |->
                            IF n = 0 THEN a ELSE FrameLoop(pk, f[n - 1])]
            step == [x \in (1 .. N) \X Loops(pk) |-> FrameLoop(pk, x[2])]
<1>1. N \in Nat /\ a \in Loops(pk)
  BY EmptySeq DEF Loops
<1>2. step \in [(1 .. N) \X Loops(pk) -> Loops(pk)]
  BY NextFrameType
<1>3. \E f : Is(f)
  <2>1. PICK g \in [0 .. N -> Loops(pk)] : g[0] = a /\ Iterates(g, step, N)
    <3>. HIDE DEF N, a, step
    <3>. QED
      BY <1>1, <1>2, Iteration
  <2>2. ASSUME NEW n \in 1 .. N PROVE g[n] = FrameLoop(pk, g[n - 1])
    <3>1. g[n - 1] \in Loops(pk)
      BY <2>1
    <3>2. g[n] = step[<<n, g[n - 1]>>]
      BY <2>1 DEF Iterates
    <3>. QED
      BY <3>1, <3>2
  <2>3. \A n \in 0 .. N : g[n] = IF n = 0 THEN a ELSE FrameLoop(pk, g[n - 1])
    BY <2>1, <2>2
  <2>4. Is(g)
    <3>. HIDE DEF a
    <3>. QED
      BY <2>1, <2>3
  <2>. QED
    BY <2>4
<1>4. PICK loop : loop = CHOOSE f : Is(f)
  OBVIOUS
<1>5. Is(loop)
  <2>. HIDE DEF Is
  <2>. QED
    BY <1>3, <1>4
<1>6. Frames(pk) = loop[N].found
  BY <1>4 DEF Frames, FrameLoop, NextFrame, Piece
<1>7. loop[0] = a /\ \A n \in 1 .. N : loop[n] = FrameLoop(pk, loop[n - 1])
  <2>. HIDE DEF a
  <2>. QED
    BY <1>1, <1>5
<1>8. \A n \in 0 .. N : loop[n] \in Loops(pk)
  <2>. DEFINE T == {n \in 0 .. N : loop[n] \in Loops(pk)}
  <2>1. 0 \in T
    BY <1>1, <1>7
  <2>2. ASSUME NEW n \in 1 .. N, n - 1 \in T PROVE n \in T
    BY <1>7, <2>2, NextFrameType
  <2>3. \A n \in 0 .. N : n \in T
    <3>. HIDE DEF T, N
    <3>. QED
      BY <1>1, <2>1, <2>2, CountUp
  <2>. QED
    BY <2>3
<1>9. loop \in [0 .. N -> Loops(pk)]
  <2>. HIDE DEF a
  <2>. QED
    BY <1>5, <1>8
<1>. QED
  BY <1>6, <1>7, <1>9

\* One more frame.
LEMMA CutMore ==
    ASSUME NEW pk \in Seq(Unit), NEW fs, NEW b, Cut(pk, fs, b),
           NEW s \in 1 .. Len(pk), b[Len(fs)] = s
    PROVE  \E c : /\ Cut(pk, Append(fs, Piece(pk, s, EndFrame(pk, s))), c)
                  /\ c[Len(fs) + 1] = EndFrame(pk, s)
<1>1. PICK e \in s + 1 .. Len(pk) + 1 :
         e = EndFrame(pk, s) /\ \A k \in s + 1 .. e - 1 : ~pk[k].long
  BY EndFacts, Zenon
<1>2. PICK f : f = Piece(pk, s, e)
  OBVIOUS
<1>3. f \in Seq(Unit)
  <2>1. s \in 1 .. Len(pk) + 1 /\ e \in s .. Len(pk) + 1
    BY <1>1
  <2>. QED
    BY <1>2, <2>1, PieceFacts
<1>4. PICK n \in Nat : n = Len(fs)
  BY LenProperties DEF Cut
<1>5. /\ Append(fs, f) \in Seq(Seq(Unit)) /\ Len(Append(fs, f)) = n + 1
      /\ \A i \in 1 .. n : Append(fs, f)[i] = fs[i]
      /\ Append(fs, f)[n + 1] = f
  BY <1>3, <1>4, AppendProperties DEF Cut
<1>6. PICK c : c = [i \in 0 .. n + 1 |-> IF i = n + 1 THEN e ELSE b[i]]
  OBVIOUS
<1>7. c \in [0 .. n + 1 -> 1 .. Len(pk) + 1]
  <2>1. b \in [0 .. n -> 1 .. Len(pk) + 1]
    BY <1>4 DEF Cut
  <2>2. e \in 1 .. Len(pk) + 1
    BY <1>1
  <2>. QED
    BY <1>6, <2>1, <2>2
<1>8. c[0] = b[0] /\ c[n] = s /\ c[n + 1] = e /\ \A i \in 0 .. n : c[i] = b[i]
  BY <1>4, <1>6
<1>9. ASSUME NEW i \in 1 .. n PROVE CutAt(pk, c, i, Append(fs, f)[i])
  <2>1. CutAt(pk, b, i, fs[i])
    BY <1>4, Zenon DEF Cut
  <2>2. c[i] = b[i] /\ c[i - 1] = b[i - 1] /\ Append(fs, f)[i] = fs[i]
    <3>1. i \in 0 .. n /\ i - 1 \in 0 .. n
      OBVIOUS
    <3>. QED
      BY <1>5, <1>8, <3>1
  <2>. QED
    BY <2>1, <2>2 DEF CutAt
<1>10. CutAt(pk, c, n + 1, f)
  <2>1. c[(n + 1) - 1] = s
    BY <1>8
  <2>. QED
    BY <1>1, <1>2, <1>8, <2>1 DEF CutAt
<1>11. \A i \in 1 .. n + 1 : CutAt(pk, c, i, Append(fs, f)[i])
  BY <1>5, <1>9, <1>10
<1>12. Cut(pk, Append(fs, f), c)
  BY <1>5, <1>7, <1>8, <1>11 DEF Cut
<1>. QED
  BY <1>1, <1>2, <1>4, <1>8, <1>12

\* Where the loop stands when its frames are cut at b.
Reached(pk, l, b) ==
    /\ Cut(pk, l.found, b)
    /\ l.at <= Len(pk) => StartFrame(pk, l.at) = b[Len(l.found)]
    /\ l.at = Len(pk) + 1 => b[Len(l.found)] = Len(pk) + 1

LEMMA ReachedFirst ==
    ASSUME NEW pk \in Seq(Unit), NEW l, l = [at |-> 1, found |-> <<>>]
    PROVE  \E b : Reached(pk, l, b)
<1>1. StartFrame(pk, 1) \in 1 .. Len(pk) + 1
      /\ (Len(pk) = 0 => StartFrame(pk, 1) = 1)
  <2>1. CASE Len(pk) = 0
    BY <2>1, EmptyStart
  <2>2. CASE Len(pk) # 0
    <3>1. 1 \in 1 .. Len(pk)
      BY <2>2
    <3>. QED
      BY <2>2, <3>1, StartFacts
  <2>. QED
    BY <2>1, <2>2
<1>2. PICK b : b = [i \in 0 .. 0 |-> StartFrame(pk, 1)]
  OBVIOUS
<1>3. l.at = 1 /\ l.found = <<>> /\ Len(l.found) = 0 /\ l.found \in Seq(Seq(Unit))
  BY EmptySeq
<1>4. b \in [0 .. 0 -> 1 .. Len(pk) + 1] /\ b[0] = StartFrame(pk, 1)
  BY <1>1, <1>2
<1>5. Cut(pk, l.found, b)
  BY <1>3, <1>4 DEF Cut
<1>. QED
  BY <1>1, <1>3, <1>4, <1>5 DEF Reached

LEMMA ReachedNext ==
    ASSUME NEW pk \in Seq(Unit), NEW l \in Loops(pk), NEW b, Reached(pk, l, b),
           l.at <= Len(pk)
    PROVE  /\ FrameLoop(pk, l).at > l.at
           /\ \E c : Reached(pk, FrameLoop(pk, l), c)
<1>1. l.at \in 1 .. Len(pk) /\ l.found \in Seq(Seq(Unit))
  BY DEF Loops
<1>2. PICK s \in l.at .. Len(pk) : s = StartFrame(pk, l.at)
  BY <1>1, StartFacts
<1>3. s \in 1 .. Len(pk) /\ b[Len(l.found)] = s
  BY <1>1, <1>2 DEF Reached
<1>4. PICK e \in s + 1 .. Len(pk) + 1 :
         /\ e = EndFrame(pk, s)
         /\ e <= Len(pk) => StartFrame(pk, e) = e
  BY <1>3, EndFacts, Zenon
<1>5. PICK c : /\ Cut(pk, Append(l.found, Piece(pk, s, e)), c)
               /\ c[Len(l.found) + 1] = e
  <2>1. Cut(pk, l.found, b)
    BY DEF Reached
  <2>. QED
    BY <1>3, <1>4, <2>1, CutMore
<1>6. Len(Append(l.found, Piece(pk, s, e))) = Len(l.found) + 1
  <2>1. s \in 1 .. Len(pk) + 1 /\ e \in s .. Len(pk) + 1
    BY <1>3, <1>4
  <2>2. Piece(pk, s, e) \in Seq(Unit)
    BY <2>1, PieceFacts
  <2>. QED
    BY <1>1, <2>2, AppendProperties
<1>7. FrameLoop(pk, l) = [at |-> e, found |-> Append(l.found, Piece(pk, s, e))]
  <2>1. ~(l.at > Len(pk))
    BY <1>1
  <2>. QED
    BY <1>2, <1>4, <2>1, Zenon DEF FrameLoop, NextFrame
<1>8. Reached(pk, FrameLoop(pk, l), c)
  BY <1>4, <1>5, <1>6, <1>7 DEF Reached
<1>9. e > l.at
  BY <1>1, <1>2, <1>4
<1>. QED
  BY <1>7, <1>8, <1>9

\* All frames of a packet: nothing behind the first of them is left over.
LEMMA FramesCut ==
    ASSUME NEW pk \in Seq(Unit)
    PROVE  \E b : Cut(pk, Frames(pk), b) /\ b[Len(Frames(pk))] = Len(pk) + 1
<1>1. PICK loop \in [0 .. Len(pk) -> Loops(pk)] :
         /\ loop[0] = [at |-> 1, found |-> <<>>]
         /\ \A n \in 1 .. Len(pk) : loop[n] = FrameLoop(pk, loop[n - 1])
         /\ Frames(pk) = loop[Len(pk)].found
  BY FramesLoop
<1>2. PICK N \in Nat : N = Len(pk)
  BY LenProperties
<1>. DEFINE T == {n \in 0 .. N : /\ loop[n].at >= n + 1 \/ loop[n].at = N + 1
                                 /\ \E b : Reached(pk, loop[n], b)}
<1>3. 0 \in T
  <2>1. \E b : Reached(pk, loop[0], b)
    BY <1>1, ReachedFirst
  <2>2. loop[0].at = 1 /\ 0 \in 0 .. N
    BY <1>1
  <2>. QED
    BY <2>1, <2>2
<1>4. ASSUME NEW n \in 1 .. N, n - 1 \in T PROVE n \in T
  <2>1. PICK b : Reached(pk, loop[n - 1], b)
    BY <1>4
  <2>2. /\ loop[n - 1] \in Loops(pk) /\ loop[n] \in Loops(pk)
        /\ loop[n] = FrameLoop(pk, loop[n - 1])
    BY <1>1, <1>2
  <2>3. loop[n - 1].at \in 1 .. N + 1 /\ loop[n].at \in 1 .. N + 1
    BY <1>2, <2>2 DEF Loops
  <2>4. CASE loop[n - 1].at <= N
    <3>1. loop[n].at > loop[n - 1].at /\ \E c : Reached(pk, loop[n], c)
      BY <1>2, <2>1, <2>2, <2>4, ReachedNext
    <3>2. loop[n - 1].at >= n
      BY <1>4, <2>3, <2>4
    <3>3. loop[n].at >= n + 1
      BY <2>3, <3>1, <3>2
    <3>. QED
      BY <3>1, <3>3
  <2>5. CASE loop[n - 1].at = N + 1
    <3>1. loop[n] = loop[n - 1]
      BY <1>2, <2>2, <2>5 DEF FrameLoop
    <3>. QED
      BY <2>1, <2>5, <3>1
  <2>. QED
    BY <2>3, <2>4, <2>5
<1>5. N \in T
  <2>1. \A n \in 0 .. N : n \in T
    <3>. HIDE DEF T
    <3>. QED
      BY <1>3, <1>4, CountUp
  <2>2. N \in 0 .. N
    OBVIOUS
  <2>. QED
    BY <2>1, <2>2
<1>6. PICK b : Reached(pk, loop[N], b)
  BY <1>5
<1>7. loop[N].at = N + 1
  <2>1. loop[N].at \in 1 .. N + 1
    BY <1>1, <1>2 DEF Loops
  <2>. QED
    BY <1>5, <2>1
<1>. QED
  BY <1>1, <1>2, <1>6, <1>7 DEF Reached

\* A frame from a packet has a unit, and a long marker nowhere but in front.
Uncut(f) == f # <<>> /\ \A k \in 2 .. Len(f) : ~f[k].long

LEMMA CutUncut ==
    ASSUME NEW pk \in Seq(Unit), NEW fs, NEW b, Cut(pk, fs, b), NEW i \in 1 .. Len(fs)
    PROVE  fs[i] \in Seq(Unit) /\ Uncut(fs[i])
<1>1. CutAt(pk, b, i, fs[i])
  BY DEF Cut
<1>2. PICK N \in Nat : N = Len(fs)
  BY LenProperties DEF Cut
<1>3. /\ i - 1 \in 0 .. N /\ i \in 0 .. N
      /\ b \in [0 .. N -> 1 .. Len(pk) + 1]
  BY <1>2 DEF Cut
<1>4. PICK m \in 1 .. Len(pk) + 1, n \in 1 .. Len(pk) + 1 : m = b[i - 1] /\ n = b[i]
  BY <1>3
<1>5. m < n /\ fs[i] = Piece(pk, m, n) /\ \A k \in m + 1 .. n - 1 : ~pk[k].long
  BY <1>1, <1>4 DEF CutAt
<1>6. n \in m .. Len(pk) + 1
  BY <1>5
<1>7. /\ fs[i] \in Seq(Unit) /\ Len(fs[i]) = n - m
      /\ \A k \in 1 .. n - m : fs[i][k] = pk[m + k - 1]
  BY <1>5, <1>6, PieceFacts
<1>8. fs[i] # <<>>
  BY <1>5, <1>7, EmptySeq
<1>9. ASSUME NEW k \in 2 .. Len(fs[i]) PROVE ~fs[i][k].long
  <2>1. k \in 1 .. n - m /\ m + k - 1 \in m + 1 .. n - 1
    BY <1>5, <1>7
  <2>2. fs[i][k] = pk[m + k - 1]
    BY <1>7, <2>1
  <2>. QED
    BY <1>5, <2>1, <2>2
<1>. QED
  BY <1>7, <1>8, <1>9 DEF Uncut

(***************************************************************************)
(* Joined goes through a list frame by frame.                              *)
(***************************************************************************)

OwnUnits(f) == IF Own(f) THEN f.content ELSE <<>>

With(units, f) == units \o OwnUnits(f)

LEMMA OwnUnitsType == ASSUME NEW f \in Frame PROVE OwnUnits(f) \in Seq(Unit)
BY EmptySeq DEF OwnUnits, Frame

LEMMA WithType ==
    ASSUME NEW units \in Seq(Unit), NEW f \in Frame
    PROVE  With(units, f) \in Seq(Unit)
<1>1. OwnUnits(f) \in Seq(Unit)
  BY OwnUnitsType
<1>. QED
  BY <1>1, ConcatProperties DEF With

\* Units that stand before all the others.
LEMMA WithConcat ==
    ASSUME NEW us \in Seq(Unit), NEW vs \in Seq(Unit), NEW f \in Frame
    PROVE  With(us \o vs, f) = us \o With(vs, f)
<1>1. OwnUnits(f) \in Seq(Unit)
  BY OwnUnitsType
<1>. QED
  BY <1>1, ConcatAssociative DEF With

LEMMA JoinedLoop ==
    ASSUME NEW fs \in Seq(Frame)
    PROVE  \E upto \in [0 .. Len(fs) -> Seq(Unit)] :
              /\ upto[0] = <<>>
              /\ \A n \in 1 .. Len(fs) : upto[n] = With(upto[n - 1], fs[n])
              /\ Joined(fs) = upto[Len(fs)]
<1>. DEFINE N == Len(fs)
            a == <<>>
            Is(f) == f = [n \in 0 .. N |->
                            IF n = 0 THEN a ELSE With(f[n - 1], fs[n])]
            step == [x \in (1 .. N) \X Seq(Unit) |-> With(x[2], fs[x[1]])]
<1>1. N \in Nat /\ a \in Seq(Unit)
  BY EmptySeq, LenProperties
<1>2. ASSUME NEW n \in 1 .. N, NEW s \in Seq(Unit)
      PROVE  With(s, fs[n]) \in Seq(Unit)
  <2>1. fs[n] \in Frame
    BY ElementOfSeq
  <2>. QED
    BY <2>1, WithType
<1>3. step \in [(1 .. N) \X Seq(Unit) -> Seq(Unit)]
  BY <1>2
<1>4. \E f : Is(f)
  <2>1. PICK g \in [0 .. N -> Seq(Unit)] : g[0] = a /\ Iterates(g, step, N)
    <3>. HIDE DEF N, a, step
    <3>. QED
      BY <1>1, <1>3, Iteration
  <2>2. ASSUME NEW n \in 1 .. N PROVE g[n] = With(g[n - 1], fs[n])
    <3>1. g[n - 1] \in Seq(Unit)
      BY <2>1
    <3>2. g[n] = step[<<n, g[n - 1]>>]
      BY <2>1 DEF Iterates
    <3>. QED
      BY <3>1, <3>2
  <2>3. Is(g)
    <3>. HIDE DEF a
    <3>1. \A n \in 0 .. N : g[n] = IF n = 0 THEN a ELSE With(g[n - 1], fs[n])
      BY <2>1, <2>2
    <3>. QED
      BY <2>1, <3>1
  <2>. QED
    BY <2>3
<1>5. PICK upto : upto = CHOOSE f : Is(f)
  OBVIOUS
<1>6. Is(upto)
  <2>. HIDE DEF Is
  <2>. QED
    BY <1>4, <1>5
<1>7. Joined(fs) = upto[N]
  BY <1>5 DEF Joined, With, OwnUnits
<1>8. upto[0] = a /\ \A n \in 1 .. N : upto[n] = With(upto[n - 1], fs[n])
  <2>. HIDE DEF a
  <2>. QED
    BY <1>1, <1>6
<1>9. \A n \in 0 .. N : upto[n] \in Seq(Unit)
  <2>. DEFINE T == {n \in 0 .. N : upto[n] \in Seq(Unit)}
  <2>. HIDE DEF a
  <2>1. 0 \in T
    BY <1>1, <1>8
  <2>2. ASSUME NEW n \in 1 .. N, n - 1 \in T PROVE n \in T
    BY <1>2, <1>8, <2>2
  <2>3. \A n \in 0 .. N : n \in T
    <3>. HIDE DEF T, N
    <3>. QED
      BY <1>1, <2>1, <2>2, CountUp
  <2>. QED
    BY <2>3
<1>10. upto \in [0 .. N -> Seq(Unit)]
  <2>. HIDE DEF a
  <2>. QED
    BY <1>6, <1>9
<1>. QED
  BY <1>7, <1>8, <1>10

LEMMA JoinedConcat ==
    ASSUME NEW fs \in Seq(Frame), NEW gs \in Seq(Frame)
    PROVE  /\ Joined(fs \o gs) = Joined(fs) \o Joined(gs)
           /\ Joined(fs) \in Seq(Unit)
<1>1. PICK m \in Nat, n \in Nat : m = Len(fs) /\ n = Len(gs)
  BY LenProperties
<1>2. PICK hs \in Seq(Frame) : hs = fs \o gs
  BY ConcatProperties
<1>3. /\ Len(hs) = m + n
      /\ \A i \in 1 .. m : hs[i] = fs[i]
      /\ \A i \in 1 .. n : hs[m + i] = gs[i]
  <2>1. /\ Len(hs) = m + n
        /\ \A i \in 1 .. m + n : hs[i] = IF i <= m THEN fs[i] ELSE gs[i - m]
    BY <1>1, <1>2, ConcatProperties
  <2>2. ASSUME NEW i \in 1 .. n PROVE hs[m + i] = gs[i]
    <3>1. m + i \in 1 .. m + n /\ ~(m + i <= m) /\ (m + i) - m = i
      OBVIOUS
    <3>. QED
      BY <2>1, <3>1
  <2>. QED
    BY <2>1, <2>2
<1>4. PICK f \in [0 .. m -> Seq(Unit)] :
         /\ f[0] = <<>> /\ \A i \in 1 .. m : f[i] = With(f[i - 1], fs[i])
         /\ Joined(fs) = f[m]
  BY <1>1, JoinedLoop
<1>5. PICK g \in [0 .. n -> Seq(Unit)] :
         /\ g[0] = <<>> /\ \A i \in 1 .. n : g[i] = With(g[i - 1], gs[i])
         /\ Joined(gs) = g[n]
  BY <1>1, JoinedLoop
<1>6. PICK h \in [0 .. m + n -> Seq(Unit)] :
         /\ h[0] = <<>> /\ \A i \in 1 .. m + n : h[i] = With(h[i - 1], hs[i])
         /\ Joined(hs) = h[m + n]
  BY <1>3, JoinedLoop
<1>7. h[m] = f[m]
  <2>. DEFINE T == {i \in Nat : h[i] = f[i]}
  <2>1. 0 \in T
    BY <1>4, <1>6
  <2>2. ASSUME NEW i \in 1 .. m, i - 1 \in T PROVE i \in T
    <3>1. h[i] = With(h[i - 1], hs[i])
      BY <1>6
    <3>2. f[i] = With(f[i - 1], fs[i])
      BY <1>4
    <3>. QED
      BY <1>3, <2>2, <3>1, <3>2
  <2>3. \A i \in 0 .. m : i \in T
    <3>. HIDE DEF T
    <3>. QED
      BY <2>1, <2>2, CountUp
  <2>. QED
    BY <2>3
<1>8. h[m + n] = f[m] \o g[n]
  <2>. DEFINE Behind(units) == f[m] \o units
              T == {i \in Nat : h[m + i] = Behind(g[i])}
  <2>1. 0 \in T
    <3>1. f[m] \in Seq(Unit)
      BY <1>4
    <3>2. Behind(g[0]) = h[m]
      BY <1>5, <1>7, <3>1, ConcatEmptySeq
    <3>. HIDE DEF Behind
    <3>. QED
      BY <3>2
  <2>2. ASSUME NEW i \in 1 .. n, i - 1 \in T PROVE i \in T
    <3>1. h[m + i] = With(h[m + (i - 1)], gs[i])
      <4>1. m + i \in 1 .. m + n /\ (m + i) - 1 = m + (i - 1)
        OBVIOUS
      <4>2. h[m + i] = With(h[(m + i) - 1], hs[m + i])
        BY <1>6, <4>1
      <4>. QED
        BY <1>3, <4>1, <4>2
    <3>2. g[i] = With(g[i - 1], gs[i])
      BY <1>5
    <3>3. With(Behind(g[i - 1]), gs[i]) = Behind(With(g[i - 1], gs[i]))
      <4>1. i - 1 \in 0 .. n /\ m \in 0 .. m
        OBVIOUS
      <4>2. g[i - 1] \in Seq(Unit) /\ f[m] \in Seq(Unit)
        BY <1>4, <1>5, <4>1
      <4>3. gs[i] \in Frame
        BY <1>1, ElementOfSeq
      <4>. QED
        BY <4>2, <4>3, WithConcat
    <3>. HIDE DEF Behind
    <3>4. h[m + (i - 1)] = Behind(g[i - 1])
      BY <2>2
    <3>. QED
      BY <3>1, <3>2, <3>3, <3>4
  <2>3. \A i \in 0 .. n : i \in T
    <3>. HIDE DEF T
    <3>. QED
      BY <2>1, <2>2, CountUp
  <2>4. n \in T
    <3>1. n \in 0 .. n
      OBVIOUS
    <3>. QED
      BY <2>3, <3>1
  <2>. QED
    BY <2>4, Zenon
<1>. QED
  BY <1>2, <1>4, <1>5, <1>6, <1>8

LEMMA JoinedNone ==
    ASSUME NEW fs \in Seq(Frame), \A i \in 1 .. Len(fs) : ~Own(fs[i])
    PROVE  Joined(fs) = <<>>
<1>1. PICK n \in Nat : n = Len(fs)
  BY LenProperties
<1>2. PICK g \in [0 .. n -> Seq(Unit)] :
         /\ g[0] = <<>> /\ \A i \in 1 .. n : g[i] = With(g[i - 1], fs[i])
         /\ Joined(fs) = g[n]
  BY <1>1, JoinedLoop
<1>. DEFINE T == {i \in Nat : g[i] = <<>>}
<1>3. 0 \in T
  BY <1>2
<1>4. ASSUME NEW i \in 1 .. n, i - 1 \in T PROVE i \in T
  <2>1. OwnUnits(fs[i]) = <<>>
    BY <1>1 DEF OwnUnits
  <2>2. g[i] = <<>> \o <<>>
    BY <1>2, <1>4, <2>1 DEF With
  <2>3. <<>> \o <<>> = <<>>
    BY EmptySeq, ConcatEmptySeq
  <2>. QED
    BY <2>2, <2>3
<1>5. \A i \in 0 .. n : i \in T
  <2>. HIDE DEF T
  <2>. QED
    BY <1>3, <1>4, CountUp
<1>. QED
  BY <1>2, <1>5

LEMMA JoinedOne ==
    ASSUME NEW f \in Frame, Own(f)
    PROVE  Joined(<<f>>) = f.content
<1>1. <<f>> \in Seq(Frame) /\ Len(<<f>>) = 1 /\ <<f>>[1] = f
  OBVIOUS
<1>2. PICK g \in [0 .. 1 -> Seq(Unit)] :
         /\ g[0] = <<>> /\ \A i \in 1 .. 1 : g[i] = With(g[i - 1], <<f>>[i])
         /\ Joined(<<f>>) = g[1]
  BY <1>1, JoinedLoop
<1>3. g[1] = <<>> \o f.content
  <2>1. g[1] = With(g[0], <<f>>[1])
    BY <1>2
  <2>. QED
    BY <1>1, <1>2, <2>1, Zenon DEF With, OwnUnits
<1>4. f.content \in Seq(Unit)
  BY DEF Frame
<1>. QED
  BY <1>2, <1>3, <1>4, ConcatEmptySeq

(***************************************************************************)
(* splitFrames: the strings of the parameter sets, and what is listed for  *)
(* a frame.                                                                *)
(***************************************************************************)

\* The strings of the parameter sets.
Configs == [Range(params) -> [content : Seq(Unit), mem : Nat]]

LEMMA ParamsFacts ==
    ASSUME params \in Codecs
    PROVE  /\ Len(params) \in Nat /\ Range(params) \subseteq {"vps", "sps", "pps"}
           /\ Range(params) \subseteq Types
           /\ \A i \in 1 .. Len(params) : params[i] \in Range(params)
<1>1. params \in Seq({"vps", "sps", "pps"})
  BY SplitAssumption
<1>2. /\ Len(params) \in Nat /\ DOMAIN params = 1 .. Len(params)
      /\ params \in [1 .. Len(params) -> {"vps", "sps", "pps"}]
  BY <1>1, LenProperties
<1>. QED
  BY <1>2 DEF Range, Types

\* A frame changes the string of its own type and no other.
LEMMA AssignFacts ==
    ASSUME NEW cfg \in Configs, NEW f \in Seq(Unit), NEW moving
    PROVE  /\ Assign(cfg, f, moving) \in Configs
           /\ \A p \in Range(params) :
                 Assign(cfg, f, moving)[p].content =
                     IF p = f[1].type THEN f ELSE cfg[p].content
<1>1. DOMAIN cfg = Range(params)
  BY DEF Configs
<1>2. CASE f[1].type \notin DOMAIN cfg
  BY <1>1, <1>2, Zenon DEF Assign
<1>3. CASE f[1].type \in DOMAIN cfg
  <2>1. PICK q \in Range(params) : q = f[1].type
    BY <1>1, <1>3
  <2>2. PICK r : r = [content |-> f,
                      mem     |-> IF f # cfg[q].content /\ q \in moving
                                  THEN cfg[q].mem + 1 ELSE cfg[q].mem]
    OBVIOUS
  <2>3. r \in [content : Seq(Unit), mem : Nat] /\ r.content = f
    <3>1. cfg[q].mem \in Nat /\ cfg[q].mem + 1 \in Nat
      BY DEF Configs
    <3>. QED
      BY <2>2, <3>1
  <2>4. Assign(cfg, f, moving) = [cfg EXCEPT ![q] = r]
    BY <1>3, <2>1, <2>2, Zenon DEF Assign
  <2>. QED
    BY <2>1, <2>3, <2>4 DEF Configs
<1>. QED
  BY <1>2, <1>3

OwnFrame(f) == [param |-> "none", mem |-> 0, content |-> f]

LEMMA OwnFrameFacts ==
    ASSUME NEW f \in Seq(Unit)
    PROVE  OwnFrame(f) \in Frame /\ Own(OwnFrame(f)) /\ OwnFrame(f).content = f
BY DEF OwnFrame, Frame, Own

LEMMA ConfigFramesFacts ==
    ASSUME params \in Codecs, NEW cfg \in Configs
    PROVE  /\ ConfigFrames(cfg) \in Seq(Frame)
           /\ Len(ConfigFrames(cfg)) = Len(params)
           /\ \A i \in 1 .. Len(params) :
                 /\ ~Own(ConfigFrames(cfg)[i])
                 /\ ConfigFrames(cfg)[i].param = params[i]
                 /\ ConfigFrames(cfg)[i].content = cfg[params[i]].content
<1>1. PICK n \in Nat : n = Len(params)
  BY ParamsFacts
<1>2. ASSUME NEW i \in 1 .. n
      PROVE  /\ params[i] \in Types
             /\ cfg[params[i]] \in [content : Seq(Unit), mem : Nat]
  BY <1>1, ParamsFacts DEF Configs
<1>3. PICK g : g = [i \in 1 .. n |-> [param   |-> params[i],
                                      mem     |-> cfg[params[i]].mem,
                                      content |-> cfg[params[i]].content]]
  OBVIOUS
<1>4. ConfigFrames(cfg) = g
  BY <1>1, <1>3, Zenon DEF ConfigFrames
<1>5. ASSUME NEW i \in 1 .. n
      PROVE  /\ g[i] \in Frame /\ g[i].param = params[i]
             /\ g[i].content = cfg[params[i]].content
             /\ ~Own(g[i])
  <2>1. g[i] = [param |-> params[i], mem |-> cfg[params[i]].mem,
                content |-> cfg[params[i]].content]
    BY <1>3
  <2>. QED
    BY <1>2, <2>1 DEF Frame, Own, Types
<1>6. g \in [1 .. n -> Frame]
  BY <1>3, <1>5
<1>7. g \in Seq(Frame) /\ Len(g) = n
  BY <1>6
<1>. QED
  BY <1>1, <1>4, <1>5, <1>7

LEMMA RepeatedFacts ==
    ASSUME params \in Codecs, NEW cfg \in Configs, NEW f
    PROVE  /\ Repeated(cfg, f) \in Seq(Frame)
           /\ \A i \in 1 .. Len(Repeated(cfg, f)) : ~Own(Repeated(cfg, f)[i])
<1>1. CASE Repeated(cfg, f) = <<>>
  BY <1>1, EmptySeq
<1>2. CASE Repeated(cfg, f) = ConfigFrames(cfg)
  BY <1>2, ConfigFramesFacts
<1>. QED
  BY <1>1, <1>2, Zenon DEF Repeated

LEMMA ListedFacts ==
    ASSUME params \in Codecs, NEW cfg \in Configs, NEW f \in Seq(Unit)
    PROVE  /\ Listed(cfg, f) = Repeated(cfg, f) \o <<OwnFrame(f)>>
           /\ Listed(cfg, f) \in Seq(Frame)
           /\ Joined(Listed(cfg, f)) = f
<1>1. PICK h \in Seq(Frame) :
         h = Repeated(cfg, f) /\ \A i \in 1 .. Len(h) : ~Own(h[i])
  BY RepeatedFacts
<1>2. Listed(cfg, f) = h \o <<OwnFrame(f)>>
  BY <1>1, Zenon DEF Listed, PacketFrame, OwnFrame
<1>3. PICK s \in Seq(Frame) : s = <<OwnFrame(f)>> /\ Joined(s) = f
  <2>1. <<OwnFrame(f)>> \in Seq(Frame)
    BY OwnFrameFacts
  <2>. QED
    BY <2>1, OwnFrameFacts, JoinedOne
<1>4. Joined(h \o s) = <<>> \o f /\ h \o s \in Seq(Frame)
  <2>1. Joined(h \o s) = Joined(h) \o Joined(s)
    BY JoinedConcat, Zenon
  <2>2. Joined(h) = <<>>
    BY <1>1, JoinedNone
  <2>3. h \o s \in Seq(Frame)
    BY ConcatProperties, Zenon
  <2>. QED
    BY <1>3, <2>1, <2>2, <2>3, Zenon
<1>5. <<>> \o f = f
  BY ConcatEmptySeq
<1>. QED
  BY <1>1, <1>2, <1>3, <1>4, <1>5

(***************************************************************************)
(* The loop of splitFrames: its strings, and the list it has made.         *)
(***************************************************************************)

Splits == [config : Configs, list : Seq(Frame)]

SplitStep(f, moving, l) ==
    [config |-> Assign(l.config, f, moving),
     list   |-> l.list \o Listed(Assign(l.config, f, moving), f)]

LEMMA SplitStepType ==
    ASSUME params \in Codecs, NEW l \in Splits, NEW f \in Seq(Unit), NEW moving
    PROVE  SplitStep(f, moving, l) \in Splits
<1>1. l.config \in Configs /\ l.list \in Seq(Frame)
  BY DEF Splits
<1>2. PICK cfg \in Configs : cfg = Assign(l.config, f, moving)
  BY <1>1, AssignFacts
<1>3. Listed(cfg, f) \in Seq(Frame)
  BY ListedFacts
<1>4. l.list \o Listed(cfg, f) \in Seq(Frame)
  BY <1>1, <1>3, ConcatProperties
<1>. QED
  BY <1>2, <1>4 DEF SplitStep, Splits

\* Loop is what the loop over the frames fs goes through.
SplitLoop(pk, moving, fs, loop) ==
    /\ loop \in [0 .. Len(fs) -> Splits]
    /\ loop[0] = [config |-> config, list |-> <<>>]
    /\ \A n \in 1 .. Len(fs) : loop[n] = SplitStep(fs[n], moving, loop[n - 1])
    /\ Split(pk, moving) = loop[Len(fs)]

LEMMA SplitLoops ==
    ASSUME params \in Codecs, config \in Configs, NEW pk \in Seq(Unit), NEW moving,
           NEW fs \in Seq(Seq(Unit)), fs = Frames(pk)
    PROVE  \E loop : SplitLoop(pk, moving, fs, loop)
<1>. DEFINE N == Len(fs)
            a == [config |-> config, list |-> <<>>]
            Is(f) == f = [n \in 0 .. N |->
                            IF n = 0 THEN a ELSE SplitStep(fs[n], moving, f[n - 1])]
            step == [x \in (1 .. N) \X Splits |-> SplitStep(fs[x[1]], moving, x[2])]
<1>1. N \in Nat /\ a \in Splits
  BY EmptySeq, LenProperties DEF Splits
<1>2. ASSUME NEW n \in 1 .. N, NEW l \in Splits
      PROVE  SplitStep(fs[n], moving, l) \in Splits
  <2>1. fs[n] \in Seq(Unit)
    BY ElementOfSeq
  <2>. QED
    BY <2>1, SplitStepType
<1>3. step \in [(1 .. N) \X Splits -> Splits]
  BY <1>2
<1>4. \E f : Is(f)
  <2>1. PICK g \in [0 .. N -> Splits] : g[0] = a /\ Iterates(g, step, N)
    <3>. HIDE DEF N, a, step
    <3>. QED
      BY <1>1, <1>3, Iteration
  <2>2. ASSUME NEW n \in 1 .. N PROVE g[n] = SplitStep(fs[n], moving, g[n - 1])
    <3>1. g[n - 1] \in Splits
      <4>. HIDE DEF a, step, N
      <4>. QED
        BY <1>1, <2>1
    <3>2. g[n] = step[<<n, g[n - 1]>>]
      BY <2>1 DEF Iterates
    <3>. QED
      BY <3>1, <3>2
  <2>3. Is(g)
    <3>. HIDE DEF a
    <3>1. \A n \in 0 .. N : g[n] = IF n = 0 THEN a
                                   ELSE SplitStep(fs[n], moving, g[n - 1])
      BY <2>1, <2>2
    <3>. QED
      BY <2>1, <3>1
  <2>. QED
    BY <2>3
<1>5. PICK loop : loop = CHOOSE f : Is(f)
  OBVIOUS
<1>6. Is(loop)
  <2>. HIDE DEF Is
  <2>. QED
    BY <1>4, <1>5
<1>7. Split(pk, moving) = loop[N]
  BY <1>5 DEF Split, SplitStep
<1>8. loop[0] = a /\ \A n \in 1 .. N : loop[n] = SplitStep(fs[n], moving, loop[n - 1])
  <2>. HIDE DEF a, N
  <2>. QED
    BY <1>1, <1>6
<1>9. \A n \in 0 .. N : loop[n] \in Splits
  <2>. DEFINE T == {n \in 0 .. N : loop[n] \in Splits}
  <2>. HIDE DEF a
  <2>1. 0 \in T
    BY <1>1, <1>8
  <2>2. ASSUME NEW n \in 1 .. N, n - 1 \in T PROVE n \in T
    BY <1>2, <1>8, <2>2
  <2>3. \A n \in 0 .. N : n \in T
    <3>. HIDE DEF T, N
    <3>. QED
      BY <1>1, <2>1, <2>2, CountUp
  <2>. QED
    BY <2>3
<1>10. loop \in [0 .. N -> Splits]
  <2>. HIDE DEF a
  <2>. QED
    BY <1>6, <1>9
<1>. QED
  BY <1>7, <1>8, <1>10 DEF SplitLoop

\* The list of a packet, without the repeated configurations, is the packet
\* from its first frame on.
LEMMA SplitJoined ==
    ASSUME params \in Codecs, config \in Configs, NEW pk \in Seq(Unit), NEW moving
    PROVE  /\ Split(pk, moving) \in Splits
           /\ Joined(Split(pk, moving).list) =
                 SubSeq(pk, StartFrame(pk, 1), Len(pk))
<1>1. PICK fs : fs = Frames(pk)
  OBVIOUS
<1>2. PICK b : Cut(pk, fs, b) /\ b[Len(fs)] = Len(pk) + 1
  BY <1>1, FramesCut
<1>3. fs \in Seq(Seq(Unit))
  BY <1>2 DEF Cut
<1>4. PICK loop : SplitLoop(pk, moving, fs, loop)
  BY <1>1, <1>3, SplitLoops
<1>5. PICK N \in Nat : N = Len(fs)
  BY <1>3, LenProperties
<1>6. PICK E \in Nat : E = Len(pk) + 1
  BY LenProperties
<1>7. /\ b \in [0 .. N -> 1 .. E] /\ b[0] = StartFrame(pk, 1)
      /\ \A i \in 1 .. N : CutAt(pk, b, i, fs[i])
  BY <1>2, <1>5, <1>6, Zenon DEF Cut
<1>8. /\ loop \in [0 .. N -> Splits] /\ loop[0].list = <<>>
      /\ \A n \in 1 .. N : loop[n] = SplitStep(fs[n], moving, loop[n - 1])
      /\ Split(pk, moving) = loop[N]
  BY <1>4, <1>5 DEF SplitLoop
<1>. DEFINE T == {n \in 0 .. N : /\ b[0] <= b[n]
                                 /\ Joined(loop[n].list) = Piece(pk, b[0], b[n])}
<1>9. 0 \in T
  <2>1. Joined(<<>>) = <<>>
    <3>1. <<>> \in Seq(Frame) /\ \A i \in 1 .. Len(<<>>) : ~Own(<<>>[i])
      BY EmptySeq
    <3>. QED
      BY <3>1, JoinedNone, Zenon
  <2>2. b[0] \in 1 .. E
    BY <1>7
  <2>3. Piece(pk, b[0], b[0]) = <<>>
    BY <2>2, PieceEmpty
  <2>. QED
    BY <1>8, <2>1, <2>2, <2>3
<1>10. ASSUME NEW n \in 1 .. N, n - 1 \in T PROVE n \in T
  <2>1. PICK l \in Splits : l = loop[n - 1]
    BY <1>8
  <2>2. fs[n] \in Seq(Unit) /\ l.config \in Configs /\ l.list \in Seq(Frame)
    BY <1>3, <1>5, <2>1, ElementOfSeq DEF Splits
  <2>3. PICK cfg \in Configs : cfg = Assign(l.config, fs[n], moving)
    BY <2>2, AssignFacts
  <2>4. Listed(cfg, fs[n]) \in Seq(Frame) /\ Joined(Listed(cfg, fs[n])) = fs[n]
    BY <2>2, ListedFacts
  <2>5. loop[n].list = l.list \o Listed(cfg, fs[n])
    <3>1. PICK list : list = l.list \o Listed(cfg, fs[n])
      OBVIOUS
    <3>2. loop[n] = SplitStep(fs[n], moving, l)
      BY <1>8, <2>1
    <3>3. loop[n] = [config |-> cfg, list |-> list]
      BY <2>3, <3>1, <3>2, Zenon DEF SplitStep
    <3>4. loop[n].list = list
      BY <3>3
    <3>. QED
      BY <3>1, <3>4, Zenon
  <2>6. Joined(loop[n].list) = Joined(l.list) \o fs[n]
    BY <2>2, <2>4, <2>5, JoinedConcat
  <2>7. PICK x \in 1 .. E, y \in 1 .. E, z \in 1 .. E :
           x = b[0] /\ y = b[n - 1] /\ z = b[n]
    BY <1>7
  <2>8. y < z /\ fs[n] = Piece(pk, y, z)
    BY <1>7, <2>7 DEF CutAt
  <2>9. x <= y /\ Joined(l.list) = Piece(pk, x, y)
    BY <1>10, <2>1, <2>7
  <2>10. /\ x \in 1 .. Len(pk) + 1 /\ y \in x .. Len(pk) + 1
         /\ z \in y .. Len(pk) + 1
    BY <1>6, <2>7, <2>8, <2>9
  <2>11. Piece(pk, x, y) \o Piece(pk, y, z) = Piece(pk, x, z)
    BY <2>10, PieceJoined
  <2>12. Joined(loop[n].list) = Piece(pk, b[0], b[n])
    BY <2>6, <2>7, <2>8, <2>9, <2>11, Zenon
  <2>13. b[0] <= b[n]
    BY <2>7, <2>10
  <2>. QED
    BY <2>12, <2>13
<1>11. N \in T
  <2>1. \A n \in 0 .. N : n \in T
    <3>. HIDE DEF T
    <3>. QED
      BY <1>9, <1>10, CountUp
  <2>2. N \in 0 .. N
    OBVIOUS
  <2>. QED
    BY <2>1, <2>2
<1>12. b[N] - 1 = Len(pk)
  BY <1>2, <1>5, <1>6
<1>13. Joined(loop[N].list) = SubSeq(pk, StartFrame(pk, 1), Len(pk))
  BY <1>7, <1>11, <1>12 DEF Piece
<1>14. loop[N] \in Splits
  BY <1>8
<1>. QED
  BY <1>8, <1>13, <1>14

(***************************************************************************)
(* The last frame of a type before a place in the stream.                  *)
(***************************************************************************)

OfType(f, p) == Own(f) /\ f.content[1].type = p

LEMMA LastIs ==
    ASSUME NEW fs, NEW p, NEW k
    PROVE  LastBefore(fs, p, k) =
              {i \in 1 .. k - 1 : OfType(fs[i], p)
                                  /\ \A j \in i + 1 .. k - 1 : ~OfType(fs[j], p)}
BY Zenon DEF LastBefore, OfType

LEMMA LastPrefix ==
    ASSUME NEW fs, NEW gs, NEW p, NEW k \in Nat,
           \A i \in 1 .. k - 1 : gs[i] = fs[i]
    PROVE  LastBefore(gs, p, k) = LastBefore(fs, p, k)
<1>1. ASSUME NEW i \in 1 .. k - 1, NEW j \in i + 1 .. k - 1 PROVE gs[j] = fs[j]
  OBVIOUS
<1>. QED
  BY <1>1, LastIs

LEMMA LastSkip ==
    ASSUME NEW fs, NEW p, NEW a \in Nat, NEW b \in Nat, 0 < a, a <= b,
           \A i \in a .. b - 1 : ~OfType(fs[i], p)
    PROVE  LastBefore(fs, p, b) = LastBefore(fs, p, a)
<1>. DEFINE L(k) == {i \in 1 .. k - 1 : OfType(fs[i], p)
                        /\ \A j \in i + 1 .. k - 1 : ~OfType(fs[j], p)}
<1>1. ASSUME NEW i \in L(b) PROVE i \in L(a)
  <2>1. i \in 1 .. a - 1
    OBVIOUS
  <2>2. \A j \in i + 1 .. a - 1 : j \in i + 1 .. b - 1
    OBVIOUS
  <2>. QED
    BY <2>1, <2>2
<1>2. ASSUME NEW i \in L(a) PROVE i \in L(b)
  <2>1. i \in 1 .. b - 1
    OBVIOUS
  <2>2. ASSUME NEW j \in i + 1 .. b - 1 PROVE ~OfType(fs[j], p)
    <3>1. j \in i + 1 .. a - 1 \/ j \in a .. b - 1
      OBVIOUS
    <3>. QED
      BY <3>1
  <2>. QED
    BY <2>1, <2>2
<1>3. L(a) = L(b)
  <2>. HIDE DEF L
  <2>. QED
    BY <1>1, <1>2
<1>. QED
  BY <1>3, LastIs, Zenon

LEMMA LastHere ==
    ASSUME NEW fs, NEW p, NEW k \in Nat, 0 < k, OfType(fs[k], p)
    PROVE  k \in LastBefore(fs, p, k + 1)
<1>1. k \in 1 .. (k + 1) - 1 /\ k + 1 .. (k + 1) - 1 = {}
  OBVIOUS
<1>. QED
  BY <1>1, LastIs

LEMMA LastOne ==
    ASSUME NEW fs, NEW p, NEW k \in Nat,
           NEW i \in LastBefore(fs, p, k), NEW j \in LastBefore(fs, p, k)
    PROVE  i = j /\ i \in 1 .. k - 1 /\ OfType(fs[i], p)
<1>1. \A x \in LastBefore(fs, p, k) :
         /\ x \in 1 .. k - 1 /\ OfType(fs[x], p)
         /\ \A y \in x + 1 .. k - 1 : ~OfType(fs[y], p)
  BY LastIs
<1>2. /\ i \in 1 .. k - 1 /\ OfType(fs[i], p)
      /\ j \in 1 .. k - 1 /\ OfType(fs[j], p)
      /\ \A y \in i + 1 .. k - 1 : ~OfType(fs[y], p)
      /\ \A y \in j + 1 .. k - 1 : ~OfType(fs[y], p)
  BY <1>1
<1>3. ~(i < j) /\ ~(j < i)
  BY <1>2
<1>. QED
  BY <1>2, <1>3

(***************************************************************************)
(* What holds of the strings and of the stream together.  A list that goes *)
(* on keeps what held of its frames.                                       *)
(***************************************************************************)

AllUncut(fs) == \A i \in 1 .. Len(fs) : Own(fs[i]) => Uncut(fs[i].content)

\* Each string holds the last set of its type that went by, if one did.
ConfigTrue(cfg, fs) ==
    \A p \in Range(params) :
        \/ LastBefore(fs, p, Len(fs) + 1) = {} /\ cfg[p].content = <<>>
        \/ \E l \in LastBefore(fs, p, Len(fs) + 1) : cfg[p].content = fs[l].content

Repeats(fs) == \A k \in 1 .. Len(fs) : Configured(fs, k) /\ BeforeIdr(fs, k)

Follows(cfg, fs) ==
    /\ cfg \in Configs /\ fs \in Seq(Frame)
    /\ AllUncut(fs) /\ ConfigTrue(cfg, fs) /\ Repeats(fs)

LEMMA ConfiguredPrefix ==
    ASSUME params \in Codecs, NEW fs, NEW gs, NEW k \in Nat \ {0},
           \A i \in 1 .. k : gs[i] = fs[i], Configured(fs, k)
    PROVE  Configured(gs, k)
<1>1. PICK n \in Nat : n = Len(params)
  BY ParamsFacts
<1>2. gs[k] = fs[k] /\ \A i \in 1 .. k - 1 : gs[i] = fs[i]
  OBVIOUS
<1>3. \A p : LastBefore(gs, p, k) = LastBefore(fs, p, k)
  BY <1>2, LastPrefix
<1>4. SUFFICES ASSUME Idr(gs[k]), \A p \in Range(params) : LastBefore(gs, p, k) # {},
                      RepeatConfig
               PROVE  k > n /\ \A i \in 1 .. n :
                         /\ gs[k - n - 1 + i].param = params[i]
                         /\ \A l \in LastBefore(gs, params[i], k) :
                               gs[k - n - 1 + i].content = gs[l].content
  BY <1>1, Zenon DEF Configured
<1>5. k > n /\ \A i \in 1 .. n :
         /\ fs[k - n - 1 + i].param = params[i]
         /\ \A l \in LastBefore(fs, params[i], k) :
               fs[k - n - 1 + i].content = fs[l].content
  BY <1>1, <1>2, <1>3, <1>4, Zenon DEF Configured
<1>6. ASSUME NEW i \in 1 .. n
      PROVE  /\ gs[k - n - 1 + i].param = params[i]
             /\ \A l \in LastBefore(gs, params[i], k) :
                   gs[k - n - 1 + i].content = gs[l].content
  <2>1. PICK x \in 1 .. k - 1 : x = k - n - 1 + i
    BY <1>5
  <2>2. gs[x] = fs[x]
    BY <1>2
  <2>3. ASSUME NEW l \in LastBefore(gs, params[i], k) PROVE gs[l] = fs[l]
    BY <1>2, <2>3, LastOne
  <2>4. fs[x].param = params[i]
        /\ \A l \in LastBefore(fs, params[i], k) : fs[x].content = fs[l].content
    BY <1>5, <2>1
  <2>5. \A l \in LastBefore(gs, params[i], k) : gs[x].content = gs[l].content
    BY <1>3, <2>2, <2>3, <2>4
  <2>. QED
    BY <2>1, <2>2, <2>4, <2>5
<1>. QED
  BY <1>5, <1>6

LEMMA BeforeIdrPrefix ==
    ASSUME params \in Codecs, NEW fs \in Seq(Frame), NEW gs \in Seq(Frame),
           Len(fs) <= Len(gs), \A i \in 1 .. Len(fs) : gs[i] = fs[i],
           NEW k \in 1 .. Len(fs), BeforeIdr(fs, k)
    PROVE  BeforeIdr(gs, k)
<1>1. CASE Own(fs[k])
  BY <1>1 DEF BeforeIdr
<1>2. CASE ~Own(fs[k])
  <2>1. PICK l \in k + 1 .. Len(fs) : l <= k + Len(params) /\ Idr(fs[l])
    BY <1>2, Zenon DEF BeforeIdr
  <2>2. l \in 1 .. Len(fs) /\ l \in k + 1 .. Len(gs)
    BY LenProperties
  <2>3. gs[l] = fs[l]
    BY <2>2
  <2>. QED
    BY <2>1, <2>2, <2>3, Zenon DEF BeforeIdr
<1>. QED
  BY <1>1, <1>2

\* One more frame f: its string is assigned, the configuration is listed
\* before it if it is an IDR, and so is the frame itself.
LEMMA FollowsMore ==
    ASSUME params \in Codecs, NEW old, NEW fs, Follows(old, fs),
           NEW f \in Seq(Unit), Uncut(f), NEW moving,
           NEW cfg, cfg = Assign(old, f, moving)
    PROVE  Follows(cfg, fs \o Listed(cfg, f))
<1>1. old \in Configs /\ fs \in Seq(Frame)
  BY DEF Follows
<1>2. /\ cfg \in Configs
      /\ \A p \in Range(params) :
            cfg[p].content = IF p = f[1].type THEN f ELSE old[p].content
  BY <1>1, AssignFacts
<1>3. PICK hs \in Seq(Frame) :
         hs = Repeated(cfg, f) /\ \A i \in 1 .. Len(hs) : ~Own(hs[i])
  BY <1>2, RepeatedFacts
<1>4. PICK gs : gs = fs \o Listed(cfg, f)
  OBVIOUS
<1>5. PICK m \in Nat, h \in Nat, n \in Nat :
         m = Len(fs) /\ h = Len(hs) /\ n = Len(params)
  BY <1>1, LenProperties, ParamsFacts
<1>6. PICK e \in Nat : e = m + h + 1
  OBVIOUS
<1>7. /\ gs \in Seq(Frame) /\ Len(gs) = e
      /\ \A i \in 1 .. m : gs[i] = fs[i]
      /\ \A i \in 1 .. h : gs[m + i] = hs[i]
      /\ gs[e] = OwnFrame(f)
  <2>1. PICK ls : ls = Listed(cfg, f)
    OBVIOUS
  <2>2. /\ ls \in Seq(Frame) /\ Len(ls) = h + 1
        /\ \A i \in 1 .. h : ls[i] = hs[i]
        /\ ls[h + 1] = OwnFrame(f)
    <3>1. OwnFrame(f) \in Frame
      BY OwnFrameFacts
    <3>2. ls = Append(hs, OwnFrame(f))
      <4>1. Append(hs, OwnFrame(f)) = hs \o <<OwnFrame(f)>>
        BY <3>1, AppendIsConcat, Zenon
      <4>2. ls = hs \o <<OwnFrame(f)>>
        BY <1>2, <1>3, <2>1, ListedFacts, Zenon
      <4>. QED
        BY <4>1, <4>2, Zenon
    <3>. QED
      BY <1>5, <3>1, <3>2, AppendProperties
  <2>3. /\ gs \in Seq(Frame) /\ Len(gs) = m + (h + 1)
        /\ \A i \in 1 .. m + (h + 1) : gs[i] = IF i <= m THEN fs[i] ELSE ls[i - m]
    <3>1. gs = fs \o ls
      BY <1>4, <2>1, Zenon
    <3>2. /\ fs \o ls \in Seq(Frame) /\ Len(fs \o ls) = Len(fs) + Len(ls)
          /\ \A i \in 1 .. Len(fs) + Len(ls) :
                (fs \o ls)[i] = IF i <= Len(fs) THEN fs[i] ELSE ls[i - Len(fs)]
      BY <1>1, <2>2, ConcatProperties
    <3>. QED
      BY <1>5, <2>2, <3>1, <3>2, Zenon
  <2>4. ASSUME NEW i \in 1 .. h + 1 PROVE gs[m + i] = ls[i]
    <3>1. m + i \in 1 .. m + (h + 1) /\ ~(m + i <= m) /\ (m + i) - m = i
      OBVIOUS
    <3>. QED
      BY <2>3, <3>1
  <2>5. gs[e] = ls[h + 1]
    <3>1. e = m + (h + 1) /\ h + 1 \in 1 .. h + 1
      BY <1>6
    <3>. QED
      BY <2>4, <3>1
  <2>6. \A i \in 1 .. m : gs[i] = fs[i]
    BY <2>3
  <2>7. \A i \in 1 .. h : gs[m + i] = hs[i]
    <3>1. \A i \in 1 .. h : i \in 1 .. h + 1
      OBVIOUS
    <3>. QED
      BY <2>2, <2>4, <3>1
  <2>. QED
    BY <1>6, <2>2, <2>3, <2>5, <2>6, <2>7
<1>8. Own(gs[e]) /\ gs[e].content = f
  BY <1>7, OwnFrameFacts
<1>9. ASSUME NEW i \in m + 1 .. e - 1 PROVE ~Own(gs[i]) /\ i - m \in 1 .. h
  <2>1. PICK j \in 1 .. h : j = i - m /\ i = m + j
    BY <1>6
  <2>. QED
    BY <1>3, <1>5, <1>7, <2>1
<1>10. ASSUME NEW i \in 1 .. e PROVE i \in 1 .. m \/ i \in m + 1 .. e - 1 \/ i = e
  BY <1>6
<1>11. AllUncut(gs)
  <2>1. ASSUME NEW i \in 1 .. e, Own(gs[i]) PROVE Uncut(gs[i].content)
    <3>1. CASE i \in 1 .. m
      BY <1>5, <1>7, <2>1, <3>1 DEF Follows, AllUncut
    <3>2. CASE i = e
      BY <1>8, <3>2
    <3>. QED
      BY <1>9, <1>10, <2>1, <3>1, <3>2
  <2>. QED
    BY <1>7, <2>1 DEF AllUncut
\* Up to the new frame nothing changes for any type.
<1>12. ASSUME NEW p PROVE LastBefore(gs, p, e) = LastBefore(fs, p, m + 1)
  <2>1. LastBefore(gs, p, e) = LastBefore(gs, p, m + 1)
    <3>1. /\ m + 1 \in Nat /\ 0 < m + 1 /\ m + 1 <= e
          /\ \A i \in m + 1 .. e - 1 : ~OfType(gs[i], p)
      BY <1>6, <1>9 DEF OfType
    <3>. QED
      BY <3>1, LastSkip
  <2>2. LastBefore(gs, p, m + 1) = LastBefore(fs, p, m + 1)
    <3>1. m + 1 \in Nat /\ \A i \in 1 .. (m + 1) - 1 : gs[i] = fs[i]
      BY <1>7
    <3>. QED
      BY <3>1, LastPrefix
  <2>. QED
    BY <2>1, <2>2
<1>13. ASSUME NEW p, NEW l \in LastBefore(fs, p, m + 1)
       PROVE  gs[l] = fs[l] /\ l \in 1 .. m /\ OfType(fs[l], p)
  <2>1. l \in 1 .. (m + 1) - 1 /\ OfType(fs[l], p)
    BY LastOne
  <2>. QED
    BY <1>7, <2>1
<1>14. ConfigTrue(cfg, gs)
  <2>1. ASSUME NEW p \in Range(params)
        PROVE  \/ LastBefore(gs, p, e + 1) = {} /\ cfg[p].content = <<>>
               \/ \E l \in LastBefore(gs, p, e + 1) : cfg[p].content = gs[l].content
    <3>1. CASE p = f[1].type
      <4>1. OfType(gs[e], p)
        BY <1>8, <3>1 DEF OfType
      <4>2. e \in LastBefore(gs, p, e + 1)
        <5>1. 0 < e
          BY <1>6
        <5>. QED
          BY <4>1, <5>1, LastHere
      <4>. QED
        BY <1>2, <1>8, <3>1, <4>2
    <3>2. CASE p # f[1].type
      <4>1. ~OfType(gs[e], p)
        BY <1>8, <3>2 DEF OfType
      <4>2. LastBefore(gs, p, e + 1) = LastBefore(gs, p, e)
        <5>1. /\ e + 1 \in Nat /\ 0 < e /\ e <= e + 1
              /\ \A i \in e .. (e + 1) - 1 : ~OfType(gs[i], p)
          BY <1>6, <4>1
        <5>. QED
          BY <5>1, LastSkip
      <4>3. LastBefore(gs, p, e + 1) = LastBefore(fs, p, m + 1)
        BY <1>12, <4>2
      <4>4. cfg[p].content = old[p].content
        BY <1>2, <3>2
      <4>5. \/ LastBefore(fs, p, m + 1) = {} /\ old[p].content = <<>>
            \/ \E l \in LastBefore(fs, p, m + 1) : old[p].content = fs[l].content
        BY <1>5, Zenon DEF Follows, ConfigTrue
      <4>. QED
        BY <1>13, <4>3, <4>4, <4>5
    <3>. QED
      BY <3>1, <3>2
  <2>. QED
    BY <1>7, <2>1 DEF ConfigTrue
\* What stands before an IDR.
<1>15. Configured(gs, e)
  <2>1. SUFFICES ASSUME Idr(gs[e]),
                        \A p \in Range(params) : LastBefore(gs, p, e) # {},
                        RepeatConfig
                 PROVE  e > n /\ \A i \in 1 .. n :
                           /\ gs[e - n - 1 + i].param = params[i]
                           /\ \A l \in LastBefore(gs, params[i], e) :
                                 gs[e - n - 1 + i].content = gs[l].content
    BY <1>5, Zenon DEF Configured
  <2>2. f[1].type = "idr"
    BY <1>8, <2>1 DEF Idr
  <2>3. ASSUME NEW p \in Range(params)
        PROVE  /\ cfg[p].content # <<>>
               /\ \A l \in LastBefore(gs, p, e) : cfg[p].content = gs[l].content
    <3>1. cfg[p].content = old[p].content
      <4>1. p # "idr"
        <5>1. p \in {"vps", "sps", "pps"}
          BY ParamsFacts
        <5>. QED
          BY <5>1
      <4>. QED
        BY <1>2, <2>2, <4>1
    <3>2. PICK l \in LastBefore(fs, p, m + 1) : old[p].content = fs[l].content
      <4>1. LastBefore(fs, p, m + 1) # {}
        BY <1>12, <2>1
      <4>. QED
        BY <1>5, <4>1, Zenon DEF Follows, ConfigTrue
    <3>3. fs[l].content # <<>>
      <4>1. l \in 1 .. m /\ Own(fs[l])
        BY <1>13 DEF OfType
      <4>. QED
        BY <1>5, <4>1 DEF Follows, AllUncut, Uncut
    <3>4. ASSUME NEW x \in LastBefore(gs, p, e) PROVE cfg[p].content = gs[x].content
      <4>1. x \in LastBefore(fs, p, m + 1)
        BY <1>12
      <4>2. x = l
        <5>1. m + 1 \in Nat
          OBVIOUS
        <5>. QED
          BY <3>2, <4>1, <5>1, LastOne
      <4>3. gs[l] = fs[l]
        BY <1>13
      <4>. QED
        BY <3>1, <3>2, <4>2, <4>3
    <3>. QED
      BY <3>1, <3>2, <3>3, <3>4
  <2>4. hs = ConfigFrames(cfg)
    <3>1. DOMAIN cfg = Range(params)
      BY <1>2 DEF Configs
    <3>2. ConfigKnown(cfg)
      BY <2>3, <3>1, Zenon DEF ConfigKnown
    <3>. QED
      BY <1>3, <2>1, <2>2, <3>2, Zenon DEF Repeated
  <2>5. /\ h = n
        /\ \A i \in 1 .. n : /\ hs[i].param = params[i]
                             /\ hs[i].content = cfg[params[i]].content
    BY <1>2, <1>5, <2>4, ConfigFramesFacts
  <2>6. ASSUME NEW i \in 1 .. n
        PROVE  /\ gs[e - n - 1 + i].param = params[i]
               /\ \A l \in LastBefore(gs, params[i], e) :
                     gs[e - n - 1 + i].content = gs[l].content
    <3>1. e - n - 1 + i = m + i
      BY <1>6, <2>5
    <3>2. gs[m + i] = hs[i]
      BY <1>7, <2>5
    <3>3. params[i] \in Range(params)
      BY <1>5, ParamsFacts
    <3>4. gs[m + i].param = params[i] /\ gs[m + i].content = cfg[params[i]].content
      BY <2>5, <3>2
    <3>5. \A l \in LastBefore(gs, params[i], e) : gs[m + i].content = gs[l].content
      BY <2>3, <3>3, <3>4
    <3>. QED
      BY <3>1, <3>4, <3>5
  <2>7. e > n
    BY <1>6, <2>5
  <2>. QED
    BY <2>6, <2>7
<1>16. ASSUME NEW k \in m + 1 .. e - 1 PROVE Configured(gs, k) /\ BeforeIdr(gs, k)
  <2>1. ~Own(gs[k]) /\ h # 0
    BY <1>6, <1>9
  <2>2. Configured(gs, k)
    BY <2>1, Zenon DEF Configured, Idr
  <2>3. hs # <<>>
    BY <1>5, <2>1
  <2>4. f[1].type = "idr" /\ hs = ConfigFrames(cfg)
    BY <1>3, <2>3, Zenon DEF Repeated
  <2>5. Idr(gs[e]) /\ h = n
    BY <1>2, <1>5, <1>8, <2>4, ConfigFramesFacts DEF Idr
  <2>6. e \in k + 1 .. Len(gs) /\ e <= k + n
    BY <1>6, <1>7, <2>5
  <2>. QED
    BY <1>5, <2>2, <2>5, <2>6, Zenon DEF BeforeIdr
<1>17. ASSUME NEW k \in 1 .. m PROVE Configured(gs, k) /\ BeforeIdr(gs, k)
  <2>1. Configured(fs, k) /\ BeforeIdr(fs, k)
    BY <1>5 DEF Follows, Repeats
  <2>2. k \in Nat \ {0} /\ \A i \in 1 .. k : gs[i] = fs[i]
    BY <1>7
  <2>3. k \in 1 .. Len(fs) /\ Len(fs) <= Len(gs) /\ \A i \in 1 .. Len(fs) : gs[i] = fs[i]
    BY <1>5, <1>6, <1>7
  <2>4. Configured(gs, k)
    BY <2>1, <2>2, ConfiguredPrefix
  <2>5. BeforeIdr(gs, k)
    BY <1>1, <1>7, <2>1, <2>3, BeforeIdrPrefix
  <2>. QED
    BY <2>4, <2>5
<1>18. Repeats(gs)
  <2>1. BeforeIdr(gs, e)
    BY <1>8, Zenon DEF BeforeIdr
  <2>2. ASSUME NEW k \in 1 .. e PROVE Configured(gs, k) /\ BeforeIdr(gs, k)
    BY <1>10, <1>15, <1>16, <1>17, <2>1
  <2>. QED
    BY <1>7, <2>2 DEF Repeats
<1>. QED
  BY <1>2, <1>4, <1>7, <1>11, <1>14, <1>18 DEF Follows

LEMMA ListsAssociative ==
    ASSUME NEW fs \in Seq(Frame), NEW gs \in Seq(Frame), NEW hs \in Seq(Frame)
    PROVE  (fs \o gs) \o hs = fs \o (gs \o hs)
BY ConcatAssociative

\* All frames of a packet, one after the other.
LEMMA SplitFollows ==
    ASSUME params \in Codecs, Follows(config, stream), NEW pk \in Seq(Unit), NEW moving
    PROVE  Follows(Split(pk, moving).config, stream \o Split(pk, moving).list)
<1>1. config \in Configs /\ stream \in Seq(Frame)
  BY DEF Follows
<1>2. PICK fs : fs = Frames(pk)
  OBVIOUS
<1>3. PICK b : Cut(pk, fs, b)
  BY <1>2, FramesCut
<1>4. fs \in Seq(Seq(Unit))
  BY <1>3 DEF Cut
<1>5. PICK loop : SplitLoop(pk, moving, fs, loop)
  BY <1>1, <1>2, <1>4, SplitLoops
<1>6. PICK N \in Nat : N = Len(fs)
  BY <1>4, LenProperties
<1>7. /\ loop \in [0 .. N -> Splits]
      /\ loop[0].config = config /\ loop[0].list = <<>>
      /\ \A n \in 1 .. N : loop[n] = SplitStep(fs[n], moving, loop[n - 1])
      /\ Split(pk, moving) = loop[N]
  BY <1>5, <1>6 DEF SplitLoop
<1>. DEFINE T == {n \in 0 .. N : Follows(loop[n].config, stream \o loop[n].list)}
<1>8. 0 \in T
  <2>1. stream \o <<>> = stream
    BY <1>1, ConcatEmptySeq
  <2>2. Follows(loop[0].config, stream \o loop[0].list)
    BY <1>7, <2>1, Zenon
  <2>. QED
    BY <2>2
<1>9. ASSUME NEW n \in 1 .. N, n - 1 \in T PROVE n \in T
  <2>1. PICK l \in Splits : l = loop[n - 1]
    BY <1>7
  <2>2. l.config \in Configs /\ l.list \in Seq(Frame)
    BY <2>1 DEF Splits
  <2>3. fs[n] \in Seq(Unit) /\ Uncut(fs[n])
    BY <1>3, <1>6, CutUncut
  <2>4. PICK cfg \in Configs : cfg = Assign(l.config, fs[n], moving)
    BY <2>2, <2>3, AssignFacts
  <2>5. PICK more \in Seq(Frame) : more = Listed(cfg, fs[n])
    BY <2>3, ListedFacts
  <2>6. PICK list : list = l.list \o more
    OBVIOUS
  <2>7. loop[n].config = cfg /\ loop[n].list = list
    <3>1. loop[n] = SplitStep(fs[n], moving, l)
      BY <1>7, <2>1
    <3>2. loop[n] = [config |-> cfg, list |-> list]
      BY <2>4, <2>5, <2>6, <3>1, Zenon DEF SplitStep
    <3>. QED
      BY <3>2
  <2>8. Follows(l.config, stream \o l.list)
    BY <1>9, <2>1
  <2>9. Follows(cfg, (stream \o l.list) \o more)
    BY <2>3, <2>4, <2>5, <2>8, FollowsMore
  <2>10. (stream \o l.list) \o more = stream \o list
    <3>1. (stream \o l.list) \o more = stream \o (l.list \o more)
      BY <1>1, <2>2, ListsAssociative, Zenon
    <3>. QED
      BY <2>6, <3>1, Zenon
  <2>11. Follows(loop[n].config, stream \o loop[n].list)
    BY <2>7, <2>9, <2>10, Zenon
  <2>. QED
    BY <2>11
<1>10. N \in T
  <2>1. \A n \in 0 .. N : n \in T
    <3>. HIDE DEF T
    <3>. QED
      BY <1>8, <1>9, CountUp
  <2>2. N \in 0 .. N
    OBVIOUS
  <2>. QED
    BY <2>1, <2>2
<1>. QED
  BY <1>7, <1>10

LEMMA WhatFollows ==
    ASSUME NEW fs \in Seq(Frame), NEW gs \in Seq(Frame)
    PROVE  SubSeq(fs \o gs, Len(fs) + 1, Len(fs \o gs)) = gs
<1>1. PICK m \in Nat, n \in Nat : m = Len(fs) /\ n = Len(gs)
  BY LenProperties
<1>2. PICK hs : hs = fs \o gs
  OBVIOUS
<1>3. /\ hs \in Seq(Frame) /\ Len(hs) = m + n
      /\ \A i \in 1 .. m + n : hs[i] = IF i <= m THEN fs[i] ELSE gs[i - m]
  BY <1>1, <1>2, ConcatProperties
<1>4. PICK t : t = SubSeq(hs, m + 1, m + n)
  OBVIOUS
<1>5. /\ t \in Seq(Frame) /\ Len(t) = n
      /\ \A i \in 1 .. n : t[i] = hs[m + i]
  <2>1. m + 1 \in Int /\ m + n \in Int /\ \A i \in m + 1 .. m + n : hs[i] \in Frame
    BY <1>3, ElementOfSeq
  <2>2. /\ t \in Seq(Frame)
        /\ Len(t) = IF m + 1 <= m + n THEN (m + n) - (m + 1) + 1 ELSE 0
        /\ \A i \in 1 .. (m + n) - (m + 1) + 1 : t[i] = hs[(m + 1) + i - 1]
    BY <1>4, <2>1, SubSeqProperties
  <2>3. ASSUME NEW i \in 1 .. n PROVE t[i] = hs[m + i]
    <3>1. i \in 1 .. (m + n) - (m + 1) + 1 /\ (m + 1) + i - 1 = m + i
      OBVIOUS
    <3>. QED
      BY <2>2, <3>1
  <2>. QED
    BY <2>2, <2>3
<1>6. ASSUME NEW i \in 1 .. n PROVE t[i] = gs[i]
  <2>1. m + i \in 1 .. m + n /\ ~(m + i <= m) /\ (m + i) - m = i
    OBVIOUS
  <2>. QED
    BY <1>3, <1>5, <2>1
<1>7. t = gs
  BY <1>1, <1>5, <1>6, SeqEqual
<1>. QED
  BY <1>1, <1>2, <1>3, <1>4, <1>7

(***************************************************************************)
(* The invariant of H26xSource.                                            *)
(***************************************************************************)

SplitInv == SplitTypeOK /\ PacketSplit /\ Follows(config, stream)

\* The parameter sets in use never change.
LEMMA FollowsNext ==
    ASSUME params' = params, Follows(config', stream')
    PROVE  Follows(config, stream)'
<1>1. (config \in Configs /\ stream \in Seq(Frame) /\ AllUncut(stream))'
  BY DEF Follows, Configs, AllUncut
<1>2. ConfigTrue(config, stream)'
  BY Zenon DEF Follows, ConfigTrue
<1>3. ASSUME NEW k \in 1 .. Len(stream') PROVE Configured(stream, k)' /\ BeforeIdr(stream, k)'
  <2>1. Configured(stream', k) /\ BeforeIdr(stream', k)
    BY Zenon DEF Follows, Repeats
  <2>2. Configured(stream, k)'
    BY <2>1, Zenon DEF Configured
  <2>3. BeforeIdr(stream, k)'
    BY <2>1, Zenon DEF BeforeIdr
  <2>. QED
    BY <2>2, <2>3
<1>4. Repeats(stream)'
  BY <1>3, Zenon DEF Repeats
<1>. QED
  BY <1>1, <1>2, <1>4, Zenon DEF Follows

LEMMA SplitInitInv == ASSUME SplitInit PROVE SplitInv
<1>1. /\ params \in Codecs /\ stream = <<>> /\ start = 0 /\ packet = <<>>
      /\ posted = 0 /\ taken = 0 /\ Len(stream) = 0 /\ Len(packet) = 0
      /\ stream \in Seq(Frame) /\ packet \in Seq(Unit)
  BY EmptySeq DEF SplitInit
<1>2. PICK blank : blank = [content |-> <<>>, mem |-> 0]
  OBVIOUS
<1>3. blank \in [content : Seq(Unit), mem : Nat] /\ blank.content = <<>>
  BY <1>2, EmptySeq
<1>4. config = [p \in Range(params) |-> blank]
  BY <1>2, Zenon DEF SplitInit
<1>5. /\ config \in Configs /\ DOMAIN config = Range(params)
      /\ \A p \in Range(params) : config[p].content = <<>>
  BY <1>3, <1>4 DEF Configs
<1>6. SplitTypeOK
  <2>1. \A p \in DOMAIN config : config[p].content \in Seq(Unit) /\ config[p].mem \in Nat
    BY <1>5 DEF Configs
  <2>2. QueueSize \in Nat
    BY SplitAssumption
  <2>. QED
    BY <1>1, <1>5, <2>1, <2>2 DEF SplitTypeOK
<1>7. PacketSplit
  <2>1. Joined(<<>>) = <<>>
    <3>1. <<>> \in Seq(Frame) /\ \A i \in 1 .. Len(<<>>) : ~Own(<<>>[i])
      BY EmptySeq
    <3>. QED
      BY <3>1, JoinedNone, Zenon
  <2>2. SubSeq(stream, start + 1, Len(stream)) = <<>>
    <3>1. start + 1 \in Int /\ Len(stream) \in Int /\ Len(stream) < start + 1
      BY <1>1
    <3>. QED
      BY <3>1, SubSeqEmpty
  <2>3. SubSeq(packet, StartFrame(packet, 1), Len(packet)) = <<>>
    <3>1. StartFrame(packet, 1) = 1
      BY <1>1, EmptyStart
    <3>2. Len(packet) \in Int /\ Len(packet) < 1 /\ 1 \in Int
      BY <1>1
    <3>. QED
      BY <3>1, <3>2, SubSeqEmpty
  <2>4. start + 1 .. Len(stream) = {}
    BY <1>1
  <2>. QED
    BY <2>1, <2>2, <2>3, <2>4, Zenon DEF PacketSplit
<1>8. Follows(config, stream)
  <2>1. AllUncut(stream) /\ Repeats(stream)
    BY <1>1 DEF AllUncut, Repeats
  <2>2. \A p : LastBefore(stream, p, Len(stream) + 1) = {}
    BY <1>1, LastIs
  <2>3. ConfigTrue(config, stream)
    BY <1>5, <2>2 DEF ConfigTrue
  <2>. QED
    BY <1>1, <1>5, <2>1, <2>3 DEF Follows
<1>. QED
  BY <1>6, <1>7, <1>8 DEF SplitInv

LEMMA ReadPacketInv == ASSUME SplitInv, ReadPacket PROVE SplitInv'
<1>1. PICK pk \in Packets, moving \in SUBSET Range(params) :
         /\ packet' = pk
         /\ config' = Split(pk, moving).config
         /\ stream' = stream \o Split(pk, moving).list
  BY Zenon DEF ReadPacket
<1>2. /\ start' = Len(stream) /\ posted = Len(stream)
      /\ params' = params /\ posted' = posted /\ taken' = taken
  BY DEF ReadPacket
<1>3. pk \in Seq(Unit) /\ params \in Codecs /\ Follows(config, stream)
  BY SplitAssumption DEF SplitInv, SplitTypeOK
<1>4. config \in Configs /\ stream \in Seq(Frame)
  BY <1>3 DEF Follows
<1>5. PICK s \in Splits :
         s = Split(pk, moving) /\ Joined(s.list) = SubSeq(pk, StartFrame(pk, 1), Len(pk))
  BY <1>3, <1>4, SplitJoined
<1>6. /\ s.list \in Seq(Frame) /\ config' \in Configs
      /\ stream' = stream \o s.list
  BY <1>1, <1>5 DEF Splits
<1>7. Follows(config', stream')
  BY <1>1, <1>3, SplitFollows, Zenon
<1>8. PICK m \in Nat, n \in Nat : m = Len(stream) /\ n = Len(s.list)
  BY <1>4, <1>6, LenProperties
<1>9. stream' \in Seq(Frame) /\ Len(stream') = m + n
  BY <1>4, <1>6, <1>8, ConcatProperties
<1>10. SplitTypeOK'
  <2>1. (params \in Codecs /\ packet \in Seq(Unit) /\ stream \in Seq(Frame))'
    BY <1>1, <1>2, <1>3, <1>9
  <2>2. DOMAIN config' = Range(params')
        /\ \A p \in DOMAIN config' : config'[p].content \in Seq(Unit)
                                     /\ config'[p].mem \in Nat
    BY <1>2, <1>6 DEF Configs
  <2>3. /\ posted \in 0 .. m /\ taken \in 0 .. posted
        /\ posted - taken <= QueueSize
    BY <1>8 DEF SplitInv, SplitTypeOK
  <2>4. (/\ start \in 0 .. Len(stream) /\ posted \in 0 .. Len(stream)
         /\ taken \in 0 .. posted /\ posted - taken <= QueueSize)'
    BY <1>2, <1>8, <1>9, <2>3
  <2>. QED
    BY <2>1, <2>2, <2>4 DEF SplitTypeOK
<1>11. PacketSplit'
  <2>1. SubSeq(stream', start' + 1, Len(stream')) = s.list
    BY <1>2, <1>4, <1>6, WhatFollows, Zenon
  <2>2. Joined(SubSeq(stream', start' + 1, Len(stream'))) =
           SubSeq(packet', StartFrame(packet', 1), Len(packet'))
    BY <1>1, <1>5, <2>1, Zenon
  <2>3. ASSUME NEW i \in start' + 1 .. Len(stream'), Own(stream'[i])
        PROVE  /\ stream'[i].content # <<>>
               /\ \A k \in 2 .. Len(stream'[i].content) : ~stream'[i].content[k].long
    <3>1. i \in 1 .. Len(stream')
      BY <1>2, <1>8, <1>9
    <3>2. AllUncut(stream')
      BY <1>7 DEF Follows
    <3>3. Uncut(stream'[i].content)
      BY <2>3, <3>1, <3>2, Zenon DEF AllUncut
    <3>. QED
      BY <3>3, Zenon DEF Uncut
  <2>. QED
    BY <2>2, <2>3, Zenon DEF PacketSplit
<1>12. Follows(config, stream)'
  BY <1>2, <1>7, FollowsNext
<1>. QED
  BY <1>10, <1>11, <1>12 DEF SplitInv

\* The queue takes frames from the stream and changes nothing in it.
LEMMA QueueingInv ==
    ASSUME SplitInv, UNCHANGED <<params, config, packet, start, stream>>,
           posted' \in 0 .. Len(stream), taken' \in 0 .. posted',
           posted' - taken' <= QueueSize
    PROVE  SplitInv'
<1>1. SplitTypeOK'
  BY DEF SplitInv, SplitTypeOK
<1>2. PacketSplit'
  BY Zenon DEF SplitInv, PacketSplit
<1>3. Follows(config, stream)'
  <2>1. Follows(config', stream')
    BY Zenon DEF SplitInv
  <2>. QED
    BY <2>1, FollowsNext
<1>. QED
  BY <1>1, <1>2, <1>3 DEF SplitInv

LEMMA QueueFrameInv == ASSUME SplitInv, QueueFrame PROVE SplitInv'
<1>1. /\ posted < Len(stream) /\ posted' = posted + 1 /\ taken' = Dropped
      /\ UNCHANGED <<params, config, packet, start, stream>>
  BY DEF QueueFrame
<1>2. /\ stream \in Seq(Frame) /\ posted \in 0 .. Len(stream)
      /\ taken \in 0 .. posted /\ posted - taken <= QueueSize
  BY DEF SplitInv, SplitTypeOK
<1>3. PICK m \in Nat : m = Len(stream)
  BY <1>2, LenProperties
<1>4. /\ posted' \in 0 .. Len(stream) /\ taken' \in 0 .. posted'
      /\ posted' - taken' <= QueueSize
  <2>1. QueueSize \in Nat \ {0}
    BY SplitAssumption
  <2>. QED
    BY <1>1, <1>2, <1>3, <2>1 DEF Dropped
<1>. QED
  BY <1>1, <1>4, QueueingInv

LEMMA DeliverFrameInv == ASSUME SplitInv, DeliverFrame PROVE SplitInv'
<1>1. /\ taken < posted /\ taken' = taken + 1 /\ posted' = posted
      /\ UNCHANGED <<params, config, packet, start, stream>>
  BY DEF DeliverFrame
<1>2. /\ stream \in Seq(Frame) /\ posted \in 0 .. Len(stream)
      /\ taken \in 0 .. posted /\ posted - taken <= QueueSize
  BY DEF SplitInv, SplitTypeOK
<1>3. PICK m \in Nat : m = Len(stream)
  BY <1>2, LenProperties
<1>4. /\ posted' \in 0 .. Len(stream) /\ taken' \in 0 .. posted'
      /\ posted' - taken' <= QueueSize
  <2>1. QueueSize \in Nat
    BY SplitAssumption
  <2>. QED
    BY <1>1, <1>2, <1>3, <2>1
<1>. QED
  BY <1>1, <1>4, QueueingInv

LEMMA QuietInv == ASSUME SplitInv, UNCHANGED splitVars PROVE SplitInv'
<1>1. UNCHANGED <<params, config, packet, start, stream, posted, taken>>
  BY DEF splitVars
<1>2. /\ posted' \in 0 .. Len(stream) /\ taken' \in 0 .. posted'
      /\ posted' - taken' <= QueueSize
  BY <1>1 DEF SplitInv, SplitTypeOK
<1>. QED
  BY <1>1, <1>2, QueueingInv

\* Every packet is split as the invariant says.
THEOREM SplitInvariance == SplitSpec => []SplitInv
<1>1. SplitInit => SplitInv
  BY SplitInitInv
<1>2. SplitInv /\ [SplitNext]_splitVars => SplitInv'
  BY ReadPacketInv, QueueFrameInv, DeliverFrameInv, QuietInv, Zenon DEF SplitNext
<1>. QED
  BY <1>1, <1>2, PTL DEF SplitSpec

\* splitFrames and extractFrame, for any packets: what stands behind the first
\* long marker is in the frames, whole, once and in order, and no frame holds
\* a long marker but its own; the queue never holds more than its size.
THEOREM PacketsWhole == SplitSpec => []UnitsSplit
<1>1. SplitInv => UnitsSplit
  BY DEF SplitInv, UnitsSplit
<1>. QED
  BY <1>1, SplitInvariance, PTL

\* splitFrames with m_repeatConfig, for any packets and either codec: an IDR
\* that comes after all parameter sets, in whatever packets these came, has
\* all of them before it, in order and with the contents they had last; and
\* they are repeated nowhere else.
THEOREM ConfigurationsRepeated == SplitSpec => []IdrFollowsConfig
<1>1. SplitInv => IdrFollowsConfig
  BY Zenon DEF SplitInv, Follows, Repeats, IdrFollowsConfig
<1>. QED
  BY <1>1, SplitInvariance, PTL

=============================================================================
