--------------------------- MODULE RecorderProofs ---------------------------
(***************************************************************************)
(* What the recorder of V4l2MmapDevice promises for any size of ring, any  *)
(* limit and any number of recordings and frames, without a lock.  The     *)
(* argument follows the number of the oldest frame in raw_queue: every pop *)
(* makes it grow, whoever pops, so that what a recorder has written stays  *)
(* below it; and while one thread at a time takes frames out (alone), the  *)
(* frame in its hands is still the oldest one.                             *)
(***************************************************************************)
EXTENDS Recorder, Integers, TLAPS

\* The number of the oldest frame in raw_queue, or of the next one to come.
First == captured + 1 - Len(raw_queue)

(***************************************************************************)
(* Facts about queues.                                                     *)
(***************************************************************************)

LEMMA AppendFacts ==
    ASSUME NEW S, NEW s \in Seq(S), NEW x \in S
    PROVE  /\ Append(s, x) \in Seq(S) /\ Len(Append(s, x)) = Len(s) + 1
           /\ \A i \in 1 .. Len(s) : Append(s, x)[i] = s[i]
           /\ Append(s, x)[Len(s) + 1] = x
OBVIOUS

LEMMA TailFacts ==
    ASSUME NEW S, NEW s \in Seq(S), s # <<>>
    PROVE  /\ Tail(s) \in Seq(S) /\ Len(Tail(s)) = Len(s) - 1 /\ Len(s) > 0
           /\ \A i \in 1 .. Len(s) - 1 : Tail(s)[i] = s[i + 1]
           /\ Head(s) \in S /\ Head(s) = s[1]
OBVIOUS

(***************************************************************************)
(* Types.                                                                  *)
(***************************************************************************)

LEMMA InitTypes == Init => TypeOK
<1>. SUFFICES ASSUME Init PROVE TypeOK
  OBVIOUS
<1>1. raw_queue \in Seq(RawTs) /\ live \subseteq 1 .. captured
      /\ captured \in Nat /\ cpc \in CapturePcs /\ temp \in RawTs
      /\ cmd \in {"wait", "open", "spawn"} /\ started \in 0 .. MaxRecs
      /\ info \in 0 .. MaxRecs
  BY BoundAssumption DEF Init, RawTs, CapturePcs
<1>2. rpc \in [Recs -> RecorderPcs] /\ rts \in [Recs -> RawTs]
      /\ packed_size \in [Recs -> Nat]
  BY DEF Init, RawTs, RecorderPcs
<1>3. file \in [Recs -> Seq(RawTs)] /\ index \in [Recs -> Seq(Nat)]
  BY DEF Init
<1>4. need_record \in BOOLEAN /\ infoOk \in BOOLEAN /\ ub \in BOOLEAN
      /\ alone \in BOOLEAN
  BY Zenon DEF Init
<1>. QED
  BY <1>1, <1>2, <1>3, <1>4 DEF TypeOK

\* pop() keeps the queue a queue.
LEMMA PopTypes ==
    ASSUME raw_queue \in Seq(RawTs), ub \in BOOLEAN, PopRaw
    PROVE  raw_queue' \in Seq(RawTs) /\ ub' \in BOOLEAN
<1>1. CASE raw_queue = <<>>
  <2>1. ub' = TRUE /\ raw_queue' = raw_queue
    BY <1>1, Zenon DEF PopRaw
  <2>. QED
    BY <2>1
<1>2. CASE raw_queue # <<>>
  <2>1. ub' = ub /\ raw_queue' = Tail(raw_queue)
    BY <1>2, Zenon DEF PopRaw
  <2>. QED
    BY <1>2, <2>1, TailFacts
<1>. QED
  BY <1>1, <1>2

LEMMA CaptureTypes == ASSUME TypeOK, Capture, alone' \in BOOLEAN PROVE TypeOK'
<1>. USE DEF TypeOK, capVars, recVars
<1>1. CASE CheckFull
  BY <1>1 DEF CheckFull, CapturePcs
<1>2. CASE DropFront
  <2>1. CASE raw_queue = <<>>
    BY <1>2, <2>1 DEF DropFront
  <2>2. CASE raw_queue # <<>>
    BY <1>2, <2>2, TailFacts DEF DropFront, CapturePcs
  <2>. QED
    BY <2>1, <2>2
<1>3. CASE DropFree
  <2>1. ub' \in BOOLEAN
    BY <1>3, Zenon DEF DropFree
  <2>. QED
    BY <1>3, <2>1 DEF DropFree, CapturePcs
<1>4. CASE DropPop
  <2>1. raw_queue' \in Seq(RawTs) /\ ub' \in BOOLEAN
    BY <1>4, PopTypes DEF DropPop
  <2>. QED
    BY <1>4, <2>1 DEF DropPop, CapturePcs
<1>5. CASE Push
  <2>1. PICK len \in Sizes :
          raw_queue' = Append(raw_queue, [n |-> captured', len |-> len])
    BY <1>5 DEF Push
  <2>2. captured' \in Nat /\ [n |-> captured', len |-> len] \in RawTs
    BY <1>5, SizesAssumption DEF Push, RawTs
  <2>3. raw_queue' \in Seq(RawTs)
    BY <2>1, <2>2, AppendFacts
  <2>. QED
    BY <1>5, <2>2, <2>3 DEF Push, CapturePcs
<1>. QED
  BY <1>1, <1>2, <1>3, <1>4, <1>5 DEF Capture

(***************************************************************************)
(* Which recorders exist: recording number started is the last one, and    *)
(* its thread does not run before it is spawned.                           *)
(***************************************************************************)

Control ==
    /\ cmd = "open"  => started < MaxRecs
    /\ cmd = "spawn" => started \in Recs /\ rpc[started] = "none"
    /\ \A r \in Recs : r > started => rpc[r] = "none"

LEMMA CommandTypes ==
    ASSUME TypeOK, Control, Command, alone' \in BOOLEAN
    PROVE  TypeOK' /\ Control'
<1>. USE DEF TypeOK, capVars, recVars
<1>1. CASE StartMessage
  BY <1>1, BoundAssumption DEF StartMessage, CommandAt, Control
<1>2. CASE OpenFiles
  <2>1. infoOk' \in BOOLEAN
    <3>1. infoOk' = (info = 0)
      BY <1>2, Zenon DEF OpenFiles
    <3>. QED
      BY <3>1, Zenon
  <2>2. cmd = "open" /\ started' = started + 1 /\ cmd' = "spawn" /\ rpc' = rpc
        /\ started' \in Recs
    BY <1>2, BoundAssumption DEF OpenFiles, CommandAt, Control, Recs
  <2>3. info' \in 0 .. MaxRecs
    BY <1>2, <2>2, BoundAssumption DEF OpenFiles, OpenedInfo, Recs
  <2>4. TypeOK'
    BY <1>2, <2>1, <2>2, <2>3, BoundAssumption DEF OpenFiles, Recs
  <2>5. rpc[started'] = "none" /\ \A r \in Recs : r > started' => rpc[r] = "none"
    BY <2>2, BoundAssumption DEF Control, Recs
  <2>6. Control'
    BY <2>2, <2>5 DEF Control
  <2>. QED
    BY <2>4, <2>6, Zenon
<1>3. CASE SpawnRecorder
  <2>1. cmd = "spawn" /\ cmd' = "wait" /\ started' = started
        /\ started \in Recs /\ rpc' = [rpc EXCEPT ![started] = "look"]
    BY <1>3 DEF SpawnRecorder, CommandAt, Control
  <2>2. TypeOK'
    BY <1>3, <2>1 DEF SpawnRecorder, RecorderPcs
  <2>3. \A r \in Recs : r > started => rpc'[r] = rpc[r]
    BY <2>1, BoundAssumption DEF Recs
  <2>. QED
    BY <2>1, <2>2, <2>3 DEF Control
<1>4. CASE StopMessage
  BY <1>4 DEF StopMessage, CommandAt, Control
<1>. QED
  BY <1>1, <1>2, <1>3, <1>4 DEF Command

LEMMA CaptureControl == ASSUME Control, Capture PROVE Control'
BY DEF Control, Capture, CheckFull, DropFront, DropFree, DropPop, Push, recVars

LEMMA InitControl == Init => Control
BY BoundAssumption DEF Init, Control

\* A recorder that takes a step has been spawned; it moves alone.
LEMMA Moves ==
    ASSUME TypeOK, Control, NEW r \in Recs, RecorderStep(r)
    PROVE  /\ ~ub /\ rpc[r] \notin {"none", "gone"}
           /\ UNCHANGED <<cpc, temp, captured, cmd, started>>
           /\ \E pc \in RecorderPcs \ {"none"} : rpc' = [rpc EXCEPT ![r] = pc]
                                                 \/ (rpc' = rpc /\ rpc[r] = "front")
           /\ Control'
<1>1. ~ub /\ rpc[r] \notin {"none", "gone"}
  BY DEF RecorderStep, At, Look, TestEmpty, Front, Write, Free, Pop, WriteIndex,
         TestLimit, Close
<1>2. UNCHANGED <<cpc, temp, captured, cmd, started>>
  BY DEF RecorderStep, capVars, Look, TestEmpty, Front, Write, Free, Pop,
         WriteIndex, TestLimit, Close
<1>3. \E pc \in RecorderPcs \ {"none"} : rpc' = [rpc EXCEPT ![r] = pc]
                                         \/ (rpc' = rpc /\ rpc[r] = "front")
  <2>1. CASE Front(r) /\ raw_queue = <<>>
    <3>1. rpc' = rpc /\ rpc[r] = "front" /\ "look" \in RecorderPcs \ {"none"}
      BY <2>1 DEF Front, At, RecorderPcs
    <3>. QED
      BY <3>1
  <2>2. CASE ~(Front(r) /\ raw_queue = <<>>)
    <3>1. \E pc \in RecorderPcs \ {"none"} : Goto(r, pc)
      BY <2>2 DEF RecorderStep, RecorderPcs, Look, TestEmpty, Front, Write,
                  Free, Pop, WriteIndex, TestLimit, Close
    <3>. QED
      BY <3>1 DEF Goto
  <2>. QED
    BY <2>1, <2>2
<1>4. r <= started /\ (cmd = "spawn" => r # started)
  BY <1>1, BoundAssumption DEF Control, Recs, TypeOK
<1>5. \A q \in Recs : q # r => rpc'[q] = rpc[q]
  BY <1>3 DEF TypeOK
<1>6. Control'
  <2>1. cmd = "spawn" => started \in Recs /\ rpc'[started] = "none"
    BY <1>4, <1>5 DEF Control
  <2>2. \A q \in Recs : q > started => q # r
    BY <1>4, BoundAssumption DEF Recs, TypeOK
  <2>3. \A q \in Recs : q > started => rpc'[q] = "none"
    BY <1>5, <2>2 DEF Control
  <2>. QED
    BY <1>2, <2>1, <2>3 DEF Control
<1>. QED
  BY <1>1, <1>2, <1>3, <1>6

LEMMA RecorderTypes ==
    ASSUME TypeOK, Control, NEW r \in Recs, RecorderStep(r), alone' \in BOOLEAN
    PROVE  TypeOK'
<1>. USE DEF TypeOK
<1>1. rpc' \in [Recs -> RecorderPcs] /\ captured' = captured /\ captured' \in Nat
      /\ cpc' \in CapturePcs /\ temp' \in RawTs
      /\ cmd' \in {"wait", "open", "spawn"} /\ started' \in 0 .. MaxRecs
  BY Moves
<1>2. raw_queue' \in Seq(RawTs)
  <2>1. CASE Pop(r)
    BY <2>1, PopTypes DEF Pop
  <2>2. CASE ~Pop(r)
    BY <2>2 DEF RecorderStep, Look, TestEmpty, Front, Write, Free, WriteIndex,
                TestLimit, Close
  <2>. QED
    BY <2>1, <2>2
<1>3. live' \subseteq 1 .. captured'
  BY <1>1 DEF RecorderStep, Look, TestEmpty, Front, Write, Free, Pop, WriteIndex,
              TestLimit, Close
<1>4. ub' \in BOOLEAN
  <2>1. CASE Pop(r)
    BY <2>1, PopTypes DEF Pop
  <2>2. CASE Write(r) \/ Free(r)
    BY <2>2, Zenon DEF Write, Free
  <2>3. CASE Front(r)
    BY <2>3 DEF Front
  <2>4. CASE ~Pop(r) /\ ~Write(r) /\ ~Free(r) /\ ~Front(r)
    BY <2>4 DEF RecorderStep, Look, TestEmpty, WriteIndex, TestLimit, Close
  <2>. QED
    BY <2>1, <2>2, <2>3, <2>4
<1>5. need_record' \in BOOLEAN
  <2>1. CASE TestLimit(r)
    <3>1. need_record' = (need_record /\ ~OverLimit(r))
      BY <2>1, Zenon DEF TestLimit
    <3>. QED
      BY <3>1, Zenon
  <2>2. CASE ~TestLimit(r)
    BY <2>2 DEF RecorderStep, Look, TestEmpty, Front, Write, Free, Pop,
                WriteIndex, Close
  <2>. QED
    BY <2>1, <2>2
<1>6. info' \in 0 .. MaxRecs /\ infoOk' \in BOOLEAN
  <2>1. CASE Close(r)
    <3>1. infoOk' = (infoOk /\ info # 0)
      BY <2>1, Zenon DEF Close
    <3>2. infoOk' \in BOOLEAN
      BY <3>1, Zenon
    <3>. QED
      BY <2>1, <3>2, BoundAssumption DEF Close
  <2>2. CASE ~Close(r)
    BY <2>2 DEF RecorderStep, Look, TestEmpty, Front, Write, Free, Pop,
                WriteIndex, TestLimit
  <2>. QED
    BY <2>1, <2>2
<1>7. rts' \in [Recs -> RawTs]
  <2>1. CASE Front(r) /\ raw_queue # <<>>
    <3>1. Head(raw_queue) \in RawTs /\ rts' = [rts EXCEPT ![r] = Head(raw_queue)]
      BY <2>1, TailFacts DEF Front
    <3>. QED
      BY <3>1
  <2>2. CASE ~(Front(r) /\ raw_queue # <<>>)
    BY <2>2 DEF RecorderStep, Look, TestEmpty, Front, Write, Free, Pop,
                WriteIndex, TestLimit, Close
  <2>. QED
    BY <2>1, <2>2
<1>8. file' \in [Recs -> Seq(RawTs)]
  <2>1. CASE Write(r)
    <3>1. Append(file[r], rts[r]) \in Seq(RawTs)
      BY AppendFacts
    <3>. QED
      BY <2>1, <3>1 DEF Write
  <2>2. CASE ~Write(r)
    BY <2>2 DEF RecorderStep, Look, TestEmpty, Front, Free, Pop, WriteIndex,
                TestLimit, Close
  <2>. QED
    BY <2>1, <2>2
<1>9. packed_size' \in [Recs -> Nat] /\ index' \in [Recs -> Seq(Nat)]
  <2>1. CASE WriteIndex(r)
    <3>1. packed_size[r] + rts[r].len \in Nat
      BY DEF RawTs
    <3>2. packed_size' \in [Recs -> Nat] /\ Indexed(r) \in Nat
      BY <2>1, <3>1 DEF WriteIndex, Indexed
    <3>3. CASE index' = index
      BY <3>2, <3>3
    <3>4. CASE info # 0 /\ index' = [index EXCEPT ![info] = Append(@, Indexed(r))]
      <4>1. info \in Recs
        BY <3>4, BoundAssumption DEF Recs
      <4>2. Append(index[info], Indexed(r)) \in Seq(Nat)
        BY <3>2, <4>1, AppendFacts
      <4>. QED
        BY <3>2, <3>4, <4>1, <4>2
    <3>. QED
      BY <2>1, <3>3, <3>4 DEF WriteIndex
  <2>2. CASE ~WriteIndex(r)
    BY <2>2 DEF RecorderStep, Look, TestEmpty, Front, Write, Free, Pop,
                TestLimit, Close
  <2>. QED
    BY <2>1, <2>2
<1>. QED
  BY <1>1, <1>2, <1>3, <1>4, <1>5, <1>6, <1>7, <1>8, <1>9

(***************************************************************************)
(* The queue: consecutive frames, and never more than one over Pre.        *)
(***************************************************************************)

Consecutive ==
    /\ First >= 1
    /\ \A i \in 1 .. Len(raw_queue) : raw_queue[i].n = First + i - 1

RingKept == RingBounded /\ (cpc = "push" => Len(raw_queue) <= Pre)

LEMMA InitQueue == Init => Consecutive /\ RingKept
BY PreAssumption DEF Init, Consecutive, RingKept, RingBounded, First

LEMMA PopQueue ==
    ASSUME TypeOK, Consecutive, RingBounded, PopRaw, captured' = captured
    PROVE  Consecutive' /\ RingBounded' /\ (Len(raw_queue) <= Pre)'
<1>1. CASE raw_queue = <<>>
  <2>1. raw_queue' = raw_queue /\ Len(raw_queue) = 0
    BY <1>1 DEF PopRaw
  <2>. QED
    BY <2>1, PreAssumption DEF Consecutive, RingBounded, First, TypeOK
<1>2. CASE raw_queue # <<>>
  <2>1. raw_queue' = Tail(raw_queue)
    BY <1>2 DEF PopRaw
  <2>2. /\ Len(raw_queue') = Len(raw_queue) - 1 /\ Len(raw_queue) \in Nat
        /\ \A i \in 1 .. Len(raw_queue) - 1 : raw_queue'[i] = raw_queue[i + 1]
    BY <1>2, <2>1, TailFacts DEF TypeOK
  <2>3. First' = First + 1 /\ First \in Int
    BY <2>2 DEF First, TypeOK
  <2>4. \A i \in 1 .. Len(raw_queue') : raw_queue'[i].n = First' + i - 1
    <3>. SUFFICES ASSUME NEW i \in 1 .. Len(raw_queue')
                  PROVE  raw_queue'[i].n = First' + i - 1
      OBVIOUS
    <3>1. i + 1 \in 1 .. Len(raw_queue) /\ raw_queue'[i] = raw_queue[i + 1]
      BY <2>2
    <3>2. raw_queue[i + 1].n = First + (i + 1) - 1
      BY <3>1 DEF Consecutive
    <3>. QED
      BY <2>3, <3>1, <3>2
  <2>. QED
    BY <2>2, <2>3, <2>4, PreAssumption DEF Consecutive, RingBounded
<1>. QED
  BY <1>1, <1>2

LEMMA PushQueue ==
    ASSUME TypeOK, Consecutive, RingKept, Push
    PROVE  Consecutive' /\ RingKept' /\ First' = First
<1>1. PICK len \in Sizes :
        raw_queue' = Append(raw_queue, [n |-> captured', len |-> len])
  BY DEF Push
<1>2. /\ [n |-> captured', len |-> len] \in RawTs
      /\ captured' = captured + 1 /\ captured \in Nat
      /\ cpc = "push" /\ cpc' = "encode"
  BY SizesAssumption DEF Push, CaptureAt, RawTs, TypeOK
<1>3. /\ Len(raw_queue') = Len(raw_queue) + 1 /\ Len(raw_queue) \in Nat
      /\ \A i \in 1 .. Len(raw_queue) : raw_queue'[i] = raw_queue[i]
      /\ raw_queue'[Len(raw_queue) + 1].n = captured'
  BY <1>1, <1>2, AppendFacts DEF TypeOK
<1>4. First' = First /\ captured' = First + Len(raw_queue) /\ First \in Int
  BY <1>2, <1>3 DEF First
<1>5. \A i \in 1 .. Len(raw_queue') : raw_queue'[i].n = First' + i - 1
  <2>. SUFFICES ASSUME NEW i \in 1 .. Len(raw_queue')
                PROVE  raw_queue'[i].n = First' + i - 1
    OBVIOUS
  <2>1. CASE i = Len(raw_queue) + 1
    BY <2>1, <1>3, <1>4
  <2>2. CASE i \in 1 .. Len(raw_queue)
    <3>1. raw_queue[i].n = First + i - 1
      BY <2>2 DEF Consecutive
    <3>. QED
      BY <2>2, <3>1, <1>3, <1>4
  <2>. QED
    BY <2>1, <2>2, <1>3
<1>6. RingKept'
  BY <1>2, <1>3, PreAssumption DEF RingKept, RingBounded
<1>. QED
  BY <1>4, <1>5, <1>6 DEF Consecutive

LEMMA CaptureQueue ==
    ASSUME TypeOK, Consecutive, RingKept, Capture
    PROVE  Consecutive' /\ RingKept'
<1>1. CASE CheckFull
  <2>1. Len(raw_queue) \in Nat /\ (cpc' = "push" => ~Full)
        /\ UNCHANGED <<raw_queue, captured>>
    BY <1>1 DEF CheckFull, TypeOK
  <2>. QED
    BY <2>1, PreAssumption DEF Full, Consecutive, RingKept, RingBounded, First
<1>2. CASE DropFront \/ DropFree
  BY <1>2 DEF DropFront, DropFree, CaptureAt, Consecutive, RingKept,
              RingBounded, First
<1>3. CASE DropPop
  BY <1>3, PopQueue DEF DropPop, RingKept
<1>4. CASE Push
  BY <1>4, PushQueue
<1>. QED
  BY <1>1, <1>2, <1>3, <1>4 DEF Capture

LEMMA CommandQueue ==
    ASSUME Consecutive, RingKept, Command PROVE Consecutive' /\ RingKept'
BY DEF Command, StartMessage, OpenFiles, SpawnRecorder, StopMessage, capVars,
       Consecutive, RingKept, RingBounded, First

LEMMA RecorderQueue ==
    ASSUME TypeOK, Control, Consecutive, RingKept, NEW r \in Recs,
           RecorderStep(r)
    PROVE  Consecutive' /\ RingKept'
<1>1. captured' = captured /\ cpc' = cpc
  BY Moves
<1>2. CASE Pop(r)
  BY <1>1, <1>2, PopQueue DEF Pop, RingKept
<1>3. CASE ~Pop(r)
  BY <1>1, <1>3 DEF RecorderStep, Look, TestEmpty, Front, Write, Free,
     WriteIndex, TestLimit, Close, Consecutive, RingKept, RingBounded, First
<1>. QED
  BY <1>2, <1>3

(***************************************************************************)
(* The files: what a recorder has written is older than what is queued.    *)
(***************************************************************************)

Holding == {"write", "free", "pop"}

FileKept(r) ==
    /\ \A i, j \in 1 .. Len(file[r]) : i < j => file[r][i].n < file[r][j].n
    /\ rpc[r] \in Holding => rts[r].n <= First
    /\ \A i \in 1 .. Len(file[r]) :
          /\ rpc[r] = "write" => file[r][i].n < rts[r].n
          /\ rpc[r] \in {"free", "pop"} => file[r][i].n <= rts[r].n
          /\ rpc[r] \notin Holding => ub \/ file[r][i].n < First

FilesKept == \A r \in Recs : FileKept(r)

LEMMA InitFiles == Init => FilesKept
BY DEF Init, FilesKept, FileKept, Holding

\* The oldest frame of the queue is its first; no step makes it older, and a
\* pop makes it younger.
LEMMA FirstOf ==
    ASSUME TypeOK, Consecutive, raw_queue # <<>>
    PROVE  /\ Head(raw_queue) \in RawTs /\ Head(raw_queue).n = First
           /\ First \in Nat /\ First <= captured
<1>1. /\ Head(raw_queue) \in RawTs /\ Head(raw_queue) = raw_queue[1]
      /\ Len(raw_queue) \in Nat /\ Len(raw_queue) > 0
  BY TailFacts DEF TypeOK
<1>2. raw_queue[1].n = First + 1 - 1
  BY <1>1 DEF Consecutive
<1>3. First \in Nat /\ First <= captured
  BY <1>1 DEF First, Consecutive, TypeOK
<1>. QED
  BY <1>1, <1>2, <1>3

LEMMA PopFirst ==
    ASSUME TypeOK, PopRaw, captured' = captured
    PROVE  First' >= First /\ (ub' \/ First' = First + 1)
<1>1. CASE raw_queue = <<>>
  <2>1. ub' = TRUE /\ raw_queue' = raw_queue
    BY <1>1, Zenon DEF PopRaw
  <2>. QED
    BY <2>1 DEF First, TypeOK
<1>2. CASE raw_queue # <<>>
  <2>1. raw_queue' = Tail(raw_queue)
    BY <1>2 DEF PopRaw
  <2>2. Len(raw_queue') = Len(raw_queue) - 1 /\ Len(raw_queue) \in Nat
    BY <1>2, <2>1, TailFacts DEF TypeOK
  <2>. QED
    BY <2>2 DEF First, TypeOK
<1>. QED
  BY <1>1, <1>2

\* A recorder that neither takes nor writes a frame keeps its promise while the
\* others make the queue younger.
LEMMA FileFrame ==
    ASSUME TypeOK, ~ub, NEW r \in Recs, FileKept(r), First' >= First,
           First' \in Int, file'[r] = file[r], rts'[r] = rts[r],
           \/ rpc'[r] = rpc[r]
           \/ rpc[r] \notin Holding /\ rpc'[r] \notin Holding
    PROVE  FileKept(r)'
<1>1. /\ \A i \in 1 .. Len(file[r]) : file[r][i].n \in Nat
      /\ rts[r].n \in Nat /\ First \in Int
  <2>1. \A i \in 1 .. Len(file[r]) : file[r][i] \in RawTs
    BY DEF TypeOK
  <2>2. \A i \in 1 .. Len(file[r]) : file[r][i].n \in Nat
    BY <2>1 DEF RawTs
  <2>3. rts[r].n \in Nat /\ First \in Int
    BY DEF TypeOK, RawTs, First
  <2>. QED
    BY <2>2, <2>3
<1>2. \A i, j \in 1 .. Len(file'[r]) : i < j => file'[r][i].n < file'[r][j].n
  BY DEF FileKept
<1>3. rpc'[r] \in Holding => rts'[r].n <= First'
  BY <1>1 DEF FileKept
<1>4. ASSUME NEW i \in 1 .. Len(file'[r])
      PROVE  /\ rpc'[r] = "write" => file'[r][i].n < rts'[r].n
             /\ rpc'[r] \in {"free", "pop"} => file'[r][i].n <= rts'[r].n
             /\ rpc'[r] \notin Holding => ub' \/ file'[r][i].n < First'
  BY <1>1, <1>4 DEF FileKept, Holding
<1>. QED
  BY <1>2, <1>3, <1>4 DEF FileKept

LEMMA CaptureFiles ==
    ASSUME TypeOK, Consecutive, RingKept, FilesKept, Capture PROVE FilesKept'
<1>1. ~ub /\ UNCHANGED <<rpc, rts, file>>
  BY DEF Capture, CheckFull, DropFront, DropFree, DropPop, Push, CaptureAt,
         recVars
<1>2. First' >= First /\ First' \in Int
  <2>1. CASE DropPop
    <3>1. captured' = captured /\ PopRaw
      BY <2>1 DEF DropPop
    <3>2. First' >= First
      BY <3>1, PopFirst
    <3>3. raw_queue' \in Seq(RawTs)
      BY <3>1, PopTypes DEF TypeOK
    <3>. QED
      BY <3>1, <3>2, <3>3 DEF First, TypeOK
  <2>2. CASE Push
    BY <2>2, PushQueue DEF First, TypeOK
  <2>3. CASE CheckFull \/ DropFront \/ DropFree
    BY <2>3 DEF CheckFull, DropFront, DropFree, First, TypeOK
  <2>. QED
    BY <2>1, <2>2, <2>3 DEF Capture
<1>. QED
  BY <1>1, <1>2, FileFrame DEF FilesKept

LEMMA CommandFiles ==
    ASSUME TypeOK, Control, FilesKept, Command PROVE FilesKept'
<1>1. ~ub /\ UNCHANGED <<raw_queue, captured, rts, file>>
  BY DEF Command, StartMessage, OpenFiles, SpawnRecorder, StopMessage,
         CommandAt, capVars, recVars
<1>2. First' >= First /\ First' \in Int
  BY <1>1 DEF First, TypeOK
<1>3. \A r \in Recs : \/ rpc'[r] = rpc[r]
                      \/ rpc[r] \notin Holding /\ rpc'[r] \notin Holding
  BY DEF Command, StartMessage, OpenFiles, SpawnRecorder, StopMessage,
         CommandAt, capVars, recVars, Control, Holding, TypeOK
<1>. QED
  BY <1>1, <1>2, <1>3, FileFrame DEF FilesKept

LEMMA RecorderFiles ==
    ASSUME TypeOK, Control, Consecutive, FilesKept, NEW r \in Recs,
           RecorderStep(r)
    PROVE  FilesKept'
<1>1. ~ub /\ captured' = captured
  BY Moves
<1>2. First' >= First /\ First' \in Int /\ First \in Int
  <2>1. CASE Pop(r)
    <3>1. PopRaw
      BY <2>1 DEF Pop
    <3>2. First' >= First /\ raw_queue' \in Seq(RawTs)
      BY <1>1, <3>1, PopFirst, PopTypes DEF TypeOK
    <3>. QED
      BY <1>1, <3>2 DEF First, TypeOK
  <2>2. CASE ~Pop(r)
    BY <1>1, <2>2 DEF RecorderStep, Look, TestEmpty, Front, Write, Free,
       WriteIndex, TestLimit, Close, First, TypeOK
  <2>. QED
    BY <2>1, <2>2
<1>3. ASSUME NEW q \in Recs, q # r PROVE FileKept(q)'
  <2>1. rpc'[q] = rpc[q]
    BY <1>3, Moves DEF TypeOK
  <2>2. rts'[q] = rts[q] /\ file'[q] = file[q]
    BY <1>3 DEF RecorderStep, Look, TestEmpty, Front, Write, Free, Pop,
       WriteIndex, TestLimit, Close, TypeOK
  <2>. QED
    BY <1>1, <1>2, <2>1, <2>2, FileFrame DEF FilesKept
<1>4. FileKept(r)'
  <2>. DEFINE old == file[r]
  <2>1. /\ \A i \in 1 .. Len(old) : old[i].n \in Nat
        /\ rts[r].n \in Nat /\ rts[r] \in RawTs /\ old \in Seq(RawTs)
    <3>1. \A i \in 1 .. Len(old) : old[i] \in RawTs
      BY DEF TypeOK
    <3>. QED
      BY <3>1 DEF TypeOK, RawTs
  <2>2. CASE Look(r) \/ TestEmpty(r) \/ WriteIndex(r) \/ TestLimit(r) \/ Close(r)
    <3>1. UNCHANGED <<rts, file>> /\ rpc[r] \notin Holding /\ rpc'[r] \notin Holding
      BY <2>2 DEF Look, TestEmpty, WriteIndex, TestLimit, Close, At, Goto,
         Holding, TypeOK
    <3>. QED
      BY <1>1, <1>2, <3>1, FileFrame DEF FilesKept
  <2>3. CASE Front(r) /\ raw_queue = <<>>
    <3>1. UNCHANGED <<rts, file, rpc>>
      BY <2>3 DEF Front
    <3>. QED
      BY <1>1, <1>2, <3>1, FileFrame DEF FilesKept
  <2>4. CASE Front(r) /\ raw_queue # <<>>
    <3>1. /\ rts'[r] = Head(raw_queue) /\ rpc'[r] = "write" /\ rpc[r] = "front"
          /\ file' = file /\ raw_queue' = raw_queue
      BY <2>4 DEF Front, At, Goto, TypeOK
    <3>2. rts'[r].n = First /\ First' = First
      BY <1>1, <2>4, <3>1, FirstOf DEF First
    <3>3. \A i \in 1 .. Len(old) : old[i].n < First
      BY <1>1, <3>1 DEF FilesKept, FileKept, Holding
    <3>4. \A i, j \in 1 .. Len(old) : i < j => old[i].n < old[j].n
      BY DEF FilesKept, FileKept
    <3>. QED
      BY <1>2, <3>1, <3>2, <3>3, <3>4 DEF FileKept, Holding
  <2>5. CASE Write(r)
    <3>1. /\ file'[r] = Append(old, rts[r]) /\ rts' = rts
          /\ rpc[r] = "write" /\ rpc'[r] = "free" /\ raw_queue' = raw_queue
      BY <2>5 DEF Write, At, Goto, TypeOK
    <3>2. First' = First /\ rts[r].n <= First
      BY <1>1, <3>1 DEF First, FilesKept, FileKept, Holding
    <3>3. /\ \A i \in 1 .. Len(old) : old[i].n < rts[r].n
          /\ \A i, j \in 1 .. Len(old) : i < j => old[i].n < old[j].n
      BY <3>1 DEF FilesKept, FileKept
    <3>4. /\ Len(file'[r]) = Len(old) + 1 /\ Len(old) \in Nat
          /\ \A i \in 1 .. Len(old) : file'[r][i] = old[i]
          /\ file'[r][Len(old) + 1] = rts[r]
      BY <2>1, <3>1, AppendFacts
    <3>5. \A i \in 1 .. Len(file'[r]) : file'[r][i].n <= rts[r].n
      <4>. SUFFICES ASSUME NEW i \in 1 .. Len(file'[r])
                    PROVE  file'[r][i].n <= rts[r].n
        OBVIOUS
      <4>1. CASE i = Len(old) + 1
        <5>1. file'[r][i].n = rts[r].n
          BY <3>4, <4>1
        <5>. QED
          BY <2>1, <5>1
      <4>2. CASE i \in 1 .. Len(old)
        <5>1. file'[r][i].n = old[i].n /\ old[i].n < rts[r].n
          BY <3>3, <3>4, <4>2
        <5>. QED
          BY <2>1, <4>2, <5>1
      <4>. QED
        BY <3>4, <4>1, <4>2
    <3>6. \A i, j \in 1 .. Len(file'[r]) : i < j => file'[r][i].n < file'[r][j].n
      <4>. SUFFICES ASSUME NEW i \in 1 .. Len(file'[r]),
                           NEW j \in 1 .. Len(file'[r]), i < j
                    PROVE  file'[r][i].n < file'[r][j].n
        OBVIOUS
      <4>1. i \in 1 .. Len(old)
        BY <3>4
      <4>2. CASE j = Len(old) + 1
        BY <3>3, <3>4, <4>1, <4>2
      <4>3. CASE j \in 1 .. Len(old)
        BY <3>3, <3>4, <4>1, <4>3
      <4>. QED
        BY <3>4, <4>2, <4>3
    <3>. QED
      BY <3>1, <3>2, <3>5, <3>6 DEF FileKept, Holding
  <2>6. CASE Free(r)
    <3>1. /\ UNCHANGED <<rts, file, raw_queue>>
          /\ rpc[r] = "free" /\ rpc'[r] = "pop"
      BY <2>6 DEF Free, At, Goto, TypeOK
    <3>2. First' = First
      BY <1>1, <3>1 DEF First
    <3>. QED
      BY <3>1, <3>2 DEF FilesKept, FileKept, Holding
  <2>7. CASE Pop(r)
    <3>1. /\ UNCHANGED <<rts, file>> /\ PopRaw
          /\ rpc[r] = "pop" /\ rpc'[r] = "index"
      BY <2>7 DEF Pop, At, Goto, TypeOK
    <3>2. ub' \/ First' = First + 1
      BY <1>1, <3>1, PopFirst
    <3>3. /\ \A i \in 1 .. Len(old) : old[i].n <= rts[r].n
          /\ rts[r].n <= First
          /\ \A i, j \in 1 .. Len(old) : i < j => old[i].n < old[j].n
      BY <3>1 DEF FilesKept, FileKept, Holding
    <3>4. \A i \in 1 .. Len(old) : ub' \/ old[i].n < First'
      BY <1>2, <2>1, <3>2, <3>3
    <3>. QED
      BY <3>1, <3>3, <3>4 DEF FileKept, Holding
  <2>. QED
    BY <2>2, <2>3, <2>4, <2>5, <2>6, <2>7 DEF RecorderStep
<1>. QED
  BY <1>3, <1>4 DEF FilesKept

(***************************************************************************)
(* One consumer at a time: the frame in its hands is still the oldest one, *)
(* and what is allocated is what is queued, less the frame just freed.     *)
(***************************************************************************)

Freed == cpc = "pop" \/ \E r \in Recs : rpc[r] = "pop"

Allocated == (IF Freed THEN First + 1 ELSE First) .. captured

Orderly ==
    /\ ~ub
    /\ Trimming => raw_queue # <<>>
    /\ cpc = "free" => temp.n = First
    /\ \A r \in Recs : /\ rpc[r] \in Holding \cup {"front"} => raw_queue # <<>>
                       /\ rpc[r] \in Holding => rts[r].n = First
    /\ live = Allocated

Sound == alone => Alone /\ Orderly

LEMMA InitSound == Init => Sound
<1>. SUFFICES ASSUME Init PROVE Sound
  OBVIOUS
<1>1. Recording = {}
  BY DEF Init, Recording, Running
<1>2. Alone
  BY <1>1 DEF Alone
<1>3. ~Freed /\ First = 1 /\ live = {} /\ captured = 0
  BY DEF Init, Freed, First
<1>4. live = Allocated
  BY <1>3 DEF Allocated
<1>5. Orderly
  BY <1>4 DEF Init, Orderly, Trimming, Holding
<1>. QED
  BY <1>2, <1>5 DEF Sound

\* While the capture thread drops a frame there is no recorder, and while a
\* recorder runs it is the only one and the capture thread drops none.
LEMMA Excluded ==
    ASSUME TypeOK, Alone
    PROVE  /\ Trimming => \A q \in Recs : rpc[q] \in {"none", "gone"}
           /\ \A r \in Recs : rpc[r] \notin {"none", "gone"} =>
                 /\ ~Trimming
                 /\ \A q \in Recs : q # r => rpc[q] \in {"none", "gone"}
<1>1. Running \subseteq Recording
  BY DEF Recording, TypeOK
<1>2. \A r \in Running : ~Trimming /\ Running \subseteq {r}
  BY <1>1 DEF Alone
<1>. QED
  BY <1>2 DEF Running

LEMMA CaptureOrderly ==
    ASSUME TypeOK, Consecutive, RingKept, Alone, Orderly, Capture, Alone', TypeOK'
    PROVE  Orderly'
<1>1. /\ ~ub /\ UNCHANGED <<rpc, rts>>
      /\ live = Allocated /\ First \in Int /\ captured \in Nat
  BY DEF Capture, CheckFull, DropFront, DropFree, DropPop, Push, recVars,
         Orderly, First, TypeOK
<1>2. CASE CheckFull
  <2>1. /\ UNCHANGED <<raw_queue, captured, live, temp, ub>> /\ cpc = "encode"
        /\ cpc' \in {"front", "push"} /\ (cpc' = "front" => Full)
    BY <1>2 DEF CheckFull, CaptureAt
  <2>2. Trimming' => raw_queue' # <<>>
    BY <2>1, PreAssumption DEF Trimming, Full
  <2>3. First' = First /\ Freed' = Freed /\ Allocated' = Allocated
    BY <1>1, <2>1 DEF First, Freed, Allocated
  <2>. QED
    BY <1>1, <2>1, <2>2, <2>3 DEF Orderly
<1>3. CASE DropFront
  <2>1. cpc = "front" /\ raw_queue # <<>>
    BY <1>3 DEF DropFront, CaptureAt, Orderly, Trimming
  <2>2. /\ UNCHANGED <<raw_queue, captured, live, ub>>
        /\ temp' = Head(raw_queue) /\ cpc' = "free"
    BY <1>3, <2>1 DEF DropFront
  <2>3. First' = First /\ Freed' = Freed /\ Allocated' = Allocated
    BY <1>1, <2>1, <2>2 DEF First, Freed, Allocated
  <2>4. temp'.n = First'
    BY <2>1, <2>2, <2>3, FirstOf
  <2>. QED
    BY <1>1, <2>1, <2>2, <2>3, <2>4 DEF Orderly
<1>4. CASE DropFree
  <2>1. /\ cpc = "free" /\ cpc' = "pop" /\ raw_queue # <<>> /\ temp.n = First
        /\ UNCHANGED <<raw_queue, captured>>
        /\ live' = live \ {temp.n} /\ ub' = (temp.n \notin live)
    BY <1>4 DEF DropFree, CaptureAt, Orderly, Trimming
  <2>2. \A q \in Recs : rpc[q] \in {"none", "gone"}
    BY <2>1, Excluded DEF Trimming
  <2>3. First' = First /\ ~Freed /\ Freed'
    BY <1>1, <2>1, <2>2 DEF First, Freed
  <2>4. live = First .. captured /\ First <= captured
    BY <1>1, <2>1, <2>3, FirstOf DEF Allocated
  <2>5. ~ub'
    <3>1. temp.n \in live
      BY <1>1, <2>1, <2>4
    <3>. QED
      BY <2>1, <3>1, Zenon
  <2>6. live' = Allocated'
    BY <1>1, <2>1, <2>3, <2>4 DEF Allocated
  <2>. QED
    BY <1>1, <2>1, <2>2, <2>5, <2>6 DEF Orderly, Holding
<1>5. CASE DropPop
  <2>1. /\ cpc = "pop" /\ cpc' = "push" /\ raw_queue # <<>> /\ PopRaw
        /\ UNCHANGED <<captured, live>>
    BY <1>5 DEF DropPop, CaptureAt, Orderly, Trimming
  <2>2. ub' = ub /\ raw_queue' = Tail(raw_queue)
    BY <2>1, Zenon DEF PopRaw
  <2>3. \A q \in Recs : rpc[q] \in {"none", "gone"}
    BY <2>1, Excluded DEF Trimming
  <2>4. First' = First + 1
    BY <1>1, <2>1, <2>2, TailFacts DEF First, TypeOK
  <2>5. Freed /\ ~Freed'
    BY <1>1, <2>1, <2>3 DEF Freed
  <2>6. live' = Allocated'
    BY <1>1, <2>1, <2>4, <2>5 DEF Allocated
  <2>. QED
    BY <1>1, <2>1, <2>2, <2>3, <2>6 DEF Orderly, Trimming, Holding
<1>6. CASE Push
  <2>1. /\ cpc = "push" /\ cpc' = "encode" /\ ub' = ub
        /\ captured' = captured + 1 /\ live' = live \cup {captured'}
    BY <1>6 DEF Push, CaptureAt
  <2>2. First' = First /\ raw_queue' # <<>>
    <3>1. PICK len \in Sizes :
            raw_queue' = Append(raw_queue, [n |-> captured', len |-> len])
      BY <1>6 DEF Push
    <3>2. [n |-> captured', len |-> len] \in RawTs
      BY <1>1, <2>1, SizesAssumption DEF RawTs
    <3>3. Len(raw_queue') = Len(raw_queue) + 1 /\ Len(raw_queue) \in Nat
      BY <3>1, <3>2, AppendFacts DEF TypeOK
    <3>. QED
      BY <1>6, <3>3, PushQueue
  <2>3. Freed' = Freed
    BY <1>1, <2>1 DEF Freed
  <2>4. First <= captured + 1 /\ (Freed => First <= captured)
    <3>1. First <= captured + 1
      BY <1>1 DEF First, TypeOK
    <3>2. Freed => raw_queue # <<>>
      BY <2>1 DEF Freed, Orderly, Holding
    <3>. QED
      BY <3>1, <3>2, FirstOf
  <2>5. live' = Allocated'
    BY <1>1, <2>1, <2>2, <2>3, <2>4 DEF Allocated
  <2>. QED
    BY <1>1, <2>1, <2>2, <2>5 DEF Orderly, Trimming
<1>. QED
  BY <1>2, <1>3, <1>4, <1>5, <1>6 DEF Capture

LEMMA CommandOrderly ==
    ASSUME TypeOK, Control, Orderly, Command PROVE Orderly'
<1>1. UNCHANGED <<raw_queue, captured, cpc, temp, live, ub, rts>>
  BY DEF Command, StartMessage, OpenFiles, SpawnRecorder, StopMessage, capVars,
         recVars
<1>2. \A r \in Recs : \/ rpc'[r] = rpc[r]
                      \/ rpc[r] = "none" /\ rpc'[r] = "look"
  BY DEF Command, StartMessage, OpenFiles, SpawnRecorder, StopMessage,
         CommandAt, recVars, Control, TypeOK
<1>3. Freed' = Freed
  BY <1>1, <1>2 DEF Freed
<1>4. Allocated' = Allocated
  BY <1>1, <1>3 DEF Allocated, First
<1>. QED
  BY <1>1, <1>2, <1>4 DEF Orderly, Trimming, Holding, First

LEMMA RecorderOrderly ==
    ASSUME TypeOK, Control, Consecutive, Alone, Orderly, NEW r \in Recs,
           RecorderStep(r)
    PROVE  Orderly'
<1>1. /\ ~ub /\ rpc[r] \notin {"none", "gone"}
      /\ UNCHANGED <<cpc, temp, captured>>
      /\ \A q \in Recs : q # r => rpc'[q] = rpc[q]
      /\ captured \in Nat /\ First \in Int /\ live = Allocated
  <2>1. \A q \in Recs : q # r => rpc'[q] = rpc[q]
    BY Moves DEF TypeOK
  <2>2. captured \in Nat /\ First \in Int /\ live = Allocated
    BY DEF TypeOK, First, Orderly
  <2>. QED
    BY <2>1, <2>2, Moves
<1>2. ~Trimming /\ \A q \in Recs : q # r => rpc[q] \in {"none", "gone"}
  BY <1>1, Excluded
<1>3. Freed = (rpc[r] = "pop") /\ Freed' = (rpc'[r] = "pop")
  <2>1. cpc # "pop" /\ cpc' # "pop"
    BY <1>1, <1>2 DEF Trimming
  <2>2. \A q \in Recs : q # r => rpc[q] # "pop" /\ rpc'[q] # "pop"
    BY <1>1, <1>2
  <2>. QED
    BY <2>1, <2>2 DEF Freed
<1>4. ASSUME ~ub', live' = Allocated',
             rpc'[r] \in Holding \cup {"front"} => raw_queue' # <<>>,
             rpc'[r] \in Holding => rts'[r].n = First'
      PROVE  Orderly'
  BY <1>1, <1>2, <1>4 DEF Orderly, Trimming, Holding
<1>5. CASE Look(r) \/ WriteIndex(r) \/ TestLimit(r) \/ Close(r)
  <2>1. /\ UNCHANGED <<raw_queue, live, ub>>
        /\ rpc[r] # "pop" /\ rpc'[r] \notin Holding \cup {"front"}
    BY <1>5 DEF Look, WriteIndex, TestLimit, Close, At, Goto, Holding, TypeOK
  <2>2. live' = Allocated'
    BY <1>1, <1>3, <2>1 DEF Allocated, First, Holding
  <2>. QED
    BY <1>1, <1>4, <2>1, <2>2
<1>6. CASE TestEmpty(r)
  <2>1. /\ UNCHANGED <<raw_queue, live, ub>> /\ rpc[r] = "empty"
        /\ rpc'[r] = IF raw_queue = <<>> THEN "limit" ELSE "front"
    BY <1>6 DEF TestEmpty, NothingKept, At, Goto, TypeOK
  <2>2. live' = Allocated'
    BY <1>1, <1>3, <2>1 DEF Allocated, First
  <2>. QED
    BY <1>1, <1>4, <2>1, <2>2 DEF Holding
<1>7. CASE Front(r)
  <2>1. rpc[r] = "front" /\ raw_queue # <<>>
    BY <1>7 DEF Front, At, Orderly
  <2>2. /\ UNCHANGED <<raw_queue, live, ub>>
        /\ rpc'[r] = "write" /\ rts'[r] = Head(raw_queue)
    BY <1>7, <2>1 DEF Front, Goto, TypeOK
  <2>3. First' = First /\ live' = Allocated'
    BY <1>1, <1>3, <2>1, <2>2 DEF Allocated, First
  <2>4. rts'[r].n = First'
    BY <2>1, <2>2, <2>3, FirstOf
  <2>. QED
    BY <1>1, <1>4, <2>1, <2>2, <2>3, <2>4
<1>8. CASE Write(r)
  <2>1. /\ UNCHANGED <<raw_queue, live, rts>> /\ rpc[r] = "write"
        /\ rpc'[r] = "free" /\ ub' = (rts[r].n \notin live)
    BY <1>8 DEF Write, At, Goto, TypeOK
  <2>2. raw_queue # <<>> /\ rts[r].n = First
    BY <2>1 DEF Orderly, Holding
  <2>3. live = First .. captured /\ First <= captured
    BY <1>1, <1>3, <2>1, <2>2, FirstOf DEF Allocated
  <2>4. First' = First /\ live' = Allocated'
    BY <1>1, <1>3, <2>1 DEF Allocated, First
  <2>5. ~ub'
    <3>1. rts[r].n \in live
      BY <1>1, <2>2, <2>3
    <3>. QED
      BY <2>1, <3>1, Zenon
  <2>. QED
    BY <1>4, <2>1, <2>2, <2>4, <2>5
<1>9. CASE Free(r)
  <2>1. /\ UNCHANGED <<raw_queue, rts>> /\ rpc[r] = "free" /\ rpc'[r] = "pop"
        /\ live' = live \ {rts[r].n} /\ ub' = (rts[r].n \notin live)
    BY <1>9 DEF Free, At, Goto, TypeOK
  <2>2. raw_queue # <<>> /\ rts[r].n = First
    BY <2>1 DEF Orderly, Holding
  <2>3. live = First .. captured /\ First <= captured
    BY <1>1, <1>3, <2>1, <2>2, FirstOf DEF Allocated
  <2>4. First' = First
    BY <1>1, <2>1 DEF First
  <2>5. live' = Allocated'
    <3>1. Freed'
      BY <1>3, <2>1
    <3>2. Allocated' = First + 1 .. captured
      BY <1>1, <2>4, <3>1 DEF Allocated
    <3>. QED
      BY <1>1, <2>1, <2>2, <2>3, <3>2
  <2>6. ~ub'
    <3>1. rts[r].n \in live
      BY <1>1, <2>2, <2>3
    <3>. QED
      BY <2>1, <3>1, Zenon
  <2>. QED
    BY <1>4, <2>1, <2>2, <2>4, <2>5, <2>6
<1>10. CASE Pop(r)
  <2>1. /\ rpc[r] = "pop" /\ rpc'[r] = "index" /\ live' = live /\ PopRaw
        /\ raw_queue # <<>>
    BY <1>10 DEF Pop, At, Goto, TypeOK, Orderly, Holding
  <2>2. ub' = ub /\ raw_queue' = Tail(raw_queue)
    BY <2>1, Zenon DEF PopRaw
  <2>3. First' = First + 1
    BY <1>1, <2>1, <2>2, TailFacts DEF First, TypeOK
  <2>4. live' = Allocated'
    BY <1>1, <1>3, <2>1, <2>3 DEF Allocated
  <2>. QED
    BY <1>1, <1>4, <2>1, <2>2, <2>4 DEF Holding
<1>. QED
  BY <1>5, <1>6, <1>7, <1>8, <1>9, <1>10 DEF RecorderStep

(***************************************************************************)
(* The index: while one recording at a time is open, record_infor belongs  *)
(* to it, and its index lags behind its file by the frame in hand.         *)
(***************************************************************************)

Unindexed == {"free", "pop", "index"}

IndexKept(r) ==
    /\ \A k \in 1 .. Len(index[r]) :
          EndsAt(r, k) = EndsAt(r, k - 1) + file[r][k].len
    /\ packed_size[r] = EndsAt(r, Len(index[r]))
    /\ rpc[r] \notin Unindexed => Len(index[r]) = Len(file[r])
    /\ rpc[r] \in Unindexed => /\ Len(file[r]) = Len(index[r]) + 1
                               /\ file[r][Len(file[r])] = rts[r]

InfoKept ==
    /\ \A r \in Running : info = r /\ infoOk
    /\ cmd = "spawn" => info = started /\ infoOk
    /\ cmd # "spawn" /\ Running = {} => info = 0

Indices == InfoKept /\ \A r \in Recs : IndexKept(r)

IndicesKept == alone => Indices

LEMMA InitIndices == Init => IndicesKept
<1>. SUFFICES ASSUME Init PROVE Indices
  BY DEF IndicesKept
<1>1. Running = {} /\ info = 0 /\ cmd = "wait"
  BY DEF Init, Running
<1>2. ASSUME NEW r \in Recs PROVE IndexKept(r)
  <2>1. /\ file[r] = <<>> /\ index[r] = <<>> /\ packed_size[r] = 0
        /\ rpc[r] = "none"
    BY DEF Init
  <2>. QED
    BY <2>1 DEF IndexKept, EndsAt, Unindexed
<1>. QED
  BY <1>1, <1>2 DEF Indices, InfoKept

\* The capture thread has nothing to do with files.
LEMMA SameIndices ==
    ASSUME Indices, UNCHANGED <<rpc, rts, packed_size, file, index, info,
                                infoOk, cmd, started>>
    PROVE  Indices'
BY DEF Indices, InfoKept, IndexKept, EndsAt, Running

LEMMA CaptureIndices == ASSUME Indices, Capture PROVE Indices'
<1>1. UNCHANGED <<rpc, rts, packed_size, file, index, info, infoOk, cmd, started>>
  BY DEF Capture, CheckFull, DropFront, DropFree, DropPop, Push, recVars
<1>. QED
  BY <1>1, SameIndices

LEMMA CommandIndices ==
    ASSUME TypeOK, Control, Alone, Indices, Command PROVE Indices'
<1>1. UNCHANGED <<rts, packed_size, file, index>>
  BY DEF Command, StartMessage, OpenFiles, SpawnRecorder, StopMessage, recVars
<1>2. ASSUME NEW r \in Recs,
             \/ rpc'[r] = rpc[r]
             \/ rpc[r] = "none" /\ rpc'[r] = "look"
      PROVE  IndexKept(r)'
  BY <1>1, <1>2 DEF Indices, IndexKept, EndsAt, Unindexed
<1>3. CASE StartMessage \/ StopMessage
  <2>1. /\ UNCHANGED <<rpc, info, infoOk, started>>
        /\ cmd # "spawn" /\ cmd' # "spawn"
    BY <1>3 DEF StartMessage, StopMessage, CommandAt, recVars
  <2>2. InfoKept'
    BY <2>1 DEF Indices, InfoKept, Running
  <2>. QED
    BY <1>2, <2>1, <2>2 DEF Indices
<1>4. CASE OpenFiles
  <2>1. /\ cmd = "open" /\ cmd' = "spawn" /\ started' = started + 1
        /\ rpc' = rpc /\ info' = OpenedInfo /\ infoOk' = (info = 0)
    BY <1>4 DEF OpenFiles, CommandAt, recVars
  <2>2. Running = {}
    <3>. SUFFICES ASSUME NEW q \in Running PROVE FALSE
      OBVIOUS
    <3>1. Recording = Running \cup {started + 1}
      BY <2>1 DEF Recording
    <3>2. q = started + 1 /\ q \in Recs /\ rpc[q] # "none"
      BY <3>1 DEF Alone, Running
    <3>. QED
      BY <3>2 DEF Control, TypeOK
  <2>3. info = 0
    BY <2>1, <2>2 DEF Indices, InfoKept
  <2>4. info' = started' /\ infoOk'
    <3>1. info' = started'
      BY <2>1, <2>3 DEF OpenedInfo
    <3>2. infoOk'
      BY <2>1, <2>3, Zenon
    <3>. QED
      BY <3>1, <3>2
  <2>5. Running' = {}
    BY <2>1, <2>2 DEF Running
  <2>6. InfoKept'
    BY <2>1, <2>4, <2>5 DEF InfoKept
  <2>. QED
    BY <1>2, <2>1, <2>6 DEF Indices
<1>5. CASE SpawnRecorder
  <2>1. /\ cmd = "spawn" /\ cmd' = "wait" /\ UNCHANGED <<started, info, infoOk>>
        /\ rpc' = [rpc EXCEPT ![started] = "look"]
        /\ started \in Recs /\ rpc[started] = "none"
    BY <1>5 DEF SpawnRecorder, CommandAt, Control
  <2>2. /\ rpc'[started] = "look"
        /\ \A r \in Recs : r # started => rpc'[r] = rpc[r]
    BY <2>1 DEF TypeOK
  <2>3. Recording = Running \cup {started}
    BY <2>1 DEF Recording
  <2>4. Running \subseteq {started}
    BY <2>3 DEF Alone
  <2>5. Running' = {started}
    BY <2>1, <2>2, <2>4 DEF Running
  <2>6. info = started /\ infoOk
    BY <2>1 DEF Indices, InfoKept
  <2>7. InfoKept'
    BY <2>1, <2>5, <2>6 DEF InfoKept
  <2>8. \A r \in Recs : IndexKept(r)'
    BY <1>2, <2>1, <2>2
  <2>. QED
    BY <2>7, <2>8 DEF Indices
<1>. QED
  BY <1>3, <1>4, <1>5 DEF Command

\* A step of the recorder that neither writes nor indexes.
LEMMA QuietIndices ==
    ASSUME TypeOK, NEW r \in Recs, IndexKept(r),
           UNCHANGED <<packed_size, file, index>>,
           \/ rpc[r] \notin Unindexed /\ rpc'[r] \notin Unindexed
           \/ rpc[r] \in Unindexed /\ rpc'[r] \in Unindexed /\ rts'[r] = rts[r]
    PROVE  IndexKept(r)'
BY DEF IndexKept, EndsAt, Unindexed

LEMMA WriteIndices ==
    ASSUME TypeOK, NEW r \in Recs, IndexKept(r), Write(r)
    PROVE  IndexKept(r)'
<1>. DEFINE old == file[r]
            done == index[r]
<1>1. /\ file'[r] = Append(old, rts[r]) /\ rts' = rts
      /\ rpc[r] = "write" /\ rpc'[r] = "free"
      /\ UNCHANGED <<packed_size, index>>
  BY DEF Write, At, Goto, TypeOK
<1>2. /\ old \in Seq(RawTs) /\ rts[r] \in RawTs /\ Len(done) = Len(old)
      /\ Len(old) \in Nat
  BY <1>1 DEF TypeOK, IndexKept, Unindexed
<1>3. /\ Len(file'[r]) = Len(old) + 1 /\ file'[r][Len(old) + 1] = rts[r]
      /\ \A i \in 1 .. Len(old) : file'[r][i] = old[i]
  BY <1>1, <1>2, AppendFacts
<1>4. \A k \in 1 .. Len(done) : file'[r][k].len = file[r][k].len
  BY <1>2, <1>3
<1>. HIDE DEF old, done
<1>5. \A k \in 1 .. Len(index'[r]) :
         EndsAt(r, k)' = EndsAt(r, k - 1)' + file'[r][k].len
  BY <1>1, <1>4 DEF IndexKept, EndsAt, done
<1>6. packed_size'[r] = EndsAt(r, Len(index[r]))'
  BY <1>1 DEF IndexKept, EndsAt
<1>. QED
  BY <1>1, <1>2, <1>3, <1>5, <1>6 DEF IndexKept, Unindexed, done

LEMMA IndexIndices ==
    ASSUME TypeOK, NEW r \in Recs, IndexKept(r), WriteIndex(r), info = r, infoOk
    PROVE  IndexKept(r)'
<1>0. PICK n \in Nat : n = Len(index[r])
  BY DEF TypeOK
<1>. DEFINE done == index[r]
            size == packed_size[r] + rts[r].len
<1>1. /\ rpc[r] = "index" /\ rpc'[r] = "limit" /\ file' = file
      /\ packed_size' = [packed_size EXCEPT ![r] = size]
      /\ index' = [index EXCEPT ![r] = Append(done, Indexed(r))]
  BY DEF WriteIndex, At, Goto, TypeOK, Recs
<1>2. packed_size'[r] = size /\ Indexed(r) = size
  BY <1>1 DEF TypeOK, Indexed
<1>3. index'[r] = Append(done, size)
  BY <1>1, <1>2 DEF TypeOK
<1>4. /\ done \in Seq(Nat) /\ packed_size[r] \in Nat /\ rts[r].len \in Nat
      /\ Len(done) = n /\ size \in Nat
  BY <1>0 DEF TypeOK, RawTs
<1>5. /\ Len(index'[r]) = n + 1 /\ index'[r][n + 1] = size
      /\ \A i \in 1 .. n : index'[r][i] = index[r][i]
  <2>. HIDE DEF done, size
  <2>1. /\ Len(Append(done, size)) = n + 1 /\ Append(done, size)[n + 1] = size
        /\ \A i \in 1 .. n : Append(done, size)[i] = done[i]
    BY <1>4, AppendFacts
  <2>. QED
    BY <1>3, <2>1 DEF done
<1>6. /\ Len(file[r]) = n + 1 /\ file[r][n + 1] = rts[r]
      /\ packed_size[r] = EndsAt(r, n)
      /\ \A k \in 1 .. n : EndsAt(r, k) = EndsAt(r, k - 1) + file[r][k].len
  BY <1>0, <1>1 DEF IndexKept, Unindexed
<1>. HIDE DEF size, done
<1>7. \A k \in 0 .. n : EndsAt(r, k)' = EndsAt(r, k)
  BY <1>4, <1>5 DEF EndsAt
<1>8. EndsAt(r, n + 1)' = size
  BY <1>4, <1>5 DEF EndsAt
<1>9. ASSUME NEW k \in 1 .. n + 1
      PROVE  EndsAt(r, k)' = EndsAt(r, k - 1)' + file'[r][k].len
  <2>1. CASE k = n + 1
    <3>1. EndsAt(r, k)' = size
      BY <1>8, <2>1
    <3>2. k - 1 = n /\ n \in 0 .. n
      BY <1>4, <2>1
    <3>3. EndsAt(r, k - 1)' = EndsAt(r, n)
      BY <1>7, <3>2
    <3>4. file'[r][k].len = rts[r].len
      BY <1>1, <1>6, <2>1
    <3>. QED
      BY <1>6, <3>1, <3>3, <3>4 DEF size
  <2>2. CASE k \in 1 .. n
    <3>1. k \in 0 .. n /\ k - 1 \in 0 .. n
      BY <1>4, <2>2
    <3>2. EndsAt(r, k)' = EndsAt(r, k) /\ EndsAt(r, k - 1)' = EndsAt(r, k - 1)
      BY <1>7, <3>1
    <3>. QED
      BY <1>1, <1>6, <2>2, <3>2
  <2>. QED
    BY <1>4, <2>1, <2>2
<1>. QED
  BY <1>1, <1>2, <1>5, <1>6, <1>8, <1>9 DEF IndexKept, Unindexed

LEMMA RecorderIndices ==
    ASSUME TypeOK, Control, Alone, Indices, NEW r \in Recs, RecorderStep(r)
    PROVE  Indices'
<1>1. /\ rpc[r] \notin {"none", "gone"} /\ UNCHANGED <<cmd, started>>
      /\ \A q \in Recs : q # r => rpc'[q] = rpc[q]
  BY Moves DEF TypeOK
<1>2. Running = {r} /\ info = r /\ infoOk
  <2>1. Running = {r}
    BY <1>1, Excluded DEF Running
  <2>. QED
    BY <2>1 DEF Indices, InfoKept
<1>3. cmd # "spawn"
  <2>. SUFFICES ASSUME cmd = "spawn" PROVE FALSE
    OBVIOUS
  <2>1. Recording = {r, started}
    BY <1>2 DEF Recording
  <2>2. r = started
    BY <2>1 DEF Alone
  <2>. QED
    BY <1>1, <2>2 DEF Control
<1>4. ASSUME NEW q \in Recs, q # r PROVE IndexKept(q)'
  <2>1. /\ rpc'[q] = rpc[q] /\ rts'[q] = rts[q] /\ file'[q] = file[q]
        /\ packed_size'[q] = packed_size[q]
    BY <1>1, <1>4 DEF RecorderStep, Look, TestEmpty, Front, Write, Free, Pop,
       WriteIndex, TestLimit, Close, TypeOK
  <2>2. index'[q] = index[q]
    BY <1>2, <1>4 DEF RecorderStep, Look, TestEmpty, Front, Write, Free, Pop,
       WriteIndex, TestLimit, Close, TypeOK
  <2>. QED
    BY <2>1, <2>2 DEF Indices, IndexKept, EndsAt
<1>5. IndexKept(r)'
  <2>1. IndexKept(r)
    BY DEF Indices
  <2>2. CASE Look(r) \/ TestEmpty(r) \/ TestLimit(r) \/ Close(r)
    <3>1. /\ UNCHANGED <<packed_size, file, index>>
          /\ rpc[r] \notin Unindexed /\ rpc'[r] \notin Unindexed
      BY <2>2 DEF Look, TestEmpty, TestLimit, Close, At, Goto, Unindexed, TypeOK
    <3>. QED
      BY <2>1, <3>1, QuietIndices
  <2>3. CASE Front(r)
    <3>1. /\ UNCHANGED <<packed_size, file, index>>
          /\ rpc[r] = "front" /\ rpc'[r] \in {"front", "write"}
      BY <2>3 DEF Front, At, Goto, TypeOK
    <3>. QED
      BY <2>1, <3>1, QuietIndices DEF Unindexed
  <2>4. CASE Free(r) \/ Pop(r)
    <3>1. /\ UNCHANGED <<packed_size, file, index, rts>>
          /\ rpc[r] \in Unindexed /\ rpc'[r] \in Unindexed
      BY <2>4 DEF Free, Pop, At, Goto, Unindexed, TypeOK
    <3>. QED
      BY <2>1, <3>1, QuietIndices
  <2>5. CASE Write(r)
    BY <2>1, <2>5, WriteIndices
  <2>6. CASE WriteIndex(r)
    BY <1>2, <2>1, <2>6, IndexIndices
  <2>. QED
    BY <2>2, <2>3, <2>4, <2>5, <2>6 DEF RecorderStep
<1>6. InfoKept'
  <2>1. CASE Close(r)
    <3>1. info' = 0 /\ rpc'[r] = "gone"
      BY <2>1 DEF Close, Goto, TypeOK
    <3>2. Running' = {}
      BY <1>1, <1>2, <3>1 DEF Running
    <3>. QED
      BY <1>1, <1>3, <3>1, <3>2 DEF InfoKept
  <2>2. CASE ~Close(r)
    <3>1. info' = info /\ infoOk' = infoOk /\ rpc'[r] \notin {"none", "gone"}
      BY <2>2 DEF RecorderStep, Look, TestEmpty, Front, Write, Free, Pop,
         WriteIndex, TestLimit, At, Goto, TypeOK
    <3>2. Running' = {r}
      BY <1>1, <1>2, <3>1 DEF Running
    <3>. QED
      BY <1>1, <1>2, <1>3, <3>1, <3>2 DEF InfoKept
  <2>. QED
    BY <2>1, <2>2
<1>. QED
  BY <1>4, <1>5, <1>6 DEF Indices

(***************************************************************************)
(* The theorems.                                                           *)
(***************************************************************************)

IInv == /\ TypeOK /\ Control /\ Consecutive /\ RingKept /\ FilesKept /\ Sound
        /\ IndicesKept

LEMMA Inductive == Init => IInv
BY InitTypes, InitControl, InitQueue, InitFiles, InitSound, InitIndices DEF IInv

LEMMA Preserved == IInv /\ [Next]_vars => IInv'
<1>. SUFFICES ASSUME IInv, [Next]_vars PROVE IInv'
  OBVIOUS
<1>. USE DEF IInv
<1>1. CASE UNCHANGED vars
  <2>. USE <1>1 DEF vars, capVars, recVars, First
  <2>1. TypeOK' /\ Control'
    BY DEF TypeOK, Control
  <2>2. Consecutive' /\ RingKept'
    BY DEF Consecutive, RingKept, RingBounded
  <2>3. FilesKept'
    BY DEF FilesKept, FileKept
  <2>4. Alone' = Alone
    BY DEF Alone, Recording, Running, Trimming
  <2>5. Orderly' = Orderly
    BY DEF Orderly, Trimming, Allocated, Freed
  <2>6. IndicesKept'
    BY SameIndices DEF IndicesKept
  <2>. QED
    BY <2>1, <2>2, <2>3, <2>4, <2>5, <2>6 DEF Sound
<1>2. CASE Next
  <2>1. alone' \in BOOLEAN /\ (alone' => alone /\ Alone')
    <3>1. alone' = (alone /\ Alone')
      BY <1>2, Zenon DEF Next, History
    <3>. QED
      BY <3>1, Zenon
  <2>2. CASE Capture
    <3>1. TypeOK' /\ Control' /\ Consecutive' /\ RingKept' /\ FilesKept'
      BY <2>1, <2>2, CaptureTypes, CaptureControl, CaptureQueue, CaptureFiles
    <3>2. Sound'
      BY <2>1, <2>2, <3>1, CaptureOrderly DEF Sound
    <3>3. IndicesKept'
      BY <2>1, <2>2, CaptureIndices DEF Sound, IndicesKept
    <3>. QED
      BY <3>1, <3>2, <3>3
  <2>3. CASE Command
    <3>1. TypeOK' /\ Control' /\ Consecutive' /\ RingKept' /\ FilesKept'
      BY <2>1, <2>3, CommandTypes, CommandQueue, CommandFiles
    <3>2. Sound'
      BY <2>1, <2>3, CommandOrderly DEF Sound
    <3>3. IndicesKept'
      BY <2>1, <2>3, CommandIndices DEF Sound, IndicesKept
    <3>. QED
      BY <3>1, <3>2, <3>3
  <2>4. ASSUME NEW r \in Recs, RecorderStep(r) PROVE IInv'
    <3>1. TypeOK' /\ Control' /\ Consecutive' /\ RingKept' /\ FilesKept'
      BY <2>1, <2>4, RecorderTypes, Moves, RecorderQueue, RecorderFiles
    <3>2. Sound'
      BY <2>1, <2>4, RecorderOrderly DEF Sound
    <3>3. IndicesKept'
      BY <2>1, <2>4, RecorderIndices DEF Sound, IndicesKept
    <3>. QED
      BY <3>1, <3>2, <3>3
  <2>. QED
    BY <1>2, <2>2, <2>3, <2>4 DEF Next
<1>. QED
  BY <1>1, <1>2

LEMMA Invariant == Spec => []IInv
<1>1. Init => IInv
  BY Inductive
<1>2. IInv /\ [Next]_vars => IInv'
  BY Preserved
<1>. QED
  BY <1>1, <1>2, PTL DEF Spec

LEMMA SoundFrames ==
    ASSUME IInv PROVE NoUndefinedBehaviour /\ NoFrameLost
<1>1. NoUndefinedBehaviour
  BY DEF IInv, Sound, Orderly, NoUndefinedBehaviour
<1>2. ASSUME alone, NEW n \in live
      PROVE  \E i \in 1 .. Len(raw_queue) : raw_queue[i].n = n
  <2>1. /\ First \in Int /\ captured \in Nat /\ Len(raw_queue) \in Nat
        /\ First = captured + 1 - Len(raw_queue)
    BY DEF IInv, TypeOK, First
  <2>2. n \in First .. captured
    BY <1>2, <2>1 DEF IInv, Sound, Orderly, Allocated
  <2>3. n - First + 1 \in 1 .. Len(raw_queue)
    BY <2>1, <2>2
  <2>4. raw_queue[n - First + 1].n = First + (n - First + 1) - 1
    BY <2>3 DEF IInv, Consecutive
  <2>5. raw_queue[n - First + 1].n = n
    BY <2>1, <2>2, <2>4
  <2>. QED
    BY <2>3, <2>5
<1>. QED
  BY <1>1, <1>2 DEF NoFrameLost

\* The queue without a lock: for any length of ring, any number of recordings
\* and any sizes of frames, raw_queue never holds more than one frame over
\* pre_record_seconds; and as long as one thread at a time takes frames out of
\* it, no frame is freed twice, used after free() or lost.
THEOREM QueueKept == Spec => []QueueSound
<1>1. IInv => QueueSound
  BY SoundFrames DEF IInv, RingKept, QueueSound
<1>. QED
  BY <1>1, Invariant, PTL

\* Whatever recorders and the capture thread do to raw_queue at once, each
\* recording holds its frames in the order of capture, none of them twice, up
\* to the step that ends in undefined behaviour.
THEOREM FilesOrdered == Spec => []FilesInOrder
<1>1. IInv => FilesInOrder
  BY DEF IInv, FilesKept, FileKept, FilesInOrder
<1>. QED
  BY <1>1, Invariant, PTL

\* While one recording at a time is open, each frame of a file lies where its
\* index says, and a recording that is over has all its frames indexed.
LEMMA IndexTrue == ASSUME IInv PROVE IndexIsTrue
<1>. SUFFICES ASSUME alone, NEW r \in Recs
              PROVE  /\ Len(index[r]) <= Len(file[r])
                     /\ \A k \in 1 .. Len(index[r]) :
                           EndsAt(r, k) = EndsAt(r, k - 1) + file[r][k].len
                     /\ rpc[r] = "gone" => Len(index[r]) = Len(file[r])
  BY DEF IndexIsTrue
<1>1. IndexKept(r) /\ Len(index[r]) \in Nat
  BY DEF IInv, IndicesKept, Indices, TypeOK
<1>. QED
  BY <1>1 DEF IndexKept, Unindexed

\* What a recording leaves on the disk is true, for any sizes of frames and any
\* number of recordings: frames in order, each where the index says.
THEOREM FilesHold == Spec => []FilesTrue
<1>1. IInv => FilesTrue
  BY IndexTrue DEF IInv, FilesKept, FileKept, FilesInOrder, FilesTrue
<1>. QED
  BY <1>1, Invariant, PTL

=============================================================================
