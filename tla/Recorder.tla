----------------------------- MODULE Recorder -----------------------------
(***************************************************************************)
(* The recorder of V4l2MmapDevice.  The capture thread encodes every frame *)
(* and keeps the last of them in raw_queue; a Redis message "true" starts  *)
(* a detached thread (save_image_disk) that empties raw_queue into a file  *)
(* and an index, any other message stops recording.  Nothing locks         *)
(* raw_queue, need_record or record_infor: each call of std::queue, each   *)
(* read or write of need_record and each file operation is a step of its   *)
(* own.  Undefined behaviour (use of freed memory, a second free, front()  *)
(* or pop() of an empty queue) ends the process: the model says nothing of *)
(* what comes after it.                                                    *)
(***************************************************************************)
EXTENDS Naturals, Sequences

CONSTANTS
    Pre,          \* pre_record_seconds: frames kept before a recording
    PackSize,     \* record_pack_size
    Sizes,        \* encoded sizes of a frame
    MaxFrames,    \* bound: frames captured
    MaxRecs       \* bound: recordings started

ASSUME PreAssumption   == Pre \in Nat \ {0}
ASSUME SizesAssumption == Sizes \subseteq Nat /\ PackSize \in Nat
ASSUME BoundAssumption == MaxFrames \in Nat /\ MaxRecs \in Nat

Recs == 1 .. MaxRecs

VARIABLES
    raw_queue,    \* frames [n, len] not yet recorded, oldest first
    live,         \* frames whose memory is allocated
    captured,     \* number of frames captured
    cpc, temp,    \* the capture thread: control state, the frame it drops
    need_record,
    cmd,          \* the command thread: control state
    started,      \* number of recordings started
    rpc, rts,     \* each recorder: control state, the frame in its hands
    packed_size,  \* each recorder: bytes written to its file
    file,         \* each recorder: the frames written to its .264 file
    info,         \* record_infor: the recording whose .info is open, 0 if none
    infoOk,       \* record_infor is in a good state
    index,        \* the .info file of each recording: cumulative sizes
    ub,           \* undefined behaviour has ended the process
    alone         \* history: raw_queue has had one consumer at a time

capVars == <<captured, cpc, temp>>
recVars == <<rpc, rts, packed_size, file, index>>
vars == <<raw_queue, live, capVars, need_record, cmd, started, recVars, info,
          infoOk, ub, alone>>

RawTs == [n : Nat, len : Nat]

Init == /\ raw_queue = <<>> /\ live = {} /\ captured = 0
        /\ cpc = "encode" /\ temp = [n |-> 0, len |-> 0]
        /\ need_record = FALSE /\ cmd = "wait" /\ started = 0
        /\ rpc = [r \in Recs |-> "none"]
        /\ rts = [r \in Recs |-> [n |-> 0, len |-> 0]]
        /\ packed_size = [r \in Recs |-> 0]
        /\ file = [r \in Recs |-> <<>>] /\ index = [r \in Recs |-> <<>>]
        /\ info = 0 /\ infoOk = TRUE /\ ub = FALSE /\ alone = TRUE

Running == {r \in Recs : rpc[r] \notin {"none", "gone"}}

\* Recordings that run or are being started, and the capture thread between
\* its look at a full ring and its pop, take frames out of raw_queue.
Recording == CASE cmd = "open"  -> Running \cup {started + 1}
               [] cmd = "spawn" -> Running \cup {started}
               [] cmd = "wait"  -> Running

Trimming == cpc \in {"front", "free", "pop"}

Alone == \A r \in Recording : ~Trimming /\ Recording = {r}

-----------------------------------------------------------------------------
(* The capture thread, in readInternal. *)

CaptureAt(pc) == ~ub /\ cpc = pc

Full == Len(raw_queue) > Pre

CheckFull == /\ CaptureAt("encode") /\ captured < MaxFrames
             /\ cpc' = IF Full THEN "front" ELSE "push"
             /\ UNCHANGED <<raw_queue, live, captured, temp, need_record, cmd,
                            started, recVars, info, infoOk, ub>>

DropFront == /\ CaptureAt("front")
             /\ IF raw_queue = <<>>
                  THEN ub' = TRUE /\ UNCHANGED <<cpc, temp>>
                  ELSE /\ temp' = Head(raw_queue) /\ cpc' = "free"
                       /\ UNCHANGED ub
             /\ UNCHANGED <<raw_queue, live, captured, need_record, cmd,
                            started, recVars, info, infoOk>>

DropFree == /\ CaptureAt("free")
            /\ live' = live \ {temp.n}
            /\ ub' = (temp.n \notin live)
            /\ cpc' = "pop"
            /\ UNCHANGED <<raw_queue, captured, temp, need_record, cmd,
                           started, recVars, info, infoOk>>

\* pop() of an empty queue is undefined, like front().
PopRaw == IF raw_queue = <<>> THEN ub' = TRUE /\ UNCHANGED raw_queue
                              ELSE raw_queue' = Tail(raw_queue) /\ UNCHANGED ub

DropPop == /\ CaptureAt("pop")
           /\ PopRaw
           /\ cpc' = "push"
           /\ UNCHANGED <<live, captured, temp, need_record, cmd, started,
                          recVars, info, infoOk>>

Push == /\ CaptureAt("push")
        /\ captured' = captured + 1
        /\ live' = live \cup {captured'}
        /\ \E len \in Sizes :
              raw_queue' = Append(raw_queue, [n |-> captured', len |-> len])
        /\ cpc' = "encode"
        /\ UNCHANGED <<temp, need_record, cmd, started, recVars, info, infoOk,
                       ub>>

Capture == CheckFull \/ DropFront \/ DropFree \/ DropPop \/ Push

-----------------------------------------------------------------------------
(* The command thread: sub.on_message. *)

CommandAt(pc) == ~ub /\ cmd = pc

StartMessage == /\ CommandAt("wait") /\ started < MaxRecs
                /\ need_record' = TRUE
                /\ cmd' = "open"
                /\ UNCHANGED <<raw_queue, live, capVars, started, recVars,
                               info, infoOk, ub>>

\* Opening record_infor while it is open fails and leaves it in a bad state.
OpenedInfo == IF info = 0 THEN started' ELSE info

OpenFiles == /\ CommandAt("open")
             /\ started' = started + 1
             /\ info' = OpenedInfo
             /\ infoOk' = (info = 0)
             /\ cmd' = "spawn"
             /\ UNCHANGED <<raw_queue, live, capVars, need_record, recVars, ub>>

SpawnRecorder == /\ CommandAt("spawn")
                 /\ rpc' = [rpc EXCEPT ![started] = "look"]
                 /\ cmd' = "wait"
                 /\ UNCHANGED <<raw_queue, live, capVars, need_record, started,
                                rts, packed_size, file, index, info, infoOk, ub>>

StopMessage == /\ CommandAt("wait") /\ need_record
               /\ need_record' = FALSE
               /\ UNCHANGED <<raw_queue, live, capVars, cmd, started, recVars,
                              info, infoOk, ub>>

Command == StartMessage \/ OpenFiles \/ SpawnRecorder \/ StopMessage

-----------------------------------------------------------------------------
(* A recorder thread: save_image_disk. *)

At(r, pc) == ~ub /\ rpc[r] = pc

Goto(r, pc) == rpc' = [rpc EXCEPT ![r] = pc]

\* Fault: need_record, a plain bool, is read once and kept in a register.
LookOnce(r) == /\ At(r, "look")
               /\ Goto(r, "empty")
               /\ UNCHANGED <<raw_queue, live, capVars, need_record, cmd,
                              started, rts, packed_size, file, index, info,
                              infoOk, ub>>

Look(r) == /\ At(r, "look")
           /\ Goto(r, IF need_record THEN "empty" ELSE "close")
           /\ UNCHANGED <<raw_queue, live, capVars, need_record, cmd, started,
                          rts, packed_size, file, index, info, infoOk, ub>>

NothingKept == raw_queue = <<>>

TestEmpty(r) == /\ At(r, "empty")
                /\ Goto(r, IF NothingKept THEN "limit" ELSE "front")
                /\ UNCHANGED <<raw_queue, live, capVars, need_record, cmd,
                               started, rts, packed_size, file, index, info,
                               infoOk, ub>>

Front(r) == /\ At(r, "front")
            /\ IF raw_queue = <<>>
                 THEN ub' = TRUE /\ UNCHANGED <<rts, rpc>>
                 ELSE /\ rts' = [rts EXCEPT ![r] = Head(raw_queue)]
                      /\ Goto(r, "write") /\ UNCHANGED ub
            /\ UNCHANGED <<raw_queue, live, capVars, need_record, cmd, started,
                           packed_size, file, index, info, infoOk>>

\* fwrite reads the memory of the frame.
Write(r) == /\ At(r, "write")
            /\ ub' = (rts[r].n \notin live)
            /\ file' = [file EXCEPT ![r] = Append(@, rts[r])]
            /\ Goto(r, "free")
            /\ UNCHANGED <<raw_queue, live, capVars, need_record, cmd, started,
                           rts, packed_size, index, info, infoOk>>

Free(r) == /\ At(r, "free")
           /\ live' = live \ {rts[r].n}
           /\ ub' = (rts[r].n \notin live)
           /\ Goto(r, "pop")
           /\ UNCHANGED <<raw_queue, capVars, need_record, cmd, started, rts,
                          packed_size, file, index, info, infoOk>>

\* Fault: the frame stays in the queue.
PopForgotten(r) ==
    /\ At(r, "pop")
    /\ Goto(r, "index")
    /\ UNCHANGED <<raw_queue, live, capVars, need_record, cmd, started, rts,
                   packed_size, file, index, info, infoOk, ub>>

Pop(r) == /\ At(r, "pop")
          /\ PopRaw
          /\ Goto(r, "index")
          /\ UNCHANGED <<live, capVars, need_record, cmd, started, rts,
                         packed_size, file, index, info, infoOk>>

\* Fault: the index gives the size of each frame.
IndexedAlone(r) == rts[r].len

Indexed(r) == packed_size'[r]

WriteIndex(r) ==
    /\ At(r, "index")
    /\ packed_size' = [packed_size EXCEPT ![r] = @ + rts[r].len]
    /\ index' = IF info # 0 /\ infoOk
                  THEN [index EXCEPT ![info] = Append(@, Indexed(r))]
                  ELSE index
    /\ Goto(r, "limit")
    /\ UNCHANGED <<raw_queue, live, capVars, need_record, cmd, started, rts,
                   file, info, infoOk, ub>>

OverLimit(r) == packed_size[r] > PackSize

TestLimit(r) ==
    /\ At(r, "limit")
    /\ need_record' = (need_record /\ ~OverLimit(r))
    /\ Goto(r, "look")
    /\ UNCHANGED <<raw_queue, live, capVars, cmd, started, rts, packed_size,
                   file, index, info, infoOk, ub>>

\* record_infor.close() fails when it is not open; fclose() of its own file.
Close(r) == /\ At(r, "close")
            /\ info' = 0
            /\ infoOk' = (infoOk /\ info # 0)
            /\ Goto(r, "gone")
            /\ UNCHANGED <<raw_queue, live, capVars, need_record, cmd, started,
                           rts, packed_size, file, index, ub>>

RecorderStep(r) == \/ Look(r)  \/ TestEmpty(r) \/ Front(r) \/ Write(r)
                   \/ Free(r)  \/ Pop(r)       \/ WriteIndex(r)
                   \/ TestLimit(r) \/ Close(r)

History == alone' = (alone /\ Alone')

Next == (Capture \/ Command \/ \E r \in Recs : RecorderStep(r)) /\ History

\* Every thread that runs goes on running; the device and the client of Redis
\* owe nothing, but a recording once asked for is started.
Spec == /\ Init /\ [][Next]_vars
        /\ WF_vars((OpenFiles \/ SpawnRecorder) /\ History)
        /\ \A r \in Recs : WF_vars(RecorderStep(r) /\ History)

-----------------------------------------------------------------------------
(* Properties. *)

CapturePcs  == {"encode", "front", "free", "pop", "push"}
RecorderPcs == {"none", "look", "empty", "front", "write", "free", "pop",
                "index", "limit", "close", "gone"}

TypeOK ==
    /\ raw_queue \in Seq(RawTs) /\ live \subseteq 1 .. captured
    /\ captured \in Nat /\ cpc \in CapturePcs /\ temp \in RawTs
    /\ need_record \in BOOLEAN /\ cmd \in {"wait", "open", "spawn"}
    /\ started \in 0 .. MaxRecs
    /\ rpc \in [Recs -> RecorderPcs] /\ rts \in [Recs -> RawTs]
    /\ packed_size \in [Recs -> Nat]
    /\ file \in [Recs -> Seq(RawTs)] /\ index \in [Recs -> Seq(Nat)]
    /\ info \in 0 .. MaxRecs /\ infoOk \in BOOLEAN
    /\ ub \in BOOLEAN /\ alone \in BOOLEAN

\* The ring of frames kept before a recording never holds more than one frame
\* over pre_record_seconds, whoever else takes frames out of it.
RingBounded == Len(raw_queue) <= Pre + 1

\* A recording holds its frames in the order of capture and none of them
\* twice, whatever other recorders and the capture thread do to raw_queue.
FilesInOrder ==
    \A r \in Recs : \A i, j \in 1 .. Len(file[r]) :
        i < j => file[r][i].n < file[r][j].n

\* While recordings do not overlap and the capture thread trims a full ring
\* between them only, the unlocked queue is used soundly: no frame is freed
\* twice or used after it was freed, and no call of std::queue finds it empty.
NoUndefinedBehaviour == alone => ~ub

\* Under the same condition every frame whose memory is allocated is in the
\* queue, or in the hands of the thread that will free it.
NoFrameLost ==
    alone => \A n \in live :
        \/ \E i \in 1 .. Len(raw_queue) : raw_queue[i].n = n
        \/ \E r \in Recs : rpc[r] \in {"write", "free"} /\ rts[r].n = n

\* An index tells where each frame of the file ends: an entry exceeds the one
\* before it by the size of its frame.  A recording that is over has an entry
\* for each of its frames, unless another recording shared record_infor with
\* it.
EndsAt(r, k) == IF k = 0 THEN 0 ELSE index[r][k]

IndexIsTrue ==
    alone => \A r \in Recs :
        /\ Len(index[r]) <= Len(file[r])
        /\ \A k \in 1 .. Len(index[r]) :
              EndsAt(r, k) = EndsAt(r, k - 1) + file[r][k].len
        /\ rpc[r] = "gone" => Len(index[r]) = Len(file[r])

\* Once recording is off for good, every recorder ends and closes its files.
RecordersEnd ==
    <>[]~need_record => <>[](ub \/ (Running = {} /\ cmd = "wait"))

\* While a recording goes on, the frames kept from before it started are
\* written one after the other.
Waiting(n) == \E i \in 1 .. Len(raw_queue) : raw_queue[i].n = n

KeptFramesRecorded ==
    \A n \in 1 .. MaxFrames :
        Waiting(n) /\ Running # {} ~> ~Waiting(n) \/ ~need_record \/ ub

\* The unlocked queue serves the capture thread and a recorder: no frame is
\* freed twice or lost while they keep out of each other's way, and the ring is
\* bounded always.
QueueSound == TypeOK /\ NoUndefinedBehaviour /\ NoFrameLost /\ RingBounded

\* What a recording leaves on the disk is true: frames in order, each of them
\* where the index says.
FilesTrue == FilesInOrder /\ IndexIsTrue

\* A recorder writes what was kept for it, and ends when it should.
RecordersServe == KeptFramesRecorded /\ RecordersEnd

=============================================================================
