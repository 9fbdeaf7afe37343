--------------------------- MODULE BufferController ---------------------------
(***************************************************************************)
(* The buffer controller of the player (hls.js, controller/                *)
(* buffer-controller.js) when the stream has alternate audio: two source   *)
(* buffers of one media source, a queue of segments the main and the audio *)
(* stream controllers put into it, and the flushes they ask for.           *)
(*                                                                         *)
(* This module holds its state, a record b, and the operations that call   *)
(* nobody else; AudioStreamController has the handlers that trigger events.*)
(* A source buffer holds whole fragments ("cells" of the time line); the   *)
(* two boxes of a fragment, moof and mdat, are one segment.                *)
(***************************************************************************)
EXTENDS Integers, Sequences, FiniteSets, SequencesExt

CONSTANTS
  LastSN,       \* the playlists hold fragments 0..LastSN
  Tracks        \* alternate audio tracks

ASSUME PlaylistAssumption == LastSN \in Nat /\ 0 \in Tracks /\ Tracks \subseteq Nat

Cells == 0..LastSN
End == LastSN + 1
Types == {"audio", "video"}
None == -1

(* A segment: an init segment, or the samples of a fragment.  Audio ones   *)
(* come from the audio stream controller, video ones from the main one.    *)
Segment(type, of, kind, cell) == [type |-> type, of |-> of, kind |-> kind, cell |-> cell]
Idle == [op |-> "idle", seg |-> Segment("audio", None, "init", None), cells |-> {}]
Appends(seg) == [Idle EXCEPT !.op = "append", !.seg = seg]
Removes(cells) == [Idle EXCEPT !.op = "remove", !.cells = cells]

(* b.appended only matters below this: no range is in more pieces.         *)
MaxAppended == LastSN + 2
More(n) == IF n = MaxAppended THEN n ELSE n + 1

NoBuffers ==
  [made |-> FALSE, order |-> <<>>,                 \* source buffers; tracks
   seg |-> <<>>, appending |-> FALSE, parent |-> "video",
   now |-> [t \in Types |-> Idle],                 \* SourceBuffer.updating
   buf |-> [t \in Types |-> [c \in Cells |-> None]],
   cfg |-> [t \in Types |-> None],                 \* init segment in force
   ended |-> [t \in Types |-> FALSE],
   flush |-> <<>>, needs |-> FALSE, cnt |-> 0, appended |-> 0,
   eos |-> FALSE, ms |-> "closed", err |-> FALSE,
   late |-> 0, noinit |-> {}, nodata |-> {}, robbed |-> {},
   overlap |-> FALSE, next |-> "ok"]

Updating(b) == {t \in Types : b.now[t].op # "idle"}
Filled(b, t) == {c \in Cells : b.buf[t][c] # None}

BufferInfo(b, t, pos) ==
  LET end == CHOOSE e \in pos..End : pos..e - 1 \subseteq Filled(b, t) /\ e \notin Filled(b, t)
  IN [len |-> end - pos, end |-> end]
-----------------------------------------------------------------------------
(* The source buffer: what an update that ends leaves behind.              *)
UpdateDone(b, t) ==
  LET o == b.now[t]
      done == [b EXCEPT !.now[t] = Idle]
  IN CASE o.op = "remove" ->
            [done EXCEPT !.buf[t] = [c \in Cells |-> IF c \in o.cells THEN None ELSE @[c]]]
       [] o.seg.kind = "init" -> [done EXCEPT !.cfg[t] = o.seg.of]
       [] OTHER -> [done EXCEPT !.buf[t][o.seg.cell] = o.seg.of]

(* One that starts while another goes on; overlap remembers that there was *)
(* one beside another: their updateends cannot be told apart.              *)
Start(b, t, o) ==
  [b EXCEPT !.now[t] = o, !.ms = "open", !.overlap = @ \/ Updating(b) # {}]
-----------------------------------------------------------------------------
(* BUFFER_CODECS, while there are no source buffers: keep the track; with  *)
(* both tracks of altAudio there, both source buffers are created at once. *)
OnBufferCodecs(b, t) ==
  LET order == IF b.made \/ \E i \in DOMAIN b.order : b.order[i] = t
               THEN b.order ELSE Append(b.order, t)
  IN [b EXCEPT !.order = order, !.made = @ \/ (Len(order) = 2 /\ b.ms = "open")]

(* endOfStream() when every source buffer is marked ended and none is      *)
(* busy; the first one that is not ready decides, and only a busy one      *)
(* makes the check come back.                                              *)
ForgetEos(b) ==
  LET held == SelectSeq(b.order, LAMBDA t : ~b.ended[t] \/ t \in Updating(b))
  IN CASE b.ms # "open" -> [b EXCEPT !.eos = FALSE]
       [] b.made /\ held # <<>> -> b
       [] OTHER -> [b EXCEPT !.eos = FALSE, !.ms = "ended"]
CheckEos(b) ==
  LET ready(t) == b.ended[t] /\ t \notin Updating(b)
      held == SelectSeq(b.order, LAMBDA t : ~ready(t))
  IN CASE b.ms # "open" -> [b EXCEPT !.eos = FALSE]
       [] b.made /\ held # <<>> -> [b EXCEPT !.eos = @ \/ b.ended[Head(held)]]
       [] OTHER -> [b EXCEPT !.eos = FALSE, !.ms = "ended"]

OnBufferEos(b, t) ==
  CheckEos([b EXCEPT !.ended[t] = @ \/ b.made])

(* The first piece of a set of cells: cells next to each other.            *)
FirstRun(S) ==
  LET first == CHOOSE c \in S : \A d \in S : c <= d
  IN {c \in S : first..c \subseteq S}
Pieces(b, t) == Cardinality({c \in Filled(b, t) : c - 1 \notin Filled(b, t)})

(* flushBuffer for the first range of the queue: TRUE in done when there   *)
(* is nothing of it left, or when there were more removals than appends.   *)
FlushBuffer(b) ==
  LET r == Head(b.flush)
      b1 == [b EXCEPT !.ended[r.type] = FALSE]
      left == Filled(b, r.type) \cap r.cells
  IN CASE ~b.made \/ b.cnt >= b.appended -> [done |-> TRUE, b |-> b]
       [] r.type \in Updating(b) -> [done |-> FALSE, b |-> b1]
       [] left = {} -> [done |-> TRUE, b |-> b1]
       [] OTHER -> [done |-> FALSE,
                    b |-> [Start(b1, r.type, Removes(FirstRun(left))) EXCEPT !.cnt = @ + 1]]

(* doFlush without its event: the queue is empty when all is flushed.      *)
RECURSIVE FlushRanges(_)
FlushRanges(b) ==
  IF b.flush = <<>>
  THEN [b EXCEPT !.needs = FALSE,
                 !.appended = Pieces(b, "audio") + Pieces(b, "video")]
  ELSE LET r == FlushBuffer(b)
       IN IF r.done THEN FlushRanges([r.b EXCEPT !.flush = Tail(@), !.cnt = 0])
          ELSE [r.b EXCEPT !.needs = TRUE]

(* appendBuffer() throws.  QuotaExceededError empties the queue, whoever   *)
(* the segments belong to (robbed says whom it hit without an event); any  *)
(* other error puts the segment back, and nothing tries it again soon.     *)
Thrown(b) ==
  LET s == Head(b.seg)
      others == {t \in Types \ {s.type} : \E i \in DOMAIN b.seg : b.seg[i].type = t}
      b1 == [b EXCEPT !.ended[s.type] = FALSE, !.parent = s.type, !.next = "ok"]
  IN IF b.next = "full" THEN [b1 EXCEPT !.seg = <<>>, !.robbed = @ \cup others]
     ELSE [b1 EXCEPT !.err = TRUE]

Appended(b) ==
  LET s == Head(b.seg)
  IN [Start(b, s.type, Appends(s)) EXCEPT
        !.seg = Tail(@), !.ended[s.type] = FALSE, !.parent = s.type,
        !.appending = TRUE, !.appended = More(@), !.err = FALSE]

(* MEDIA_DETACHING.  appending, needs and eos stay as they are; the browser *)
(* ends the updates in progress, and their updateend comes late.            *)
Detached(b) ==
  [NoBuffers EXCEPT !.appending = b.appending, !.parent = b.parent, !.needs = b.needs,
                    !.cnt = b.cnt, !.eos = b.eos, !.err = b.err, !.next = b.next,
                    !.late = Cardinality(Updating(b))]
=============================================================================
