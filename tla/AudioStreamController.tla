------------------------ MODULE AudioStreamController ------------------------
(***************************************************************************)
(* Alternate audio in the player (hls.js): the audio stream controller     *)
(* (controller/audio-stream-controller.js) and the audio track controller  *)
(* beside the main stream controller, and the buffer controller both send  *)
(* their segments to.                                                      *)
(*                                                                         *)
(* Events are synchronous calls, so a handler, the events it triggers and  *)
(* what their listeners do are one action: an operator on the world w, the *)
(* record of the buffer controller (b), the audio controller (a), the main *)
(* controller (m) and the messages of the audio demuxer's worker (k).  The *)
(* main controller is an abstraction of StreamController: it loads the     *)
(* video of one level, fragment after fragment, and answers the events the *)
(* two controllers share.                                                  *)
(***************************************************************************)
EXTENDS BufferController

CONSTANTS
  SecondPart,   \* fragments after a discontinuity: their cc is 1, the others' 0
  MaxRetry,     \* fragLoadingMaxRetry
  Lag,          \* bound: messages the worker still owes when a fragment arrives
  Faults,       \* bound: failures of the network and of appendBuffer, or
  Moves         \* bound: calls of the user, in behaviours without failures

ASSUME BoundsAssumption ==
  /\ \A c \in SecondPart : c \in Cells /\ c..LastSN \subseteq SecondPart
  /\ MaxRetry \in Nat /\ Lag \in Nat /\ Faults \in Nat /\ Moves \in Nat

VARIABLES
  bc,     \* buffer controller and source buffers
  au,     \* audio stream controller, its requests, the selected track
  mn,     \* main stream controller
  wk,     \* messages of the audio demuxer's worker
  md,     \* media element
  env     \* what is left of the bounds
vars == <<bc, au, mn, wk, md, env>>

CC == {0, 1}
Cc(c) == IF c \in SecondPart THEN 1 ELSE 0
Frags == Tracks \X Cells
NoFrag == <<None, None>>
Cell(f) == f[2]
Undefined == -2

States == {"STOPPED", "STARTING", "IDLE", "FRAG_LOADING", "FRAG_LOADING_WAITING_RETRY",
           "WAITING_TRACK", "PARSING", "PARSED", "BUFFER_FLUSHING", "ENDED", "ERROR",
           "WAITING_INIT_PTS"}
MainStates == {"stopped", "idle", "parsing", "append", "flush", "ended"}
-----------------------------------------------------------------------------
(* The choice of an audio fragment, and tick().                            *)

(* findFragWithCC: a binary search, which takes any fragment of the cc.    *)
FragWithCC(cc) ==
  LET search[lo, hi \in -1..End] ==
        LET mid == (lo + hi) \div 2
        IN CASE lo > hi -> None
             [] lo <= hi /\ Cc(mid) < cc -> search[mid + 1, hi]
             [] lo <= hi /\ Cc(mid) > cc -> search[lo, mid - 1]
             [] OTHER -> mid
  IN search[0, LastSN]

(* The fragment at the end of the buffer or, while the track is switched,  *)
(* at the position; the next one when that was just loaded.                *)
FindFragment(a, bufferEnd) ==
  LET n == IF bufferEnd < End THEN bufferEnd ELSE LastSN
  IN CASE bufferEnd <= 0 ->
            IF a.vcc \notin {None, Cc(0)} THEN FragWithCC(a.vcc) ELSE 0
       [] bufferEnd > 0 /\ a.prev = <<a.track, n>> -> IF n < LastSN THEN n + 1 ELSE None
       [] OTHER -> n

LoadBehindAnother(a, n) ==
  LET f == <<a.track, n>>
  IN [a EXCEPT !.cur = f, !.req = TRUE, !.nextLoad = n + 1, !.state = "FRAG_LOADING",
               !.xhr = IF @ = NoFrag THEN f ELSE @]

(* FRAG_LOADING: the fragment loader replaces the request under way.       *)
LoadFragment(a, n) ==
  LET f == <<a.track, n>>
  IN [a EXCEPT !.cur = f, !.req = TRUE, !.nextLoad = n + 1, !.xhr = f,
               !.state = "FRAG_LOADING"]

DoTickIdle(w) ==
  LET a    == w.a
      pos  == IF a.meta THEN md.pos ELSE a.nextLoad
      info == BufferInfo(w.b, "audio", pos)
      last == a.prev # NoFrag /\ Cell(a.prev) = LastSN
      pick == FindFragment(a, IF a.sw THEN pos ELSE info.end)
  IN CASE ~a.att \/ pos = Undefined -> w
       [] info.len >= a.cap /\ ~a.sw -> w
       [] a.track \notin a.det -> [w EXCEPT !.a.state = "WAITING_TRACK"]
       [] ~a.sw /\ last /\ (~md.seek \/ info.end = End) ->
            [w EXCEPT !.b = OnBufferEos(@, "audio"), !.a.state = "ENDED"]
       [] pick = None -> w
       [] OTHER -> [w EXCEPT !.a = LoadFragment(a, pick)]

PushSameDecoder(w, f) ==
  LET l == w.a.dlast
      new == l = NoFrag \/ Cc(Cell(l)) # Cc(Cell(f))
      msg(kind) == [kind |-> kind, of |-> f]
  IN [w EXCEPT !.a = [@ EXCEPT !.state = "PARSING", !.pend = TRUE, !.dlast = f,
                            !.mixed = w.k # <<>>],
               !.k = @ \o (IF new THEN <<msg("init")>> ELSE <<>>)
                       \o <<msg("data"), msg("parsed")>>]

(* Demuxer.push: the worker answers with an init segment after a track     *)
(* switch or a discontinuity, then the samples and the end.  Nobody waits  *)
(* for the messages of an earlier fragment; mixed remembers that there     *)
(* were some.                                                              *)
Push(w, f) ==
  LET l == w.a.dlast
      new == l = NoFrag \/ l[1] # f[1] \/ Cc(Cell(l)) # Cc(Cell(f))
      msg(kind) == [kind |-> kind, of |-> f]
  IN [w EXCEPT !.a = [@ EXCEPT !.state = "PARSING", !.pend = TRUE, !.dlast = f,
                            !.mixed = w.k # <<>>],
               !.k = @ \o (IF new THEN <<msg("init")>> ELSE <<>>)
                       \o <<msg("data"), msg("parsed")>>]

(* onFragLoaded: without an initPTS for its cc a fragment has to wait.     *)
FragLoaded(w, f) ==
  LET w1 == [w EXCEPT !.a.err = 0]
      w2 == [w1 EXCEPT !.a.apd = FALSE]
  IN CASE w.a.state # "FRAG_LOADING" \/ w.a.cur # f -> w1
       [] Cc(Cell(f)) \in w.a.init -> Push(w2, f)
       [] OTHER -> [w2 EXCEPT !.a.state = "WAITING_INIT_PTS", !.a.wait = f]

(* The waiting fragment goes on once the main demuxer has found the        *)
(* initPTS of its cc; with another cc it only gives up when live.          *)
DoTickInitPts(w) ==
  LET f == w.a.wait
  IN CASE w.a.vcc = None -> w
       [] f = NoFrag -> [w EXCEPT !.a.state = "IDLE"]
       [] Cc(Cell(f)) # w.a.vcc -> w
       [] OTHER -> FragLoaded([w EXCEPT !.a.state = "FRAG_LOADING", !.a.wait = NoFrag], f)

Tick(w) ==
  LET a == w.a
  IN CASE a.state = "IDLE" -> DoTickIdle(w)
       [] a.state = "STARTING" ->
            [w EXCEPT !.a.state = "WAITING_TRACK", !.a.meta = FALSE]
       [] a.state = "WAITING_TRACK" /\ a.track \in a.det -> [w EXCEPT !.a.state = "IDLE"]
       [] a.state = "FRAG_LOADING_WAITING_RETRY" /\ a.att /\ md.seek ->
            [w EXCEPT !.a.state = "IDLE"]
       [] a.state = "WAITING_INIT_PTS" -> DoTickInitPts(w)
       [] OTHER -> w
-----------------------------------------------------------------------------
(* Events of the buffer controller, and what the stream controllers do.    *)

RECURSIVE DoAppending(_), DoFlush(_), Appending(_, _)

(* What never gets to a source buffer (noinit and nodata remember it).     *)
Lost(w, type, kind) ==
  IF kind = "init" THEN [w EXCEPT !.b.noinit = @ \cup {type}]
  ELSE [w EXCEPT !.b.nodata = @ \cup {type}]

(* BUFFER_FLUSHED: the main controller is idle again, whatever it was      *)
(* doing; so is the audio one, unless segments waited for the flush: those *)
(* are taken for all the fragment had.                                     *)
MainFlushed(w) == [w EXCEPT !.m.st = "idle", !.m.prev = None]

FlushedWhileWaiting(w) ==
  IF w.a.pdata = <<>> THEN Tick([w EXCEPT !.a.prev = NoFrag])
  ELSE [FoldLeft(Appending, w, w.a.pdata)
        EXCEPT !.a.apd = TRUE, !.a.pdata = <<>>, !.a.state = "PARSED"]

AudioFlushed(w) ==
  IF w.a.pdata = <<>>
  THEN Tick([w EXCEPT !.a.state = "IDLE", !.a.prev = NoFrag])
  ELSE LET sent == FoldLeft(Appending, w, w.a.pdata)
           all == \E i \in DOMAIN w.a.pdata : w.a.pdata[i].kind = "data"
       IN [IF all THEN sent ELSE Lost(sent, "audio", "data")
           EXCEPT !.a.apd = TRUE, !.a.pdata = <<>>, !.a.state = "PARSED"]

DoFlush(w) ==
  LET b == FlushRanges(w.b)
      w1 == [w EXCEPT !.b = b]
  IN IF b.flush = <<>> THEN AudioFlushed(MainFlushed(w1)) ELSE w1

(* BUFFER_FLUSHING                                                         *)
Flushing(w, type, cells) ==
  DoFlush([w EXCEPT !.b.flush = Append(@, [type |-> type, cells |-> cells]),
                    !.b.cnt = 0])

(* BUFFER_FULL_ERROR: load less ahead when the position is buffered, else  *)
(* flush everything of the type.                                           *)
AudioFull(w) ==
  CASE w.a.state \notin {"PARSING", "PARSED"} -> w
    [] md.pos \in Filled(w.b, "audio") ->
         [w EXCEPT !.a.state = "IDLE", !.a.cap = IF @ >= 2 THEN @ \div 2 ELSE @]
    [] OTHER ->
         Flushing([w EXCEPT !.a.cur = NoFrag, !.a.state = "BUFFER_FLUSHING"], "audio", Cells)
MainFull(w) ==
  CASE w.m.st \notin {"parsing", "append"} -> w
    [] \A t \in Types : md.pos \in Filled(w.b, t) -> [w EXCEPT !.m.st = "idle"]
    [] OTHER -> Flushing([w EXCEPT !.m.st = "flush"], "video", Cells)

(* One append at a time, of the first segment of the queue; w.b.next is    *)
(* what the browser makes of it.                                           *)
DoAppending(w) ==
  LET b == w.b
      s == Head(b.seg)
      w1 == [w EXCEPT !.b = Thrown(b)]
  IN CASE ~b.made \/ b.appending \/ b.seg = <<>> -> w
       [] b.made /\ b.seg # <<>> /\ s.type \in Updating(b) -> w
       [] b.next = "ok" \/ s.kind = "init" -> [w EXCEPT !.b = Appended(b)]
       [] b.next = "err" -> w1
       [] s.type = "audio" -> AudioFull(w1)
       [] OTHER -> MainFull(w1)

(* BUFFER_APPENDING: dropped while a flush waits, whatever the type.       *)
Appending(w, s) ==
  IF w.b.needs THEN Lost(w, s.type, s.kind)
  ELSE DoAppending([w EXCEPT !.b.seg = Append(@, s)])

(* BUFFER_CODECS; BUFFER_CREATED tells the audio controller which source   *)
(* buffer is its own.                                                      *)
Codecs(w, t) ==
  LET b == OnBufferCodecs(w.b, t)
  IN IF b.made = w.b.made THEN [w EXCEPT !.b = b]
     ELSE DoAppending([w EXCEPT !.b = b, !.a.meta = TRUE])

(* _checkAppendedParsed: FRAG_BUFFERED, and the end of a track switch.     *)
CheckAppendedParsed(w) ==
  LET a == w.a
  IN CASE a.state # "PARSED" \/ (a.apd /\ a.pend) -> w
       [] a.cur = NoFrag -> Tick(w)
       [] OTHER -> Tick([w EXCEPT !.a = [a EXCEPT !.prev = a.cur, !.state = "IDLE",
                                                  !.sw = @ /\ ~a.apd]])

AppendedAtOnce(w, parent, pending) ==
  CASE parent = "audio" /\ w.a.state \in {"PARSING", "PARSED"} ->
         CheckAppendedParsed([w EXCEPT !.a.pend = FALSE])
    [] parent = "video" /\ w.m.st = "append" /\ ~pending ->
         [w EXCEPT !.m.st = "idle", !.m.prev = w.m.cell]
    [] OTHER -> w

(* BUFFER_APPENDED: pending counts the segments left of the same parent.   *)
BufferAppended(w, parent, pending) ==
  CASE parent = "audio" /\ w.a.state \in {"PARSING", "PARSED"} ->
         CheckAppendedParsed([w EXCEPT !.a.pend = pending])
    [] parent = "video" /\ w.m.st = "append" /\ ~pending ->
         [w EXCEPT !.m.st = "idle", !.m.prev = w.m.cell]
    [] OTHER -> w

(* onSBUpdateEnd: a flush that waits goes on, then the end of the stream,  *)
(* then the segment appended is reported and the next one appended.        *)
OnSBUpdateEnd(w) ==
  LET w1 == IF w.b.needs THEN DoFlush(w) ELSE w
      b2 == IF w1.b.eos THEN CheckEos(w1.b) ELSE w1.b
      parent == b2.parent
      pending == \E i \in DOMAIN b2.seg : b2.seg[i].type = parent
      w3 == BufferAppended([w1 EXCEPT !.b = [b2 EXCEPT !.appending = FALSE]],
                           parent, pending)
  IN IF w3.b.needs THEN w3 ELSE DoAppending(w3)
-----------------------------------------------------------------------------
(* Actions: f is the handler, o what the browser answers to an append.     *)

Fault == env.faults > 0 /\ env' = [env EXCEPT !.faults = @ - 1, !.failed = TRUE]
Bounds(o) ==
  IF o = "ok" THEN UNCHANGED env ELSE Fault
Commit(w) ==
  /\ w.b.next = "ok"
  /\ bc' = w.b /\ au' = w.a /\ mn' = w.m /\ wk' = w.k
World(o) == [b |-> [bc EXCEPT !.next = o], a |-> au, m |-> mn, k |-> wk]
Runs(f(_)) ==
  \E o \in {"ok", "full", "err"} :
    /\ Bounds(o)
    /\ \E w \in {f(World(o))} : Commit(w)

User == env.moves > 0 /\ env' = [env EXCEPT !.moves = @ - 1]
-----------------------------------------------------------------------------
(* Start, stop, media.                                                     *)

StopLoad(w) ==
  [w EXCEPT !.a = [@ EXCEPT !.xhr = IF @ = w.a.cur THEN NoFrag ELSE @, !.cur = NoFrag,
                            !.prev = NoFrag, !.dlast = NoFrag, !.state = "STOPPED"],
            !.m = [@ EXCEPT !.st = "stopped", !.prev = None, !.cc = None], !.k = <<>>]

(* startLoad(-1)                                                           *)
StartLoad(w) ==
  LET w1 == StopLoad(w)
      a == w1.a
      resume == a.last > 0
      from == IF resume THEN a.last ELSE IF a.start \in {0, Undefined} THEN -1 ELSE a.start
  IN Tick([w1 EXCEPT !.a = [a EXCEPT !.state = IF resume THEN "IDLE" ELSE "STARTING",
                                     !.err = 0, !.nextLoad = from, !.start = from,
                                     !.last = from],
                     !.m.st = "idle"])

(* The media source opens: MEDIA_ATTACHED, with autoStartLoad.             *)
MediaAttached(w) ==
  StartLoad([w EXCEPT !.a.att = TRUE, !.b.ms = "open"])
AttachMedia == ~au.att /\ bc.late = 0 /\ Runs(MediaAttached) /\ UNCHANGED md
StartLoading == au.att /\ au.state = "STOPPED" /\ Runs(StartLoad) /\ UNCHANGED md

StopLoading ==
  /\ au.att /\ au.state # "STOPPED" /\ User
  /\ Commit(StopLoad(World("ok")))
  /\ UNCHANGED md

MediaDetaching(w) ==
  LET over == md.pos = End /\ w.b.ms = "ended"
      zero(t) == IF over THEN 0 ELSE t
      w1 == StopLoad(w)
  IN [w1 EXCEPT !.a = [@ EXCEPT !.att = FALSE, !.meta = FALSE, !.start = zero(@),
                                !.last = zero(@)],
                !.b = Detached(@)]
DetachMedia ==
  /\ au.att /\ User
  /\ Commit(MediaDetaching(World("ok")))
  /\ md' = [pos |-> 0, seek |-> FALSE, evt |-> FALSE]

(* updateend of a source buffer that is gone.                              *)
LateUpdateEnd ==
  /\ bc.late > 0
  /\ Commit(OnSBUpdateEnd([World("ok") EXCEPT !.b.late = @ - 1]))
  /\ UNCHANGED <<md, env>>
-----------------------------------------------------------------------------
(* Tracks, timers and the network.                                         *)

(* The 100 ms interval, when the state has a step of its own.              *)
TimerDue == Tick(World("ok")) # World("ok")
Timer == TimerDue /\ Runs(Tick) /\ UNCHANGED md

RetryDate ==
  /\ au.state = "FRAG_LOADING_WAITING_RETRY"
  /\ au' = [au EXCEPT !.state = "IDLE"]
  /\ UNCHANGED <<bc, mn, wk, md, env>>

(* hls.audioTrack = t: AUDIO_TRACK_SWITCHING, and a playlist that is not   *)
(* there is asked for.                                                     *)
AudioTrackSwitching(w, t) ==
  LET w1 == Tick([w EXCEPT !.a = [@ EXCEPT !.track = t, !.cur = NoFrag, !.wait = NoFrag,
                                           !.sw = TRUE, !.state = "IDLE"]])
  IN [w1 EXCEPT !.a.plreq = IF t \in w1.a.det THEN @ ELSE t]
SwitchTrack ==
  /\ User
  /\ \E t \in Tracks :
       /\ t # au.track \/ t \notin au.det
       /\ Commit(AudioTrackSwitching(World("ok"), t))
  /\ UNCHANGED md

AudioTrackLoaded(w) ==
  LET a == w.a
      start == IF ~a.req /\ a.start = -1 THEN 0 ELSE a.start
  IN Tick([w EXCEPT !.a = [a EXCEPT !.det = @ \cup {a.plreq}, !.plreq = None,
                             !.start = start,
                             !.nextLoad = IF a.req THEN @ ELSE start,
                             !.state = IF @ = "WAITING_TRACK" THEN "IDLE" ELSE @]])
TrackLoaded == au.plreq # None /\ Runs(AudioTrackLoaded) /\ UNCHANGED md

(* AUDIO_TRACK_LOAD_ERROR, which is not fatal.                             *)
TrackFailed ==
  /\ au.plreq # None /\ Fault
  /\ au' = [au EXCEPT !.plreq = None, !.state = IF @ = "ERROR" THEN @ ELSE "IDLE"]
  /\ UNCHANGED <<bc, mn, wk, md>>

FragLoadedHandler(w) == FragLoaded([w EXCEPT !.a.xhr = NoFrag], w.a.xhr)
FragArrives ==
  /\ au.xhr # NoFrag /\ Len(wk) <= Lag
  /\ Runs(FragLoadedHandler)
  /\ UNCHANGED md

(* FRAG_LOAD_ERROR: wait and retry, or give up.                            *)
FragFailed ==
  /\ au.xhr # NoFrag /\ Fault
  /\ au' = IF au.err < MaxRetry
           THEN [au EXCEPT !.xhr = NoFrag, !.err = @ + 1,
                           !.state = "FRAG_LOADING_WAITING_RETRY"]
           ELSE [au EXCEPT !.xhr = NoFrag, !.state = "ERROR"]
  /\ UNCHANGED <<bc, mn, wk, md>>
-----------------------------------------------------------------------------
(* Messages of the audio worker, named after the fragment pushed last.     *)

Message(kind) == wk # <<>> /\ Head(wk).kind = kind
Taken(a) == a.cur # NoFrag /\ a.dlast = a.cur /\ a.state = "PARSING"
Received(o) == [World(o) EXCEPT !.k = Tail(@)]

(* A message nobody wants any more: the init segment of a track may be it, *)
(* and the samples of the fragment that is still the current one.          *)
MessageIgnored ==
  /\ wk # <<>> /\ ~Taken(au)
  /\ LET m == Head(wk)
         w == Received("ok")
         counts == m.kind = "init" \/ (m.kind = "data" /\ m.of = au.cur)
     IN Commit(IF counts THEN Lost(w, "audio", m.kind) ELSE w)
  /\ UNCHANGED <<md, env>>

AudioSegment(kind) == Segment("audio", Head(wk).of[1], kind, Cell(Head(wk).of))

(* The init segment waits in pendingData while the track is switched.      *)
FragParsingInitSegment(w) ==
  LET w1 == Codecs([w EXCEPT !.k = Tail(@)], "audio")
      seg == AudioSegment("init")
  IN Tick(IF w1.a.sw THEN [w1 EXCEPT !.a.pdata = <<seg>>]
          ELSE Appending([w1 EXCEPT !.a.apd = TRUE, !.a.pend = TRUE], seg))
ParsingInitSegment ==
  /\ Message("init") /\ Taken(au)
  /\ Runs(FragParsingInitSegment)
  /\ UNCHANGED md

(* pendingData goes to the buffer controller, as long as the state says    *)
(* that nothing went wrong.                                                *)
SendPending(w) ==
  LET send(v, s) == IF v.a.state = "PARSING"
                    THEN Appending([v EXCEPT !.a.pend = TRUE], s) ELSE v
  IN [FoldLeft(send, w, w.a.pdata) EXCEPT !.a.pdata = <<>>, !.a.apd = TRUE]

(* The samples.  The first ones of a new track flush the audio of the old  *)
(* one if playback has reached them, and then wait in pendingData for      *)
(* BUFFER_FLUSHED; before that they are not appended.                      *)
FragParsingData(w0) ==
  LET w == [w0 EXCEPT !.k = Tail(@)]
      seg == AudioSegment("data")
      metadata == \A t \in Types : w.b.cfg[t] # None
      flushes == w.a.sw /\ metadata /\ md.pos >= seg.cell
      w1 == CASE flushes -> [Flushing([w EXCEPT !.a.state = "BUFFER_FLUSHING"],
                                      "audio", Cells) EXCEPT !.a.sw = FALSE]
              [] w.a.sw /\ ~metadata -> [w EXCEPT !.a.sw = FALSE]
              [] OTHER -> w
      w2 == [w1 EXCEPT !.a.pdata = Append(@, seg)]
  IN Tick(CASE w1.a.sw -> w1
            [] flushes -> w2
            [] OTHER -> SendPending(w2))
ParsingData ==
  /\ Message("data") /\ Taken(au)
  /\ Runs(FragParsingData)
  /\ UNCHANGED md

FragParsedHandler(w) ==
  CheckAppendedParsed([w EXCEPT !.k = Tail(@), !.a.state = "PARSED"])
FragParsed ==
  /\ Message("parsed") /\ Taken(au)
  /\ Runs(FragParsedHandler)
  /\ UNCHANGED md
-----------------------------------------------------------------------------
(* updateend                                                               *)
UpdateEnd(t) ==
  LET ended(w) == OnSBUpdateEnd([w EXCEPT !.b = UpdateDone(@, t)])
  IN /\ t \in Updating(bc)
     /\ Runs(ended)
     /\ UNCHANGED md
-----------------------------------------------------------------------------
(* The main controller: video fragments of one level from the position on. *)

MainNext(w) ==
  LET end == BufferInfo(w.b, "video", md.pos).end
      n == IF end < End THEN end ELSE LastSN
  IN CASE w.m.prev = LastSN /\ \A c \in Filled(w.b, "video") : c < end -> End
       [] w.m.prev = n -> IF n < LastSN THEN n + 1 ELSE None
       [] OTHER -> n

InitPtsFound(w, cc) ==
  LET w1 == [w EXCEPT !.a.init = @ \cup {cc}, !.a.vcc = cc]
  IN IF w.a.state = "WAITING_INIT_PTS" THEN Tick(w1) ELSE w1

(* The first fragment, and the first one after a discontinuity, come with  *)
(* an initPTS and an init segment.                                         *)
MainParsesInit(w) ==
  LET n == MainNext(w)
      w1 == [w EXCEPT !.m = [@ EXCEPT !.st = "parsing", !.cell = n, !.cc = Cc(n)]]
  IN IF w.m.cc = Cc(n) THEN w1
     ELSE Appending(Codecs(InitPtsFound(w1, Cc(n)), "video"),
                    Segment("video", 0, "init", n))
MainInit ==
  /\ au.att /\ mn.st = "idle" /\ MainNext(World("ok")) \in Cells
  /\ Runs(MainParsesInit)
  /\ UNCHANGED md

MainParsesData(w) ==
  Appending([w EXCEPT !.m.st = "append"], Segment("video", 0, "data", w.m.cell))
MainData ==
  /\ mn.st = "parsing"
  /\ Runs(MainParsesData)
  /\ UNCHANGED md

MainEos ==
  /\ au.att /\ mn.st = "idle" /\ MainNext(World("ok")) = End
  /\ mn' = [mn EXCEPT !.st = "ended"]
  /\ bc' = OnBufferEos(bc, "video")
  /\ UNCHANGED <<au, wk, md, env>>

(* hls.nextLevel, hls.currentLevel: flush the video, ahead or all of it.   *)
MainFlush ==
  /\ au.att /\ \E t \in Types : bc.cfg[t] # None
  /\ User
  /\ \E cells \in {Cells, {c \in Cells : c > md.pos}} :
       Commit(Flushing([World("ok") EXCEPT !.m.st = "flush"], "video", cells))
  /\ UNCHANGED md
-----------------------------------------------------------------------------
(* The media element.                                                      *)

Buffered(pos) == \A t \in Types : pos \in Filled(bc, t)

Seek ==
  /\ au.att /\ (\A t \in Types : bc.cfg[t] # None) /\ User
  /\ \E c \in Cells \ {md.pos} : md' = [pos |-> c, seek |-> TRUE, evt |-> TRUE]
  /\ UNCHANGED <<bc, au, mn, wk>>

(* The seeking event, for both controllers.                                *)
OnMediaSeeking(w) ==
  LET dry == md.pos \notin Filled(w.b, "video")
  IN Tick([w EXCEPT !.a = [@ EXCEPT !.state = IF @ = "ENDED" THEN "IDLE" ELSE @,
                                    !.last = md.pos],
                    !.m = IF @.st # "ended" THEN @
                          ELSE [@ EXCEPT !.st = "idle", !.prev = IF dry THEN None ELSE @]])
MediaSeeking ==
  /\ md.evt
  /\ Runs(OnMediaSeeking)
  /\ md' = [md EXCEPT !.evt = FALSE]

MediaSeeked ==
  /\ md.seek /\ ~md.evt /\ Buffered(md.pos)
  /\ md' = [md EXCEPT !.seek = FALSE]
  /\ UNCHANGED <<bc, au, mn, wk, env>>

(* The media plays to the end of a fragment; onMediaEnded at the end.      *)
Play ==
  /\ ~md.seek /\ Buffered(md.pos)
  /\ md' = [md EXCEPT !.pos = @ + 1]
  /\ au' = IF md.pos + 1 = End /\ bc.ms = "ended"
           THEN [au EXCEPT !.start = 0, !.last = 0] ELSE au
  /\ UNCHANGED <<bc, mn, wk, env>>
-----------------------------------------------------------------------------
(* After MANIFEST_LOADED: AUDIO_TRACKS_UPDATED, and the default track is   *)
(* selected, which starts as a track switch.                               *)
Init ==
  /\ bc = NoBuffers
  /\ au = [state |-> "IDLE", cur |-> NoFrag, prev |-> NoFrag, track |-> 0, det |-> {},
           plreq |-> 0, sw |-> TRUE, wait |-> NoFrag, apd |-> FALSE, pend |-> FALSE,
           pdata |-> <<>>, meta |-> FALSE, nextLoad |-> Undefined, start |-> Undefined,
           last |-> Undefined, err |-> 0, xhr |-> NoFrag, dlast |-> NoFrag, mixed |-> FALSE,
           init |-> {},
           vcc |-> None, req |-> FALSE, att |-> FALSE, cap |-> 2 * End]
  /\ mn = [st |-> "stopped", cell |-> None, prev |-> None, cc |-> None]
  /\ wk = <<>>
  /\ md = [pos |-> 0, seek |-> FALSE, evt |-> FALSE]
  /\ \E faults \in {0, Faults} :
       env = [faults |-> faults, moves |-> IF faults = 0 THEN Moves ELSE 0, failed |-> FALSE]

Calls == SwitchTrack \/ MainFlush \/ Seek \/ StopLoading \/ DetachMedia
Failures == TrackFailed \/ FragFailed
Answers == TrackLoaded \/ FragArrives
Messages == MessageIgnored \/ ParsingInitSegment \/ ParsingData \/ FragParsed
Updates == (\E t \in Types : UpdateEnd(t)) \/ LateUpdateEnd
Main == MainInit \/ MainData \/ MainEos
Element == MediaSeeking \/ MediaSeeked \/ Play
Next == AttachMedia \/ StartLoading \/ Timer \/ RetryDate \/ Calls \/ Failures
        \/ Answers \/ Messages \/ Updates \/ Main \/ Element

(* The browser runs what it has queued, and the main controller goes on;   *)
(* the media element plays beside them.  Weak fairness of Element and of   *)
(* Progress, with their enabling conditions spelled out.                   *)
Progress == AttachMedia \/ Timer \/ RetryDate \/ Answers \/ Messages \/ Updates
            \/ Main \/ Element
Playable == md.evt \/ Buffered(md.pos)
Due ==
  \/ Playable \/ ~au.att \/ au.state = "FRAG_LOADING_WAITING_RETRY"
  \/ au.plreq # None \/ au.xhr # NoFrag \/ wk # <<>>
  \/ Updating(bc) # {} \/ bc.late > 0
  \/ mn.st = "parsing" \/ (mn.st = "idle" /\ MainNext(World("ok")) # None)
  \/ TimerDue
Spec == /\ Init /\ [][Next]_vars
        /\ []<>(~Playable) \/ []<><<Element>>_vars
        /\ []<>(~Due) \/ []<><<Progress>>_vars
-----------------------------------------------------------------------------
(* What the controllers name exists: states, tracks and fragments.         *)
TypeOK ==
  /\ au.state \in States /\ mn.st \in MainStates
  /\ {au.cur, au.prev, au.xhr, au.dlast, au.wait} \subseteq Frags \cup {NoFrag}
  /\ au.det \subseteq Tracks /\ au.init \subseteq CC /\ au.err \in 0..MaxRetry

(* Something failed: the track whose playlist could not be loaded is not   *)
(* asked for again (onError, case AUDIO_TRACK_LOAD_ERROR), and after a     *)
(* QuotaExceededError segments are gone (doAppending).                     *)
Failed == env.failed

(* A state that waits has what it waits for under way: the request of the  *)
(* current fragment, the playlist of the track, the worker's answer, an    *)
(* update of a source buffer, which will end.  Each of them is set in one  *)
(* handler and left by another, in whatever order the events come.         *)
NeverWedged ==
  /\ au.state = "FRAG_LOADING"  => au.xhr = au.cur /\ au.xhr # NoFrag
  /\ au.state = "WAITING_TRACK" => au.plreq # None \/ au.track \in au.det \/ Failed
  /\ au.state = "PARSING"       => \E i \in DOMAIN wk : wk[i] = [kind |-> "parsed", of |-> au.cur]
  /\ au.state = "PARSED"        => au.cur # NoFrag /\ (Updating(bc) # {} \/ ~bc.made \/ Failed)
  /\ au.state = "BUFFER_FLUSHING" => Updating(bc) # {} \/ Failed
  /\ au.state = "WAITING_INIT_PTS" => au.wait # NoFrag

(* No segment is left in the queue of the buffer controller with nobody to *)
(* append it: appending, needsFlush and the updates of two source buffers  *)
(* together never stop the queue (onSBUpdateEnd is all that restarts it).  *)
NothingStranded == bc.made /\ bc.seg # <<>> => Updating(bc) # {} \/ bc.err

(* Samples are appended behind the init segment of their own track, across *)
(* switches, flushes and discontinuities, unless that segment was dropped  *)
(* (a flush was waiting, or the fragment was not the current one any more).*)
RightInit ==
  \A t \in Types : LET s == bc.now[t].seg
                   IN bc.now[t].op = "append" /\ s.kind = "data" =>
                        bc.cfg[t] = s.of \/ t \in bc.noinit \cup bc.robbed

(* FRAG_BUFFERED means what doc/API.md says, that all of the fragment is in *)
(* the source buffer, as long as no segment was dropped or cleared, no two *)
(* updates overlapped (parent then names the last one started) and the     *)
(* worker was done with the fragments before: with them it does not.       *)
AudioBuffered ==
  [][au'.prev # au.prev /\ au'.prev # NoFrag /\ ~au'.sw /\ ~bc'.overlap /\ ~au'.mixed
       /\ "audio" \notin bc'.noinit \cup bc'.nodata \cup bc'.robbed =>
        bc'.buf["audio"][Cell(au'.prev)] = au'.prev[1]]_vars

(* endOfStream() only comes when both source buffers hold the last         *)
(* fragment: the two BUFFER_EOS, the flushes that withdraw them and the    *)
(* updates in progress come in any order (checkEos).  Messages of an older *)
(* fragment may end the last one before its samples are there (mixed).     *)
EosComplete ==
  bc'.ms = "ended" /\ bc.ms = "open" =>
    \A t \in Types \ (bc'.nodata \cup bc'.robbed) :
      LastSN \in Filled(bc', t) \/ (t = "audio" /\ au'.mixed)

(* With both controllers at the end and no update left, it has come: the   *)
(* check that found a source buffer busy is not forgotten.  After a mixed  *)
(* fragment an append may come behind BUFFER_EOS and withdraw it.          *)
EosSignalled ==
  au.state = "ENDED" /\ mn.st = "ended" /\ Updating(bc) = {} /\ ~au.mixed => bc.ms = "ended"

(* The ways for the audio to stop short of its end that the code has: it   *)
(* waits for an initPTS that will not come, since the main controller      *)
(* waits for the source buffers; it loads the first fragment of the video  *)
(* part again and again, since none is buffered at the position; a switch  *)
(* whose last fragment came before playback did; a playlist that failed.   *)
StuckOnCc == au.state = "WAITING_INIT_PTS" /\ Cc(Cell(au.wait)) # au.vcc
WrongPart ==
  /\ 0 \notin Filled(bc, "audio") /\ au.vcc \notin {None, Cc(0)}
  /\ au.prev # NoFrag /\ Cc(Cell(au.prev)) = au.vcc
SwitchMissed == au.sw /\ au.prev = <<au.track, LastSN>>
TrackLost == au.state = "WAITING_TRACK" /\ Failed
(* The init segment, with which BUFFER_CODECS comes, was taken for one of  *)
(* a fragment that is not parsed any more: no source buffer is created.    *)
CodecsMissed == au.mixed /\ ~bc.made
(* Otherwise the audio controller loads, waits and retries its way to the  *)
(* end (or to a fatal error, or it is stopped), whatever the user did and  *)
(* whatever failed, once they are through, if the worker catches up with   *)
(* what it is given again and again.                                       *)
Settles ==
  []<>(wk = <<>>) =>
  <>[](\/ au.state \in {"ENDED", "ERROR", "STOPPED"}
       \/ StuckOnCc \/ WrongPart \/ SwitchMissed \/ TrackLost \/ CodecsMissed
       \/ bc.err \/ bc.robbed # {})
(* Nothing that was begun is forgotten: neither by the audio controller    *)
(* nor by the queue both controllers share.                                *)
UnderWay == TypeOK /\ NeverWedged /\ NothingStranded

(* The end of the stream is signalled when both buffers have it, and only  *)
(* then.                                                                   *)
EosRight == [][EosSignalled' /\ EosComplete]_vars
=============================================================================
