-------------------------- MODULE StreamController --------------------------
(***************************************************************************)
(* The main stream controller of the player (hls.js, controller/           *)
(* stream-controller.js): the life of a fragment of a VOD playlist from    *)
(* the choice of its number to its place in the media buffer, with the     *)
(* fragment and key loaders, the demuxer's worker and the source buffer it *)
(* talks to.                                                               *)
(*                                                                         *)
(* JavaScript runs to completion, so a handler and every call it makes is  *)
(* one action.  A handler computes the record of the controller up to its  *)
(* last statement, which nearly always is this.tick(), and hands it to     *)
(* Tick.  Between two actions anything may happen that the browser queues: *)
(* timer, network, worker, media element, source buffer, user.             *)
(*                                                                         *)
(* Time is counted in half fragments: fragment n is [2n, 2n+2), and a      *)
(* fragment appended without the frames before its first key frame fills   *)
(* [2n+1, 2n+2) only.  The look-up tolerance (0.2 s) and maxBufferHole     *)
(* (0.5 s) are below that unit, maxSeekHole (2 s) above.                   *)
(***************************************************************************)
EXTENDS Integers, Sequences, FiniteSets, SequencesExt

CONSTANTS
  Levels,         \* quality levels, 0 the lowest
  LastSN,         \* the playlist holds fragments 0..LastSN
  Keyless,        \* fragments that do not start with a key frame
  Encrypted,      \* fragments that need the playlist's key
  StartLevels,    \* hls.startLevel: a level, or -1 for a bitrate test
  LoopThreshold,  \* fragLoadingLoopThreshold
  MaxRetry,       \* fragLoadingMaxRetry
  Lag,            \* bound: messages the worker still owes when a fragment arrives
  Faults,         \* bound: failures of the network, quota errors, evictions
  Moves           \* bound: calls of the user, switches of the ABR controller

ASSUME SizesAssumption ==
  /\ LastSN \in Nat /\ Keyless \subseteq 0..LastSN /\ Encrypted \subseteq 0..LastSN
  /\ 0 \in Levels /\ Levels \subseteq Nat /\ \A l \in Levels \ {0} : l - 1 \in Levels
  /\ StartLevels \subseteq Levels \cup {-1}
  /\ LoopThreshold \in Nat \ {0} /\ MaxRetry \in Nat /\ Lag \in Nat
  /\ Faults \in Nat /\ Moves \in Nat

VARIABLES
  p,       \* the controller, its fragment table and the requests under way
  media,   \* the media element
  worker,  \* messages the demuxer's worker has yet to deliver
  sb,      \* the buffer controller and its source buffer
  env      \* what is left of the bounds
vars == <<p, media, worker, sb, env>>

SN == 0..LastSN
End == 2 * LastSN + 2
Time == 0..End - 1
Frags == Levels \X SN
NoFrag == <<-1, -1>>
Level(f) == f[1]
Sn(f) == f[2]
Halves(n) == {2 * n, 2 * n + 1}
Least(S) == CHOOSE x \in S : \A y \in S : x <= y

States == {"STOPPED", "IDLE", "KEY_LOADING", "FRAG_LOADING",
           "FRAG_LOADING_WAITING_RETRY", "WAITING_LEVEL", "PARSING", "PARSED",
           "BUFFER_FLUSHING", "ENDED", "ERROR"}
-----------------------------------------------------------------------------
(* The media buffer, as BufferHelper reads it.                             *)

BufferInfo(buf, pos) ==
  LET end == CHOOSE e \in pos..End :
               /\ pos..e - 1 \subseteq buf
               /\ e \notin buf
  IN [len |-> end - pos, end |-> end, next |-> \E t \in buf : t > end]

MediaBuffered(s, b) == s.att /\ media.pos \in b.buf

(* Entry of _bufferedFrags under a position; both ends of a range match.   *)
BufferedFrags(s, b, t) ==
  {n \in s.bf : 2 * n <= t /\ t <= 2 * n + 2 /\ Halves(n) \cap b.buf # {}}
-----------------------------------------------------------------------------
(* The fragment table: loadCounter, and the age of loadIdx, how much       *)
(* fragLoadIdx has grown since (capped where the loop check stops caring). *)

Older(s) ==
  [f \in Frags |-> IF s.cnt[f] = 0 \/ s.age[f] = LoopThreshold
                   THEN LoopThreshold ELSE s.age[f] + 1]

(* fragLoadIdx += 2 * fragLoadingLoopThreshold: undefined becomes NaN.     *)
ForgetLoops(s) ==
  [s EXCEPT !.age = [f \in Frags |-> LoopThreshold],
            !.loop = IF @ = "unset" THEN "nan" ELSE @]

ReduceMaxBufferLength(s) ==
  IF s.cap >= 2 THEN [ForgetLoops(s) EXCEPT !.cap = @ \div 2] ELSE s

(* levelController.level = l: a playlist that is not there is asked for.   *)
RequestLevel(s, l) ==
  [s EXCEPT !.plreq = IF l \in s.details THEN @ ELSE l]

(* What the level controller's onError does: switch down in auto mode.     *)
SwitchDown(s, f) ==
  IF ~s.man /\ Level(f) > 0 THEN [s EXCEPT !.want = Level(f) - 1] ELSE s

NoAbort(s) == s
AbortLoad(s) == IF s.xhr = s.cur THEN [s EXCEPT !.xhr = NoFrag] ELSE s
-----------------------------------------------------------------------------
(* Buffer controller: appends are queued, a flush waits for the update in  *)
(* progress, and BUFFER_APPENDING is dropped while a flush is wanted.      *)
(* b.ini remembers the level of the init segment the source buffer was     *)
(* given last; p.flaw what went wrong with the fragment pushed last:       *)
(* "mixed" with messages of an earlier one, a segment "dropped", or given  *)
(* up as "keyless".                                                        *)

Idle == [op |-> "idle", f |-> NoFrag, cells |-> {}]
Segment(f, cells) == [op |-> "append", f |-> f, cells |-> cells]

FlushedOnly(s, b) ==
  [ForgetLoops(s) EXCEPT !.prev = NoFrag, !.bf = {n \in @ : Halves(n) \cap b.buf # {}}]
FlushedKeepsPrev(s, b) ==
  [ForgetLoops(s) EXCEPT !.state = "IDLE", !.bf = {n \in @ : Halves(n) \cap b.buf # {}}]

(* onBufferFlushed                                                         *)
Flushed(s, b) ==
  [ForgetLoops(s) EXCEPT !.state = "IDLE", !.prev = NoFrag,
                         !.bf = {n \in @ : Halves(n) \cap b.buf # {}}]

Unflushed(b) == SelectSeq(b.flush, LAMBDA r : r \cap b.buf # {})

(* doFlush, once the source buffer is idle: remove() what the first range  *)
(* still holds, or report BUFFER_FLUSHED.                                  *)
DoFlush(s, b) ==
  LET left == Unflushed(b)
  IN IF left = <<>>
     THEN [s |-> Flushed(s, b), b |-> [b EXCEPT !.flush = <<>>]]
     ELSE [s |-> s, b |-> [b EXCEPT !.flush = left,
                           !.now = [op |-> "remove", f |-> NoFrag,
                                    cells |-> Head(left) \cap b.buf]]]

FlushMainBuffer(s, b, range) ==
  LET s1 == [s EXCEPT !.state = "BUFFER_FLUSHING"]
      b1 == [b EXCEPT !.flush = Append(@, range)]
  IN IF b.now.op \in {"append", "remove"} THEN [s |-> s1, b |-> b1]
     ELSE DoFlush(s1, b1)

(* QuotaExceededError of appendBuffer, reported as BUFFER_FULL_ERROR.      *)
BufferFull(s, b) ==
  LET lost == \E i \in 1..Len(b.q) : b.q[i].cells = {}
      b1 == [b EXCEPT !.q = <<>>, !.ini = IF lost THEN -1 ELSE @]
  IN IF s.state \notin {"PARSING", "PARSED"} THEN [s |-> s, b |-> b1]
     ELSE IF MediaBuffered(s, b)
     THEN [s |-> [ReduceMaxBufferLength(s) EXCEPT !.state = "IDLE"], b |-> b1]
     ELSE FlushMainBuffer([s EXCEPT !.cur = NoFrag], b1, Time)

(* onBufferCodecs: the first init segment creates the source buffers, and  *)
(* what waited for them is appended.                                       *)
Created(b) ==
  IF b.made \/ b.q = <<>> \/ b.now.op = "stale" THEN [b EXCEPT !.made = TRUE]
  ELSE [b EXCEPT !.made = TRUE, !.now = Head(b.q), !.q = Tail(@)]

(* onBufferAppending, when the source buffer takes the segment.            *)
Appending(b, seg) ==
  LET b1 == [b EXCEPT !.ini = IF seg.cells = {} THEN Level(seg.f) ELSE @]
  IN IF b.flush # <<>> THEN b
     ELSE IF b.made /\ b.now.op = "idle" THEN [b1 EXCEPT !.now = seg]
     ELSE [b1 EXCEPT !.q = Append(@, seg)]
-----------------------------------------------------------------------------
(* The choice of a fragment.                                               *)

(* _findFragment of a VOD playlist, and the table after it: the fragment   *)
(* under the end of the buffer; the next one if that was just loaded; the  *)
(* one before it if that was just loaded and had no key frame.             *)
FindFragment(s, bufferEnd) ==
  LET n == IF bufferEnd < End THEN (IF bufferEnd < 0 THEN 0 ELSE bufferEnd \div 2)
           ELSE LastSN
      f == <<s.level, n>>
      at(m) == <<s.level, m>>
      found(g) == [f |-> g, s |-> s]
  IN IF bufferEnd < 0 \/ s.prev = NoFrag \/ Sn(s.prev) # n THEN found(f)
     ELSE IF s.back[f]
     THEN IF n < LastSN /\ s.back[at(n + 1)] THEN found(at(n + 1))
          ELSE IF n = 0 THEN found(f)
          ELSE [f |-> at(n - 1),
                s |-> [s EXCEPT !.back[at(n - 1)] = TRUE,
                                !.cnt[at(n - 1)] = IF @ > 0 THEN @ - 1 ELSE 0]]
     ELSE IF Level(s.prev) # s.level THEN found(f)
     ELSE IF n < LastSN THEN found(at(n + 1)) ELSE found(NoFrag)

(* FRAG_LOOP_LOADING_ERROR                                                 *)
LoopError(s, b, f) ==
  IF MediaBuffered(s, b) THEN [ReduceMaxBufferLength(s) EXCEPT !.state = "IDLE"]
  ELSE IF s.man \/ Level(f) = 0 THEN [s EXCEPT !.state = "ERROR"]
  ELSE SwitchDown(s, f)

LoadFragment(s, b, f) ==
  LET age == Older(s)
      count == IF s.cnt[f] = 0 THEN 1
               ELSE IF s.cnt[f] > LoopThreshold THEN s.cnt[f] ELSE s.cnt[f] + 1
      s1 == [s EXCEPT !.loop = IF @ = "unset" THEN "on" ELSE @,
                      !.age = age, !.cnt[f] = count]
  IN IF /\ count > LoopThreshold
        /\ age[f] < LoopThreshold
        /\ s.loop # "nan"
     THEN LoopError(s1, b, f)
     ELSE [s1 EXCEPT !.age[f] = 0, !.cur = f, !.req = TRUE,
                     !.nextLoad = IF s.test THEN @ ELSE 2 * Sn(f) + 2,
                     !.xhr = f, !.late = FALSE, !.xtest = s.test, !.state = "FRAG_LOADING"]

(* _loadFragmentOrKey and the key loader's onKeyLoading, which answers at  *)
(* once when it holds the key.                                             *)
LoadFragmentOrKey(s, b, f) ==
  IF Sn(f) \notin Encrypted \/ f \in s.keys THEN LoadFragment(s, b, f)
  ELSE IF s.keyGot THEN [s EXCEPT !.keys = @ \cup {f}]
  ELSE [s EXCEPT !.kreq = f, !.state = "KEY_LOADING"]

DoTickIdle(s, b) ==
  LET pos  == IF s.meta THEN media.pos ELSE s.nextLoad
      info == BufferInfo(b.buf, pos)
      s1   == [RequestLevel(s, s.want) EXCEPT !.level = s.want]
      last == s.prev # NoFrag /\ Sn(s.prev) = LastSN
      pick == FindFragment(s1, info.end)
  IN CASE s.details # {} /\ ~s.att -> s
       [] info.len >= s.cap -> s
       [] s.want \notin s.details -> [s1 EXCEPT !.state = "WAITING_LEVEL"]
       [] last /\ ~info.next -> [s1 EXCEPT !.state = "ENDED"]
       [] pick.f = NoFrag -> pick.s
       [] OTHER -> LoadFragmentOrKey(pick.s, b, pick.f)
-----------------------------------------------------------------------------
(* tick(): the state's own step, then _checkBuffer and                     *)
(* _checkFragmentChanged.  s and b are the controller and the buffer when  *)
(* the handler reaches its this.tick().                                    *)

DoTick(s, b) ==
  CASE s.state = "IDLE" -> DoTickIdle(s, b)
    [] s.state = "BUFFER_FLUSHING" -> [s EXCEPT !.err = 0]
    [] s.state = "WAITING_LEVEL" /\ s.level \in s.details ->
         [s EXCEPT !.state = "IDLE"]
    [] s.state = "FRAG_LOADING_WAITING_RETRY" /\ media.seek ->
         [s EXCEPT !.state = "IDLE"]
    [] OTHER -> s

Jump(m, t) == [m EXCEPT !.pos = t, !.seek = TRUE, !.evt = TRUE]

(* Metadata loaded and something buffered for the first time: go to the    *)
(* start position, or to the first buffered one when that is not buffered. *)
AdjustStart(b, m, start) ==
  LET target == IF start \in b.buf THEN start ELSE Least(b.buf)
  IN IF \/ m.pos # start
        \/ start \notin b.buf /\ target - start = 1
     THEN Jump(m, target) ELSE m

CheckBuffer(s, b, m0) ==
  LET ready   == s.att /\ b.init
      first   == ready /\ ~s.meta /\ b.buf # {}
      resumed == ready /\ ~first /\ s.imm /\ b.buf # {}
      m == CASE first -> AdjustStart(b, m0, IF m0.seek THEN m0.pos ELSE s.start)
             [] resumed /\ m0.pos \in b.buf -> Jump(m0, m0.pos)
             [] OTHER -> m0
  IN /\ media' = m
     /\ p' = [s EXCEPT !.meta = @ \/ first,
                       !.imm  = @ /\ ~resumed,
                       !.last = IF ready /\ ~m.seek /\ m.pos > @ THEN m.pos ELSE @]

Tick(s, b) ==
  \E s0 \in {s}, b0 \in {b} :
    \E s1 \in {DoTick(s0, b0)} : CheckBuffer(s1, b0, media)

(* _checkAppendedParsed, and the tick() that follows in both its branches  *)
(* but the one that is not taken.                                          *)
CheckAppendedParsed(s, b) ==
  IF s.state = "PARSED" /\ (~s.apd \/ ~s.pend)
  THEN Tick(IF s.cur = NoFrag THEN s
            ELSE [s EXCEPT !.prev = s.cur, !.state = "IDLE",
                           !.bf = {n \in @ : Halves(n) \cap b.buf # {}}
                                    \cup {Sn(s.cur)}],
            b)
  ELSE p' = s /\ UNCHANGED media
-----------------------------------------------------------------------------
(* Start, stop, media.                                                     *)

StopLoad(s) ==
  [AbortLoad(s) EXCEPT !.cur = NoFrag, !.prev = NoFrag, !.dlast = NoFrag,
                       !.state = "STOPPED"]

(* startLoad(-1), up to its tick(); sl is hls.startLevel.                  *)
StartedLoad(s, sl) ==
  LET s1 == [StopLoad(s) EXCEPT !.level = -1, !.err = 0]
      l  == IF sl = -1 THEN 0 ELSE sl
      s2 == IF s.req THEN s1
            ELSE [RequestLevel(s1, l) EXCEPT !.level = l, !.meta = FALSE,
                                             !.want = IF s.man THEN @ ELSE l,
                                             !.test = @ \/ sl = -1]
      start == IF s.last > 0 THEN s.last ELSE -1
  IN [s2 EXCEPT !.state = "IDLE", !.nextLoad = start, !.start = start, !.last = start]

User == env.moves > 0 /\ env' = [env EXCEPT !.moves = @ - 1]
Fault == env.faults > 0 /\ env' = [env EXCEPT !.faults = @ - 1]

(* The media source opens: MEDIA_ATTACHED, with autoStartLoad.             *)
AttachMedia ==
  /\ ~p.att
  /\ \E sl \in StartLevels : Tick(StartedLoad([p EXCEPT !.att = TRUE], sl), sb)
  /\ worker' = <<>>
  /\ UNCHANGED <<sb, env>>

StartLoad ==
  /\ p.att /\ p.state = "STOPPED"
  /\ \E sl \in StartLevels : Tick(StartedLoad(p, sl), sb)
  /\ worker' = <<>>
  /\ UNCHANGED <<sb, env>>

StopLoading ==
  /\ p.att /\ p.state # "STOPPED" /\ User
  /\ p' = StopLoad(p)
  /\ worker' = <<>>
  /\ UNCHANGED <<media, sb>>

(* MEDIA_DETACHING: the source buffers go, load counters are reset.  But   *)
(* appending and _needsFlush stay as they are until the updateend of the   *)
(* update in progress, which the browser still delivers: a stale one.      *)
NoBuffer == [q |-> <<>>, now |-> Idle, flush |-> <<>>, buf |-> {}, init |-> FALSE,
             made |-> FALSE, ini |-> -1]
Detached(b) ==
  [NoBuffer EXCEPT !.now = IF b.now = Idle THEN Idle ELSE [Idle EXCEPT !.op = "stale"],
                   !.flush = IF b.flush = <<>> THEN <<>> ELSE <<{}>>]

DetachMedia ==
  /\ p.att /\ User
  /\ LET ended == media.pos = End /\ p.state = "ENDED"
         zero  == [f \in Frags |-> 0]
     IN p' = [StopLoad(p) EXCEPT
                !.att = FALSE, !.meta = FALSE,
                !.start = IF ended THEN 0 ELSE @, !.last = IF ended THEN 0 ELSE @,
                !.cnt = zero, !.age = [f \in Frags |-> LoopThreshold],
                !.back = [f \in Frags |-> FALSE]]
  /\ media' = [pos |-> 0, seek |-> FALSE, evt |-> FALSE]
  /\ sb' = Detached(sb)
  /\ worker' = <<>>
-----------------------------------------------------------------------------
(* Timers and the network.                                                 *)

(* The 100 ms interval.                                                    *)
Timer ==
  /\ p.state \in {"IDLE", "BUFFER_FLUSHING", "WAITING_LEVEL"} \/ p.imm \/ ~p.meta
     \/ p.last < media.pos \/ (p.state = "FRAG_LOADING_WAITING_RETRY" /\ media.seek)
  /\ Tick(p, sb)
  /\ UNCHANGED <<worker, sb, env>>

(* The interval finds retryDate reached.                                   *)
RetryDate ==
  /\ p.state = "FRAG_LOADING_WAITING_RETRY"
  /\ CheckBuffer([p EXCEPT !.state = "IDLE"], sb, media)
  /\ UNCHANGED <<worker, sb, env>>

(* LEVEL_LOADED of a VOD playlist.                                         *)
LevelLoaded ==
  /\ p.plreq # -1
  /\ LET fresh == ~p.req
         start == IF fresh /\ (p.start = -1 \/ p.last = -1) THEN 0 ELSE p.start
     IN Tick([p EXCEPT !.details = @ \cup {p.plreq}, !.plreq = -1, !.start = start,
                       !.last = IF fresh /\ (p.start = -1 \/ @ = -1) THEN 0 ELSE @,
                       !.nextLoad = IF fresh THEN start ELSE @,
                       !.state = IF @ = "WAITING_LEVEL" THEN "IDLE" ELSE @], sb)
  /\ UNCHANGED <<worker, sb, env>>

(* LEVEL_LOAD_ERROR: the level controller switches down, or asks again     *)
(* after a delay when the position is buffered, or gives up.               *)
LevelFailed ==
  /\ p.plreq # -1 /\ Fault
  /\ LET down  == ~p.man /\ p.plreq > 0
         again == ~down /\ MediaBuffered(p, sb)
     IN p' = CASE again -> p
               [] down -> [p EXCEPT !.want = p.plreq - 1, !.plreq = -1,
                             !.state = IF @ = "WAITING_LEVEL" THEN "IDLE" ELSE @]
               [] OTHER -> [p EXCEPT !.plreq = -1, !.state = "ERROR"]
  /\ UNCHANGED <<media, worker, sb>>

KeyLoaded ==
  /\ p.kreq # NoFrag
  /\ LET s == [p EXCEPT !.keyGot = TRUE, !.keys = @ \cup {p.kreq}, !.kreq = NoFrag]
     IN IF s.state = "KEY_LOADING" THEN Tick([s EXCEPT !.state = "IDLE"], sb)
        ELSE p' = s /\ UNCHANGED media
  /\ UNCHANGED <<worker, sb, env>>

(* onError for a fragment or a key: wait and retry, or give up.            *)
LoadFailed(s, f) ==
  LET s1 == SwitchDown(s, f)
  IN IF s.err < MaxRetry
     THEN [s1 EXCEPT !.cnt[f] = 0, !.err = @ + 1,
                     !.req = @ /\ s.meta, !.nextLoad = IF s.meta THEN @ ELSE s.start,
                     !.state = "FRAG_LOADING_WAITING_RETRY"]
     ELSE [s1 EXCEPT !.state = "ERROR"]

KeyFailed ==
  /\ p.kreq # NoFrag /\ Fault
  /\ p' = LoadFailed([p EXCEPT !.kreq = NoFrag], p.kreq)
  /\ UNCHANGED <<media, worker, sb>>

FragFailed ==
  /\ p.xhr # NoFrag /\ Fault
  /\ p' = LoadFailed([p EXCEPT !.xhr = NoFrag], p.xhr)
  /\ UNCHANGED <<media, worker, sb>>

(* The load timer runs out.  loadtimeout looks for the loader in the       *)
(* wrong place (context.loader), so the request stays under way.           *)
FragTimeout ==
  /\ p.xhr # NoFrag /\ ~p.late /\ Fault
  /\ p' = LoadFailed([p EXCEPT !.late = TRUE], p.xhr)
  /\ UNCHANGED <<media, worker, sb>>
-----------------------------------------------------------------------------
(* The demuxer: demuxer.js posts a fragment to the worker and names every  *)
(* message that comes back after the fragment it posted last.              *)

Contiguous(s, f) ==
  s.dlast # NoFrag /\ Level(s.dlast) = Level(f) /\ Sn(s.dlast) + 1 = Sn(f)

(* What the worker sends for one push: an init segment after a track       *)
(* switch, the samples, the end of the fragment.                           *)
Parsing(s, f) ==
  LET msg(kind) == [kind |-> kind, of |-> f,
                    drop |-> Sn(f) \in Keyless /\ ~Contiguous(s, f)]
      switch == s.dlast = NoFrag \/ Level(s.dlast) # Level(f)
  IN (IF switch THEN <<msg("init")>> ELSE <<>>) \o <<msg("data"), msg("parsed")>>

(* FRAG_LOADED.  Nobody waits for the messages of an earlier fragment.     *)
FragArrives ==
  /\ p.xhr # NoFrag
  /\ LET f == p.xhr
         s == [p EXCEPT !.xhr = NoFrag, !.err = 0]
         taken == s.state = "FRAG_LOADING" /\ s.cur = f
         test == s.xtest /\ s.want # 0
     IN \/ /\ ~taken
           /\ p' = s
           /\ UNCHANGED <<media, worker>>
        \/ /\ taken /\ test
           /\ Tick([s EXCEPT !.test = FALSE, !.state = "IDLE", !.req = FALSE], sb)
           /\ UNCHANGED worker
        \/ /\ taken /\ ~test /\ Len(worker) <= Lag
           /\ p' = [s EXCEPT !.test = FALSE, !.state = "PARSING", !.pend = TRUE,
                             !.apd = FALSE, !.dlast = f,
                             !.flaw = IF worker = <<>> THEN "none" ELSE "mixed"]
           /\ worker' = worker \o Parsing(s, f)
           /\ UNCHANGED media
  /\ UNCHANGED <<sb, env>>

(* One message of the worker: FRAG_PARSING_INIT_SEGMENT, FRAG_PARSING_DATA *)
(* or FRAG_PARSED.                                                         *)
Message(kind) ==
  /\ worker # <<>> /\ Head(worker).kind = kind
  /\ worker' = Tail(worker)
MessageTaken == p.cur # NoFrag /\ p.dlast = p.cur /\ p.state = "PARSING"

MessageIgnored ==
  /\ \E kind \in {"init", "data", "parsed"} : Message(kind)
  /\ ~MessageTaken
  /\ UNCHANGED <<p, media, sb, env>>

(* A BUFFER_APPENDING armed by s, then tick(); appendBuffer may throw      *)
(* QuotaExceededError before it returns.                                   *)
AppendAndTick(s, b, seg) ==
  LET armed == [s EXCEPT !.apd = TRUE, !.pend = TRUE,
                        !.flaw = IF b.flush = <<>> THEN @ ELSE "dropped"]
      full  == BufferFull(armed, b)
  IN \/ /\ sb' = Appending(b, seg)
        /\ Tick(armed, sb')
        /\ UNCHANGED env
     \/ /\ b.made /\ b.now.op = "idle" /\ b.flush = <<>> /\ seg.cells # {} /\ Fault
        /\ sb' = full.b
        /\ Tick(full.s, full.b)

ParsingInitSegment ==
  /\ Message("init") /\ MessageTaken
  /\ AppendAndTick(p, Created(sb), Segment(Head(worker).of, {}))

(* Frames before the first key frame are missing: go back one fragment,    *)
(* once; the second time append what there is.                             *)
ParsingData ==
  /\ Message("data") /\ MessageTaken
  /\ LET m == Head(worker)
         f == p.cur
         cells == IF m.drop THEN {2 * Sn(m.of) + 1} ELSE Halves(Sn(m.of))
     IN \/ /\ m.drop /\ ~p.back[f]
           /\ Tick([p EXCEPT !.back[f] = TRUE, !.nextLoad = 2 * Sn(f), !.prev = f,
                             !.flaw = "keyless", !.state = "IDLE"], sb)
           /\ UNCHANGED <<sb, env>>
        \/ /\ ~m.drop \/ p.back[f]
           /\ AppendAndTick([p EXCEPT !.back[f] = m.drop], sb, Segment(m.of, cells))

FragParsed ==
  /\ Message("parsed") /\ MessageTaken
  /\ CheckAppendedParsed([p EXCEPT !.state = "PARSED"], sb)
  /\ UNCHANGED <<sb, env>>
-----------------------------------------------------------------------------
(* updateend: the buffered ranges change, a wanted flush goes on,          *)
(* BUFFER_APPENDED is sent, and the next segment is appended.              *)

Updated ==
  [sb EXCEPT !.now = Idle,
             !.init = @ \/ sb.now.op = "append",
             !.buf = IF sb.now.op = "append" THEN @ \cup sb.now.cells
                     ELSE @ \ sb.now.cells]

AppendedAtOnce(s, pending) ==
  IF s.state \in {"PARSING", "PARSED"} THEN [s EXCEPT !.pend = FALSE] ELSE s
Appended(s, pending) ==
  IF s.state \in {"PARSING", "PARSED"} THEN [s EXCEPT !.pend = pending] ELSE s

Next1(b) == IF b.q = <<>> \/ ~b.made THEN b ELSE [b EXCEPT !.now = Head(b.q), !.q = Tail(b.q)]

UpdateEnd ==
  /\ sb.now.op # "idle" /\ sb.flush = <<>>
  /\ sb' = Next1(Updated)
  /\ CheckAppendedParsed(Appended(p, sb.q # <<>>), Updated)
  /\ UNCHANGED <<worker, env>>

UpdateEndFull ==
  /\ sb.now.op # "idle" /\ sb.flush = <<>> /\ sb.q # <<>> /\ sb.made /\ Fault
  /\ LET r == BufferFull(Appended(p, TRUE), Updated)
     IN p' = r.s /\ sb' = r.b
  /\ UNCHANGED <<media, worker>>

UpdateEndFlush ==
  /\ sb.now.op # "idle" /\ sb.flush # <<>>
  /\ LET r == DoFlush(p, Updated)
     IN /\ sb' = IF r.b.flush = <<>> THEN Next1(r.b) ELSE r.b
        /\ CheckAppendedParsed(Appended(r.s, sb.q # <<>>), r.b)
  /\ UNCHANGED <<worker, env>>

(* The browser makes room while it appends.                                *)
Evict ==
  /\ sb.now.op = "append" /\ Fault
  /\ \E n \in SN :
       /\ 2 * n + 1 < media.pos /\ Halves(n) \cap sb.buf # {}
       /\ sb' = [sb EXCEPT !.buf = @ \ Halves(n)]
  /\ UNCHANGED <<p, media, worker>>
-----------------------------------------------------------------------------
(* The user and the media element.                                         *)

(* ABR's nextAutoLevel moves with the bandwidth.                           *)
AutoLevel ==
  /\ ~p.man /\ p.state \notin {"STOPPED", "ERROR", "ENDED"} /\ User
  /\ \E l \in Levels \ {p.want} : p' = [p EXCEPT !.want = l]
  /\ UNCHANGED <<media, worker, sb>>

OneOf(S) == IF S = {} THEN {-1} ELSE S
Manual(l) == [RequestLevel(p, l) EXCEPT !.want = l, !.man = TRUE]

(* hls.nextLevel = l: nextLevelSwitch flushes what lies more than a second *)
(* before the fragment playing and what follows the next one.              *)
NextLevelSwitch ==
  /\ p.att /\ User
  /\ \E l \in Levels \ {p.want}, delay \in 0..1 :
       LET s == ForgetLoops(Manual(l))
           found(t) == BufferedFrags(s, sb, t)
           playing == found(media.pos)
           next == UNION {found(2 * n + 3) : n \in found(media.pos + 2 * delay)}
           back(n) == IF n > 0
                      THEN FlushMainBuffer(s, sb, {t \in Time : t < 2 * n - 1})
                      ELSE [s |-> s, b |-> sb]
           ahead(r, n) == IF n = -1 THEN r
                          ELSE FlushMainBuffer([AbortLoad(r.s) EXCEPT !.cur = NoFrag],
                                               r.b, {t \in Time : t >= 2 * n})
       IN \/ /\ ~sb.init
             /\ p' = Manual(l)
             /\ UNCHANGED sb
          \/ /\ sb.init
             /\ \E n \in OneOf(playing), k \in OneOf(next) :
                  LET r == ahead(back(n), k) IN p' = r.s /\ sb' = r.b
  /\ UNCHANGED <<media, worker>>

(* hls.currentLevel = l: immediateLevelSwitch flushes everything.          *)
ImmediateLevelSwitch ==
  /\ p.att /\ User
  /\ \E l \in Levels :
       LET s == [AbortLoad(Manual(l)) EXCEPT !.imm = TRUE, !.cur = NoFrag]
           r == FlushMainBuffer(IF s.loop = "unset" THEN s ELSE ForgetLoops(s), sb, Time)
       IN p' = r.s /\ sb' = r.b
  /\ UNCHANGED <<media, worker>>

Seek ==
  /\ p.att /\ sb.init /\ User
  /\ \E t \in Time \ {media.pos} : media' = Jump(media, t)
  /\ UNCHANGED <<p, worker, sb>>

(* The seeking event: onMediaSeeking.                                      *)
MediaSeeking ==
  /\ media.evt
  /\ LET pos   == media.pos
         dry   == BufferInfo(sb.buf, pos).len = 0
         far   == p.cur # NoFrag /\ (pos < 2 * Sn(p.cur) \/ pos > 2 * Sn(p.cur) + 2)
         leave == p.state = "FRAG_LOADING" /\ dry /\ far
         s1 == CASE leave -> [AbortLoad(p) EXCEPT !.cur = NoFrag, !.prev = NoFrag,
                                                  !.state = "IDLE"]
                 [] p.state = "ENDED" ->
                      [p EXCEPT !.prev = IF dry THEN NoFrag ELSE @, !.state = "IDLE"]
                 [] OTHER -> p
         s2 == IF s1.state # "FRAG_LOADING" /\ s1.loop # "unset"
               THEN ForgetLoops(s1) ELSE s1
         s3 == [s2 EXCEPT !.last = pos,
                          !.nextLoad = IF s2.meta THEN @ ELSE pos,
                          !.start = IF s2.meta THEN @ ELSE pos]
     IN \E s \in {s3} : \E r \in {DoTick(s, sb)} :
          CheckBuffer(r, sb, [media EXCEPT !.evt = FALSE])
  /\ UNCHANGED <<worker, sb, env>>

(* The seek is over: onMediaSeeked.                                        *)
MediaSeeked ==
  /\ media.seek /\ ~media.evt /\ media.pos \in sb.buf
  /\ \E r \in {DoTick(p, sb)} : CheckBuffer(r, sb, [media EXCEPT !.seek = FALSE])
  /\ UNCHANGED <<worker, sb, env>>

(* The media plays to the end of a fragment.                               *)
Play ==
  /\ ~media.seek /\ media.pos \in sb.buf
  /\ media' = [media EXCEPT !.pos = 2 * (@ \div 2) + 2]
  /\ UNCHANGED <<p, worker, sb, env>>

(* The stall watchdog of _checkBuffer jumps over a hole shorter than       *)
(* maxSeekHole in front of the position.                                   *)
SeekOverHole ==
  /\ p.att /\ p.meta /\ ~media.evt
  /\ media.pos \notin sb.buf /\ media.pos + 1 \in sb.buf
  /\ media' = Jump(media, media.pos + 1)
  /\ UNCHANGED <<p, worker, sb, env>>
-----------------------------------------------------------------------------
Init ==
  /\ p = [state |-> "STOPPED", cur |-> NoFrag, prev |-> NoFrag, req |-> FALSE,
          meta |-> FALSE, nextLoad |-> 0, start |-> 0, last |-> 0, err |-> 0,
          test |-> FALSE, pend |-> FALSE, apd |-> FALSE, imm |-> FALSE,
          level |-> -1, want |-> 0, man |-> FALSE, cap |-> End, bf |-> {},
          cnt |-> [f \in Frags |-> 0], age |-> [f \in Frags |-> LoopThreshold],
          back |-> [f \in Frags |-> FALSE], loop |-> "unset",
          details |-> {}, plreq |-> -1, xhr |-> NoFrag, late |-> FALSE,
          xtest |-> FALSE, dlast |-> NoFrag, flaw |-> "none", att |-> FALSE,
          keys |-> {}, keyGot |-> FALSE, kreq |-> NoFrag]
  /\ media = [pos |-> 0, seek |-> FALSE, evt |-> FALSE]
  /\ worker = <<>>
  /\ sb = NoBuffer
  /\ env = [faults |-> Faults, moves |-> Moves]

Calls == AutoLevel \/ NextLevelSwitch \/ ImmediateLevelSwitch \/ Seek
         \/ StopLoading \/ DetachMedia
Failures == LevelFailed \/ KeyFailed \/ FragFailed \/ FragTimeout
            \/ UpdateEndFull \/ Evict
Answers == LevelLoaded \/ KeyLoaded \/ FragArrives
Messages == MessageIgnored \/ ParsingInitSegment \/ ParsingData \/ FragParsed
Updates == UpdateEnd \/ UpdateEndFlush
Element == MediaSeeking \/ MediaSeeked \/ Play \/ SeekOverHole

Next == AttachMedia \/ StartLoad \/ Timer \/ RetryDate \/ Calls \/ Failures
        \/ Answers \/ Messages \/ Updates \/ Element

(* The browser runs what it has queued: as long as a timer, an answer, a   *)
(* message, an updateend or the media element has something to do, one of  *)
(* them does it.  Nobody has to call the player, and nothing has to fail.  *)
Progress == Messages \/ Updates \/ Answers \/ Element \/ RetryDate
            \/ AttachMedia \/ Timer
Spec == Init /\ [][Next]_vars /\ WF_vars(Progress)
-----------------------------------------------------------------------------
(* What the controller must not get wrong.                                 *)

OpOK(o) == /\ o.op \in {"idle", "append", "remove", "stale"}
           /\ o.f \in Frags \cup {NoFrag} /\ o.cells \subseteq Time

(* The shape of the state: states are those of the code, counters stay in  *)
(* the bounds the retry and loop checks give them, one fragment at most is *)
(* asked for, and sets of times lie inside the playlist.                   *)
TypeOK ==
  /\ p.state \in States
  /\ {p.cur, p.prev, p.xhr, p.kreq, p.dlast} \subseteq Frags \cup {NoFrag}
  /\ {p.want, p.level, p.plreq} \subseteq Levels \cup {-1}
  /\ p.details \subseteq Levels /\ p.keys \subseteq Frags /\ p.bf \subseteq SN
  /\ {p.nextLoad, p.start, p.last} \subseteq -1..End
  /\ p.err \in 0..MaxRetry /\ p.cap \in 1..End
  /\ \A f \in Frags : p.cnt[f] \in 0..LoopThreshold + 1 /\ p.age[f] \in 0..LoopThreshold
  /\ media.pos \in 0..End /\ sb.buf \subseteq Time
  /\ OpOK(sb.now) /\ \A i \in 1..Len(sb.q) : OpOK(sb.q[i])

(* A flush or a late error came between the push of the first fragment and  *)
(* its init segment: the init segment is ignored, the demuxer sends no      *)
(* other one for the level, and the source buffers are never created.       *)
InitLost == p.state = "PARSED" /\ ~sb.made

(* Whatever the controller waits for is on its way: no state of the        *)
(* machine is left by an event that can no longer happen.  The state       *)
(* machine has no timer of its own that would get it out.                  *)
NeverWedged ==
  /\ TypeOK
  /\ p.state = "FRAG_LOADING"  => p.xhr # NoFrag /\ p.xhr = p.cur
  /\ p.state = "KEY_LOADING"   => p.kreq # NoFrag
  /\ p.state = "WAITING_LEVEL" => p.plreq # -1 \/ p.level \in p.details
  /\ p.state = "PARSING"       => \E i \in 1..Len(worker) :
                                    worker[i].kind = "parsed" /\ worker[i].of = p.cur
  /\ p.state = "PARSED"        => p.cur # NoFrag /\ (sb.now.op # "idle" \/ InitLost)
  /\ p.state = "BUFFER_FLUSHING" => sb.flush # <<>> /\ sb.now.op # "idle"

(* A fragment request under way is the one of fragCurrent, so whoever      *)
(* gives fragCurrent up can abort it, and no answer is for another         *)
(* fragment.                                                               *)
LoadIsCurrent == p.xhr # NoFrag => p.xhr = p.cur

(* A fragment enters _bufferedFrags, and FRAG_BUFFERED is sent, when its   *)
(* samples are in the media buffer and none of its segments is still       *)
(* waiting; except one whose messages met those of an earlier fragment in  *)
(* the worker, whose segments were dropped for a flush, or whose level's   *)
(* init segment was.                                                       *)
BufferedMeansAppended ==
  [][\A n \in p'.bf \ p.bf : p'.flaw = "none" /\ sb'.ini = Level(p'.cur) =>
       /\ 2 * n + 1 \in sb'.buf
       /\ \A i \in 1..Len(sb'.q) : sb'.q[i].op = "append" => Sn(sb'.q[i].f) # n]_vars

(* The end of the stream is signalled only when the end of the last        *)
(* fragment is in the media buffer; except when that fragment has no key   *)
(* frame and was given up for the one before it, or its messages were      *)
(* mixed up or dropped.                                                    *)
EosComplete ==
  [][p'.state = "ENDED" /\ p.state # "ENDED" =>
       End - 1 \in sb'.buf \/ p'.flaw # "none"]_vars

(* With finitely many failures and calls, and a worker that catches up     *)
(* with what it is given again and again, loading comes to an end: the     *)
(* whole playlist is there, or loading has failed or has been stopped.     *)
Settles ==
  []<>(worker = <<>>) => <>[](p.state \in {"ENDED", "ERROR", "STOPPED"} \/ InitLost)
=============================================================================
