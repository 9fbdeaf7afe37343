--------------------------- MODULE LevelController ---------------------------
(***************************************************************************)
(* Live playback: the level controller that keeps the playlist of one      *)
(* level fresh (controller/level-controller.js), the playlist loader       *)
(* (loader/playlist-loader.js) over XMLHttpRequest (utils/xhr-loader.js),  *)
(* and the part of the stream controller that follows a sliding playlist,  *)
(* against a server whose playlists slide and whose old segments go.       *)
(*                                                                         *)
(* A handler and every call it makes is one action: it computes the record *)
(* p of the player up to its last statement, usually this.tick().  What    *)
(* happens to a fragment between its arrival and its place in the source   *)
(* buffer is StreamController's; here it is loaded, parsed and appended.   *)
(* The playhead is known to be somewhere in the buffered range that starts *)
(* at p.pos, and "full" says whether that range is long enough for now.    *)
(***************************************************************************)
EXTENDS LevelDetails, FiniteSets

CONSTANTS
  Variants,     \* the bitrates of the streams a master playlist names, in order
  LiveSync,     \* liveSyncDurationCount
  MaxRetry,     \* fragLoadingMaxRetry
  LoadRetries,  \* levelLoadingMaxRetry
  LastSlide,    \* bound: how often the windows of the server move
  Faults,       \* bound: failures of the network
  Moves         \* bound: calls of the user, switches of the ABR controller,
                \* times the buffer is full

ASSUME VariantsAssumption ==
  /\ Variants \in Seq(Nat) /\ Variants # <<>>
  /\ LiveSync \in Nat /\ MaxRetry \in Nat /\ LoadRetries \in Nat
  /\ LastSlide \in Nat /\ Faults \in Nat /\ Moves \in Nat

VARIABLES
  lo,    \* lo[l]: first slice the server keeps of level l
  p,     \* the player
  abr,   \* the level the bandwidth affords
  full,  \* the buffer is longer than maxBufferLength
  left   \* what is left of the bounds
vars == <<lo, p, abr, full, left>>

None == -1
NoReq == [level |-> None, url |-> 0, since |-> 0, tries |-> 0, type |-> "none"]
Least(S) == CHOOSE x \in S : \A y \in S : x <= y

(* The sink keeps one slice more than it lists, the one it is filling.     *)
Kept(l) == lo[l]..lo[l] + Listed

Levels == 0..Cardinality(Range(Variants)) - 1    \* 0 is the lowest bitrate

NewPlayer ==
  [n |-> 0, urls |-> [l \in Levels |-> 1], first |-> 0, startlevel |-> None, level |-> None, manual |-> None, canload |-> FALSE, timer |-> "none",
   orphans |-> 0, forced |-> None,
   details |-> [l \in Levels |-> NoDetails], url |-> [l \in Levels |-> 0],
   errors |-> [l \in Levels |-> 0], req |-> NoReq,
   state |-> "STOPPED", slevel |-> None, last |-> None, frag |-> NoFrag, prev |-> NoFrag,
   freq |-> NoFrag, requested |-> FALSE, metadata |-> FALSE, fragErrors |-> 0,
   next |-> -1, startpos |-> -1, pos |-> 0, seeking |-> FALSE, buf |-> {}, origin |-> NaN,
   down |-> FALSE, extra |-> 0]
-----------------------------------------------------------------------------
(* The media buffer.  The first fragment parsed fixes the origin of the    *)
(* player's time; after it a slice plays when it was recorded.  From then  *)
(* on loadedmetadata holds and nextLoadPosition and startPosition are not  *)
(* read any more.                                                          *)

Time(s, slice) == slice * SliceDuration - s.origin
BufferEnd(s, time) ==
  IF s.origin = NaN THEN time
  ELSE LET slice == (time + s.origin) \div SliceDuration
           Missing == {c \in slice..slice + Cardinality(s.buf) + 1 : c \notin s.buf}
       IN IF slice \in s.buf THEN Time(s, Least(Missing)) ELSE time
Position(s) == IF s.metadata THEN s.pos ELSE s.next
-----------------------------------------------------------------------------
(* onManifestLoaded of the level controller, for streams of one kind:      *)
(* those of one bitrate are redundant, the levels go by bitrate.           *)
OnManifestLoaded(s, variants) ==
  LET bitrates == Range(variants)
      level(b) == Cardinality({c \in bitrates : c < b})
  IN [s EXCEPT !.n = Cardinality(bitrates),
               !.urls = [l \in Levels |->
                 IF l < Cardinality(bitrates)
                 THEN Cardinality({i \in DOMAIN variants : level(variants[i]) = l}) ELSE 1],
               !.first = level(variants[1])]

StartLevel(s) == IF s.startlevel = None THEN s.first ELSE s.startlevel

(* Which level comes next: a forced level caps the ABR controller's choice *)
(* once there is one to speak of.                                          *)
NextAutoLevel(s) ==
  LET best == IF abr >= s.n THEN s.n - 1 ELSE abr
  IN IF s.forced # None /\ (s.origin = NaN \/ s.forced < best) THEN s.forced ELSE best
NextLoadLevel(s) == IF s.manual # None THEN s.manual ELSE NextAutoLevel(s)

(* XhrLoader.load                                                          *)
Request(l, url, tries) == [level |-> l, url |-> url, since |-> lo[l], tries |-> tries, type |-> "level"]

(* PlaylistLoader.load: the same request under way is enough, another one  *)
(* is aborted.                                                             *)
LoadPlaylist(s, l) ==
  IF s.req.type # "none" /\ s.req.level = l /\ s.req.url = s.url[l] THEN s
  ELSE [s EXCEPT !.req = Request(l, s.url[l], 0), !.down = FALSE]

CleanTimer(s) == [s EXCEPT !.timer = "none"]

(* setTimeout without a look at the timer there may be.                    *)
ArmTimer(s) ==
  [s EXCEPT !.orphans = IF s.timer = "armed" THEN @ + 1 ELSE @, !.timer = "armed"]

(* As a mutant: a level that has details is not asked for again.           *)
SetLevelLazily(s, l) ==
  LET t == [CleanTimer(s) EXCEPT !.level = l]
  IN IF t.details[l] = NoDetails THEN LoadPlaylist(t, l) ELSE t

(* setLevelInternal: the timer of the level left goes, the new level is    *)
(* refreshed at once.                                                      *)
SetLevelInternal(s, l) == LoadPlaylist([CleanTimer(s) EXCEPT !.level = l], l)
SetLevel(s, l) ==
  IF l < s.n /\ (s.level # l \/ s.details[l] = NoDetails) THEN SetLevelInternal(s, l) ELSE s
SetNextLoadLevel(s, l) ==
  LET t == SetLevel(s, l)
  IN IF t.manual = None THEN [t EXCEPT !.forced = l] ELSE t

(* LevelController.tick                                                    *)
Reload(s) == IF s.level # None /\ s.canload THEN LoadPlaylist(s, s.level) ELSE s
-----------------------------------------------------------------------------
(* StreamController: the choice of a fragment in a live playlist.          *)

LiveSyncPosition(d) ==
  Start(d) + (IF Listed > LiveSync THEN (Listed - LiveSync) * SliceDuration ELSE 0)

(* _ensureFragmentAtLivePoint, no time known: the next number, else the    *)
(* middle one, which has the same continuity counter as all the others.    *)
Guess(d, prev) ==
  IF prev = NoFrag THEN d.frags[Least({Len(d.frags), (Len(d.frags) + 1) \div 2 + 1})]
  ELSE IF HasSN(d, prev.sn + 1) THEN FragOf(d, prev.sn + 1)
  ELSE d.frags[Search([i \in 1..Len(d.frags) |-> 0])]

(* FragmentLoader.onFragLoading: an older request of the kind is aborted.  *)
RequestFragment(s, f) == [s EXCEPT !.freq = f]

LoadFragment(s, f) ==
  [RequestFragment(s, f) EXCEPT !.frag = f, !.requested = TRUE,
            !.next = IF s.metadata THEN @ ELSE EndOf(f), !.state = "FRAG_LOADING"]

(* The rest of _fetchPayloadOrEos; "limit" is what the live edge is        *)
(* compared with, the end of the buffer or where the playhead was sent.    *)
FetchFrom(s, d, limit, bufferEnd) ==
  IF d.known /\ limit > End(d) /\ s.metadata THEN p' = s
  ELSE \E f \in {IF s.requested /\ ~d.known THEN Guess(d, s.prev)
                 ELSE FindFragment(d, s.prev, bufferEnd)} :
         p' = IF f = NoFrag THEN s ELSE LoadFragment(s, f)

(* As a mutant: the playhead stays where nothing is left to load.          *)
FetchWithoutJump(s, d) ==
  \E bufferEnd \in {BufferEnd(s, Position(s))} : FetchFrom(s, d, bufferEnd, bufferEnd)

(* A buffer that ends before the playlist starts is given up: the playhead *)
(* is sent to the live edge, and the search for a fragment still goes by   *)
(* the end of that buffer.                                                 *)
FetchPayload(s, d) ==
  \E bufferEnd \in {BufferEnd(s, Position(s))}, sync \in {LiveSyncPosition(d)} :
    IF bufferEnd < Start(d)
    THEN \E t \in {IF s.metadata THEN [s EXCEPT !.seeking = TRUE, !.pos = sync]
                  ELSE [s EXCEPT !.next = sync]} : FetchFrom(t, d, sync, bufferEnd)
    ELSE FetchFrom(s, d, bufferEnd, bufferEnd)

AskForLevel(s) ==
  LET l == NextLoadLevel(s) IN [SetNextLoadLevel(s, l) EXCEPT !.slevel = l]

DoTickIdle(s) ==
  IF full \/ s.n = 0 THEN p' = s
  ELSE \E t \in {AskForLevel(s)} :
         IF t.details[t.slevel] = NoDetails \/ t.last # t.slevel
         THEN p' = [t EXCEPT !.state = "WAITING_LEVEL"]
         ELSE FetchPayload(t, t.details[t.slevel])

Tick(s) ==
  CASE s.state = "IDLE" -> DoTickIdle(s)
    [] s.state = "WAITING_LEVEL" /\ s.details[s.slevel] # NoDetails -> p' = [s EXCEPT !.state = "IDLE"]
    [] OTHER -> p' = s
-----------------------------------------------------------------------------
(* Start and stop.                                                         *)

Stop(s) == [s EXCEPT !.frag = NoFrag, !.freq = NoFrag, !.prev = NoFrag, !.state = "STOPPED"]

(* LevelController.startLoad: the playlists are stale, and are asked for   *)
(* at once if one was ever waited for.                                     *)
StartLevels(s) ==
  LET t == [s EXCEPT !.canload = TRUE, !.details = [l \in Levels |-> NoDetails],
                     !.errors = [l \in Levels |-> 0]]
  IN IF t.timer = "none" THEN t
     ELSE [Reload(t) EXCEPT !.extra = IF t.timer = "armed" /\ Reload(t) # t THEN @ + 1 ELSE @]

(* StreamController.startLoad: from the start level, unless a fragment was *)
(* asked for; from where it was.                                           *)
StartStream(s) ==
  LET t    == [Stop(s) EXCEPT !.slevel = None, !.fragErrors = 0]
      from == IF s.startpos > 0 THEN s.startpos ELSE -1
      u    == IF s.requested THEN t
              ELSE [SetNextLoadLevel(t, StartLevel(s)) EXCEPT !.slevel = StartLevel(s), !.metadata = FALSE]
  IN IF u.metadata THEN [u EXCEPT !.state = "IDLE"]
     ELSE [u EXCEPT !.state = "IDLE", !.startpos = from, !.next = from]
-----------------------------------------------------------------------------
(* LEVEL_LOADED: the level controller arms its timer, then the stream      *)
(* controller merges the details and looks for the next fragment.          *)
OnLevelLoaded(s, l, new) ==
  \E d \in {IF s.details[l] = NoDetails THEN new ELSE MergeDetails(s.details[l], new)},
     t \in {IF l = s.level THEN [ArmTimer(s) EXCEPT !.errors[l] = 0] ELSE s} :
  \E at \in {IF s.startpos = -1 THEN LiveSyncPosition(d) ELSE s.startpos} :
  \E u \in {[t EXCEPT !.details[l] = d, !.last = l,
                      !.startpos = IF s.requested THEN @ ELSE at,
                      !.next = IF s.requested THEN @ ELSE at,
                      !.state = IF @ = "WAITING_LEVEL" THEN "IDLE" ELSE @]} : Tick(u)

(* The rest of the world answers at its own pace: "since" is the window of *)
(* the server when it was asked.                                           *)
Answers(since, l) == {ParseLevelPlaylist(l, base) : base \in since..lo[l]}

(* loadsuccess of the manifest: a master playlist ...                      *)
MasterLoaded ==
  /\ p.n = 0
  /\ \E s \in {StartStream(StartLevels(OnManifestLoaded(p, Variants)))} : Tick(s)
  /\ UNCHANGED <<lo, abr, full, left>>

(* ... or the one media playlist this server has, which is asked for again *)
(* before it is handed over.                                               *)
MediaPlaylistLoaded ==
  /\ p.n = 0
  /\ \E s \in {StartStream(StartLevels(OnManifestLoaded(p, <<0>>)))}, d \in Answers(0, 0) :
       \E t \in {[AskForLevel(s) EXCEPT !.state = "WAITING_LEVEL", !.extra = @ + 1]} :
         OnLevelLoaded(t, 0, d)
  /\ UNCHANGED <<lo, abr, full, left>>

(* loadsuccess                                                             *)
PlaylistLoaded ==
  /\ p.req.type # "none"
  /\ \E d \in Answers(p.req.since, p.req.level) :
       OnLevelLoaded([p EXCEPT !.req = NoReq], p.req.level, d)
  /\ UNCHANGED <<lo, abr, full, left>>

(* readystatechange: a status of 500 or more is worth another try.         *)
PlaylistRetried ==
  /\ p.req.type # "none" /\ p.req.tries < LoadRetries
  /\ left.faults > 0
  /\ p' = [p EXCEPT !.req = Request(p.req.level, p.req.url, p.req.tries + 1)]
  /\ left' = [left EXCEPT !.faults = @ - 1]
  /\ UNCHANGED <<lo, abr, full>>

(* onError of the level controller, as far as it is the same for playlists *)
(* and fragments: a redundant stream, else a level down.                   *)
Failed(s, l) == [s EXCEPT !.errors[l] = Least({@ + 1, s.urls[l]})]
HasRedundant(s, l) == s.errors[l] < s.urls[l]
Redundant(s, l) == [s EXCEPT !.url[l] = (@ + 1) % s.urls[l], !.details[l] = NoDetails]
Recoverable(s, l) == s.manual = None /\ l > 0

WaitNoMore(s) == [s EXCEPT !.state = IF @ = "WAITING_LEVEL" THEN "IDLE" ELSE @]

(* LEVEL_LOAD_ERROR, LEVEL_LOAD_TIMEOUT: both onError handlers.            *)
OnPlaylistError(s, l, mediaBuffered) ==
  CASE HasRedundant(s, l) -> WaitNoMore(Redundant(s, l))
    [] ~HasRedundant(s, l) /\ Recoverable(s, l) ->
         WaitNoMore([s EXCEPT !.forced = l - 1, !.down = l = s.level])
    [] ~HasRedundant(s, l) /\ ~Recoverable(s, l) /\ s.details[l] # NoDetails ->
         WaitNoMore([s EXCEPT !.level = None])
    [] ~HasRedundant(s, l) /\ ~Recoverable(s, l) /\ s.details[l] = NoDetails ->
         IF mediaBuffered THEN ArmTimer(s)
         ELSE [CleanTimer(s) EXCEPT !.level = None, !.state = "ERROR"]

MediaBuffered == IF p.metadata /\ BufferEnd(p, p.pos) > p.pos THEN BOOLEAN ELSE {FALSE}

PlaylistFails ==
  /\ p.req.type # "none"
  /\ left.faults > 0
  /\ \E b \in MediaBuffered :
       p' = OnPlaylistError([Failed(p, p.req.level) EXCEPT !.req = NoReq], p.req.level, b)
  /\ left' = [left EXCEPT !.faults = @ - 1]
  /\ UNCHANGED <<lo, abr, full>>

TimerFires ==
  /\ p.timer = "armed"
  /\ p' = Reload([p EXCEPT !.timer = "fired"])
  /\ UNCHANGED <<lo, abr, full, left>>

(* A timeout whose handle was overwritten.                                 *)
OrphanFires ==
  /\ p.orphans > 0
  /\ p' = Reload([p EXCEPT !.orphans = @ - 1])
  /\ UNCHANGED <<lo, abr, full, left>>
-----------------------------------------------------------------------------
(* Fragments.                                                              *)

(* FRAG_LOADED: the ABR controller frees the level, the level controller   *)
(* forgets errors, the stream controller parses.  Without details its log  *)
(* line throws, and the stream controller stays where it was.              *)
FragLoaded ==
  /\ p.freq # NoFrag
  /\ p.freq.slice \in Kept(p.freq.level)
  /\ LET t == [p EXCEPT !.freq = NoFrag, !.forced = None, !.errors[p.freq.level] = 0]
     IN p' = IF t.details[p.freq.level] = NoDetails THEN t
             ELSE [t EXCEPT !.state = "PARSING", !.fragErrors = 0]
  /\ UNCHANGED <<lo, abr, full, left>>

(* FRAG_PARSING_DATA to the last append: the fragment is timed by its own  *)
(* clock, and becomes the previous one.                                    *)
Appended(s, f) ==
  LET t == [s EXCEPT !.origin = IF @ = NaN THEN f.slice * SliceDuration - f.start ELSE @,
                     !.buf = @ \cup {f.slice}]
      pts == Time(t, f.slice)
      played == IF BufferEnd(t, s.startpos) > s.startpos THEN s.startpos ELSE pts
  IN [t EXCEPT !.details[s.slevel] = UpdateFragPTSDTS(@, f, pts, pts + SliceDuration),
               !.prev = [NoFrag EXCEPT !.level = f.level, !.sn = f.sn],
               !.frag = NoFrag, !.state = "IDLE", !.metadata = TRUE,
               !.pos = IF s.metadata THEN @ ELSE played, !.next = NaN, !.startpos = NaN]

FragParsed ==
  /\ p.state = "PARSING"
  /\ \E s \in {Appended(p, p.frag)} : Tick(s)
  /\ UNCHANGED <<lo, abr, full, left>>

(* FRAG_LOAD_ERROR, FRAG_LOAD_TIMEOUT in the level controller ...          *)
LevelOfFragFailed(s, l) ==
  IF HasRedundant(s, l) THEN Redundant(s, l)
  ELSE IF Recoverable(s, l) THEN [s EXCEPT !.forced = l - 1]
  ELSE s

(* ... and in the stream controller: so many retries, then it is fatal.    *)
RetryLater(s) ==
  IF s.fragErrors = MaxRetry THEN [s EXCEPT !.state = "ERROR"]
  ELSE [s EXCEPT !.state = "FRAG_LOADING_WAITING_RETRY", !.fragErrors = @ + 1,
                 !.requested = @ /\ s.metadata,
                 !.next = IF s.metadata THEN @ ELSE s.startpos]

FragFails ==
  /\ p.freq # NoFrag
  /\ \/ p.freq.slice \notin Kept(p.freq.level) /\ UNCHANGED left
     \/ left.faults > 0 /\ left' = [left EXCEPT !.faults = @ - 1]
  /\ LET l == p.freq.level
     IN p' = RetryLater(LevelOfFragFailed([Failed(p, l) EXCEPT !.freq = NoFrag], l))
  /\ UNCHANGED <<lo, abr, full>>

RetryDue ==
  /\ p.state = "FRAG_LOADING_WAITING_RETRY"
  /\ p' = [p EXCEPT !.state = "IDLE"]
  /\ UNCHANGED <<lo, abr, full, left>>

(* The tick of every 100 ms.                                               *)
TickDue == Tick(p) /\ p' # p /\ UNCHANGED <<lo, abr, full, left>>

(* The seeking event that follows a jump to the live edge gives up a       *)
(* fragment that does not lie there.                                       *)
Seeking ==
  /\ p.seeking
  /\ LET s == [p EXCEPT !.seeking = FALSE]
         away == /\ p.state = "FRAG_LOADING" /\ p.frag # NoFrag
                 /\ BufferEnd(p, p.pos) = p.pos
                 /\ p.pos < p.frag.start \/ p.pos > EndOf(p.frag)
     IN \E t \in {IF away THEN [Stop(s) EXCEPT !.state = "IDLE"] ELSE s} : Tick(t)
  /\ UNCHANGED <<lo, abr, full, left>>
-----------------------------------------------------------------------------
(* The user, the bandwidth, the playhead and the server.                   *)

Uses(action) ==
  /\ left.moves > 0
  /\ action
  /\ left' = [left EXCEPT !.moves = @ - 1]

StopLoad ==
  /\ p.n > 0 /\ p.canload
  /\ Uses(p' = Stop([p EXCEPT !.canload = FALSE]))
  /\ UNCHANGED <<lo, abr, full>>

StartLoad ==
  /\ p.n > 0
  /\ Uses(\E s \in {StartStream(StartLevels(p))} : Tick(s))
  /\ UNCHANGED <<lo, abr, full>>

(* hls.loadLevel = l; -1 gives the choice back.                            *)
SetManualLevel(l) ==
  /\ l < p.n /\ l # p.manual
  /\ LET s == [p EXCEPT !.manual = l, !.startlevel = IF @ = None THEN l ELSE @]
     IN Uses(p' = IF l = None THEN s ELSE SetLevel(s, l))
  /\ UNCHANGED <<lo, abr, full>>

BandwidthChanges(l) == l # abr /\ Uses(abr' = l) /\ UNCHANGED <<lo, p, full>>

BufferFills ==
  /\ ~full /\ p.metadata /\ BufferEnd(p, p.pos) > p.pos
  /\ Uses(full' = TRUE)
  /\ UNCHANGED <<lo, p, abr>>
BufferDrains == full /\ full' = FALSE /\ UNCHANGED <<lo, p, abr, left>>

(* A new slice: the oldest one is dropped.  The streams are cut by one     *)
(* clock, not at one instant.                                              *)
Slide(l) ==
  /\ lo[l] < LastSlide
  /\ \A m \in Levels : lo[l] <= lo[m]
  /\ lo' = [lo EXCEPT ![l] = @ + 1]
  /\ UNCHANGED <<p, abr, full, left>>
-----------------------------------------------------------------------------
Init ==
  /\ lo = [l \in Levels |-> 0]
  /\ p = NewPlayer
  /\ abr \in Levels
  /\ full = FALSE
  /\ left = [faults |-> Faults, moves |-> Moves]

Next ==
  \/ MasterLoaded \/ MediaPlaylistLoaded
  \/ PlaylistLoaded \/ PlaylistRetried \/ PlaylistFails
  \/ TimerFires \/ OrphanFires
  \/ FragLoaded \/ FragParsed \/ FragFails \/ RetryDue \/ TickDue \/ Seeking
  \/ StopLoad \/ StartLoad \/ BufferFills \/ BufferDrains
  \/ \E l \in Levels \cup {None} : SetManualLevel(l)
  \/ \E l \in Levels : BandwidthChanges(l) \/ Slide(l)

Live ==
  /\ []<>(p.n > 0)
  /\ []<>(p.req.type = "none") \/ []<><<PlaylistLoaded>>_vars
  /\ []<>(p.state # "PARSING") \/ []<><<FragParsed>>_vars
  /\ WF_vars(TimerFires) /\ WF_vars(OrphanFires)
  /\ WF_vars(FragLoaded \/ FragFails) /\ WF_vars(RetryDue)
  /\ WF_vars(TickDue) /\ WF_vars(Seeking) /\ WF_vars(BufferDrains)

Spec == Init /\ [][Next]_vars /\ Live
-----------------------------------------------------------------------------
TypeOK ==
  /\ lo \in [Levels -> 0..LastSlide]
  /\ p.level \in Levels \cup {None} /\ p.manual \in Levels \cup {None}
  /\ p.timer \in {"none", "armed", "fired"} /\ p.orphans \in Nat
  /\ p.state \in {"STOPPED", "IDLE", "WAITING_LEVEL", "FRAG_LOADING", "PARSING",
                  "FRAG_LOADING_WAITING_RETRY", "ERROR"}
  /\ (p.freq # NoFrag => p.freq = p.frag)
  /\ abr \in Levels /\ full \in BOOLEAN

(* Whatever refreshes, switches, failovers and late answers there were: in *)
(* a level some fragment of which was ever parsed, every fragment starts   *)
(* at the time the player really shows its slice (updateFragPTSDTS and     *)
(* mergeDetails, helper/level-helper.js).  Times before the origin are     *)
(* clamped to zero by updatePTS and are left out.                          *)
Placed ==
  \A l \in Levels : p.details[l].known =>
    \A i \in 1..Len(p.details[l].frags) :
      LET f == p.details[l].frags[i]
      IN Time(p, f.slice) >= 0 => f.start = Time(p, f.slice)

(* Nothing more is loaded: stopped, failed for good, or the handler of     *)
(* FRAG_LOADED threw.                                                      *)
Wedged == p.state = "FRAG_LOADING" /\ p.freq = NoFrag
Dead == p.state \in {"STOPPED", "ERROR"} \/ Wedged

Loading(l) == p.req.type # "none" /\ p.req.level = l
Ticking == p.timer = "armed" \/ p.orphans > 0
WillAsk(l) == p.details[l] = NoDetails \/ NextLoadLevel(p) # l

(* A live playlist is kept fresh: while loading is allowed, the level      *)
(* played has a request under way or a timer to start one, unless the next *)
(* choice of a fragment asks for a playlist by itself (setLevelInternal)   *)
(* or the refresh failed and onError trusts to a lower level.              *)
RefreshKept ==
  p.canload /\ ~Dead /\ p.level # None =>
    Loading(p.level) \/ Ticking \/ WillAsk(p.level) \/ p.down

(* The stream controller never waits for a playlist nobody is fetching.    *)
WaitsForSomething ==
  p.state = "WAITING_LEVEL" =>
    p.details[p.slevel] # NoDetails \/ p.req.type # "none" \/ Ticking

(* Timers and requests do not multiply from one refresh to the next: one   *)
(* chain, and one for each request startLoad sent with a timer running.    *)
Chains == (IF p.timer = "armed" THEN 1 ELSE 0) + p.orphans
          + (IF p.req.type # "none" THEN 1 ELSE 0)
FewChains == Chains <= 1 + p.extra

(* The refresh of a live playlist, by timers, answers, errors, switches of *)
(* levels and calls of the user in any order: it goes on, whoever waits    *)
(* for it is served, and there is no second one (onLevelLoaded, onError,   *)
(* startLoad and setLevelInternal of controller/level-controller.js).      *)
Refreshed == TypeOK /\ RefreshKept /\ WaitsForSomething /\ FewChains

(* A fragment asked for continues the buffer: with times known, no step    *)
(* loads a fragment that starts after the end of what is buffered at the   *)
(* playhead, or where the playhead was just sent (_findFragment,           *)
(* _ensureFragmentAtLivePoint).                                            *)
NoSkip ==
  [][ LET f == p'.freq
          d == p'.details[f.level]
      IN f # NoFrag /\ f # p.freq /\ d.known /\ p'.metadata =>
           Time(p', f.slice) <= BufferEnd(p', p'.pos) ]_vars

(* After the last failure the player catches up with the server and stays  *)
(* there, however far the window slid meanwhile, however the buffer filled *)
(* and drained: it has all the slices up to the last one listed.           *)
AtEdge == p.level # None /\ p.origin # NaN /\ BufferEnd(p, p.pos) >= Time(p, lo[p.level] + Listed)
Settles == <>[](Dead \/ p.down \/ AtEdge)
=============================================================================
