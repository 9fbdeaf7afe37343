# v4l2rtspserver in TLA+

v4l2rtspserver captures H264, H265, MJPEG or raw frames from a V4L2 device and
audio from ALSA, and serves them over RTSP (unicast and multicast), HLS and
MPEG-DASH with live555. This copy of it also keeps a ring of encoded frames in
the capture driver and records them to disk when a Redis message asks for it,
and carries the source of the player its web page uses (hls.js), which fetches
the playlists and segments the HTTP server makes.

This directory is a specification of its concurrent core, server and player:
TLA+ modules translated from the C++ and JavaScript source, TLC configurations that check them on small
instances, and TLAPS proofs of the properties that should hold for every size
of queue and every interleaving. `PROJECT.json` maps every definition to the
lines it models.

To check a module: `tlc -config <run>.cfg MC<module>`; to check the proofs:
`tlapm <module>Proofs.tla`.

## 1. The system and its parts

Threads: the **event loop** of live555 (`main.cpp`) runs every sink, every HTTP
and RTSP connection and every timer. Each capturing device has a **capture
thread** (`V4L2DeviceSource::thread`, unless `-s` moves the work into the event
loop). Each memory-mapped device has a **command thread** that listens to Redis,
and the command thread starts a **recorder thread** for each recording.

    driver -> V4l2MmapDevice -> V4L2DeviceSource -> StreamReplicator -> RTP sinks
       (DQBUF/QBUF)  | raw_queue      (m_captureQueue)        |
                     v                                        v
             recorder threads -> disk          MPEG2-TS -> MemoryBufferSink
                     ^                                        |  (HLS segments)
             command thread <- Redis            HTTPServer -> TCPSink -> client

| Part | State it keeps | Operations | What is hard | What makes it correct |
|---|---|---|---|---|
| `V4L2DeviceSource` (src/src/V4L2DeviceSource.cpp) | `m_captureQueue` under `m_mutex`, an event trigger, the request state of live555 | read, split, queue, trigger (capture thread); deliver (event loop); close | two threads, coalesced events, frames that share one buffer, a sink that asks, waits or leaves at any time | the queue is the last `m_queueSize` frames in order; no lost wakeup; no frame outlives its buffer, no buffer is freed twice; a waiting sink is served |
| `H26X/H264/H265_V4L2DeviceSource` (splitFrames) | last SPS/PPS/VPS, SDP line | split a packet at start codes, remember and repeat parameter sets | start codes of two lengths, empty units, parameter sets queued by reference | the split is the list of NAL units of the packet; an IDR frame comes with the current parameter sets |
| `V4l2MmapDevice` capture (libv4l2cpp) | kernel buffers, `raw_queue` | start, stop, readInternal, writeInternal, partial writes | a fixed set of buffers circulates between driver and program; failures half way | every buffer is the driver's or the program's, never both, never lost |
| `V4l2MmapDevice` recorder | `raw_queue`, `need_record`, `record_file`, the index | start/stop commands from Redis, recorder threads, ring insertion | three kinds of threads, no lock | each frame freed once; a recording holds each frame once and its index is true |
| `V4l2Device/Capture/Output/ReadWrite` | fd, format, size, capabilities | init, configure, read/write | negotiation that changes what was asked | the driver's answer is what the rest uses |
| `ALSACapture` | pcm handle, format, period | configure, read | byte swapping, overrun recovery | samples are swapped once |
| `MemoryBufferSink` | map of HLS segments | append, drop, read | clock moves, segments dropped while listed | bounded window, listed segments complete |
| `TSServerMediaSubsession` | `m_slice`, shared by all clients | seek, stream a segment, playlist data | state shared between connections | each client gets the segment it asked for |
| `HTTPServer` connections | playlists, `TCPSink`, one session id for all | GET of playlist, segment, file; close | requests on one connection overlap, id is static | a response ends only its own stream |
| `TCPSink` | bounded byte buffer | read from source, write to socket, stall, close | partial writes, full buffer, closure while data is left | the client receives the source's bytes in order, all of them |
| `AddH26xMarkerFilter` | its own buffer, grown when too small | prepend a start code, grow, deliver | truncation of an intermediate copy | what is delivered is marker and frame, or nothing |
| `MJPEGVideoSource` | scan state of one frame | parse headers, copy scan data | lengths read from the frame | never reads outside the frame, quantisation tables complete |
| Subsessions (`ServerMediaSubsession`, `UnicastServerMediaSubsession`, `MulticastServerMediaSubsession`) | cached SDP lines, replicator | create source/sink, aux SDP line | SDP cached before the parameter sets are known | the SDP describes the stream |
| `V4l2RTSPServer`, `DeviceSourceFactory`, `main.cpp` | sessions, replicators, outputs, users | decode options, open devices, add sessions, run, shut down | order of destruction, names that clash | a session per stream, nothing used after deletion |
| Event loop, RTP, RTSP (live555), Redis client, V4L2 driver, x264, libjpeg, ALSA | external | external | modelled by how this code uses them | |

The **player** (hls.js) runs in one JavaScript thread: a handler runs to
completion, with every event it triggers handled inside it, and between two
handlers comes whatever the browser has queued: an answer of the server, a
message of the demuxer's worker, the end of an update of a source buffer, a
timer, the media element, a call of the page.

    HTTPServer <- playlists, segments -> loaders -> StreamController, AudioStreamController
    (HTTP GET)                             |               |
                                   LevelController     Demuxer -> TSDemuxer -> MP4Remuxer
                                   (reload timer)                          |
                                                            BufferController -> media element

| Part | State it keeps | Operations | What is hard | What makes it correct |
|---|---|---|---|---|
| `StreamController` | its state (twelve), the current and the previous fragment, what is buffered, retry counters | tick, load, parse, append, flush, switch level, seek, start and stop | every event can come in every state; a state is left only by an event that must still come | what a state waits for is under way; what is called buffered is; the end is signalled when it is there |
| `AudioStreamController`, `AudioTrackController` | the same for alternate audio, segments held back during a switch, the discontinuity of the video | the same, and track switches, waiting for the video's first time stamp | two controllers wait for each other and share the buffers | samples follow their own init segment; neither waits for ever |
| `BufferController` | one queue of segments for both source buffers, flushes, end of stream | append, flush, end of stream, quota and append errors, attach and detach | two source buffers, one `appending` flag, one `parent` | no segment is stranded; the end comes exactly when both buffers have it |
| `TSDemuxer` | the PES packet, access unit, start code and audio frame each fragment leaves unfinished | append a fragment | units, PES packets, TS packets and fragments end independently of one another | each frame whole, once, in order |
| `MP4Remuxer` | the origin of the time line, where audio and video go on | remux the samples of a fragment | 33-bit clocks, gaps, overlaps, two tracks that drift | each frame at its time, data behind its init segment |
| `LevelController`, `PlaylistLoader`, `level-helper` | the level, its details, a reload timer, redundant streams | load, reload, merge, switch, fail over, start and stop | late answers, timers that survive switches, windows that slide past the playhead | times survive every refresh; the refresh goes on, once; playback reaches the live edge |
| the rest of hls.js (bandwidth estimation, EME, captions and ID3, other demuxers, the manifest's text) | | | | not modelled |

What the server owes the player: `LevelDetails` parses what
`HTTPServer::sendM3u8PlayList` writes and `LevelController` asks for segments
that `MemoryBufferSink` keeps or has dropped; `HlsSegments` is the server's side
of the same contract.


## 2. The modules and the code they model

| Module | Models | Checked through | Proved in |
|---|---|---|---|
| `FrameChannel` | abstract: a bounded channel that loses its oldest frames | `DeviceSource` implements it | |
| `DeviceSource` | `V4L2DeviceSource`: capture code and event loop around `m_captureQueue` | `MCDeviceSource` | `DeviceSourceProofs` |
| `H26xSource` | `splitFrames` and `extractFrame` of the H264 and H265 sources, the parameter sets they repeat | `MCH26xSource` | `CaptureProofs` |
| `MmapBuffers` | the kernel buffers of `V4l2MmapDevice` | `MCMmapBuffers` | `CaptureProofs` |
| `Recorder` | the ring of encoded frames, Redis messages and recorder threads of `V4l2MmapDevice` | `MCRecorder` | `RecorderProofs` |
| `HlsSegments` | `MemoryBufferSink`, `TSServerMediaSubsession` and the playlists and segments of `HTTPServer` | `MCHlsSegments` | `HlsSegmentsProofs` |
| `ByteStream` | abstract: the bytes of a body reach the client in order, all of them | `TcpSink` implements it | |
| `TcpSink` | `TCPSink`: one body on one socket | `MCTcpSink` | `TcpSinkProofs` |
| `HttpConnection` | the connections of `HTTPServer`: requests, bodies, stream states, deletion | `MCHttpConnection` | `HttpConnectionProofs` |
| `StreamController` | the main stream controller of hls.js on a VOD playlist, with loaders, worker and one source buffer | `MCStreamController` | `StreamControllerProofs` |
| `BufferController` | the state of the buffer controller and the operations that trigger no event | `AudioStreamController` | |
| `AudioStreamController` | composes the audio stream controller and the buffer controller with an abstract main controller | `MCAudioStreamController` | |
| `TsDemuxer` | `TSDemuxer` and ADTS parsing, one fragment | `Transmuxer` | |
| `Mp4Remuxer` | `MP4Remuxer`, one call | `Transmuxer` | |
| `Transmuxer` | composes demuxer and remuxer with `Demuxer.push` and the streams a multiplexer makes | `MCTransmuxer` | |
| `LevelDetails` | a live playlist as the player knows it: parsing, merging, the choice of a fragment | `LevelController` | `LevelControllerProofs` |
| `LevelController` | the level controller, playlist loader and live side of the stream controller against a server whose window slides | `MCLevelController` | `LevelControllerProofs` |

`Fault` definitions in the modules (each marked by its comment) are plausible
bugs of the code; replacing the definition after them by one makes the property
named in `PROJECT.json` fail. No specification refers to them.

**DeviceSource.** `cpc` is where the capture code is, `lpc` where the event loop
is; a step is what happens between two points at which the other thread can
observe a difference. `queueFrame` holds `m_mutex` from its first drop to its
push and is one action (`QueueFrame`); `triggerEvent` comes after the unlock and
is another (`TriggerEvent`). `deliverFrame` is split at the memory accesses that
matter: `DeliverPop` takes the frame and decides the sizes, `DeliverCopy` reads
the frame's memory, deletes the frame and asks for another turn, and the mutex
is held in between (`LoopHoldsMutex`). `HandleEvent` is the scheduler of
live555, which clears a trigger before it calls the handler, so that triggers
coalesce. With `Internal` the capture code runs beside the loop; without it, it
is a handler of the loop and starts only when the loop is idle. Memory is
explicit: `heap` holds the packet buffers, numbered by the read that allocated
them, and a frame frees its buffer only if `owner` (the code passes the
buffer to the last frame of a packet only). `leaked` records where the code
drops a buffer: a read that fails or has no data, and a packet in which
`splitFrames` finds nothing.

**H26xSource.** A packet is a sequence of NAL units with a marker length and a
type; `StartFrame` and `EndFrame` are the two searches of `extractFrame`, which
look for a long marker first and for a short one only if there is none. The
action that splits a packet is the whole loop of `splitFrames`, with the
assignments to `m_sps`, `m_pps`, `m_vps` and the frames it repeats before an IDR.
These frames point into the strings: `config[p].mem` says which allocation, and
the bytes are read when the frame is delivered.

**MmapBuffers.** `queued` is what the driver has, `mapped` what the process has
mapped. `readInternal` and `writeInternal` use the buffers in the same way and
are one action. Any ioctl may fail, and the code goes on as it does:
`start()` after a buffer that cannot be mapped, reads after a `VIDIOC_QBUF`
that failed (`lost`). No constructor sets `m_partialWriteInProgress`, so its
first value is arbitrary, and `stop()` does not clear it; `stale` records that
the partial write in progress is such a one.

**Recorder.** Nothing locks `raw_queue`, `need_record` and `record_infor`, so
each call of `std::queue`, each access to the flag and each file operation is an
action. Two calls on the queue at the same instant are undefined even where
the interleaving of whole calls is not; the model takes calls as indivisible and
so finds what goes wrong between calls. What is undefined there (a second free,
use after free, `front()` or `pop()` of an empty queue) sets `ub` and ends the
behaviour. The history variable `alone` says that so far no two recordings
overlapped and a full ring was never trimmed beside one: the properties that do
not survive these races are stated for as long as it is true.

**HlsSegments.** One action per handler: a frame that is stored or found too
large, a seek, the two playlists, a segment. An `unsigned int` has
`UIntRange` values, and what passes through a `float` (`duration()`,
`getCurrentNPT()`) is rounded by the constant operator `Float`, of which only
`FloatAssumption` is known: it is exact up to `MaxExact`, 2^24 in the code. That holds
of both sides of the comparison that ends a playlist, where the seconds of a slice
become a float too (`Seconds`). The run takes a range of 64 and floats of four bits.

**TcpSink.** `processBuffer` is two steps (`write`, `read`), since the source may
call back inside the second one. Source and socket are external: the source
answers at once, as `ByteStreamMemoryBufferSource` does, or later, with any
number of bytes that fits; the socket takes any number of bytes, none, or fails
with `EPIPE` once the client has left. After a send that did not take everything the
sink looks at `errno` (HTTPServer.h:49), which a send that took a part does not set and
which all sockets of the loop share: `pipe` is whether it says `EPIPE`, `OtherHandlers`
is what the rest of the loop leaves there, and `misled` remembers a client that
stayed and was given up for another one's `EPIPE`.

**HttpConnection.** A read brings one request or more (`ReadRequests`); they are
handled one after the other (`Takes`) and `EndRequests` is the end of the
handler, which deletes a connection that is not active any more. `StreamSource`
is what every answer with a body has in common: the body is sent whole at once
(`afterStreaming` runs inside the request, `fRecursionCount` is not 0), or waits
for the socket, or breaks: when the client has left, or when `errno` still says
`EPIPE` of another socket after a part was sent (`pipe`, `misled` and `OtherCalls`, as in
`TcpSink`). A sink that waits takes the
socket's handler from the connection, and a sink that is closed removes it:
this is `ReadableAfter`. `refs` counts what `getStreamParameters` took and
`deleteStream` gave back; `token` and `sub` are `m_StreamToken` and
`m_Subsession`, which the code sets at different places. `cut`, `shared` and
`missed` are history: a response that was interrupted, a read with several
requests, a segment that was not there. How the bytes of the body get to the
socket is in `TcpSink`; here a body is under way, broken or over.

**StreamController.** One action per browser event. A handler ends in
`this.tick()`, so an action computes the record `p` of the controller up to
there and hands it to `Tick`, which is `doTick` and `_checkBuffer`. Requests
under way are in `p` (`xhr`, `kreq`, `plreq`; `late` is an answer that comes
after its timeout), the worker's messages in `worker`, the queue of the source
buffer in `sb`. The worker may owe messages of earlier fragments when the next one
arrives, and they are then taken for the new one's, as `Demuxer` does. Detaching the media
leaves `appending` and `_needsFlush` as they are (`Detached`), until the `updateend` of the
update in progress comes. The unit of time is half a fragment, so that a fragment
without a key frame at its start fills only its second half. History: `p.flaw` is what went
wrong with the fragment pushed last (its messages were "mixed" with earlier ones, a
segment was "dropped" for a flush, or it was given up as "keyless"), `sb.ini` the level
of the init segment the source buffer was given last.

**AudioStreamController.** A handler is an operator on the world `w` (buffer
controller, audio controller, main controller, worker) and calls others as the
code's events do; an action is one event of the browser. The main controller is
the abstraction of `StreamController` that the two share: it loads, parses,
appends, flushes and signals the end. Ghosts: `noinit`, `nodata` and `robbed`
name the types of which an init segment or samples were dropped (by a flush in
progress, by a controller that was in another state, by a quota error);
`overlap` that two source buffers have updated at once, after which `parent`
names one of them only; `mixed` that the worker still owed messages when the fragment
pushed last arrived.

**Transmuxer.** A TS packet is a record with a few bytes of payload, and an
elementary stream is made of real bytes: start codes, NAL types and ADTS headers
are found by the automata of the code, and they are cut anywhere by PES packets,
TS packets (13 bytes of video, 6 of audio) and fragments. The clock is scaled
(`Wrap` for 2^33, `NearFrames`, `NearTicks` and `MAX_SILENT_FRAME_DURATION` for the
thresholds), and frames may be missing in the audio. `startDTS` is where a fragment was
found to begin, which is its time offset when it is pushed again. `past` is
history; its `flaws` name the ways in which the code is known to lose or
misplace data, and the properties say what is true outside them.

**LevelController.** `p` is the player, `lo[l]` the first slice the server
keeps of level `l`. A playlist is answered with the window of any moment between
the request and its arrival; a segment that is gone answers 404. The reload timer
has one handle (`timer`) and may have lost others (`orphans`), because
`onLevelLoaded` sets it without looking. Time in the player is measured from
`origin`, the slice of the first fragment appended. `down` records that
a failed refresh was answered by forcing a lower level, `extra` how many requests
`startLoad` has sent beside a running timer. The real time between timers, the
half interval of an unchanged playlist and the loop detection of fragments are
left out.

## 3. The runs

| Run | Question | Bounds | Why they are enough |
|---|---|---|---|
| `source` | the capture code and the loop share the queue soundly, and a waiting sink is served | queue of 2, sink room of 2, packets of 0 to 3 frames of size 0 to 3, 3 reads; `mode` chooses the capture thread or the read handler of option `-s` at the start | three packets overflow a queue of two, and in the handler mode one packet does; each size is a case of `deliverFrame` |
| `recorder` | recordings one at a time: nothing undefined, nothing lost, a true index; whatever overlaps: a bounded ring, files in order, recorders that end | 4 frames, 2 recorders, a ring of 1, files of one frame | the second recording meets what the first one left or runs beside it; both recorders and the trim of the ring compete for one frame |
| `hls_segments` | segments are true, final and served; playlists are no longer than the stream | 3 slices of 2 s, 5 frames, 6-bit integers, floats of 4 bits, a clock that also goes back | the window overflows, the time exceeds both number formats |
| `tcp_sink` | the body arrives in order and complete, and the sink never sleeps for ever | buffer of 4, reads of at least 2, 7 bytes; any `errno` between two calls | the buffer fills, empties and is reset several times; every split of the 7 bytes |
| `http_connection` | responses are whole, stream states are given back, no connection is forgotten | 2 connections, 2 streams, 1 or 2 requests in a read; any `errno` at any time; no bound on the number of reads | a second connection of the same stream shares its state; two requests are the first case in which one meets the body of another |
| `h26x_split` | the split is the one the markers define; an IDR follows its parameter sets | 3 packets of mixed markers and types, both codecs | each search of `extractFrame` has a case with and without a marker ahead; sets appear, change and are swallowed |
| `mmap_buffers` | no buffer drops out of the rotation, none is used while the driver has it, none stays mapped | 0 to 3 buffers of 3 bytes, writes of 1 and 2 | no bound on calls: every sequence of starts, stops, reads, writes and failures; a restart may get fewer buffers than the index kept from before |
| `stream_controller` | whatever the main controller of the player waits for is on its way; loading settles | 2 levels, 2 fragments (the first encrypted, the last without a key frame at its start), 2 failures, 1 call of the user; a fragment arrives with up to `Lag` = 3 messages of the worker outstanding | the last fragment is the one the end of the stream rests on; three messages are all of an earlier fragment; failures and a call meet in any state; retries end after `MaxRetry` = 1 |
| `audio_buffers` | two controllers share the source buffers without losing an append or the end of the stream | 2 tracks, 3 fragments, the last after a discontinuity; 1 failure or 1 call; `Lag` = 2 | a track can be left in any fragment; the two initPTS of the two parts; a failure and a call together add no state that one of them does not, but for their order, and do not fit five minutes; two messages are the samples and the end of an earlier fragment |
| `transmuxer` | bytes, order and times of frames survive the demuxer and the remuxer | 4 video and 6 audio frames in 16 multiplexes, 3 fragments cut after any two packets, 2 seeks or switches | every position of a cut: in a start code, a NAL unit, an ADTS header, between the PES packets of a frame; the base time is before, at and after a turn of the clock; up to three audio frames are missing, which is on either side of `MAX_SILENT_FRAME_DURATION` |
| `live_levels` | a live playlist is refreshed for ever, fragments keep their true times, playback reaches the edge | 2 levels, the lower with a redundant stream (`Variants` <<1, 2, 1>>), playlists of 3 slices of 1 s, windows that slide twice, 1 failure, 1 call or other outside event | two slides leave one slice of the first playlist, then none when an answer is late: merges with and without common fragments |
| `live_seconds` | *violated*: fragments keep their true times with slices of more than one second | slices of 2 s, one slide, no failure | |

What the passing runs show, in the words of their properties:

* **Queue.** No lost wakeup (`NoLostWakeup`), although events coalesce, the
  trigger comes after the unlock and frames without data do not answer the
  sink. The queue is always the last frames in order and the sizes reported are
  true (`WindowTrue`); no frame outlives its buffer, none is freed twice and
  none is lost except where the code drops it (`MemorySafe`).
  `ImplementsChannel` says the same to the sink, liveness included: the source
  is a channel that loses its oldest frames. With the capture code on the loop
  the copy of option `-O` is sound (`HandlerCopies`).
* **Splitting.** `UnitsSplit` says that nothing behind the first long marker of
  a packet is lost or sent twice, and that each long marker starts a frame;
  `IdrFollowsConfig` says that an IDR is preceded by the sets that are known.
* **Rotation.** `Rotation` and `BuffersOwned` follow a buffer through any
  sequence of calls and failures, a `start()` that fails half way included.
* **Recordings.** As long as no two recordings overlap and no full ring is
  trimmed beside one (`alone`), nothing is undefined and no frame lost
  (`QueueSound`) and the index is true (`FilesTrue`). Whatever happens, until the
  behaviour is undefined, the ring stays bounded, files are in order, frames kept
  get to disk and recorders end (`RecordersServe`). A camera that has run for a
  while has a full ring, so that the trim beside a recording is the usual case at
  its start.
* **HLS.** A slice is the frames of its seconds and a segment as long as its
  length says (`SlicesTrue`); a listed one is complete and stays to be fetched
  for as long as its rank allows (`ListedSegments`); the playlist is no longer than the
  stream however floats round, and shorter than the window if every slice has a frame
  (`PlaylistBounded`). The conditions `NeverBack` and `NoGap` are
  on the input: presentation times are taken from the wall clock. `Counted` is
  there since the proof of `ListedSegments` failed without it and TLC confirmed
  why: once a stream has run for 2^24 s (194 days) `getCurrentNPT()` is rounded,
  and a playlist may list the newest slice, which still grows, under the place of
  an older one.
* **Bodies.** The wire carries a prefix of the body (`SentInOrder`), the sink
  always has something to wait for (`NoStall`), and the body ends only when all
  of it was sent, and does end (`ImplementsStream`), unless the client leaves or the
  `EPIPE` of another socket makes the sink give it up.
* **Connections.** Only requests that were read together, or a body given up for
  another socket's `EPIPE`, can interrupt a response (`ResponsesWhole`); a stream state
  is given back as often as it is taken, save where a segment was missing or a second
  one took the place of the first (`ReferencesTrue`); a connection is left without a
  caller only by a client that leaves in the middle of a body, or by such an `EPIPE`
  (`NotForgotten`).
* **Player, VOD.** No state waits for an event that can no longer come
  (`NeverWedged`, and `UnderWay` for the audio side), the request under way is the
  one of the current fragment (`LoadIsCurrent`); a fragment reported buffered is
  in the buffer (`BufferedMeansAppended`, `AudioBuffered`), samples follow the
  init segment of their track (`RightInit`), the end of the stream is
  signalled when it is there and not before (`EosComplete`, `EosRight`), each of them
  save for the fragments the exceptions below name; and after
  the last failure loading comes to an end (`Settles`).
* **Player, media data.** Frames have the bytes the multiplexer was given
  (`UnitsWhole`), come once, in order (`FramesInOrder`) and at their times, on both
  sides of a turn of the clock (`OnTime`), behind the init segment of their track
  (`InitFirst`).
* **Player, live.** Fragments keep their true times over refreshes (`Placed`), the
  refresh goes on in one chain (`Refreshed`), no fragment is skipped (`NoSkip`), and
  the player gets to the edge (`Settles`).

`CHECK_DEADLOCK FALSE` is set where a bound on the input (reads, frames,
recordings, fragments, slides), undefined behaviour or the end of a body ends a
behaviour.

**Exceptions the properties name.** A property that is true but for some paths
names them by a history variable, so that it says what is true on all others:

* `Recorder.alone`, `HttpConnection.missed` and `.shared`, `misled` of `HttpConnection`
  and `TcpSink`, `MmapBuffers.lost` and `.stale`, `DeviceSource.leaked`: see section 2.
* `StreamController.InitLost`: the init segment was ignored while another state
  was current, and the demuxer sends no other one. `p.flaw` (section 2) in
  `BufferedMeansAppended` and `EosComplete`.
* `AudioStreamController`: `noinit`, `nodata`, `robbed`, `overlap`, `mixed` (section 2), and
  in `Settles` the five ways in which the audio stops short: `StuckOnCc`,
  `WrongPart`, `SwitchMissed`, `TrackLost`, `CodecsMissed`.
* `Transmuxer.past.flaws`: `stale` (something half demuxed was there before a
  fragment that does not go on; nothing removes it), `uneven` (a fragment goes on
  after one whose last frame has a guessed end), `mute` and `blind` (a fragment goes
  on, but no audio or video was there yet to go on from), `kept` (all the audio
  was dropped and is still in the track), `filled` (silence was put before the
  first frame, which was made longer too), `misdated` (an earlier push found the
  fragment to begin elsewhere), `jump` (a gap of `MAX_SILENT_FRAME_DURATION` or more is
  closed, not filled).
* `LevelController`: `down` (a failed refresh was answered by forcing a lower level,
  which does not restart the timer), `extra` (requests of `startLoad` beside a
  running timer), `Wedged` (the handler of `FRAG_LOADED` met a level without
  details).

**Fairness.** `DeviceSource`: a handler of the loop runs to its end and a packet
is handled to its end (WF of `Deliver` and of `Post`: plain code without waits
other than `m_mutex`, which is held for a few statements); each turn of the
scheduler looks at the triggers, so an event that is set again and again is
handled (SF of `HandleEvent`). Nothing is assumed of the device or the sink.
`Recorder`: each thread that runs goes on running, and a recording once asked
for is started; neither the camera nor the client of Redis owes anything.
`TcpSink`: the loop runs what is due, the source answers, and the socket of a
client that stays takes bytes again and again (SF of `SendSome`). The player
runs in a browser, whose event loop runs what is queued: `StreamController`
assumes weak fairness of all its events taken together (`Progress`: timers,
answers, messages of the worker, updates of the source buffer, the media
element), `AudioStreamController` the same and that the media element plays
beside them (its two formulas are WF of `Element` and of `Progress` with the enabling
conditions spelled out as `Playable` and `Due`; in both, `Settles` is claimed of a worker
that catches up with what it is given again and again), `LevelController` weak fairness of
each kind of event and that the first playlist is loaded in the end. None of
them assumes that a request succeeds, but failures are finitely many (`Faults`),
and so are the calls of the user (`Moves`). The other modules have safety
properties only and no fairness.

**Bounds and simplifications of the player modules.** Playback keeps
no buffer behind the position that a quota error could free. `Lag` bounds how far the
worker is behind, and nothing else does. In `Transmuxer` the playlist says where a fragment
begins until a push has found it; corrections of its neighbours (`updatePTS`) are in
`LevelDetails` only. There the clock turns at
`Wrap` = 100000 in place of 2^33, with thresholds scaled alike (`NearFrames`,
`NearTicks`, `MAX_SILENT_FRAME_DURATION`). In `LevelController` the unit of time is a second, `LiveSync` = 3 slices
is the whole playlist, `abr` starts with the higher level, and slices are of one
second in `live_levels`, which is the server's option `-S1`. Its default is two seconds
(main.cpp:120), the case that `live_seconds` refutes for `Placed`; `NoSkip` and `Settles`
are not checked there. Times before the origin are
clamped to zero by `updatePTS` and left out of `Placed`.

**A disagreement, with its run.** `live_seconds`: `sendM3u8PlayList` numbers the
window by the time of its first slice in seconds (HTTPServer.cpp:117), hls.js
counts fragments, so with slices of more than a second a window that slides by
one slice moves by several numbers, and `mergeDetails` gives fragments the times of
others (level-helper.js:139 says that a number in both lists is an overlap of the two). `LevelControllerProofs` has
the reason as two theorems.

**Seen while modelling, without a run:**

* With a capture thread, `postFrame` writes the packet to the output of option `-O`
  after its frames were handed over, when the loop may have freed it
  (README.md:49, V4L2DeviceSource.cpp:243). `HandlerCopies` is the half that holds.
* A recorder whose stop is followed by a start before its next look goes on,
  beside the new one (V4l2MmapDevice.cpp:65, 96).
* DASH segment numbers count segments for the client and seconds for the server
  (README.md:62).
* Repeated parameter sets point into strings that the next packet may assign
  while they wait in the queue (README.md:60).
* The buffer of a packet is lost when the read fails, gives nothing or contains
  no frame (V4L2DeviceSource.cpp:208-229, 252-270).
* A NAL unit behind a short marker is swallowed by the frame before it when a
  long marker follows (H26x_V4l2DeviceSource.cpp).
* `m_partialWriteInProgress` is never initialised, so the first
  `startPartialWrite()` may refuse.
* A request for a segment that is gone, or a second one on a connection, loses a
  reference to the stream's state (HTTPServer.cpp:357-362); a connection whose
  client left in the middle of a body is never deleted, `TCPSink` having taken
  its handler from the socket. The same happens to a client that stays, when a part of
  its body was sent while `errno` said `EPIPE` of another client (HTTPServer.h:49).
* A clock set back before the first frame makes slice numbers near 2^32, and
  playlists of as many lines (MemoryBufferSink.cpp:57, HTTPServer.cpp:120).
* `record_pack_size` is converted from the path, not from the value read for it
  (V4l2MmapDevice.cpp:145).
* hls.js signals `BUFFER_EOS` for the last fragment although it started without
  a key frame and was given up for the one before it (stream-controller.js:255-261):
  `EosComplete` fails without its exception `keyless`.
* What the worker still has to say about an old fragment is taken for the new one
  (demuxer.js:119): `FRAG_BUFFERED` and `BUFFER_EOS` come for a fragment of which nothing is
  in the buffer, against doc/API.md:1164, and while the audio track is switched the
  source buffers may never be created (`CodecsMissed`). A fragment without a key frame
  and the one before it, which the mix of messages has skipped, are then loaded in turn
  for ever, if the worker never catches up.
* Detaching the media leaves `appending` and `_needsFlush` set
  (buffer-controller.js:116-150), so that new source buffers wait for an `updateend` of
  the old ones. With only samples left in `pendingData` their `updateend` reports the
  audio fragment buffered before all of it was sent (audio-stream-controller.js:875).
* Audio missing for ten seconds or more is not replaced by silence, and what follows is
  played that much too early (mp4-remuxer.js:491, 540).
* Updates of two source buffers at once leave `parent` with one of them
  (buffer-controller.js:205); a failed refresh forces a lower level and drops the timer
  (level-controller.js:266); `startLoad` beside a running timer doubles the reload
  chain (level-controller.js:337); `FRAG_LOADED` for a level whose details a
  failover dropped throws and wedges the controller (stream-controller.js:987).

## 4. What is proved

All proofs are for arbitrary values of the constants, under the named
assumptions of the modules only (a queue of at least one frame, a buffer of at
least the smallest read, sizes that are numbers). Four theorems of
`LevelControllerProofs` state a condition on the slice duration besides:
`NumberNamesSlice`, `PlacedHolds` and `NoSkipHolds` that it is one second (`-S1`, not the
default of two), `NumberNamesTwoSlices` that it is more.

**DeviceSourceProofs.** The invariant is built in layers, each proved inductive
on top of `ControlInv` (types, and what the control states imply):

* `Control` is what the properties leave unsaid: with `cpc = "queue"` there is a
  frame to queue; a `deliverFrame` under way means that the sink waits; in live555
  mode the loop is in the capture handler while a packet is handled.
  `NoLostWakeup` is not inductive without it: `DeliverNothing` keeps it only since
  the queue is empty there, `TriggerEvent` only since a trigger outlives the step.
* `QueueInv` adds to `QueueIsWindow` that the last frame delivered is behind the
  queue (`LastIsBehind`), from which order of delivery follows.
* `MemoryInv` is `FramesHaveMemory`, `OwnerIsLast` and `BuffersAccounted`
  together: each alone is not inductive. Freeing a buffer keeps the memory of
  other frames only because the owner is the last, and ownership can be followed
  only while the frames have memory.
* `Sizes` extends `SizesReported` back to the moment the answer is known, and
  records that the request cleared `fNumTruncatedBytes`.

* `OutputInv` says that without a capture thread the event loop is in the capture
  handler from the read to the `write()` of a packet, so that nothing is delivered
  between (`HandlerOutput`).

Theorems: `TypeCorrect`, `WakeupNotLost`, `WindowHolds` (with `QueueBounded` and
`SizesTrue`), `OrderKept`, `MemoryHolds` (with `NoDanglingFrame`, `NoDoubleFree` and
`NoOtherLeak`), and `ChannelSafety`: every step of the source is a step of
`FrameChannel` or leaves it unchanged. They are about `DeviceSource` for either
value of `Internal`; the run `source` puts both in one state space.

**RecorderProofs.** The argument follows `First`, the number of the oldest frame
in `raw_queue`: the queue is always `First`, `First + 1`, ... up to the last frame
captured (`Consecutive`), whoever pops. A pop can only make `First` grow, so what a
recorder has written stays below it and what it holds is not above it
(`FilesKept`), which gives order in the files without any condition. `RingKept`
remembers that the capture thread pushes only after it found room or popped.
While one thread at a time takes frames out, `Sound` says more: the frame in its
hands is still `First`, the queue is not empty under it, and what is allocated is
exactly what is queued, less the frame just freed (`Allocated`). `Control` bounds
the number of recorders and says that one that is being spawned has no thread yet. Theorems:
`QueueKept` (types, ring, no undefined behaviour, no frame lost), `FilesOrdered`
and `FilesHold`. The last one follows the index: `IndexKept` says that while no two
recordings overlap a recorder has written an entry for each frame of its file but
the one it is at, each of them the end of that frame, and `InfoKept` that the stream
the index goes to is the one of its recording. `IndexIsTrue` compares each entry
with the one before, so no sum over the file is needed.

**TcpSinkProofs.** `IInv` adds to the checked invariants that the bytes between
`start` and `end` are the ones that follow those sent (`Holds`), that a source
which was asked writes at the end of them (`Asked`: the buffer is not reset
under it), and that a handler is set exactly when bytes wait for the socket, unless
the client has left or an `EPIPE` that was not its own kept the handler from being set
(`Armed`, with the history variable `misled`). Theorems: `SinkTypes`, `WireInOrder`, `BytesInOrder`, `EndsComplete`,
`NeverStalls`, and `StreamSafety`: a step of the sink is a step of `ByteStream`
or a stutter.

**CaptureProofs.** Buffers and packets. For `MmapBuffers`, `IInv` adds to the
invariants that a device in use has all its buffers mapped (`AllMapped`) and that
the buffer of a partial write that is not stale is mapped and not the driver's
(`PartialOwned`), through failed calls and starts. Theorems: `TypeCorrect`,
`NoBufferDropped`, `NoMappingLost`, `OwnBuffersTouched`, and for the properties of
the run `RotationKept` and `OwnershipKept`.

For `H26xSource`, of any packet of any length: the loop of `splitFrames` cuts the
packet at points that follow one another from its first frame to its end (`Cut`,
`FramesCut`, `Uncut`), each point where a search of `extractFrame` ended. The
lists of units between the points join to the packet (`JoinedConcat`,
`SplitJoined`), and the frames that repeat parameter sets add nothing to them: this
is `UnitsSplit`, which needs no history. `IdrFollowsConfig` does: `Follows` says that each
string holds the last set of its type that went by (`ConfigTrue`, by the last
position of a type in a list, `LastBefore`) and that what was queued so far repeats
the sets exactly before an IDR (`Repeats`); a frame keeps it (`FollowsMore`), hence a
packet (`SplitFollows`). `SplitInv` joins types, `PacketSplit` and `Follows`. The loop
is a recursive function, and what it computes follows by counting up over a set of
numbers (`CountUp`, `Iteration`). Theorems: `SplitInvariance`, `PacketsWhole`,
`ConfigurationsRepeated`, under `SplitAssumption` alone (the types of parameter sets are
types, the queue can hold a frame).

**HttpConnectionProofs.** `CInv` relates the flags of one connection: what is
handled or readable is open, and an open connection is active between two
handlers (`Control`); an active one has a handler or a body (`Served`); the only
request of a read finds no body under way and no stream state (`Single`), which
is why `ResponsesWhole` needs the exception for requests that are read together, and
the one for a body that was given up with its client still there (`misled`).
The counters of the streams are joined to it by how a step changes the set of
connections that hold a state (`HoldersAfter`, `HoldersCount`); every action
then leaves the difference between the counter and the holders, or adds to it on
the paths that lose a reference (`TakenReferences`). Theorems: `TypeCorrect`
(a counter is never below zero), `ResponsesComplete`, `Counted`,
`ReferencesKept`, `NoneForgotten`.

**HlsSegmentsProofs.** Everything follows from `Clock`: while presentation times
have not gone back, no slice kept is newer than the one of the last frame
(`SliceNow`), that one is kept, and each holds the frames of its seconds.
`SlicesHold` is a part of it. A playlist lists `Window`, the slices kept when it was
written, from the first one in order, without the last (`Listing`): this needs the
arithmetic of the loop, `DurationExact` (while a float counts the seconds, the loop
stops at the span of the window) and `SegmentIsSlice`. The slices of the window
before its last are behind `SliceNow` for ever (`Finished`), which is
`ListedSegmentsFinal`; with a frame in every slice, the slices kept are the last
`NbSlices` (`Dense`, from what `Newest` leaves of a run of numbers), which is
`ListedSegmentsServed`. `PlaylistBounded` needs no exact float: the loop stops at the
latest at the newest slice, whose seconds are rounded as the duration is, however that
may be, and the slices kept lie within the seconds of the stream. Slices are counted by `FS_Interval`; a set of them has a least and a
greatest element because `<` is well-founded (`Least`). Theorems: `SlicesHold`,
`ListedSegmentsHold`, `PlaylistBoundedHolds`.

**StreamControllerProofs.** A state of the controller rests on something outside
it, and the invariant says on what, for each state: `Asked` (a request of
`fragCurrent`, of the key, of the playlist), `Parses` (the fragment posted last is
the current one, and the worker has its end still to deliver), `Appends` (while
something is appended and pending the source buffer is busy, or was never created),
`Flushes` (a flush wanted keeps it busy). `Sound` joins them; `Good` adds that PARSED
is left as soon as nothing is pending, which holds between handlers and not within
one: `_checkAppendedParsed` turns `Sound` into `Good`, a tick keeps `Good`
(`TickFacts`). Every operator a handler calls has its lemma (what it leaves alone
and what it establishes), so that the proof of an action composes the lemmas of its
calls. Detaching the media is the one that leaves a buffer behind with an update in
progress, which `Detached` keeps and its `updateend` ends. `BufferInfo` finds an end because the buffer lies inside the playlist
(`BufferedEnds`). The proof needs that levels are numbered without gaps: the level
controller goes down by one. Theorems: `NeverWedgedHolds` (with the types) and
`LoadIsCurrentHolds`, under no bound on failures, calls, or work in hand.

**LevelControllerProofs.** `Player` is what the record holds where: `mergeDetails`,
`updateFragPTSDTS` and the binary search keep lists of `Listed` fragments of levels
there are (`MergeTyped`, `UpdateTyped`, `SearchWithin`). The loops of these are
recursive functions, and what they compute follows by counting up over a set of
numbers (`CountUp`) and from there being one function of that kind only
(`Iteration`, `SameIteration`). `Good` adds what the refresh rests on: the one
request is for the level being refreshed (`Asks`), where loading is stopped nothing
is asked for (`Stands`), whoever waits for a playlist waits for a request, a timer or
one that is there (`Waits`), the refresh goes on (`Refreshes`), timers without a
handle are at most those `startLoad` added (`Counts`). It holds between handlers; in
the middle of one hold less: `Fired` when a timer has gone off and not asked yet,
`Answered` when the request is gone and the next timer not set, `Restarting` when
`startLoad` has dropped the playlists under whoever waits for one. Each handler leads
through one of these back to `Good`, and a tick keeps it (`TickGood`). Theorem:
`RefreshedHolds`, for any streams, playlists and durations, under no bound. The
numbers of two playlists are compared in `NumberNamesSlice` and
`NumberNamesTwoSlices`: with slices of one second a number that two answers share
names one slice, with longer slices always two. `PlacedHolds` takes the first case:
its hypothesis `SliceDuration = 1` is the one condition under which the code keeps the
property, as the run `live_seconds` refutes it for a slice of two seconds. Its
invariant is `Clocked`: every list is true of one origin of the clock (`ListTrue`:
numbered without gaps, and as soon as one time is known all are known and right from
the origin on), no list is ahead of the server or of a request for its level
(`Windows`), nothing that is still to be loaded lies more than a slice before the
origin, where the clamp to zero of `updatePTS` would displace what follows (`After`),
and what is known of the fragment on its way is true (`Underway`). A merge keeps it
because the numbers two lists share name the same slices (`MergeTrue`), a retiming
because what it spreads from is right (`UpdateTrue`, `PropagateRight`). Most handlers
only drop lists or send requests (`Calm`); each action has a lemma of its own
(`...Follows`), and the handlers that start again from nothing choose a new origin.
`NoSkipHolds` rests on the same invariant and takes the same hypothesis. What it adds
is `Plays`: whatever is buffered was parsed at a known origin and lies at most a slice
before it, the slice of the previous fragment is in the buffer, and the playhead is at
no time before zero that is not buffered. So the buffer ends at a time that is not
before zero, in a slice that is missing (`BufferEnds`, `PlayheadEnds`), which cannot be
the previous fragment's; and the fragment found for that time, by the end of the list,
as the one after the previous fragment or by the search, starts no later
(`FindContinues`), also where the playhead was sent to the live edge meanwhile. It needs
the fragment on its way to belong to the level whose list it updates, which `Underway`
says of the fragment and `Clocked` of every list. A handler that asks for nothing
(`AsksNothing`) may come before one that does (`CalmThenFollows`). Without a known time
nothing is claimed, and nothing holds: `Guess` takes the middle fragment.

**Only model-checked.** Liveness (`ImplementsChannel` and `ImplementsStream` beyond
their safety, `RecordersServe`, the `Settles` of the player): the prover does
not reason about fairness. `AudioStreamController` and `Transmuxer`: operators that call
one another through a tick of the controller or loop over samples are RECURSIVE, and
the prover takes no module that reaches one. `BufferedMeansAppended` and
`EosComplete` of the stream controller, which the run checks with their exceptions
(`p.flaw`).

## 5. What is not modelled

* **live555** (RTP, RTSP, the scheduler), the Redis client, x264, libjpeg, ALSA
  and the kernel driver are external. What the code relies on is modelled with
  its user: requests and closure of a `FramedSource` and the event triggers in
  `DeviceSource`, `std::queue` in `Recorder`, sockets in `TcpSink`, the answers
  of the driver in `MmapBuffers`.
* **Opening devices** (`V4l2Device`, `V4l2Capture`, `V4l2Output`, `ALSACapture`): a
  line of ioctl calls before any thread runs.
* **Destruction of a `V4L2DeviceSource`**: nothing in the program closes the
  replicator that owns it.
* **Encoding** (`x264_encoder`, `yuv_to_jpg`), `AddH26xMarkerFilter` and
  `MJPEGVideoSource`: straight code over bytes, between two calls of which no other
  actor has a say.
* **Statistics, logging, headers and wording** of responses.
* **The rest of hls.js**: subtitles and captions (`cea-608-parser`, the timeline
  and subtitle controllers), EME, the MP3 and AAC demuxers, decryption, the frame
  rate and level capping controllers, the bandwidth estimate behind
  `nextAutoLevel` (a free choice in `LevelController`), the demo and test pages.
  Of the transmuxer, ID3 and CEA payloads are passed on and not looked into.
* **The composition of the player modules**: `StreamController` has one source
  buffer and a fixed playlist, `AudioStreamController` an abstract main controller, `LevelController`
  a buffer that takes what it is given; together they would not fit a run.
* **`b_txt_reader`, Dockerfile, packaging**: a stand-alone tool and build files.

Other hazards of the code that no property covers: the end of a capture thread
is not told to the sink (V4L2DeviceSource.cpp:112; the code promises nothing); `-Q 0`
(main.cpp:144; the model assumes a queue that can hold a frame); more buffers than
`m_buffer` holds (V4l2MmapDevice.cpp:232, `CountsAssumption`); the order of
shutdown (V4l2RTSPServer.h:48); the SDP that is asked for before the parameter sets
are known (ServerMediaSubsession.cpp:126); `record_file` in the destructor
(V4l2MmapDevice.cpp:192); room for the four bytes that the marker filter adds
(AddH26xMarkerFilter.h:45).

## 6. Plan

In this order, the most important first:

1. `DeviceSource` with `FrameChannel` — done, proved.
2. `Recorder` — done, proved but for liveness.
3. `HlsSegments` — done, proved.
4. `TcpSink` with `ByteStream` — done, proved.
5. `H26xSource` — done, proved.
6. `MmapBuffers` — done, proved.
7. `HttpConnection` — done, proved.
8. The player that the server's web page loads: `StreamController`,
   `BufferController` with `AudioStreamController`, `TsDemuxer` and `Mp4Remuxer` under
   `Transmuxer`, `LevelDetails` under `LevelController` — done, model-checked;
   `StreamController` proved but for `BufferedMeansAppended` and `EosComplete`,
   `LevelController` for `Refreshed` and, with slices of one second, for `Placed` and
   `NoSkip`.
9. Left: the liveness of a response, by composing
   `HttpConnection` with the sink of `TcpSink`; `H26xSource` with `DeviceSource`,
   for frames that point into parameter sets while the queue drops others; the
   sessions and the replicator they share; the order of shutdown; `LevelController`
   against `HlsSegments` itself in place of its window.
