------------------------------ MODULE Mp4Remuxer ------------------------------
(***************************************************************************)
(* The remuxer of the player (hls.js, remux/mp4-remuxer.js): the samples   *)
(* the demuxer took out of a fragment become MP4 segments on the time line *)
(* of the media element.  r is what it keeps between fragments, and a call *)
(* works on a record m: the demuxer m.d, whose samples it consumes, m.r,   *)
(* and m.out, the events it triggers.                                      *)
(*                                                                         *)
(* Times are ticks of 1/90000 s in the code's own numbers; NaN is what it  *)
(* computes with a time scale or a reference it does not have.  Browser    *)
(* and configuration are the default ones: not Safari, stretchShort-       *)
(* VideoTrack off, and there is a silent frame for the audio codec.        *)
(***************************************************************************)
EXTENDS TsDemuxer, TLC

CONSTANTS
  NearFrames,   \* audio this near to what is expected goes on: 20 frames
  NearTicks,    \* and so does a fragment this near to it: 9000 ticks
  MAX_SILENT_FRAME_DURATION    \* no gap this long is filled: 10000 ms

ASSUME NearAssumption ==
  NearFrames \in Nat /\ NearTicks \in Nat /\ MAX_SILENT_FRAME_DURATION \in Nat

Silent == <<0>>
MaxOf(a, b) == IF a < b THEN b ELSE a
MinOf(a, b) == IF a < b THEN a ELSE b
Rounded(n, k) == (2 * n + k) \div (2 * k)        \* Math.round(n / k)

NewRemuxer == [is |-> FALSE, initPTS |-> NaN, initDTS |-> NaN,
               nextAvcDts |-> NaN, nextAudioPts |-> NaN]
Event(ev, tracks, pts) == [ev |-> ev, tracks |-> tracks, pts |-> pts]
Trigger(m, e) == [m EXCEPT !.out = Append(@, e)]

(* The time stamps as they are.                                            *)
NoTurns(value, reference) == value

(* _PTSNormalize: the turn of the clock nearest to the reference.          *)
RECURSIVE PTSNormalize(_, _)
PTSNormalize(value, reference) ==
  IF reference = NaN \/ Abs(value - reference) <= Wrap \div 2 THEN value
  ELSE PTSNormalize(IF reference < value THEN value - Wrap ELSE value + Wrap, reference)
-----------------------------------------------------------------------------
(* generateIS: an init segment for the tracks that have samples and a      *)
(* configuration; the first one after resetTimeStamp sets the time line.   *)
GenerateIS(m, timeOffset) ==
  LET d == m.d
      audio == d.rate /\ d.frames # <<>>
      video == d.sps # <<>> /\ d.pps # <<>> /\ d.samples # <<>>
      tracks == (IF audio THEN {"audio"} ELSE {}) \cup (IF video THEN {"video"} ELSE {})
      first(stamps) == Least(stamps) - timeOffset
      a == IF audio THEN {d.frames[1].pts} ELSE {}
      compute == m.r.initPTS = NaN
      pts == first(a \cup (IF video THEN {d.samples[1].pts} ELSE {}))
      dts == first(a \cup (IF video THEN {d.samples[1].dts} ELSE {}))
      r1 == [m.r EXCEPT !.is = TRUE, !.initPTS = IF compute THEN pts ELSE @,
                        !.initDTS = IF compute THEN dts ELSE @]
      m1 == IF compute /\ video THEN Trigger(m, Event("INIT_PTS_FOUND", tracks, pts)) ELSE m
  IN IF tracks = {} THEN Trigger(m, Event("ERROR", {}, NaN))
     ELSE [Trigger(m1, Event("INIT_SEGMENT", tracks, NaN)) EXCEPT
             !.r = r1, !.d.scale = [t \in Tracks |-> @[t] \/ t \in tracks]]

Data(track, base, samples, startPTS, endPTS, startDTS, endDTS) ==
  [ev |-> "DATA", tracks |-> {track}, pts |-> startPTS, endPTS |-> endPTS, base |-> base,
   startDTS |-> startDTS, endDTS |-> endDTS, samples |-> samples]
-----------------------------------------------------------------------------
(* remuxVideo.  The samples on the time line, in decoding order, with no   *)
(* presentation before the decoding (up to 200 ms are shifted).            *)
VideoSamples(m, reference) ==
  LET s == m.d.samples
      placed == [i \in DOMAIN s |->
                  [s[i] EXCEPT !.pts = PTSNormalize(@ - m.r.initDTS, reference),
                               !.dts = PTSNormalize(@ - m.r.initDTS, reference)] @@ [id |-> i]]
      sorted == SortSeq(placed, LAMBDA x, y :
                   x.dts < y.dts \/ (x.dts = y.dts /\ (x.pts < y.pts \/ (x.pts = y.pts /\ x.id < y.id))))
      shift == FoldLeft(LAMBDA low, x : MaxOf(MinOf(low, x.pts - x.dts), -18000), 0, sorted)
  IN [i \in DOMAIN sorted |-> [sorted[i] EXCEPT !.dts = @ + shift]]

(* The first sample of a contiguous fragment moves to where the last one   *)
(* ended; its pts by as many ticks as that is milliseconds.                *)
FirstSample(s, contiguous, reference) ==
  LET dts == MaxOf(s[1].dts, 0)
      pts == MaxOf(s[1].pts, 0)
      delta == IF reference = NaN THEN 0 ELSE Rounded(dts - reference, 90)
      moved == contiguous /\ delta # 0
  IN [moved |-> moved, dts |-> IF moved THEN reference ELSE dts,
      pts |-> IF moved THEN MaxOf(pts - delta, reference) ELSE pts]

(* A sample lasts until the next one decodes, the last one as long as the  *)
(* one before: no time at all when it is alone.                            *)
VideoDuration(s, i) ==
  IF i < Len(s) THEN s[i + 1].dts - s[i].dts
  ELSE s[i].dts - s[MaxOf(i - 1, 1)].dts

VideoData(m, s, first) ==
  LET s1 == IF first.moved THEN [s EXCEPT ![1].dts = first.dts, ![1].pts = first.pts] ELSE s
      lastDTS == MaxOf(Last(s1).dts, 0)
      s2 == [i \in DOMAIN s1 |->
              LET dts == MaxOf(s1[i].dts, first.dts)
              IN [s1[i] EXCEPT !.dts = dts, !.pts = MaxOf(@, dts)]]
      duration == VideoDuration(s2, Len(s2))
      time(t) == IF m.d.scale["video"] THEN t ELSE NaN
      mp4 == [i \in DOMAIN s2 |->
               [units |-> [j \in DOMAIN s2[i].units |-> s2[i].units[j].data], key |-> s2[i].key,
                cts |-> s2[i].pts - s2[i].dts, duration |-> VideoDuration(s2, i)]]
  IN [Trigger(m, Data("video", first.dts, mp4, time(first.pts),
                      time(MaxOf(lastDTS, Last(s1).pts) + duration),
                      time(first.dts), time(lastDTS + duration)))
        EXCEPT !.r.nextAvcDts = lastDTS + duration, !.d.samples = <<>>, !.d.dropped = 0]

RemuxVideo(m, timeOffset, contiguous) ==
  LET reference == CASE contiguous -> m.r.nextAvcDts
                     [] m.d.scale["video"] -> timeOffset
                     [] OTHER -> NaN
      placed(s) == VideoData(m, s, FirstSample(s, contiguous, reference))
  IN placed(VideoSamples(m, reference))
-----------------------------------------------------------------------------
(* remuxAudio.  What comes soon enough after the last frame is contiguous, *)
(* whatever its fragment says; the time stamps are taken as they are.      *)
AudioContiguous(m, timeOffset, contiguous, accurate) ==
  LET next == m.r.nextAudioPts
  IN \/ contiguous
     \/ /\ m.d.frames # <<>> /\ next \notin {NaN, 0}
        /\ \/ accurate /\ Abs(timeOffset - next) < NearTicks
           \/ Abs(m.d.frames[1].pts - next - m.r.initDTS) < NearFrames * FrameTicks

Frame(pts, unit) == [pts |-> pts, unit |-> unit]
Silence(n, pts) == [i \in 1..n |-> Frame(pts + (i - 1) * FrameTicks, Silent)]

(* With accurate times the frames go where the ones before end: overlaps   *)
(* are dropped and gaps filled, but not at time 0, nor without a time to   *)
(* begin with, nor when they are too long: then the frame goes where the   *)
(* gap begins.                                                             *)
Fillable(delta) == delta \in FrameTicks..90 * MAX_SILENT_FRAME_DURATION - 1
Aligned(s, first) ==
  LET place(acc, f) ==
        LET delta == f.pts - acc.next
            missing == IF Fillable(delta) /\ acc.next # 0 THEN Rounded(delta, FrameTicks) ELSE 0
            at == acc.next + missing * FrameTicks
        IN CASE first = NaN -> [acc EXCEPT !.frames = Append(@, Frame(NaN, f.unit))]
             [] delta <= -FrameTicks -> acc
             [] OTHER -> [next |-> at + FrameTicks,
                          frames |-> acc.frames \o Silence(missing, MaxOf(acc.next, 0))
                                                \o <<Frame(at, f.unit)>>]
  IN FoldLeft(place, [next |-> first, frames |-> <<>>], s).frames

(* The first frame of contiguous audio goes where the last one ended, with *)
(* silence before it if it is late, but not by too much; one that is too   *)
(* early is dropped, and the next one is the first.                        *)
RECURSIVE FirstFrame(_, _, _)
FirstFrame(s, contiguous, next) ==
  LET late == s[1].pts - next
      delta == IF next = NaN \/ s[1].pts = NaN THEN 0 ELSE Rounded(late, 90)
  IN CASE s = <<>> -> [s |-> s, missing |-> 0]
       [] ~contiguous \/ delta = 0 -> [s |-> s, missing |-> 0]
       [] delta < -12 -> FirstFrame(Tail(s), contiguous, next)
       [] OTHER -> [s |-> [s EXCEPT ![1].pts = next],
                    missing |-> IF delta \in 1..MAX_SILENT_FRAME_DURATION - 1
                                THEN Rounded(late, FrameTicks) ELSE 0]

(* Every frame lasts until the next one begins; the last one as long as    *)
(* the one before, silence a frame.  If nothing is left the frames stay,   *)
(* as they were placed, for the next fragment.                             *)
AudioData(m, s, missing) ==
  LET nan == s[1].pts = NaN
      lasts(i) == IF i < Len(s) THEN s[i + 1].pts - s[i].pts ELSE 0
      all == [i \in 1..missing |-> [unit |-> Silent, duration |-> FrameTicks]]
               \o [i \in DOMAIN s |-> [unit |-> s[i].unit,
                                       duration |-> IF nan THEN NaN ELSE lasts(i)]]
      lastDuration == IF Len(all) >= 2 THEN all[Len(all) - 1].duration ELSE 0
      start == IF nan THEN NaN ELSE MaxOf(0, s[1].pts)
      end == IF nan THEN NaN ELSE Last(s).pts + lastDuration
  IN [Trigger(m, Data("audio", start, [all EXCEPT ![Len(all)].duration = lastDuration],
                      start, end, start, end))
        EXCEPT !.r.nextAudioPts = end, !.d.frames = <<>>]

PlacedAudio(m, next) ==
  SortSeq([i \in DOMAIN m.d.frames |->
             Frame(PTSNormalize(m.d.frames[i].pts - m.r.initDTS, next), m.d.frames[i].unit)],
          LAMBDA x, y : x.pts < y.pts)

RemuxAudio(m, timeOffset, contig, accurate) ==
  LET contiguous == AudioContiguous(m, timeOffset, contig, accurate)
      next == IF contiguous THEN m.r.nextAudioPts ELSE timeOffset
      from(kept, f) == IF f.s = <<>> THEN [m EXCEPT !.d.frames = kept]
                       ELSE AudioData(m, f.s, f.missing)
      begin(kept) == from(kept, FirstFrame(kept, contiguous, next))
  IN begin(IF accurate THEN Aligned(PlacedAudio(m, next), next) ELSE PlacedAudio(m, next))

(* remuxEmptyAudio: silence as long as the video of the fragment.          *)
RemuxEmptyAudio(m, timeOffset, contiguous, video) ==
  LET start == (IF m.r.nextAudioPts # NaN THEN m.r.nextAudioPts ELSE video.startDTS) + m.r.initDTS
      n == -((start - video.endDTS - m.r.initDTS) \div FrameTicks)
  IN RemuxAudio([m EXCEPT !.d.frames = Silence(MaxOf(n, 0), start)], timeOffset, contiguous, FALSE)

(* remuxText: sorted, on the time line, but on no turn of the clock.       *)
TextData(m, s) ==
  [Trigger(m, [ev |-> "TEXT", tracks |-> {"text"}, pts |-> NaN,
               samples |-> [i \in DOMAIN s |-> [s[i] EXCEPT !.pts = @ - m.r.initPTS]]])
     EXCEPT !.d.text = <<>>]
RemuxText(m) ==
  IF m.d.text = <<>> THEN m ELSE TextData(m, SortSeq(m.d.text, LAMBDA x, y : x.pts < y.pts))
-----------------------------------------------------------------------------
(* remux: audio, then video; each asks for the init segment again when its *)
(* track was not in it.  Without any audio in the fragment its silence     *)
(* follows the video.  FRAG_PARSED is always the last event.               *)
WithScale(m, t, timeOffset) == IF m.d.scale[t] THEN m ELSE GenerateIS(m, timeOffset)

RemuxTracks(m, timeOffset, contiguous, accurate) ==
  LET audio == m.d.frames # <<>>
      video == m.d.samples # <<>>
      heard == RemuxAudio(WithScale(m, "audio", timeOffset), timeOffset, contiguous, accurate)
      silenced(m1) == IF m1.d.rate
                      THEN RemuxEmptyAudio(m1, timeOffset, contiguous, Last(m1.out)) ELSE m1
  IN CASE audio /\ video ->
            RemuxVideo(WithScale(heard, "video", timeOffset), timeOffset, contiguous)
       [] audio -> heard
       [] video -> silenced(RemuxVideo(m, timeOffset, contiguous))
       [] OTHER -> m

Remux(m, timeOffset, contiguous, accurate) ==
  LET rest(m0) == IF m0.r.is THEN RemuxText(RemuxTracks(m0, timeOffset, contiguous, accurate))
                  ELSE RemuxText(m0)
  IN Trigger(rest(IF m.r.is THEN m ELSE GenerateIS(m, timeOffset)), Event("FRAG_PARSED", {}, NaN))
=============================================================================
