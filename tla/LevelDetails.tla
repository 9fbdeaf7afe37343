---------------------------- MODULE LevelDetails ----------------------------
(***************************************************************************)
(* What the player knows of a live playlist (hls.js): the details parsed   *)
(* from one answer of the server (loader/playlist-loader.js), the times    *)
(* given to its fragments and kept from one refresh to the next            *)
(* (helper/level-helper.js), and the choice of the fragment that continues *)
(* the buffer (controller/stream-controller.js).                           *)
(*                                                                         *)
(* The server's side of it is HTTPServer::sendM3u8PlayList: a playlist of  *)
(* the closed slices lo .. lo + Listed - 1 of SliceDuration seconds, whose *)
(* EXT-X-MEDIA-SEQUENCE is the time of the first one, in seconds.  Times   *)
(* are whole seconds; maxFragLookUpTolerance (0.2 s) is below that unit.   *)
(* A fragment carries "slice", the slice its URL names.                    *)
(***************************************************************************)
EXTENDS Integers, Sequences, SequencesExt

CONSTANTS
  SliceDuration,  \* -S of the server, targetduration of the playlist
  Listed          \* slices of a playlist: one less than the sink keeps

ASSUME PlaylistAssumption == SliceDuration \in Nat \ {0} /\ Listed \in Nat \ {0}

NaN == -1000                                    \* no time is that early
Lesser(a, b) == IF a < b THEN a ELSE b
Greater(a, b) == IF a > b THEN a ELSE b

(* An answer without a line to parse is not modelled: the server refuses   *)
(* a playlist of no duration.                                              *)
NoDetails == [startSN |-> -1, frags |-> <<>>, known |-> FALSE]
NoFrag == [level |-> -1, sn |-> -1, slice |-> -1, start |-> NaN, dur |-> 0,
           pts |-> NaN, pte |-> NaN]

MediaSequence(lo) == lo * SliceDuration

(* parseLevelPlaylist: numbers count up by one from EXT-X-MEDIA-SEQUENCE,  *)
(* starts add up the durations from zero.                                  *)
ParseLevelPlaylist(level, lo) ==
  [startSN |-> MediaSequence(lo),
   frags |-> [i \in 1..Listed |->
                [level |-> level, sn |-> MediaSequence(lo) + i - 1, slice |-> lo + i - 1,
                 start |-> (i - 1) * SliceDuration, dur |-> SliceDuration,
                 pts |-> NaN, pte |-> NaN]],
   known |-> FALSE]

EndSN(d) == d.startSN + Len(d.frags) - 1
Start(d) == d.frags[1].start
EndOf(f) == f.start + f.dur
End(d) == EndOf(d.frags[Len(d.frags)])
HasSN(d, sn) == sn \in d.startSN..EndSN(d)
FragOf(d, sn) == d.frags[sn - d.startSN + 1]
-----------------------------------------------------------------------------
(* updatePTS: the duration of the earlier of two neighbours follows from   *)
(* the time of "to" where that is known, the start of "to" from "from"     *)
(* where it is not, and never before zero.                                 *)
UpdatePTS(frags, from, to) ==
  LET f == frags[from]
      t == frags[to]
  IN IF t.pts # NaN
     THEN IF to > from THEN [frags EXCEPT ![from].dur = t.pts - f.start]
                       ELSE [frags EXCEPT ![to].dur = f.start - t.pts]
     ELSE IF to > from THEN [frags EXCEPT ![to].start = EndOf(f)]
                       ELSE [frags EXCEPT ![to].start = Greater(f.start - t.dur, 0)]

(* The two loops of updateFragPTSDTS, outwards from the fragment at k.     *)
Propagate(frags, k) ==
  LET down[i \in 0..k - 1] ==
        IF i = 0 THEN frags ELSE UpdatePTS(down[i - 1], k - i + 1, k - i)
      up[i \in 0..Len(frags) - k] ==
        IF i = 0 THEN down[k - 1] ELSE UpdatePTS(up[i - 1], k + i - 1, k + i)
  IN up[Len(frags) - k]

(* A time given to a fragment only ever widens the one it has.             *)
Timed(f, pts, pte) ==
  LET s == IF f.pts = NaN THEN pts ELSE Lesser(pts, f.pts)
      e == IF f.pts = NaN THEN pte ELSE Greater(pte, f.pte)
  IN [f EXCEPT !.start = s, !.pts = s, !.pte = e, !.dur = e - s]

(* As a mutant: its neighbours are left where they were.                   *)
UpdateFragAlone(d, f, pts, pte) ==
  IF d = NoDetails \/ ~HasSN(d, f.sn) THEN d
  ELSE [d EXCEPT !.frags[f.sn - d.startSN + 1] = Timed(f, pts, pte), !.known = TRUE]

(* updateFragPTSDTS: the loaded fragment takes its place in the list, which *)
(* may be younger than the fragment; outside of it nothing is learnt.      *)
UpdateFragPTSDTS(d, f, pts, pte) ==
  IF d = NoDetails \/ ~HasSN(d, f.sn) THEN d
  ELSE LET k == f.sn - d.startSN + 1
       IN [d EXCEPT !.frags = Propagate([@ EXCEPT ![k] = Timed(f, pts, pte)], k),
                    !.known = TRUE]

(* mergeDetails: the fragments two answers share, by number, keep what is  *)
(* known of their times; without any, the new list starts where the old    *)
(* one says.                                                               *)
MergeDetails(old, new) ==
  LET Shared == {sn \in new.startSN..EndSN(new) : HasSN(old, sn)}
      Kept(f) == IF f.sn \in Shared /\ FragOf(old, f.sn).pts # NaN
                 THEN LET o == FragOf(old, f.sn)
                      IN [f EXCEPT !.start = o.pts, !.pts = o.pts, !.pte = o.pte, !.dur = o.dur]
                 ELSE f
      Frags == [i \in 1..Len(new.frags) |-> Kept(new.frags[i])]
      Timeds == {i \in 1..Len(Frags) : Frags[i].pts # NaN}
      latest == CHOOSE i \in Timeds : \A j \in Timeds : j <= i
      Slid == [i \in 1..Len(Frags) |->
                 [Frags[i] EXCEPT !.start = @ + FragOf(old, new.startSN).start]]
      Placed(fs) == [new EXCEPT !.frags = fs, !.known = old.known]
  IN IF Shared = {} THEN new
     ELSE IF Timeds # {}
     THEN Placed(UpdateFragPTSDTS([new EXCEPT !.frags = Frags], Frags[latest],
                                  Frags[latest].pts, Frags[latest].pte).frags)
     ELSE IF HasSN(old, new.startSN) THEN Placed(Slid) ELSE Placed(Frags)
-----------------------------------------------------------------------------
(* BinarySearch.search: 1 sends it up, -1 down, 0 ends it.  Nought when    *)
(* nothing is found.  As many rounds as there are elements are enough.     *)
Search(compared) ==
  LET size == Len(compared)
      middle(r) == (r.lo + r.hi) \div 2
      narrow[r \in [lo : 1..size + 1, hi : 0..size]] ==
        IF r.lo > r.hi THEN r
        ELSE CASE compared[middle(r)] = 1  -> [r EXCEPT !.lo = middle(r) + 1]
               [] compared[middle(r)] = -1 -> [r EXCEPT !.hi = middle(r) - 1]
               [] OTHER -> r
      range[i \in 0..size] ==
        IF i = 0 THEN [lo |-> 1, hi |-> size] ELSE narrow[range[i - 1]]
  IN IF range[size].lo > range[size].hi THEN 0 ELSE middle(range[size])

(* As a mutant: one that ends late enough will do.                         *)
EndsAfter(f, time) == IF EndOf(f) <= time THEN 1 ELSE 0

(* fragmentWithinToleranceTest; a duration of nothing or less, that two    *)
(* times out of order give, is its own tolerance.                          *)
Within(f, time) ==
  IF f.dur > 0
  THEN IF EndOf(f) <= time THEN 1 ELSE IF f.start > time /\ f.start # 0 THEN -1 ELSE 0
  ELSE IF f.start <= time THEN 1 ELSE IF f.start - f.dur > time /\ f.start # 0 THEN -1 ELSE 0

(* _findFragment, for fragments that start with a key frame: the one under *)
(* the end of the buffer, the one after it if it was just loaded.          *)
FindFragment(d, prev, bufferEnd) ==
  LET next == prev.sn + 1
      found == IF bufferEnd >= End(d) THEN Len(d.frags)
               ELSE IF prev # NoFrag /\ HasSN(d, next) /\ Within(FragOf(d, next), bufferEnd) = 0
               THEN next - d.startSN + 1
               ELSE Search([i \in 1..Len(d.frags) |-> Within(d.frags[i], bufferEnd)])
  IN IF found = 0 THEN NoFrag
     ELSE IF prev = NoFrag \/ prev.sn # d.frags[found].sn \/ prev.level # d.frags[found].level
     THEN d.frags[found]
     ELSE IF found < Len(d.frags) THEN d.frags[found + 1] ELSE NoFrag
=============================================================================
