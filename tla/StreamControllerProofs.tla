----------------------- MODULE StreamControllerProofs -----------------------
(***************************************************************************)
(* Why the main stream controller is never left waiting for an event that  *)
(* cannot happen any more, for any playlist, any levels, any failures and  *)
(* any calls of the user.                                                  *)
(***************************************************************************)
EXTENDS StreamController, WellFoundedInduction, TLAPS

(***************************************************************************)
(* The shape of the state.                                                 *)
(***************************************************************************)

Cursors == -1 .. End
FragsOrNone == Frags \cup {NoFrag}

Keys == {"state", "cur", "prev", "req", "meta", "nextLoad", "start", "last",
         "err", "test", "pend", "apd", "imm", "level", "want", "man", "cap",
         "bf", "cnt", "age", "back", "loop", "details", "plreq", "xhr", "late",
         "xtest", "dlast", "flaw", "att", "keys", "keyGot", "kreq"}

Player(s) ==
    /\ DOMAIN s = Keys
    /\ s.state \in States
    /\ s.cur \in FragsOrNone /\ s.prev \in FragsOrNone /\ s.xhr \in FragsOrNone
    /\ s.kreq \in FragsOrNone /\ s.dlast \in FragsOrNone
    /\ s.want \in Levels
    /\ s.level \in Levels \cup {-1} /\ s.plreq \in Levels \cup {-1}
    /\ s.details \subseteq Levels /\ s.keys \subseteq Frags /\ s.bf \subseteq SN
    /\ s.nextLoad \in Cursors /\ s.start \in Cursors /\ s.last \in Cursors
    /\ s.err \in 0 .. MaxRetry /\ s.cap \in 1 .. End
    /\ s.cnt \in [Frags -> 0 .. LoopThreshold + 1]
    /\ s.age \in [Frags -> 0 .. LoopThreshold]

Segments == [op : {"append"}, f : FragsOrNone, cells : SUBSET Time]

Buffer(b) ==
    /\ DOMAIN b = {"q", "now", "flush", "buf", "init", "made", "ini"}
    /\ OpOK(b.now) /\ b.q \in Seq(Segments) /\ b.buf \subseteq Time

Video(m) == DOMAIN m = {"pos", "seek", "evt"} /\ m.pos \in 0 .. End

Posts == [kind : {"init", "data", "parsed"}, of : Frags, drop : BOOLEAN]

(***************************************************************************)
(* What the states of the controller rest on.                              *)
(***************************************************************************)

\* What is awaited has been asked for.
Asked(s) ==
    /\ s.xhr # NoFrag => s.xhr = s.cur
    /\ s.state = "FRAG_LOADING" => s.xhr # NoFrag
    /\ s.state = "KEY_LOADING" => s.kreq # NoFrag
    /\ s.state = "WAITING_LEVEL" => s.plreq # -1 \/ s.level \in s.details

\* A fragment that is parsed is the current one, and its end is to come.
Parses(s, w) ==
    s.state = "PARSING" =>
        /\ s.dlast = s.cur
        /\ \E i \in 1 .. Len(w) : w[i].kind = "parsed" /\ w[i].of = s.cur

\* A segment appended, or waiting to be, keeps the source buffer busy.
Appends(s, b) ==
    s.state \in {"PARSING", "PARSED"} =>
        /\ s.cur # NoFrag /\ s.xhr = NoFrag
        /\ s.apd /\ s.pend => b.now.op # "idle" \/ ~b.made

Flushes(s, b) ==
    /\ s.state = "BUFFER_FLUSHING" => b.flush # <<>>
    /\ b.flush # <<>> => b.now.op # "idle"

\* Within a handler; and once it has looked whether the fragment is done.
Sound(s, b, w) ==
    /\ Player(s) /\ Buffer(b)
    /\ Asked(s) /\ Parses(s, w) /\ Appends(s, b) /\ Flushes(s, b)

Good(s, b, w) == Sound(s, b, w) /\ (s.state = "PARSED" => s.apd /\ s.pend)

(***************************************************************************)
(* Times and the media buffer.                                             *)
(***************************************************************************)

LEMMA LeastOf ==
    ASSUME NEW T, T \subseteq Nat, T # {}
    PROVE  \E x \in T : \A y \in T : x <= y
<1>. DEFINE R == {q \in Nat \X Nat : q[1] < q[2]}
<1>1. R = OpToRel(<, Nat)
  BY Zenon DEF OpToRel
<1>2. IsWellFoundedOn(R, Nat)
  BY <1>1, NatLessThanWellFounded
<1>3. PICK x \in T : \A y \in T : ~(<<y, x>> \in R)
  <2>. HIDE DEF R
  <2>. QED
    BY <1>2, WFMin
<1>4. ASSUME NEW y \in T PROVE x <= y
  <2>1. ~(y < x)
    BY <1>3
  <2>. QED
    BY <2>1
<1>. QED
  BY <1>4

LEMMA LeastBuffered ==
    ASSUME NEW S, S \subseteq Time, S # {} PROVE Least(S) \in S
<1>1. S \subseteq Nat
  BY DEF Time
<1>. QED
  BY <1>1, LeastOf DEF Least

\* What is buffered ends somewhere.
LEMMA BufferedEnds ==
    ASSUME NEW buf, buf \subseteq Time, NEW pos \in Cursors
    PROVE  BufferInfo(buf, pos).end \in Cursors
<1>. DEFINE Gap == {k \in Nat : pos + k <= End /\ pos + k \notin buf}
<1>1. End \in Nat /\ End \notin buf /\ pos \in Int /\ pos <= End /\ pos >= -1
  BY SizesAssumption DEF Time, End, Cursors
<1>2. End - pos \in Gap
  BY <1>1
<1>3. PICK k \in Gap : \A j \in Gap : k <= j
  <2>1. Gap \subseteq Nat
    OBVIOUS
  <2>. HIDE DEF Gap
  <2>. QED
    BY <1>2, <2>1, LeastOf
<1>4. PICK e \in pos .. End : e = pos + k
  BY <1>1, <1>3
<1>5. \E x \in pos .. End : pos .. x - 1 \subseteq buf /\ x \notin buf
  <2>1. ASSUME NEW x \in pos .. e - 1 PROVE x \in buf
    <3>1. x - pos \in Nat /\ x - pos < k /\ pos + (x - pos) = x /\ x <= End
      BY <1>1, <1>3, <1>4
    <3>2. x - pos \notin Gap
      BY <1>3, <3>1
    <3>. QED
      BY <3>1, <3>2
  <2>2. e \notin buf
    BY <1>3, <1>4
  <2>. WITNESS e \in pos .. End
  <2>. QED
    BY <2>1, <2>2
<1>6. BufferInfo(buf, pos).end \in pos .. End
  BY <1>5 DEF BufferInfo
<1>. QED
  BY <1>1, <1>6 DEF Cursors

(***************************************************************************)
(* The fragment table.                                                     *)
(***************************************************************************)

LEMMA LevelsBelow == \A l \in Levels : l \in Nat /\ (l > 0 => l - 1 \in Levels)
BY SizesAssumption

LEMMA FragFacts ==
    /\ NoFrag \notin Frags
    /\ \A l \in Levels, n \in SN : <<l, n>> \in Frags
    /\ \A f \in Frags : Level(f) \in Levels /\ Sn(f) \in SN
BY SizesAssumption DEF Frags, NoFrag, Level, Sn, SN

LEMMA ForgetLoopsFacts ==
    ASSUME NEW s, Player(s)
    PROVE  /\ Player(ForgetLoops(s))
           /\ \A k \in Keys \ {"age", "loop"} : ForgetLoops(s)[k] = s[k]
<1>1. PICK age : age = [f \in Frags |-> LoopThreshold]
  OBVIOUS
<1>2. age \in [Frags -> 0 .. LoopThreshold]
  BY <1>1, SizesAssumption
<1>3. PICK loop : loop = IF s.loop = "unset" THEN "nan" ELSE s.loop
  OBVIOUS
<1>4. PICK t : t = [s EXCEPT !.age = age, !.loop = loop]
  OBVIOUS
<1>5. ForgetLoops(s) = t
  BY <1>1, <1>3, <1>4 DEF ForgetLoops
<1>6. Player(t)
  BY <1>2, <1>4 DEF Player, Keys
<1>7. \A k \in Keys \ {"age", "loop"} : t[k] = s[k]
  BY <1>4 DEF Player
<1>. QED
  BY <1>5, <1>6, <1>7

LEMMA ReduceFacts ==
    ASSUME NEW s, Player(s)
    PROVE  /\ Player(ReduceMaxBufferLength(s))
           /\ \A k \in Keys \ {"age", "loop", "cap"} :
                 ReduceMaxBufferLength(s)[k] = s[k]
<1>1. PICK t : t = ForgetLoops(s)
  OBVIOUS
<1>2. Player(t) /\ \A k \in Keys \ {"age", "loop"} : t[k] = s[k]
  BY <1>1, ForgetLoopsFacts
<1>3. CASE s.cap >= 2
  <2>1. PICK cap \in 1 .. End : cap = t.cap \div 2
    BY <1>2, <1>3, SizesAssumption DEF Player, End, Keys
  <2>2. ReduceMaxBufferLength(s) = [t EXCEPT !.cap = cap]
    BY <1>1, <1>3, <2>1 DEF ReduceMaxBufferLength
  <2>. QED
    BY <1>2, <2>2 DEF Player, Keys
<1>4. CASE ~(s.cap >= 2)
  BY <1>4 DEF ReduceMaxBufferLength
<1>. QED
  BY <1>3, <1>4

LEMMA RequestLevelFacts ==
    ASSUME NEW s, Player(s), NEW l \in Levels
    PROVE  /\ Player(RequestLevel(s, l))
           /\ \A k \in Keys \ {"plreq"} : RequestLevel(s, l)[k] = s[k]
           /\ RequestLevel(s, l).plreq # -1 \/ l \in s.details
           /\ s.plreq # -1 => RequestLevel(s, l).plreq # -1
BY SizesAssumption DEF RequestLevel, Player, Keys

LEMMA SwitchDownFacts ==
    ASSUME NEW s, Player(s), NEW f \in Frags
    PROVE  /\ Player(SwitchDown(s, f))
           /\ \A k \in Keys \ {"want"} : SwitchDown(s, f)[k] = s[k]
BY FragFacts, LevelsBelow DEF SwitchDown, Player, Keys

LEMMA AbortLoadFacts ==
    ASSUME NEW s, Player(s)
    PROVE  /\ Player(AbortLoad(s))
           /\ \A k \in Keys \ {"xhr"} : AbortLoad(s)[k] = s[k]
           /\ AbortLoad(s).xhr = IF s.xhr = s.cur THEN NoFrag ELSE s.xhr
BY DEF AbortLoad, Player, Keys, FragsOrNone

LEMMA StopLoadFacts ==
    ASSUME NEW s, Player(s), Asked(s)
    PROVE  /\ Player(StopLoad(s))
           /\ StopLoad(s).state = "STOPPED" /\ StopLoad(s).xhr = NoFrag
           /\ \A k \in Keys \ {"cur", "prev", "dlast", "state", "xhr"} :
                 StopLoad(s)[k] = s[k]
<1>1. PICK t : t = AbortLoad(s)
  OBVIOUS
<1>2. /\ Player(t) /\ t.xhr = NoFrag
      /\ \A k \in Keys \ {"xhr"} : t[k] = s[k]
  BY <1>1, AbortLoadFacts DEF Asked
<1>3. PICK u : u = [t EXCEPT !.cur = NoFrag, !.prev = NoFrag, !.dlast = NoFrag,
                             !.state = "STOPPED"]
  OBVIOUS
<1>4. StopLoad(s) = u
  BY <1>1, <1>3 DEF StopLoad
<1>5. Player(u) /\ u.state = "STOPPED" /\ u.xhr = NoFrag
  BY <1>2, <1>3 DEF Player, Keys, FragsOrNone, States
<1>6. \A k \in Keys \ {"cur", "prev", "dlast", "state", "xhr"} : u[k] = s[k]
  BY <1>2, <1>3 DEF Player
<1>. QED
  BY <1>4, <1>5, <1>6

(***************************************************************************)
(* The choice of a fragment.                                               *)
(***************************************************************************)

\* Away from the source buffer a state rests on its requests only.
LEMMA AtRest ==
    ASSUME NEW s, NEW b, NEW w, Player(s), Buffer(b), Asked(s),
           b.flush # <<>> => b.now.op # "idle",
           s.state \notin {"PARSING", "PARSED", "BUFFER_FLUSHING"}
    PROVE  Good(s, b, w)
BY DEF Good, Sound, Parses, Appends, Flushes

LEMMA FindFacts ==
    ASSUME NEW s, Player(s), s.level \in Levels, NEW e \in Cursors
    PROVE  /\ FindFragment(s, e).f \in FragsOrNone
           /\ Player(FindFragment(s, e).s)
           /\ \A k \in Keys \ {"back", "cnt"} : FindFragment(s, e).s[k] = s[k]
<1>. DEFINE at(m) == <<s.level, m>>
            found(g) == [f |-> g, s |-> s]
            Fair(r) == /\ r.f \in FragsOrNone /\ Player(r.s)
                       /\ \A k \in Keys \ {"back", "cnt"} : r.s[k] = s[k]
<1>1. PICK n \in SN : n = IF e < End THEN (IF e < 0 THEN 0 ELSE e \div 2) ELSE LastSN
  BY SizesAssumption DEF End, SN, Cursors
<1>2. LastSN \in Nat
  BY SizesAssumption
<1>3. \A g \in FragsOrNone : Fair(found(g))
  OBVIOUS
<1>4. \A m \in SN : at(m) \in Frags
  BY FragFacts
<1>5. at(n) \in FragsOrNone /\ NoFrag \in FragsOrNone
      /\ (n < LastSN => at(n + 1) \in FragsOrNone)
  BY <1>2, <1>4 DEF FragsOrNone, SN
<1>6. ASSUME n # 0
      PROVE  Fair([f |-> at(n - 1),
                   s |-> [s EXCEPT !.back[at(n - 1)] = TRUE,
                                   !.cnt[at(n - 1)] = IF @ > 0 THEN @ - 1 ELSE 0]])
  <2>1. PICK g \in Frags : g = at(n - 1)
    <3>1. n - 1 \in SN
      BY <1>2, <1>6 DEF SN
    <3>. QED
      BY <1>4, <3>1
  <2>2. PICK c \in 0 .. LoopThreshold + 1 :
           c = IF s.cnt[g] > 0 THEN s.cnt[g] - 1 ELSE 0
    BY SizesAssumption DEF Player
  <2>3. PICK t : t = [s EXCEPT !.back[g] = TRUE, !.cnt[g] = c]
    OBVIOUS
  <2>4. /\ Player(t) /\ g \in FragsOrNone
        /\ \A k \in Keys \ {"back", "cnt"} : t[k] = s[k]
    BY <2>3 DEF Player, Keys, FragsOrNone
  <2>5. t = [s EXCEPT !.back[at(n - 1)] = TRUE,
                      !.cnt[at(n - 1)] = IF @ > 0 THEN @ - 1 ELSE 0]
    BY <2>1, <2>2, <2>3
  <2>. QED
    BY <2>1, <2>4, <2>5
<1>7. FindFragment(s, e) =
        IF e < 0 \/ s.prev = NoFrag \/ Sn(s.prev) # n THEN found(at(n))
        ELSE IF s.back[at(n)]
        THEN IF n < LastSN /\ s.back[at(n + 1)] THEN found(at(n + 1))
             ELSE IF n = 0 THEN found(at(n))
             ELSE [f |-> at(n - 1),
                   s |-> [s EXCEPT !.back[at(n - 1)] = TRUE,
                                   !.cnt[at(n - 1)] = IF @ > 0 THEN @ - 1 ELSE 0]]
        ELSE IF Level(s.prev) # s.level THEN found(at(n))
        ELSE IF n < LastSN THEN found(at(n + 1)) ELSE found(NoFrag)
  BY <1>1, Zenon DEF FindFragment
<1>. HIDE DEF Fair, found, at
<1>8. Fair(FindFragment(s, e))
  BY <1>3, <1>5, <1>6, <1>7
<1>. QED
  BY <1>8 DEF Fair

LEMMA OlderFacts ==
    ASSUME NEW s, Player(s) PROVE Older(s) \in [Frags -> 0 .. LoopThreshold]
<1>1. \A f \in Frags : s.age[f] \in 0 .. LoopThreshold /\ LoopThreshold \in Nat
  BY SizesAssumption DEF Player
<1>. QED
  BY <1>1 DEF Older

\* Loading a fragment makes it the current one, and gives up the one before.
LEMMA LoadFacts ==
    ASSUME NEW s, NEW b, NEW w, Good(s, b, w), s.state = "IDLE",
           NEW c, NEW f \in Frags
    PROVE  Good(LoadFragment(s, c, f), b, w)
<1>. DEFINE count == IF s.cnt[f] = 0 THEN 1
                     ELSE IF s.cnt[f] > LoopThreshold THEN s.cnt[f]
                     ELSE s.cnt[f] + 1
            loop == IF s.loop = "unset" THEN "on" ELSE s.loop
            s1 == [s EXCEPT !.loop = loop, !.age = Older(s), !.cnt[f] = count]
            s2 == [s1 EXCEPT !.age[f] = 0, !.cur = f, !.req = TRUE,
                             !.nextLoad = IF s.test THEN @ ELSE 2 * Sn(f) + 2,
                             !.xhr = f, !.late = FALSE, !.xtest = s.test,
                             !.state = "FRAG_LOADING"]
<1>1. Player(s) /\ Buffer(b) /\ Asked(s) /\ Flushes(s, b)
  BY DEF Good, Sound
<1>2. PICK t : t = s1
  OBVIOUS
<1>3. Player(t) /\ \A k \in Keys \ {"loop", "age", "cnt"} : t[k] = s[k]
  <2>1. PICK n \in 0 .. LoopThreshold + 1 : n = count
    BY <1>1, SizesAssumption DEF Player
  <2>2. PICK age : age = Older(s)
    OBVIOUS
  <2>3. PICK l : l = loop
    OBVIOUS
  <2>4. t = [s EXCEPT !.loop = l, !.age = age, !.cnt[f] = n]
    BY <1>2, <2>1, <2>2, <2>3
  <2>5. age \in [Frags -> 0 .. LoopThreshold]
    BY <1>1, <2>2, OlderFacts
  <2>. HIDE DEF count, loop, s1
  <2>. QED
    BY <1>1, <2>4, <2>5 DEF Player, Keys
<1>4. LoadFragment(s, c, f) = LoopError(t, c, f) \/ LoadFragment(s, c, f) = s2
  BY <1>2, Zenon DEF LoadFragment
<1>5. Asked(t) /\ t.state = "IDLE"
  BY <1>1, <1>3 DEF Asked, Keys
<1>6. ASSUME NEW u, Player(u), u.state \in {"IDLE", "ERROR"},
             u.xhr = t.xhr, u.cur = t.cur
      PROVE  Good(u, b, w)
  BY <1>1, <1>5, <1>6, AtRest DEF Asked, Flushes
<1>7. Good(LoopError(t, c, f), b, w)
  <2>1. PICK r : r = ReduceMaxBufferLength(t)
    OBVIOUS
  <2>2. Player(r) /\ \A k \in Keys \ {"age", "loop", "cap"} : r[k] = t[k]
    BY <1>3, <2>1, ReduceFacts
  <2>3. Good([r EXCEPT !.state = "IDLE"], b, w)
    BY <1>6, <2>2 DEF Player, Keys, States
  <2>4. Good([t EXCEPT !.state = "ERROR"], b, w)
    BY <1>3, <1>6 DEF Player, Keys, States
  <2>5. Good(SwitchDown(t, f), b, w)
    BY <1>3, <1>5, <1>6, SwitchDownFacts DEF Keys
  <2>. QED
    BY <2>1, <2>3, <2>4, <2>5 DEF LoopError
<1>8. Good(s2, b, w)
  <2>1. PICK n \in Cursors : n = IF s.test THEN t.nextLoad ELSE 2 * Sn(f) + 2
    BY <1>3, FragFacts, SizesAssumption DEF Player, Cursors, End, SN
  <2>2. PICK u : u = [t EXCEPT !.age[f] = 0, !.cur = f, !.req = TRUE, !.nextLoad = n,
                               !.xhr = f, !.late = FALSE, !.xtest = s.test,
                               !.state = "FRAG_LOADING"]
    OBVIOUS
  <2>3. u = s2
    BY <1>2, <1>3, <2>1, <2>2 DEF Keys
  <2>4. Player(u)
    BY <1>3, <2>2, SizesAssumption DEF Player, Keys, States, FragsOrNone
  <2>5. u.state = "FRAG_LOADING" /\ u.xhr = f /\ u.cur = f
    BY <1>3, <2>2 DEF Player, Keys
  <2>6. Asked(u)
    BY <2>5, FragFacts DEF Asked
  <2>. QED
    BY <1>1, <2>3, <2>4, <2>5, <2>6, AtRest DEF Flushes
<1>. QED
  BY <1>4, <1>7, <1>8

LEMMA LoadOrKeyFacts ==
    ASSUME NEW s, NEW b, NEW w, Good(s, b, w), s.state = "IDLE",
           NEW c, NEW f \in Frags
    PROVE  Good(LoadFragmentOrKey(s, c, f), b, w)
<1>1. Player(s) /\ Buffer(b) /\ Asked(s) /\ Flushes(s, b)
  BY DEF Good, Sound
<1>2. Good([s EXCEPT !.keys = @ \cup {f}], b, w)
  <2>1. PICK t : t = [s EXCEPT !.keys = @ \cup {f}]
    OBVIOUS
  <2>2. Player(t) /\ \A k \in Keys \ {"keys"} : t[k] = s[k]
    BY <1>1, <2>1 DEF Player, Keys
  <2>. QED
    BY <1>1, <2>1, <2>2, AtRest DEF Asked, Flushes, Keys
<1>3. Good([s EXCEPT !.kreq = f, !.state = "KEY_LOADING"], b, w)
  <2>1. PICK t : t = [s EXCEPT !.kreq = f, !.state = "KEY_LOADING"]
    OBVIOUS
  <2>2. /\ Player(t) /\ t.state = "KEY_LOADING" /\ t.kreq = f
        /\ t.xhr = s.xhr /\ t.cur = s.cur
    BY <1>1, <2>1 DEF Player, Keys, States, FragsOrNone
  <2>3. Asked(t)
    BY <1>1, <2>2, FragFacts DEF Asked
  <2>. QED
    BY <1>1, <2>1, <2>2, <2>3, AtRest DEF Flushes
<1>. QED
  BY <1>2, <1>3, LoadFacts DEF LoadFragmentOrKey

LEMMA TickIdleFacts ==
    ASSUME NEW s, NEW b, NEW w, Good(s, b, w), s.state = "IDLE",
           NEW c, Buffer(c), Video(media)
    PROVE  Good(DoTickIdle(s, c), b, w)
<1>. DEFINE pos  == IF s.meta THEN media.pos ELSE s.nextLoad
            info == BufferInfo(c.buf, pos)
            s1   == [RequestLevel(s, s.want) EXCEPT !.level = s.want]
            pick == FindFragment(s1, info.end)
<1>1. Player(s) /\ Buffer(b) /\ Asked(s) /\ Flushes(s, b)
  BY DEF Good, Sound
<1>2. info.end \in Cursors
  <2>1. pos \in Cursors /\ c.buf \subseteq Time
    BY <1>1 DEF Player, Buffer, Video, Cursors
  <2>. HIDE DEF pos
  <2>. QED
    BY <2>1, BufferedEnds
<1>3. PICK e \in Cursors : e = info.end
  BY <1>2
<1>4. PICK t : t = s1
  OBVIOUS
<1>5. /\ Player(t) /\ t.level = s.want /\ s.want \in Levels /\ t.state = "IDLE"
      /\ t.xhr = s.xhr /\ t.cur = s.cur /\ t.details = s.details
      /\ t.plreq # -1 \/ t.level \in t.details
  <2>1. PICK r : r = RequestLevel(s, s.want)
    OBVIOUS
  <2>2. /\ Player(r) /\ \A k \in Keys \ {"plreq"} : r[k] = s[k]
        /\ r.plreq # -1 \/ s.want \in s.details
    BY <1>1, <2>1, RequestLevelFacts DEF Player
  <2>3. t = [r EXCEPT !.level = s.want]
    BY <1>4, <2>1
  <2>. QED
    BY <1>1, <2>2, <2>3 DEF Player, Keys
<1>6. ASSUME NEW u, Player(u), u.state \in {"IDLE", "ENDED", "WAITING_LEVEL"},
             u.xhr = t.xhr, u.cur = t.cur,
             u.state = "WAITING_LEVEL" => u.plreq # -1 \/ u.level \in u.details
      PROVE  Good(u, b, w)
  BY <1>1, <1>5, <1>6, AtRest DEF Asked, Flushes
<1>7. /\ Good([t EXCEPT !.state = "WAITING_LEVEL"], b, w)
      /\ Good([t EXCEPT !.state = "ENDED"], b, w)
  <2>1. PICK u : u = [t EXCEPT !.state = "WAITING_LEVEL"]
    OBVIOUS
  <2>2. PICK v : v = [t EXCEPT !.state = "ENDED"]
    OBVIOUS
  <2>3. /\ Player(u) /\ u.state = "WAITING_LEVEL" /\ u.xhr = t.xhr /\ u.cur = t.cur
        /\ u.plreq = t.plreq /\ u.level = t.level /\ u.details = t.details
        /\ Player(v) /\ v.state = "ENDED" /\ v.xhr = t.xhr /\ v.cur = t.cur
    BY <1>5, <2>1, <2>2 DEF Player, Keys, States
  <2>. QED
    BY <1>5, <1>6, <2>1, <2>2, <2>3
<1>8. PICK f, r : f = pick.f /\ r = pick.s
  OBVIOUS
<1>9. f \in FragsOrNone /\ Player(r) /\ \A k \in Keys \ {"back", "cnt"} : r[k] = t[k]
  <2>1. pick = FindFragment(t, e)
    BY <1>3, <1>4
  <2>2. t.level \in Levels
    BY <1>5
  <2>. HIDE DEF pick
  <2>. QED
    BY <1>5, <1>8, <2>1, <2>2, FindFacts
<1>10. Good(r, b, w) /\ r.state = "IDLE"
  BY <1>5, <1>6, <1>9 DEF Keys
<1>11. f # NoFrag => Good(LoadFragmentOrKey(r, c, f), b, w)
  BY <1>9, <1>10, LoadOrKeyFacts DEF FragsOrNone
<1>12. \/ DoTickIdle(s, c) = s
       \/ DoTickIdle(s, c) = [t EXCEPT !.state = "WAITING_LEVEL"]
       \/ DoTickIdle(s, c) = [t EXCEPT !.state = "ENDED"]
       \/ DoTickIdle(s, c) = r
       \/ f # NoFrag /\ DoTickIdle(s, c) = LoadFragmentOrKey(r, c, f)
  <2>1. PICK detached, enough, absent, done :
           DoTickIdle(s, c) =
             CASE detached -> s
               [] enough -> s
               [] absent -> [t EXCEPT !.state = "WAITING_LEVEL"]
               [] done -> [t EXCEPT !.state = "ENDED"]
               [] f = NoFrag -> r
               [] OTHER -> LoadFragmentOrKey(r, c, f)
    BY <1>4, <1>8, Zenon DEF DoTickIdle
  <2>. QED
    BY <2>1
<1>. QED
  BY <1>7, <1>10, <1>11, <1>12

(***************************************************************************)
(* A tick.                                                                 *)
(***************************************************************************)

LEMMA DoTickFacts ==
    ASSUME NEW s, NEW b, NEW w, NEW c, Buffer(c), Video(media),
           Sound(s, b, w), s.state = "PARSED" => s.apd /\ s.pend
    PROVE  Good(DoTick(s, c), b, w)
<1>1. Player(s) /\ Buffer(b) /\ Asked(s) /\ Flushes(s, b) /\ Good(s, b, w)
  BY DEF Good, Sound
<1>2. CASE s.state = "IDLE"
  BY <1>1, <1>2, TickIdleFacts DEF DoTick
<1>3. CASE s.state = "BUFFER_FLUSHING"
  <2>1. PICK t : t = [s EXCEPT !.err = 0]
    OBVIOUS
  <2>2. Player(t) /\ \A k \in Keys \ {"err"} : t[k] = s[k]
    BY <1>1, <2>1, SizesAssumption DEF Player, Keys
  <2>3. Good(t, b, w)
    BY <1>1, <1>3, <2>2 DEF Good, Sound, Asked, Parses, Appends, Flushes, Keys
  <2>. QED
    BY <1>3, <2>1, <2>3 DEF DoTick
<1>4. ASSUME s.state \in {"WAITING_LEVEL", "FRAG_LOADING_WAITING_RETRY"}
      PROVE  Good([s EXCEPT !.state = "IDLE"], b, w)
  <2>1. PICK t : t = [s EXCEPT !.state = "IDLE"]
    OBVIOUS
  <2>2. Player(t) /\ t.state = "IDLE" /\ \A k \in Keys \ {"state"} : t[k] = s[k]
    BY <1>1, <2>1 DEF Player, Keys, States
  <2>. QED
    BY <1>1, <2>1, <2>2, AtRest DEF Asked, Flushes, Keys
<1>5. CASE s.state \notin {"IDLE", "BUFFER_FLUSHING"}
  <2>1. DoTick(s, c) = s
        \/ /\ s.state \in {"WAITING_LEVEL", "FRAG_LOADING_WAITING_RETRY"}
           /\ DoTick(s, c) = [s EXCEPT !.state = "IDLE"]
    BY <1>5 DEF DoTick
  <2>. QED
    BY <1>1, <1>4, <2>1
<1>. QED
  BY <1>2, <1>3, <1>5

LEMMA JumpFacts ==
    ASSUME NEW m, Video(m), NEW t \in 0 .. End PROVE Video(Jump(m, t))
BY DEF Video, Jump

\* The position is set to what is buffered.
LEMMA AdjustFacts ==
    ASSUME NEW b, Buffer(b), b.buf # {}, NEW m, Video(m), NEW start
    PROVE  Video(AdjustStart(b, m, start))
<1>. DEFINE target == IF start \in b.buf THEN start ELSE Least(b.buf)
<1>1. target \in 0 .. End
  <2>1. target \in b.buf
    BY LeastBuffered DEF Buffer
  <2>2. \A x \in Time : x \in 0 .. End
    BY SizesAssumption DEF Time, End
  <2>. HIDE DEF target
  <2>. QED
    BY <2>1, <2>2 DEF Buffer
<1>2. AdjustStart(b, m, start) = Jump(m, target) \/ AdjustStart(b, m, start) = m
  BY Zenon DEF AdjustStart
<1>. HIDE DEF target
<1>. QED
  BY <1>1, <1>2, JumpFacts

LEMMA CheckBufferFacts ==
    ASSUME NEW s, NEW b, NEW w, Good(s, b, w), NEW c, Buffer(c),
           NEW m, Video(m), CheckBuffer(s, c, m)
    PROVE  Good(p', b, w) /\ Video(media')
<1>1. Player(s) /\ Buffer(b) /\ Asked(s) /\ Flushes(s, b)
      /\ Parses(s, w) /\ Appends(s, b)
  BY DEF Good, Sound
<1>2. PICK first, resumed, ready :
         /\ (first => c.buf # {}) /\ (resumed => m.pos \in c.buf \/ c.buf # {})
         /\ media' = CASE first -> AdjustStart(c, m, IF m.seek THEN m.pos ELSE s.start)
                       [] resumed /\ m.pos \in c.buf -> Jump(m, m.pos)
                       [] OTHER -> m
         /\ p' = [s EXCEPT !.meta = @ \/ first, !.imm = @ /\ ~resumed,
                           !.last = IF ready /\ ~media'.seek /\ media'.pos > @
                                      THEN media'.pos ELSE @]
  BY Zenon DEF CheckBuffer
<1>3. Video(media')
  <2>1. m.pos \in 0 .. End
    BY DEF Video
  <2>2. media' \in {AdjustStart(c, m, IF m.seek THEN m.pos ELSE s.start),
                    Jump(m, m.pos), m} /\ (media' = Jump(m, m.pos) \/ media' = m \/ c.buf # {})
    BY <1>2, Zenon
  <2>. QED
    BY <1>1, <2>1, <2>2, AdjustFacts, JumpFacts
<1>4. PICK last \in Cursors :
         last = IF ready /\ ~media'.seek /\ media'.pos > s.last THEN media'.pos
                ELSE s.last
  BY <1>1, <1>3 DEF Player, Video, Cursors
<1>m. PICK meta, imm : meta = (s.meta \/ first) /\ imm = (s.imm /\ ~resumed)
  OBVIOUS
<1>5. p' = [s EXCEPT !.meta = meta, !.imm = imm, !.last = last]
  BY <1>2, <1>4, <1>m
<1>6. Player(p') /\ \A k \in Keys \ {"meta", "imm", "last"} : p'[k] = s[k]
  BY <1>1, <1>5 DEF Player, Keys
<1>7. Good(p', b, w)
  BY <1>1, <1>6 DEF Good, Sound, Asked, Parses, Appends, Flushes, Keys
<1>. QED
  BY <1>3, <1>7

LEMMA TickFacts ==
    ASSUME NEW s, NEW b, NEW w, Good(s, b, w), NEW c, Buffer(c),
           Video(media), Tick(s, c)
    PROVE  Good(p', b, w) /\ Video(media')
<1>1. CheckBuffer(DoTick(s, c), c, media)
  BY Zenon DEF Tick
<1>2. Good(DoTick(s, c), b, w)
  BY DoTickFacts DEF Good
<1>. QED
  BY <1>1, <1>2, CheckBufferFacts

\* PARSED is left at once, or waits for the segments under way.
LEMMA CheckAppendedFacts ==
    ASSUME NEW s, NEW b, NEW w, Sound(s, b, w), NEW c, Buffer(c),
           Video(media), CheckAppendedParsed(s, c)
    PROVE  Good(p', b, w) /\ Video(media')
<1>1. Player(s) /\ Buffer(b) /\ Asked(s) /\ Appends(s, b) /\ Flushes(s, b)
  BY DEF Sound
<1>2. CASE s.state = "PARSED" /\ (~s.apd \/ ~s.pend)
  <2>1. s.cur # NoFrag /\ s.cur \in Frags
    BY <1>1, <1>2 DEF Appends, Player, FragsOrNone
  <2>2. PICK bf : bf = {n \in s.bf : Halves(n) \cap c.buf # {}} \cup {Sn(s.cur)}
    OBVIOUS
  <2>3. bf \subseteq SN
    <3>1. s.bf \subseteq SN /\ Sn(s.cur) \in SN
      BY <1>1, <2>1, FragFacts DEF Player
    <3>. QED
      BY <2>2, <3>1
  <2>4. PICK t : t = [s EXCEPT !.prev = s.cur, !.state = "IDLE", !.bf = bf]
    OBVIOUS
  <2>5. /\ Player(t) /\ t.state = "IDLE" /\ t.xhr = s.xhr /\ t.cur = s.cur
    BY <1>1, <2>3, <2>4 DEF Player, Keys, States
  <2>6. Good(t, b, w)
    BY <1>1, <2>5, AtRest DEF Asked, Flushes
  <2>7. Tick(t, c)
    BY <1>2, <2>1, <2>2, <2>4 DEF CheckAppendedParsed
  <2>. QED
    BY <2>6, <2>7, TickFacts
<1>3. CASE ~(s.state = "PARSED" /\ (~s.apd \/ ~s.pend))
  <2>1. p' = s /\ media' = media
    BY <1>3, Zenon DEF CheckAppendedParsed
  <2>2. s.state = "PARSED" => s.apd /\ s.pend
    BY <1>3, Zenon
  <2>. QED
    BY <2>1, <2>2 DEF Good
<1>. QED
  BY <1>2, <1>3

(***************************************************************************)
(* The buffer controller.                                                  *)
(***************************************************************************)

LEMMA QueueFacts ==
    ASSUME NEW q \in Seq(Segments), q # <<>>
    PROVE  /\ Tail(q) \in Seq(Segments) /\ OpOK(Head(q)) /\ Head(q).op = "append"
<1>1. Tail(q) \in Seq(Segments) /\ Head(q) \in Segments
  OBVIOUS
<1>. QED
  BY <1>1 DEF Segments, OpOK, FragsOrNone

LEMMA IdleOp == OpOK(Idle) /\ Idle.op = "idle"
BY DEF OpOK, Idle

LEMMA CreatedFacts ==
    ASSUME NEW b, Buffer(b)
    PROVE  /\ Buffer(Created(b)) /\ Created(b).flush = b.flush
           /\ b.now.op # "idle" => Created(b).now.op # "idle"
<1>1. CASE b.made \/ b.q = <<>> \/ b.now.op = "stale"
  <2>1. Created(b) = [b EXCEPT !.made = TRUE]
    BY <1>1 DEF Created
  <2>. QED
    BY <2>1 DEF Buffer
<1>2. CASE ~(b.made \/ b.q = <<>> \/ b.now.op = "stale")
  <2>1. Created(b) = [b EXCEPT !.made = TRUE, !.now = Head(b.q), !.q = Tail(b.q)]
    BY <1>2 DEF Created
  <2>2. /\ Tail(b.q) \in Seq(Segments) /\ OpOK(Head(b.q))
        /\ Head(b.q).op = "append"
    BY <1>2, QueueFacts DEF Buffer
  <2>. QED
    BY <2>1, <2>2 DEF Buffer
<1>. QED
  BY <1>1, <1>2

\* A segment is appended or queued, unless a flush keeps the buffer busy.
LEMMA AppendingFacts ==
    ASSUME NEW b, Buffer(b), NEW seg \in Segments,
           b.flush # <<>> => b.now.op # "idle"
    PROVE  /\ Buffer(Appending(b, seg)) /\ Appending(b, seg).flush = b.flush
           /\ b.flush # <<>> => Appending(b, seg).now.op # "idle"
           /\ Appending(b, seg).now.op # "idle" \/ ~Appending(b, seg).made
<1>1. seg.op = "append" /\ OpOK(seg)
  BY DEF Segments, OpOK, FragsOrNone
<1>. DEFINE ini == IF seg.cells = {} THEN Level(seg.f) ELSE b.ini
            marked == [b EXCEPT !.ini = ini]
<1>5. PICK c : c = marked
  OBVIOUS
<1>6. Buffer(c) /\ \A k \in DOMAIN b \ {"ini"} : c[k] = b[k]
  <2>. HIDE DEF ini
  <2>. QED
    BY <1>5 DEF Buffer
<1>7. c.now = b.now /\ c.q = b.q /\ c.flush = b.flush /\ c.made = b.made
  BY <1>6 DEF Buffer
<1>2. CASE b.flush # <<>>
  BY <1>2 DEF Appending
<1>3. CASE b.flush = <<>> /\ b.made /\ b.now.op = "idle"
  <2>1. Appending(b, seg) = [c EXCEPT !.now = seg]
    BY <1>3, <1>5, Zenon DEF Appending
  <2>. QED
    BY <1>1, <1>3, <1>6, <1>7, <2>1 DEF Buffer
<1>4. CASE b.flush = <<>> /\ ~(b.made /\ b.now.op = "idle")
  <2>1. Appending(b, seg) = [c EXCEPT !.q = Append(@, seg)]
    BY <1>4, <1>5, Zenon DEF Appending
  <2>2. Append(c.q, seg) \in Seq(Segments)
    BY <1>6 DEF Buffer
  <2>. QED
    BY <1>4, <1>6, <1>7, <2>1, <2>2 DEF Buffer
<1>. QED
  BY <1>2, <1>3, <1>4

LEMMA Next1Facts ==
    ASSUME NEW b, Buffer(b)
    PROVE  /\ Buffer(Next1(b)) /\ Next1(b).flush = b.flush
           /\ b.q # <<>> => Next1(b).now.op # "idle" \/ ~Next1(b).made
           /\ b.q = <<>> => Next1(b) = b
<1>1. CASE b.q # <<>> /\ b.made
  <2>1. Next1(b) = [b EXCEPT !.now = Head(b.q), !.q = Tail(b.q)]
    BY <1>1 DEF Next1
  <2>2. /\ Tail(b.q) \in Seq(Segments) /\ OpOK(Head(b.q))
        /\ Head(b.q).op = "append"
    BY <1>1, QueueFacts DEF Buffer
  <2>. QED
    BY <1>1, <2>1, <2>2 DEF Buffer
<1>2. CASE b.q = <<>> \/ ~b.made
  BY <1>2 DEF Next1
<1>. QED
  BY <1>1, <1>2

\* A flush that still waits when the media goes waits for a late updateend.
LEMMA DetachedFacts ==
    ASSUME NEW b, Buffer(b), b.flush # <<>> => b.now.op # "idle"
    PROVE  /\ Buffer(Detached(b))
           /\ Detached(b).flush # <<>> => Detached(b).now.op # "idle"
<1>1. PICK o : o = IF b.now = Idle THEN Idle ELSE [Idle EXCEPT !.op = "stale"]
  OBVIOUS
<1>2. OpOK(o) /\ (b.now # Idle => o.op = "stale")
  BY <1>1 DEF OpOK, Idle
<1>3. PICK flush : flush = IF b.flush = <<>> THEN <<>> ELSE <<{}>>
  OBVIOUS
<1>4. flush # <<>> => b.now # Idle
  BY <1>3, IdleOp
<1>5. Detached(b) = [NoBuffer EXCEPT !.now = o, !.flush = flush]
  BY <1>1, <1>3 DEF Detached
<1>. QED
  BY <1>2, <1>4, <1>5 DEF Buffer, NoBuffer

LEMMA FlushedFacts ==
    ASSUME NEW s, NEW b, Player(s)
    PROVE  /\ Player(Flushed(s, b)) /\ Flushed(s, b).state = "IDLE"
           /\ Flushed(s, b).xhr = s.xhr /\ Flushed(s, b).cur = s.cur
<1>1. PICK t : t = ForgetLoops(s)
  OBVIOUS
<1>2. Player(t) /\ \A k \in Keys \ {"age", "loop"} : t[k] = s[k]
  BY <1>1, ForgetLoopsFacts
<1>3. PICK bf : bf = {n \in t.bf : Halves(n) \cap b.buf # {}}
  OBVIOUS
<1>4. bf \subseteq SN
  BY <1>2, <1>3 DEF Player
<1>5. Flushed(s, b) = [t EXCEPT !.state = "IDLE", !.prev = NoFrag, !.bf = bf]
  BY <1>1, <1>3 DEF Flushed
<1>. QED
  BY <1>2, <1>4, <1>5 DEF Player, Keys, States, FragsOrNone

\* A flush is over, or goes on with a removal under way.
LEMMA DoFlushFacts ==
    ASSUME NEW s, NEW b, Player(s), Buffer(b)
    PROVE  LET r == DoFlush(s, b)
           IN  /\ Player(r.s) /\ Buffer(r.b) /\ r.b.q = b.q
               /\ \/ /\ r.s.state = "IDLE" /\ r.s.xhr = s.xhr /\ r.s.cur = s.cur
                     /\ r.b.flush = <<>> /\ r.b.now = b.now
                  \/ /\ r.s = s
                     /\ r.b.flush # <<>> /\ r.b.now.op = "remove"
<1>1. PICK left : left = Unflushed(b)
  OBVIOUS
<1>2. CASE left = <<>>
  <2>1. PICK c : c = [b EXCEPT !.flush = <<>>]
    OBVIOUS
  <2>2. Buffer(c) /\ c.q = b.q /\ c.flush = <<>> /\ c.now = b.now
    BY <2>1 DEF Buffer
  <2>3. DoFlush(s, b) = [s |-> Flushed(s, b), b |-> c]
    BY <1>1, <1>2, <2>1 DEF DoFlush
  <2>. QED
    BY <2>2, <2>3, FlushedFacts
<1>3. CASE left # <<>>
  <2>1. PICK cells : cells = Head(left) \cap b.buf
    OBVIOUS
  <2>2. PICK o : o = [op |-> "remove", f |-> NoFrag, cells |-> cells]
    OBVIOUS
  <2>3. OpOK(o) /\ o.op = "remove"
    BY <2>1, <2>2 DEF OpOK, Buffer
  <2>4. PICK c : c = [b EXCEPT !.flush = left, !.now = o]
    OBVIOUS
  <2>5. Buffer(c) /\ c.q = b.q /\ c.flush = left /\ c.now = o
    BY <2>3, <2>4 DEF Buffer
  <2>6. DoFlush(s, b) = [s |-> s, b |-> c]
    BY <1>1, <1>3, <2>1, <2>2, <2>4 DEF DoFlush
  <2>. QED
    BY <1>3, <2>3, <2>5, <2>6
<1>. QED
  BY <1>2, <1>3

LEMMA FlushMainFacts ==
    ASSUME NEW s, NEW b, NEW w, NEW range, Player(s), Buffer(b),
           s.xhr # NoFrag => s.xhr = s.cur
    PROVE  LET r == FlushMainBuffer(s, b, range)
           IN  /\ Good(r.s, r.b, w)
               /\ r.s.state \in {"IDLE", "BUFFER_FLUSHING"}
<1>1. PICK t : t = [s EXCEPT !.state = "BUFFER_FLUSHING"]
  OBVIOUS
<1>2. /\ Player(t) /\ t.state = "BUFFER_FLUSHING"
      /\ t.xhr = s.xhr /\ t.cur = s.cur
  BY <1>1 DEF Player, Keys, States
<1>3. PICK flush : flush = Append(b.flush, range)
  OBVIOUS
<1>4. PICK c : c = [b EXCEPT !.flush = flush]
  OBVIOUS
<1>5. Buffer(c) /\ c.flush = flush /\ c.now = b.now
  BY <1>4 DEF Buffer
<1>6. CASE b.now.op \in {"append", "remove"}
  <2>1. FlushMainBuffer(s, b, range) = [s |-> t, b |-> c]
    BY <1>1, <1>3, <1>4, <1>6 DEF FlushMainBuffer
  <2>2. flush # <<>>
    BY <1>3
  <2>3. Good(t, c, w)
    BY <1>2, <1>5, <1>6, <2>2 DEF Good, Sound, Asked, Parses, Appends, Flushes
  <2>. QED
    BY <1>2, <2>1, <2>3
<1>7. CASE b.now.op \notin {"append", "remove"}
  <2>1. PICK r : r = DoFlush(t, c)
    OBVIOUS
  <2>2. /\ Player(r.s) /\ Buffer(r.b)
        /\ \/ /\ r.s.state = "IDLE" /\ r.s.xhr = t.xhr /\ r.s.cur = t.cur
              /\ r.b.flush = <<>>
           \/ /\ r.s = t
              /\ r.b.flush # <<>> /\ r.b.now.op = "remove"
    BY <1>2, <1>5, <2>1, DoFlushFacts
  <2>3. Good(r.s, r.b, w)
    BY <1>2, <2>2 DEF Good, Sound, Asked, Parses, Appends, Flushes
  <2>4. FlushMainBuffer(s, b, range) = r
    BY <1>1, <1>3, <1>4, <1>7, <2>1 DEF FlushMainBuffer
  <2>. QED
    BY <1>2, <2>2, <2>3, <2>4
<1>. QED
  BY <1>6, <1>7

\* The source buffer refuses a segment: the fragment is given up.
LEMMA BufferFullFacts ==
    ASSUME NEW s, NEW b, NEW w, Player(s), Buffer(b), Asked(s), Flushes(s, b),
           s.state \in {"PARSING", "PARSED"} => s.xhr = NoFrag
    PROVE  Good(BufferFull(s, b).s, BufferFull(s, b).b, w)
           /\ Buffer(BufferFull(s, b).b)
<1>. DEFINE lost == \E i \in 1 .. Len(b.q) : b.q[i].cells = {}
<1>1. PICK c : c = [b EXCEPT !.q = <<>>, !.ini = IF lost THEN -1 ELSE @]
  OBVIOUS
<1>2. Buffer(c) /\ c.flush = b.flush /\ c.now = b.now
  <2>. HIDE DEF lost
  <2>. QED
    BY <1>1 DEF Buffer
<1>3. CASE s.state \notin {"PARSING", "PARSED"}
  <2>1. BufferFull(s, b) = [s |-> s, b |-> c]
    BY <1>1, <1>3 DEF BufferFull
  <2>2. Good(s, c, w)
    BY <1>2, <1>3 DEF Good, Sound, Asked, Parses, Appends, Flushes
  <2>. QED
    BY <1>2, <2>1, <2>2
<1>4. CASE s.state \in {"PARSING", "PARSED"} /\ MediaBuffered(s, b)
  <2>1. PICK r : r = ReduceMaxBufferLength(s)
    OBVIOUS
  <2>2. Player(r) /\ \A k \in Keys \ {"age", "loop", "cap"} : r[k] = s[k]
    BY <2>1, ReduceFacts
  <2>3. PICK t : t = [r EXCEPT !.state = "IDLE"]
    OBVIOUS
  <2>4. Player(t) /\ t.state = "IDLE" /\ t.xhr = NoFrag
    BY <1>4, <2>2, <2>3 DEF Player, Keys, States
  <2>5. Good(t, c, w)
    BY <1>2, <2>4, AtRest DEF Asked, Flushes
  <2>6. BufferFull(s, b) = [s |-> t, b |-> c]
    BY <1>1, <1>4, <2>1, <2>3 DEF BufferFull
  <2>. QED
    BY <1>2, <2>5, <2>6
<1>5. CASE s.state \in {"PARSING", "PARSED"} /\ ~MediaBuffered(s, b)
  <2>1. PICK t : t = [s EXCEPT !.cur = NoFrag]
    OBVIOUS
  <2>2. Player(t) /\ t.xhr = NoFrag
    BY <1>5, <2>1 DEF Player, Keys, FragsOrNone
  <2>3. PICK r : r = FlushMainBuffer(t, c, Time)
    OBVIOUS
  <2>4. Good(r.s, r.b, w)
    BY <1>2, <2>2, <2>3, FlushMainFacts
  <2>5. BufferFull(s, b) = r
    BY <1>1, <1>5, <2>1, <2>3 DEF BufferFull
  <2>. QED
    BY <2>4, <2>5 DEF Good, Sound
<1>. QED
  BY <1>3, <1>4, <1>5

(***************************************************************************)
(* Starting a load, and giving one up.                                     *)
(***************************************************************************)

LEMMA StartedLoadFacts ==
    ASSUME NEW s, Player(s), Asked(s), NEW sl \in StartLevels
    PROVE  /\ Player(StartedLoad(s, sl))
           /\ StartedLoad(s, sl).state = "IDLE" /\ StartedLoad(s, sl).xhr = NoFrag
<1>1. PICK s0 : s0 = StopLoad(s)
  OBVIOUS
<1>2. Player(s0) /\ s0.xhr = NoFrag
      /\ \A k \in Keys \ {"cur", "prev", "dlast", "state", "xhr"} : s0[k] = s[k]
  BY <1>1, StopLoadFacts
<1>3. PICK s1 : s1 = [s0 EXCEPT !.level = -1, !.err = 0]
  OBVIOUS
<1>4. Player(s1) /\ s1.xhr = NoFrag
  BY <1>2, <1>3, SizesAssumption DEF Player, Keys
<1>5. PICK l \in Levels : l = IF sl = -1 THEN 0 ELSE sl
  BY SizesAssumption
<1>6. PICK r : r = RequestLevel(s1, l)
  OBVIOUS
<1>7. Player(r) /\ r.xhr = NoFrag
  BY <1>4, <1>6, RequestLevelFacts DEF Keys
<1>8. PICK want \in Levels : want = IF s.man THEN r.want ELSE l
  BY <1>7 DEF Player
<1>9. PICK test : test = (r.test \/ sl = -1)
  OBVIOUS
<1>10. PICK v : v = [r EXCEPT !.level = l, !.meta = FALSE, !.want = want, !.test = test]
  OBVIOUS
<1>11. Player(v) /\ v.xhr = NoFrag
  BY <1>7, <1>10 DEF Player, Keys
<1>12. PICK s2 : s2 = IF s.req THEN s1 ELSE v
  OBVIOUS
<1>13. Player(s2) /\ s2.xhr = NoFrag
  BY <1>4, <1>11, <1>12
<1>14. PICK start \in Cursors : start = IF s.last > 0 THEN s.last ELSE -1
  BY SizesAssumption DEF Player, Cursors, End
<1>15. StartedLoad(s, sl) = [s2 EXCEPT !.state = "IDLE", !.nextLoad = start,
                                       !.start = start, !.last = start]
  <2>1. v = [RequestLevel(s1, l) EXCEPT !.level = l, !.meta = FALSE,
                                        !.want = IF s.man THEN @ ELSE l,
                                        !.test = @ \/ sl = -1]
    BY <1>6, <1>8, <1>9, <1>10
  <2>. QED
    BY <1>1, <1>3, <1>5, <1>12, <1>14, <2>1, Zenon DEF StartedLoad
<1>. QED
  BY <1>13, <1>15 DEF Player, Keys, States

LEMMA LoadFailedFacts ==
    ASSUME NEW s, Player(s), NEW f \in Frags
    PROVE  /\ Player(LoadFailed(s, f))
           /\ LoadFailed(s, f).state \in {"ERROR", "FRAG_LOADING_WAITING_RETRY"}
           /\ LoadFailed(s, f).xhr = s.xhr /\ LoadFailed(s, f).cur = s.cur
<1>1. PICK r : r = SwitchDown(s, f)
  OBVIOUS
<1>2. Player(r) /\ \A k \in Keys \ {"want"} : r[k] = s[k]
  BY <1>1, SwitchDownFacts
<1>3. CASE s.err < MaxRetry
  <2>1. PICK err \in 0 .. MaxRetry : err = r.err + 1
    BY <1>2, <1>3, SizesAssumption DEF Player, Keys
  <2>2. PICK req : req = (r.req /\ s.meta)
    OBVIOUS
  <2>3. PICK next \in Cursors : next = IF s.meta THEN r.nextLoad ELSE s.start
    BY <1>2 DEF Player
  <2>4. LoadFailed(s, f) =
          [r EXCEPT !.cnt[f] = 0, !.err = err, !.req = req, !.nextLoad = next,
                    !.state = "FRAG_LOADING_WAITING_RETRY"]
    BY <1>1, <1>3, <2>1, <2>2, <2>3 DEF LoadFailed
  <2>5. 0 \in 0 .. LoopThreshold + 1
    BY SizesAssumption
  <2>. QED
    BY <1>2, <2>4, <2>5 DEF Player, Keys, States
<1>4. CASE ~(s.err < MaxRetry)
  <2>1. LoadFailed(s, f) = [r EXCEPT !.state = "ERROR"]
    BY <1>1, <1>4 DEF LoadFailed
  <2>. QED
    BY <1>2, <2>1 DEF Player, Keys, States
<1>. QED
  BY <1>3, <1>4

(***************************************************************************)
(* The inductive invariant, and its preservation by each action.           *)
(***************************************************************************)

IInv == Good(p, sb, worker) /\ Video(media) /\ worker \in Seq(Posts)

LEMMA Parts ==
    ASSUME IInv
    PROVE  /\ Player(p) /\ Buffer(sb) /\ Asked(p) /\ Parses(p, worker)
           /\ Appends(p, sb) /\ Flushes(p, sb)
           /\ p.state = "PARSED" => p.apd /\ p.pend
BY DEF IInv, Good, Sound

LEMMA InitIInv == Init => IInv
<1>. SUFFICES ASSUME Init PROVE IInv
  OBVIOUS
<1>1. PICK zero, age, back :
         /\ zero = [f \in Frags |-> 0]
         /\ age = [f \in Frags |-> LoopThreshold]
         /\ back = [f \in Frags |-> FALSE]
  OBVIOUS
<1>2. zero \in [Frags -> 0 .. LoopThreshold + 1] /\ age \in [Frags -> 0 .. LoopThreshold]
  <2>1. 0 \in 0 .. LoopThreshold + 1 /\ LoopThreshold \in 0 .. LoopThreshold
    BY SizesAssumption
  <2>. QED
    BY <1>1, <2>1
<1>3. p = [state |-> "STOPPED", cur |-> NoFrag, prev |-> NoFrag, req |-> FALSE,
           meta |-> FALSE, nextLoad |-> 0, start |-> 0, last |-> 0, err |-> 0,
           test |-> FALSE, pend |-> FALSE, apd |-> FALSE, imm |-> FALSE,
           level |-> -1, want |-> 0, man |-> FALSE, cap |-> End, bf |-> {},
           cnt |-> zero, age |-> age, back |-> back, loop |-> "unset",
           details |-> {}, plreq |-> -1, xhr |-> NoFrag, late |-> FALSE,
           xtest |-> FALSE, dlast |-> NoFrag, flaw |-> "none", att |-> FALSE,
           keys |-> {}, keyGot |-> FALSE, kreq |-> NoFrag]
  BY <1>1 DEF Init
<1>4. 0 \in Cursors /\ 0 \in 0 .. MaxRetry /\ End \in 1 .. End /\ 0 \in Levels
      /\ 0 \in 0 .. End
  BY SizesAssumption DEF Cursors, End
<1>5. Player(p) /\ p.state = "STOPPED" /\ p.xhr = NoFrag
  BY <1>2, <1>3, <1>4 DEF Player, Keys, States, FragsOrNone
<1>7. Buffer(sb) /\ sb.flush = <<>>
  BY IdleOp DEF Init, Buffer, NoBuffer
<1>8. Good(p, sb, worker)
  BY <1>5, <1>7, AtRest DEF Asked
<1>. QED
  BY <1>4, <1>8 DEF Init, IInv, Video

LEMMA AttachMediaKeeps ==
    ASSUME IInv, AttachMedia PROVE IInv'
<1>1. PICK sl \in StartLevels : Tick(StartedLoad([p EXCEPT !.att = TRUE], sl), sb)
  BY DEF AttachMedia
<1>2. PICK s : s = [p EXCEPT !.att = TRUE]
  OBVIOUS
<1>3. Player(s) /\ Asked(s)
  BY <1>2, Parts DEF Player, Keys, Asked
<1>4. Good(StartedLoad(s, sl), sb, <<>>)
  BY <1>3, Parts, StartedLoadFacts, AtRest DEF Asked, Flushes
<1>5. Good(p', sb, <<>>) /\ Video(media')
  BY <1>1, <1>2, <1>4, Parts, TickFacts DEF IInv
<1>. QED
  BY <1>5 DEF AttachMedia, IInv

LEMMA StartLoadKeeps ==
    ASSUME IInv, StartLoad PROVE IInv'
<1>1. PICK sl \in StartLevels : Tick(StartedLoad(p, sl), sb)
  BY DEF StartLoad
<1>2. Good(StartedLoad(p, sl), sb, <<>>)
  BY Parts, StartedLoadFacts, AtRest DEF Asked, Flushes
<1>3. Good(p', sb, <<>>) /\ Video(media')
  BY <1>1, <1>2, Parts, TickFacts DEF IInv
<1>. QED
  BY <1>3 DEF StartLoad, IInv

LEMMA StopLoadingKeeps ==
    ASSUME IInv, StopLoading PROVE IInv'
<1>1. Good(StopLoad(p), sb, <<>>)
  BY Parts, StopLoadFacts, AtRest DEF Asked, Flushes
<1>. QED
  BY <1>1 DEF StopLoading, IInv

LEMMA DetachMediaKeeps ==
    ASSUME IInv, DetachMedia PROVE IInv'
<1>1. PICK s : s = StopLoad(p)
  OBVIOUS
<1>2. Player(s) /\ s.state = "STOPPED" /\ s.xhr = NoFrag
  BY <1>1, Parts, StopLoadFacts
<1>3. PICK zero, age, back :
         /\ zero = [f \in Frags |-> 0]
         /\ age = [f \in Frags |-> LoopThreshold]
         /\ back = [f \in Frags |-> FALSE]
  OBVIOUS
<1>4. zero \in [Frags -> 0 .. LoopThreshold + 1] /\ age \in [Frags -> 0 .. LoopThreshold]
  <2>1. 0 \in 0 .. LoopThreshold + 1 /\ LoopThreshold \in 0 .. LoopThreshold
    BY SizesAssumption
  <2>. QED
    BY <1>3, <2>1
<1>5. PICK ended : ended = (media.pos = End /\ p.state = "ENDED")
  OBVIOUS
<1>6. PICK start \in Cursors, last \in Cursors :
         /\ start = IF ended THEN 0 ELSE s.start
         /\ last = IF ended THEN 0 ELSE s.last
  <2>1. 0 \in Cursors
    BY SizesAssumption DEF Cursors, End
  <2>. QED
    BY <1>2, <2>1 DEF Player
<1>7. p' = [s EXCEPT !.att = FALSE, !.meta = FALSE, !.start = start, !.last = last,
                     !.cnt = zero, !.age = age, !.back = back]
  BY <1>1, <1>3, <1>5, <1>6 DEF DetachMedia
<1>8. Player(p') /\ p'.state = "STOPPED" /\ p'.xhr = NoFrag
  BY <1>2, <1>4, <1>7 DEF Player, Keys
<1>9. sb' = Detached(sb)
  BY DEF DetachMedia
<1>10. Buffer(sb') /\ (sb'.flush # <<>> => sb'.now.op # "idle")
  BY <1>9, Parts, DetachedFacts DEF Flushes
<1>11. Good(p', sb', worker')
  BY <1>8, <1>10, AtRest DEF Asked
<1>12. 0 \in 0 .. End
  BY SizesAssumption DEF End
<1>. QED
  BY <1>11, <1>12 DEF DetachMedia, IInv, Video

LEMMA TimerKeeps ==
    ASSUME IInv, Timer PROVE IInv'
<1>1. Good(p', sb, worker) /\ Video(media')
  BY Parts, TickFacts DEF Timer, IInv
<1>. QED
  BY <1>1 DEF Timer, IInv

\* A handler that leaves the controller idle, and one that only changes what
\* no state rests on.
LEMMA ToIdle ==
    ASSUME NEW s, NEW t, NEW b, NEW w, Sound(s, b, w), Player(t), t.state = "IDLE",
           t.xhr = s.xhr, t.cur = s.cur
    PROVE  Good(t, b, w)
BY AtRest DEF Sound, Asked, Flushes

LEMMA SameStand ==
    ASSUME NEW s, NEW t, NEW b, NEW w, Good(s, b, w), Player(t),
           \A k \in {"state", "xhr", "cur", "kreq", "apd", "pend", "dlast"} : t[k] = s[k],
           s.state = "WAITING_LEVEL" => t.plreq # -1 \/ t.level \in t.details
    PROVE  Good(t, b, w)
BY DEF Good, Sound, Asked, Parses, Appends, Flushes

LEMMA RetryDateKeeps ==
    ASSUME IInv, RetryDate PROVE IInv'
<1>1. PICK t : t = [p EXCEPT !.state = "IDLE"]
  OBVIOUS
<1>2. Player(t) /\ t.state = "IDLE" /\ t.xhr = p.xhr /\ t.cur = p.cur
  BY <1>1, Parts DEF Player, Keys, States
<1>3. Good(t, sb, worker)
  BY <1>2, ToIdle DEF IInv, Good
<1>4. Good(p', sb, worker) /\ Video(media')
  BY <1>1, <1>3, Parts, CheckBufferFacts DEF RetryDate, IInv
<1>. QED
  BY <1>4 DEF RetryDate, IInv

LEMMA LevelLoadedKeeps ==
    ASSUME IInv, LevelLoaded PROVE IInv'
<1>. DEFINE fresh == ~p.req
            at == IF fresh /\ (p.start = -1 \/ p.last = -1) THEN 0 ELSE p.start
            until == IF fresh /\ (p.start = -1 \/ p.last = -1) THEN 0 ELSE p.last
<1>1. Player(p) /\ p.plreq \in Levels
  BY Parts DEF LevelLoaded, Player
<1>2. PICK start \in Cursors, last \in Cursors, next \in Cursors :
         start = at /\ last = until /\ next = IF fresh THEN start ELSE p.nextLoad
  <2>1. 0 \in Cursors
    BY SizesAssumption DEF Cursors, End
  <2>2. at \in Cursors /\ until \in Cursors /\ p.nextLoad \in Cursors
    BY <1>1, <2>1 DEF Player
  <2>. HIDE DEF at, until
  <2>. QED
    BY <2>2
<1>3. PICK details, state :
         /\ details = p.details \cup {p.plreq}
         /\ state = IF p.state = "WAITING_LEVEL" THEN "IDLE" ELSE p.state
  OBVIOUS
<1>4. PICK t : t = [p EXCEPT !.details = details, !.plreq = -1, !.start = start,
                             !.last = last, !.nextLoad = next, !.state = state]
  OBVIOUS
<1>5. t = [p EXCEPT !.details = @ \cup {p.plreq}, !.plreq = -1, !.start = at,
                    !.last = IF fresh /\ (p.start = -1 \/ @ = -1) THEN 0 ELSE @,
                    !.nextLoad = IF fresh THEN at ELSE @,
                    !.state = IF @ = "WAITING_LEVEL" THEN "IDLE" ELSE @]
  BY <1>2, <1>3, <1>4
<1>6. Tick(t, sb)
  BY <1>5, Zenon DEF LevelLoaded
<1>7. details \subseteq Levels /\ state \in States
  BY <1>1, <1>3 DEF Player, States
<1>8. Player(t) /\ t.state = state /\ \A k \in {"xhr", "cur", "kreq", "apd", "pend", "dlast"} : t[k] = p[k]
  BY <1>1, <1>4, <1>7 DEF Player, Keys
<1>9. Good(t, sb, worker)
  <2>1. CASE p.state = "WAITING_LEVEL"
    BY <1>3, <1>8, <2>1, ToIdle DEF IInv, Good
  <2>2. CASE p.state # "WAITING_LEVEL"
    BY <1>3, <1>8, <2>2, SameStand DEF IInv
  <2>. QED
    BY <2>1, <2>2
<1>10. Good(p', sb, worker) /\ Video(media')
  BY <1>6, <1>9, Parts, TickFacts DEF IInv
<1>. QED
  BY <1>10 DEF LevelLoaded, IInv

LEMMA LevelFailedKeeps ==
    ASSUME IInv, LevelFailed PROVE IInv'
<1>1. Player(p) /\ p.plreq \in Levels
  BY Parts DEF LevelFailed, Player
<1>2. CASE p' = p
  BY <1>2 DEF LevelFailed, IInv
<1>3. CASE p.plreq > 0 /\ p' = [p EXCEPT !.want = p.plreq - 1, !.plreq = -1,
                                 !.state = IF @ = "WAITING_LEVEL" THEN "IDLE" ELSE @]
  <2>1. PICK state : state = IF p.state = "WAITING_LEVEL" THEN "IDLE" ELSE p.state
    OBVIOUS
  <2>2. PICK want \in Levels : want = p.plreq - 1
    BY <1>1, <1>3, LevelsBelow
  <2>3. p' = [p EXCEPT !.want = want, !.plreq = -1, !.state = state]
    BY <1>3, <2>1, <2>2
  <2>4. Player(p') /\ p'.state = state
        /\ \A k \in {"xhr", "cur", "kreq", "apd", "pend", "dlast"} : p'[k] = p[k]
    BY <1>1, <2>1, <2>3 DEF Player, Keys, States
  <2>5. Good(p', sb, worker)
    <3>1. CASE p.state = "WAITING_LEVEL"
      BY <2>1, <2>4, <3>1, ToIdle DEF IInv, Good
    <3>2. CASE p.state # "WAITING_LEVEL"
      BY <2>1, <2>4, <3>2, SameStand DEF IInv
    <3>. QED
      BY <3>1, <3>2
  <2>. QED
    BY <2>5 DEF LevelFailed, IInv
<1>4. CASE p' = [p EXCEPT !.plreq = -1, !.state = "ERROR"]
  <2>1. Player(p') /\ p'.state = "ERROR" /\ p'.xhr = p.xhr /\ p'.cur = p.cur
    BY <1>1, <1>4 DEF Player, Keys, States
  <2>2. Good(p', sb, worker)
    BY <2>1, Parts, AtRest DEF Asked, Flushes
  <2>. QED
    BY <2>2 DEF LevelFailed, IInv
<1>5. \/ p' = p
      \/ p.plreq > 0 /\ p' = [p EXCEPT !.want = p.plreq - 1, !.plreq = -1,
                                !.state = IF @ = "WAITING_LEVEL" THEN "IDLE" ELSE @]
      \/ p' = [p EXCEPT !.plreq = -1, !.state = "ERROR"]
  <2>1. PICK u, v :
           /\ u = [p EXCEPT !.want = p.plreq - 1, !.plreq = -1,
                            !.state = IF @ = "WAITING_LEVEL" THEN "IDLE" ELSE @]
           /\ v = [p EXCEPT !.plreq = -1, !.state = "ERROR"]
    OBVIOUS
  <2>2. PICK down, again :
           (down => p.plreq > 0) /\ p' = CASE again -> p [] down -> u [] OTHER -> v
    BY <2>1, Zenon DEF LevelFailed
  <2>3. p' = p \/ (p.plreq > 0 /\ p' = u) \/ p' = v
    BY <2>2
  <2>. QED
    BY <2>1, <2>3
<1>. QED
  BY <1>2, <1>3, <1>4, <1>5

LEMMA KeyLoadedKeeps ==
    ASSUME IInv, KeyLoaded PROVE IInv'
<1>1. Player(p) /\ p.kreq \in Frags
  BY Parts DEF KeyLoaded, Player, FragsOrNone
<1>2. PICK keys : keys = p.keys \cup {p.kreq}
  OBVIOUS
<1>3. PICK s : s = [p EXCEPT !.keyGot = TRUE, !.keys = keys, !.kreq = NoFrag]
  OBVIOUS
<1>4. s = [p EXCEPT !.keyGot = TRUE, !.keys = @ \cup {p.kreq}, !.kreq = NoFrag]
  BY <1>2, <1>3
<1>5. keys \subseteq Frags
  BY <1>1, <1>2 DEF Player
<1>6. Player(s) /\ \A k \in Keys \ {"keyGot", "keys", "kreq"} : s[k] = p[k]
  BY <1>1, <1>3, <1>5 DEF Player, Keys, FragsOrNone
<1>7. IF s.state = "KEY_LOADING" THEN Tick([s EXCEPT !.state = "IDLE"], sb)
      ELSE p' = s /\ media' = media
  BY <1>4, Zenon DEF KeyLoaded
<1>8. CASE s.state = "KEY_LOADING"
  <2>1. PICK t : t = [s EXCEPT !.state = "IDLE"]
    OBVIOUS
  <2>2. Player(t) /\ t.state = "IDLE" /\ t.xhr = p.xhr /\ t.cur = p.cur
    BY <1>6, <2>1 DEF Player, Keys, States
  <2>3. Good(t, sb, worker)
    BY <2>2, ToIdle DEF IInv, Good
  <2>4. Good(p', sb, worker) /\ Video(media')
    BY <1>7, <1>8, <2>1, <2>3, Parts, TickFacts DEF IInv
  <2>. QED
    BY <2>4 DEF KeyLoaded, IInv
<1>9. CASE s.state # "KEY_LOADING"
  <2>1. Good(s, sb, worker)
    BY <1>6, <1>9, Parts DEF Good, Sound, Asked, Parses, Appends, Flushes, Keys
  <2>. QED
    BY <1>7, <1>9, <2>1 DEF KeyLoaded, IInv
<1>. QED
  BY <1>8, <1>9

\* What failed is waited for, and tried again, or the controller gives up.
LEMMA FailedFacts ==
    ASSUME NEW s, Player(s), NEW f \in Frags, NEW b, Buffer(b), NEW w,
           s.xhr # NoFrag => s.xhr = s.cur, b.flush # <<>> => b.now.op # "idle"
    PROVE  Good(LoadFailed(s, f), b, w)
<1>1. PICK t : t = LoadFailed(s, f)
  OBVIOUS
<1>2. /\ Player(t) /\ t.state \in {"ERROR", "FRAG_LOADING_WAITING_RETRY"}
      /\ t.xhr = s.xhr /\ t.cur = s.cur
  BY <1>1, LoadFailedFacts
<1>. QED
  BY <1>1, <1>2, AtRest DEF Asked

LEMMA KeyFailedKeeps ==
    ASSUME IInv, KeyFailed PROVE IInv'
<1>1. PICK s : s = [p EXCEPT !.kreq = NoFrag]
  OBVIOUS
<1>2. Player(s) /\ s.xhr = p.xhr /\ s.cur = p.cur
  BY <1>1, Parts DEF Player, Keys, FragsOrNone
<1>3. Good(LoadFailed(s, p.kreq), sb, worker)
  <2>1. p.kreq \in Frags
    BY Parts DEF KeyFailed, Player, FragsOrNone
  <2>. QED
    BY <1>2, <2>1, Parts, FailedFacts DEF Asked, Flushes
<1>. QED
  BY <1>1, <1>3 DEF KeyFailed, IInv

LEMMA FragFailedKeeps ==
    ASSUME IInv, FragFailed PROVE IInv'
<1>1. PICK s : s = [p EXCEPT !.xhr = NoFrag]
  OBVIOUS
<1>2. Player(s) /\ s.xhr = NoFrag /\ s.cur = p.cur
  BY <1>1, Parts DEF Player, Keys, FragsOrNone
<1>3. Good(LoadFailed(s, p.xhr), sb, worker)
  <2>1. p.xhr \in Frags
    BY Parts DEF FragFailed, Player, FragsOrNone
  <2>. QED
    BY <1>2, <2>1, Parts, FailedFacts DEF Flushes
<1>. QED
  BY <1>1, <1>3 DEF FragFailed, IInv

LEMMA FragTimeoutKeeps ==
    ASSUME IInv, FragTimeout PROVE IInv'
<1>1. PICK s : s = [p EXCEPT !.late = TRUE]
  OBVIOUS
<1>2. Player(s) /\ s.xhr = p.xhr /\ s.cur = p.cur
  BY <1>1, Parts DEF Player, Keys
<1>3. Good(LoadFailed(s, p.xhr), sb, worker)
  <2>1. p.xhr \in Frags
    BY Parts DEF FragTimeout, Player, FragsOrNone
  <2>. QED
    BY <1>2, <2>1, Parts, FailedFacts DEF Asked, Flushes
<1>. QED
  BY <1>1, <1>3 DEF FragTimeout, IInv

(***************************************************************************)
(* The demuxer's worker.                                                   *)
(***************************************************************************)

\* The messages of a push end with the one that ends the fragment.
LEMMA ParsingFacts ==
    ASSUME NEW s, NEW f \in Frags
    PROVE  /\ Parsing(s, f) \in Seq(Posts)
           /\ \E i \in 1 .. Len(Parsing(s, f)) :
                 Parsing(s, f)[i].kind = "parsed" /\ Parsing(s, f)[i].of = f
<1>1. PICK drop \in BOOLEAN : drop = (Sn(f) \in Keyless /\ ~Contiguous(s, f))
  OBVIOUS
<1>2. PICK init, data, parsed :
         /\ init = [kind |-> "init", of |-> f, drop |-> drop]
         /\ data = [kind |-> "data", of |-> f, drop |-> drop]
         /\ parsed = [kind |-> "parsed", of |-> f, drop |-> drop]
  OBVIOUS
<1>3. init \in Posts /\ data \in Posts /\ parsed \in Posts
  BY <1>2 DEF Posts
<1>4. \/ Parsing(s, f) = <<init>> \o <<data, parsed>>
      \/ Parsing(s, f) = <<>> \o <<data, parsed>>
  <2>1. PICK switch : Parsing(s, f) = (IF switch THEN <<init>> ELSE <<>>) \o <<data, parsed>>
    BY <1>1, <1>2, Zenon DEF Parsing
  <2>. QED
    BY <2>1
<1>5. parsed.kind = "parsed" /\ parsed.of = f
  BY <1>2
<1>6. CASE Parsing(s, f) = <<init>> \o <<data, parsed>>
  <2>1. <<init>> \in Seq(Posts) /\ <<data, parsed>> \in Seq(Posts)
    BY <1>3
  <2>2. /\ Len(<<init>>) = 1 /\ Len(<<data, parsed>>) = 2
        /\ <<data, parsed>>[2] = parsed
    OBVIOUS
  <2>3. PICK u \in Seq(Posts), v \in Seq(Posts) :
           u = <<init>> /\ v = <<data, parsed>> /\ Parsing(s, f) = u \o v
    BY <1>6, <2>1
  <2>4. u \o v \in Seq(Posts) /\ 3 \in 1 .. Len(u \o v) /\ (u \o v)[3] = v[2]
    BY <2>2, <2>3
  <2>. QED
    BY <1>5, <2>2, <2>3, <2>4
<1>7. CASE Parsing(s, f) = <<>> \o <<data, parsed>>
  <2>1. Parsing(s, f) = <<data, parsed>>
    BY <1>7
  <2>. QED
    BY <1>3, <1>5, <2>1
<1>. QED
  BY <1>4, <1>6, <1>7

LEMMA FragArrivesKeeps ==
    ASSUME IInv, FragArrives PROVE IInv'
<1>. DEFINE f == p.xhr
            s == [p EXCEPT !.xhr = NoFrag, !.err = 0]
            taken == s.state = "FRAG_LOADING" /\ s.cur = f
            test == s.xtest /\ s.want # 0
            idle == [s EXCEPT !.test = FALSE, !.state = "IDLE", !.req = FALSE]
            flaw == IF worker = <<>> THEN "none" ELSE "mixed"
            push == [s EXCEPT !.test = FALSE, !.state = "PARSING", !.pend = TRUE,
                              !.apd = FALSE, !.dlast = f, !.flaw = flaw]
<1>1. /\ Player(p) /\ f \in Frags /\ f = p.cur /\ sb' = sb
  BY Parts DEF FragArrives, Player, FragsOrNone, Asked
<1>2. PICK t : t = s
  OBVIOUS
<1>3. Player(t) /\ t.xhr = NoFrag /\ \A k \in Keys \ {"xhr", "err"} : t[k] = p[k]
  <2>1. PICK none \in FragsOrNone, err \in 0 .. MaxRetry : none = NoFrag /\ err = 0
    BY SizesAssumption DEF FragsOrNone
  <2>2. t = [p EXCEPT !.xhr = none, !.err = err]
    BY <1>2, <2>1
  <2>. HIDE DEF f, s
  <2>. QED
    BY <1>1, <2>1, <2>2 DEF Player, Keys
<1>4. \/ ~taken /\ p' = s /\ media' = media /\ worker' = worker
      \/ taken /\ Tick(idle, sb) /\ worker' = worker
      \/ taken /\ p' = push /\ worker' = worker \o Parsing(s, f) /\ media' = media
  BY Zenon DEF FragArrives
<1>5. CASE ~taken /\ p' = s /\ media' = media /\ worker' = worker
  <2>1. t.state # "FRAG_LOADING"
    BY <1>1, <1>2, <1>3, <1>5
  <2>2. Good(t, sb, worker)
    BY <1>3, <2>1, Parts DEF Good, Sound, Asked, Parses, Appends, Flushes, Keys
  <2>. QED
    BY <1>1, <1>2, <1>5, <2>2 DEF IInv
<1>6. CASE taken /\ Tick(idle, sb) /\ worker' = worker
  <2>1. PICK u : u = [t EXCEPT !.test = FALSE, !.state = "IDLE", !.req = FALSE]
    OBVIOUS
  <2>2. Player(u) /\ u.state = "IDLE" /\ u.xhr = NoFrag
    BY <1>3, <2>1 DEF Player, Keys, States
  <2>3. Good(u, sb, worker)
    BY <2>2, Parts, AtRest DEF Asked, Flushes
  <2>4. Tick(u, sb)
    BY <1>2, <1>6, <2>1
  <2>5. Good(p', sb, worker) /\ Video(media')
    BY <2>3, <2>4, Parts, TickFacts DEF IInv
  <2>. QED
    BY <1>1, <1>6, <2>5 DEF IInv
<1>7. CASE taken /\ p' = push /\ worker' = worker \o Parsing(s, f) /\ media' = media
  <2>1. PICK ms : ms = Parsing(s, f)
    OBVIOUS
  <2>2. PICK i \in 1 .. Len(ms) : ms[i].kind = "parsed" /\ ms[i].of = f
    BY <1>1, <2>1, ParsingFacts
  <2>3. ms \in Seq(Posts) /\ worker \in Seq(Posts)
    BY <1>1, <2>1, ParsingFacts DEF IInv
  <2>4. worker' = worker \o ms /\ worker' \in Seq(Posts)
    BY <1>7, <2>1, <2>3
  <2>5. /\ Len(worker) + i \in 1 .. Len(worker')
        /\ worker'[Len(worker) + i] = ms[i]
    BY <2>2, <2>3, <2>4
  <2>6. p' = [t EXCEPT !.test = FALSE, !.state = "PARSING", !.pend = TRUE,
                       !.apd = FALSE, !.dlast = f, !.flaw = flaw]
    BY <1>2, <1>7
  <2>7. /\ Player(p') /\ p'.state = "PARSING" /\ p'.xhr = NoFrag /\ ~p'.apd
        /\ p'.dlast = f /\ p'.cur = f
    <3>1. t.cur = f
      BY <1>1, <1>3 DEF Keys
    <3>. QED
      BY <1>1, <1>3, <2>6, <3>1 DEF Player, Keys, States, FragsOrNone
  <2>8. Parses(p', worker')
    BY <2>2, <2>5, <2>7 DEF Parses
  <2>9. Good(p', sb, worker')
    BY <1>1, <2>7, <2>8, Parts, FragFacts DEF Good, Sound, Asked, Appends, Flushes
  <2>. QED
    BY <1>1, <1>7, <2>4, <2>9 DEF IInv
<1>. HIDE DEF taken, idle, push
<1>. QED
  BY <1>4, <1>5, <1>6, <1>7

\* The messages still to come after one is taken from the worker.
LEMMA TailFacts ==
    ASSUME NEW s, NEW w \in Seq(Posts), w # <<>>, Parses(s, w),
           s.state = "PARSING" => Head(w).kind # "parsed"
    PROVE  Parses(s, Tail(w))
<1>1. SUFFICES ASSUME s.state = "PARSING"
               PROVE  \E i \in 1 .. Len(Tail(w)) :
                         Tail(w)[i].kind = "parsed" /\ Tail(w)[i].of = s.cur
  BY DEF Parses
<1>2. PICK i \in 1 .. Len(w) : w[i].kind = "parsed" /\ w[i].of = s.cur
  BY <1>1 DEF Parses
<1>3. i # 1
  BY <1>1, <1>2
<1>4. i - 1 \in 1 .. Len(Tail(w)) /\ Tail(w)[i - 1] = w[i]
  BY <1>2, <1>3
<1>. QED
  BY <1>2, <1>4

LEMMA MessageFacts ==
    ASSUME IInv, NEW kind, Message(kind)
    PROVE  /\ worker # <<>> /\ worker' = Tail(worker) /\ worker' \in Seq(Posts)
           /\ Head(worker) \in Posts /\ Head(worker).kind = kind
BY DEF Message, IInv

LEMMA MessageIgnoredKeeps ==
    ASSUME IInv, MessageIgnored PROVE IInv'
<1>1. worker' \in Seq(Posts)
  BY MessageFacts DEF MessageIgnored
<1>2. p.state # "PARSING"
  BY Parts DEF MessageIgnored, MessageTaken, Parses, Appends
<1>3. Good(p, sb, worker')
  BY <1>2, Parts DEF Good, Sound, Parses
<1>. QED
  BY <1>1, <1>3 DEF MessageIgnored, IInv

\* A segment of the fragment that is parsed is handed to the source buffer.
LEMMA AppendAndTickFacts ==
    ASSUME NEW s, NEW b, NEW w, NEW seg \in Segments,
           Player(s), Buffer(b), Parses(s, w), Video(media),
           s.state = "PARSING", s.cur # NoFrag, s.xhr = NoFrag,
           b.flush # <<>> => b.now.op # "idle",
           AppendAndTick(s, b, seg)
    PROVE  Good(p', sb', w) /\ Video(media')
<1>1. PICK armed : armed = [s EXCEPT !.apd = TRUE, !.pend = TRUE,
                               !.flaw = IF b.flush = <<>> THEN @ ELSE "dropped"]
  OBVIOUS
<1>2. Player(armed) /\ \A k \in Keys \ {"apd", "pend", "flaw"} : armed[k] = s[k]
  BY <1>1 DEF Player, Keys
<1>3. /\ Asked(armed) /\ Parses(armed, w)
      /\ armed.state = "PARSING" /\ armed.cur # NoFrag /\ armed.xhr = NoFrag
  BY <1>2 DEF Asked, Parses, Keys
<1>4. CASE sb' = Appending(b, seg) /\ Tick(armed, sb')
  <2>1. PICK c : c = Appending(b, seg)
    OBVIOUS
  <2>2. /\ Buffer(c) /\ (c.flush # <<>> => c.now.op # "idle")
        /\ c.now.op # "idle" \/ ~c.made
    BY <2>1, AppendingFacts
  <2>3. Good(armed, c, w)
    BY <1>2, <1>3, <2>2 DEF Good, Sound, Appends, Flushes
  <2>. QED
    BY <1>4, <2>1, <2>2, <2>3, TickFacts
<1>5. CASE /\ sb' = BufferFull(armed, b).b
           /\ Tick(BufferFull(armed, b).s, BufferFull(armed, b).b)
  <2>1. PICK r : r = BufferFull(armed, b)
    OBVIOUS
  <2>2. Good(r.s, r.b, w) /\ Buffer(r.b)
    <3>1. Flushes(armed, b)
      BY <1>3 DEF Flushes
    <3>. QED
      BY <1>2, <1>3, <2>1, <3>1, BufferFullFacts
  <2>3. Good(p', r.b, w) /\ Video(media')
    BY <1>5, <2>1, <2>2, TickFacts
  <2>. QED
    BY <1>5, <2>1, <2>3
<1>6. \/ sb' = Appending(b, seg) /\ Tick(armed, sb')
      \/ /\ sb' = BufferFull(armed, b).b
         /\ Tick(BufferFull(armed, b).s, BufferFull(armed, b).b)
  BY <1>1, Zenon DEF AppendAndTick
<1>. QED
  BY <1>4, <1>5, <1>6

LEMMA ParsingInitSegmentKeeps ==
    ASSUME IInv, ParsingInitSegment PROVE IInv'
<1>1. /\ worker # <<>> /\ worker' = Tail(worker) /\ worker' \in Seq(Posts)
      /\ Head(worker) \in Posts /\ Head(worker).kind = "init"
  BY MessageFacts DEF ParsingInitSegment
<1>2. PICK seg : seg = Segment(Head(worker).of, {})
  OBVIOUS
<1>3. seg \in Segments
  BY <1>1, <1>2 DEF Segment, Segments, Posts, FragsOrNone
<1>4. PICK c : c = Created(sb)
  OBVIOUS
<1>5. Buffer(c) /\ (c.flush # <<>> => c.now.op # "idle")
  BY <1>4, Parts, CreatedFacts DEF Flushes
<1>6. Parses(p, worker')
  BY <1>1, Parts, TailFacts DEF IInv
<1>7. p.state = "PARSING" /\ p.cur # NoFrag /\ p.xhr = NoFrag /\ AppendAndTick(p, c, seg)
  BY <1>2, <1>4, Parts DEF ParsingInitSegment, MessageTaken, Appends
<1>8. Good(p', sb', worker') /\ Video(media')
  BY <1>3, <1>5, <1>6, <1>7, Parts, AppendAndTickFacts DEF IInv
<1>. QED
  BY <1>1, <1>8 DEF IInv

LEMMA ParsingDataKeeps ==
    ASSUME IInv, ParsingData PROVE IInv'
<1>. DEFINE m == Head(worker)
            f == p.cur
<1>1. /\ worker # <<>> /\ worker' = Tail(worker) /\ worker' \in Seq(Posts)
      /\ m \in Posts /\ m.kind = "data"
  BY MessageFacts DEF ParsingData
<1>2. /\ p.state = "PARSING" /\ f \in Frags /\ f # NoFrag /\ p.xhr = NoFrag
      /\ Player(p) /\ p.dlast = f
  BY Parts DEF ParsingData, MessageTaken, Appends, Player, FragsOrNone
<1>3. PICK cells : cells = IF m.drop THEN {2 * Sn(m.of) + 1} ELSE Halves(Sn(m.of))
  OBVIOUS
<1>4. Segment(m.of, cells) \in Segments
  <2>1. m.of \in Frags /\ Sn(m.of) \in SN
    BY <1>1, FragFacts DEF Posts
  <2>2. PICK n \in SN : n = Sn(m.of)
    BY <2>1
  <2>3. 2 * n \in Time /\ 2 * n + 1 \in Time
    BY SizesAssumption DEF SN, Time, End
  <2>4. cells \subseteq Time
    BY <1>3, <2>2, <2>3 DEF Halves
  <2>. QED
    BY <2>1, <2>4 DEF Segment, Segments, FragsOrNone
<1>5. PICK drop : drop = m.drop
  OBVIOUS
<1>6. Parses(p, worker')
  BY <1>1, Parts, TailFacts DEF IInv
<1>7. PICK next \in Cursors : next = 2 * Sn(f)
  BY <1>2, FragFacts, SizesAssumption DEF SN, Cursors, End
<1>8. PICK back : back = [p EXCEPT !.back[f] = TRUE, !.nextLoad = next, !.prev = f,
                                   !.flaw = "keyless", !.state = "IDLE"]
  OBVIOUS
<1>9. PICK on : on = [p EXCEPT !.back[f] = drop]
  OBVIOUS
<1>10. \/ Tick(back, sb) /\ sb' = sb
       \/ AppendAndTick(on, sb, Segment(m.of, cells))
  <2>1. /\ back = [p EXCEPT !.back[f] = TRUE, !.nextLoad = 2 * Sn(f), !.prev = f,
                            !.flaw = "keyless", !.state = "IDLE"]
        /\ on = [p EXCEPT !.back[f] = m.drop]
    BY <1>5, <1>7, <1>8, <1>9
  <2>. QED
    BY <1>3, <2>1, Zenon DEF ParsingData
<1>11. CASE Tick(back, sb) /\ sb' = sb
  <2>1. Player(back) /\ back.state = "IDLE" /\ back.xhr = NoFrag
    BY <1>2, <1>8 DEF Player, Keys, States, FragsOrNone
  <2>2. Good(back, sb, worker')
    BY <2>1, Parts, AtRest DEF Asked, Flushes
  <2>3. Good(p', sb, worker') /\ Video(media')
    BY <1>11, <2>2, Parts, TickFacts DEF IInv
  <2>. QED
    BY <1>1, <1>11, <2>3 DEF IInv
<1>12. CASE AppendAndTick(on, sb, Segment(m.of, cells))
  <2>1. Player(on) /\ \A k \in Keys \ {"back"} : on[k] = p[k]
    BY <1>2, <1>9 DEF Player, Keys
  <2>2. /\ Parses(on, worker') /\ on.state = "PARSING" /\ on.cur # NoFrag
        /\ on.xhr = NoFrag
    BY <1>2, <1>6, <2>1 DEF Parses, Keys
  <2>3. Good(p', sb', worker') /\ Video(media')
    BY <1>4, <1>12, <2>1, <2>2, Parts, AppendAndTickFacts DEF IInv, Flushes
  <2>. QED
    BY <1>1, <2>3 DEF IInv
<1>. QED
  BY <1>10, <1>11, <1>12

LEMMA FragParsedKeeps ==
    ASSUME IInv, FragParsed PROVE IInv'
<1>1. worker' \in Seq(Posts)
  BY MessageFacts DEF FragParsed
<1>2. PICK t : t = [p EXCEPT !.state = "PARSED"]
  OBVIOUS
<1>3. /\ Player(t) /\ t.state = "PARSED" /\ \A k \in Keys \ {"state"} : t[k] = p[k]
      /\ p.state = "PARSING"
  BY <1>2, Parts DEF FragParsed, MessageTaken, Player, Keys, States
<1>4. Sound(t, sb, worker')
  BY <1>3, Parts DEF Sound, Asked, Parses, Appends, Flushes, Keys
<1>5. Good(p', sb, worker') /\ Video(media')
  BY <1>2, <1>4, Parts, CheckAppendedFacts DEF FragParsed, IInv
<1>. QED
  BY <1>1, <1>5 DEF FragParsed, IInv

(***************************************************************************)
(* The source buffer answers.                                              *)
(***************************************************************************)

LEMMA UpdatedFacts ==
    ASSUME IInv
    PROVE  /\ Buffer(Updated) /\ Updated.q = sb.q /\ Updated.flush = sb.flush
           /\ Updated.now.op = "idle"
<1>1. PICK init, buf :
         /\ init = (sb.init \/ sb.now.op = "append")
         /\ buf = IF sb.now.op = "append" THEN sb.buf \cup sb.now.cells
                  ELSE sb.buf \ sb.now.cells
  OBVIOUS
<1>2. buf \subseteq Time
  BY <1>1, Parts DEF Buffer, OpOK
<1>3. Updated = [sb EXCEPT !.now = Idle, !.init = init, !.buf = buf]
  BY <1>1 DEF Updated
<1>. QED
  BY <1>2, <1>3, Parts, IdleOp DEF Buffer

\* Only the count of appends that are still pending changes.
LEMMA AppendedFacts ==
    ASSUME NEW s, Player(s), NEW pending
    PROVE  /\ Player(Appended(s, pending))
           /\ \A k \in Keys \ {"pend"} : Appended(s, pending)[k] = s[k]
           /\ s.state \in {"PARSING", "PARSED"} => Appended(s, pending).pend = pending
BY DEF Appended, Player, Keys

LEMMA UpdateEndKeeps ==
    ASSUME IInv, UpdateEnd PROVE IInv'
<1>1. PICK u : u = Updated
  OBVIOUS
<1>2. /\ Buffer(u) /\ u.q = sb.q /\ u.flush = <<>>
  BY <1>1, UpdatedFacts DEF UpdateEnd
<1>3. PICK pending : pending = (sb.q # <<>>)
  OBVIOUS
<1>4. PICK s : s = Appended(p, pending)
  OBVIOUS
<1>5. /\ Player(s) /\ \A k \in Keys \ {"pend"} : s[k] = p[k]
      /\ p.state \in {"PARSING", "PARSED"} => s.pend = pending
  BY <1>4, Parts, AppendedFacts
<1>6. PICK c : c = Next1(u)
  OBVIOUS
<1>7. /\ Buffer(c) /\ c.flush = <<>> /\ (u.q # <<>> => c.now.op # "idle" \/ ~c.made)
  BY <1>2, <1>6, Next1Facts
<1>8. Sound(s, c, worker)
  <2>1. p.state # "BUFFER_FLUSHING"
    BY Parts DEF UpdateEnd, Flushes
  <2>2. s.state \in {"PARSING", "PARSED"} /\ s.apd /\ s.pend =>
          c.now.op # "idle" \/ ~c.made
    <3>1. s.state \in {"PARSING", "PARSED"} /\ s.pend => sb.q # <<>>
      BY <1>3, <1>5 DEF Keys
    <3>. QED
      BY <1>2, <1>7, <3>1
  <2>. QED
    BY <1>5, <1>7, <2>1, <2>2, Parts DEF Sound, Asked, Parses, Appends, Flushes, Keys
<1>9. sb' = c /\ CheckAppendedParsed(s, u) /\ worker' = worker
  BY <1>1, <1>3, <1>4, <1>6, Zenon DEF UpdateEnd
<1>10. Good(p', c, worker) /\ Video(media')
  BY <1>2, <1>8, <1>9, CheckAppendedFacts DEF IInv
<1>. QED
  BY <1>9, <1>10 DEF IInv

LEMMA UpdateEndFullKeeps ==
    ASSUME IInv, UpdateEndFull PROVE IInv'
<1>1. PICK u : u = Updated
  OBVIOUS
<1>2. Buffer(u) /\ u.flush = <<>>
  BY <1>1, UpdatedFacts DEF UpdateEndFull
<1>3. PICK s : s = Appended(p, TRUE)
  BY Zenon
<1>4. Player(s) /\ \A k \in Keys \ {"pend"} : s[k] = p[k]
  BY <1>3, Parts, AppendedFacts
<1>5. PICK r : r = BufferFull(s, u)
  OBVIOUS
<1>6. Good(r.s, r.b, worker)
  <2>1. p.state # "BUFFER_FLUSHING"
    BY Parts DEF UpdateEndFull, Flushes
  <2>2. /\ Asked(s) /\ Flushes(s, u)
        /\ s.state \in {"PARSING", "PARSED"} => s.xhr = NoFrag
    BY <1>2, <1>4, <2>1, Parts DEF Asked, Appends, Flushes, Keys
  <2>. QED
    BY <1>2, <1>4, <1>5, <2>2, BufferFullFacts
<1>7. p' = r.s /\ sb' = r.b
  BY <1>1, <1>3, <1>5 DEF UpdateEndFull
<1>. QED
  BY <1>6, <1>7 DEF UpdateEndFull, IInv

LEMMA UpdateEndFlushKeeps ==
    ASSUME IInv, UpdateEndFlush PROVE IInv'
<1>1. PICK u : u = Updated
  OBVIOUS
<1>2. Buffer(u)
  BY <1>1, UpdatedFacts
<1>3. PICK r : r = DoFlush(p, u)
  OBVIOUS
<1>4. /\ Player(r.s) /\ Buffer(r.b)
      /\ \/ /\ r.s.state = "IDLE" /\ r.s.xhr = p.xhr /\ r.s.cur = p.cur
            /\ r.b.flush = <<>>
         \/ /\ r.s = p
            /\ r.b.flush # <<>> /\ r.b.now.op = "remove"
  BY <1>2, <1>3, Parts, DoFlushFacts
<1>5. PICK pending : pending = (sb.q # <<>>)
  OBVIOUS
<1>6. PICK s : s = Appended(r.s, pending)
  OBVIOUS
<1>7. Player(s) /\ \A k \in Keys \ {"pend"} : s[k] = r.s[k]
  BY <1>4, <1>6, AppendedFacts
<1>8. PICK c : c = IF r.b.flush = <<>> THEN Next1(r.b) ELSE r.b
  OBVIOUS
<1>9. sb' = c /\ CheckAppendedParsed(s, r.b) /\ worker' = worker
  BY <1>1, <1>3, <1>5, <1>6, <1>8, Zenon DEF UpdateEndFlush
<1>10. Sound(s, c, worker)
  <2>1. CASE r.b.flush = <<>>
    <3>1. Buffer(c) /\ c.flush = <<>>
      BY <1>4, <1>8, <2>1, Next1Facts
    <3>2. s.state = "IDLE" /\ s.xhr = p.xhr /\ s.cur = p.cur
      BY <1>4, <1>7, <2>1 DEF Keys
    <3>. QED
      BY <1>7, <3>1, <3>2, Parts DEF Sound, Asked, Parses, Appends, Flushes
  <2>2. CASE r.b.flush # <<>>
    BY <1>4, <1>7, <1>8, <2>2, Parts DEF Sound, Asked, Parses, Appends, Flushes, Keys
  <2>. QED
    BY <2>1, <2>2
<1>11. Good(p', c, worker) /\ Video(media')
  BY <1>4, <1>9, <1>10, CheckAppendedFacts DEF IInv
<1>. QED
  BY <1>9, <1>11 DEF IInv

LEMMA EvictKeeps ==
    ASSUME IInv, Evict PROVE IInv'
<1>1. PICK buf : sb' = [sb EXCEPT !.buf = buf] /\ buf \subseteq sb.buf
  <2>1. PICK n \in SN : sb' = [sb EXCEPT !.buf = sb.buf \ Halves(n)]
    BY DEF Evict
  <2>2. PICK buf : buf = sb.buf \ Halves(n)
    OBVIOUS
  <2>. QED
    BY <2>1, <2>2
<1>2. Buffer(sb') /\ sb'.now = sb.now /\ sb'.flush = sb.flush /\ sb'.made = sb.made
  BY <1>1, Parts DEF Buffer
<1>3. Good(p, sb', worker)
  BY <1>2, Parts DEF Good, Sound, Appends, Flushes
<1>. QED
  BY <1>3 DEF Evict, IInv

(***************************************************************************)
(* The user and the media element.                                         *)
(***************************************************************************)

LEMMA AutoLevelKeeps ==
    ASSUME IInv, AutoLevel PROVE IInv'
<1>1. PICK l \in Levels : p' = [p EXCEPT !.want = l]
  BY DEF AutoLevel
<1>2. Player(p') /\ \A k \in Keys \ {"want"} : p'[k] = p[k]
  BY <1>1, Parts DEF Player, Keys
<1>3. Good(p', sb, worker)
  BY <1>2, Parts, SameStand DEF IInv, Asked, Keys
<1>. QED
  BY <1>3 DEF AutoLevel, IInv

\* A level chosen by the user is asked for when its playlist is not there.
LEMMA ManualFacts ==
    ASSUME IInv, NEW l \in Levels
    PROVE  Good(Manual(l), sb, worker)
<1>1. PICK r : r = RequestLevel(p, l)
  OBVIOUS
<1>2. /\ Player(r) /\ \A k \in Keys \ {"plreq"} : r[k] = p[k]
      /\ p.plreq # -1 => r.plreq # -1
  BY <1>1, Parts, RequestLevelFacts
<1>3. PICK t : t = [r EXCEPT !.want = l, !.man = TRUE]
  OBVIOUS
<1>4. Player(t) /\ \A k \in Keys \ {"want", "man"} : t[k] = r[k]
  BY <1>2, <1>3 DEF Player, Keys
<1>5. Manual(l) = t
  BY <1>1, <1>3 DEF Manual
<1>6. Good(t, sb, worker)
  BY <1>2, <1>4, Parts, SameStand DEF IInv, Asked, Keys
<1>. QED
  BY <1>5, <1>6

LEMMA ForgetKeeps ==
    ASSUME NEW s, NEW b, NEW w, Good(s, b, w)
    PROVE  Good(ForgetLoops(s), b, w)
<1>1. PICK t : t = ForgetLoops(s)
  OBVIOUS
<1>2. Player(t) /\ \A k \in Keys \ {"age", "loop"} : t[k] = s[k]
  BY <1>1, ForgetLoopsFacts DEF Good, Sound
<1>. QED
  BY <1>1, <1>2, SameStand DEF Good, Sound, Asked, Keys

\* The request given up is the one of the fragment given up.
LEMMA GiveUpFacts ==
    ASSUME NEW s, Player(s), Asked(s)
    PROVE  /\ Player([AbortLoad(s) EXCEPT !.cur = NoFrag])
           /\ [AbortLoad(s) EXCEPT !.cur = NoFrag].xhr = NoFrag
<1>1. PICK t : t = AbortLoad(s)
  OBVIOUS
<1>2. Player(t) /\ t.xhr = NoFrag
  BY <1>1, AbortLoadFacts DEF Asked
<1>. QED
  BY <1>1, <1>2 DEF Player, Keys, FragsOrNone

LEMMA NextLevelSwitchKeeps ==
    ASSUME IInv, NextLevelSwitch PROVE IInv'
<1>1. PICK l \in Levels \ {p.want}, delay \in 0 .. 1 :
         LET s == ForgetLoops(Manual(l))
             found(t) == BufferedFrags(s, sb, t)
             playing == found(media.pos)
             next == UNION {found(2 * n + 3) : n \in found(media.pos + 2 * delay)}
             back(n) == IF n > 0
                        THEN FlushMainBuffer(s, sb, {t \in Time : t < 2 * n - 1})
                        ELSE [s |-> s, b |-> sb]
             ahead(r, n) == IF n = -1 THEN r
                            ELSE FlushMainBuffer([AbortLoad(r.s) EXCEPT !.cur = NoFrag],
                                                 r.b, {t \in Time : t >= 2 * n})
         IN \/ /\ ~sb.init
               /\ p' = Manual(l)
               /\ UNCHANGED sb
            \/ /\ sb.init
               /\ \E n \in OneOf(playing), k \in OneOf(next) :
                    LET r == ahead(back(n), k) IN p' = r.s /\ sb' = r.b
  BY Zenon DEF NextLevelSwitch
<1>. DEFINE s == ForgetLoops(Manual(l))
            back(n) == IF n > 0
                       THEN FlushMainBuffer(s, sb, {t \in Time : t < 2 * n - 1})
                       ELSE [s |-> s, b |-> sb]
            ahead(r, n) == IF n = -1 THEN r
                           ELSE FlushMainBuffer([AbortLoad(r.s) EXCEPT !.cur = NoFrag],
                                                r.b, {t \in Time : t >= 2 * n})
<1>2. Good(Manual(l), sb, worker) /\ Good(s, sb, worker)
  BY ManualFacts, ForgetKeeps
<1>3. worker' = worker /\ media' = media
  BY DEF NextLevelSwitch
<1>4. CASE p' = Manual(l) /\ sb' = sb
  BY <1>2, <1>3, <1>4 DEF IInv
<1>5. CASE \E n, k : p' = ahead(back(n), k).s /\ sb' = ahead(back(n), k).b
  <2>1. PICK n, k : p' = ahead(back(n), k).s /\ sb' = ahead(back(n), k).b
    BY <1>5
  <2>2. PICK r : r = back(n)
    OBVIOUS
  <2>3. PICK t : t = s
    OBVIOUS
  <2>4. Good(r.s, r.b, worker)
    <3>1. Good(FlushMainBuffer(t, sb, {x \in Time : x < 2 * n - 1}).s,
               FlushMainBuffer(t, sb, {x \in Time : x < 2 * n - 1}).b, worker)
      BY <1>2, <2>3, Parts, FlushMainFacts DEF Good, Sound, Asked
    <3>2. Good(t, sb, worker)
      BY <1>2, <2>3
    <3>3. r = FlushMainBuffer(t, sb, {x \in Time : x < 2 * n - 1})
          \/ r = [s |-> t, b |-> sb]
      BY <2>2, <2>3
    <3>. QED
      BY <3>1, <3>2, <3>3
  <2>5. PICK a : a = [AbortLoad(r.s) EXCEPT !.cur = NoFrag]
    OBVIOUS
  <2>6. Player(a) /\ a.xhr = NoFrag /\ Buffer(r.b)
    BY <2>4, <2>5, GiveUpFacts DEF Good, Sound
  <2>7. Good(FlushMainBuffer(a, r.b, {x \in Time : x >= 2 * k}).s,
             FlushMainBuffer(a, r.b, {x \in Time : x >= 2 * k}).b, worker)
    BY <2>6, FlushMainFacts
  <2>8. ahead(r, k) = r \/ ahead(r, k) = FlushMainBuffer(a, r.b, {x \in Time : x >= 2 * k})
    BY <2>5
  <2>9. Good(p', sb', worker)
    <3>. HIDE DEF ahead, back, s
    <3>. QED
      BY <2>1, <2>2, <2>4, <2>7, <2>8
  <2>. QED
    BY <1>3, <2>9 DEF IInv
<1>6. \/ p' = Manual(l) /\ sb' = sb
      \/ \E n, k : p' = ahead(back(n), k).s /\ sb' = ahead(back(n), k).b
  BY <1>1, Zenon
<1>. QED
  BY <1>4, <1>5, <1>6

LEMMA ImmediateLevelSwitchKeeps ==
    ASSUME IInv, ImmediateLevelSwitch PROVE IInv'
<1>1. PICK l \in Levels :
         LET s == [AbortLoad(Manual(l)) EXCEPT !.imm = TRUE, !.cur = NoFrag]
             r == FlushMainBuffer(IF s.loop = "unset" THEN s ELSE ForgetLoops(s), sb, Time)
         IN p' = r.s /\ sb' = r.b
  BY Zenon DEF ImmediateLevelSwitch
<1>2. PICK a : a = AbortLoad(Manual(l))
  OBVIOUS
<1>3. Player(a) /\ a.xhr = NoFrag
  BY <1>2, ManualFacts, AbortLoadFacts DEF Good, Sound, Asked
<1>4. PICK s : s = [a EXCEPT !.imm = TRUE, !.cur = NoFrag]
  OBVIOUS
<1>5. Player(s) /\ s.xhr = NoFrag
  BY <1>3, <1>4 DEF Player, Keys, FragsOrNone
<1>6. PICK t : t = IF s.loop = "unset" THEN s ELSE ForgetLoops(s)
  OBVIOUS
<1>7. Player(t) /\ t.xhr = NoFrag
  BY <1>5, <1>6, ForgetLoopsFacts DEF Keys
<1>8. PICK r : r = FlushMainBuffer(t, sb, Time)
  OBVIOUS
<1>9. Good(r.s, r.b, worker)
  BY <1>7, <1>8, Parts, FlushMainFacts
<1>10. p' = r.s /\ sb' = r.b
  BY <1>1, <1>2, <1>4, <1>6, <1>8
<1>. QED
  BY <1>9, <1>10 DEF ImmediateLevelSwitch, IInv

LEMMA TimesInside == \A t \in Time : t \in 0 .. End /\ 2 * (t \div 2) + 2 \in 0 .. End
BY SizesAssumption DEF Time, End

LEMMA SeekKeeps ==
    ASSUME IInv, Seek PROVE IInv'
<1>1. PICK t \in Time : media' = Jump(media, t)
  BY DEF Seek
<1>2. Video(media')
  BY <1>1, TimesInside, JumpFacts DEF IInv
<1>. QED
  BY <1>2 DEF Seek, IInv

LEMMA PlayKeeps ==
    ASSUME IInv, Play PROVE IInv'
<1>1. PICK t \in 0 .. End : t = 2 * (media.pos \div 2) + 2
  BY Parts, TimesInside DEF Play, Buffer
<1>2. media' = [media EXCEPT !.pos = t]
  BY <1>1 DEF Play
<1>3. Video(media')
  BY <1>2 DEF IInv, Video
<1>. QED
  BY <1>3 DEF Play, IInv

LEMMA SeekOverHoleKeeps ==
    ASSUME IInv, SeekOverHole PROVE IInv'
<1>1. PICK t \in 0 .. End : t = media.pos + 1
  BY Parts, TimesInside DEF SeekOverHole, Buffer
<1>2. Video(media')
  BY <1>1, JumpFacts DEF SeekOverHole, IInv
<1>. QED
  BY <1>2 DEF SeekOverHole, IInv

LEMMA MediaSeekedKeeps ==
    ASSUME IInv, MediaSeeked PROVE IInv'
<1>1. PICK m : m = [media EXCEPT !.seek = FALSE]
  BY Zenon
<1>2. Video(m)
  BY <1>1 DEF IInv, Video
<1>3. Good(DoTick(p, sb), sb, worker)
  BY Parts, DoTickFacts DEF IInv, Good
<1>4. CheckBuffer(DoTick(p, sb), sb, m)
  BY <1>1, Zenon DEF MediaSeeked
<1>5. Good(p', sb, worker) /\ Video(media')
  BY <1>2, <1>3, <1>4, Parts, CheckBufferFacts
<1>. QED
  BY <1>5 DEF MediaSeeked, IInv

LEMMA MediaSeekingKeeps ==
    ASSUME IInv, MediaSeeking PROVE IInv'
<1>. DEFINE pos   == media.pos
            dry   == BufferInfo(sb.buf, pos).len = 0
            far   == p.cur # NoFrag /\ (pos < 2 * Sn(p.cur) \/ pos > 2 * Sn(p.cur) + 2)
            leave == p.state = "FRAG_LOADING" /\ dry /\ far
            first == CASE leave -> [AbortLoad(p) EXCEPT !.cur = NoFrag, !.prev = NoFrag,
                                                        !.state = "IDLE"]
                       [] p.state = "ENDED" ->
                            [p EXCEPT !.prev = IF dry THEN NoFrag ELSE @, !.state = "IDLE"]
                       [] OTHER -> p
            second == IF first.state # "FRAG_LOADING" /\ first.loop # "unset"
                      THEN ForgetLoops(first) ELSE first
            third == [second EXCEPT !.last = pos,
                                    !.nextLoad = IF second.meta THEN @ ELSE pos,
                                    !.start = IF second.meta THEN @ ELSE pos]
<1>0. PICK s1 : s1 = first
  OBVIOUS
<1>1. CheckBuffer(DoTick(third, sb), sb, [media EXCEPT !.evt = FALSE])
  BY Zenon DEF MediaSeeking
<1>2. Good(s1, sb, worker)
  <2>1. PICK a : a = [AbortLoad(p) EXCEPT !.cur = NoFrag, !.prev = NoFrag, !.state = "IDLE"]
    OBVIOUS
  <2>2. Good(a, sb, worker)
    <3>1. PICK t : t = AbortLoad(p)
      OBVIOUS
    <3>2. Player(t) /\ t.xhr = NoFrag
      BY <3>1, Parts, AbortLoadFacts DEF Asked
    <3>3. Player(a) /\ a.state = "IDLE" /\ a.xhr = NoFrag
      BY <2>1, <3>1, <3>2 DEF Player, Keys, States, FragsOrNone
    <3>. QED
      BY <3>3, Parts, AtRest DEF Asked, Flushes
  <2>3. PICK prev \in FragsOrNone : prev = IF dry THEN NoFrag ELSE p.prev
    BY Parts DEF Player, FragsOrNone
  <2>4. PICK e : e = [p EXCEPT !.prev = prev, !.state = "IDLE"]
    OBVIOUS
  <2>5. Good(e, sb, worker)
    <3>1. Player(e) /\ e.state = "IDLE" /\ e.xhr = p.xhr /\ e.cur = p.cur
      BY <2>4, Parts DEF Player, Keys, States
    <3>. QED
      BY <3>1, ToIdle DEF IInv, Good
  <2>6. s1 = CASE leave -> a [] p.state = "ENDED" -> e [] OTHER -> p
    BY <1>0, <2>1, <2>3, <2>4
  <2>. HIDE DEF leave, first
  <2>. QED
    BY <2>2, <2>5, <2>6 DEF IInv
<1>3. PICK s2 : s2 = IF s1.state # "FRAG_LOADING" /\ s1.loop # "unset"
                     THEN ForgetLoops(s1) ELSE s1
  OBVIOUS
<1>4. Good(s2, sb, worker)
  BY <1>2, <1>3, ForgetKeeps
<1>5. pos \in Cursors
  BY DEF IInv, Video, Cursors
<1>6. PICK next \in Cursors, start \in Cursors :
         /\ next = IF s2.meta THEN s2.nextLoad ELSE pos
         /\ start = IF s2.meta THEN s2.start ELSE pos
  BY <1>4, <1>5 DEF Good, Sound, Player
<1>7. PICK s3 : s3 = [s2 EXCEPT !.last = pos, !.nextLoad = next, !.start = start]
  OBVIOUS
<1>8. Player(s3) /\ \A k \in Keys \ {"last", "nextLoad", "start"} : s3[k] = s2[k]
  <2>. HIDE DEF pos
  <2>. QED
    BY <1>4, <1>5, <1>7 DEF Good, Sound, Player, Keys
<1>9. Good(s3, sb, worker)
  BY <1>4, <1>8, SameStand DEF Good, Sound, Asked, Keys
<1>10. PICK m : m = [media EXCEPT !.evt = FALSE]
  OBVIOUS
<1>11. Video(m)
  BY <1>10 DEF IInv, Video
<1>12. CheckBuffer(DoTick(s3, sb), sb, m)
  <2>1. s2 = second
    BY <1>0, <1>3
  <2>2. s3 = third
    <3>. HIDE DEF second
    <3>. QED
      BY <1>6, <1>7, <2>1
  <2>. HIDE DEF third
  <2>. QED
    BY <1>1, <1>10, <2>2
<1>13. Good(DoTick(s3, sb), sb, worker)
  BY <1>9, Parts, DoTickFacts DEF IInv, Good
<1>14. Good(p', sb, worker) /\ Video(media')
  BY <1>11, <1>12, <1>13, Parts, CheckBufferFacts
<1>. QED
  BY Zenon, <1>14 DEF MediaSeeking, IInv

(***************************************************************************)
(* The theorems.                                                           *)
(***************************************************************************)

LEMMA NextIInv == IInv /\ [Next]_vars => IInv'
<1>. SUFFICES ASSUME IInv, [Next]_vars PROVE IInv'
  OBVIOUS
<1>1. CASE AttachMedia \/ StartLoad \/ Timer \/ RetryDate
  BY <1>1, AttachMediaKeeps, StartLoadKeeps, TimerKeeps, RetryDateKeeps
<1>2. CASE Calls
  BY <1>2, AutoLevelKeeps, NextLevelSwitchKeeps, ImmediateLevelSwitchKeeps, SeekKeeps,
     StopLoadingKeeps, DetachMediaKeeps DEF Calls
<1>3. CASE Failures
  BY <1>3, LevelFailedKeeps, KeyFailedKeeps, FragFailedKeeps, FragTimeoutKeeps,
     UpdateEndFullKeeps, EvictKeeps DEF Failures
<1>4. CASE Answers
  BY <1>4, LevelLoadedKeeps, KeyLoadedKeeps, FragArrivesKeeps DEF Answers
<1>5. CASE Messages
  BY <1>5, MessageIgnoredKeeps, ParsingInitSegmentKeeps, ParsingDataKeeps,
     FragParsedKeeps DEF Messages
<1>6. CASE Updates
  BY <1>6, UpdateEndKeeps, UpdateEndFlushKeeps DEF Updates
<1>7. CASE Element
  BY <1>7, MediaSeekingKeeps, MediaSeekedKeeps, PlayKeeps, SeekOverHoleKeeps DEF Element
<1>8. CASE UNCHANGED vars
  BY <1>8 DEF vars, IInv
<1>. QED
  BY <1>1, <1>2, <1>3, <1>4, <1>5, <1>6, <1>7, <1>8 DEF Next

LEMMA AlwaysIInv == Spec => []IInv
BY InitIInv, NextIInv, PTL DEF Spec

LEMMA TypesFollow == IInv => TypeOK
<1>. SUFFICES ASSUME IInv PROVE TypeOK
  OBVIOUS
<1>1. Player(p) /\ Buffer(sb) /\ Video(media)
  BY Parts DEF IInv
<1>2. /\ p.state \in States
      /\ {p.cur, p.prev, p.xhr, p.kreq, p.dlast} \subseteq Frags \cup {NoFrag}
      /\ {p.want, p.level, p.plreq} \subseteq Levels \cup {-1}
      /\ p.details \subseteq Levels /\ p.keys \subseteq Frags /\ p.bf \subseteq SN
  BY <1>1 DEF Player, FragsOrNone
<1>3. /\ {p.nextLoad, p.start, p.last} \subseteq -1 .. End
      /\ p.err \in 0 .. MaxRetry /\ p.cap \in 1 .. End
      /\ \A f \in Frags : p.cnt[f] \in 0 .. LoopThreshold + 1 /\ p.age[f] \in 0 .. LoopThreshold
  BY <1>1 DEF Player, Cursors
<1>4. OpOK(sb.now) /\ sb.buf \subseteq Time /\ media.pos \in 0 .. End
  BY <1>1 DEF Buffer, Video
<1>5. ASSUME NEW i \in 1 .. Len(sb.q) PROVE OpOK(sb.q[i])
  <2>1. sb.q[i] \in Segments
    BY <1>1 DEF Buffer
  <2>. QED
    BY <2>1 DEF Segments, OpOK, FragsOrNone
<1>. QED
  BY <1>2, <1>3, <1>4, <1>5 DEF TypeOK

\* The controller is never left in a state that only an event which can no
\* longer happen would change: whoever loads has a request under way for the
\* current fragment, whoever parses has the end of that fragment still to
\* come from the worker, whoever waits for the source buffer or for a flush
\* finds the source buffer busy.  One case is let out, the one the code has
\* no answer to: an init segment that was ignored, so that no source buffer
\* was ever created.  It rests on what the handlers leave behind: PARSED is
\* left as soon as nothing is pending, a request belongs to fragCurrent, and
\* the fragment posted last to the demuxer is the one that is parsed.
THEOREM NeverWedgedHolds == Spec => []NeverWedged
<1>1. IInv => NeverWedged
  <2>. SUFFICES ASSUME IInv PROVE NeverWedged
    OBVIOUS
  <2>1. TypeOK
    BY TypesFollow
  <2>2. /\ p.state = "FRAG_LOADING"  => p.xhr # NoFrag /\ p.xhr = p.cur
        /\ p.state = "KEY_LOADING"   => p.kreq # NoFrag
        /\ p.state = "WAITING_LEVEL" => p.plreq # -1 \/ p.level \in p.details
    BY Parts DEF Asked
  <2>3. p.state = "PARSING" => \E i \in 1 .. Len(worker) :
                                  worker[i].kind = "parsed" /\ worker[i].of = p.cur
    BY Parts DEF Parses
  <2>4. p.state = "PARSED" => p.cur # NoFrag /\ (sb.now.op # "idle" \/ InitLost)
    BY Parts DEF Appends, InitLost
  <2>5. p.state = "BUFFER_FLUSHING" => sb.flush # <<>> /\ sb.now.op # "idle"
    BY Parts DEF Flushes
  <2>. QED
    BY <2>1, <2>2, <2>3, <2>4, <2>5 DEF NeverWedged
<1>. QED
  BY <1>1, AlwaysIInv, PTL

\* At most one fragment is asked for, and it is fragCurrent: whoever gives
\* fragCurrent up (a seek, a level switch, stopLoad) aborts the request with
\* it, so that no answer for another fragment can arrive.
THEOREM LoadIsCurrentHolds == Spec => []LoadIsCurrent
<1>1. IInv => LoadIsCurrent
  BY Parts DEF Asked, LoadIsCurrent
<1>. QED
  BY <1>1, AlwaysIInv, PTL

=============================================================================
