------------------------ MODULE HttpConnectionProofs ------------------------
(***************************************************************************)
(* The connections of HTTPServer, for any number of connections, streams   *)
(* and requests in a read.  Each part of the invariant says of one         *)
(* connection, handled or not, what its flags have to do with each other;  *)
(* the last section joins them to the counters of the streams.             *)
(***************************************************************************)
EXTENDS HttpConnection, FiniteSetTheorems, TLAPS

Types == ConnectionTypes /\ refs \in [Streams -> Int]

\* Only an open connection is handled or readable, and between two handlers an
\* open connection is active.
Control ==
    \A c \in Conns :
        /\ readable[c] => life[c] = "open" /\ sink[c] # "sending"
        /\ handling = c => life[c] = "open"
        /\ life[c] = "open" /\ handling # c => active[c]
        /\ life[c] = "new" => active[c] /\ sink[c] = "none" /\ sub[c] = None

\* A connection that is to go on has something to call it again.
Served ==
    \A c \in Conns : life[c] = "open" /\ active[c] =>
        readable[c] \/ sink[c] = "sending" \/ sink[c] = "broken"

\* A body without a handler has lost its client or was given up.
Broken ==
    \A c \in Conns : sink[c] = "broken" => gone[c] \/ misled[c]

\* The only request of a read finds a connection that is active and has no body
\* to finish.
Single ==
    \A c \in Conns : handling = c /\ Regular(c) =>
        /\ Len(todo) <= 1
        /\ todo # <<>> => active[c] /\ ~Unfinished(c) /\ sub[c] = None
        /\ Unfinished(c) => active[c]

\* The state that is given back is that of a stream, and a connection that
\* waits for its first request has none.
Tokens ==
    \A c \in Conns :
        /\ sub[c] # None => token[c] \in Streams
        /\ active[c] /\ readable[c] /\ ~gone[c] /\ Regular(c) => sub[c] = None

CInv == /\ Types /\ Control /\ Served /\ Broken /\ Single /\ Tokens
        /\ ResponsesWhole

LEMMA InitInv == Init => CInv
<1>. SUFFICES ASSUME Init PROVE CInv
  OBVIOUS
<1>. USE DEF Init
<1>1. Types
  BY DEF Types, ConnectionTypes
<1>2. /\ Control /\ Served /\ Broken /\ Single /\ Tokens
      /\ ResponsesWhole
  BY NoneAssumption DEF Control, Served, Broken, Single, Tokens,
                           ResponsesWhole, Regular
<1>. QED
  BY <1>1, <1>2 DEF CInv

LEMMA AcceptInv == ASSUME CInv, NEW c \in Conns, Accept(c) PROVE CInv'
<1>. USE DEF CInv, Accept, stateVars, errnoVars
<1>1. Types'
  BY DEF Types, ConnectionTypes
<1>2. Control'
  BY DEF Types, ConnectionTypes, Control
<1>3. Served' /\ Broken'
  BY DEF Types, ConnectionTypes, Served, Broken, Control
<1>4. Single' /\ ResponsesWhole'
  BY DEF Types, ConnectionTypes, Single, ResponsesWhole, Regular, Unfinished
<1>5. Tokens'
  BY DEF Types, ConnectionTypes, Tokens, Control, Regular
<1>. QED
  BY <1>1, <1>2, <1>3, <1>4, <1>5

LEMMA LeavesInv == ASSUME CInv, NEW c \in Conns, ClientLeaves(c) PROVE CInv'
<1>. USE DEF CInv, ClientLeaves, stateVars, errnoVars
<1>1. Types'
  BY DEF Types, ConnectionTypes
<1>2. Control' /\ Single' /\ ResponsesWhole'
  BY DEF Types, ConnectionTypes, Control, Single, ResponsesWhole, Regular, Unfinished
<1>3. Served' /\ Broken'
  BY DEF Types, ConnectionTypes, Served, Broken
<1>4. Tokens'
  BY DEF Types, ConnectionTypes, Tokens, Regular
<1>. QED
  BY <1>1, <1>2, <1>3, <1>4

LEMMA OtherCallsInv == ASSUME CInv, OtherCalls PROVE CInv'
<1>1. Types' /\ Control'
  BY DEF CInv, OtherCalls, stateVars, Types, ConnectionTypes, Control
<1>2. Served' /\ Broken' /\ Single' /\ Tokens' /\ ResponsesWhole'
  BY DEF CInv, OtherCalls, stateVars, Served, Broken, Single, Tokens,
         ResponsesWhole, Regular, Unfinished
<1>. QED
  BY <1>1, <1>2 DEF CInv

LEMMA ReadRequestsInv ==
    ASSUME CInv, NEW c \in Conns, ReadRequests(c) PROVE CInv'
<1>. USE DEF CInv, ReadRequests, stateVars, errnoVars
<1>0. todo' \in Seq(Requests) /\ Len(todo') \in Nat
  BY ReadAssumption DEF Reads
<1>1. Types'
  BY <1>0 DEF Types, ConnectionTypes
<1>2. Control'
  BY NoneAssumption DEF Types, ConnectionTypes, Control
<1>3. Served' /\ Broken' /\ ResponsesWhole'
  BY DEF Types, ConnectionTypes, Served, Broken, ResponsesWhole, Regular
<1>4. Single'
  <2>1. active[c] /\ sink[c] # "sending"
    BY NoneAssumption DEF Control
  <2>2. Regular(c)' => Regular(c) /\ ~(Len(todo') > 1)
    BY Zenon DEF Types, ConnectionTypes, Regular
  <2>3. Regular(c)' => Len(todo') <= 1 /\ sub[c] = None
    BY <1>0, <2>1, <2>2 DEF Tokens
  <2>4. Regular(c)' => ~Unfinished(c)'
    BY <2>1, <2>2 DEF Broken, Regular, Unfinished
  <2>. QED
    BY <2>1, <2>3, <2>4 DEF Single
<1>5. Tokens'
  BY DEF Types, ConnectionTypes, Tokens, Regular
<1>. QED
  BY <1>1, <1>2, <1>3, <1>4, <1>5

LEMMA ReadEndInv == ASSUME CInv, NEW c \in Conns, ReadEnd(c) PROVE CInv'
<1>. USE DEF CInv, ReadEnd, Delete, errnoVars
<1>0. ~Unfinished(c) /\ handling # c
  BY NoneAssumption DEF Control, Unfinished
<1>1. cut' = cut
  BY <1>0 DEF Types, ConnectionTypes
<1>2. refs' \in [Streams -> Int]
  BY DEF Types, ConnectionTypes, Released, Tokens
<1>3. Types'
  BY <1>1, <1>2 DEF Types, ConnectionTypes
<1>4. Control'
  BY <1>0 DEF Types, ConnectionTypes, Control
<1>5. Served' /\ Broken' /\ ResponsesWhole'
  BY <1>1 DEF Types, ConnectionTypes, Served, Broken, ResponsesWhole, Regular
<1>6. Single' /\ Tokens'
  BY <1>0 DEF Types, ConnectionTypes, Single, Tokens, Regular, Unfinished
<1>. QED
  BY <1>3, <1>4, <1>5, <1>6

LEMMA BodyOverInv == ASSUME CInv, NEW c \in Conns, BodyOver(c) PROVE CInv'
<1>. USE DEF CInv, BodyOver, errnoVars
<1>1. refs' \in [Streams -> Int]
  BY DEF Types, ConnectionTypes, Released, Tokens
<1>2. Types'
  BY <1>1 DEF Types, ConnectionTypes
<1>3. Control'
  BY NoneAssumption DEF Types, ConnectionTypes, Control
<1>4. Served' /\ Broken' /\ ResponsesWhole'
  BY DEF Types, ConnectionTypes, Served, Broken, ResponsesWhole, Regular
<1>5. Single' /\ Tokens'
  BY NoneAssumption DEF Types, ConnectionTypes, Single, Tokens, Regular, Unfinished
<1>. QED
  BY <1>2, <1>3, <1>4, <1>5

LEMMA MisledFacts ==
    ASSUME CInv, NEW c \in Conns, NEW b \in BOOLEAN, misled' = MisledBy(c, b)
    PROVE  /\ misled' \in [Conns -> BOOLEAN]
           /\ \A d \in Conns : misled[d] => misled'[d]
           /\ \A d \in Conns \ {c} : misled'[d] = misled[d]
           /\ b => gone[c] \/ misled'[c]
           /\ ~b => misled'[c] = misled[c]
<1>1. misled \in [Conns -> BOOLEAN]
  BY DEF CInv, Types, ConnectionTypes
<1>2. misled' = [misled EXCEPT ![c] = @ \/ (b /\ ~gone[c])]
  BY DEF MisledBy
<1>. QED
  BY <1>1, <1>2

LEMMA BodyBrokenInv == ASSUME CInv, NEW c \in Conns, BodyBroken(c) PROVE CInv'
<1>. USE DEF CInv, BodyBroken, stateVars, errnoVars
<1>0. /\ misled' \in [Conns -> BOOLEAN]
      /\ \A d \in Conns : misled[d] => misled'[d]
      /\ \A d \in Conns \ {c} : misled'[d] = misled[d]
      /\ gone[c] \/ misled'[c]
  BY MisledFacts
<1>1. Types'
  BY <1>0 DEF Types, ConnectionTypes
<1>2. Control' /\ Tokens'
  BY <1>0 DEF Types, ConnectionTypes, Control, Tokens, Regular
<1>3. Served' /\ Broken' /\ ResponsesWhole'
  BY <1>0 DEF Types, ConnectionTypes, Served, Broken, ResponsesWhole, Regular
<1>4. Single'
  BY <1>0, NoneAssumption DEF Types, ConnectionTypes, Single, Regular, Unfinished
<1>. QED
  BY <1>1, <1>2, <1>3, <1>4

-----------------------------------------------------------------------------
(* The handling of a request. *)

\* The only request of a read is also its last one.
LEMMA TakesFacts ==
    ASSUME CInv, NEW c \in Conns, NEW r, Takes(c, r)
    PROVE  /\ handling = c /\ life[c] = "open" /\ todo' \in Seq(Requests)
           /\ Regular(c) => todo' = <<>> /\ active[c] /\ sub[c] = None
                            /\ ~Unfinished(c)
<1>. USE DEF CInv
<1>1. handling = c /\ todo # <<>> /\ todo' = Tail(todo)
  BY DEF Takes
<1>2. life[c] = "open"
  BY <1>1 DEF Control
<1>3. todo \in Seq(Requests)
  BY DEF Types, ConnectionTypes
<1>4. todo' \in Seq(Requests) /\ Len(todo') = Len(todo) - 1
  BY <1>1, <1>3
<1>5. Regular(c) => Len(todo) <= 1 /\ active[c] /\ sub[c] = None
                   /\ ~Unfinished(c)
  BY <1>1 DEF Single
<1>6. Len(todo) <= 1 => todo' = <<>>
  BY <1>1, <1>3, <1>4
<1>. QED
  BY <1>1, <1>2, <1>4, <1>5, <1>6

LEMMA InterruptsFacts ==
    ASSUME CInv, NEW c \in Conns, NEW r, Takes(c, r), Interrupts(c),
           UNCHANGED shared, \A d \in Conns : misled[d] => misled'[d]
    PROVE  cut' \in [Conns -> BOOLEAN] /\ ResponsesWhole'
<1>1. Regular(c) => ~Unfinished(c)
  BY TakesFacts
<1>2. \A d \in Conns : Regular(d)' => Regular(d)
  BY DEF Regular
<1>. QED
  BY <1>1, <1>2 DEF CInv, Types, ConnectionTypes, Interrupts, ResponsesWhole

\* A request that is answered without a body, with or without the end of its
\* connection; it takes the state of a stream at most.
LEMMA NoBodyInv ==
    ASSUME CInv, NEW c \in Conns, NEW r, Takes(c, r),
           \/ UNCHANGED active
           \/ active' = [active EXCEPT ![c] = FALSE],
           cut' \in [Conns -> BOOLEAN], ResponsesWhole',
           refs' \in [Streams -> Int], missed' \in [Streams -> BOOLEAN],
           \/ UNCHANGED token
           \/ \E s \in Streams : token' = [token EXCEPT ![c] = s],
           UNCHANGED <<life, readable, sink, sub, gone, handling, errnoVars, shared>>
    PROVE  CInv'
<1>. USE DEF CInv
<1>0. /\ handling = c /\ life[c] = "open" /\ todo' \in Seq(Requests)
      /\ Regular(c) => todo' = <<>> /\ active[c] /\ sub[c] = None
                       /\ ~Unfinished(c)
  BY TakesFacts
<1>1. Types'
  <2>1. active' \in [Conns -> BOOLEAN]
    BY DEF Types, ConnectionTypes
  <2>2. token' \in [Conns -> Streams \cup {None}]
    BY DEF Types, ConnectionTypes
  <2>. QED
    BY <1>0, <2>1, <2>2 DEF Types, ConnectionTypes, errnoVars
<1>2. /\ \A d \in Conns \ {c} : active'[d] = active[d]
      /\ active'[c] => active[c]
  BY DEF Types, ConnectionTypes
<1>3. Control'
  BY <1>0, <1>2 DEF Control
<1>4. Served' /\ Broken'
  BY <1>2 DEF Served, Broken, errnoVars
<1>5. Single'
  BY <1>0 DEF Types, ConnectionTypes, Single, Regular, Unfinished, errnoVars
<1>6. Tokens'
  BY <1>0 DEF Types, ConnectionTypes, Tokens, Regular, errnoVars
<1>. QED
  BY <1>1, <1>3, <1>4, <1>5, <1>6

\* A request that is answered with a body.
LEMMA BodyInv ==
    ASSUME CInv, NEW c \in Conns, NEW r, Takes(c, r), StreamSource(c),
           refs' \in [Streams -> Int], missed' \in [Streams -> BOOLEAN],
           \/ UNCHANGED <<sub, token>>
           \/ \E s \in Streams : /\ sub' = [sub EXCEPT ![c] = s]
                                 /\ token' = [token EXCEPT ![c] = s],
           UNCHANGED <<life, gone, handling, shared>>
    PROVE  CInv'
<1>. USE DEF CInv
<1>0. /\ handling = c /\ life[c] = "open" /\ todo' \in Seq(Requests)
      /\ Regular(c) => todo' = <<>> /\ active[c] /\ sub[c] = None
                       /\ ~Unfinished(c)
  BY TakesFacts
<1>1. PICK o \in Outcomes(c) :
         /\ sink' = [sink EXCEPT ![c] = o]
         /\ active' = [active EXCEPT ![c] = @ /\ ActiveAfter(o)]
         /\ readable' = [readable EXCEPT ![c] = @ /\ ReadableAfter(c, o)]
         /\ pipe' = PipeAfter(o) /\ misled' = MisledBy(c, o = "broken")
         /\ Interrupts(c)
  BY Zenon DEF StreamSource
<1>2. /\ misled' \in [Conns -> BOOLEAN]
      /\ \A d \in Conns : misled[d] => misled'[d]
      /\ \A d \in Conns \ {c} : misled'[d] = misled[d]
      /\ o = "broken" => gone[c] \/ misled'[c]
      /\ o # "broken" => misled'[c] = misled[c]
  <2>1. (o = "broken") \in BOOLEAN
    OBVIOUS
  <2>. QED
    BY <1>1, <2>1, MisledFacts
<1>11. cut' \in [Conns -> BOOLEAN] /\ ResponsesWhole'
  BY <1>1, <1>2, InterruptsFacts
<1>3. /\ o \in {"done", "sending", "broken"}
      /\ o = "sending" => ~gone[c]
      /\ pipe' \in BOOLEAN
  BY <1>1 DEF Outcomes, PipeAfter, Types, ConnectionTypes
<1>4. /\ active' \in [Conns -> BOOLEAN] /\ readable' \in [Conns -> BOOLEAN]
      /\ active'[c] => active[c] /\ o # "done"
      /\ active[c] /\ o # "done" => active'[c]
      /\ readable'[c] => readable[c] /\ sink[c] = "none" /\ o # "sending"
      /\ \A d \in Conns \ {c} : /\ active'[d] = active[d]
                                /\ readable'[d] = readable[d]
  BY <1>1 DEF Types, ConnectionTypes, ActiveAfter, ReadableAfter
<1>5. /\ sink' \in [Conns -> {"none", "sending", "broken", "done"}]
      /\ sink'[c] = o /\ \A d \in Conns \ {c} : sink'[d] = sink[d]
  BY <1>1, <1>3 DEF Types, ConnectionTypes
<1>6. Types'
  <2>1. sub' \in [Conns -> Streams \cup {None}] /\ token' \in [Conns -> Streams \cup {None}]
    <3>1. sub \in [Conns -> Streams \cup {None}] /\ token \in [Conns -> Streams \cup {None}]
      BY DEF Types, ConnectionTypes
    <3>2. ASSUME NEW s \in Streams, sub' = [sub EXCEPT ![c] = s],
                 token' = [token EXCEPT ![c] = s]
          PROVE  sub' \in [Conns -> Streams \cup {None}] /\ token' \in [Conns -> Streams \cup {None}]
      BY <3>1, <3>2
    <3>3. CASE UNCHANGED <<sub, token>>
      BY <3>1, <3>3
    <3>. QED
      BY <3>2, <3>3
  <2>2. /\ life' \in [Conns -> {"new", "open", "deleted"}]
        /\ gone' \in [Conns -> BOOLEAN] /\ shared' \in [Conns -> BOOLEAN]
        /\ handling' \in Conns \cup {None}
    BY DEF Types, ConnectionTypes
  <2>. QED
    BY <1>0, <1>2, <1>3, <1>4, <1>5, <1>11, <2>1, <2>2, Zenon DEF Types, ConnectionTypes
<1>7. Control'
  BY <1>0, <1>4, <1>5 DEF Types, ConnectionTypes, Control
<1>8. Served' /\ Broken'
  BY <1>2, <1>3, <1>4, <1>5 DEF Types, ConnectionTypes, Served, Broken
<1>12. \A d \in Conns : Regular(d)' => Regular(d)
  BY <1>2 DEF Regular
<1>9. Single'
  <2>. SUFFICES ASSUME Regular(c)'
                PROVE  /\ todo' = <<>>
                       /\ Unfinished(c)' => active'[c]
    BY <1>0 DEF Single
  <2>1. Regular(c) /\ todo' = <<>> /\ active[c]
    BY <1>0, <1>12
  <2>2. Unfinished(c)' => o # "done"
    BY <1>5 DEF Unfinished
  <2>. QED
    BY <1>4, <2>1, <2>2
<1>10. Tokens'
  <2>1. \A d \in Conns : sub'[d] # None => token'[d] \in Streams
    BY DEF Types, ConnectionTypes, Tokens
  <2>2. ASSUME active'[c], readable'[c], ~gone'[c], Regular(c)' PROVE FALSE
    <3>1. o = "broken"
      BY <1>3, <1>4, <2>2
    <3>. QED
      BY <1>2, <2>2, <3>1 DEF Regular
  <2>3. ASSUME NEW d \in Conns \ {c},
               active'[d], readable'[d], ~gone'[d], Regular(d)'
        PROVE  sub'[d] = None
    <3>1. Regular(d) /\ active[d] /\ readable[d] /\ ~gone[d]
      BY <1>4, <1>12, <2>3
    <3>2. sub[d] = None
      BY <3>1 DEF Tokens
    <3>. QED
      BY <3>2 DEF Types, ConnectionTypes
  <2>. QED
    BY <2>1, <2>2, <2>3 DEF Tokens
<1>. QED
  BY <1>6, <1>7, <1>8, <1>9, <1>10, <1>11

LEMMA RequestInv ==
    ASSUME CInv, NEW c \in Conns,
           \/ GetText(c) \/ GetUnknown(c) \/ GetMalformed(c) \/ GetSnapshot(c)
           \/ \E s \in Streams : GetSegment(c, s) \/ MissSegment(c, s)
    PROVE  CInv'
<1>0. /\ refs \in [Streams -> Int] /\ missed \in [Streams -> BOOLEAN]
      /\ cut \in [Conns -> BOOLEAN] /\ ResponsesWhole
  BY DEF CInv, Types, ConnectionTypes
<1>1. CASE GetText(c)
  BY <1>0, <1>1, BodyInv DEF GetText, stateVars, errnoVars
<1>2. CASE GetUnknown(c)
  BY <1>0, <1>2, NoBodyInv, InterruptsFacts DEF GetUnknown, stateVars, errnoVars
<1>3. CASE GetMalformed(c)
  BY <1>0, <1>3, NoBodyInv, InterruptsFacts DEF GetMalformed, stateVars, errnoVars
<1>4. CASE GetSnapshot(c)
  <2>1. ResponsesWhole'
    BY <1>0, <1>4 DEF GetSnapshot, ResponsesWhole, Regular, errnoVars
  <2>. QED
    BY <1>0, <1>4, <2>1, NoBodyInv DEF GetSnapshot, stateVars, errnoVars
<1>5. ASSUME NEW s \in Streams, GetSegment(c, s) PROVE CInv'
  <2>1. refs' \in [Streams -> Int]
    BY <1>0, <1>5 DEF GetSegment, Referenced
  <2>. QED
    BY <1>0, <1>5, <2>1, BodyInv DEF GetSegment
<1>6. ASSUME NEW s \in Streams, MissSegment(c, s) PROVE CInv'
  <2>1. refs' \in [Streams -> Int] /\ missed' \in [Streams -> BOOLEAN]
    BY <1>0, <1>6 DEF MissSegment, MissReferenced, Referenced
  <2>. QED
    BY <1>0, <1>6, <2>1, NoBodyInv, InterruptsFacts DEF MissSegment, errnoVars
<1>. QED
  BY <1>1, <1>2, <1>3, <1>4, <1>5, <1>6

LEMMA EndRequestsInv == ASSUME CInv, NEW c \in Conns, EndRequests(c) PROVE CInv'
<1>. USE DEF CInv, EndRequests, errnoVars
<1>1. life[c] = "open" /\ (Regular(c) /\ Unfinished(c) => active[c])
  BY DEF Control, Single
<1>2. CASE active[c]
  <2>. USE <1>2 DEF stateVars
  <2>1. Types' /\ Control'
    BY NoneAssumption DEF Types, ConnectionTypes, Control
  <2>2. Served' /\ Broken' /\ Single' /\ Tokens' /\ ResponsesWhole'
    BY NoneAssumption DEF Served, Broken, Single, Tokens, ResponsesWhole, Regular
  <2>. QED
    BY <2>1, <2>2
<1>3. CASE ~active[c]
  <2>. USE <1>3 DEF Delete
  <2>1. refs' \in [Streams -> Int]
    BY DEF Types, ConnectionTypes, Released, Tokens
  <2>2. Types'
    BY <2>1 DEF Types, ConnectionTypes
  <2>3. Control'
    BY NoneAssumption DEF Types, ConnectionTypes, Control
  <2>4. Served' /\ Broken' /\ Single'
    BY NoneAssumption DEF Types, ConnectionTypes, Served, Broken, Single
  <2>5. Tokens'
    BY DEF Types, ConnectionTypes, Tokens, Regular
  <2>6. ResponsesWhole'
    BY <1>1 DEF Types, ConnectionTypes, ResponsesWhole, Regular
  <2>. QED
    BY <2>2, <2>3, <2>4, <2>5, <2>6
<1>. QED
  BY <1>2, <1>3

LEMMA NextInv == ASSUME CInv, [Next]_vars PROVE CInv'
<1>1. CASE UNCHANGED vars
  BY <1>1 DEF vars, stateVars, errnoVars, CInv, Types, ConnectionTypes, Control,
              Served, Broken, Single, Tokens, ResponsesWhole, Regular, Unfinished
<1>2. ASSUME NEW c \in Conns, Handle(c) PROVE CInv'
  BY <1>2, RequestInv, EndRequestsInv DEF Handle
<1>. QED
  BY <1>1, <1>2, OtherCallsInv, AcceptInv, LeavesInv, ReadRequestsInv, ReadEndInv,
     BodyOverInv, BodyBrokenInv DEF Next

\* The flags of a connection agree with each other in every reachable state.
THEOREM Invariance == Spec => []CInv
BY InitInv, NextInv, PTL DEF Spec

\* Only a request that came in one read with another, or one that follows a
\* body given up by an errno of another socket, can interrupt a response.
THEOREM ResponsesComplete == Spec => []ResponsesWhole
<1>1. CInv => ResponsesWhole
  BY DEF CInv
<1>. QED
  BY <1>1, Invariance, PTL

\* Every connection left to itself will be called again, or has lost its client
\* in a body, or sent a part of one while errno said EPIPE of another socket.
THEOREM NoneForgotten == Spec => []NotForgotten
<1>1. CInv => NotForgotten
  BY DEF CInv, Control, Served, Broken, NotForgotten
<1>. QED
  BY <1>1, Invariance, PTL

-----------------------------------------------------------------------------
(* The references to the state of a stream. *)

LEMMA HoldersFinite ==
    \A s : IsFiniteSet(Holders(s)) /\ Cardinality(Holders(s)) \in Nat
<1>. SUFFICES ASSUME NEW s
              PROVE IsFiniteSet(Holders(s)) /\ Cardinality(Holders(s)) \in Nat
  OBVIOUS
<1>1. Holders(s) \subseteq Conns
  BY DEF Holders
<1>. QED
  BY <1>1, FiniteAssumption, FS_Subset, FS_CardinalityType

\* What one more or one connection less does to the number of holders.
LEMMA HoldersCount ==
    ASSUME NEW s, NEW c
    PROVE  /\ Cardinality(Holders(s) \cup {c}) =
                IF c \in Holders(s) THEN Cardinality(Holders(s))
                                    ELSE Cardinality(Holders(s)) + 1
           /\ Cardinality(Holders(s) \ {c}) =
                IF c \in Holders(s) THEN Cardinality(Holders(s)) - 1
                                    ELSE Cardinality(Holders(s))
BY HoldersFinite, FS_AddElement, FS_RemoveElement

\* A step that takes and gives no reference.
LEMMA KeptReferences ==
    ASSUME ReferencesCounted, UNCHANGED <<sub, token, refs, missed>>,
           \A c \in Conns : Regular(c)' => Regular(c)
    PROVE  ReferencesCounted'
<1>1. \A s : Holders(s)' = Holders(s)
  BY DEF Holders
<1>. QED
  BY <1>1 DEF ReferencesCounted

\* Who holds the state of s after a step, connection by connection.
LEMMA HoldersAfter ==
    ASSUME NEW s, NEW c,
           \A d \in Conns \ {c} : sub'[d] = sub[d] /\ token'[d] = token[d],
           c \in Conns
    PROVE  Holders(s)' = IF sub'[c] # None /\ token'[c] = s
                         THEN Holders(s) \cup {c} ELSE Holders(s) \ {c}
<1>1. \A d : d \in Holders(s) <=>
                d \in Conns /\ sub[d] # None /\ token[d] = s
  BY DEF Holders
<1>2. \A d : d \in Holders(s)' <=>
                d \in Conns /\ sub'[d] # None /\ token'[d] = s
  BY DEF Holders
<1>. QED
  BY <1>1, <1>2

\* The destructor gives back the reference of its connection, if it has one.
LEMMA ReleasedReferences ==
    ASSUME CInv, ReferencesCounted, NEW c \in Conns, refs' = Released(c),
           sub' = [sub EXCEPT ![c] = None],
           UNCHANGED <<token, missed, shared, misled>>
    PROVE  ReferencesCounted'
<1>0. /\ refs \in [Streams -> Int]
      /\ sub'[c] = None /\ \A d \in Conns \ {c} : sub'[d] = sub[d]
      /\ sub[c] # None => token[c] \in Streams
  BY DEF CInv, Types, ConnectionTypes, Tokens
<1>1. ASSUME NEW s \in Streams
      PROVE  refs[s] \in Int /\ Cardinality(Holders(s)) \in Nat
  BY <1>0, HoldersFinite
<1>2. ASSUME NEW s \in Streams PROVE Holders(s)' = Holders(s) \ {c}
  BY <1>0, HoldersAfter
<1>3. ASSUME NEW s \in Streams
      PROVE  refs'[s] = IF c \in Holders(s) THEN refs[s] - 1 ELSE refs[s]
  BY <1>0 DEF Released, Holders
<1>4. ASSUME NEW s \in Streams
      PROVE  /\ Cardinality(Holders(s)') =
                    IF c \in Holders(s) THEN Cardinality(Holders(s)) - 1
                                        ELSE Cardinality(Holders(s))
  BY <1>2, HoldersCount
<1>. QED
  BY <1>1, <1>3, <1>4 DEF ReferencesCounted, Regular

\* A request that takes the state of s: one more reference to it, and the
\* token of its connection is the state of s.
LEMMA TakenReferences ==
    ASSUME CInv, ReferencesCounted, NEW c \in Conns, NEW s \in Streams,
           Takes(c, s), \A d \in Conns : Regular(d)' => Regular(d),
           refs' = Referenced(s), token' = [token EXCEPT ![c] = s],
           \/ sub' = [sub EXCEPT ![c] = s] /\ UNCHANGED missed
           \/ UNCHANGED sub /\ missed' = [missed EXCEPT ![s] = TRUE]
    PROVE  ReferencesCounted'
<1>. DEFINE Lost(t) == missed[t] \/ \E d \in Conns : ~Regular(d)
<1>. SUFFICES ASSUME NEW t \in Streams
              PROVE  /\ refs'[t] >= Cardinality(Holders(t)')
                     /\ refs'[t] > Cardinality(Holders(t)') => Lost(t)'
  BY DEF ReferencesCounted
<1>0. /\ refs \in [Streams -> Int] /\ missed \in [Streams -> BOOLEAN]
      /\ sub \in [Conns -> Streams \cup {None}]
      /\ token \in [Conns -> Streams \cup {None}]
  BY DEF CInv, Types, ConnectionTypes
<1>1. c \in Holders(t) => Lost(t)'
  <2>1. Regular(c) => sub[c] = None
    BY TakesFacts
  <2>. QED
    BY <2>1 DEF Holders
<1>2. Lost(t) => Lost(t)'
  <2>1. missed[t] => missed'[t]
    BY <1>0
  <2>. QED
    BY <2>1
<1>3. /\ refs[t] >= Cardinality(Holders(t))
      /\ refs[t] > Cardinality(Holders(t)) => Lost(t)
      /\ refs[t] \in Int /\ Cardinality(Holders(t)) \in Nat
  BY <1>0, HoldersFinite DEF ReferencesCounted
<1>4. /\ token'[c] = s
      /\ \A d \in Conns \ {c} : sub'[d] = sub[d] /\ token'[d] = token[d]
  BY <1>0
<1>5. CASE t = s
  <2>1. refs'[t] = refs[t] + 1
    BY <1>0, <1>5 DEF Referenced
  <2>2. Holders(t)' = Holders(t) \cup {c} \/ Lost(t)'
    <3>1. sub'[c] = s \/ missed'[s]
      BY <1>0
    <3>2. s # None
      BY NoneAssumption
    <3>. QED
      BY <1>4, <1>5, <3>1, <3>2, HoldersAfter
  <2>3. \/ Holders(t)' = Holders(t) \cup {c}
        \/ Holders(t)' = Holders(t) \ {c}
    BY <1>4, HoldersAfter
  <2>4. /\ Cardinality(Holders(t)') <= Cardinality(Holders(t)) + 1
        /\ \/ Lost(t)'
           \/ Cardinality(Holders(t)') = Cardinality(Holders(t)) + 1
        /\ Cardinality(Holders(t)') \in Int
    <3>. HIDE DEF Lost
    <3>1. CASE c \in Holders(t)
      <4>1. Holders(t)' = Holders(t) \/ Holders(t)' = Holders(t) \ {c}
        BY <2>3, <3>1
      <4>2. Cardinality(Holders(t)') \in {Cardinality(Holders(t)),
                                         Cardinality(Holders(t)) - 1}
        BY <3>1, <4>1, HoldersCount
      <4>. QED
        BY <1>1, <1>3, <3>1, <4>2
    <3>2. CASE c \notin Holders(t) /\ Holders(t)' = Holders(t) \cup {c}
      <4>1. Cardinality(Holders(t)') = Cardinality(Holders(t)) + 1
        BY <3>2, HoldersCount
      <4>. QED
        BY <1>3, <4>1
    <3>3. CASE c \notin Holders(t) /\ Holders(t)' = Holders(t) \ {c}
      <4>1. Holders(t)' = Holders(t)
        BY <3>3
      <4>2. Lost(t)' \/ Holders(t)' = Holders(t) \cup {c}
        BY <2>2
      <4>3. c \notin Holders(t)'
        BY <3>3, <4>1
      <4>4. Lost(t)'
        BY <4>2, <4>3
      <4>. QED
        BY <1>3, <4>1, <4>4
    <3>. QED
      BY <2>3, <3>1, <3>2, <3>3
  <2>. HIDE DEF Lost
  <2>. QED
    BY <1>2, <1>3, <2>1, <2>4
<1>6. CASE t # s
  <2>1. refs'[t] = refs[t]
    BY <1>0, <1>6 DEF Referenced
  <2>2. Holders(t)' = Holders(t) \ {c}
    BY <1>4, <1>6, HoldersAfter
  <2>3. Cardinality(Holders(t)') =
            IF c \in Holders(t) THEN Cardinality(Holders(t)) - 1
                                ELSE Cardinality(Holders(t))
    BY <2>2, HoldersCount
  <2>. HIDE DEF Lost
  <2>. QED
    BY <1>1, <1>2, <1>3, <2>1, <2>3
<1>. QED
  BY <1>5, <1>6

\* No step makes a connection regular again.
LEMMA RegularBefore ==
    ASSUME CInv, [Next]_vars, NEW d \in Conns, Regular(d)' PROVE Regular(d)
<1>. USE DEF CInv, Types, ConnectionTypes, Regular
<1>1. ASSUME NEW c \in Conns, NEW b \in BOOLEAN,
             misled' = MisledBy(c, b), UNCHANGED shared
      PROVE  Regular(d)
  BY <1>1, MisledFacts
<1>2. ASSUME UNCHANGED <<shared, misled>> PROVE Regular(d)
  BY <1>2
<1>3. ASSUME NEW c \in Conns, ReadRequests(c) PROVE Regular(d)
  BY <1>3, Zenon DEF ReadRequests, errnoVars
<1>4. ASSUME NEW c \in Conns, BodyBroken(c) PROVE Regular(d)
  BY <1>1, <1>4 DEF BodyBroken
<1>5. ASSUME NEW c \in Conns, StreamSource(c), UNCHANGED shared PROVE Regular(d)
  <2>1. PICK o : misled' = MisledBy(c, o = "broken")
    BY <1>5, Zenon DEF StreamSource
  <2>2. (o = "broken") \in BOOLEAN
    OBVIOUS
  <2>. QED
    BY <1>1, <1>5, <2>1, <2>2
<1>6. ASSUME NEW c \in Conns, Handle(c) PROVE Regular(d)
  BY <1>2, <1>5, <1>6
  DEF Handle, GetText, GetUnknown, GetMalformed, GetSnapshot, GetSegment,
      MissSegment, EndRequests, errnoVars
<1>7. ASSUME NEW c \in Conns,
             Accept(c) \/ ClientLeaves(c) \/ ReadEnd(c) \/ BodyOver(c)
      PROVE  Regular(d)
  BY <1>2, <1>7 DEF Accept, ClientLeaves, ReadEnd, BodyOver, errnoVars
<1>8. CASE OtherCalls \/ UNCHANGED vars
  BY <1>2, <1>8 DEF OtherCalls, vars, errnoVars
<1>. QED
  BY <1>3, <1>4, <1>6, <1>7, <1>8 DEF Next

\* Every step keeps the counters true.
LEMMA NextReferences ==
    ASSUME CInv, ReferencesCounted, [Next]_vars PROVE ReferencesCounted'
<1>0. \A d \in Conns : Regular(d)' => Regular(d)
  BY RegularBefore
<1>1. CASE UNCHANGED vars \/ OtherCalls
  BY <1>0, <1>1, KeptReferences DEF vars, OtherCalls, stateVars
<1>2. ASSUME NEW c \in Conns,
             Accept(c) \/ ClientLeaves(c) \/ BodyBroken(c) \/ ReadRequests(c)
      PROVE  ReferencesCounted'
  BY <1>0, <1>2, KeptReferences
  DEF Accept, ClientLeaves, BodyBroken, ReadRequests, stateVars
<1>3. ASSUME NEW c \in Conns, ReadEnd(c) \/ BodyOver(c)
      PROVE  ReferencesCounted'
  BY <1>3, ReleasedReferences DEF ReadEnd, Delete, BodyOver, errnoVars
<1>4. ASSUME NEW c \in Conns,
             \/ GetText(c) \/ GetUnknown(c) \/ GetMalformed(c)
             \/ GetSnapshot(c)
      PROVE  ReferencesCounted'
  BY <1>0, <1>4, KeptReferences
  DEF GetText, GetUnknown, GetMalformed, GetSnapshot, stateVars
<1>5. ASSUME NEW c \in Conns, NEW s \in Streams,
             GetSegment(c, s) \/ MissSegment(c, s)
      PROVE  ReferencesCounted'
  BY <1>0, <1>5, TakenReferences DEF GetSegment, MissSegment, MissReferenced
<1>6. ASSUME NEW c \in Conns, EndRequests(c) PROVE ReferencesCounted'
  BY <1>0, <1>6, KeptReferences, ReleasedReferences
  DEF EndRequests, Delete, stateVars, errnoVars
<1>. QED
  BY <1>1, <1>2, <1>3, <1>4, <1>5, <1>6 DEF Next, Handle

LEMMA InitReferences == Init => ReferencesCounted
<1>. SUFFICES ASSUME Init PROVE ReferencesCounted
  OBVIOUS
<1>1. ASSUME NEW s PROVE Cardinality(Holders(s)) = 0
  <2>1. Holders(s) = {}
    BY DEF Init, Holders
  <2>. QED
    BY <2>1, FS_EmptySet
<1>2. \A s \in Streams : refs[s] = 0
  BY DEF Init
<1>. QED
  BY <1>1, <1>2 DEF ReferencesCounted

\* The counters of a stream's state agree with the connections in every
\* reachable state, but for the references that the two lossy paths keep.
THEOREM Counted == Spec => []ReferencesCounted
<1>1. CInv /\ ReferencesCounted /\ [Next]_vars => ReferencesCounted'
  BY NextReferences
<1>. QED
  BY <1>1, InitReferences, Invariance, PTL DEF Spec

\* Every variable has its type; a counter is never below zero.
THEOREM TypeCorrect == Spec => []TypeOK
<1>1. ASSUME CInv, ReferencesCounted PROVE TypeOK
  <2>1. ConnectionTypes /\ refs \in [Streams -> Int]
    BY <1>1 DEF CInv, Types
  <2>2. \A s \in Streams : refs[s] >= Cardinality(Holders(s))
    BY <1>1 DEF ReferencesCounted
  <2>3. \A s \in Streams : refs[s] \in Nat
    BY <2>1, <2>2, HoldersFinite
  <2>. QED
    BY <2>1, <2>3 DEF TypeOK
<1>. QED
  BY <1>1, Counted, Invariance, PTL

\* No reference to the state of a stream is given back twice, and none is lost
\* but on the paths ReferencesCounted names.
THEOREM ReferencesKept == Spec => []ReferencesTrue
<1>1. TypeOK /\ ReferencesCounted => ReferencesTrue
  BY DEF ReferencesTrue
<1> QED
  BY <1>1, TypeCorrect, Counted, PTL

=============================================================================
