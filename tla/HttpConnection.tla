--------------------------- MODULE HttpConnection ---------------------------
(***************************************************************************)
(* The connections of HTTPServer: what a GET does to its connection, to    *)
(* the body that is being sent on it and to the stream state it takes from *)
(* its subsession.  A connection is deleted when its body is over or when  *)
(* a request cannot be answered, at once or, while its requests are being  *)
(* handled, after the last of them.  The event loop runs one handler at a  *)
(* time; a read may bring several requests, handled one after the other.   *)
(* How the bytes of a body are sent is in TcpSink.                         *)
(***************************************************************************)
EXTENDS Integers, Sequences, FiniteSets

CONSTANTS
    Conns,     \* connections
    Streams,   \* subsessions that can be asked for segments
    MaxRead,   \* bound: requests in one read
    None

ASSUME NoneAssumption == None \notin Conns \cup Streams
ASSUME FiniteAssumption == IsFiniteSet(Conns)
ASSUME ReadAssumption == MaxRead \in Nat \ {0}

VARIABLES
    life,       \* each connection: not accepted yet, open or deleted
    active,     \* fIsActive
    readable,   \* the socket has the handler that reads requests
    sink,       \* m_TCPSink: none, waits for the socket, left without a handler
                \* for it, done
    sub,        \* m_Subsession
    token,      \* m_StreamToken: the subsession whose stream state it is
    gone,       \* the client has left
    refs,       \* references to the stream state of each subsession
    handling,   \* the connection whose requests are being handled
    todo,       \* the requests of its read that are left
    pipe,       \* errno of the thread of the loop is EPIPE
    cut,        \* history: a response was interrupted
    shared,     \* history: a read brought more than one request
    misled,     \* history: a body was given up by an EPIPE of another socket
    missed      \* history: a segment asked for was not there

stateVars == <<sub, token, refs, missed>>
errnoVars == <<pipe, misled>>
vars == <<life, active, readable, sink, stateVars, gone, handling, todo,
          errnoVars, cut, shared>>

\* "text" stands for everything that is answered from memory: the version, the
\* list of streams, a playlist of a stream that has segments, a file.  A stream
\* stands for the request of one of its segments.
Requests == {"text", "unknown", "snapshot", "malformed"} \cup Streams

Init == /\ life = [c \in Conns |-> "new"]
        /\ active = [c \in Conns |-> TRUE]
        /\ readable = [c \in Conns |-> FALSE]
        /\ sink = [c \in Conns |-> "none"]
        /\ sub = [c \in Conns |-> None] /\ token = [c \in Conns |-> None]
        /\ gone = [c \in Conns |-> FALSE]
        /\ refs = [s \in Streams |-> 0]
        /\ handling = None /\ todo = <<>>
        /\ cut = [c \in Conns |-> FALSE] /\ shared = [c \in Conns |-> FALSE]
        /\ pipe \in BOOLEAN /\ misled = [c \in Conns |-> FALSE]
        /\ missed = [s \in Streams |-> FALSE]

Accept(c) == /\ handling = None /\ life[c] = "new"
             /\ life' = [life EXCEPT ![c] = "open"]
             /\ readable' = [readable EXCEPT ![c] = TRUE]
             /\ UNCHANGED <<active, sink, stateVars, gone, handling, todo,
                            errnoVars, cut, shared>>

ClientLeaves(c) == /\ life[c] = "open" /\ ~gone[c]
                   /\ gone' = [gone EXCEPT ![c] = TRUE]
                   /\ UNCHANGED <<life, active, readable, sink, stateVars,
                                  handling, todo, errnoVars, cut, shared>>

\* What else runs in the loop, between these handlers and inside them, leaves
\* the errno of its last call that failed.
OtherCalls == /\ pipe' = ~pipe
              /\ UNCHANGED <<life, active, readable, sink, stateVars, gone,
                             handling, todo, misled, cut, shared>>

-----------------------------------------------------------------------------
(* The end of a connection. *)

\* Fault: the destructor does not give the stream state back.
NotReleased(c) == refs

Released(c) == IF sub[c] = None THEN refs
               ELSE [refs EXCEPT ![token[c]] = @ - 1]

\* The client waits for the rest of a body.
Unfinished(c) == sink[c] = "sending" \/ (sink[c] = "broken" /\ ~gone[c])

\* The destructor.  A body that is being sent ends where it is.
Delete(c) == /\ life' = [life EXCEPT ![c] = "deleted"]
             /\ readable' = [readable EXCEPT ![c] = FALSE]
             /\ refs' = Released(c)
             /\ sub' = [sub EXCEPT ![c] = None]
             /\ cut' = [cut EXCEPT ![c] = @ \/ Unfinished(c)]
             /\ UNCHANGED <<token, missed>>

\* The read handler finds that the client has closed the connection.
ReadEnd(c) == /\ handling = None /\ readable[c] /\ gone[c]
              /\ Delete(c)
              /\ UNCHANGED <<active, sink, gone, handling, todo, errnoVars,
                             shared>>

\* afterStreaming, between two requests: the body is over.
BodyOver(c) == /\ handling = None /\ life[c] = "open" /\ sink[c] = "sending"
               /\ sink' = [sink EXCEPT ![c] = "done"]
               /\ life' = [life EXCEPT ![c] = "deleted"]
               /\ refs' = Released(c)
               /\ sub' = [sub EXCEPT ![c] = None]
               /\ UNCHANGED <<active, readable, token, missed, gone, handling,
                              todo, errnoVars, cut, shared>>

\* The sink looks at errno after every send that did not take all it was given.
\* EPIPE of a client that has left breaks its body; EPIPE of another socket
\* breaks the body of a client that has taken a part, as it stands until a call
\* fails with something else.
Breaks(c) == gone[c] \/ pipe

MisledBy(c, broken) == [misled EXCEPT ![c] = @ \/ (broken /\ ~gone[c])]

\* In the middle of a body: the socket keeps no handler.
BodyBroken(c) == /\ handling = None /\ life[c] = "open"
                 /\ sink[c] = "sending" /\ Breaks(c)
                 /\ sink' = [sink EXCEPT ![c] = "broken"]
                 /\ pipe' = TRUE /\ misled' = MisledBy(c, TRUE)
                 /\ UNCHANGED <<life, active, readable, stateVars, gone,
                                handling, todo, cut, shared>>

-----------------------------------------------------------------------------
(* Requests. *)

Reads == UNION {[1 .. n -> Requests] : n \in 1 .. MaxRead}

ReadRequests(c) ==
    /\ handling = None /\ readable[c] /\ ~gone[c]
    /\ handling' = c
    /\ todo' \in Reads
    /\ shared' = [shared EXCEPT ![c] = @ \/ Len(todo') > 1]
    /\ UNCHANGED <<life, active, readable, sink, stateVars, gone, errnoVars,
                   cut>>

\* The next request of the read is r.
Takes(c, r) == handling = c /\ todo # <<>> /\ Head(todo) = r
               /\ todo' = Tail(todo)

\* What is sent now goes into the middle of a body that was not finished.
Interrupts(c) == cut' = [cut EXCEPT ![c] = @ \/ Unfinished(c)]

\* Fault: a request is handled to its end and its connection goes on.
StaysActive(o) == TRUE

\* afterStreaming, called while the request is handled.
ActiveAfter(o) == o # "done"

\* Fault: the sink waits for the socket beside the handler of the connection.
ReadableBeside(c, o) == sink[c] = "none"

\* A sink that waits for the socket takes its handler, and a sink that is
\* closed removes it.
ReadableAfter(c, o) == sink[c] = "none" /\ o # "sending"

\* What becomes of a body at its first sends: all of it is taken, or it waits
\* for the socket, none of it (EAGAIN) or a part of it taken, or it breaks.
Outcomes(c) == {"done"} \cup (IF gone[c] THEN {} ELSE {"sending"})
                        \cup (IF Breaks(c) THEN {"broken"} ELSE {})

PipeAfter(o) == IF o = "done" THEN pipe ELSE o = "broken"

\* streamSource, after the header.
StreamSource(c) ==
    \E o \in Outcomes(c) :
        /\ sink' = [sink EXCEPT ![c] = o]
        /\ active' = [active EXCEPT ![c] = @ /\ ActiveAfter(o)]
        /\ readable' = [readable EXCEPT ![c] = @ /\ ReadableAfter(c, o)]
        /\ pipe' = PipeAfter(o) /\ misled' = MisledBy(c, o = "broken")
        /\ Interrupts(c)

GetText(c) == /\ Takes(c, "text")
              /\ StreamSource(c)
              /\ UNCHANGED <<life, stateVars, gone, handling, shared>>

\* handleHTTPCmd_notSupported, then the connection ends.
GetUnknown(c) == /\ Takes(c, "unknown")
                 /\ active' = [active EXCEPT ![c] = FALSE]
                 /\ Interrupts(c)
                 /\ UNCHANGED <<life, readable, sink, stateVars, gone, handling,
                                errnoVars, shared>>

\* A segment without a number is refused and the connection goes on.
GetMalformed(c) == /\ Takes(c, "malformed")
                   /\ Interrupts(c)
                   /\ UNCHANGED <<life, active, readable, sink, stateVars, gone,
                                  handling, errnoVars, shared>>

\* getSnapshot has no answer.
GetSnapshot(c) == /\ Takes(c, "snapshot")
                  /\ UNCHANGED <<life, active, readable, sink, stateVars, gone,
                                 handling, errnoVars, cut, shared>>

\* getStreamParameters: one more reference to the state of the stream.
Referenced(s) == [refs EXCEPT ![s] = @ + 1]

GetSegment(c, s) ==
    /\ Takes(c, s)
    /\ token' = [token EXCEPT ![c] = s]
    /\ refs' = Referenced(s)
    /\ sub' = [sub EXCEPT ![c] = s]
    /\ StreamSource(c)
    /\ UNCHANGED <<life, missed, gone, handling, shared>>

MissReferenced(s) == Referenced(s)

\* numBytes is 0: m_StreamToken is set and m_Subsession is not.
MissSegment(c, s) ==
    /\ Takes(c, s)
    /\ token' = [token EXCEPT ![c] = s]
    /\ refs' = MissReferenced(s)
    /\ missed' = [missed EXCEPT ![s] = TRUE]
    /\ active' = [active EXCEPT ![c] = FALSE]
    /\ Interrupts(c)
    /\ UNCHANGED <<life, readable, sink, sub, gone, handling, errnoVars, shared>>

\* The end of the handler: a connection that is not active is deleted.
EndRequests(c) ==
    /\ handling = c /\ todo = <<>>
    /\ handling' = None
    /\ IF active[c] THEN UNCHANGED <<life, readable, stateVars, cut>>
                    ELSE Delete(c)
    /\ UNCHANGED <<active, sink, gone, todo, errnoVars, shared>>

Handle(c) == \/ GetText(c) \/ GetUnknown(c) \/ GetMalformed(c)
             \/ GetSnapshot(c) \/ EndRequests(c)
             \/ \E s \in Streams : GetSegment(c, s) \/ MissSegment(c, s)

Next == \/ OtherCalls
        \/ \E c \in Conns :
               \/ Accept(c) \/ ClientLeaves(c) \/ ReadRequests(c) \/ ReadEnd(c)
               \/ BodyOver(c) \/ BodyBroken(c) \/ Handle(c)

Spec == Init /\ [][Next]_vars

-----------------------------------------------------------------------------
(* Properties. *)

ConnectionTypes ==
    /\ life \in [Conns -> {"new", "open", "deleted"}]
    /\ active \in [Conns -> BOOLEAN] /\ readable \in [Conns -> BOOLEAN]
    /\ sink \in [Conns -> {"none", "sending", "broken", "done"}]
    /\ sub \in [Conns -> Streams \cup {None}]
    /\ token \in [Conns -> Streams \cup {None}]
    /\ gone \in [Conns -> BOOLEAN]
    /\ handling \in Conns \cup {None} /\ todo \in Seq(Requests)
    /\ cut \in [Conns -> BOOLEAN] /\ shared \in [Conns -> BOOLEAN]
    /\ pipe \in BOOLEAN /\ misled \in [Conns -> BOOLEAN]
    /\ missed \in [Streams -> BOOLEAN]

\* No reference to the state of a stream is given back twice.
TypeOK == ConnectionTypes /\ refs \in [Streams -> Nat]

\* Its requests were read one by one, and no body of it was given up by an
\* errno that was not its own.
Regular(c) == ~shared[c] /\ ~misled[c]

\* No response is interrupted, by another one or by the end of its connection,
\* unless its request came in one read with another or a body of the connection
\* was given up: once a body waits for the socket, no request can arrive until
\* it is over.
ResponsesWhole == \A c \in Conns : cut[c] => ~Regular(c)

\* The connections that will give a reference to the state of s back.
Holders(s) == {c \in Conns : sub[c] # None /\ token[c] = s}

\* The state of a stream lives while a connection will give it back, and it is
\* kept for longer only where a segment was missing or a second request took
\* the place of the first, in one read or after a body that was given up: on
\* these paths the code loses the reference.
ReferencesCounted ==
    \A s \in Streams :
        /\ refs[s] >= Cardinality(Holders(s))
        /\ refs[s] > Cardinality(Holders(s)) =>
              missed[s] \/ \E c \in Conns : ~Regular(c)

\* The references to the state of a stream are neither lost, but for the paths
\* above, nor given back twice.
ReferencesTrue == TypeOK /\ ReferencesCounted

\* A connection that is left to itself has something to call it again: the
\* handler that reads requests or the body that waits for the socket.  What
\* leaves it with neither is a client that leaves in the middle of a body, and
\* a client that stays, whose part of a body was sent while errno still said
\* EPIPE of another socket; nothing else does.
NotForgotten ==
    \A c \in Conns : life[c] = "open" /\ handling # c =>
        \/ readable[c] \/ sink[c] = "sending"
        \/ sink[c] = "broken" /\ (gone[c] \/ misled[c])

=============================================================================
