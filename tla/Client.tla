------------------------------- MODULE Client -------------------------------
(***************************************************************************)
(* The client: a goroutine for every SOCKS connection (HandleConnection in *)
(* socks5_controller.go), which builds a circuit and opens one stream on   *)
(* it, and a recvLoop for every circuit.  All of them share the counter of *)
(* the stream identifiers and the stream manager, which finds a connection *)
(* by its stream identifier alone.  A circuit has the name of the          *)
(* connection it was built for, and a name is given to another connection  *)
(* when handler and loop are through.  Circuit says what goes on inside a  *)
(* circuit; here its far end is an environment that may reply, end the     *)
(* stream or be lost.                                                      *)
(*                                                                         *)
(* An operator marked "mistake" is the one after it with a plausible bug.  *)
(***************************************************************************)
EXTENDS RelaySelection

CONSTANTS
  Conns,      \* SOCKS connections
  NoConn,     \* the end of a connection that nobody closed, an unused identifier
  Limit,      \* the largest stream identifier, 0xFFFF in the code
  Directory,  \* identifiers of the relays, as the directory lists them
  Services,   \* hidden services, as the directory lists them
  Hosts,      \* what applications ask for
  HopCount,   \* the flag -hops
  MaxStreams  \* bound: no connection is accepted once so many streams were opened

ASSUME ClientAssumption == NoConn \notin Conns /\ Limit \in Nat \ {0} /\ MaxStreams \in Nat

\* The directory is two JSON lists; nothing keeps it from listing something twice.
ASSUME DirectoryAssumption ==
  /\ Directory \in Seq(Range(Directory)) /\ Services \in Seq(Range(Services))
  /\ \A i \in DOMAIN Services : LET a == Services[i].address IN
       a \in [name : {a.name}, upper : BOOLEAN, ptor : BOOLEAN]
  /\ HopCount \in Int

VARIABLES
  pc,       \* where HandleConnection is
  exitID,    \* the exit that the request needs, while the circuit is being built
  link,     \* the circuit's connection; "bye" once the control END is written
  peer,     \* the stream at the exit
  rx,       \* recvLoop
  active,   \* the circuit's stream is not closed
  sock,     \* who closed the SOCKS connection
  crossed,  \* <<c, d>>: a reply on circuit c was written to another connection d
  mgr,      \* the stream manager
  counter,  \* streamCounter
  sid,      \* the identifier of the stream, 0 before there is one
  handed,   \* all identifiers in the order in which NewStreamIDAuto returned them
  raced     \* it was called while another call was between its Add and its Store

circuit == <<exitID, link, peer, rx>>
ids     == <<counter, sid, handed, raced>>
vars    == <<pc, circuit, active, sock, crossed, mgr, ids>>

StreamIDs == 1..Limit
Relays    == LoadRelays(Directory)

Init ==
  /\ pc = [c \in Conns |-> "done"]
  /\ exitID = [c \in Conns |-> NoRelay] /\ crossed = {}
  /\ link = [c \in Conns |-> "none"] /\ peer = [c \in Conns |-> "idle"]
  /\ rx = [c \in Conns |-> "off"] /\ active = [c \in Conns |-> FALSE]
  /\ sock = [c \in Conns |-> c]
  /\ mgr = [i \in StreamIDs |-> NoConn]
  /\ counter = 0 /\ sid = [c \in Conns |-> 0] /\ handed = <<>> /\ raced = FALSE

Go(c, from, to) == pc[c] = from /\ pc' = [pc EXCEPT ![c] = to]

\* A write to the circuit fails only if its connection is lost; it may succeed even then.
Written(c, ok) == ok \/ link[c] = "down"
-----------------------------------------------------------------------------
(***************************************************************************)
(* The stream manager.  What is closed stays closed by whom it was first.  *)
(***************************************************************************)
\* Mistake: forget the connections without closing them.
KeepOpen(S, c) == sock
\* c closes the SOCKS connections S.
Closed(S, c) == [d \in Conns |-> IF d \in S /\ sock[d] = NoConn THEN c ELSE sock[d]]

\* Mistake: close the connection and leave the entry.
DropKeeps(i, c) == sock' = Closed({mgr[i]}, c) /\ mgr' = mgr
Drop(i, c) ==
  /\ sock' = Closed({mgr[i]}, c)
  /\ mgr' = [mgr EXCEPT ![i] = NoConn]

CloseAll(c) ==
  /\ sock' = Closed({ mgr[i] : i \in StreamIDs }, c)
  /\ mgr' = [i \in StreamIDs |-> NoConn]

\* Mistake: the end of one stream is taken for the end of all.
EndAll(c) == CloseAll(c)
\* What recvLoop does about the END of its circuit's stream.
EndStream(c) == Drop(sid[c], c)
-----------------------------------------------------------------------------
(***************************************************************************)
(* HandleConnection.                                                       *)
(***************************************************************************)
\* The accept loop takes a connection and starts its handler.
Accept(c) ==
  /\ Go(c, "done", "socks") /\ rx[c] # "run"
  /\ \A d \in Conns \ {c} : sock[d] = c => pc[d] = "done"
  /\ Len(handed) < MaxStreams
  /\ link' = [link EXCEPT ![c] = "none"] /\ peer' = [peer EXCEPT ![c] = "idle"]
  /\ rx' = [rx EXCEPT ![c] = "off"]
  /\ sock' = [sock EXCEPT ![c] = NoConn] /\ sid' = [sid EXCEPT ![c] = 0]
  /\ crossed' = { p \in crossed : c \notin {p[1], p[2]} }
  /\ UNCHANGED <<exitID, active, mgr, counter, handed, raced>>

\* The application asks for a host that can be resolved.
Request(c) ==
  /\ Go(c, "socks", "build")
  /\ \E h \in Hosts : /\ Resolves(Services, h)
                      /\ exitID' = [exitID EXCEPT ![c] = ExitOf(Services, h)]
  /\ UNCHANGED <<link, peer, rx, active, sock, crossed, mgr, ids>>

\* It breaks off, or asks for something unsupported or an unknown hidden service.
BadRequest(c) ==
  /\ Go(c, "socks", "shut")
  /\ UNCHANGED <<circuit, active, sock, crossed, mgr, ids>>

\* The circuit is built and saved, and its recvLoop started.
Build(c) ==
  /\ Go(c, "build", IF exitID[c] = NoRelay THEN "open" ELSE "connect")
  /\ Routes(Relays, HopCount, exitID[c]) # {}
  /\ exitID' = [exitID EXCEPT ![c] = NoRelay]
  /\ link' = [link EXCEPT ![c] = "up"]
  /\ rx' = [rx EXCEPT ![c] = "run"]
  /\ UNCHANGED <<peer, active, sock, crossed, mgr, ids>>

\* There are not enough relays, or the construction failed.
BuildFails(c) ==
  /\ Go(c, "build", "shut")
  /\ exitID' = [exitID EXCEPT ![c] = NoRelay]
  /\ UNCHANGED <<link, peer, rx, active, sock, crossed, mgr, ids>>

SendConnect(c) ==
  /\ \E ok \in BOOLEAN : Written(c, ok) /\ Go(c, "connect", IF ok THEN "open" ELSE "shut")
  /\ UNCHANGED <<circuit, active, sock, crossed, mgr, ids>>

Return(c, i) ==
  /\ sid' = [sid EXCEPT ![c] = i]
  /\ handed' = Append(handed, i)
  /\ active' = [active EXCEPT ![c] = TRUE]

\* Mistake: the first number past the limit is still handed out.
PastLimitLate(v) == v > Limit + 1
\* Mistake: the limit itself counts as past it.
PastLimitEarly(v) == v >= Limit
PastLimit(v) == v > Limit

\* OpenStream: the atomic Add of NewStreamIDAuto.
OpenStream(c) ==
  LET v == counter + 1
  IN  /\ counter' = v
      /\ raced' = (raced \/ \E d \in Conns : pc[d] = "wrap")
      /\ \/ /\ ~PastLimit(v) /\ Go(c, "open", "add") /\ Return(c, v)
         \/ /\ PastLimit(v) /\ Go(c, "open", "wrap")
            /\ UNCHANGED <<sid, handed, active>>
      /\ UNCHANGED <<circuit, sock, crossed, mgr>>

\* Mistake: start again where the counter started.
StoredZero == 0
\* What it stores if the counter has passed the limit.
Stored == 1

WrapCounter(c) ==
  /\ Go(c, "wrap", "add")
  /\ counter' = Stored /\ Return(c, 1)
  /\ UNCHANGED <<circuit, sock, crossed, mgr, raced>>

Register(c) ==
  /\ Go(c, "add", "begin")
  /\ mgr' = [mgr EXCEPT ![sid[c]] = c]
  /\ UNCHANGED <<circuit, active, sock, crossed, ids>>

\* BEGIN, and the success reply to the application.
SendBegin(c) ==
  /\ \E ok \in BOOLEAN :
        /\ Written(c, ok) /\ Go(c, "begin", IF ok THEN "relay" ELSE "remove")
        /\ peer' = [peer EXCEPT ![c] = IF ok /\ link[c] = "up" THEN "live" ELSE @]
  /\ UNCHANGED <<exitID, link, rx, active, sock, crossed, mgr, ids>>

\* The application has closed its end: HandleEnd closes the stream.
ReadEOF(c) ==
  /\ sock[c] = NoConn
  /\ Go(c, "relay", "close")
  /\ active' = [active EXCEPT ![c] = FALSE]
  /\ UNCHANGED <<circuit, sock, crossed, mgr, ids>>

\* Chunks that are sent change nothing here.  One may be too large for a cell or be refused,
\* and the SOCKS connection may be reset, or closed by another goroutine.
StopRelaying(c) ==
  /\ Go(c, "relay", "close")
  /\ UNCHANGED <<circuit, active, sock, crossed, mgr, ids>>

\* Mistake: the control END is left to whoever saw the application close.
LastStreamIfEOF(c) == ~active[c]
\* CloseStream has closed the circuit's only stream, so that none is active any more.
LastStream(c) == ~active'[c]

\* END of the stream, and the control END after the last stream.
CloseStream(c) ==
  /\ Go(c, "close", "remove")
  /\ active' = [active EXCEPT ![c] = FALSE]
  /\ link' = [link EXCEPT ![c] = IF @ = "up" /\ LastStream(c) THEN "bye" ELSE @]
  /\ UNCHANGED <<exitID, peer, rx, sock, crossed, mgr, ids>>

\* The deferred Remove of setupStreamAndRelay.
Deregister(c) ==
  /\ Go(c, "remove", "shut")
  /\ Drop(sid[c], c)
  /\ UNCHANGED <<circuit, active, crossed, ids>>

\* The deferred Close of HandleConnection.
Finish(c) ==
  /\ Go(c, "shut", "done")
  /\ sock' = Closed({c}, c)
  /\ UNCHANGED <<circuit, active, crossed, mgr, ids>>
-----------------------------------------------------------------------------
(***************************************************************************)
(* recvLoop.  Get and the Write after it are one step: a connection that is*)
(* removed in between is closed, and the chunk is lost as if Get had missed*)
(* it.                                                                     *)
(***************************************************************************)
RecvData(c) ==
  /\ rx[c] = "run" /\ peer[c] = "live"
  /\ LET d == mgr[sid[c]]
     IN  /\ d # NoConn
         /\ crossed' = IF d = c THEN crossed ELSE crossed \union {<<c, d>>}
  /\ UNCHANGED <<pc, circuit, active, sock, mgr, ids>>

RecvEnd(c) ==
  /\ rx[c] = "run" /\ peer[c] = "live"
  /\ peer' = [peer EXCEPT ![c] = "ended"]
  /\ EndStream(c)
  /\ UNCHANGED <<pc, exitID, link, rx, active, crossed, ids>>

\* The loop ends: at the end of the connection, at DESTROY, at an END for all streams,
\* or at a cell that cannot be read or opened.
RecvLast(c) ==
  /\ rx[c] = "run"
  /\ rx' = [rx EXCEPT ![c] = "done"]
  /\ CloseAll(c)
  /\ UNCHANGED <<pc, exitID, link, peer, active, crossed, ids>>

\* The relay closes the circuit's connection, or it is lost.
LinkLost(c) ==
  /\ link[c] \in {"up", "bye"}
  /\ link' = [link EXCEPT ![c] = "down"]
  /\ UNCHANGED <<pc, exitID, peer, rx, active, sock, crossed, mgr, ids>>
-----------------------------------------------------------------------------
\* What a handler does on its own, once the application has asked for something.
Handle(c) ==
  \/ Build(c) \/ BuildFails(c) \/ SendConnect(c) \/ OpenStream(c) \/ WrapCounter(c)
  \/ Register(c) \/ SendBegin(c) \/ CloseStream(c) \/ Deregister(c) \/ Finish(c)

Next ==
  \E c \in Conns :
    \/ Accept(c) \/ Request(c) \/ BadRequest(c) \/ Handle(c)
    \/ ReadEOF(c) \/ StopRelaying(c) \/ RecvData(c) \/ RecvEnd(c) \/ RecvLast(c) \/ LinkLost(c)

Spec == Init /\ [][Next]_vars

\* Goroutines that can run do; a loop notices that its connection is lost, a handler
\* that its SOCKS connection is closed.
Fairness ==
  \A c \in Conns :
    /\ WF_vars(Handle(c))
    /\ WF_vars(sock[c] # NoConn /\ StopRelaying(c))
    /\ WF_vars(link[c] = "down" /\ RecvLast(c))

FairSpec == Spec /\ Fairness
-----------------------------------------------------------------------------
Phases == {"socks", "build", "connect", "open", "wrap", "add", "begin", "relay",
           "close", "remove", "shut", "done"}
Returned   == {"shut", "done"}
\* Between Add and the deferred Remove.
Registered == {"begin", "relay", "close", "remove"}

\* Every variable has its type; a stream identifier is never 0 and fits its 16 bits.
TypeOK ==
  /\ pc \in [Conns -> Phases]
  /\ link \in [Conns -> {"none", "up", "bye", "down"}]
  /\ peer \in [Conns -> {"idle", "live", "ended"}]
  /\ rx \in [Conns -> {"off", "run", "done"}]
  /\ active \in [Conns -> BOOLEAN]
  /\ sock \in [Conns -> Conns \union {NoConn}]
  /\ crossed \subseteq Conns \X Conns
  /\ mgr \in [StreamIDs -> Conns \union {NoConn}]
  /\ counter \in Nat /\ sid \in [Conns -> StreamIDs \union {0}]
  /\ handed \in Seq(StreamIDs) /\ raced \in BOOLEAN

\* The identifiers have not come round yet.
FirstRound == Len(handed) <= Limit

\* The stream manager and the handlers agree (stream_manager_service.go,
\* socks5_controller.go:171-172): an entry is a connection that is open, under the
\* identifier of its stream, and its handler has yet to remove it; and as long as the
\* identifiers have not come round, every connection that is open is found.
Agreement ==
  /\ \A i \in StreamIDs : LET c == mgr[i] IN
       c # NoConn => sid[c] = i /\ pc[c] \in Registered /\ sock[c] = NoConn
  /\ FirstRound => \A c \in Conns :
       pc[c] \in Registered /\ sock[c] = NoConn => mgr[sid[c]] = c

\* A reply goes to the application that asked (socks5_controller.go:287), unless the
\* identifiers have come round and both streams have the same one.
OwnData == \A p \in crossed : sid[p[1]] = sid[p[2]] /\ ~FirstRound

\* A connection is closed on behalf of another circuit only by that one's loop as it ends
\* (CloseAll at socks5_controller.go:258-281), or because both streams have one identifier.
OwnClose ==
  \A d \in Conns : LET c == sock[d] IN
    c \notin {NoConn, d} /\ pc[d] # "done" => rx[c] = "done" \/ (sid[c] = sid[d] /\ ~FirstRound)

\* When a handler has returned the relays know: whatever made it return, the control END is
\* written, or the circuit's connection is lost (close_stream_usecase.go:51-81).
Farewell == \A c \in Conns :
  pc[c] \in Returned /\ link[c] # "none" => link[c] \in {"bye", "down"}

\* Calls of NewStreamIDAuto that do not meet at the limit return every identifier once in a
\* round (stream_id.go:12-21).
RoundUnique ==
  ~raced => \A i, j \in DOMAIN handed : i < j /\ j - i < Limit => handed[i] # handed[j]

\* A directory that lists no relay and no hidden service twice, and no more relays than a
\* shuffle with two random bytes for each can bring to any place.
Consistent ==
  /\ ListedOnce(Relays) /\ Len(Directory) <= Draws
  /\ IsInjective([i \in DOMAIN Services |-> Lower(Services[i].address)])

\* The first relays of the directory, any of which may have gone offline.
Repositories ==
  UNION { { [i \in 1..n |-> Relay(Directory[i], on[i])] : on \in [1..n -> BOOLEAN] }
          : n \in 0..Len(Directory) }

RoutesExact ==
  \A relays \in Repositories, n \in -1..Len(Directory) + 1,
     last \in {NoRelay} \union Range(Directory)
             \union { Services[i].relay : i \in DOMAIN Services } :
    Routes(relays, n, last) = ProperRoutes(relays, n, last)

\* The hidden services that are listed, asked for with and without capitals.
ServicesFound ==
  \A i \in DOMAIN Services, upper \in BOOLEAN :
    LET h == [Services[i].address EXCEPT !.upper = upper]
    IN  h.ptor => Resolves(Services, h) /\ ExitOf(Services, h) = Services[i].relay

\* If the directory is consistent, build selects exactly the choices of distinct online
\* relays that end with the exit it was given: every one of them can come up, nothing else
\* can, and it returns an error only if there is none (build_circuit_usecase.go:91-146,
\* 267-277).  The exit is the relay of the hidden service that was asked for, in whatever
\* case of letters; it may be one that the directory does not list.
SelectionExact ==
  Consistent =>
    /\ RoutesExact /\ ServicesFound
    /\ \A c \in Conns : pc[c] = "build" =>
         Routes(Relays, HopCount, exitID[c]) = ProperRoutes(Relays, HopCount, exitID[c])

\* A circuit that is lost while its loop runs takes the handler of its connection with it
\* (socks5_controller.go:258, 227): the application is told, and no goroutine stays behind.
LossEndsHandler == \A c \in Conns :
  (link[c] = "down" /\ rx[c] = "run" /\ pc[c] \in Registered)
    ~> (pc[c] = "done" \/ ~FirstRound)
=============================================================================
