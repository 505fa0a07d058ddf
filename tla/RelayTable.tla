----------------------------- MODULE RelayTable -----------------------------
(***************************************************************************)
(* The table of a relay (conn_state_repository.go) that is the last one of *)
(* several circuits: an entry for every circuit, the connections to the    *)
(* targets of its streams, and gc, which takes away entries that were not  *)
(* used for the TTL.  Every circuit has a ServeConn goroutine on the       *)
(* connection towards its client, which waits while it dials, and every    *)
(* stream a forwardUpstream.  Circuit says what the cells carry and what   *)
(* the other relays do with them.                                          *)
(*                                                                         *)
(* An operator marked "mistake" is the one after it with a plausible bug.  *)
(***************************************************************************)
EXTENDS Integers

CONSTANTS
  Circuits,  \* circuits that end at this relay
  Streams,   \* stream identifiers
  HalfTTL,   \* half of the flag -ttl
  Second     \* one second, the shortest interval of gc, in the same unit

ASSUME TableAssumption == HalfTTL \in Nat /\ Second \in Nat \ {0}

VARIABLES
  entry,    \* m: the circuit's entry, and whether CONNECT made it a hidden service's
  age,      \* the time since the entry's LastUsed
  streams,  \* r.streams: the identifiers that have a connection there
  timer,    \* the time to the next sweep of gc
  up,       \* the connection towards the client; "gone" if only the other end is closed
  serve,    \* where the ServeConn goroutine is, and the cell it has
  reader,   \* the streams that have a forwardUpstream
  target,   \* the connections to the targets
  service,  \* the connection to the hidden service
  served,   \* it has a ServeConn goroutine, too
  stage,    \* how far the client is, and whether its last END was handled
  spoken,   \* which streams the client has opened, and ended
  quiet     \* the time since a cell of the circuit came, or forwardUpstream sent one

table == <<entry, age, streams>>
conns == <<up, target, service>>
sent  == <<stage, spoken>>
vars  == <<table, conns, sent, timer, serve, reader, served, quiet>>

TTL == 2 * HalfTTL
\* Mistake: a sweep every TTL.
IntervalTTL == TTL
Interval == IF HalfTTL < Second THEN Second ELSE HalfTTL

Off  == <<"off">>
Read == <<"read">>

Init ==
  /\ entry = [c \in Circuits |-> "none"] /\ age = [c \in Circuits |-> 0]
  /\ streams = [c \in Circuits |-> {}] /\ timer = Interval
  /\ up = [c \in Circuits |-> "unused"]
  /\ serve = [c \in Circuits |-> Off] /\ reader = [c \in Circuits |-> {}]
  /\ target = [c \in Circuits |-> [s \in Streams |-> "none"]]
  /\ service = [c \in Circuits |-> "none"] /\ served = [c \in Circuits |-> FALSE]
  /\ stage = [c \in Circuits |-> "new"]
  /\ spoken = [c \in Circuits |-> [s \in Streams |-> "no"]]
  /\ quiet = [c \in Circuits |-> 0]
-----------------------------------------------------------------------------
(***************************************************************************)
(* The operations of the table.  Each holds its lock throughout.           *)
(***************************************************************************)
Touched(c) == [age EXCEPT ![c] = 0]

Found(c) ==
  /\ entry[c] # "none"
  /\ age' = Touched(c) /\ quiet' = [quiet EXCEPT ![c] = 0]

Add(c, kind) ==
  /\ entry' = [entry EXCEPT ![c] = kind]
  /\ age' = [age EXCEPT ![c] = 0] /\ quiet' = [quiet EXCEPT ![c] = 0]

\* Mistake: close what leads away from the client only.
CloseDown(C) ==
  /\ up' = up
  /\ service' = [c \in Circuits |-> IF c \in C /\ service[c] # "none" THEN "closed" ELSE service[c]]
\* ConnState.Close of the entries of C.
Close(C) ==
  /\ up' = [c \in Circuits |-> IF c \in C THEN "closed" ELSE up[c]]
  /\ service' = [c \in Circuits |-> IF c \in C /\ service[c] # "none" THEN "closed" ELSE service[c]]

\* Their LastUsed goes with them.
Forget(C) ==
  /\ entry' = [c \in Circuits |-> IF c \in C THEN "none" ELSE entry[c]]
  /\ age' = [c \in Circuits |-> IF c \in C THEN 0 ELSE age[c]]
  /\ quiet' = [c \in Circuits |-> IF c \in C THEN 0 ELSE quiet[c]]

AddStream(c, s) ==
  /\ streams' = [streams EXCEPT ![c] = @ \union {s}]
  /\ target' = [target EXCEPT ![c][s] = "open"]

\* Mistake: close the connection and leave it in the table.
RemoveKeeps(c, s) ==
  /\ streams' = streams
  /\ target' = [target EXCEPT ![c][s] = IF s \in streams[c] THEN "closed" ELSE @]
RemoveStream(c, s) ==
  /\ streams' = [streams EXCEPT ![c] = @ \ {s}]
  /\ target' = [target EXCEPT ![c][s] = IF s \in streams[c] THEN "closed" ELSE @]

\* Mistake: drop the connections without closing them.
DropAllStreams(c) == streams' = [streams EXCEPT ![c] = {}] /\ target' = target
DestroyAllStreams(c) ==
  /\ streams' = [streams EXCEPT ![c] = {}]
  /\ target' = [target EXCEPT ![c] = [s \in Streams |-> IF s \in streams[c] THEN "closed" ELSE @[s]]]

\* Mistake: an entry may be unused for twice the TTL.
ExpiredLate(c) == entry[c] # "none" /\ age[c] > 2 * TTL
Expired(c) == entry[c] # "none" /\ age[c] > TTL

\* A sweep closes and deletes entries.  It leaves their streams alone.
Gc ==
  /\ timer = 0 /\ timer' = Interval
  /\ LET C == { c \in Circuits : Expired(c) } IN Forget(C) /\ Close(C)
  /\ UNCHANGED <<streams, target, serve, reader, served, sent>>

Tick ==
  /\ timer > 0 /\ timer' = timer - 1
  /\ LET Older(a) == [c \in Circuits |-> IF entry[c] = "none" THEN a[c] ELSE a[c] + 1]
     IN  age' = Older(age) /\ quiet' = Older(quiet)
  /\ UNCHANGED <<entry, streams, conns, serve, reader, served, sent>>
-----------------------------------------------------------------------------
(***************************************************************************)
(* The client, the targets and the hidden service.  A circuit's client     *)
(* sends EXTEND, CONNECT or not, then cells of its streams, then END for   *)
(* all of them.                                                            *)
(***************************************************************************)
Accept(c) ==
  /\ up[c] = "unused"
  /\ up' = [up EXCEPT ![c] = "open"] /\ serve' = [serve EXCEPT ![c] = Read]
  /\ UNCHANGED <<table, target, service, sent, timer, reader, served, quiet>>

\* ReadCell: the next cell is <<cmd>>, or <<cmd, s>> for a stream s.
Receive(c) ==
  /\ serve[c] = Read /\ up[c] = "open"
  /\ LET Is(cell)    == serve' = [serve EXCEPT ![c] = cell]
         Stage(x)    == stage' = [stage EXCEPT ![c] = x] /\ spoken' = spoken
         Spoken(s, x) == spoken' = [spoken EXCEPT ![c][s] = x] /\ stage' = stage
     IN  \/ stage[c] = "new" /\ Stage("circuit") /\ Is(<<"EXTEND">>)
         \/ /\ stage[c] = "circuit" /\ \A s \in Streams : spoken[c][s] = "no"
            /\ Stage("hidden") /\ Is(<<"CONNECT">>)
         \/ stage[c] \in {"circuit", "hidden"} /\ Stage("bye") /\ Is(<<"END">>)
         \/ \E s \in Streams :
              /\ stage[c] \in {"circuit", "hidden"}
              /\ \/ spoken[c][s] = "no" /\ Spoken(s, "yes") /\ Is(<<"BEGIN", s>>)
                 \/ spoken[c][s] = "yes" /\ Spoken(s, "yes") /\ Is(<<"DATA", s>>)
                 \/ spoken[c][s] = "yes" /\ Spoken(s, "ended") /\ Is(<<"END", s>>)
  /\ UNCHANGED <<table, conns, timer, reader, served, quiet>>

ClientGone(c) ==
  /\ up[c] = "open" /\ up' = [up EXCEPT ![c] = "gone"]
  /\ UNCHANGED <<table, target, service, sent, timer, serve, reader, served, quiet>>

TargetEnds(c, s) ==
  /\ target[c][s] = "open" /\ target' = [target EXCEPT ![c][s] = "eof"]
  /\ UNCHANGED <<table, up, service, sent, timer, serve, reader, served, quiet>>

ServiceEnds(c) ==
  /\ service[c] = "open" /\ service' = [service EXCEPT ![c] = "eof"]
  /\ UNCHANGED <<table, up, target, sent, timer, serve, reader, served, quiet>>
-----------------------------------------------------------------------------
(***************************************************************************)
(* The ServeConn goroutine.  Between Find and the end of a handler that    *)
(* does not dial gc changes nothing that the handler would notice.         *)
(***************************************************************************)
At(c, cell)   == serve[c] = cell
Goes(c, cell) == serve' = [serve EXCEPT ![c] = cell]

\* Only EXTEND is for a circuit without an entry.
Miss(c) ==
  /\ entry[c] = "none" /\ Goes(c, Read)
  /\ \/ serve[c] \in {<<"CONNECT">>, <<"END">>}
     \/ \E s \in Streams : serve[c] \in {<<"BEGIN", s>>, <<"DATA", s>>, <<"END", s>>}
  /\ UNCHANGED <<table, conns, sent, timer, reader, served, quiet>>

Extend(c) ==
  /\ At(c, <<"EXTEND">>) /\ Goes(c, Read)
  /\ entry[c] = "none" /\ Add(c, "exit")
  /\ UNCHANGED <<streams, conns, sent, timer, reader, served>>

Connect(c) ==
  /\ At(c, <<"CONNECT">>) /\ Goes(c, <<"dial">>)
  /\ Found(c)
  /\ UNCHANGED <<entry, streams, conns, sent, timer, reader, served>>

\* The new entry replaces the old one, which gc may have taken away by now.
Connected(c) ==
  /\ At(c, <<"dial">>) /\ Goes(c, Read)
  /\ Add(c, "hidden") /\ service' = [service EXCEPT ![c] = "open"]
  /\ UNCHANGED <<streams, up, target, sent, timer, reader, served>>

\* The exit dials; a hidden service's connection is there already.
Begin(c, s) ==
  /\ At(c, <<"BEGIN", s>>) /\ Found(c)
  /\ \/ entry[c] = "exit" /\ Goes(c, <<"dial", s>>) /\ reader' = reader
     \/ entry[c] = "hidden" /\ Goes(c, Read) /\ reader' = [reader EXCEPT ![c] = @ \union {s}]
  /\ UNCHANGED <<entry, streams, conns, sent, timer, served>>

Dialled(c, s) ==
  /\ At(c, <<"dial", s>>) /\ Goes(c, <<"ack", s>>)
  /\ AddStream(c, s)
  /\ UNCHANGED <<entry, age, up, service, sent, timer, reader, served, quiet>>

\* If it fails, CONNECT leaves everything as it was, and BEGIN answers DESTROY.
DialFails(c) ==
  /\ serve[c] \in {<<"dial">>} \union { <<"dial", s>> : s \in Streams } /\ Goes(c, Read)
  /\ UNCHANGED <<table, conns, sent, timer, reader, served, quiet>>

\* BEGIN_ACK; without it nobody reads the new connection.
Ack(c, s) ==
  /\ At(c, <<"ack", s>>) /\ Goes(c, Read)
  /\ \/ up[c] # "closed" /\ reader' = [reader EXCEPT ![c] = @ \union {s}]
     \/ up[c] # "open" /\ reader' = reader
  /\ UNCHANGED <<table, conns, sent, timer, served, quiet>>

\* A target that has closed its end may refuse the data.
Data(c, s) ==
  /\ At(c, <<"DATA", s>>) /\ Goes(c, Read) /\ Found(c)
  /\ \/ UNCHANGED <<streams, target>>
     \/ target[c][s] = "eof" /\ RemoveStream(c, s)
  /\ UNCHANGED <<entry, up, service, sent, timer, reader, served>>

\* On a hidden service's circuit ensureServeDown comes with it.
End(c, s) ==
  /\ At(c, <<"END", s>>) /\ Goes(c, Read) /\ Found(c)
  /\ RemoveStream(c, s)
  /\ served' = [served EXCEPT ![c] = @ \/ entry[c] = "hidden"]
  /\ UNCHANGED <<entry, up, service, sent, timer, reader>>

\* END for all streams: DestroyAllStreams and Delete.
EndAll(c) ==
  /\ At(c, <<"END">>) /\ Goes(c, Read)
  /\ entry[c] # "none" /\ DestroyAllStreams(c) /\ Forget({c}) /\ Close({c})
  /\ served' = [served EXCEPT ![c] = @ \/ entry[c] = "hidden"]
  /\ stage' = [stage EXCEPT ![c] = "ended"]
  /\ UNCHANGED <<spoken, timer, reader>>

ServeStop(c) ==
  /\ At(c, Read) /\ Goes(c, Off)
  /\ up[c] # "open" /\ up' = [up EXCEPT ![c] = "closed"]
  /\ UNCHANGED <<table, target, service, sent, timer, reader, served, quiet>>
-----------------------------------------------------------------------------
\* Mistake: forwardUpstream leaves its stream in the table.
LeaveStream(c, s) == UNCHANGED <<streams, target>>
Leave(c, s) == RemoveStream(c, s)

\* The connection that forwardUpstream reads.
Source(c, s) == IF service[c] = "none" THEN target[c][s] ELSE service[c]

\* What forwardUpstream sends takes a nonce, a key and the connection to the client from the
\* ConnState, without a look into the table.
Sends(c) == quiet' = [quiet EXCEPT ![c] = 0]

\* A chunk from there.
Download(c, s) ==
  /\ s \in reader[c] /\ Source(c, s) \in {"open", "eof"} /\ Sends(c)
  /\ UNCHANGED <<table, conns, sent, timer, serve, reader, served>>

\* forwardUpstream has read the end of its connection.
ForwardStop(c, s) ==
  /\ s \in reader[c] /\ reader' = [reader EXCEPT ![c] = @ \ {s}]
  /\ Source(c, s) # "open" /\ Sends(c)
  /\ Leave(c, s)
  /\ service' = [service EXCEPT ![c] = IF @ = "none" THEN @ ELSE "closed"]
  /\ UNCHANGED <<entry, age, up, sent, timer, serve, served>>

\* So has the ServeConn of the service's connection, or it has read what is not a cell.
ServeDownStop(c) ==
  /\ served[c] /\ served' = [served EXCEPT ![c] = FALSE]
  /\ service' = [service EXCEPT ![c] = "closed"]
  /\ UNCHANGED <<table, up, target, sent, timer, serve, reader, quiet>>
-----------------------------------------------------------------------------
ServeConn(c) ==
  \/ Miss(c) \/ Extend(c) \/ Connect(c) \/ Connected(c) \/ DialFails(c) \/ EndAll(c) \/ ServeStop(c)
  \/ \E s \in Streams : Begin(c, s) \/ Dialled(c, s) \/ Ack(c, s) \/ Data(c, s) \/ End(c, s)

Next ==
  \/ Gc \/ Tick
  \/ \E c \in Circuits :
       \/ Accept(c) \/ Receive(c) \/ ClientGone(c) \/ ServeConn(c) \/ ServiceEnds(c) \/ ServeDownStop(c)
       \/ \E s \in Streams : TargetEnds(c, s) \/ Download(c, s) \/ ForwardStop(c, s)

Spec == Init /\ [][Next]_vars

\* Dials and writes return, and goroutines that can run do.
FairSpec ==
  /\ Spec
  /\ \A c \in Circuits :
       /\ WF_vars(ServeConn(c))
       /\ WF_vars(service[c] # "open" /\ ServeDownStop(c))
       /\ \A s \in Streams : WF_vars(ForwardStop(c, s))
-----------------------------------------------------------------------------
Cells ==
  { <<k>> : k \in {"off", "read", "EXTEND", "CONNECT", "dial", "END"} }
  \union ({"BEGIN", "dial", "ack", "DATA", "END"} \X Streams)

\* Every variable has its type, and no entry gets older than the TTL and an interval.
TypeOK ==
  /\ entry \in [Circuits -> {"none", "exit", "hidden"}]
  /\ age \in [Circuits -> 0..TTL + Interval] /\ quiet \in [Circuits -> Nat]
  /\ streams \in [Circuits -> SUBSET Streams] /\ timer \in 0..Interval
  /\ up \in [Circuits -> {"unused", "open", "gone", "closed"}]
  /\ serve \in [Circuits -> Cells] /\ reader \in [Circuits -> SUBSET Streams]
  /\ target \in [Circuits -> [Streams -> {"none", "open", "eof", "closed"}]]
  /\ service \in [Circuits -> {"none", "open", "eof", "closed"}]
  /\ served \in [Circuits -> BOOLEAN]
  /\ stage \in [Circuits -> {"new", "circuit", "hidden", "bye", "ended"}]
  /\ spoken \in [Circuits -> [Streams -> {"no", "yes", "ended"}]]

\* The table has exactly the connections that the relay has not closed, whoever of
\* ServeConn, forwardUpstream and gc came first (conn_state_repository.go:92-157).
TableExact ==
  \A c \in Circuits, s \in Streams : s \in streams[c] <=> target[c][s] \in {"open", "eof"}

\* Somebody reads every connection to a target, unless the client was lost before BEGIN was
\* acknowledged (handle_begin_usecase.go:81-89).
Attended ==
  \A c \in Circuits : \A s \in streams[c] :
    s \in reader[c] \/ serve[c] = <<"ack", s>> \/ up[c] # "open"

\* A client whose circuit the relay has forgotten finds its connection closed instead of being
\* ignored (relay_handler.go:79-89, conn_state.go:115).
Disconnected ==
  \A c \in Circuits :
    entry[c] = "none" /\ stage[c] # "new" /\ serve[c] # <<"EXTEND">> => up[c] = "closed"

\* The entry of a circuit without traffic is gone half a TTL after the TTL, or a second if that is
\* longer (conn_state_repository.go:72-88), even one that CONNECT put back after gc took it away.
Swept ==
  \A c \in Circuits :
    entry[c] # "none" => quiet[c] <= TTL + HalfTTL \/ quiet[c] <= TTL + Second

Released(c) ==
  /\ serve[c] = Off /\ reader[c] = {} /\ streams[c] = {}
  /\ ~served[c] /\ service[c] \in {"none", "closed"}
  /\ \A s \in Streams : target[c][s] \in {"none", "closed"}

\* The END for all streams ends every goroutine and connection of the circuit at this relay
\* (handle_endstream_usecase.go:42-50).
EndReleases == \A c \in Circuits : stage[c] = "ended" ~> Released(c)

\* The automatic cleanup (conn_state_repository.go:20): when gc has taken an entry away
\* nothing of its circuit stays.
CleanupReleases ==
  \A c \in Circuits : entry[c] = "none" /\ stage[c] = "circuit" /\ serve[c] = Off ~> Released(c)
=============================================================================
