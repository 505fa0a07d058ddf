------------------------------- MODULE Circuit -------------------------------
(***************************************************************************)
(* One established circuit of go-ptor, from the client's SOCKS connection  *)
(* through relays 1..N to the target: the client's request handler and its *)
(* receive loop (cmd/client), the relays' ServeConn goroutines with every  *)
(* cell handler (cmd/relay), the exit's forwardUpstream goroutine, and the *)
(* TCP connections between them.  The client opens one stream per circuit  *)
(* (socks5_controller.go:139-177), so the stream is not indexed.           *)
(*                                                                         *)
(* Connection i joins node i-1 (the client is node 0) and relay i.  A cell *)
(* is one Write of 528 bytes and is read whole.  Encryption is symbolic: a *)
(* layer is a pair of a hop's key and the counter behind its nonce, and    *)
(* AESOpen succeeds exactly when the outermost layer carries the opener's  *)
(* key and counter.                                                        *)
(*                                                                         *)
(* A relay has up to two ServeConn goroutines on one ConnState, side "up"  *)
(* for the connection towards the client and side "down" for the other     *)
(* one, and its handlers do not look at the side a cell came from.  Their  *)
(* unsynchronised counters are read in one step and written in a later one.*)
(*                                                                         *)
(* An operator marked "mistake" is the one after it with a plausible bug;  *)
(* PROJECT.json names the property that breaks when it takes its place.    *)
(***************************************************************************)
EXTENDS Chunks, Integers, Sequences

CONSTANTS
  N,           \* number of hops; relay N is the exit
  Hidden,      \* whether the circuit is for a .ptor address
  MaxSent,     \* bound: chunks the application sends
  MaxReplied,  \* bound: chunks the target sends
  Rooms,       \* the sizes of chunks, as layers that still fit into a cell
  Expiry,      \* whether the relays' gc may find an entry unused for its TTL
  Resets       \* whether closing a connection may discard what is in flight

ASSUME CircuitAssumption ==
  /\ N \in Nat \ {0}
  /\ {Hidden, Expiry, Resets} \subseteq BOOLEAN
  /\ {MaxSent, MaxReplied} \subseteq Nat
  /\ Rooms \subseteq Nat

VARIABLES
  dn, up,            \* cells in flight on connection i, away from and towards the client
  topShut, botShut,  \* the end of connection i held by node i-1, by relay i, is closed
  table,             \* relays whose repository has the circuit's ConnState
  st,                \* the ConnState of relay i
  serve,             \* the ServeConn goroutine of relay i on a side
  job,               \* what that goroutine is in the middle of
  strm,              \* the exit's repository has the stream
  tgt,               \* the exit's connection to the target: none or refused; open; closed
                     \* by the target only (eof), by it and the exit (gone), by the exit (shut)
  fwd,               \* the exit's forwardUpstream goroutine
  phase,             \* where the client's handler is in setupStreamAndRelay
  sock,              \* the SOCKS connection
  reg,               \* the stream manager has the SOCKS connection
  rx,                \* the client's recvLoop
  ctr,               \* the client's counters
  sent, delivered, replied, received,  \* the streams, as in OrderedStream
  tainted            \* a cell was written into the target's byte stream

wires  == <<dn, up, topShut, botShut>>
relays == <<table, st, serve, job>>
exit   == <<strm, tgt, fwd>>
client == <<phase, sock, reg, rx, ctr>>
hist   == <<sent, delivered, replied, received, tainted>>
vars   == <<wires, relays, exit, client, hist>>

Hops  == 1..N
Sides == {"up", "down"}
-----------------------------------------------------------------------------
(***************************************************************************)
(* Cells and layers of encryption.                                         *)
(***************************************************************************)
Layer == [hop : Hops, ctr : Nat]

\* mistake: the layers in the order of sealing
OnionInside(h, c) == [j \in 1 .. N - h + 1 |-> [hop |-> N - j + 1, ctr |-> c]]
\* What AESMultiSeal leaves of a cell sealed with counter c when it reaches hop h.
Onion(h, c) == [j \in 1 .. N - h + 1 |-> [hop |-> h + j - 1, ctr |-> c]]

Cmd == {"CONNECT", "BEGIN", "BEGIN_ACK", "DATA", "END", "DESTROY"}

\* sid 0 is the reserved stream id of a control END; the circuit's stream is 1.
Cell == [cmd : Cmd, sid : {0, 1}, layers : Seq(Layer), body : Chunk, room : Nat]

Sealed(cmd, layers, body, room) ==
  [cmd |-> cmd, sid |-> 1, layers |-> layers, body |-> body, room |-> room]
Control(cmd, sid) ==
  [cmd |-> cmd, sid |-> sid, layers |-> <<>>, body |-> Cipher, room |-> 0]

Opens(c, h, n) == c.layers # <<>> /\ Head(c.layers) = [hop |-> h, ctr |-> n]
Peel(c)        == [c EXCEPT !.layers = Tail(@)]
Seal(c, h, n)  == [c EXCEPT !.layers = <<[hop |-> h, ctr |-> n]>> \o @]

\* mistake: >= for >
FitsStrictly(c) == Len(c.layers) < c.room
\* Encode refuses a payload of more than MaxPayloadSize bytes.
Fits(c) == Len(c.layers) <= c.room

\* The payload of a cell once its n outer layers are open.
Text(c, n) == IF Len(c.layers) = n THEN c.body ELSE Cipher

Idle == [pc |-> "read", cell |-> Control("END", 1), nonce |-> 0]
Job  == [pc : {"read", "dial", "open", "seal", "send"}, cell : Cell, nonce : Nat]

ConnState == [begin : Nat, data : Nat, updata : Nat, hidden : BOOLEAN, served : BOOLEAN]

\* mistake: no increment; a decrement
NotBumped(n, now)  == {n}
BumpedDown(n, now) == {n - 1}
\* counter++ by a goroutine that read n earlier, without a lock: the value it
\* adds one to is any the counter had since.
Bumped(n, now) == IF n <= now THEN n + 1 .. now + 1 ELSE now + 1 .. n + 1
-----------------------------------------------------------------------------
(***************************************************************************)
(* Connections.  Writing to a connection whose either end is closed loses  *)
(* the cell; the write fails if the writer's own end is closed, and may or *)
(* may not fail if only the other end is.                                  *)
(***************************************************************************)
PutDown(D, i, c) ==
  IF topShut[i+1] \/ botShut[i+1] THEN D ELSE [D EXCEPT ![i+1] = Append(@, c)]
PutUp(U, i, c) ==
  IF topShut[i] \/ botShut[i] THEN U ELSE [U EXCEPT ![i] = Append(@, c)]

MayReturn(ok, mine, other) == (ok => ~mine) /\ (~ok => mine \/ other)

Inbox(i, s)    == IF s = "up" THEN dn[i] ELSE up[i+1]
OwnShut(i, s)  == IF s = "up" THEN botShut[i] ELSE topShut[i+1]
PeerShut(i, s) == IF s = "up" THEN topShut[i] ELSE botShut[i+1]

\* The connections once the goroutine of relay i on side s has read a cell.
DnRead(i, s) == IF s = "up" THEN [dn EXCEPT ![i] = Tail(@)] ELSE dn
UpRead(i, s) == IF s = "up" THEN up ELSE [up EXCEPT ![i+1] = Tail(@)]

\* ConnState.Close of relay i, on connections holding D and U: what the relay
\* has not read yet is never read.  That includes a cell it has read but for which
\* HandleCell has yet to find the ConnState: it finds none, and the cell is lost.
Close(i, D, U) ==
  /\ botShut' = [botShut EXCEPT ![i] = TRUE]
  /\ topShut' = [j \in Hops |-> topShut[j] \/ j = i + 1]
  /\ dn' = [D EXCEPT ![i] = <<>>]
  /\ up' = [j \in Hops |-> IF j = i + 1 THEN <<>> ELSE U[j]]
-----------------------------------------------------------------------------
(***************************************************************************)
(* The circuit as BuildCircuitUseCase and the EXTENDs leave it.            *)
(***************************************************************************)
Init ==
  /\ dn = [i \in Hops |-> <<>>] /\ up = [i \in Hops |-> <<>>]
  /\ topShut = [i \in Hops |-> FALSE] /\ botShut = [i \in Hops |-> FALSE]
  /\ table = Hops
  /\ st = [i \in Hops |->
             [begin |-> 0, data |-> 0, updata |-> 0, hidden |-> FALSE, served |-> FALSE]]
  /\ serve = [i \in Hops |-> [s \in Sides |-> IF s = "up" THEN "run" ELSE "off"]]
  /\ job = [i \in Hops |-> [s \in Sides |-> Idle]]
  /\ strm = FALSE /\ tgt = "none" /\ fwd = [pc |-> "off", no |-> 0, room |-> 0, nonce |-> 0]
  /\ phase = IF Hidden THEN "connect" ELSE "open"
  /\ sock = "open" /\ reg = FALSE /\ rx = "run"
  /\ ctr = [begin |-> 0, data |-> 0, up |-> 0]
  /\ sent = 0 /\ delivered = <<>> /\ replied = 0 /\ received = <<>> /\ tainted = FALSE
-----------------------------------------------------------------------------
(***************************************************************************)
(* The client's handler of one SOCKS connection.  Every onion it sends     *)
(* takes one nonce of every hop, so one number stands for the counters of  *)
(* all hops.                                                               *)
(***************************************************************************)
ClientWrites(c, ok) ==
  MayReturn(ok, FALSE, botShut[1]) /\ dn' = IF ok THEN PutDown(dn, 0, c) ELSE dn

\* setupStreamAndRelay returns: the deferred Remove and Close.
Return == phase' = "returned" /\ sock' = "closed" /\ reg' = FALSE

SendConnect ==
  /\ phase = "connect"
  /\ ctr' = [ctr EXCEPT !.begin = @ + 1]
  /\ \E ok \in BOOLEAN :
       /\ ClientWrites(Sealed("CONNECT", Onion(1, ctr.begin), Cipher, N), ok)
       /\ IF ok THEN phase' = "open" /\ UNCHANGED <<sock, reg>> ELSE Return
  /\ UNCHANGED <<up, topShut, botShut, relays, exit, rx, hist>>

OpenStream ==
  /\ phase = "open"
  /\ phase' = "begin" /\ reg' = TRUE
  /\ UNCHANGED <<wires, relays, exit, sock, rx, ctr, hist>>

SendBegin ==
  /\ phase = "begin"
  /\ ctr' = [ctr EXCEPT !.begin = @ + 1]
  /\ \E ok \in BOOLEAN :
       /\ ClientWrites(Sealed("BEGIN", Onion(1, ctr.begin), Cipher, N), ok)
       /\ IF ok THEN phase' = "relay" /\ UNCHANGED <<sock, reg>> ELSE Return
  /\ UNCHANGED <<up, topShut, botShut, relays, exit, rx, hist>>

\* The application hands over a chunk.  One that does not fit under N layers is
\* refused by NewCell after its nonces are taken, and ends the relay loop.
SendData ==
  /\ phase = "relay" /\ sock = "open" /\ sent < MaxSent
  /\ ctr' = [ctr EXCEPT !.data = @ + 1]
  /\ \E room \in Rooms :
       LET c == Sealed("DATA", Onion(1, ctr.data), App(sent + 1), room)
       IN IF Fits(c)
          THEN \E ok \in BOOLEAN :
                 /\ ClientWrites(c, ok)
                 /\ phase' = IF ok THEN "relay" ELSE "end"
                 /\ sent' = IF ok THEN sent + 1 ELSE sent
          ELSE phase' = "end" /\ UNCHANGED <<dn, sent>>
  /\ UNCHANGED <<up, topShut, botShut, relays, exit, sock, reg, rx,
                 delivered, replied, received, tainted>>

\* The application closes its connection, or only its sending half.
AppCloses ==
  /\ phase = "relay" /\ sock = "open"
  /\ sock' \in {"half", "gone"} /\ phase' = "end"
  /\ UNCHANGED <<wires, relays, exit, reg, rx, ctr, hist>>

\* Reading a SOCKS connection that recvLoop has closed fails.
SockClosed ==
  /\ phase = "relay" /\ sock = "closed" /\ phase' = "end"
  /\ UNCHANGED <<wires, relays, exit, sock, reg, rx, ctr, hist>>

\* mistake: the control END first
SendEndAllFirst ==
  /\ phase = "end"
  /\ \E ok \in BOOLEAN :
       /\ ClientWrites(Control("END", 0), ok)
       /\ IF ok THEN phase' = "endall" /\ UNCHANGED <<sock, reg>> ELSE Return
  /\ UNCHANGED <<up, topShut, botShut, relays, exit, rx, ctr, hist>>

\* CloseStreamUseCase: END for the stream, then a control END as it was the last.
SendEnd ==
  /\ phase = "end"
  /\ \E ok \in BOOLEAN :
       /\ ClientWrites(Control("END", 1), ok)
       /\ IF ok THEN phase' = "endall" /\ UNCHANGED <<sock, reg>> ELSE Return
  /\ UNCHANGED <<up, topShut, botShut, relays, exit, rx, ctr, hist>>

SendEndAll ==
  /\ phase = "endall"
  /\ \E ok \in BOOLEAN : ClientWrites(Control("END", 0), ok)
  /\ Return
  /\ UNCHANGED <<up, topShut, botShut, relays, exit, rx, ctr, hist>>
-----------------------------------------------------------------------------
(***************************************************************************)
(* The client's recvLoop.                                                  *)
(***************************************************************************)
\* mistake: the manager's map is emptied and the connections stay open
CloseAllForgets == rx' = "done" /\ reg' = FALSE /\ UNCHANGED sock

CloseAll ==
  /\ rx' = "done" /\ reg' = FALSE
  /\ sock' = IF reg THEN "closed" ELSE sock

\* mistake: only the first hop's layer is opened; the counters are not compared
ClientOpensFirst(c) ==
  Len(c.layers) >= N /\ c.layers[1] = [hop |-> 1, ctr |-> ctr.up]
ClientOpensAnyCounter(c) ==
  Len(c.layers) >= N /\ \A h \in Hops : c.layers[h].hop = h

\* decryptOnionLayers: every layer, hop by hop; what remains is the application's.
ClientOpens(c) ==
  /\ Len(c.layers) >= N
  /\ \A h \in Hops : c.layers[h] = [hop |-> h, ctr |-> ctr.up]

RecvCell ==
  LET c == Head(up[1])
  IN /\ rx = "run" /\ up[1] # <<>>
     /\ up' = [up EXCEPT ![1] = Tail(@)]
     /\ ctr' = IF c.cmd = "DATA" THEN [ctr EXCEPT !.up = @ + 1] ELSE ctr
     /\ received' = IF c.cmd = "DATA" /\ ClientOpens(c) /\ reg /\ sock \in {"open", "half"}
                    THEN Append(received, Text(c, N))
                    ELSE received
     /\ CASE c.cmd = "DATA" /\ ~ClientOpens(c)   -> CloseAll
          [] c.cmd = "DESTROY"                   -> CloseAll
          [] c.cmd = "END" /\ c.sid = 0          -> CloseAll
          [] c.cmd = "END" /\ c.sid = 1          -> /\ reg' = FALSE
                                                    /\ sock' = IF reg THEN "closed" ELSE sock
                                                    /\ UNCHANGED rx
          [] OTHER                               -> UNCHANGED <<rx, reg, sock>>
     /\ UNCHANGED <<dn, topShut, botShut, relays, exit, phase, sent, delivered, replied, tainted>>

RecvEOF ==
  /\ rx = "run" /\ up[1] = <<>> /\ botShut[1]
  /\ CloseAll
  /\ UNCHANGED <<wires, relays, exit, phase, ctr, hist>>
-----------------------------------------------------------------------------
(***************************************************************************)
(* The ServeConn goroutine of relay i on side s.                           *)
(***************************************************************************)
Serves(i, s) ==
  serve[i][s] = "run" /\ job[i][s].pc = "read" /\ (s = "down" => i < N)

Reads(i, s, cmds) ==
  /\ Serves(i, s) /\ ~OwnShut(i, s) /\ Inbox(i, s) # <<>>
  /\ Head(Inbox(i, s)).cmd \in cmds

\* The target's connection once the repository entry of relay i is closed.
TgtClosed(i, closing) ==
  CASE i = N /\ closing /\ tgt = "open" -> "shut"
    [] i = N /\ closing /\ tgt = "eof"  -> "gone"
    [] OTHER                            -> tgt

HasDown(i) == i < N \/ st[i].hidden

\* ensureServeDown when must holds.
Serving(i, must) ==
  IF must /\ ~st[i].served THEN [serve EXCEPT ![i]["down"] = "run"] ELSE serve

\* mistake: a control END goes no further
ToDownButControl(i, D, c) == IF i < N /\ c.sid # 0 THEN PutDown(D, i, c) ELSE D
\* ForwardCell to st.Down(), which for a hidden service is the target itself.
ToDown(i, D, c) == IF i < N THEN PutDown(D, i, c) ELSE D
Taints(i)       == HasDown(i) /\ i = N /\ tgt = "open"

\* ReadCell fails: the peer closed and all it sent is read, or this end is closed.
ServeStop(i, s) ==
  /\ Serves(i, s)
  /\ OwnShut(i, s) \/ (PeerShut(i, s) /\ Inbox(i, s) = <<>>)
  /\ serve' = [serve EXCEPT ![i][s] = "done"]
  /\ IF s = "up"
     THEN /\ botShut' = [botShut EXCEPT ![i] = TRUE]
          /\ dn' = [dn EXCEPT ![i] = <<>>]
          /\ UNCHANGED <<topShut, up>>
     ELSE /\ topShut' = [topShut EXCEPT ![i+1] = TRUE]
          /\ up' = [up EXCEPT ![i+1] = <<>>]
          /\ UNCHANGED <<botShut, dn>>
  /\ UNCHANGED <<table, st, job, exit, client, hist>>

\* Begin and Connect on a relay that has a next hop.
ForwardSetup(i, s) ==
  LET c      == Head(Inbox(i, s))
      opened == Opens(c, i, st[i].begin)
      served == opened \/ c.cmd = "CONNECT"
  IN /\ i < N /\ Reads(i, s, {"BEGIN", "CONNECT"}) /\ i \in table
     /\ st' = [st EXCEPT ![i].begin = @ + 1, ![i].served = @ \/ served]
     /\ serve' = Serving(i, served)
     /\ dn' = IF opened THEN PutDown(DnRead(i, s), i, Peel(c)) ELSE DnRead(i, s)
     /\ up' = UpRead(i, s)
     /\ UNCHANGED <<topShut, botShut, table, job, exit, client, hist>>

\* Begin and Connect on the exit before it has a target: it starts to dial.
StartDial ==
  LET c == Head(dn[N])
  IN /\ Reads(N, "up", {"BEGIN", "CONNECT"}) /\ N \in table /\ ~st[N].hidden
     /\ st' = [st EXCEPT ![N].begin = @ + 1]
     /\ job' = IF Opens(c, N, st[N].begin)
               THEN [job EXCEPT ![N]["up"] = [pc |-> "dial", cell |-> c, nonce |-> 0]]
               ELSE job
     /\ dn' = DnRead(N, "up")
     /\ UNCHANGED <<up, topShut, botShut, table, serve, exit, client, hist>>

Dialling(cmd) == job[N]["up"].pc = "dial" /\ job[N]["up"].cell.cmd = cmd
DialReturns   == job' = [job EXCEPT ![N]["up"] = Idle]
FwdStarts     == fwd' = [fwd EXCEPT !.pc = "read"]

\* BEGIN: AddStream, the acknowledgement, and forwardUpstream if that could be sent.
Dialled ==
  /\ Dialling("BEGIN") /\ DialReturns
  /\ strm' = TRUE /\ tgt' = "open"
  /\ \E ok \in BOOLEAN :
       /\ MayReturn(ok, botShut[N], topShut[N])
       /\ up' = IF ok THEN PutUp(up, N, Control("BEGIN_ACK", 1)) ELSE up
       /\ IF ok THEN FwdStarts ELSE UNCHANGED fwd
  /\ UNCHANGED <<dn, topShut, botShut, table, st, serve, client, hist>>

DialRefused ==
  /\ Dialling("BEGIN") /\ DialReturns
  /\ tgt' = "refused"
  /\ up' = PutUp(up, N, Control("DESTROY", 0))
  /\ UNCHANGED <<dn, topShut, botShut, table, st, serve, strm, fwd, client, hist>>

\* CONNECT: a new ConnState with a fresh upstream counter, whose Down is the service.
HiddenDialled ==
  /\ Dialling("CONNECT") /\ DialReturns
  /\ table' = table \cup {N} /\ tgt' = "open"
  /\ st' = [st EXCEPT ![N] = [@ EXCEPT !.updata = 0, !.hidden = TRUE, !.served = FALSE]]
  /\ up' = PutUp(up, N, Control("BEGIN_ACK", 1))
  /\ UNCHANGED <<dn, topShut, botShut, serve, strm, fwd, client, hist>>

HiddenRefused ==
  /\ Dialling("CONNECT") /\ DialReturns
  /\ tgt' = "refused"
  /\ UNCHANGED <<wires, table, st, serve, strm, fwd, client, hist>>

\* Begin on an exit connected to a hidden service.
BeginHidden ==
  LET opened == Opens(Head(dn[N]), N, st[N].begin)
  IN /\ Reads(N, "up", {"BEGIN"}) /\ N \in table /\ st[N].hidden
     /\ st' = [st EXCEPT ![N].begin = @ + 1]
     /\ IF opened THEN FwdStarts ELSE UNCHANGED fwd
     /\ up' = IF opened THEN PutUp(up, N, Control("BEGIN_ACK", 1)) ELSE up
     /\ dn' = DnRead(N, "up")
     /\ UNCHANGED <<topShut, botShut, table, serve, job, strm, tgt, client, hist>>

BeginAck(i, s) ==
  /\ Reads(i, s, {"BEGIN_ACK"}) /\ i \in table
  /\ dn' = DnRead(i, s)
  /\ up' = PutUp(UpRead(i, s), i, Head(Inbox(i, s)))
  /\ UNCHANGED <<topShut, botShut, relays, exit, client, hist>>

\* EndStream for the stream: whichever side the END came from, it goes down.
EndStream(i, s) ==
  LET c == Head(Inbox(i, s))
  IN /\ Reads(i, s, {"END"}) /\ i \in table /\ c.sid # 0
     /\ strm' = (strm /\ i # N) /\ tgt' = TgtClosed(i, strm)
     /\ st' = [st EXCEPT ![i].served = @ \/ HasDown(i)]
     /\ serve' = Serving(i, HasDown(i))
     /\ dn' = ToDown(i, DnRead(i, s), c) /\ up' = UpRead(i, s)
     /\ tainted' = (tainted \/ Taints(i))
     /\ UNCHANGED <<topShut, botShut, table, job, fwd, client,
                    sent, delivered, replied, received>>

\* EndStream for a control END, and Destroy: forward down, then Delete the entry.
\* Delete closes what the ConnState it finds holds, streams included.
EndCircuit(i, s) ==
  LET c    == Head(Inbox(i, s))
      must == HasDown(i) /\ c.cmd = "END"
  IN /\ Reads(i, s, {"END", "DESTROY"}) /\ i \in table /\ c.sid = 0
     /\ table' = table \ {i}
     /\ strm' = (strm /\ i # N) /\ tgt' = TgtClosed(i, strm \/ st[i].hidden)
     /\ st' = [st EXCEPT ![i].served = @ \/ must]
     /\ serve' = Serving(i, must)
     /\ Close(i, ToDown(i, DnRead(i, s), c), UpRead(i, s))
     /\ tainted' = (tainted \/ Taints(i))
     /\ UNCHANGED <<job, fwd, client, sent, delivered, replied, received>>

\* Data reads the counter of its DATA nonce, whatever the side.
TakeData(i, s) ==
  /\ Reads(i, s, {"DATA"}) /\ i \in table
  /\ job' = [job EXCEPT ![i][s] =
               [pc |-> "open", cell |-> Head(Inbox(i, s)), nonce |-> st[i].data]]
  /\ dn' = DnRead(i, s) /\ up' = UpRead(i, s)
  /\ UNCHANGED <<topShut, botShut, table, st, serve, exit, client, hist>>

\* mistake: the error of AESOpen is ignored
OpensDataUnchecked(i, s) == job[i][s].pc = "open"
OpensData(i, s) == job[i][s].pc = "open" /\ Opens(job[i][s].cell, i, job[i][s].nonce)

\* A layer came off on a relay that has a next hop.
ForwardData(i, s) ==
  /\ i < N /\ OpensData(i, s)
  /\ \E v \in Bumped(job[i][s].nonce, st[i].data) :
       st' = [st EXCEPT ![i].data = v, ![i].served = TRUE]
  /\ serve' = Serving(i, TRUE)
  /\ dn' = PutDown(dn, i, Peel(job[i][s].cell))
  /\ job' = [job EXCEPT ![i][s] = Idle]
  /\ UNCHANGED <<up, topShut, botShut, table, exit, client, hist>>

\* The last layer came off: the chunk is written to the target.  Without a stream,
\* or if writing to it fails, the exit answers DESTROY; a hidden exit does not.
DeliverData ==
  LET c == job[N]["up"].cell
  IN /\ OpensData(N, "up")
     /\ \E v \in Bumped(job[N]["up"].nonce, st[N].data) : st' = [st EXCEPT ![N].data = v]
     /\ job' = [job EXCEPT ![N]["up"] = Idle]
     /\ \E ok \in BOOLEAN :
          /\ IF strm \/ st[N].hidden THEN MayReturn(ok, tgt \in {"shut", "gone"}, tgt = "eof") ELSE ~ok
          /\ delivered' = IF ok /\ tgt = "open" THEN Append(delivered, Text(c, 1)) ELSE delivered
          /\ IF ok \/ st[N].hidden
             THEN UNCHANGED <<up, strm, tgt>>
             ELSE /\ strm' = FALSE /\ tgt' = TgtClosed(N, strm)
                  /\ up' = PutUp(up, N, Control("DESTROY", 0))
     /\ UNCHANGED <<dn, topShut, botShut, table, serve, fwd, client,
                    sent, replied, received, tainted>>

\* AESOpen failed: with a next hop this is taken for upstream data, which needs
\* the next upstream nonce; without one the cell is dropped.
FailData(i, s) ==
  LET j == job[i][s]
  IN /\ j.pc = "open" /\ ~OpensData(i, s)
     /\ \E v \in Bumped(j.nonce, st[i].data) : st' = [st EXCEPT ![i].data = v]
     /\ job' = [job EXCEPT ![i][s] =
                  IF HasDown(i) THEN [j EXCEPT !.pc = "seal", !.nonce = st[i].updata] ELSE Idle]
     /\ UNCHANGED <<wires, table, serve, exit, client, hist>>

SealData(i, s) ==
  LET j == job[i][s]
  IN /\ j.pc = "seal"
     /\ \E v \in Bumped(j.nonce, st[i].updata) : st' = [st EXCEPT ![i].updata = v]
     /\ job' = [job EXCEPT ![i][s] = [j EXCEPT !.pc = "send", !.cell = Seal(j.cell, i, j.nonce)]]
     /\ UNCHANGED <<wires, table, serve, exit, client, hist>>

\* ForwardCell to st.Up(), by which time the other goroutine may have sealed later and
\* written earlier.  A sealed cell that does not fit is lost.
SendSealed(i, s) ==
  LET c == job[i][s].cell
  IN /\ job[i][s].pc = "send"
     /\ up' = IF Fits(c) THEN PutUp(up, i, c) ELSE up
     /\ job' = [job EXCEPT ![i][s] = Idle]
     /\ UNCHANGED <<dn, topShut, botShut, table, st, serve, exit, client, hist>>
-----------------------------------------------------------------------------
(***************************************************************************)
(* The exit's forwardUpstream goroutine.                                   *)
(***************************************************************************)
\* Read returns a chunk, and the counter of its nonce is read.
FwdRead ==
  /\ fwd.pc = "read" /\ tgt = "open" /\ replied < MaxReplied
  /\ replied' = replied + 1
  /\ \E room \in Rooms :
       fwd' = [pc |-> "seal", no |-> replied + 1, room |-> room, nonce |-> st[N].updata]
  /\ UNCHANGED <<wires, relays, strm, tgt, client, sent, delivered, received, tainted>>

\* The nonce is spent even if the sealed chunk does not fit into a cell and is lost.
FwdSeal ==
  LET c == Seal(Sealed("DATA", <<>>, Svc(fwd.no), fwd.room), N, fwd.nonce)
  IN /\ fwd.pc = "seal"
     /\ \E v \in Bumped(fwd.nonce, st[N].updata) : st' = [st EXCEPT ![N].updata = v]
     /\ up' = IF Fits(c) THEN PutUp(up, N, c) ELSE up
     /\ fwd' = [fwd EXCEPT !.pc = "read"]
     /\ UNCHANGED <<dn, topShut, botShut, table, serve, job, strm, tgt, client, hist>>

\* Read fails, because the target closed or because a handler closed the connection.
FwdEnd ==
  /\ fwd.pc = "read" /\ tgt \in {"eof", "gone", "shut"}
  /\ strm' = FALSE /\ tgt' = TgtClosed(N, TRUE) /\ fwd' = [fwd EXCEPT !.pc = "done"]
  /\ up' = PutUp(up, N, Control("END", 1))
  /\ UNCHANGED <<dn, topShut, botShut, relays, client, hist>>
-----------------------------------------------------------------------------
(***************************************************************************)
(* A ServeConn goroutine on a hidden service's connection, which EndStream *)
(* starts: it takes bytes from forwardUpstream, and closes the connection  *)
(* when they are no cell.                                                  *)
(***************************************************************************)
HiddenServeRead ==
  /\ serve[N]["down"] = "run" /\ tgt = "open" /\ replied < MaxReplied
  /\ replied' = replied + 1
  /\ UNCHANGED <<wires, relays, exit, client, sent, delivered, received, tainted>>

HiddenServeStop ==
  /\ serve[N]["down"] = "run"
  /\ serve' = [serve EXCEPT ![N]["down"] = "done"]
  /\ tgt' = TgtClosed(N, TRUE)
  /\ UNCHANGED <<wires, table, st, job, strm, fwd, client, hist>>
-----------------------------------------------------------------------------
(***************************************************************************)
(* The environment: the target closes, a relay's gc collects an entry that *)
(* was not used for its TTL, a closed connection is reset.                 *)
(***************************************************************************)
TargetCloses ==
  /\ tgt = "open" /\ tgt' = "eof"
  /\ UNCHANGED <<wires, relays, strm, fwd, client, hist>>

\* gc closes the connections and not the streams.
Expire(i) ==
  /\ Expiry /\ i \in table /\ table' = table \ {i}
  /\ tgt' = TgtClosed(i, st[i].hidden)
  /\ Close(i, dn, up)
  /\ UNCHANGED <<st, serve, job, strm, fwd, client, hist>>

ResetDn(i) ==
  /\ Resets /\ topShut[i] /\ dn[i] # <<>> /\ dn' = [dn EXCEPT ![i] = <<>>]
  /\ UNCHANGED <<up, topShut, botShut, relays, exit, client, hist>>

ResetUp(i) ==
  /\ Resets /\ botShut[i] /\ up[i] # <<>> /\ up' = [up EXCEPT ![i] = <<>>]
  /\ UNCHANGED <<dn, topShut, botShut, relays, exit, client, hist>>
-----------------------------------------------------------------------------
Handler == SendConnect \/ OpenStream \/ SendBegin \/ SockClosed \/ SendEnd \/ SendEndAll
RecvLoop == RecvCell \/ RecvEOF

\* A step of the ServeConn goroutine of relay i on side s.
ServeConn(i, s) ==
  \/ ServeStop(i, s) \/ ForwardSetup(i, s) \/ BeginAck(i, s)
  \/ EndStream(i, s) \/ EndCircuit(i, s)
  \/ TakeData(i, s) \/ ForwardData(i, s) \/ FailData(i, s) \/ SealData(i, s)
  \/ SendSealed(i, s)

\* What the exit's ServeConn goroutine does besides.
ServeExit ==
  \/ StartDial \/ Dialled \/ DialRefused \/ HiddenDialled \/ HiddenRefused
  \/ BeginHidden \/ DeliverData

ForwardUpstream == FwdSeal \/ FwdEnd

Next ==
  \/ Handler \/ RecvLoop \/ SendData \/ AppCloses
  \/ \E i \in Hops, s \in Sides : ServeConn(i, s)
  \/ ServeExit
  \/ FwdRead \/ ForwardUpstream
  \/ HiddenServeRead \/ HiddenServeStop
  \/ TargetCloses
  \/ \E i \in Hops : Expire(i) \/ ResetDn(i) \/ ResetUp(i)

Spec == Init /\ [][Next]_vars

(***************************************************************************)
(* Every goroutine that can run runs: the Go scheduler is preemptive, and  *)
(* a dial or a write returns.  Nobody is obliged to send data or to close. *)
(***************************************************************************)
Fairness ==
  /\ WF_vars(Handler) /\ WF_vars(RecvLoop) /\ WF_vars(ForwardUpstream)
  /\ \A i \in Hops, s \in Sides : WF_vars(ServeConn(i, s))
  /\ WF_vars(ServeExit)

FairSpec == Spec /\ Fairness
-----------------------------------------------------------------------------
Wires    == [Hops -> Seq(Cell)]
Ends     == [Hops -> BOOLEAN]
Relays   == [Hops -> ConnState]
Servers  == [Hops -> [Sides -> {"off", "run", "done"}]]
Jobs     == [Hops -> [Sides -> Job]]
Target   == {"none", "refused", "open", "eof", "gone", "shut"}
Upstream == [pc : {"off", "read", "seal", "done"}, no : Nat, room : Nat, nonce : Nat]
Phase    == {"connect", "open", "begin", "relay", "end", "endall", "returned"}
Sock     == {"open", "half", "gone", "closed"}
Counters == [begin : Nat, data : Nat, up : Nat]

TypeOK ==
  /\ dn \in Wires /\ up \in Wires /\ topShut \in Ends /\ botShut \in Ends
  /\ table \subseteq Hops /\ st \in Relays /\ serve \in Servers /\ job \in Jobs
  /\ strm \in BOOLEAN /\ tgt \in Target /\ fwd \in Upstream
  /\ phase \in Phase /\ sock \in Sock /\ reg \in BOOLEAN /\ rx \in {"run", "done"}
  /\ ctr \in Counters
  /\ sent \in Nat /\ delivered \in Seq(Chunk)
  /\ replied \in Nat /\ received \in Seq(Chunk) /\ tainted \in BOOLEAN
-----------------------------------------------------------------------------
(***************************************************************************)
(* Safety.                                                                 *)
(***************************************************************************)
Stream == INSTANCE OrderedStream

\* The target gets the application's chunks unaltered and in order, none twice and
\* none after a missing one, although middle relays take some of them for upstream
\* data and send them back (handle_data_usecase.go:50-70).
DownOrdered ==
  /\ Len(delivered) <= sent
  /\ \A k \in DOMAIN delivered : delivered[k] = App(k)

\* The application gets the target's chunks likewise, and never a chunk of its own
\* that a relay sent back, although the exit drops chunks that do not fit a cell and
\* two goroutines of a relay may seal with the same counter.
UpOrdered ==
  /\ Len(received) <= replied
  /\ \A k \in DOMAIN received : received[k] = Svc(k)

\* For a hidden service, END makes the exit read the service's bytes itself, and the
\* exit seals a chunk that it fails to open and sends it back as a reply.  So the order
\* holds until the client has sent END, as long as the exit delivers what it opens.
UpOrderedInStep ==
  phase \notin {"endall", "returned"} /\ Len(delivered) = st[N].data => UpOrdered

\* The circuit implements the ordered stream between the two applications.
ImplementsStream == Stream!Spec

\* Once the exit has failed to open or to deliver one DATA cell, it delivers nothing
\* any more: its counter and the client's never meet again.
SilentAfterGap == [][Len(delivered) < st[N].data => UNCHANGED delivered]_vars

\* The target refused or closed the connection.
Lost == tgt \in {"refused", "eof", "gone"}

\* Relays tear a circuit down only after the client ended it or the exit lost the
\* target; a cell for one stream or for the other direction does not do it.
NoSpuriousTeardown ==
  table # Hops => phase = "returned" \/ Lost

\* No cell of the protocol ends up in a hidden service's byte stream.
ServiceStreamClean == ~tainted
-----------------------------------------------------------------------------
(***************************************************************************)
(* Liveness, under FairSpec.                                               *)
(***************************************************************************)
\* Resets and gc may lose whatever is under way, so delivery is promised without them: what
\* the application sent reaches the target unless the target is gone.  With more than one
\* hop this is so only until the target first replies.
SentDelivered == \A k \in 1 .. MaxSent : sent >= k ~> Len(delivered) >= k \/ Lost
RequestDelivered ==
  \A k \in 1 .. MaxSent : sent >= k ~> Len(delivered) >= k \/ Lost \/ replied > 0

\* What the target sent reaches the application unless it closed its connection.
RepliesReceived == \A k \in 1 .. MaxReplied : replied >= k ~> Len(received) >= k \/ sock # "open"

\* When the target closes or refuses the connection, the application's is closed.
TargetEndReachesClient == Lost ~> sock # "open"

Released ==
  /\ table = {} /\ tgt \notin {"open", "eof"} /\ fwd.pc \in {"off", "done"} /\ rx = "done"
  /\ \A i \in Hops : botShut[i] /\ (i > 1 => topShut[i]) /\ \A s \in Sides : serve[i][s] # "run"

\* Once the client's handler has returned, the control END makes every relay forget the
\* circuit, every connection close at both ends and every goroutine of the circuit end,
\* unless a reset connection has discarded that END or gc was at the entries before it
\* (handle_endstream_usecase.go:42-50).
CloseReleasesAll == ~Resets /\ ~Expiry => (phase = "returned" ~> Released)
=============================================================================
