---------------------------- MODULE CircuitInv ----------------------------
(***************************************************************************)
(* Inductive invariants of Circuit: what holds of every cell in flight and *)
(* of every goroutine between its steps.  From UpInv follows the order on  *)
(* the way up of circuits that are not hidden (CircuitUp_proofs), from     *)
(* DownInv that on the way down of any circuit (CircuitDown_proofs), from  *)
(* ReplyInv that on the way up of any circuit that is in time              *)
(* (CircuitStream_proofs), from TearInv that relays keep a circuit in use  *)
(* (CircuitTeardown_proofs).                                               *)
(***************************************************************************)
EXTENDS Circuit

(***************************************************************************)
(* Cells.  A DATA cell on its way down has exactly the layers of the hops  *)
(* still to come.  One on its way up was sealed last by the relay it comes *)
(* from; if its layers are those of all the hops from there to the exit,   *)
(* then forwardUpstream made it, with one number for chunk and nonce.  A   *)
(* cell of the client's that a relay sent back has that relay's hop twice. *)
(***************************************************************************)
DownCell(i, c) ==
  /\ c.cmd # "CONNECT"
  /\ c.cmd = "DATA" =>
       /\ Len(c.layers) = N - i + 1
       /\ \A k \in 1 .. N - i + 1 : c.layers[k].hop = i + k - 1

HopsFrom(i, c) ==
  /\ Len(c.layers) >= N - i + 1
  /\ \A k \in 1 .. N - i + 1 : c.layers[k].hop = i + k - 1

Genuine(i, c, n) ==
  /\ Len(c.layers) = N - i + 1
  /\ c.layers[N - i + 1].ctr < n
  /\ c.body = Svc(c.layers[N - i + 1].ctr + 1)

UpCell(i, c, n) ==
  /\ c.cmd \notin {"BEGIN", "CONNECT"}
  /\ c.cmd = "DATA" =>
       /\ c.layers # <<>> /\ c.layers[1].hop = i
       /\ HopsFrom(i, c) => Genuine(i, c, n)

DownCells(D)  == \A i \in Hops : \A k \in 1 .. Len(D[i]) : DownCell(i, D[i][k])
UpCells(U, n) == \A i \in Hops : \A k \in 1 .. Len(U[i]) : UpCell(i, U[i][k], n)

(***************************************************************************)
(* Goroutines.                                                             *)
(***************************************************************************)
UpJob(i, j) ==
  /\ j.pc \in {"open", "seal"} => j.cell.cmd = "DATA" /\ DownCell(i, j.cell)
  /\ j.pc = "seal" => i < N
  /\ j.pc = "dial" => i = N /\ j.cell.cmd # "CONNECT"

DownJob(i, j, n) ==
  /\ j.pc # "dial"
  /\ j.pc \in {"open", "seal"} => i < N /\ j.cell.cmd = "DATA" /\ UpCell(i + 1, j.cell, n)

\* A sealed cell goes up, whichever side its goroutine reads from.
SentJob(i, j, n) == j.pc = "send" => UpCell(i, j.cell, n)

\* Every cell there is, when the exit's upstream counter is n.
CellsAt(n) ==
  /\ DownCells(dn) /\ UpCells(up, n)
  /\ \A i \in Hops : UpJob(i, job[i]["up"]) /\ DownJob(i, job[i]["down"], n)
  /\ \A i \in Hops, s \in Sides : SentJob(i, job[i][s], n)

\* No relay is connected to a hidden service, nor reads from one.
Plain == (\A i \in Hops : ~st[i].hidden) /\ serve[N]["down"] = "off"

(***************************************************************************)
(* The one BEGIN of the circuit is still to be sent, under way, being      *)
(* served by the exit, or served; forwardUpstream runs only in the end.    *)
(***************************************************************************)
HasBegin(D) == \E i \in Hops : \E k \in 1 .. Len(D[i]) : D[i][k].cmd = "BEGIN"

SingleBegin(D) ==
  \A i \in Hops, j \in Hops : \A k \in 1 .. Len(D[i]), l \in 1 .. Len(D[j]) :
    D[i][k].cmd = "BEGIN" /\ D[j][l].cmd = "BEGIN" => i = j /\ k = l

BeginOnce ==
  /\ SingleBegin(dn)
  /\ phase \in {"open", "begin"} =>
       ~HasBegin(dn) /\ job[N]["up"].pc # "dial" /\ fwd.pc = "off"
  /\ HasBegin(dn) => job[N]["up"].pc # "dial" /\ fwd.pc = "off"
  /\ job[N]["up"].pc = "dial" => fwd.pc = "off"

\* The counter of the exit's upstream nonce is the number of chunks read.
Numbered ==
  IF fwd.pc = "seal"
  THEN fwd.nonce = st[N].updata /\ fwd.no = fwd.nonce + 1 /\ replied = fwd.no
  ELSE replied = st[N].updata

(***************************************************************************)
(* The client.  Nothing comes before the stream is open, and from then on  *)
(* recvLoop has written all it opened, or writes nothing any more.         *)
(***************************************************************************)
Quiet ==
  /\ phase # "connect"
  /\ phase = "open" =>
       /\ ~reg /\ ctr.up = 0 /\ received = <<>>
       /\ \A i \in Hops : /\ dn[i] = <<>> /\ up[i] = <<>>
                          /\ \A s \in Sides : job[i][s].pc = "read"

Writing == rx = "run" /\ reg /\ sock \in {"open", "half"} => Len(received) = ctr.up

UpInv ==
  /\ TypeOK /\ Plain
  /\ CellsAt(st[N].updata) /\ BeginOnce /\ Numbered
  /\ Quiet /\ Writing /\ UpOrdered
-----------------------------------------------------------------------------
(***************************************************************************)
(* The way down, also of a hidden service's circuit.  The cells that relay *)
(* i has yet to deal with are the one that its goroutine on side "up" has  *)
(* in hand, and those that connection i holds.                             *)
(***************************************************************************)
InHand(j) == j.pc \in {"open", "dial"}

Pipes(D, J) ==
  [i \in Hops |-> IF InHand(J[i]["up"]) THEN <<J[i]["up"].cell>> \o D[i] ELSE D[i]]

Setup == {"BEGIN", "CONNECT"}

\* A DATA cell before relay i still has the layers of the hops from there on, and the
\* nonces say which chunk it carries, of the n that were sent.
ChunkCell(i, c, n) ==
  c.cmd = "DATA" =>
    /\ c.body.no \in 1 .. n /\ c.body = App(c.body.no)
    /\ c.layers = Onion(i, c.body.no - 1)

AllChunks(P, n) == \A i \in Hops : \A k \in 1 .. Len(P[i]) : ChunkCell(i, P[i][k], n)

\* c may be on its way ahead of d: a CONNECT is ahead of the BEGIN, that of every
\* chunk, and the chunks are in order.
Ahead(c, d) ==
  /\ c.cmd \in {"BEGIN", "DATA"} => d.cmd \notin Setup
  /\ c.cmd = "DATA" /\ d.cmd = "DATA" => c.body.no < d.body.no

InOrder(P) ==
  \A i, j \in Hops : \A k \in 1 .. Len(P[i]), l \in 1 .. Len(P[j]) :
    i > j \/ (i = j /\ k < l) => Ahead(P[i][k], P[j][l])

\* Every chunk on its way has a number over n.
From(P, n) == \A i \in Hops : \A k \in 1 .. Len(P[i]) : P[i][k].cmd = "DATA" => P[i][k].body.no > n

NoSetup(P) == \A i \in Hops : \A k \in 1 .. Len(P[i]) : P[i][k].cmd \notin Setup

Lacks(W, cmd) == \A i \in Hops : \A k \in 1 .. Len(W[i]) : W[i][k].cmd # cmd

\* A cell on its way up was sealed last by the relay it comes from.  So no relay opens
\* it, and it never gets into the way down.
BackCell(i, c) ==
  /\ c.cmd \notin Setup
  /\ c.cmd = "DATA" => c.layers # <<>> /\ c.layers[1].hop = i

BackJob(i, s, j) ==
  /\ j.pc \in {"open", "seal"} =>
       j.cell.cmd = "DATA" /\ (s = "down" => i < N /\ BackCell(i + 1, j.cell))
  /\ j.pc = "send" => j.cell.cmd = "DATA" /\ BackCell(i, j.cell)
  /\ j.pc = "dial" => s = "up" /\ i = N /\ j.cell.cmd \in Setup

BackCells(U) == \A i \in Hops : \A k \in 1 .. Len(U[i]) : BackCell(i, U[i][k])

Back == BackCells(up) /\ \A i \in Hops, s \in Sides : BackJob(i, s, job[i][s])

\* The client's data counter is the number of chunks sent, until a chunk gets lost.
Early == {"connect", "open", "begin"}
Sending ==
  /\ phase \in Early => sent = 0 /\ ctr.data = 0
  /\ phase = "relay" => ctr.data = sent

\* The exit takes the nonces for DATA of one cell after the other.
ExitAlone == job[N]["up"].pc = "open" => job[N]["up"].nonce = st[N].data

\* The exit can write to no target, and will never have one again.
Over ==
  /\ phase \notin Early /\ (tgt # "open" \/ ~(strm \/ st[N].hidden))
  /\ NoSetup(Pipes(dn, job))

\* Either the next chunk for the exit's counter is the one to deliver, or there is no
\* target any more, or the counter and the nonces will never meet again.
InStep ==
  /\ Len(delivered) <= st[N].data
  /\ IF Len(delivered) = st[N].data
     THEN From(Pipes(dn, job), st[N].data)
     ELSE Over \/ (st[N].data < sent /\ From(Pipes(dn, job), st[N].data + 1))

DownInv ==
  /\ TypeOK /\ Back /\ Sending /\ ExitAlone
  /\ InOrder(Pipes(dn, job)) /\ AllChunks(Pipes(dn, job), sent)
  /\ phase \in Early => Lacks(Pipes(dn, job), "BEGIN")
  /\ InStep /\ DownOrdered
-----------------------------------------------------------------------------
(***************************************************************************)
(* The way up of any circuit, until the client ends the stream and while   *)
(* the exit delivers what it opens: until then it seals nothing but the    *)
(* chunks of forwardUpstream, which is alone in reading from the target.   *)
(***************************************************************************)
InTime == phase \notin {"endall", "returned"} /\ Len(delivered) = st[N].data

\* What the relays are to send up, when the exit's upstream counter is n.
Returning(n) ==
  \A i \in Hops :
    /\ job[i]["up"].pc = "seal" => i < N /\ DownCell(i, job[i]["up"].cell)
    /\ DownJob(i, job[i]["down"], n)
    /\ \A s \in Sides : SentJob(i, job[i][s], n)

\* forwardUpstream starts when the last of CONNECT and BEGIN has been served, so its
\* counter is not reset; an END makes the exit start the other reader, and comes first
\* from forwardUpstream itself, which has then lost the target.
Forwarding ==
  /\ fwd.pc = "off" => replied = 0
  /\ fwd.pc # "off" => phase \notin Early /\ NoSetup(Pipes(dn, job))
  /\ fwd.pc # "done" => Lacks(dn, "END") /\ Lacks(up, "END") /\ serve[N]["down"] = "off"
  /\ fwd.pc = "done" => tgt # "open"

\* Until the client has sent BEGIN no chunk is under way.
Silent ==
  /\ phase \in Early =>
       /\ ctr.up = 0 /\ received = <<>> /\ Lacks(up, "DATA")
       /\ \A i \in Hops : job[i]["up"].pc \notin {"seal", "send"} /\ job[i]["down"].pc = "read"
  /\ phase \in {"connect", "open"} => ~reg

ReplyInv ==
  InTime =>
    /\ UpCells(up, st[N].updata) /\ Returning(st[N].updata) /\ Numbered
    /\ Forwarding /\ Silent /\ Writing /\ UpOrdered
-----------------------------------------------------------------------------
(***************************************************************************)
(* Why nobody tears down a circuit in use, unless a relay's gc does: as    *)
(* long as the client's handler has not returned and the exit has not lost *)
(* its target, the circuit is Whole (CircuitTeardown_proofs).              *)
(***************************************************************************)
Live == phase # "returned" /\ ~Lost

\* Once the exit has dialled there is no BEGIN any more, so it never dials again.
DialsOnce == tgt # "none" => phase \notin Early /\ NoSetup(Pipes(dn, job))

\* Every relay that BEGIN has yet to reach will open it.
BeginOpens ==
  /\ phase \in Early => ctr.begin = 0 /\ \A j \in Hops : st[j].begin = 0
  /\ \A i \in Hops : \A k \in 1 .. Len(dn[i]) :
       dn[i][k].cmd = "BEGIN" => dn[i][k].layers = Onion(i, 0) /\ \A j \in i .. N : st[j].begin = 0

\* A cell that ends no circuit, and if any, the circuit's stream, when that is over.
Mild(c, over) == c.cmd # "DESTROY" /\ (c.cmd = "END" => c.sid = 1 /\ over)

AllMild(W, over) == \A i \in Hops : \A k \in 1 .. Len(W[i]) : Mild(W[i][k], over)

\* No chunk is on its way down behind an END.
EndLast(P) ==
  \A i, j \in Hops : \A k \in 1 .. Len(P[i]), l \in 1 .. Len(P[j]) :
    (i > j \/ (i = j /\ k < l)) /\ P[i][k].cmd = "END" => P[j][l].cmd # "DATA"

\* The exit's connection to the target comes with the stream, until which the client's
\* BEGIN is on its way, and goes with the client's END, behind which there is no chunk.
Attached ==
  /\ tgt = "none" /\ phase \notin Early => HasBegin(Pipes(dn, job))
  /\ tgt = "open" => strm
  /\ tgt = "shut" => phase = "endall" /\ Lacks(Pipes(dn, job), "DATA")

\* END goes down when the client has sent everything, and up only after that.
Whole ==
  /\ table = Hops /\ \A i \in Hops : ~topShut[i] /\ ~botShut[i]
  /\ AllMild(Pipes(dn, job), phase = "endall") /\ AllMild(up, tgt = "shut")
  /\ EndLast(Pipes(dn, job)) /\ Attached

TearInv == DialsOnce /\ BeginOpens /\ (Live => Whole)
=============================================================================
