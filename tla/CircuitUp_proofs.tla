-------------------------- MODULE CircuitUp_proofs --------------------------
(***************************************************************************)
(* The application behind a circuit that is not hidden gets the target's   *)
(* chunks unaltered and in order, for every number of hops: UpInv of       *)
(* CircuitInv is inductive.                                                *)
(***************************************************************************)
EXTENDS CircuitInv, Circuit_proofs

USE CircuitAssumption
-----------------------------------------------------------------------------
(***************************************************************************)
(* Cells.                                                                  *)
(***************************************************************************)
LEMMA ControlCells ==
  ASSUME NEW i \in Hops, NEW n, NEW c, c.cmd \in {"BEGIN_ACK", "END", "DESTROY"}
  PROVE  DownCell(i, c) /\ UpCell(i, c, n)
BY DEF DownCell, UpCell

\* A relay that opens a cell passes on what the next hop expects.
LEMMA PeelCells ==
  ASSUME NEW i \in Hops, NEW c \in Cell, i < N, DownCell(i, c), c.layers # <<>>
  PROVE  DownCell(i + 1, Peel(c))
<1> DEFINE d == Peel(c)
<1>1. d.cmd = c.cmd /\ d.layers = Tail(c.layers)
  BY DEF Peel, Cell
<1>2. c.layers \in Seq(Layer)
  BY DEF Cell
<1>3. ASSUME c.cmd = "DATA"
      PROVE  /\ Len(d.layers) = N - (i + 1) + 1
             /\ \A k \in 1 .. N - (i + 1) + 1 : d.layers[k].hop = (i + 1) + k - 1
  <2>1. Len(c.layers) = N - i + 1 /\ \A k \in 1 .. N - i + 1 : c.layers[k].hop = i + k - 1
    BY <1>3 DEF DownCell
  <2>2. Len(d.layers) = Len(c.layers) - 1
    BY <1>1, <1>2
  <2>3. ASSUME NEW k \in 1 .. N - (i + 1) + 1
        PROVE  d.layers[k].hop = (i + 1) + k - 1
    <3>1. k + 1 \in 1 .. N - i + 1 /\ k \in 1 .. Len(c.layers) - 1
      BY <2>1 DEF Hops
    <3>2. d.layers[k] = c.layers[k + 1]
      BY <1>1, <1>2, <3>1
    <3> QED
      BY <2>1, <3>1, <3>2 DEF Hops
  <2> QED
    BY <2>1, <2>2, <2>3 DEF Hops
<1> QED
  BY <1>1, <1>3 DEF DownCell

\* The layers of a sealed cell are the new one and the old ones after it.
LEMMA SealLayers ==
  ASSUME NEW c \in Cell, NEW h \in Hops, NEW n \in Nat, NEW d, d = Seal(c, h, n)
  PROVE  /\ d.cmd = c.cmd /\ d.body = c.body
         /\ d.layers \in Seq(Layer) /\ Len(d.layers) = Len(c.layers) + 1
         /\ d.layers[1] = [hop |-> h, ctr |-> n]
         /\ \A k \in 1 .. Len(c.layers) : d.layers[k + 1] = c.layers[k]
<1> DEFINE e == [hop |-> h, ctr |-> n]
<1>1. e \in Layer /\ c.layers \in Seq(Layer)
  BY DEF Layer, Cell
<1>2. d.cmd = c.cmd /\ d.body = c.body /\ d.layers = <<e>> \o c.layers
  BY DEF Seal, Cell
<1> HIDE DEF e
<1>3. /\ d.layers \in Seq(Layer) /\ Len(d.layers) = Len(c.layers) + 1 /\ d.layers[1] = e
      /\ \A k \in 1 .. Len(c.layers) : d.layers[k + 1] = c.layers[k]
  BY <1>1, <1>2, Prepend
<1> QED
  BY <1>2, <1>3 DEF e

\* A relay that sends a cell back which it was to pass on appears twice in its layers.
LEMMA SentBack ==
  ASSUME NEW i \in Hops, i < N, NEW c \in Cell, c.cmd = "DATA", DownCell(i, c),
         NEW n \in Nat, NEW m
  PROVE  UpCell(i, Seal(c, i, n), m)
<1> DEFINE d == Seal(c, i, n)
<1>0. /\ d.cmd = "DATA" /\ d.layers \in Seq(Layer)
      /\ Len(d.layers) = Len(c.layers) + 1 /\ d.layers[1] = [hop |-> i, ctr |-> n]
      /\ \A k \in 1 .. Len(c.layers) : d.layers[k + 1] = c.layers[k]
  <2> HIDE DEF d
  <2> QED
    BY SMTT(30), SealLayers DEF d
<1> HIDE DEF d
<1>1. Len(c.layers) = N - i + 1 /\ c.layers[1].hop = i
  BY DEF DownCell, Hops
<1>2. d.layers[1].hop = i /\ d.layers[2].hop = i /\ d.layers # <<>>
  <2>1. 1 \in 1 .. Len(c.layers)
    BY <1>1 DEF Hops
  <2>2. d.layers[1 + 1] = c.layers[1]
    BY <1>0, <2>1
  <2> QED
    BY SMTT(30), <1>0, <1>1, <2>1, <2>2
<1>3. ~HopsFrom(i, d)
  <2>1. 2 \in 1 .. N - i + 1 /\ i # i + 2 - 1
    BY DEF Hops
  <2> QED
    BY <1>2, <2>1 DEF HopsFrom
<1> QED
  BY <1>0, <1>2, <1>3 DEF UpCell, d

\* A relay that passes a cell up adds its own hop in front.
LEMMA SentOn ==
  ASSUME NEW i \in Hops, i < N, NEW c \in Cell, c.cmd = "DATA",
         NEW n \in Nat, NEW m, UpCell(i + 1, c, m)
  PROVE  UpCell(i, Seal(c, i, n), m)
<1> DEFINE d == Seal(c, i, n)
<1>0. /\ d.cmd = "DATA" /\ d.body = c.body /\ d.layers \in Seq(Layer)
      /\ Len(d.layers) = Len(c.layers) + 1 /\ d.layers[1] = [hop |-> i, ctr |-> n]
      /\ \A k \in 1 .. Len(c.layers) : d.layers[k + 1] = c.layers[k]
  <2> HIDE DEF d
  <2> QED
    BY SealLayers DEF d
<1>1. c.layers \in Seq(Layer) /\ Len(c.layers) \in Nat
  BY DEF Cell
<1> HIDE DEF d
<1>2. d.layers # <<>>
  BY <1>0, <1>1
<1>3. ASSUME HopsFrom(i, d)
      PROVE  Genuine(i, d, m)
  <2>1. HopsFrom(i + 1, c)
    <3>1. Len(c.layers) >= N - (i + 1) + 1
      BY SMTT(30), <1>0, <1>1, <1>3 DEF HopsFrom, Hops
    <3>2. ASSUME NEW k \in 1 .. N - (i + 1) + 1
          PROVE  c.layers[k].hop = (i + 1) + k - 1
      <4>1. k + 1 \in 1 .. N - i + 1 /\ k \in 1 .. Len(c.layers)
        BY <1>1, <3>1 DEF Hops
      <4>2. d.layers[k + 1].hop = i + (k + 1) - 1
        BY <1>3, <4>1 DEF HopsFrom
      <4> QED
        BY SMTT(30), <1>0, <4>1, <4>2 DEF Hops
    <3> QED
      BY <3>1, <3>2 DEF HopsFrom
  <2>2. Genuine(i + 1, c, m)
    BY <2>1 DEF UpCell
  <2>3. N - i + 1 = (N - (i + 1) + 1) + 1 /\ N - (i + 1) + 1 \in 1 .. Len(c.layers)
    BY <1>1, <2>2 DEF Genuine, Hops
  <2>4. d.layers[N - i + 1] = c.layers[N - (i + 1) + 1]
    BY SMTT(30), <1>0, <2>3
  <2>5. Len(d.layers) = N - i + 1
    BY <1>0, <2>2, <2>3 DEF Genuine, Hops
  <2> QED
    BY <1>0, <2>2, <2>4, <2>5 DEF Genuine
<1> QED
  BY <1>0, <1>2, <1>3 DEF UpCell, d

\* What forwardUpstream sends is genuine.
LEMMA SentFirst ==
  ASSUME NEW n \in Nat, NEW c \in Cell, c.cmd = "DATA", Len(c.layers) = 0,
         NEW no, no = n + 1, c.body = Svc(no)
  PROVE  UpCell(N, Seal(c, N, n), no)
<1>1. N \in Hops
  BY DEF Hops
<1> DEFINE d == Seal(c, N, n)
<1>2. /\ d.cmd = c.cmd /\ d.body = c.body
      /\ d.layers \in Seq(Layer) /\ Len(d.layers) = Len(c.layers) + 1
      /\ d.layers[1] = [hop |-> N, ctr |-> n]
      /\ \A k \in 1 .. Len(c.layers) : d.layers[k + 1] = c.layers[k]
  <2> HIDE DEF d
  <2> QED
    BY ONLY SMTT(30), <1>1, n \in Nat, c \in Cell, SealLayers DEF d
<1> HIDE DEF d
<1>3. Len(d.layers) = 1 /\ d.layers # <<>>
  BY <1>2
<1>4. N - N + 1 = 1 /\ n < no
  OBVIOUS
<1>5. Genuine(N, d, no)
  BY <1>2, <1>3, <1>4 DEF Genuine
<1> QED
  BY <1>2, <1>3, <1>4, <1>5 DEF UpCell, d

\* What holds of an upstream cell keeps holding when the exit seals more.
LEMMA UpCellMono ==
  ASSUME NEW i \in Hops, NEW c \in Cell, NEW n \in Nat, NEW m \in Nat, n <= m, UpCell(i, c, n)
  PROVE  UpCell(i, c, m)
<1>1. ASSUME Genuine(i, c, n)
      PROVE  Genuine(i, c, m)
  <2>1. N - i + 1 \in 1 .. Len(c.layers)
    BY <1>1 DEF Genuine, Hops
  <2>2. c.layers[N - i + 1] \in Layer
    BY <2>1 DEF Cell
  <2> QED
    BY <1>1, <2>2 DEF Genuine, Layer
<1> QED
  BY <1>1 DEF UpCell
-----------------------------------------------------------------------------
(***************************************************************************)
(* Queues of cells.                                                        *)
(***************************************************************************)
\* Taking the first cell of one queue leaves only cells that were in flight.
LEMMA TailCells ==
  ASSUME NEW W \in Wires, NEW i \in Hops, W[i] # <<>>,
         NEW j \in Hops, NEW k \in 1 .. Len([W EXCEPT ![i] = Tail(@)][j])
  PROVE  \E m \in 1 .. Len(W[j]) : [W EXCEPT ![i] = Tail(@)][j][k] = W[j][m]
<1> DEFINE V == [W EXCEPT ![i] = Tail(@)]
<1>1. V[j] = IF j = i THEN Tail(W[j]) ELSE W[j]
  BY DEF Wires
<1>2. W[j] \in Seq(Cell)
  BY DEF Wires
<1>3. k \in 1 .. Len(V[j])
  OBVIOUS
<1> HIDE DEF V
<1>4. CASE j = i
  <2>1. V[j] = Tail(W[j]) /\ W[j] # <<>>
    BY <1>1, <1>4
  <2>2. Len(V[j]) = Len(W[j]) - 1 /\ Len(W[j]) \in Nat
    BY <1>2, <2>1
  <2>3. k + 1 \in 1 .. Len(W[j])
    BY <1>3, <2>2
  <2>4. V[j][k] = W[j][k+1]
    BY <1>2, <1>3, <2>1, <2>2
  <2> QED
    BY <2>3, <2>4 DEF V
<1>5. CASE j # i
  BY <1>1, <1>3, <1>5 DEF V
<1> QED
  BY <1>4, <1>5

\* So reading keeps the cells in flight proper.
LEMMA TailDownCells ==
  ASSUME NEW W \in Wires, DownCells(W), NEW i \in Hops, W[i] # <<>>
  PROVE  DownCells([W EXCEPT ![i] = Tail(@)])
<1> DEFINE V == [W EXCEPT ![i] = Tail(@)]
<1>1. ASSUME NEW j \in Hops, NEW k \in 1 .. Len(V[j])
      PROVE  DownCell(j, V[j][k])
  <2>1. PICK m \in 1 .. Len(W[j]) : V[j][k] = W[j][m]
    BY TailCells
  <2> HIDE DEF V
  <2> QED
    BY <2>1 DEF DownCells
<1> HIDE DEF V
<1>2. DownCells(V)
  BY <1>1 DEF DownCells
<1> QED
  BY <1>2 DEF V

\* Likewise for the cells on their way up.
LEMMA TailUpCells ==
  ASSUME NEW W \in Wires, NEW n, UpCells(W, n), NEW i \in Hops, W[i] # <<>>
  PROVE  UpCells([W EXCEPT ![i] = Tail(@)], n)
<1> DEFINE V == [W EXCEPT ![i] = Tail(@)]
<1>1. ASSUME NEW j \in Hops, NEW k \in 1 .. Len(V[j])
      PROVE  UpCell(j, V[j][k], n)
  <2>1. PICK m \in 1 .. Len(W[j]) : V[j][k] = W[j][m]
    BY SMTT(30), TailCells
  <2> HIDE DEF V
  <2> QED
    BY <2>1 DEF UpCells
<1> HIDE DEF V
<1>2. UpCells(V, n)
  BY <1>1 DEF UpCells
<1> QED
  BY <1>2 DEF V

\* What a ServeConn goroutine leaves unread, and what it reads on each side.
LEMMA ReadCells ==
  ASSUME TypeOK, NEW n, DownCells(dn), UpCells(up, n),
         NEW i \in Hops, NEW s \in Sides, NEW cmds, Reads(i, s, cmds)
  PROVE  /\ DownCells(DnRead(i, s)) /\ UpCells(UpRead(i, s), n)
         /\ s = "up" => DownCell(i, Head(Inbox(i, s)))
         /\ s = "down" => i < N /\ UpCell(i + 1, Head(Inbox(i, s)), n)
<1>1. CASE s = "up"
  <2>1. dn[i] \in Seq(Cell) /\ dn[i] # <<>> /\ Inbox(i, s) = dn[i]
    BY <1>1 DEF TypeOK, Wires, Reads, Inbox
  <2>2. DownCell(i, Head(dn[i]))
    BY <2>1 DEF DownCells
  <2>3. DownCells([dn EXCEPT ![i] = Tail(@)])
    BY <2>1, TailDownCells DEF TypeOK
  <2> QED
    BY <1>1, <2>1, <2>2, <2>3 DEF DnRead, UpRead
<1>2. CASE s = "down"
  <2>1. i < N /\ i + 1 \in Hops
    BY <1>2 DEF Reads, Serves, Hops
  <2>2. up[i+1] \in Seq(Cell) /\ up[i+1] # <<>> /\ Inbox(i, s) = up[i+1]
    BY <1>2, <2>1 DEF TypeOK, Wires, Reads, Inbox
  <2>3. UpCell(i + 1, Head(up[i+1]), n)
    BY <2>1, <2>2 DEF UpCells
  <2>4. UpCells([up EXCEPT ![i+1] = Tail(@)], n)
    BY <2>1, <2>2, TailUpCells DEF TypeOK
  <2> QED
    BY <1>2, <2>1, <2>2, <2>3, <2>4 DEF DnRead, UpRead
<1> QED
  BY <1>1, <1>2 DEF Sides

\* Writing a proper cell keeps the cells on their way down proper.
LEMMA PutDownCells ==
  ASSUME NEW D \in Wires, DownCells(D),
         NEW i \in 0 .. N - 1, NEW c \in Cell, DownCell(i + 1, c)
  PROVE  DownCells(PutDown(D, i, c))
<1>1. i + 1 \in Hops /\ D[i+1] \in Seq(Cell)
  BY DEF Wires, Hops
<1>2. ASSUME NEW j \in Hops, NEW k \in 1 .. Len([D EXCEPT ![i+1] = Append(@, c)][j])
      PROVE  DownCell(j, [D EXCEPT ![i+1] = Append(@, c)][j][k])
  <2>1. CASE j = i + 1
    BY <1>1, <1>2, <2>1 DEF DownCells, Wires
  <2>2. CASE j # i + 1
    BY <1>1, <1>2, <2>2 DEF DownCells, Wires
  <2> QED
    BY <2>1, <2>2
<1> QED
  BY <1>2 DEF DownCells, PutDown

\* Likewise for the cells on their way up.
LEMMA PutUpCells ==
  ASSUME NEW U \in Wires, NEW n, UpCells(U, n), NEW i \in Hops, NEW c \in Cell, UpCell(i, c, n)
  PROVE  UpCells(PutUp(U, i, c), n)
<1>1. U[i] \in Seq(Cell)
  BY DEF Wires
<1>2. ASSUME NEW j \in Hops, NEW k \in 1 .. Len([U EXCEPT ![i] = Append(@, c)][j])
      PROVE  UpCell(j, [U EXCEPT ![i] = Append(@, c)][j][k], n)
  <2>1. CASE j = i
    BY <1>1, <1>2, <2>1 DEF UpCells, Wires
  <2>2. CASE j # i
    BY <1>1, <1>2, <2>2 DEF UpCells, Wires
  <2> QED
    BY <2>1, <2>2
<1> QED
  BY <1>2 DEF UpCells, PutUp

\* Likewise for ForwardCell to Down.
LEMMA ToDownCells ==
  ASSUME NEW D \in Wires, DownCells(D), NEW i \in Hops, NEW c \in Cell,
         c.cmd \in {"END", "DESTROY"}
  PROVE  DownCells(ToDown(i, D, c))
<1>1. ASSUME i < N
      PROVE  DownCells(PutDown(D, i, c))
  <2>1. i \in 0 .. N - 1 /\ i + 1 \in Hops
    BY <1>1 DEF Hops
  <2> QED
    BY SMTT(30), <2>1, ControlCells, PutDownCells
<1> QED
  BY <1>1 DEF ToDown

\* Closing a ConnState only discards cells.
LEMMA CloseCells ==
  ASSUME NEW i \in Hops, NEW n, NEW D \in Wires, NEW U \in Wires,
         DownCells(D), UpCells(U, n), Close(i, D, U)
  PROVE  DownCells(dn') /\ UpCells(up', n)
<1>1. ASSUME NEW j \in Hops
      PROVE  dn'[j] \in {D[j], <<>>} /\ up'[j] \in {U[j], <<>>}
  BY DEF Close, Wires
<1>2. Len(<<>>) = 0
  OBVIOUS
<1>3. DownCells(dn')
  BY <1>1, <1>2 DEF DownCells
<1>4. UpCells(up', n)
  BY <1>1, <1>2 DEF UpCells
<1> QED
  BY <1>3, <1>4
-----------------------------------------------------------------------------
(***************************************************************************)
(* Every step keeps the cells as they are to be.                           *)
(***************************************************************************)
LEMMA OwnOnionCells ==
  ASSUME NEW cmd \in Cmd, cmd # "CONNECT", NEW c \in Nat, NEW b \in Chunk, NEW room \in Nat
  PROVE  DownCell(1, Sealed(cmd, Onion(1, c), b, room))
<1> DEFINE l == Onion(1, c)
<1>1. l = [j \in 1 .. N |-> [hop |-> j, ctr |-> c]]
  BY DEF Onion
<1>2. l \in Seq(Layer)
  BY OnionType DEF Hops
<1>3. DOMAIN l = 1 .. Len(l)
  BY <1>2
<1>4. Len(l) = N
  BY <1>1, <1>2, <1>3
<1>5. \A k \in 1 .. N : l[k].hop = k
  BY <1>1
<1> HIDE DEF l
<1> QED
  BY <1>4, <1>5 DEF DownCell, Sealed, l

\* A proper cell written by the client keeps the cells on their way down proper.
LEMMA WriteCells ==
  ASSUME TypeOK, DownCells(dn), NEW c \in Cell, DownCell(1, c), NEW ok \in BOOLEAN, ClientWrites(c, ok)
  PROVE  DownCells(dn')
<1>1. 0 \in 0 .. N - 1 /\ DownCell(0 + 1, c)
  OBVIOUS
<1>2. DownCells(PutDown(dn, 0, c))
  BY <1>1, PutDownCells DEF TypeOK
<1> QED
  BY <1>2 DEF ClientWrites

\* The client's handler keeps every cell proper.
LEMMA CellsHandler ==
  ASSUME TypeOK, NEW n \in Nat, CellsAt(n), phase # "connect",
         Handler \/ SendData \/ AppCloses
  PROVE  CellsAt(n)'
<1> USE DEF wires, relays, exit, client, hist
<1>0. ctr.begin \in Nat /\ ctr.data \in Nat
  BY DEF TypeOK, Counters
<1>1. \A c \in Cell, ok \in BOOLEAN : DownCell(1, c) /\ ClientWrites(c, ok) => DownCells(dn')
  BY WriteCells DEF CellsAt
<1>2. CASE SendBegin
  <2>1. Cipher \in Chunk /\ "BEGIN" \in Cmd
    BY DEF Cipher, Chunk, Cmd
  <2>2. Sealed("BEGIN", Onion(1, ctr.begin), Cipher, N) \in Cell
    BY <1>0, <2>1, OwnOnionType
  <2>3. DownCell(1, Sealed("BEGIN", Onion(1, ctr.begin), Cipher, N))
    BY <1>0, <2>1, OwnOnionCells
  <2>4. DownCells(dn')
    BY <1>1, <1>2, <2>2, <2>3 DEF SendBegin
  <2> QED
    BY <1>2, <2>4 DEF CellsAt, SendBegin
<1>3. CASE SendData
  <2>1. App(sent + 1) \in Chunk /\ "DATA" \in Cmd
    BY DEF App, Chunk, Cmd, TypeOK
  <2>2. ASSUME NEW room \in Rooms
        PROVE  /\ Sealed("DATA", Onion(1, ctr.data), App(sent + 1), room) \in Cell
               /\ DownCell(1, Sealed("DATA", Onion(1, ctr.data), App(sent + 1), room))
    BY <1>0, <2>1, OwnOnionType, OwnOnionCells
  <2>3. PICK room \in Rooms :
          \/ UNCHANGED dn
          \/ \E ok \in BOOLEAN :
               ClientWrites(Sealed("DATA", Onion(1, ctr.data), App(sent + 1), room), ok)
    BY <1>3 DEF SendData
  <2>4. DownCells(dn')
    BY <1>1, <2>2, <2>3 DEF CellsAt
  <2> QED
    BY <1>3, <2>4 DEF CellsAt, SendData
<1>4. ASSUME NEW sid \in {0, 1}
      PROVE  Control("END", sid) \in Cell /\ DownCell(1, Control("END", sid))
  <2>1. 1 \in Hops /\ "END" \in Cmd /\ Control("END", sid).cmd = "END"
    BY DEF Hops, Cmd, Control
  <2> QED
    BY <2>1, ControlType, ControlCells
<1>5. CASE SendEnd
  <2>1. DownCells(dn')
    BY <1>1, <1>4, <1>5 DEF SendEnd
  <2> QED
    BY <1>5, <2>1 DEF CellsAt, SendEnd
<1>6. CASE SendEndAll
  <2>1. DownCells(dn')
    BY <1>1, <1>4, <1>6 DEF SendEndAll
  <2> QED
    BY <1>6, <2>1 DEF CellsAt, SendEndAll
<1>7. CASE OpenStream \/ SockClosed \/ AppCloses
  BY <1>7 DEF CellsAt, OpenStream, SockClosed, AppCloses
<1>8. ~SendConnect
  BY DEF SendConnect
<1> QED
  BY <1>2, <1>3, <1>5, <1>6, <1>7, <1>8 DEF Handler

\* The receive loop only takes cells away.
LEMMA CellsRecvLoop ==
  ASSUME TypeOK, NEW n \in Nat, CellsAt(n), RecvLoop
  PROVE  CellsAt(n)'
<1> USE DEF wires, relays, exit, client, hist
<1>1. CASE RecvCell
  <2>1. PICK i \in Hops : i = 1
    BY DEF Hops
  <2>2. up[i] \in Seq(Cell) /\ up[i] # <<>>
    BY <1>1, <2>1 DEF RecvCell, TypeOK, Wires
  <2>3. UpCells([up EXCEPT ![i] = Tail(@)], n)
    BY <2>2, TailUpCells DEF CellsAt, TypeOK
  <2> QED
    BY <1>1, <2>1, <2>3 DEF CellsAt, RecvCell
<1>2. CASE RecvEOF
  BY <1>2 DEF CellsAt, RecvEOF
<1> QED
  BY <1>1, <1>2 DEF RecvLoop

\* A ServeConn goroutine, whichever side it reads, keeps every cell proper.
LEMMA CellsServeConn ==
  ASSUME TypeOK, TypeOK', Plain, NEW n \in Nat, n = st[N].updata, CellsAt(n),
         NEW i \in Hops, NEW s \in Sides, ServeConn(i, s)
  PROVE  CellsAt(n)'
<1> USE DEF wires, relays, exit, client, hist
<1> DEFINE c == Head(Inbox(i, s))
           j == job[i][s]
<1>0. /\ DownCells(dn) /\ UpCells(up, n) /\ dn \in Wires /\ up \in Wires
      /\ UpJob(i, job[i]["up"]) /\ DownJob(i, job[i]["down"], n)
      /\ j \in Job /\ SentJob(i, j, n) /\ (HasDown(i) => i < N)
  <2>1. j \in Job
    BY DEF TypeOK, Jobs
  <2>2. HasDown(i) => i < N
    BY DEF Plain, HasDown
  <2> QED
    BY <2>1, <2>2 DEF CellsAt, TypeOK
\* What a step that reads a cell finds and leaves.
<1>r. ASSUME NEW cmds, Reads(i, s, cmds)
      PROVE  /\ c \in Cell /\ c.cmd \in cmds
             /\ DnRead(i, s) \in Wires /\ UpRead(i, s) \in Wires
             /\ DownCells(DnRead(i, s)) /\ UpCells(UpRead(i, s), n)
             /\ s = "up" => DownCell(i, c)
             /\ s = "down" => i < N /\ UpCell(i + 1, c, n)
  BY <1>r, <1>0, ReadsType, ReadCells DEF Reads
\* What a step that changes no job has to show.
<1>w. ASSUME DownCells(dn'), UpCells(up', n), job' = job
      PROVE  CellsAt(n)'
  BY <1>w DEF CellsAt
\* What a step that changes the job of this goroutine has to show.
<1>j. ASSUME DownCells(dn'), UpCells(up', n), NEW k, job' = [job EXCEPT ![i][s] = k],
             IF s = "up" THEN UpJob(i, k) ELSE DownJob(i, k, n), SentJob(i, k, n)
      PROVE  CellsAt(n)'
  BY <1>j DEF CellsAt, TypeOK, Jobs, Sides
<1>i. UpJob(i, Idle) /\ DownJob(i, Idle, n) /\ SentJob(i, Idle, n)
  BY DEF Idle, UpJob, DownJob, SentJob
<1> HIDE DEF c, j
<1>1. CASE ServeStop(i, s)
  <2>1. s = "down" => i + 1 \in Hops
    BY <1>1 DEF ServeStop, Serves, Hops
  <2>2. \A h \in Hops : dn'[h] \in {dn[h], <<>>} /\ up'[h] \in {up[h], <<>>}
    BY <1>0, <1>1, <2>1 DEF ServeStop, Wires
  <2>3. Len(<<>>) = 0
    OBVIOUS
  <2>4. DownCells(dn') /\ UpCells(up', n)
    BY SMTT(30), <1>0, <2>2, <2>3 DEF DownCells, UpCells
  <2> QED
    BY <1>1, <1>w, <2>4 DEF ServeStop
<1>2. CASE ForwardSetup(i, s)
  <2>1. /\ c \in Cell /\ c.cmd \in {"BEGIN", "CONNECT"} /\ i < N
        /\ DnRead(i, s) \in Wires /\ DownCells(DnRead(i, s)) /\ UpCells(UpRead(i, s), n)
        /\ s = "down" => UpCell(i + 1, c, n)
    BY <1>2, <1>r DEF ForwardSetup
  <2>2. s = "up"
    BY <2>1 DEF UpCell, Sides
  <2>3. DownCell(i, c)
    BY <1>2, <1>r, <2>2 DEF ForwardSetup
  <2>4. Opens(c, i, st[i].begin) => DownCells(PutDown(DnRead(i, s), i, Peel(c)))
    <3>1. i \in 0 .. N - 1
      BY <2>1 DEF Hops
    <3> QED
      BY <2>1, <2>3, <3>1, PeelType, PeelCells, PutDownCells DEF Opens
  <2>5. DownCells(dn') /\ UpCells(up', n)
    BY <1>2, <2>1, <2>4 DEF ForwardSetup, c
  <2> QED
    BY <1>2, <1>w, <2>5 DEF ForwardSetup
<1>3. CASE BeginAck(i, s)
  <2>1. /\ c \in Cell /\ c.cmd = "BEGIN_ACK"
        /\ DownCells(DnRead(i, s)) /\ UpCells(UpRead(i, s), n) /\ UpRead(i, s) \in Wires
    BY <1>3, <1>r DEF BeginAck
  <2>2. UpCells(PutUp(UpRead(i, s), i, c), n)
    BY <2>1, ControlCells, PutUpCells
  <2> QED
    BY <1>3, <1>w, <2>1, <2>2 DEF BeginAck, c
<1>4. CASE EndStream(i, s)
  <2>1. /\ c \in Cell /\ c.cmd = "END" /\ DnRead(i, s) \in Wires
        /\ DownCells(DnRead(i, s)) /\ UpCells(UpRead(i, s), n)
    BY <1>4, <1>r DEF EndStream
  <2>2. DownCells(ToDown(i, DnRead(i, s), c))
    BY <2>1, ToDownCells
  <2> QED
    BY <1>4, <1>w, <2>1, <2>2 DEF EndStream, c
<1>5. CASE EndCircuit(i, s)
  <2>1. /\ c \in Cell /\ c.cmd \in {"END", "DESTROY"} /\ DnRead(i, s) \in Wires
        /\ DownCells(DnRead(i, s)) /\ UpCells(UpRead(i, s), n) /\ UpRead(i, s) \in Wires
    BY <1>5, <1>r DEF EndCircuit
  <2>2. DownCells(ToDown(i, DnRead(i, s), c)) /\ ToDown(i, DnRead(i, s), c) \in Wires
    BY <2>1, ToDownCells, ToDownType
  <2>3. Close(i, ToDown(i, DnRead(i, s), c), UpRead(i, s))
    BY <1>5 DEF EndCircuit, c
  <2>4. DownCells(dn') /\ UpCells(up', n)
    BY <2>1, <2>2, <2>3, CloseCells
  <2> QED
    BY <1>5, <1>w, <2>4 DEF EndCircuit
<1>6. CASE TakeData(i, s)
  <2> DEFINE k == [pc |-> "open", cell |-> c, nonce |-> st[i].data]
  <2>1. /\ c.cmd = "DATA" /\ DownCells(DnRead(i, s)) /\ UpCells(UpRead(i, s), n)
        /\ s = "up" => DownCell(i, c)
        /\ s = "down" => i < N /\ UpCell(i + 1, c, n)
    BY <1>6, <1>r DEF TakeData
  <2>2. job' = [job EXCEPT ![i][s] = k] /\ DownCells(dn') /\ UpCells(up', n)
    BY <1>6, <2>1 DEF TakeData, c
  <2>3. (IF s = "up" THEN UpJob(i, k) ELSE DownJob(i, k, n)) /\ SentJob(i, k, n)
    BY <2>1 DEF UpJob, DownJob, SentJob, Sides
  <2> HIDE DEF k
  <2> QED
    BY <1>j, <2>2, <2>3
<1>7. CASE ForwardData(i, s)
  <2>1. j.pc = "open" /\ j.cell \in Cell /\ Opens(j.cell, i, j.nonce) /\ i < N
    BY <1>0, <1>7 DEF ForwardData, OpensData, Job, j
  <2>2. s = "up"
    <3>1. ASSUME s = "down"
          PROVE  FALSE
      <4>1. j.cell.cmd = "DATA" /\ UpCell(i + 1, j.cell, n)
        BY <1>0, <2>1, <3>1 DEF DownJob, j
      <4>2. j.cell.layers[1].hop = i + 1 /\ j.cell.layers \in Seq(Layer)
        BY <2>1, <4>1 DEF UpCell, Cell
      <4>3. j.cell.layers[1].hop = i
        BY <2>1, <4>2 DEF Opens
      <4> QED
        BY <4>2, <4>3 DEF Hops
    <3> QED
      BY <3>1 DEF Sides
  <2>3. DownCell(i, j.cell) /\ j.cell.layers # <<>>
    BY <1>0, <2>1, <2>2 DEF UpJob, Opens, j
  <2>4. DownCells(PutDown(dn, i, Peel(j.cell)))
    <3>1. i \in 0 .. N - 1
      BY <2>1 DEF Hops
    <3> QED
      BY <1>0, <2>1, <2>3, <3>1, PeelType, PeelCells, PutDownCells
  <2>5. DownCells(dn') /\ UpCells(up', n) /\ job' = [job EXCEPT ![i][s] = Idle]
    BY <1>0, <1>7, <2>4 DEF ForwardData, j
  <2> QED
    BY <1>i, <1>j, <2>5
<1>8. CASE FailData(i, s)
  <2> DEFINE k == [j EXCEPT !.pc = "seal", !.nonce = st[i].updata]
  <2>1. /\ j.pc = "open" /\ DownCells(dn') /\ UpCells(up', n)
        /\ job' = [job EXCEPT ![i][s] = IF HasDown(i) THEN k ELSE Idle]
    BY <1>0, <1>8 DEF FailData, j
  <2>2. k.pc = "seal" /\ k.cell = j.cell
    BY <1>0 DEF Job
  <2>3. ASSUME HasDown(i)
        PROVE  (IF s = "up" THEN UpJob(i, k) ELSE DownJob(i, k, n)) /\ SentJob(i, k, n)
    <3>1. i < N
      BY <1>0, <2>3
    <3> QED
      BY <1>0, <2>1, <2>2, <3>1 DEF UpJob, DownJob, SentJob, Sides, j
  <2> HIDE DEF k
  <2>4. CASE HasDown(i)
    BY <1>j, <2>1, <2>3, <2>4
  <2>5. CASE ~HasDown(i)
    BY <1>i, <1>j, <2>1, <2>5
  <2> QED
    BY <2>4, <2>5
<1>9. CASE SealData(i, s)
  <2>1. j.pc = "seal" /\ j.cell \in Cell /\ j.cell.cmd = "DATA" /\ j.nonce \in Nat /\ i < N
    BY <1>0, <1>9 DEF SealData, UpJob, DownJob, Job, Sides, j
  <2>2. UpCell(i, Seal(j.cell, i, j.nonce), n)
    <3>1. CASE s = "up"
      <4>1. DownCell(i, j.cell)
        BY <1>0, <2>1, <3>1 DEF UpJob, j
      <4> QED
        BY <2>1, <4>1, SentBack
    <3>2. CASE s = "down"
      <4>1. UpCell(i + 1, j.cell, n)
        BY <1>0, <2>1, <3>2 DEF DownJob, j
      <4> QED
        BY <2>1, <4>1, SentOn
    <3> QED
      BY <3>1, <3>2 DEF Sides
  <2> DEFINE k == [j EXCEPT !.pc = "send", !.cell = Seal(j.cell, i, j.nonce)]
  <2>3. k.pc = "send" /\ k.cell = Seal(j.cell, i, j.nonce)
    BY <1>0 DEF Job
  <2>4. DownCells(dn') /\ UpCells(up', n) /\ job' = [job EXCEPT ![i][s] = k]
    BY <1>0, <1>9 DEF SealData, j
  <2> HIDE DEF k
  <2>5. UpJob(i, k) /\ DownJob(i, k, n) /\ SentJob(i, k, n)
    BY <2>2, <2>3 DEF UpJob, DownJob, SentJob
  <2> QED
    BY <1>j, <2>4, <2>5
<1>10. CASE SendSealed(i, s)
  <2>1. j.cell \in Cell /\ UpCell(i, j.cell, n)
    BY <1>0, <1>10 DEF SendSealed, SentJob, Job, j
  <2>2. UpCells(PutUp(up, i, j.cell), n)
    BY <1>0, <2>1, PutUpCells
  <2>3. DownCells(dn') /\ UpCells(up', n) /\ job' = [job EXCEPT ![i][s] = Idle]
    BY <1>0, <1>10, <2>2 DEF SendSealed, j
  <2> QED
    BY <1>i, <1>j, <2>3
<1> QED
  BY <1>1, <1>2, <1>3, <1>4, <1>5, <1>6, <1>7, <1>8, <1>9, <1>10 DEF ServeConn

\* What only the exit does keeps every cell proper.
LEMMA CellsServeExit ==
  ASSUME TypeOK, Plain, NEW n \in Nat, n = st[N].updata, CellsAt(n), ServeExit
  PROVE  CellsAt(n)'
<1> USE DEF wires, relays, exit, client, hist
<1>0. N \in Hops /\ "up" \in Sides /\ Inbox(N, "up") = dn[N] /\ ~st[N].hidden
  BY DEF Hops, Sides, Inbox, Plain
<1>1. /\ DownCells(dn) /\ UpCells(up, n) /\ up \in Wires
      /\ UpJob(N, job[N]["up"])
  BY <1>0 DEF CellsAt, TypeOK
<1>i. ASSUME DownCells(dn'), UpCells(up', n), NEW k, job' = [job EXCEPT ![N]["up"] = k],
             UpJob(N, k), k.pc # "send"
      PROVE  CellsAt(n)'
  BY <1>0, <1>i DEF CellsAt, SentJob, TypeOK, Jobs, Sides
<1>2. UpJob(N, Idle) /\ Idle.pc # "send"
  BY DEF Idle, UpJob
<1>u. ASSUME NEW cmd \in {"BEGIN_ACK", "DESTROY"}, NEW sid \in {0, 1}
      PROVE  UpCells(PutUp(up, N, Control(cmd, sid)), n)
  <2>1. Control(cmd, sid).cmd = cmd /\ cmd \in Cmd
    BY DEF Control, Cmd
  <2>2. Control(cmd, sid) \in Cell /\ UpCell(N, Control(cmd, sid), n)
    BY <1>0, <2>1, ControlType, ControlCells
  <2> QED
    BY <1>0, <1>1, <2>2, PutUpCells
<1>3. CASE StartDial
  <2> DEFINE c == Head(dn[N])
             k == [pc |-> "dial", cell |-> c, nonce |-> 0]
  <2>1. Reads(N, "up", {"BEGIN", "CONNECT"})
    BY <1>3 DEF StartDial
  <2>2. DownCells(DnRead(N, "up")) /\ UpCells(UpRead(N, "up"), n) /\ DownCell(N, c)
    BY <1>0, <1>1, <2>1, ReadCells
  <2>3. UpJob(N, k) /\ k.pc # "send"
    BY <2>2 DEF UpJob, DownCell
  <2>4. DownCells(dn') /\ UpCells(up', n)
    BY <1>1, <1>3, <2>2 DEF StartDial
  <2>5. job' = [job EXCEPT ![N]["up"] = k] \/ job' = job
    BY <1>3 DEF StartDial
  <2> HIDE DEF k
  <2>6. CASE job' = [job EXCEPT ![N]["up"] = k]
    BY <1>i, <2>3, <2>4, <2>6
  <2>7. CASE job' = job
    BY <2>4, <2>7 DEF CellsAt
  <2> QED
    BY <2>5, <2>6, <2>7
<1>4. CASE Dialled
  <2>1. UpCells(up', n) /\ DownCells(dn')
    BY <1>1, <1>4, <1>u DEF Dialled
  <2> QED
    BY <1>2, <1>4, <1>i, <2>1 DEF Dialled, DialReturns
<1>5. CASE DialRefused
  <2>1. UpCells(up', n) /\ DownCells(dn')
    BY <1>1, <1>5, <1>u DEF DialRefused
  <2> QED
    BY <1>2, <1>5, <1>i, <2>1 DEF DialRefused, DialReturns
<1>6. ~HiddenDialled /\ ~HiddenRefused
  BY <1>1 DEF HiddenDialled, HiddenRefused, Dialling, UpJob
<1>7. ~BeginHidden
  BY <1>0 DEF BeginHidden
<1>8. CASE DeliverData
  <2>1. UpCells(up', n) /\ DownCells(dn')
    BY <1>1, <1>8, <1>u DEF DeliverData
  <2> QED
    BY <1>2, <1>8, <1>i, <2>1 DEF DeliverData
<1> QED
  BY <1>3, <1>4, <1>5, <1>6, <1>7, <1>8 DEF ServeExit

\* Every cell stays proper when the exit seals more.
LEMMA CellsMono ==
  ASSUME TypeOK, NEW n \in Nat, NEW m \in Nat, n <= m, CellsAt(n)
  PROVE  CellsAt(m)
<1>1. ASSUME NEW i \in Hops, NEW k \in 1 .. Len(up[i])
      PROVE  UpCell(i, up[i][k], m)
  <2>1. up[i][k] \in Cell /\ UpCell(i, up[i][k], n)
    BY DEF CellsAt, UpCells, TypeOK, Wires
  <2> QED
    BY <2>1, UpCellMono
<1>2. ASSUME NEW i \in Hops
      PROVE  DownJob(i, job[i]["down"], m)
  <2>1. job[i]["down"].cell \in Cell
    BY DEF TypeOK, Jobs, Job, Sides
  <2>2. DownJob(i, job[i]["down"], n)
    BY DEF CellsAt
  <2>3. ASSUME i < N
        PROVE  i + 1 \in Hops
    BY <2>3 DEF Hops
  <2> QED
    BY <2>1, <2>2, <2>3, UpCellMono DEF DownJob
<1>3. ASSUME NEW i \in Hops, NEW s \in Sides
      PROVE  SentJob(i, job[i][s], m)
  <2>1. job[i][s].cell \in Cell
    BY DEF TypeOK, Jobs, Job
  <2>2. SentJob(i, job[i][s], n)
    BY DEF CellsAt
  <2> QED
    BY <2>1, <2>2, UpCellMono DEF SentJob
<1> QED
  BY <1>1, <1>2, <1>3 DEF CellsAt, UpCells

\* forwardUpstream moves the exit's counter on, and numbers what it sends.
LEMMA CellsForwardUpstream ==
  ASSUME TypeOK, TypeOK', NEW n \in Nat, n = st[N].updata, CellsAt(n), Numbered,
         FwdRead \/ ForwardUpstream
  PROVE  CellsAt(st[N].updata)' /\ Numbered'
<1> USE DEF wires, relays, exit, client, hist
<1>0. N \in Hops /\ DownCells(dn) /\ UpCells(up, n) /\ up \in Wires
  BY DEF Hops, CellsAt, TypeOK
<1>1. CASE FwdRead
  BY <1>1 DEF FwdRead, CellsAt, Numbered, TypeOK, Upstream
<1>2. CASE FwdEnd
  <2>1. Control("END", 1) \in Cell /\ UpCell(N, Control("END", 1), n)
    <3>1. Control("END", 1).cmd = "END" /\ "END" \in Cmd
      BY DEF Control, Cmd
    <3> QED
      BY <1>0, <3>1, ControlType, ControlCells
  <2>2. UpCells(up', n)
    BY <1>0, <1>2, <2>1, PutUpCells DEF FwdEnd
  <2>3. CellsAt(st[N].updata)'
    BY <1>2, <2>2 DEF FwdEnd, CellsAt
  <2>4. Numbered'
    BY <1>2 DEF FwdEnd, Numbered, TypeOK, Upstream
  <2> QED
    BY <2>3, <2>4
<1>3. CASE FwdSeal
  <2> DEFINE c == Sealed("DATA", <<>>, Svc(fwd.no), fwd.room)
  <2>1. fwd.pc = "seal" /\ fwd.nonce = n /\ fwd.no = n + 1 /\ replied = n + 1 /\ fwd.room \in Nat
    BY <1>3 DEF FwdSeal, Numbered, TypeOK, Upstream
  <2>2. c \in Cell /\ c.cmd = "DATA" /\ Len(c.layers) = 0 /\ c.body = Svc(fwd.no)
    <3>1. <<>> \in Seq(Layer) /\ "DATA" \in Cmd /\ Len(<<>>) = 0
      BY DEF Cmd
    <3>2. Svc(fwd.no) \in Chunk
      BY <2>1 DEF Svc, Chunk
    <3> QED
      BY <2>1, <3>1, <3>2, SealedType DEF Sealed
  <2> HIDE DEF c
  <2>3. UpCell(N, Seal(c, N, n), fwd.no) /\ Seal(c, N, n) \in Cell
    BY <1>0, <2>1, <2>2, SentFirst, SealType
  <2>4. st' = [st EXCEPT ![N].updata = n + 1]
    <3>1. Bumped(fwd.nonce, st[N].updata) = {n + 1}
      BY <2>1 DEF Bumped
    <3> QED
      BY <1>3, <3>1 DEF FwdSeal
  <2>5. st'[N].updata = n + 1
    BY <1>0, <2>4 DEF TypeOK, Relays, ConnState
  <2>6. CellsAt(fwd.no)
    BY <2>1, CellsMono
  <2>7. UpCells(up', fwd.no)
    <3>1. UpCells(PutUp(up, N, Seal(c, N, n)), fwd.no)
      BY <1>0, <2>3, <2>6, PutUpCells DEF CellsAt
    <3> QED
      BY <1>3, <2>1, <2>6, <3>1 DEF FwdSeal, CellsAt, c
  <2>8. CellsAt(st[N].updata)'
    BY <1>3, <2>1, <2>5, <2>6, <2>7 DEF FwdSeal, CellsAt
  <2>9. Numbered'
    BY <1>3, <2>1, <2>5 DEF FwdSeal, Numbered, TypeOK, Upstream
  <2> QED
    BY <2>8, <2>9
<1> QED
  BY <1>1, <1>2, <1>3 DEF ForwardUpstream

\* Collected entries, resets and a closing target only discard cells.
LEMMA CellsEnvironment ==
  ASSUME TypeOK, NEW n \in Nat, CellsAt(n),
         \/ TargetCloses \/ HiddenServeRead \/ HiddenServeStop
         \/ \E i \in Hops : Expire(i) \/ ResetDn(i) \/ ResetUp(i)
  PROVE  CellsAt(n)'
<1> USE DEF wires, relays, exit, client, hist
<1>0. Len(<<>>) = 0 /\ DownCells(dn) /\ UpCells(up, n) /\ dn \in Wires /\ up \in Wires
  BY DEF CellsAt, TypeOK
<1>1. CASE TargetCloses \/ HiddenServeRead \/ HiddenServeStop
  BY <1>1 DEF CellsAt, TargetCloses, HiddenServeRead, HiddenServeStop
<1>2. ASSUME NEW i \in Hops, Expire(i)
      PROVE  CellsAt(n)'
  <2>1. DownCells(dn') /\ UpCells(up', n)
    BY <1>0, <1>2, CloseCells DEF Expire
  <2> QED
    BY <1>2, <2>1 DEF CellsAt, Expire
<1>3. ASSUME NEW i \in Hops, ResetDn(i)
      PROVE  CellsAt(n)'
  <2>1. DownCells([dn EXCEPT ![i] = <<>>])
    BY <1>0 DEF DownCells, Wires
  <2> QED
    BY <1>3, <2>1 DEF CellsAt, ResetDn
<1>4. ASSUME NEW i \in Hops, ResetUp(i)
      PROVE  CellsAt(n)'
  <2>1. UpCells([up EXCEPT ![i] = <<>>], n)
    BY <1>0 DEF UpCells, Wires
  <2> QED
    BY <1>4, <2>1 DEF CellsAt, ResetUp
<1> QED
  BY <1>1, <1>2, <1>3, <1>4

\* Only forwardUpstream moves the exit's upstream counter, and only it reads the target.
LEMMA CounterKept ==
  ASSUME TypeOK, Plain, NEW n \in Nat, n = st[N].updata, CellsAt(n), BeginOnce, Next,
         ~FwdRead, ~ForwardUpstream
  PROVE  st'[N].updata = n /\ replied' = replied
         /\ (fwd' = fwd \/ (fwd.pc = "off" /\ fwd' = [fwd EXCEPT !.pc = "read"]))
<1> USE DEF wires, relays, exit, client, hist
<1>0. N \in Hops /\ UpJob(N, job[N]["up"]) /\ DownJob(N, job[N]["down"], n) /\ ~st[N].hidden
  BY DEF Hops, CellsAt, Plain
<1>1. CASE Handler \/ RecvLoop \/ SendData \/ AppCloses
  BY <1>1 DEF Handler, RecvLoop, SendConnect, OpenStream, SendBegin, SendData, AppCloses,
              SockClosed, SendEnd, SendEndAll, RecvCell, RecvEOF
<1>2. ASSUME NEW i \in Hops, NEW s \in Sides, ServeConn(i, s)
      PROVE  /\ st'[N].updata = n /\ replied' = replied /\ fwd' = fwd
  <2>1. CASE ServeStop(i, s) \/ BeginAck(i, s) \/ TakeData(i, s)
    BY <2>1 DEF ServeStop, BeginAck, TakeData
  <2>2. CASE ForwardSetup(i, s)
    BY <1>0, <2>2 DEF ForwardSetup, TypeOK, Relays, ConnState
  <2>3. CASE EndStream(i, s)
    BY <1>0, <2>3 DEF EndStream, TypeOK, Relays, ConnState
  <2>7. CASE EndCircuit(i, s)
    BY <1>0, <2>7 DEF EndCircuit, TypeOK, Relays, ConnState
  <2>4. CASE ForwardData(i, s)
    BY <1>0, <2>4 DEF ForwardData, TypeOK, Relays, ConnState
  <2>5. CASE FailData(i, s)
    BY <1>0, <2>5 DEF FailData, TypeOK, Relays, ConnState
  <2>6. CASE SealData(i, s)
    <3>1. i # N
      BY <1>0, <2>6 DEF SealData, UpJob, DownJob, Sides
    <3> QED
      BY <1>0, <2>6, <3>1 DEF SealData, TypeOK, Relays
  <2>8. CASE SendSealed(i, s)
    BY <2>8 DEF SendSealed
  <2> QED
    BY <1>2, <2>1, <2>2, <2>3, <2>4, <2>5, <2>6, <2>7, <2>8 DEF ServeConn
<1>3. CASE ServeExit
  <2>1. CASE StartDial
    BY <1>0, <2>1 DEF StartDial, TypeOK, Relays, ConnState
  <2>2. CASE Dialled
    BY <2>2 DEF Dialled, Dialling, FwdStarts, BeginOnce
  <2>3. CASE DialRefused
    BY <2>3 DEF DialRefused
  <2>4. ~HiddenDialled /\ ~HiddenRefused /\ ~BeginHidden
    BY <1>0 DEF HiddenDialled, HiddenRefused, BeginHidden, Dialling, UpJob
  <2>5. CASE DeliverData
    BY <1>0, <2>5 DEF DeliverData, TypeOK, Relays, ConnState
  <2> QED
    BY <1>3, <2>1, <2>2, <2>3, <2>4, <2>5 DEF ServeExit
<1>4. CASE TargetCloses \/ HiddenServeRead \/ HiddenServeStop
  BY <1>4 DEF Plain, TargetCloses, HiddenServeRead, HiddenServeStop
<1>5. CASE \E i \in Hops : Expire(i) \/ ResetDn(i) \/ ResetUp(i)
  BY <1>5 DEF Expire, ResetDn, ResetUp
<1> QED
  BY <1>1, <1>2, <1>3, <1>4, <1>5 DEF Next

\* Every step keeps every cell proper and the exit's chunks numbered by their nonces.
LEMMA CellsNext ==
  ASSUME TypeOK, TypeOK', Plain, CellsAt(st[N].updata), BeginOnce, Numbered,
         phase # "connect", Next
  PROVE  CellsAt(st[N].updata)' /\ Numbered'
<1>1. PICK n \in Nat : n = st[N].updata
  BY DEF TypeOK, Relays, ConnState, Hops
<1>2. CellsAt(n)
  BY <1>1
<1>3. CASE FwdRead \/ ForwardUpstream
  BY <1>1, <1>2, <1>3, CellsForwardUpstream
<1>4. CASE ~FwdRead /\ ~ForwardUpstream
  <2>1. st'[N].updata = n /\ replied' = replied
         /\ (fwd' = fwd \/ (fwd.pc = "off" /\ fwd' = [fwd EXCEPT !.pc = "read"]))
    BY <1>1, <1>2, <1>4, CounterKept
  <2>2. ASSUME NEW i \in Hops, NEW s \in Sides, ServeConn(i, s)
        PROVE  CellsAt(n)'
    BY <1>1, <1>2, <2>2, CellsServeConn
  <2>3. ASSUME \/ TargetCloses \/ HiddenServeRead \/ HiddenServeStop
               \/ \E i \in Hops : Expire(i) \/ ResetDn(i) \/ ResetUp(i)
        PROVE  CellsAt(n)'
    BY <1>2, <2>3, CellsEnvironment
  <2>4. ASSUME Handler \/ SendData \/ AppCloses
        PROVE  CellsAt(n)'
    BY <1>2, <2>4, CellsHandler
  <2>5. CellsAt(n)'
    BY <1>1, <1>2, <1>4, <2>2, <2>3, <2>4, CellsRecvLoop, CellsServeExit DEF Next
  <2>6. Numbered'
    BY <1>1, <2>1 DEF Numbered, TypeOK, Upstream
  <2> QED
    BY <2>1, <2>5, <2>6 DEF CellsAt
<1> QED
  BY <1>3, <1>4
-----------------------------------------------------------------------------
(***************************************************************************)
(* No relay turns to a hidden service, and there is one BEGIN.             *)
(***************************************************************************)
LEMMA PlainNext ==
  ASSUME TypeOK, Plain, CellsAt(st[N].updata), Next
  PROVE  Plain'
<1> USE DEF wires, relays, exit, client, hist
<1>0. N \in Hops /\ UpJob(N, job[N]["up"]) /\ ~st[N].hidden /\ ~HasDown(N)
  BY DEF Hops, CellsAt, Plain, HasDown
<1>1. CASE Handler \/ RecvLoop \/ SendData \/ AppCloses
  BY <1>1 DEF Plain, Handler, RecvLoop, SendConnect, OpenStream, SendBegin, SendData,
              AppCloses, SockClosed, SendEnd, SendEndAll, RecvCell, RecvEOF
<1>2. ASSUME NEW i \in Hops, NEW s \in Sides, ServeConn(i, s)
      PROVE  Plain'
  <2>1. CASE ServeStop(i, s)
    BY <1>0, <2>1 DEF ServeStop, Serves, Plain, TypeOK, Servers, Sides
  <2>2. CASE BeginAck(i, s) \/ TakeData(i, s)
    BY <2>2 DEF BeginAck, TakeData, Plain
  <2>3. ASSUME NEW must, must => i < N
        PROVE  Serving(i, must)[N]["down"] = serve[N]["down"]
    BY <1>0, <2>3 DEF Serving, TypeOK, Servers, Sides
  <2>4. CASE ForwardSetup(i, s)
    <3>1. serve'[N]["down"] = serve[N]["down"]
      BY <2>3, <2>4 DEF ForwardSetup
    <3>2. \A h \in Hops : st'[h].hidden = st[h].hidden
      BY <2>4 DEF ForwardSetup, TypeOK, Relays, ConnState
    <3> QED
      BY <3>1, <3>2 DEF Plain
  <2>5. CASE EndStream(i, s)
    <3>1. serve'[N]["down"] = serve[N]["down"]
      <4>1. HasDown(i) => i < N
        BY <1>0 DEF HasDown, Plain
      <4>2. Serving(i, HasDown(i))[N]["down"] = serve[N]["down"]
        BY <2>3, <4>1
      <4> QED
        BY <2>5, <4>2 DEF EndStream
    <3>2. \A h \in Hops : st'[h].hidden = st[h].hidden
      BY <2>5 DEF EndStream, TypeOK, Relays, ConnState
    <3> QED
      BY <3>1, <3>2 DEF Plain
  <2>6. CASE EndCircuit(i, s)
    <3>1. serve'[N]["down"] = serve[N]["down"]
      <4> DEFINE must == HasDown(i) /\ Head(Inbox(i, s)).cmd = "END"
      <4>1. must => i < N
        BY <1>0 DEF HasDown, Plain
      <4>2. serve' = Serving(i, must)
        BY <2>6 DEF EndCircuit
      <4> HIDE DEF must
      <4> QED
        BY <2>3, <4>1, <4>2
    <3>2. \A h \in Hops : st'[h].hidden = st[h].hidden
      BY <2>6 DEF EndCircuit, TypeOK, Relays, ConnState
    <3> QED
      BY <3>1, <3>2 DEF Plain
  <2>7. CASE ForwardData(i, s)
    <3>1. serve'[N]["down"] = serve[N]["down"]
      BY <2>3, <2>7 DEF ForwardData
    <3>2. \A h \in Hops : st'[h].hidden = st[h].hidden
      BY SMTT(30), <2>7 DEF ForwardData, TypeOK, Relays, ConnState
    <3> QED
      BY <3>1, <3>2 DEF Plain
  <2>8. CASE FailData(i, s)
    BY <2>8 DEF FailData, Plain, TypeOK, Relays, ConnState
  <2>9. CASE SealData(i, s)
    BY <2>9 DEF SealData, Plain, TypeOK, Relays, ConnState
  <2>10. CASE SendSealed(i, s)
    BY <2>10 DEF SendSealed, Plain
  <2> QED
    BY <1>2, <2>1, <2>2, <2>4, <2>5, <2>6, <2>7, <2>8, <2>9, <2>10 DEF ServeConn
<1>3. CASE ServeExit
  <2>1. CASE StartDial
    BY <2>1 DEF StartDial, Plain, TypeOK, Relays, ConnState
  <2>2. CASE Dialled \/ DialRefused
    BY <2>2 DEF Dialled, DialRefused, Plain
  <2>3. ~HiddenDialled /\ ~HiddenRefused /\ ~BeginHidden
    BY <1>0 DEF HiddenDialled, HiddenRefused, BeginHidden, Dialling, UpJob
  <2>4. CASE DeliverData
    BY <2>4 DEF DeliverData, Plain, TypeOK, Relays, ConnState
  <2> QED
    BY <1>3, <2>1, <2>2, <2>3, <2>4 DEF ServeExit
<1>4. CASE FwdRead \/ FwdEnd
  BY <1>4 DEF FwdRead, FwdEnd, Plain
<1>5. CASE FwdSeal
  BY <1>5 DEF FwdSeal, Plain, TypeOK, Relays, ConnState
<1>6. CASE TargetCloses \/ HiddenServeRead \/ HiddenServeStop
  BY <1>6 DEF Plain, TargetCloses, HiddenServeRead, HiddenServeStop
<1>7. CASE \E i \in Hops : Expire(i) \/ ResetDn(i) \/ ResetUp(i)
  BY <1>7 DEF Expire, ResetDn, ResetUp, Plain
<1> QED
  BY <1>1, <1>2, <1>3, <1>4, <1>5, <1>6, <1>7 DEF Next, ForwardUpstream

\* The cells of E that are a BEGIN are cells of D, in their order.
Fewer(E, D) == (SingleBegin(D) => SingleBegin(E)) /\ (HasBegin(E) => HasBegin(D))

\* Reading adds no BEGIN, and reading the only one leaves none.
LEMMA BeginRead ==
  ASSUME TypeOK, NEW i \in Hops, NEW s \in Sides, NEW cmds, Reads(i, s, cmds)
  PROVE  /\ Fewer(DnRead(i, s), dn)
         /\ s = "up" /\ Head(dn[i]).cmd = "BEGIN" =>
              HasBegin(dn) /\ (SingleBegin(dn) => ~HasBegin(DnRead(i, s)))
<1>1. CASE s = "up"
  <2> DEFINE D == [dn EXCEPT ![i] = Tail(@)]
  <2>1. dn[i] \in Seq(Cell) /\ dn[i] # <<>> /\ DnRead(i, s) = D
    BY <1>1 DEF TypeOK, Wires, Reads, Inbox, DnRead
  <2>2. /\ \A j \in Hops : j # i => D[j] = dn[j]
        /\ Len(D[i]) = Len(dn[i]) - 1 /\ \A k \in 1 .. Len(D[i]) : D[i][k] = dn[i][k + 1]
    BY <2>1 DEF TypeOK, Wires
  <2>3. Len(dn[i]) \in Nat \ {0} /\ Head(dn[i]) = dn[i][1]
    BY <2>1
  <2> DEFINE Was(j, k) == IF j = i THEN k + 1 ELSE k
  <2> HIDE DEF D
  <2>w. ASSUME NEW j \in Hops, NEW k \in 1 .. Len(D[j])
        PROVE  Was(j, k) \in 1 .. Len(dn[j]) /\ dn[j][Was(j, k)] = D[j][k]
    BY SMTT(30), <2>2, <2>3
  <2>4. ASSUME SingleBegin(dn)
        PROVE  SingleBegin(D)
    <3>1. SUFFICES ASSUME NEW j \in Hops, NEW m \in Hops,
                          NEW k \in 1 .. Len(D[j]), NEW l \in 1 .. Len(D[m]),
                          D[j][k].cmd = "BEGIN", D[m][l].cmd = "BEGIN"
                   PROVE  j = m /\ k = l
      BY DEF SingleBegin
    <3>2. j = m /\ Was(j, k) = Was(m, l)
      <4> HIDE DEF Was
      <4>1. Was(j, k) \in 1 .. Len(dn[j]) /\ dn[j][Was(j, k)].cmd = "BEGIN"
        BY <2>w, <3>1
      <4>2. Was(m, l) \in 1 .. Len(dn[m]) /\ dn[m][Was(m, l)].cmd = "BEGIN"
        BY <2>w, <3>1
      <4> QED
        BY <2>4, <4>1, <4>2 DEF SingleBegin
    <3> QED
      BY <3>2
  <2>5. HasBegin(D) => HasBegin(dn)
    <3> HIDE DEF Was
    <3> QED
      BY SMTT(30), <2>w DEF HasBegin
  <2>6. ASSUME Head(dn[i]).cmd = "BEGIN"
        PROVE  HasBegin(dn) /\ (SingleBegin(dn) => ~HasBegin(D))
    <3>1. 1 \in 1 .. Len(dn[i]) /\ dn[i][1].cmd = "BEGIN"
      BY <2>3, <2>6
    <3>2. ASSUME SingleBegin(dn), NEW j \in Hops, NEW k \in 1 .. Len(D[j]), D[j][k].cmd = "BEGIN"
          PROVE  FALSE
      <4>1. j = i /\ Was(j, k) = 1
        <5> HIDE DEF Was
        <5>1. Was(j, k) \in 1 .. Len(dn[j]) /\ dn[j][Was(j, k)].cmd = "BEGIN"
          BY <2>w, <3>2
        <5>2. SingleBegin(dn)
          BY <3>2
        <5> QED
          BY <3>1, <5>1, <5>2 DEF SingleBegin
      <4> QED
        BY <4>1
    <3> QED
      BY <3>1, <3>2 DEF HasBegin
  <2> QED
    BY <2>1, <2>4, <2>5, <2>6 DEF Fewer
<1>2. CASE s = "down"
  BY <1>2 DEF DnRead, Fewer
<1> QED
  BY <1>1, <1>2 DEF Sides

\* Writing another command adds no BEGIN, and writing one where there is none leaves one.
LEMMA BeginPut ==
  ASSUME NEW D \in Wires, NEW i \in 0 .. N - 1, NEW c \in Cell
  PROVE  /\ c.cmd # "BEGIN" => Fewer(PutDown(D, i, c), D)
         /\ ~HasBegin(D) => SingleBegin(PutDown(D, i, c))
<1> DEFINE E == [D EXCEPT ![i+1] = Append(@, c)]
<1>1. PICK h \in Hops : h = i + 1
  BY DEF Hops
<1>2. /\ \A j \in Hops : j # h => E[j] = D[j]
      /\ Len(D[h]) \in Nat /\ Len(E[h]) = Len(D[h]) + 1 /\ E[h][Len(D[h]) + 1] = c
      /\ \A k \in 1 .. Len(D[h]) : E[h][k] = D[h][k]
  <2>1. D[h] \in Seq(Cell) /\ E = [D EXCEPT ![h] = Append(@, c)]
    BY <1>1 DEF Wires
  <2> HIDE DEF E
  <2> QED
    BY <2>1 DEF Wires
<1> HIDE DEF E
<1>3. ASSUME c.cmd # "BEGIN"
      PROVE  Fewer(E, D)
  <2>1. ASSUME NEW j \in Hops, NEW k \in 1 .. Len(E[j]), E[j][k].cmd = "BEGIN"
        PROVE  k \in 1 .. Len(D[j]) /\ D[j][k] = E[j][k]
    BY SMTT(30), <1>2, <1>3, <2>1
  <2>2. ASSUME SingleBegin(D)
        PROVE  SingleBegin(E)
    <3>1. SUFFICES ASSUME NEW j \in Hops, NEW m \in Hops,
                          NEW k \in 1 .. Len(E[j]), NEW l \in 1 .. Len(E[m]),
                          E[j][k].cmd = "BEGIN", E[m][l].cmd = "BEGIN"
                   PROVE  j = m /\ k = l
      BY DEF SingleBegin
    <3>2. k \in 1 .. Len(D[j]) /\ D[j][k].cmd = "BEGIN"
      BY <2>1, <3>1
    <3>3. l \in 1 .. Len(D[m]) /\ D[m][l].cmd = "BEGIN"
      BY <2>1, <3>1
    <3> QED
      BY <2>2, <3>2, <3>3 DEF SingleBegin
  <2>3. HasBegin(E) => HasBegin(D)
    BY <2>1 DEF HasBegin
  <2> QED
    BY <2>2, <2>3 DEF Fewer
<1>4. ASSUME ~HasBegin(D)
      PROVE  SingleBegin(E)
  <2>1. ASSUME NEW j \in Hops, NEW k \in 1 .. Len(E[j]), E[j][k].cmd = "BEGIN"
        PROVE  j = h /\ k = Len(D[h]) + 1
    <3>1. ~(k \in 1 .. Len(D[j]) /\ D[j][k] = E[j][k])
      BY <1>4, <2>1 DEF HasBegin
    <3> QED
      BY SMTT(30), <1>2, <2>1, <3>1
  <2> QED
    BY <2>1 DEF SingleBegin
<1>5. PutDown(D, i, c) \in {D, E}
  BY DEF PutDown, E
<1>6. Fewer(D, D) /\ (~HasBegin(D) => SingleBegin(D))
  BY DEF Fewer, HasBegin, SingleBegin
<1> QED
  BY <1>3, <1>4, <1>5, <1>6

\* Discarding queues adds no BEGIN.
LEMMA BeginDrop ==
  ASSUME NEW D, NEW E, \A j \in Hops : E[j] \in {D[j], <<>>}
  PROVE  Fewer(E, D)
<1>1. Len(<<>>) = 0
  OBVIOUS
<1>2. \A j \in Hops : \A k \in 1 .. Len(E[j]) : E[j] = D[j]
  BY <1>1
<1> QED
  BY SMTT(30), <1>2 DEF Fewer, SingleBegin, HasBegin

\* What a step that makes no BEGIN has to show.
LEMMA BeginFrame ==
  ASSUME BeginOnce, Fewer(dn', dn),
         phase' \in {"open", "begin"} => phase \in {"open", "begin"},
         job'[N]["up"].pc = "dial" => job[N]["up"].pc = "dial",
         fwd.pc = "off" => fwd'.pc = "off"
  PROVE  BeginOnce'
BY DEF BeginOnce, Fewer, SingleBegin, HasBegin

\* The client's handler sends one BEGIN.
LEMMA BeginHandler ==
  ASSUME TypeOK, BeginOnce, phase # "connect", Handler \/ SendData \/ AppCloses
  PROVE  BeginOnce'
<1> USE DEF wires, relays, exit, client, hist
<1>0. Fewer(dn, dn) /\ 0 \in 0 .. N - 1 /\ dn \in Wires
  BY DEF Fewer, TypeOK
<1>w. ASSUME NEW c \in Cell, c.cmd # "BEGIN", NEW ok \in BOOLEAN, ClientWrites(c, ok)
      PROVE  Fewer(dn', dn)
  BY <1>0, <1>w, BeginPut DEF ClientWrites
<1>c. ASSUME NEW sid \in {0, 1}
      PROVE  Control("END", sid) \in Cell /\ Control("END", sid).cmd # "BEGIN"
  BY ControlType DEF Control, Cmd
<1>1. CASE SendBegin
  <2> DEFINE c == Sealed("BEGIN", Onion(1, ctr.begin), Cipher, N)
  <2>1. c \in Cell
    <3>1. Cipher \in Chunk /\ "BEGIN" \in Cmd /\ ctr.begin \in Nat
      BY DEF Cipher, Chunk, Cmd, TypeOK, Counters
    <3> QED
      BY <3>1, OwnOnionType
  <2>2. /\ phase = "begin" /\ phase' \in {"relay", "returned"} /\ UNCHANGED <<job, fwd>>
        /\ \E ok \in BOOLEAN : ClientWrites(c, ok)
    BY <1>1 DEF SendBegin, Return
  <2> HIDE DEF c
  <2>3. ~HasBegin(dn) /\ job[N]["up"].pc # "dial" /\ fwd.pc = "off"
    BY <2>2 DEF BeginOnce
  <2>4. SingleBegin(dn')
    <3>1. SingleBegin(PutDown(dn, 0, c))
      BY <1>0, <2>1, <2>3, BeginPut
    <3>2. dn' = PutDown(dn, 0, c) \/ dn' = dn
      BY <2>2 DEF ClientWrites
    <3> QED
      BY <3>1, <3>2 DEF BeginOnce
  <2> QED
    BY <2>2, <2>3, <2>4 DEF BeginOnce
<1>2. CASE SendData
  <2>1. PICK room \in Rooms :
          \/ UNCHANGED dn
          \/ \E ok \in BOOLEAN :
               ClientWrites(Sealed("DATA", Onion(1, ctr.data), App(sent + 1), room), ok)
    BY <1>2 DEF SendData
  <2>2. /\ Sealed("DATA", Onion(1, ctr.data), App(sent + 1), room) \in Cell
        /\ Sealed("DATA", Onion(1, ctr.data), App(sent + 1), room).cmd # "BEGIN"
    <3>1. App(sent + 1) \in Chunk /\ "DATA" \in Cmd /\ ctr.data \in Nat
      BY DEF App, Chunk, Cmd, TypeOK, Counters
    <3> QED
      BY <3>1, OwnOnionType DEF Sealed
  <2>3. Fewer(dn', dn)
    BY <1>0, <1>w, <2>1, <2>2
  <2>4. phase' \notin {"open", "begin"} /\ UNCHANGED <<job, fwd>>
    BY <1>2 DEF SendData
  <2> QED
    BY <2>3, <2>4, BeginFrame
<1>3. CASE SendEnd
  <2>1. Fewer(dn', dn)
    BY <1>3, <1>c, <1>w DEF SendEnd
  <2>2. phase' \notin {"open", "begin"} /\ UNCHANGED <<job, fwd>>
    BY <1>3 DEF SendEnd, Return
  <2> QED
    BY <2>1, <2>2, BeginFrame
<1>4. CASE SendEndAll
  <2>1. Fewer(dn', dn)
    BY <1>4, <1>c, <1>w DEF SendEndAll
  <2>2. phase' \notin {"open", "begin"} /\ UNCHANGED <<job, fwd>>
    BY <1>4 DEF SendEndAll, Return
  <2> QED
    BY <2>1, <2>2, BeginFrame
<1>5. CASE OpenStream \/ AppCloses \/ SockClosed
  <2>1. /\ dn' = dn /\ UNCHANGED <<job, fwd>>
        /\ phase' \in {"open", "begin"} => phase \in {"open", "begin"}
    BY <1>5 DEF OpenStream, AppCloses, SockClosed
  <2> QED
    BY <1>0, <2>1, BeginFrame
<1>6. ~SendConnect
  BY DEF SendConnect
<1> QED
  BY <1>1, <1>2, <1>3, <1>4, <1>5, <1>6 DEF Handler

\* A ServeConn goroutine passes the one BEGIN on.
LEMMA BeginServeConn ==
  ASSUME TypeOK, TypeOK', Plain, CellsAt(st[N].updata), BeginOnce,
         NEW i \in Hops, NEW s \in Sides, ServeConn(i, s)
  PROVE  BeginOnce'
<1> USE DEF wires, relays, exit, client, hist
<1> DEFINE c == Head(Inbox(i, s))
<1>0. dn \in Wires /\ Fewer(dn, dn) /\ N \in Hops /\ job[i][s] \in Job
  BY DEF TypeOK, Jobs, Fewer, Hops
<1>r. ASSUME NEW cmds, Reads(i, s, cmds)
      PROVE  /\ c \in Cell /\ c.cmd \in cmds /\ DnRead(i, s) \in Wires
             /\ Fewer(DnRead(i, s), dn)
  BY <1>r, ReadsType, BeginRead DEF Reads
\* What a step that changes no job, or makes one that does not dial, has to show.
<1>f. ASSUME Fewer(dn', dn), phase' = phase, fwd' = fwd,
             \/ job' = job
             \/ \E k : k.pc # "dial" /\ job' = [job EXCEPT ![i][s] = k]
      PROVE  BeginOnce'
  <2>1. job'[N]["up"].pc = "dial" => job[N]["up"].pc = "dial"
    <3>1. CASE job' = job
      BY <3>1
    <3>2. ASSUME NEW k, k.pc # "dial", job' = [job EXCEPT ![i][s] = k]
          PROVE  job'[N]["up"] \in {job[N]["up"], k}
      BY <1>0, <3>2 DEF TypeOK, Jobs, Sides
    <3> QED
      BY <1>f, <3>1, <3>2
  <2> QED
    BY <1>f, <2>1, BeginFrame
<1>i. Idle.pc # "dial"
  BY DEF Idle
<1>t. ASSUME NEW D \in Wires, NEW E \in Wires, NEW F, Fewer(D, E), Fewer(F, D)
      PROVE  Fewer(F, E)
  BY <1>t DEF Fewer
<1> HIDE DEF c
<1>1. CASE ServeStop(i, s)
  <2>1. s = "down" => i + 1 \in Hops
    BY <1>1 DEF ServeStop, Serves, Hops
  <2>2. \A h \in Hops : dn'[h] \in {dn[h], <<>>}
    BY <1>0, <1>1, <2>1 DEF ServeStop, Wires
  <2>3. Fewer(dn', dn)
    BY <2>2, BeginDrop
  <2> QED
    BY <1>1, <1>f, <2>3 DEF ServeStop
<1>2. CASE ForwardSetup(i, s)
  <2>1. /\ c \in Cell /\ c.cmd \in {"BEGIN", "CONNECT"} /\ i < N
        /\ DnRead(i, s) \in Wires /\ Fewer(DnRead(i, s), dn)
    BY <1>2, <1>r DEF ForwardSetup
  <2>2. Reads(i, s, {"BEGIN", "CONNECT"})
    BY <1>2 DEF ForwardSetup
  <2>3. s = "up" /\ c.cmd = "BEGIN" /\ c = Head(dn[i])
    <3>1. s = "up" => DownCell(i, c)
      BY <2>2, ReadCells DEF CellsAt, c
    <3>2. s = "down" => UpCell(i + 1, c, st[N].updata)
      <4>1. PICK n : n = st[N].updata
        OBVIOUS
      <4> QED
        BY <2>2, <4>1, ReadCells DEF CellsAt, c
    <3> QED
      BY <2>1, <3>1, <3>2 DEF Sides, DownCell, UpCell, Inbox, c
  <2>4. HasBegin(dn) /\ ~HasBegin(DnRead(i, s))
    BY <2>2, <2>3, BeginRead DEF BeginOnce
  <2>5. SingleBegin(dn')
    <3>1. i \in 0 .. N - 1
      BY <2>1 DEF Hops
    <3>2. Opens(c, i, st[i].begin) => SingleBegin(PutDown(DnRead(i, s), i, Peel(c)))
      BY <2>1, <2>4, <3>1, PeelType, BeginPut DEF Opens
    <3>3. SingleBegin(DnRead(i, s))
      BY <2>4 DEF HasBegin, SingleBegin
    <3> QED
      BY <1>2, <3>2, <3>3 DEF ForwardSetup, c
  <2>6. UNCHANGED <<phase, job, fwd>>
    BY <1>2 DEF ForwardSetup
  <2> QED
    BY <2>4, <2>5, <2>6 DEF BeginOnce
<1>3. CASE BeginAck(i, s)
  BY <1>3, <1>r, <1>f DEF BeginAck
<1>4. CASE EndStream(i, s) \/ EndCircuit(i, s)
  <2>1. /\ c \in Cell /\ c.cmd \in {"END", "DESTROY"}
        /\ DnRead(i, s) \in Wires /\ Fewer(DnRead(i, s), dn)
    BY <1>4, <1>r DEF EndStream, EndCircuit
  <2>2. Fewer(ToDown(i, DnRead(i, s), c), DnRead(i, s)) /\ ToDown(i, DnRead(i, s), c) \in Wires
    <3>1. i < N => i \in 0 .. N - 1
      BY DEF Hops
    <3>2. Fewer(DnRead(i, s), DnRead(i, s))
      BY DEF Fewer
    <3> QED
      BY <2>1, <3>1, <3>2, BeginPut, ToDownType DEF ToDown
  <2>3. Fewer(ToDown(i, DnRead(i, s), c), dn)
    BY <1>0, <1>t, <2>1, <2>2
  <2>4. \A h \in Hops : dn'[h] \in {ToDown(i, DnRead(i, s), c)[h], <<>>}
    BY <1>4, <2>2 DEF EndStream, EndCircuit, Close, Wires, c
  <2>5. Fewer(dn', ToDown(i, DnRead(i, s), c))
    BY <2>4, BeginDrop
  <2>6. Fewer(dn', dn)
    BY <2>3, <2>5 DEF Fewer
  <2> QED
    BY <1>4, <1>f, <2>6 DEF EndStream, EndCircuit
<1>5. CASE TakeData(i, s)
  <2>1. Fewer(dn', dn) /\ phase' = phase /\ fwd' = fwd
    BY <1>5, <1>r DEF TakeData
  <2>2. job' = [job EXCEPT ![i][s] = [pc |-> "open", cell |-> c, nonce |-> st[i].data]]
    BY <1>5 DEF TakeData, c
  <2>3. [pc |-> "open", cell |-> c, nonce |-> st[i].data].pc # "dial"
    OBVIOUS
  <2> QED
    BY <1>f, <2>1, <2>2, <2>3
<1>6. CASE ForwardData(i, s)
  <2>1. i < N /\ job[i][s].pc = "open" /\ job[i][s].cell \in Cell /\ job[i][s].cell.layers # <<>>
    BY <1>0, <1>6 DEF ForwardData, OpensData, Opens, Job
  <2>2. Peel(job[i][s].cell) \in Cell /\ Peel(job[i][s].cell).cmd # "BEGIN"
    <3>1. job[i][s].cell.cmd = "DATA"
      BY <2>1 DEF CellsAt, UpJob, DownJob, Sides
    <3> QED
      BY <2>1, <3>1, PeelType DEF Peel, Cell
  <2>3. Fewer(dn', dn)
    <3>1. i \in 0 .. N - 1
      BY <2>1 DEF Hops
    <3> QED
      BY <1>0, <1>6, <2>2, <3>1, BeginPut DEF ForwardData
  <2> QED
    BY <1>6, <1>f, <1>i, <2>3 DEF ForwardData
<1>7. CASE FailData(i, s)
  <2>1. [job[i][s] EXCEPT !.pc = "seal", !.nonce = st[i].updata].pc # "dial"
    BY <1>0 DEF Job
  <2>2. Fewer(dn', dn) /\ phase' = phase /\ fwd' = fwd
    BY <1>0, <1>7 DEF FailData
  <2>3. \/ job' = [job EXCEPT ![i][s] = Idle]
        \/ job' = [job EXCEPT ![i][s] = [job[i][s] EXCEPT !.pc = "seal", !.nonce = st[i].updata]]
    BY <1>7 DEF FailData
  <2> QED
    BY <1>f, <1>i, <2>1, <2>2, <2>3
<1>8. CASE SealData(i, s)
  <2>1. Fewer(dn', dn) /\ phase' = phase /\ fwd' = fwd
    BY <1>0, <1>8 DEF SealData
  <2> DEFINE j == job[i][s]
             k == [j EXCEPT !.pc = "send", !.cell = Seal(j.cell, i, j.nonce)]
  <2>2. job' = [job EXCEPT ![i][s] = k]
    BY <1>8 DEF SealData
  <2>3. k.pc # "dial"
    BY <1>0 DEF Job
  <2> HIDE DEF k
  <2> QED
    BY <1>f, <2>1, <2>2, <2>3
<1>9. CASE SendSealed(i, s)
  BY <1>0, <1>9, <1>f, <1>i DEF SendSealed
<1> QED
  BY <1>1, <1>2, <1>3, <1>4, <1>5, <1>6, <1>7, <1>8, <1>9 DEF ServeConn

\* Every step leaves at most one BEGIN, and forwardUpstream starts only after it.
LEMMA BeginNext ==
  ASSUME TypeOK, TypeOK', Plain, CellsAt(st[N].updata), BeginOnce, phase # "connect", Next
  PROVE  BeginOnce'
<1> USE DEF wires, relays, exit, client, hist
<1>0. Fewer(dn, dn) /\ N \in Hops /\ "up" \in Sides /\ UpJob(N, job[N]["up"]) /\ ~st[N].hidden
  BY DEF Fewer, Hops, Sides, CellsAt, Plain
<1>1. CASE Handler \/ SendData \/ AppCloses
  BY <1>1, BeginHandler
<1>2. CASE RecvLoop
  <2>1. UNCHANGED <<dn, phase, job, fwd>>
    BY <1>2 DEF RecvLoop, RecvCell, RecvEOF
  <2> QED
    BY <1>0, <2>1, BeginFrame
<1>3. ASSUME NEW i \in Hops, NEW s \in Sides, ServeConn(i, s)
      PROVE  BeginOnce'
  BY <1>3, BeginServeConn
<1>4. CASE StartDial
  <2>1. Reads(N, "up", {"BEGIN", "CONNECT"}) /\ Inbox(N, "up") = dn[N]
    BY <1>4 DEF StartDial, Inbox
  <2>2. DownCell(N, Head(dn[N]))
    BY <1>0, <2>1, ReadCells DEF CellsAt
  <2>3. Head(dn[N]).cmd = "BEGIN"
    BY <2>1, <2>2 DEF Reads, DownCell
  <2>4. HasBegin(dn) /\ ~HasBegin(DnRead(N, "up"))
    BY <1>0, <2>1, <2>3, BeginRead DEF BeginOnce
  <2>5. SingleBegin(DnRead(N, "up"))
    BY <2>4 DEF HasBegin, SingleBegin
  <2>6. dn' = DnRead(N, "up") /\ UNCHANGED <<phase, fwd>>
    BY <1>4 DEF StartDial
  <2> QED
    BY <2>4, <2>5, <2>6 DEF BeginOnce
<1>5. CASE Dialled
  <2>1. job[N]["up"].pc = "dial" /\ job'[N]["up"] = Idle /\ UNCHANGED <<dn, phase>>
    BY <1>0, <1>5 DEF Dialled, Dialling, DialReturns, TypeOK, Jobs
  <2>2. phase \notin {"open", "begin"} /\ ~HasBegin(dn)
    BY <2>1 DEF BeginOnce
  <2> QED
    BY <2>1, <2>2 DEF BeginOnce, Idle
<1>6. CASE DialRefused \/ DeliverData
  <2>1. UNCHANGED <<dn, phase, fwd>> /\ job'[N]["up"] = Idle
    BY <1>0, <1>6 DEF DialRefused, DeliverData, DialReturns, TypeOK, Jobs
  <2>2. job'[N]["up"].pc # "dial"
    BY <2>1 DEF Idle
  <2> QED
    BY <1>0, <2>1, <2>2, BeginFrame
<1>7. ~HiddenDialled /\ ~HiddenRefused /\ ~BeginHidden
  BY <1>0 DEF HiddenDialled, HiddenRefused, BeginHidden, Dialling, UpJob
<1>8. CASE FwdRead \/ ForwardUpstream
  <2>1. UNCHANGED <<dn, phase, job>> /\ fwd.pc # "off"
    BY <1>8 DEF FwdRead, ForwardUpstream, FwdSeal, FwdEnd
  <2> QED
    BY <1>0, <2>1, BeginFrame
<1>9. CASE TargetCloses \/ HiddenServeRead \/ HiddenServeStop
  <2>1. UNCHANGED <<dn, phase, job, fwd>>
    BY <1>9 DEF TargetCloses, HiddenServeRead, HiddenServeStop
  <2> QED
    BY <1>0, <2>1, BeginFrame
<1>10. ASSUME NEW i \in Hops, Expire(i) \/ ResetDn(i) \/ ResetUp(i)
       PROVE  BeginOnce'
  <2>1. \A j \in Hops : dn'[j] \in {dn[j], <<>>}
    BY <1>10 DEF Expire, Close, ResetDn, ResetUp, TypeOK, Wires
  <2>2. Fewer(dn', dn)
    BY <2>1, BeginDrop
  <2>3. UNCHANGED <<phase, job, fwd>>
    BY <1>10 DEF Expire, ResetDn, ResetUp
  <2> QED
    BY <2>2, <2>3, BeginFrame
<1> QED
  BY <1>1, <1>2, <1>3, <1>4, <1>5, <1>6, <1>7, <1>8, <1>9, <1>10 DEF Next, ServeExit
-----------------------------------------------------------------------------
(***************************************************************************)
(* The client.                                                             *)
(***************************************************************************)
LEMMA QuietNext ==
  ASSUME TypeOK, Plain, BeginOnce, Quiet, Next
  PROVE  Quiet'
<1> USE DEF wires, relays, exit, client, hist
<1>1. SUFFICES ASSUME phase' \in {"connect", "open"}
               PROVE  Quiet'
  BY DEF Quiet
<1>2. CASE Handler \/ SendData \/ AppCloses
  <2>1. phase' \notin {"connect", "open"}
    BY <1>2 DEF Quiet, Handler, SendConnect, OpenStream, SendBegin, SendData, AppCloses,
                SockClosed, SendEnd, SendEndAll, Return
  <2> QED
    BY <1>1, <2>1
<1>3. ASSUME ~(Handler \/ SendData \/ AppCloses)
      PROVE  phase' = phase
  <2>1. ASSUME NEW i \in Hops, NEW s \in Sides, ServeConn(i, s)
        PROVE  phase' = phase
    BY <2>1 DEF ServeConn, ServeStop, ForwardSetup, BeginAck, EndStream, EndCircuit,
                TakeData, ForwardData, FailData, SealData, SendSealed
  <2>2. CASE RecvLoop \/ ServeExit
    BY <2>2 DEF RecvLoop, RecvCell, RecvEOF, ServeExit, StartDial, Dialled, DialRefused,
                HiddenDialled, HiddenRefused, BeginHidden, DeliverData
  <2>3. CASE FwdRead \/ ForwardUpstream \/ HiddenServeRead \/ HiddenServeStop \/ TargetCloses
    BY <2>3 DEF FwdRead, ForwardUpstream, FwdSeal, FwdEnd, HiddenServeRead, HiddenServeStop,
                TargetCloses
  <2>4. CASE \E i \in Hops : Expire(i) \/ ResetDn(i) \/ ResetUp(i)
    BY <2>4 DEF Expire, ResetDn, ResetUp
  <2> QED
    BY <1>3, <2>1, <2>2, <2>3, <2>4 DEF Next
<1>4. CASE phase' = phase
  <2>1. /\ phase = "open" /\ ~reg /\ ctr.up = 0 /\ received = <<>> /\ fwd.pc = "off"
        /\ \A i \in Hops : /\ dn[i] = <<>> /\ up[i] = <<>>
                           /\ \A s \in Sides : job[i][s].pc = "read"
    BY <1>1, <1>4 DEF Quiet, BeginOnce
  <2>2. N \in Hops /\ 1 \in Hops /\ "up" \in Sides /\ "down" \in Sides
    BY DEF Hops, Sides
  <2>3. CASE Handler \/ SendData \/ AppCloses
    BY <1>2, <2>3
  <2>4. CASE RecvLoop
    <3>1. ~RecvCell
      BY <2>1, <2>2 DEF RecvCell
    <3> QED
      BY <1>4, <2>1, <2>4, <3>1 DEF RecvLoop, RecvEOF, CloseAll, Quiet
  <2>5. ASSUME NEW i \in Hops, NEW s \in Sides, NEW cmds, Reads(i, s, cmds)
        PROVE  FALSE
    <3>1. Inbox(i, s) = <<>>
      <4>1. s = "down" => i + 1 \in Hops
        BY <2>5 DEF Reads, Serves, Hops
      <4> QED
        BY <2>1, <4>1 DEF Inbox, Sides
    <3> QED
      BY <2>5, <3>1 DEF Reads
  <2>6. ASSUME NEW i \in Hops, NEW s \in Sides, ServeConn(i, s)
        PROVE  Quiet'
    <3>1. ServeStop(i, s)
      BY <2>1, <2>5, <2>6 DEF ServeConn, ForwardSetup, BeginAck, EndStream, EndCircuit,
                              TakeData, ForwardData, OpensData, FailData, SealData, SendSealed
    <3>2. s = "down" => i + 1 \in Hops
      BY <3>1 DEF ServeStop, Serves, Hops
    <3>3. \A j \in Hops : dn'[j] = <<>> /\ up'[j] = <<>>
      BY <2>1, <3>1, <3>2 DEF ServeStop, TypeOK, Wires
    <3> QED
      BY <1>4, <2>1, <3>1, <3>3 DEF ServeStop, Quiet
  <2>7. ~ServeExit
    BY <2>1, <2>2, <2>5 DEF ServeExit, StartDial, Dialled, DialRefused, HiddenDialled,
                            HiddenRefused, Dialling, BeginHidden, DeliverData, OpensData
  <2>8. ~FwdRead /\ ~ForwardUpstream
    BY <2>1 DEF FwdRead, ForwardUpstream, FwdSeal, FwdEnd
  <2>9. CASE HiddenServeRead \/ HiddenServeStop \/ TargetCloses
    <3>1. UNCHANGED <<dn, up, job, phase, reg, ctr, received>>
      BY <2>9 DEF HiddenServeRead, HiddenServeStop, TargetCloses
    <3> QED
      BY <2>1, <3>1 DEF Quiet
  <2>10. ASSUME NEW i \in Hops, Expire(i) \/ ResetDn(i) \/ ResetUp(i)
         PROVE  Quiet'
    <3>1. \A j \in Hops : dn'[j] = <<>> /\ up'[j] = <<>>
      BY <2>1, <2>10 DEF Expire, Close, ResetDn, ResetUp, TypeOK, Wires
    <3> QED
      BY <1>4, <2>1, <2>10, <3>1 DEF Expire, ResetDn, ResetUp, Quiet
  <2> QED
    BY <2>3, <2>4, <2>6, <2>7, <2>8, <2>9, <2>10 DEF Next
<1> QED
  BY <1>2, <1>3, <1>4

-----------------------------------------------------------------------------
(***************************************************************************)
(* The client.  A cell whose layers all open with the client's upstream    *)
(* counter is the exit's chunk of that number.                             *)
(***************************************************************************)
LEMMA Opened ==
  ASSUME NEW c \in Cell, NEW n \in Nat, UpCell(1, c, n), c.cmd = "DATA", ClientOpens(c)
  PROVE  ctr.up < n /\ Text(c, N) = Svc(ctr.up + 1)
<1>1. PICK i \in Hops : i = 1
  BY DEF Hops
<1>2. N - i + 1 = N /\ N \in Hops /\ \A k \in Hops : i + k - 1 = k
  BY <1>1, CircuitAssumption DEF Hops
<1>3. UpCell(i, c, n)
  BY <1>1
<1>h. ASSUME NEW h \in Hops
      PROVE  c.layers[h].hop = h /\ c.layers[h].ctr = ctr.up
  <2> DEFINE l == c.layers[h]
  <2>1. l = [hop |-> h, ctr |-> ctr.up]
    BY DEF ClientOpens
  <2> HIDE DEF l
  <2>2. l.hop = h /\ l.ctr = ctr.up
    BY ONLY <2>1
  <2> QED
    BY <2>2 DEF l
<1>4. HopsFrom(i, c)
  <2>1. Len(c.layers) >= N
    BY DEF ClientOpens
  <2> QED
    BY <1>2, <1>h, <2>1 DEF HopsFrom, Hops
<1>5. Genuine(i, c, n)
  BY <1>3, <1>4 DEF UpCell
<1>6. Len(c.layers) = N /\ c.layers[N].ctr < n /\ c.body = Svc(c.layers[N].ctr + 1)
  BY <1>2, <1>5 DEF Genuine
<1>7. c.layers[N].ctr = ctr.up
  BY <1>2, <1>h
<1> QED
  BY <1>6, <1>7 DEF Text

\* recvLoop appends the chunk whose number follows.
LEMMA WritingRecv ==
  ASSUME TypeOK, UpCells(up, st[N].updata), Numbered, Writing, UpOrdered, RecvCell
  PROVE  Writing' /\ UpOrdered'
<1> DEFINE c == Head(up[1])
           r == Append(received, Text(c, N))
<1>1. PICK n \in Nat : n = st[N].updata
  BY DEF TypeOK, Relays, ConnState, Hops
<1>2. n <= replied /\ replied' = replied
  BY SMTT(30), <1>1 DEF Numbered, RecvCell, TypeOK, Upstream
<1>3. c \in Cell /\ UpCell(1, c, n)
  <2>1. PICK i \in Hops : i = 1
    BY DEF Hops
  <2>2. up[i] \in Seq(Cell) /\ up[i] # <<>>
    BY <2>1 DEF RecvCell, TypeOK, Wires
  <2>3. Len(up[i]) >= 1 /\ Head(up[i]) = up[i][1] /\ up[i][1] \in Cell
    BY <2>2
  <2>4. UpCell(i, up[i][1], n)
    BY <1>1, <2>3 DEF UpCells
  <2> QED
    BY <2>1, <2>3, <2>4
<1>4. ctr.up \in Nat /\ received \in Seq(Chunk) /\ ctr \in Counters
  BY DEF TypeOK, Counters
<1> HIDE DEF c
<1>5. CASE c.cmd = "DATA" /\ ClientOpens(c) /\ reg /\ sock \in {"open", "half"}
  <2>1. received' = r /\ ctr'.up = ctr.up + 1
    BY <1>4, <1>5 DEF RecvCell, Counters, c
  <2>2. Len(received) = ctr.up
    BY <1>5 DEF RecvCell, Writing
  <2>3. ctr.up < n /\ Text(c, N) = Svc(ctr.up + 1)
    BY <1>3, <1>5, Opened
  <2>4. Len(r) = ctr.up + 1 /\ \A k \in 1 .. ctr.up + 1 : r[k] = Svc(k)
    BY <1>4, <2>2, <2>3 DEF UpOrdered
  <2> HIDE DEF r
  <2>5. r \in Seq(Chunk)
    BY <2>3, <1>4 DEF r, Svc, Chunk
  <2>6. DOMAIN r = 1 .. ctr.up + 1
    BY <2>4, <2>5
  <2>7. Len(r) <= replied
    BY <1>2, <1>4, <2>3, <2>4 DEF TypeOK
  <2> QED
    BY <1>2, <2>1, <2>4, <2>6, <2>7 DEF Writing, UpOrdered
<1>6. CASE ~(c.cmd = "DATA" /\ ClientOpens(c) /\ reg /\ sock \in {"open", "half"})
  <2>1. received' = received
    BY <1>6 DEF RecvCell, c
  <2>2. rx' = "run" /\ reg' /\ sock' \in {"open", "half"}
          => reg /\ rx = "run" /\ sock \in {"open", "half"} /\ ctr' = ctr
    BY <1>6 DEF RecvCell, CloseAll, c
  <2> QED
    BY <1>2, <2>1, <2>2 DEF Writing, UpOrdered
<1> QED
  BY <1>5, <1>6

\* Apart from recvLoop, only a new stream makes it write; and nothing is unread then.
LEMMA WritingNext ==
  ASSUME TypeOK, UpCells(up, st[N].updata), Numbered, Writing, UpOrdered, Next,
         phase = "open" => ctr.up = 0 /\ received = <<>>
  PROVE  Writing' /\ UpOrdered'
<1> USE DEF wires, relays, exit, client, hist
<1>0. replied \in Nat
  BY DEF TypeOK
<1>1. ASSUME UNCHANGED <<received, rx>>, ctr'.up = ctr.up, replied' \in Nat, replied <= replied',
             reg' => reg, sock' \in {"open", "half"} => sock \in {"open", "half"}
      PROVE  Writing' /\ UpOrdered'
  <2>1. Len(received) \in Nat
    BY DEF TypeOK
  <2> QED
    BY <1>0, <1>1, <2>1 DEF Writing, UpOrdered
<1>2. CASE RecvCell
  BY <1>2, WritingRecv
<1>3. CASE OpenStream
  <2>1. received' = <<>> /\ ctr'.up = 0 /\ replied' = replied
    BY <1>3 DEF OpenStream
  <2> QED
    BY <1>0, <2>1 DEF Writing, UpOrdered
<1>4. CASE RecvEOF
  <2>1. UNCHANGED <<received, replied>> /\ rx' = "done"
    BY <1>4 DEF RecvEOF, CloseAll
  <2> QED
    BY <2>1 DEF Writing, UpOrdered
<1>5. CASE (Handler /\ ~OpenStream) \/ SendData \/ AppCloses
  <2>1. /\ UNCHANGED <<received, rx, replied>>
        /\ reg' => reg
        /\ sock' \in {"open", "half"} => sock \in {"open", "half"}
    BY <1>5 DEF Handler, SendConnect, SendBegin, SendData, AppCloses, SockClosed,
                SendEnd, SendEndAll, Return
  <2>2. ctr'.up = ctr.up
    BY <1>5 DEF Handler, SendConnect, SendBegin, SendData, AppCloses, SockClosed,
                SendEnd, SendEndAll, TypeOK, Counters
  <2> QED
    BY <1>0, <1>1, <2>1, <2>2
<1>6. CASE UNCHANGED <<received, rx, replied, ctr, reg, sock>>
  BY <1>0, <1>1, <1>6
<1>7. ASSUME NEW i \in Hops, NEW s \in Sides, ServeConn(i, s)
      PROVE  UNCHANGED <<received, rx, replied, ctr, reg, sock>>
  BY <1>7 DEF ServeConn, ServeStop, ForwardSetup, BeginAck, EndStream, EndCircuit,
              TakeData, ForwardData, FailData, SealData, SendSealed
<1>8. CASE ServeExit
  <2>1. UNCHANGED <<received, rx, replied, ctr, reg, sock>>
    BY <1>8 DEF ServeExit, StartDial, Dialled, DialRefused, HiddenDialled, HiddenRefused,
                BeginHidden, DeliverData
  <2> QED
    BY <1>6, <2>1
<1>9. CASE FwdRead \/ HiddenServeRead
  <2>1. UNCHANGED <<received, rx, ctr, reg, sock>> /\ replied' = replied + 1
    BY <1>9 DEF FwdRead, HiddenServeRead
  <2> QED
    BY <1>0, <1>1, <2>1
<1>10. CASE ForwardUpstream \/ HiddenServeStop \/ TargetCloses
  <2>1. UNCHANGED <<received, rx, replied, ctr, reg, sock>>
    BY <1>10 DEF ForwardUpstream, FwdSeal, FwdEnd, HiddenServeStop, TargetCloses
  <2> QED
    BY <1>6, <2>1
<1>11. ASSUME NEW i \in Hops, Expire(i) \/ ResetDn(i) \/ ResetUp(i)
       PROVE  UNCHANGED <<received, rx, replied, ctr, reg, sock>>
  BY <1>11 DEF Expire, ResetDn, ResetUp
<1> QED
  BY <1>2, <1>3, <1>4, <1>5, <1>6, <1>7, <1>8, <1>9, <1>10, <1>11 DEF Next, RecvLoop
-----------------------------------------------------------------------------
(***************************************************************************)
(* The invariant holds initially, is preserved, and implies the order.     *)
(***************************************************************************)
LEMMA UpInit ==
  ASSUME Init, ~Hidden
  PROVE  UpInv
<1>0. TypeOK
  BY TypeInit
<1>1. /\ \A i \in Hops : dn[i] = <<>> /\ up[i] = <<>>
      /\ \A i \in Hops : st[i].updata = 0 /\ ~st[i].hidden
      /\ \A i \in Hops, s \in Sides : job[i][s] = Idle
      /\ \A i \in Hops : serve[i]["down"] = "off"
      /\ N \in Hops /\ "up" \in Sides /\ "down" \in Sides
      /\ fwd.pc = "off" /\ ~reg /\ ctr.up = 0
      /\ phase = "open" /\ replied = 0 /\ received = <<>>
  BY DEF Init, Hops, Sides
<1>2. Idle.pc = "read" /\ Len(<<>>) = 0
  BY DEF Idle
<1>3. Plain
  BY <1>1 DEF Plain
<1>4. CellsAt(st[N].updata)
  <2>0. \A i \in Hops : Len(dn[i]) = 0 /\ Len(up[i]) = 0
    BY <1>1, <1>2
  <2>1. DownCells(dn) /\ UpCells(up, st[N].updata)
    BY <2>0 DEF DownCells, UpCells
  <2>r. \A i \in Hops : job[i]["up"].pc = "read" /\ job[i]["down"].pc = "read"
    BY <1>1, <1>2
  <2>2. \A i \in Hops : UpJob(i, job[i]["up"]) /\ DownJob(i, job[i]["down"], st[N].updata)
    BY <1>1, <2>r DEF UpJob, DownJob
  <2>3. \A i \in Hops, s \in Sides : SentJob(i, job[i][s], st[N].updata)
    BY <2>r DEF SentJob, Sides
  <2> QED
    BY <2>1, <2>2, <2>3 DEF CellsAt
<1>5. BeginOnce
  <2>1. SingleBegin(dn) /\ ~HasBegin(dn)
    BY <1>1, <1>2 DEF SingleBegin, HasBegin
  <2> QED
    BY <1>1, <1>2, <2>1 DEF BeginOnce
<1>6. Numbered /\ Writing
  BY <1>1 DEF Numbered, Writing
<1>7. Quiet
  BY <1>1, <1>2 DEF Quiet
<1>8. UpOrdered
  BY <1>1 DEF UpOrdered
<1> QED
  BY <1>0, <1>3, <1>4, <1>5, <1>6, <1>7, <1>8 DEF UpInv

\* Every step preserves the invariant.
LEMMA UpNext ==
  ASSUME UpInv, [Next]_vars
  PROVE  UpInv'
<1> USE DEF UpInv
<1>1. TypeOK'
  BY TypeNext
<1>2. CASE Next
  <2>1. Plain'
    BY <1>2, PlainNext
  <2>2. CellsAt(st[N].updata)' /\ Numbered'
    BY <1>1, <1>2, CellsNext DEF Quiet
  <2>3. BeginOnce'
    BY <1>1, <1>2, BeginNext DEF Quiet
  <2>4. Quiet'
    BY <1>2, QuietNext
  <2>5. Writing' /\ UpOrdered'
    BY <1>2, WritingNext DEF CellsAt, Quiet
  <2> QED
    BY <1>1, <2>1, <2>2, <2>3, <2>4, <2>5
<1>3. CASE UNCHANGED vars
  <2>1. UNCHANGED <<dn, up, st, serve, job, fwd, phase, sock, reg, rx, ctr, replied, received>>
    BY <1>3 DEF vars, wires, relays, exit, client, hist
  <2>2. Plain' /\ Numbered' /\ Quiet' /\ Writing' /\ UpOrdered'
    BY <2>1 DEF Plain, Numbered, Quiet, Writing, UpOrdered
  <2>3. CellsAt(st[N].updata)'
    BY <2>1 DEF CellsAt
  <2>4. BeginOnce'
    BY SMTT(30), <2>1 DEF BeginOnce, SingleBegin, HasBegin
  <2> QED
    BY <1>1, <2>2, <2>3, <2>4
<1> QED
  BY <1>2, <1>3

\* What holds of every cell in flight and of every goroutine between its steps, on every
\* circuit that is not for a hidden service: a cell of the client's that a relay sent back
\* is never one of the target's.
THEOREM UpInvariant == ~Hidden => (Spec => []UpInv)
<1> SUFFICES ASSUME ~Hidden
             PROVE  Spec => []UpInv
  OBVIOUS
<1>1. Init => UpInv
  BY UpInit
<1>2. UpInv /\ [Next]_vars => UpInv'
  BY UpNext
<1> QED
  BY <1>1, <1>2, PTL DEF Spec

\* On every circuit that is not for a hidden service, with any number of hops, the
\* application gets the target's chunks unaltered and in order, none twice, none after
\* a missing one and none of its own, whatever the relays' goroutines, their gc and
\* the connections do.
THEOREM UpCorrect == ~Hidden => (Spec => []UpOrdered)
<1> SUFFICES ASSUME ~Hidden
             PROVE  Spec => []UpOrdered
  OBVIOUS
<1>1. UpInv => UpOrdered
  BY DEF UpInv
<1> QED
  BY <1>1, UpInvariant, PTL
=============================================================================
