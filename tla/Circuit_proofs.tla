--------------------------- MODULE Circuit_proofs ---------------------------
(***************************************************************************)
(* Theorems about Circuit, for every number of hops, every kind of circuit *)
(* and any bounds.                                                         *)
(***************************************************************************)
EXTENDS Circuit, SequenceTheorems, TLAPS

USE CircuitAssumption
-----------------------------------------------------------------------------
(***************************************************************************)
(* The operators the actions are built from keep to their types.           *)
(***************************************************************************)
\* A counter that is bumped stays a number, whatever the interleaving.
LEMMA BumpedType ==
  ASSUME NEW n \in Nat, NEW now \in Nat, NEW v \in Bumped(n, now)
  PROVE  v \in Nat
BY DEF Bumped

\* The layers AESMultiSeal puts around a payload are layers of the circuit's hops.
LEMMA OnionType ==
  ASSUME NEW h \in Hops, NEW c \in Nat
  PROVE  Onion(h, c) \in Seq(Layer)
<1>1. N - h + 1 \in Nat
  BY DEF Hops
<1>2. \A j \in 1 .. N - h + 1 : [hop |-> h + j - 1, ctr |-> c] \in Layer
  BY DEF Hops, Layer
<1>3. Onion(h, c) \in [1 .. N - h + 1 -> Layer]
  BY <1>2 DEF Onion
<1> QED
  BY <1>1, <1>3, SeqDef

\* The cells the code makes: a sealed one, a control one, one with a layer less or more.
LEMMA SealedType ==
  ASSUME NEW cmd \in Cmd, NEW l \in Seq(Layer), NEW b \in Chunk, NEW room \in Nat
  PROVE  Sealed(cmd, l, b, room) \in Cell
BY DEF Sealed, Cell

\* What the client seals first is an onion from hop 1.
LEMMA OwnOnionType ==
  ASSUME NEW cmd \in Cmd, NEW c \in Nat, NEW b \in Chunk, NEW room \in Nat
  PROVE  Sealed(cmd, Onion(1, c), b, room) \in Cell
<1>1. 1 \in Hops
  BY DEF Hops
<1> QED
  BY <1>1, OnionType, SealedType

\* The cells without layers.
LEMMA ControlType ==
  ASSUME NEW cmd \in Cmd, NEW sid \in {0, 1}
  PROVE  Control(cmd, sid) \in Cell
<1>1. <<>> \in Seq(Layer)
  OBVIOUS
<1>2. Cipher \in Chunk
  BY DEF Cipher, Chunk
<1> QED
  BY <1>1, <1>2 DEF Control, Cell

\* Opening a layer leaves a cell, and so does sealing one.
LEMMA PeelType ==
  ASSUME NEW c \in Cell, c.layers # <<>>
  PROVE  Peel(c) \in Cell
<1>1. Tail(c.layers) \in Seq(Layer)
  BY DEF Cell
<1> QED
  BY <1>1 DEF Peel, Cell

\* A sealed cell is a cell.
LEMMA SealType ==
  ASSUME NEW c \in Cell, NEW h \in Hops, NEW n \in Nat
  PROVE  Seal(c, h, n) \in Cell
<1>1. <<[hop |-> h, ctr |-> n]>> \in Seq(Layer)
  BY DEF Layer
<1>2. <<[hop |-> h, ctr |-> n]>> \o c.layers \in Seq(Layer)
  BY <1>1 DEF Cell
<1> QED
  BY <1>2 DEF Seal, Cell

\* The plaintext of a cell is a chunk.
LEMMA TextType ==
  ASSUME NEW c \in Cell, NEW n \in Nat
  PROVE  Text(c, n) \in Chunk
BY DEF Text, Cell, Cipher, Chunk

\* The elements of a sequence with one put in front.
LEMMA Prepend ==
  ASSUME NEW S, NEW e \in S, NEW q \in Seq(S)
  PROVE  /\ <<e>> \o q \in Seq(S) /\ Len(<<e>> \o q) = Len(q) + 1
         /\ (<<e>> \o q)[1] = e
         /\ \A k \in 1 .. Len(q) : (<<e>> \o q)[k + 1] = q[k]
<1>1. <<e>> \o q \in Seq(S)
  OBVIOUS
<1>2. Len(<<e>> \o q) = Len(q) + 1
  OBVIOUS
<1>3. (<<e>> \o q)[1] = e
  OBVIOUS
<1>4. \A k \in 1 .. Len(q) : (<<e>> \o q)[k + 1] = q[k]
  OBVIOUS
<1> QED
  BY <1>1, <1>2, <1>3, <1>4

\* A write leaves queues of cells behind.
LEMMA PutDownType ==
  ASSUME NEW D \in Wires, NEW i \in 0 .. N - 1, NEW c \in Cell
  PROVE  PutDown(D, i, c) \in Wires
<1>1. i + 1 \in Hops
  BY DEF Hops
<1>2. Append(D[i+1], c) \in Seq(Cell)
  BY <1>1 DEF Wires
<1> QED
  BY <1>1, <1>2 DEF PutDown, Wires

\* Writing towards the client keeps the queues typed.
LEMMA PutUpType ==
  ASSUME NEW U \in Wires, NEW i \in Hops, NEW c \in Cell
  PROVE  PutUp(U, i, c) \in Wires
BY DEF PutUp, Wires

\* Forwarding to Down keeps the queues typed.
LEMMA ToDownType ==
  ASSUME NEW D \in Wires, NEW i \in Hops, NEW c \in Cell
  PROVE  ToDown(i, D, c) \in Wires
<1>1. i < N => i \in 0 .. N - 1
  BY DEF Hops
<1> QED
  BY <1>1, PutDownType DEF ToDown

\* A write of the client keeps the queues typed.
LEMMA ClientWritesType ==
  ASSUME TypeOK, NEW c \in Cell, NEW ok \in BOOLEAN, ClientWrites(c, ok)
  PROVE  dn' \in Wires
<1>1. 0 \in 0 .. N - 1
  OBVIOUS
<1>2. PutDown(dn, 0, c) \in Wires
  BY <1>1, PutDownType DEF TypeOK
<1> QED
  BY <1>2 DEF ClientWrites, TypeOK

\* What a ServeConn goroutine reads is a cell, and so is what it leaves unread.
LEMMA ReadsType ==
  ASSUME TypeOK, NEW i \in Hops, NEW s \in Sides, NEW cmds, Reads(i, s, cmds)
  PROVE  /\ Head(Inbox(i, s)) \in Cell
         /\ DnRead(i, s) \in Wires
         /\ UpRead(i, s) \in Wires
<1>1. CASE s = "up"
  <2>1. dn[i] \in Seq(Cell) /\ dn[i] # <<>>
    BY <1>1 DEF TypeOK, Wires, Reads, Inbox
  <2>2. Head(dn[i]) \in Cell /\ Tail(dn[i]) \in Seq(Cell)
    BY <2>1
  <2> QED
    BY <1>1, <2>2 DEF TypeOK, Wires, Inbox, DnRead, UpRead
<1>2. CASE s = "down"
  <2>1. i + 1 \in Hops
    BY <1>2 DEF Reads, Serves, Hops
  <2>2. up[i+1] \in Seq(Cell) /\ up[i+1] # <<>>
    BY <1>2, <2>1 DEF TypeOK, Wires, Reads, Inbox
  <2>3. Head(up[i+1]) \in Cell /\ Tail(up[i+1]) \in Seq(Cell)
    BY <2>2
  <2> QED
    BY <1>2, <2>1, <2>3 DEF TypeOK, Wires, Inbox, DnRead, UpRead
<1> QED
  BY <1>1, <1>2 DEF Sides

\* Closing a ConnState keeps the connections typed.
LEMMA CloseType ==
  ASSUME TypeOK, NEW i \in Hops, NEW D \in Wires, NEW U \in Wires, Close(i, D, U)
  PROVE  dn' \in Wires /\ up' \in Wires /\ topShut' \in Ends /\ botShut' \in Ends
<1>1. <<>> \in Seq(Cell)
  OBVIOUS
<1> QED
  BY <1>1 DEF Close, TypeOK, Wires, Ends

\* The rest of the state.
LEMMA IdleType == Idle \in Job
<1>1. Control("END", 1) \in Cell
  BY ControlType DEF Cmd
<1> QED
  BY <1>1 DEF Idle, Job

\* A goroutine that becomes idle keeps the jobs typed.
LEMMA IdleJobsType ==
  ASSUME TypeOK, NEW i \in Hops, NEW s \in Sides
  PROVE  [job EXCEPT ![i][s] = Idle] \in Jobs
BY IdleType DEF TypeOK, Jobs

\* ensureServeDown keeps the goroutines typed.
LEMMA ServingType ==
  ASSUME TypeOK, NEW i \in Hops, NEW must
  PROVE  Serving(i, must) \in Servers
BY DEF Serving, TypeOK, Servers, Sides

\* Closing the target keeps its state typed.
LEMMA TgtClosedType ==
  ASSUME TypeOK, NEW i, NEW closing
  PROVE  TgtClosed(i, closing) \in Target
BY DEF TgtClosed, TypeOK, Target

\* A nonce taken by the client keeps its counters typed.
LEMMA CountersType ==
  ASSUME NEW c \in Counters
  PROVE  /\ [c EXCEPT !.begin = @ + 1] \in Counters
         /\ [c EXCEPT !.data = @ + 1] \in Counters
         /\ [c EXCEPT !.up = @ + 1] \in Counters
BY DEF Counters

\* The assignments of the handlers to a ConnState.
LEMMA CountsType ==
  ASSUME NEW c \in ConnState, NEW v \in Nat
  PROVE  /\ [c EXCEPT !.begin = @ + 1] \in ConnState
         /\ [c EXCEPT !.data = v] \in ConnState
         /\ [c EXCEPT !.updata = v] \in ConnState
<1>1. [c EXCEPT !.begin = @ + 1] \in ConnState
  BY DEF ConnState
<1>2. [c EXCEPT !.data = v] \in ConnState
  BY DEF ConnState
<1>3. [c EXCEPT !.updata = v] \in ConnState
  BY DEF ConnState
<1> QED
  BY <1>1, <1>2, <1>3

\* The ConnState that CONNECT makes is one.
LEMMA HiddenType ==
  ASSUME NEW c \in ConnState
  PROVE  [c EXCEPT !.updata = 0, !.hidden = TRUE, !.served = FALSE] \in ConnState
BY DEF ConnState
-----------------------------------------------------------------------------
(***************************************************************************)
(* Type correctness.                                                       *)
(***************************************************************************)
LEMMA TypeInit == Init => TypeOK
<1> SUFFICES ASSUME Init PROVE TypeOK
  OBVIOUS
<1>1. <<>> \in Seq(Cell) /\ <<>> \in Seq(Chunk)
  OBVIOUS
<1>2. dn \in Wires /\ up \in Wires /\ topShut \in Ends /\ botShut \in Ends
  BY <1>1 DEF Init, Wires, Ends
<1>3. st \in Relays
  BY DEF Init, Relays, ConnState
<1>4. serve \in Servers
  BY DEF Init, Servers, Sides
<1>5. job \in Jobs
  BY IdleType DEF Init, Jobs
<1>6. fwd \in Upstream /\ ctr \in Counters
  BY DEF Init, Upstream, Counters
<1> QED
  BY <1>1, <1>2, <1>3, <1>4, <1>5, <1>6 DEF Init, TypeOK, Target, Phase, Sock

\* The steps of the client's handler.
LEMMA TypeHandler ==
  ASSUME TypeOK, Handler \/ SendData \/ AppCloses
  PROVE  TypeOK'
<1> USE DEF wires, relays, exit, client, hist
<1>0. Cipher \in Chunk /\ App(sent + 1) \in Chunk
  BY DEF Cipher, App, Chunk, TypeOK
<1>1. CASE SendConnect
  <2>1. Sealed("CONNECT", Onion(1, ctr.begin), Cipher, N) \in Cell
    BY <1>0, OwnOnionType DEF TypeOK, Counters, Cmd
  <2>2. dn' \in Wires
    BY <1>1, <2>1, ClientWritesType DEF SendConnect
  <2>3. ctr' \in Counters
    BY <1>1, CountersType DEF TypeOK, SendConnect
  <2> QED
    BY <1>1, <2>2, <2>3 DEF TypeOK, SendConnect, Return, Phase, Sock
<1>2. CASE OpenStream
  BY <1>2 DEF TypeOK, OpenStream, Phase
<1>3. CASE SendBegin
  <2>1. Sealed("BEGIN", Onion(1, ctr.begin), Cipher, N) \in Cell
    BY <1>0, OwnOnionType DEF TypeOK, Counters, Cmd
  <2>2. dn' \in Wires
    BY <1>3, <2>1, ClientWritesType DEF SendBegin
  <2>3. ctr' \in Counters
    BY <1>3, CountersType DEF TypeOK, SendBegin
  <2> QED
    BY <1>3, <2>2, <2>3 DEF TypeOK, SendBegin, Return, Phase, Sock
<1>4. CASE SendData
  <2>1. PICK room \in Rooms :
          LET c == Sealed("DATA", Onion(1, ctr.data), App(sent + 1), room)
          IN IF Fits(c)
             THEN \E ok \in BOOLEAN :
                    /\ ClientWrites(c, ok)
                    /\ phase' = IF ok THEN "relay" ELSE "end"
                    /\ sent' = IF ok THEN sent + 1 ELSE sent
             ELSE phase' = "end" /\ UNCHANGED <<dn, sent>>
    BY <1>4 DEF SendData
  <2>2. Sealed("DATA", Onion(1, ctr.data), App(sent + 1), room) \in Cell
    BY <1>0, OwnOnionType DEF TypeOK, Counters, Cmd
  <2>3. dn' \in Wires /\ sent' \in Nat /\ phase' \in Phase
    BY <2>1, <2>2, ClientWritesType DEF TypeOK, Phase
  <2>4. ctr' \in Counters
    BY <1>4, CountersType DEF TypeOK, SendData
  <2> QED
    BY <1>4, <2>3, <2>4 DEF TypeOK, SendData
<1>5. CASE AppCloses
  BY <1>5 DEF TypeOK, AppCloses, Sock, Phase
<1>6. CASE SockClosed
  BY <1>6 DEF TypeOK, SockClosed, Phase
<1>7. CASE SendEnd
  <2>1. Control("END", 1) \in Cell
    BY ControlType DEF Cmd
  <2>2. dn' \in Wires
    BY <1>7, <2>1, ClientWritesType DEF SendEnd
  <2> QED
    BY <1>7, <2>2 DEF TypeOK, SendEnd, Return, Phase, Sock
<1>8. CASE SendEndAll
  <2>1. Control("END", 0) \in Cell
    BY ControlType DEF Cmd
  <2>2. dn' \in Wires
    BY <1>8, <2>1, ClientWritesType DEF SendEndAll
  <2> QED
    BY <1>8, <2>2 DEF TypeOK, SendEndAll, Return, Phase, Sock
<1> QED
  BY <1>1, <1>2, <1>3, <1>4, <1>5, <1>6, <1>7, <1>8 DEF Handler

\* The steps of the client's recvLoop.
LEMMA TypeRecvLoop ==
  ASSUME TypeOK, RecvLoop
  PROVE  TypeOK'
<1> USE DEF wires, relays, exit, client, hist
<1>0. 1 \in Hops
  BY DEF Hops
<1>1. CASE RecvCell
  <2>1. up[1] \in Seq(Cell) /\ up[1] # <<>>
    BY <1>0, <1>1 DEF TypeOK, Wires, RecvCell
  <2>2. Head(up[1]) \in Cell /\ Tail(up[1]) \in Seq(Cell)
    BY <2>1
  <2>3. up' \in Wires
    BY <1>0, <1>1, <2>2 DEF TypeOK, Wires, RecvCell
  <2>4. ctr' \in Counters
    BY <1>1, CountersType DEF TypeOK, RecvCell
  <2>5. Text(Head(up[1]), N) \in Chunk
    BY <2>2, TextType
  <2>6. received' \in Seq(Chunk)
    <3>1. received' \in {received, Append(received, Text(Head(up[1]), N))}
      BY <1>1 DEF RecvCell
    <3>2. Append(received, Text(Head(up[1]), N)) \in Seq(Chunk)
      BY <2>5, AppendProperties DEF TypeOK
    <3> QED
      BY <3>1, <3>2 DEF TypeOK
  <2>7. rx' \in {"run", "done"} /\ reg' \in BOOLEAN /\ sock' \in Sock
    BY <1>1 DEF TypeOK, RecvCell, CloseAll, Sock
  <2> QED
    BY <1>1, <2>3, <2>4, <2>6, <2>7 DEF TypeOK, RecvCell
<1>2. CASE RecvEOF
  BY <1>2 DEF TypeOK, RecvEOF, CloseAll, Sock
<1> QED
  BY <1>1, <1>2 DEF RecvLoop

\* The steps of a ServeConn goroutine on any relay.
LEMMA TypeServeConn ==
  ASSUME TypeOK, NEW i \in Hops, NEW s \in Sides, ServeConn(i, s)
  PROVE  TypeOK'
<1> USE DEF wires, relays, exit, client, hist
<1> DEFINE c == Head(Inbox(i, s))
<1>1. CASE ServeStop(i, s)
  <2>1. serve' \in Servers
    BY <1>1 DEF TypeOK, ServeStop, Servers
  <2>2. s = "down" => i + 1 \in Hops
    BY <1>1 DEF ServeStop, Serves, Hops
  <2>3. <<>> \in Seq(Cell)
    OBVIOUS
  <2>4. dn' \in Wires /\ up' \in Wires
    BY <1>1, <2>2, <2>3 DEF TypeOK, ServeStop, Wires, Sides
  <2>5. topShut' \in Ends /\ botShut' \in Ends
    BY <1>1, <2>2 DEF TypeOK, ServeStop, Ends, Sides
  <2> QED
    BY <1>1, <2>1, <2>4, <2>5 DEF TypeOK, ServeStop
<1>2. CASE ForwardSetup(i, s)
  <2>1. c \in Cell /\ DnRead(i, s) \in Wires /\ UpRead(i, s) \in Wires
    BY <1>2, ReadsType DEF ForwardSetup
  <2>2. Opens(c, i, st[i].begin) => PutDown(DnRead(i, s), i, Peel(c)) \in Wires
    <3>1. i \in 0 .. N - 1
      BY <1>2 DEF ForwardSetup, Hops
    <3> QED
      BY <2>1, <3>1, PeelType, PutDownType DEF Opens
  <2>3. dn' \in Wires /\ up' \in Wires
    BY <1>2, <2>1, <2>2 DEF ForwardSetup
  <2>4. serve' \in Servers
    BY <1>2, ServingType DEF ForwardSetup
  <2>5. st' \in Relays
    <3> DEFINE b == st[i].served \/ Opens(c, i, st[i].begin) \/ c.cmd = "CONNECT"
               n == st[i].begin + 1
    <3>1. b \in BOOLEAN
      OBVIOUS
    <3>2. n \in Nat
      BY DEF TypeOK, Relays, ConnState
    <3>3. st' = [st EXCEPT ![i].begin = n, ![i].served = b]
      BY <1>2 DEF ForwardSetup
    <3> HIDE DEF b, n
    <3> QED
      BY <3>1, <3>2, <3>3 DEF TypeOK, Relays, ConnState
  <2> QED
    BY <1>2, <2>3, <2>4, <2>5 DEF TypeOK, ForwardSetup
<1>3. CASE BeginAck(i, s)
  <2>1. dn' \in Wires /\ up' \in Wires
    BY <1>3, ReadsType, PutUpType DEF BeginAck
  <2> QED
    BY <1>3, <2>1 DEF TypeOK, BeginAck
<1>4. CASE EndStream(i, s)
  <2>1. dn' \in Wires /\ up' \in Wires
    BY <1>4, ReadsType, ToDownType DEF EndStream
  <2>2. serve' \in Servers /\ tgt' \in Target
    BY <1>4, ServingType, TgtClosedType DEF EndStream
  <2>3. st' \in Relays
    BY ZenonT(40), <1>4 DEF TypeOK, EndStream, Relays, ConnState
  <2> QED
    BY <1>4, <2>1, <2>2, <2>3 DEF TypeOK, EndStream
<1>5. CASE EndCircuit(i, s)
  <2>1. DnRead(i, s) \in Wires /\ UpRead(i, s) \in Wires /\ ToDown(i, DnRead(i, s), c) \in Wires
    BY <1>5, ReadsType, ToDownType DEF EndCircuit
  <2>2. dn' \in Wires /\ up' \in Wires /\ topShut' \in Ends /\ botShut' \in Ends
    BY <1>5, <2>1, CloseType DEF EndCircuit
  <2>3. serve' \in Servers /\ tgt' \in Target
    BY <1>5, ServingType, TgtClosedType DEF EndCircuit
  <2>4. st' \in Relays
    BY ZenonT(40), <1>5 DEF TypeOK, EndCircuit, Relays, ConnState
  <2> QED
    BY <1>5, <2>2, <2>3, <2>4 DEF TypeOK, EndCircuit
<1>6. CASE TakeData(i, s)
  <2>1. dn' \in Wires /\ up' \in Wires /\ c \in Cell
    BY <1>6, ReadsType DEF TakeData
  <2>2. [pc |-> "open", cell |-> c, nonce |-> st[i].data] \in Job
    BY <2>1 DEF TypeOK, Relays, ConnState, Job
  <2>3. job' \in Jobs
    BY <1>6, <2>2 DEF TypeOK, TakeData, Jobs
  <2> QED
    BY <1>6, <2>1, <2>3 DEF TypeOK, TakeData
<1>7. CASE ForwardData(i, s)
  <2>1. job[i][s] \in Job
    BY DEF TypeOK, Jobs
  <2>2. dn' \in Wires
    <3>1. i \in 0 .. N - 1
      BY <1>7 DEF ForwardData, Hops
    <3>2. Peel(job[i][s].cell) \in Cell
      BY <1>7, <2>1, PeelType DEF ForwardData, OpensData, Opens, Job
    <3> QED
      BY <1>7, <3>1, <3>2, PutDownType DEF TypeOK, ForwardData
  <2>3. PICK v \in Bumped(job[i][s].nonce, st[i].data) :
          st' = [st EXCEPT ![i].data = v, ![i].served = TRUE]
    BY <1>7 DEF ForwardData
  <2>4. v \in Nat
    BY <2>1, <2>3, BumpedType DEF TypeOK, Relays, ConnState, Job
  <2>5. st' \in Relays
    BY <2>3, <2>4 DEF TypeOK, Relays, ConnState
  <2>6. serve' \in Servers /\ job' \in Jobs
    BY <1>7, ServingType, IdleJobsType DEF ForwardData
  <2> QED
    BY <1>7, <2>2, <2>5, <2>6 DEF TypeOK, ForwardData
<1>8. CASE FailData(i, s)
  <2>1. job[i][s] \in Job
    BY DEF TypeOK, Jobs
  <2>2. PICK v \in Bumped(job[i][s].nonce, st[i].data) : st' = [st EXCEPT ![i].data = v]
    BY <1>8 DEF FailData
  <2>3. v \in Nat
    BY <2>1, <2>2, BumpedType DEF TypeOK, Relays, ConnState, Job
  <2>4. st' \in Relays
    BY <2>2, <2>3 DEF TypeOK, Relays, ConnState
  <2>5. [job[i][s] EXCEPT !.pc = "seal", !.nonce = st[i].updata] \in Job
    BY <2>1 DEF TypeOK, Relays, ConnState, Job
  <2>6. job' \in Jobs
    BY <1>8, <2>5, IdleType DEF TypeOK, FailData, Jobs
  <2> QED
    BY <1>8, <2>4, <2>6 DEF TypeOK, FailData
<1>9. CASE SealData(i, s)
  <2> DEFINE k == [job[i][s] EXCEPT !.pc = "send", !.cell = Seal(job[i][s].cell, i, job[i][s].nonce)]
  <2>1. job[i][s] \in Job
    BY DEF TypeOK, Jobs
  <2>2. Seal(job[i][s].cell, i, job[i][s].nonce) \in Cell
    BY <2>1, SealType DEF Job
  <2>3. k \in Job
    BY <2>1, <2>2 DEF Job
  <2>4. PICK v \in Bumped(job[i][s].nonce, st[i].updata) : st' = [st EXCEPT ![i].updata = v]
    BY <1>9 DEF SealData
  <2>5. v \in Nat
    BY <2>1, <2>4, BumpedType DEF TypeOK, Relays, ConnState, Job
  <2>6. st' \in Relays
    BY <2>4, <2>5 DEF TypeOK, Relays, ConnState
  <2>7. job' = [job EXCEPT ![i][s] = k]
    BY <1>9 DEF SealData
  <2>8. job' \in Jobs
    BY <2>3, <2>7 DEF TypeOK, Jobs
  <2> QED
    BY <1>9, <2>6, <2>8 DEF TypeOK, SealData
<1>10. CASE SendSealed(i, s)
  <2>1. job[i][s].cell \in Cell
    BY DEF TypeOK, Jobs, Job
  <2>2. up' \in Wires
    BY <1>10, <2>1, PutUpType DEF TypeOK, SendSealed
  <2>3. job' \in Jobs
    BY <1>10, IdleJobsType DEF SendSealed
  <2> QED
    BY <1>10, <2>2, <2>3 DEF TypeOK, SendSealed
<1> QED
  BY <1>1, <1>2, <1>3, <1>4, <1>5, <1>6, <1>7, <1>8, <1>9, <1>10 DEF ServeConn

\* The steps of the exit's ServeConn goroutine on the circuit's target.
LEMMA TypeServeExit ==
  ASSUME TypeOK, ServeExit
  PROVE  TypeOK'
<1> USE DEF wires, relays, exit, client, hist
<1>0. N \in Hops /\ "up" \in Sides /\ Inbox(N, "up") = dn[N]
  BY DEF Hops, Sides, Inbox
<1>1. job[N]["up"] \in Job
  BY <1>0 DEF TypeOK, Jobs
<1>2. Control("BEGIN_ACK", 1) \in Cell /\ Control("DESTROY", 0) \in Cell
  BY ControlType DEF Cmd
<1>3. DialReturns => job' \in Jobs
  BY <1>0, IdleJobsType DEF DialReturns
<1>4. CASE StartDial
  <2>1. Head(dn[N]) \in Cell /\ dn' \in Wires
    BY <1>0, <1>4, ReadsType DEF StartDial
  <2>2. [pc |-> "dial", cell |-> Head(dn[N]), nonce |-> 0] \in Job
    BY <2>1 DEF Job
  <2>3. job' \in Jobs
    BY <1>0, <1>4, <2>2 DEF TypeOK, StartDial, Jobs
  <2>4. st' \in Relays
    BY <1>0, <1>4, CountsType DEF TypeOK, StartDial, Relays
  <2> QED
    BY <1>4, <2>1, <2>3, <2>4 DEF TypeOK, StartDial
<1>5. CASE Dialled
  <2>1. up' \in Wires
    BY <1>0, <1>2, <1>5, PutUpType DEF TypeOK, Dialled
  <2>2. fwd' \in Upstream
    BY <1>5 DEF TypeOK, Dialled, FwdStarts, Upstream
  <2> QED
    BY <1>3, <1>5, <2>1, <2>2 DEF TypeOK, Dialled, Target
<1>6. CASE DialRefused
  <2>1. up' \in Wires
    BY <1>0, <1>2, <1>6, PutUpType DEF TypeOK, DialRefused
  <2> QED
    BY <1>3, <1>6, <2>1 DEF TypeOK, DialRefused, Target
<1>7. CASE HiddenDialled
  <2>1. up' \in Wires
    BY <1>0, <1>2, <1>7, PutUpType DEF TypeOK, HiddenDialled
  <2>2. st' \in Relays
    BY <1>0, <1>7, HiddenType DEF TypeOK, HiddenDialled, Relays
  <2>3. table' \subseteq Hops
    BY <1>0, <1>7 DEF TypeOK, HiddenDialled
  <2> QED
    BY <1>3, <1>7, <2>1, <2>2, <2>3 DEF TypeOK, HiddenDialled, Target
<1>8. CASE HiddenRefused
  BY <1>3, <1>8 DEF TypeOK, HiddenRefused, Target
<1>9. CASE BeginHidden
  <2>1. dn' \in Wires
    BY <1>0, <1>9, ReadsType DEF BeginHidden
  <2>2. up' \in Wires
    BY <1>0, <1>2, <1>9, PutUpType DEF TypeOK, BeginHidden
  <2>3. fwd' \in Upstream
    BY <1>9 DEF TypeOK, BeginHidden, FwdStarts, Upstream
  <2>4. st' \in Relays
    BY <1>0, <1>9, CountsType DEF TypeOK, BeginHidden, Relays
  <2> QED
    BY <1>9, <2>1, <2>2, <2>3, <2>4 DEF TypeOK, BeginHidden
<1>10. CASE DeliverData
  <2>1. PICK v \in Bumped(job[N]["up"].nonce, st[N].data) : st' = [st EXCEPT ![N].data = v]
    BY <1>10 DEF DeliverData
  <2>2. v \in Nat
    BY <1>0, <1>1, <2>1, BumpedType DEF TypeOK, Relays, ConnState, Job
  <2>3. st' \in Relays
    BY <1>0, <2>1, <2>2, CountsType DEF TypeOK, Relays
  <2>4. job' \in Jobs
    BY <1>0, <1>10, IdleJobsType DEF DeliverData
  <2>5. PutUp(up, N, Control("DESTROY", 0)) \in Wires /\ TgtClosed(N, strm) \in Target
    BY <1>0, <1>2, PutUpType, TgtClosedType DEF TypeOK
  <2>6. up' \in Wires /\ tgt' \in Target /\ strm' \in BOOLEAN
    BY <1>10, <2>5 DEF TypeOK, DeliverData
  <2>7. Append(delivered, Text(job[N]["up"].cell, 1)) \in Seq(Chunk)
    <3>1. Text(job[N]["up"].cell, 1) \in Chunk
      BY <1>1, TextType DEF Job
    <3> QED
      BY <3>1, AppendProperties DEF TypeOK
  <2>8. delivered' \in Seq(Chunk)
    BY <1>10, <2>7 DEF TypeOK, DeliverData
  <2> QED
    BY <1>10, <2>3, <2>4, <2>6, <2>8 DEF TypeOK, DeliverData
<1> QED
  BY <1>4, <1>5, <1>6, <1>7, <1>8, <1>9, <1>10 DEF ServeExit

\* The steps of forwardUpstream and of a goroutine on a hidden service's connection.
LEMMA TypeForwardUpstream ==
  ASSUME TypeOK, FwdRead \/ ForwardUpstream \/ HiddenServeRead \/ HiddenServeStop
  PROVE  TypeOK'
<1> USE DEF wires, relays, exit, client, hist
<1>0. N \in Hops
  BY DEF Hops
<1>1. CASE FwdRead
  <2>1. fwd' \in Upstream
    BY <1>0, <1>1 DEF TypeOK, FwdRead, Upstream, Relays, ConnState
  <2> QED
    BY <1>1, <2>1 DEF TypeOK, FwdRead
<1>2. CASE FwdSeal
  <2>1. Sealed("DATA", <<>>, Svc(fwd.no), fwd.room) \in Cell
    <3>1. <<>> \in Seq(Layer) /\ "DATA" \in Cmd
      BY DEF Cmd
    <3>2. Svc(fwd.no) \in Chunk /\ fwd.room \in Nat
      BY DEF TypeOK, Upstream, Svc, Chunk
    <3> QED
      BY <3>1, <3>2, SealedType
  <2>2. Seal(Sealed("DATA", <<>>, Svc(fwd.no), fwd.room), N, fwd.nonce) \in Cell
    BY <1>0, <2>1, SealType DEF TypeOK, Upstream
  <2>3. up' \in Wires
    BY <1>0, <1>2, <2>2, PutUpType DEF TypeOK, FwdSeal
  <2>4. PICK v \in Bumped(fwd.nonce, st[N].updata) : st' = [st EXCEPT ![N].updata = v]
    BY <1>2 DEF FwdSeal
  <2>5. v \in Nat
    BY <1>0, <2>4, BumpedType DEF TypeOK, Relays, ConnState, Upstream
  <2>6. st' \in Relays
    BY <1>0, <2>4, <2>5, CountsType DEF TypeOK, Relays
  <2>7. fwd' \in Upstream
    BY <1>2 DEF TypeOK, FwdSeal, Upstream
  <2> QED
    BY <1>2, <2>3, <2>6, <2>7 DEF TypeOK, FwdSeal
<1>3. CASE FwdEnd
  <2>1. up' \in Wires
    BY <1>0, <1>3, ControlType, PutUpType DEF TypeOK, FwdEnd, Cmd
  <2>2. fwd' \in Upstream /\ tgt' \in Target
    BY <1>3, TgtClosedType DEF TypeOK, FwdEnd, Upstream
  <2> QED
    BY <1>3, <2>1, <2>2 DEF TypeOK, FwdEnd
<1>4. CASE HiddenServeRead
  BY <1>4 DEF TypeOK, HiddenServeRead
<1>5. CASE HiddenServeStop
  <2>1. serve' \in Servers /\ tgt' \in Target
    BY <1>5, TgtClosedType DEF TypeOK, HiddenServeStop, Servers
  <2> QED
    BY <1>5, <2>1 DEF TypeOK, HiddenServeStop
<1> QED
  BY <1>1, <1>2, <1>3, <1>4, <1>5 DEF ForwardUpstream

\* The steps of the environment.
LEMMA TypeEnvironment ==
  ASSUME TypeOK, TargetCloses \/ \E i \in Hops : Expire(i) \/ ResetDn(i) \/ ResetUp(i)
  PROVE  TypeOK'
<1> USE DEF wires, relays, exit, client, hist
<1>0. <<>> \in Seq(Cell)
  OBVIOUS
<1>1. CASE TargetCloses
  BY <1>1 DEF TypeOK, TargetCloses, Target
<1>2. ASSUME NEW i \in Hops, Expire(i)
      PROVE  TypeOK'
  <2>1. dn' \in Wires /\ up' \in Wires /\ topShut' \in Ends /\ botShut' \in Ends
    BY <1>2, CloseType DEF TypeOK, Expire
  <2>2. tgt' \in Target /\ table' \subseteq Hops
    BY <1>2, TgtClosedType DEF TypeOK, Expire
  <2> QED
    BY <1>2, <2>1, <2>2 DEF TypeOK, Expire
<1>3. ASSUME NEW i \in Hops, ResetDn(i)
      PROVE  TypeOK'
  BY <1>0, <1>3 DEF TypeOK, ResetDn, Wires
<1>4. ASSUME NEW i \in Hops, ResetUp(i)
      PROVE  TypeOK'
  BY <1>0, <1>4 DEF TypeOK, ResetUp, Wires
<1> QED
  BY <1>1, <1>2, <1>3, <1>4

\* Every step keeps every variable typed.
LEMMA TypeNext ==
  ASSUME TypeOK, [Next]_vars
  PROVE  TypeOK'
<1>1. CASE Next
  <2>1. ASSUME NEW i \in Hops, NEW s \in Sides, ServeConn(i, s)
        PROVE  TypeOK'
    BY <2>1, TypeServeConn
  <2>2. CASE TargetCloses \/ \E i \in Hops : Expire(i) \/ ResetDn(i) \/ ResetUp(i)
    BY <2>2, TypeEnvironment
  <2>3. CASE FwdRead \/ ForwardUpstream \/ HiddenServeRead \/ HiddenServeStop
    BY <2>3, TypeForwardUpstream
  <2> QED
    BY <1>1, <2>1, <2>2, <2>3, TypeHandler, TypeRecvLoop, TypeServeExit DEF Next
<1>2. CASE UNCHANGED vars
  BY <1>2 DEF TypeOK, vars, wires, relays, exit, client, hist
<1> QED
  BY <1>1, <1>2

\* Every variable keeps its type: counters bumped by two goroutines without a lock
\* stay numbers, every queue holds cells, every layer belongs to a hop.
THEOREM TypeCorrect == Spec => []TypeOK
BY TypeInit, TypeNext, PTL DEF Spec
=============================================================================
