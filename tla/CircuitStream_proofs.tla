------------------------ MODULE CircuitStream_proofs ------------------------
(***************************************************************************)
(* A circuit that is not for a hidden service implements OrderedStream,    *)
(* for every number of hops: every step of Circuit is a step of one stream *)
(* or changes neither.  The order comes from the invariants of the two     *)
(* directions, which hold before the step and after it.                    *)
(*                                                                         *)
(* For hidden services as well the way up is in order as long as the       *)
(* client has not ended the stream and the exit delivers what it opens.    *)
(***************************************************************************)
EXTENDS CircuitUp_proofs, CircuitDown_proofs

USE CircuitAssumption

\* A chunk comes out at one end, and nothing else happens to the streams.
Out(s) == \E c \in Chunk : s' = Append(s, c)

\* The steps that touch a stream, each in one place.
LEMMA StreamSteps ==
  ASSUME TypeOK, TypeOK', [Next]_vars
  PROVE  \/ UNCHANGED <<sent, delivered, replied, received>>
         \/ sent' = sent + 1 /\ UNCHANGED <<delivered, replied, received>>
         \/ replied' = replied + 1 /\ UNCHANGED <<sent, delivered, received>>
         \/ Out(delivered) /\ UNCHANGED <<sent, replied, received>>
         \/ Out(received) /\ UNCHANGED <<sent, delivered, replied>>
<1> USE DEF wires, relays, exit, client, hist
<1> DEFINE Same == UNCHANGED <<sent, delivered, replied, received>>
<1>1. CASE SendData
  BY <1>1 DEF SendData
<1>2. CASE Handler \/ AppCloses \/ RecvEOF
  BY <1>2 DEF Handler, SendConnect, OpenStream, SendBegin, AppCloses, SockClosed, SendEnd,
              SendEndAll, RecvEOF
<1>3. CASE RecvCell
  <2>1. UNCHANGED <<sent, delivered, replied>>
    BY <1>3 DEF RecvCell
  <2>2. received' = received \/ received' = Append(received, Text(Head(up[1]), N))
    BY <1>3 DEF RecvCell
  <2>3. Text(Head(up[1]), N) \in Chunk
    <3>1. 1 \in Hops /\ up[1] # <<>>
      BY <1>3 DEF RecvCell, Hops
    <3>2. up[1] \in Seq(Cell)
      BY <3>1 DEF TypeOK, Wires
    <3>3. Head(up[1]) \in Cell
      BY <3>1, <3>2
    <3> QED
      BY <3>3, TextType
  <2> QED
    BY <2>1, <2>2, <2>3 DEF Out
<1>4. ASSUME NEW i \in Hops, NEW s \in Sides, ServeConn(i, s)
      PROVE  Same
  BY <1>4 DEF ServeConn, ServeStop, ForwardSetup, BeginAck, EndStream, EndCircuit,
              TakeData, ForwardData, FailData, SealData, SendSealed
<1>5. CASE ServeExit
  <2>1. CASE DeliverData
    <3>1. UNCHANGED <<sent, replied, received>>
      BY <2>1 DEF DeliverData
    <3>2. delivered' = delivered \/ delivered' = Append(delivered, Text(job[N]["up"].cell, 1))
      BY <2>1 DEF DeliverData
    <3>3. Text(job[N]["up"].cell, 1) \in Chunk
      <4>1. N \in Hops /\ "up" \in Sides
        BY DEF Hops, Sides
      <4>2. job[N]["up"].cell \in Cell
        BY <4>1 DEF TypeOK, Jobs, Job
      <4> QED
        BY <4>2, TextType
    <3> QED
      BY <3>1, <3>2, <3>3 DEF Out
  <2>2. CASE ~DeliverData
    BY <1>5, <2>2 DEF ServeExit, StartDial, Dialled, DialRefused, HiddenDialled, HiddenRefused,
                      BeginHidden
  <2> QED
    BY <2>1, <2>2
<1>6. CASE FwdRead \/ HiddenServeRead
  BY <1>6 DEF FwdRead, HiddenServeRead
<1>7. CASE ForwardUpstream \/ HiddenServeStop \/ TargetCloses
  BY <1>7 DEF ForwardUpstream, FwdSeal, FwdEnd, HiddenServeStop, TargetCloses
<1>8. ASSUME NEW i \in Hops, Expire(i) \/ ResetDn(i) \/ ResetUp(i)
      PROVE  Same
  BY <1>8 DEF Expire, ResetDn, ResetUp
<1>9. CASE UNCHANGED vars
  BY <1>9 DEF vars
<1> QED
  BY <1>1, <1>2, <1>3, <1>4, <1>5, <1>6, <1>7, <1>8, <1>9 DEF Next, RecvLoop

\* The last chunk of a sequence that has grown.
LEMMA LastChunk ==
  ASSUME NEW q \in Seq(Chunk), NEW c \in Chunk
  PROVE  LET r == Append(q, c)
         IN Len(q) \in Nat /\ Len(r) = Len(q) + 1 /\ r[Len(q) + 1] = c /\ Len(q) + 1 \in DOMAIN r
OBVIOUS

\* The streams begin empty.
LEMMA StreamInit == Init => Stream!Init
BY DEF Init, Stream!Init

\* Every step is one of the abstract specification, or a stutter.
LEMMA StreamNext ==
  ASSUME UpInv, UpInv', DownInv, DownInv', [Next]_vars
  PROVE  [Stream!Next]_(Stream!osvars)
<1>0. /\ TypeOK /\ TypeOK' /\ DownOrdered' /\ UpOrdered'
      /\ delivered \in Seq(Chunk) /\ received \in Seq(Chunk) /\ sent \in Nat /\ replied \in Nat
  BY DEF UpInv, DownInv, TypeOK
<1>1. CASE UNCHANGED <<sent, delivered, replied, received>>
  BY <1>1 DEF Stream!osvars
<1>2. CASE sent' = sent + 1 /\ UNCHANGED <<delivered, replied, received>>
  BY <1>2 DEF Stream!Next, Stream!Send
<1>3. CASE replied' = replied + 1 /\ UNCHANGED <<sent, delivered, received>>
  BY <1>3 DEF Stream!Next, Stream!Reply
<1>4. CASE Out(delivered) /\ UNCHANGED <<sent, replied, received>>
  <2>1. PICK c \in Chunk : delivered' = Append(delivered, c)
    BY <1>4 DEF Out
  <2>2. /\ Len(delivered) \in Nat /\ Len(delivered') = Len(delivered) + 1
        /\ delivered'[Len(delivered) + 1] = c /\ Len(delivered) + 1 \in DOMAIN delivered'
    BY <1>0, <2>1, LastChunk
  <2>3. c = App(Len(delivered) + 1) /\ Len(delivered) + 1 <= sent
    BY <1>0, <1>4, <2>2 DEF DownOrdered
  <2>4. Stream!Deliver
    BY <1>0, <1>4, <2>1, <2>2, <2>3 DEF Stream!Deliver, Stream!App, App
  <2> QED
    BY <2>4 DEF Stream!Next
<1>5. CASE Out(received) /\ UNCHANGED <<sent, delivered, replied>>
  <2>1. PICK c \in Chunk : received' = Append(received, c)
    BY <1>5 DEF Out
  <2>2. /\ Len(received) \in Nat /\ Len(received') = Len(received) + 1
        /\ received'[Len(received) + 1] = c /\ Len(received) + 1 \in DOMAIN received'
    BY <1>0, <2>1, LastChunk
  <2>3. c = Svc(Len(received) + 1) /\ Len(received) + 1 <= replied
    BY <1>0, <1>5, <2>2 DEF UpOrdered
  <2>4. Stream!Receive
    BY <1>0, <1>5, <2>1, <2>2, <2>3 DEF Stream!Receive, Stream!Svc, Svc
  <2> QED
    BY <2>4 DEF Stream!Next
<1> QED
  BY <1>0, <1>1, <1>2, <1>3, <1>4, <1>5, StreamSteps

\* A circuit that is not for a hidden service is an ordered stream in each direction,
\* however many relays it has.
THEOREM StreamImplemented == ~Hidden => (Spec => ImplementsStream)
<1> SUFFICES ASSUME ~Hidden
             PROVE  Spec => ImplementsStream
  OBVIOUS
<1>1. UpInv /\ UpInv' /\ DownInv /\ DownInv' /\ [Next]_vars => [Stream!Next]_(Stream!osvars)
  BY StreamNext
<1> QED
  BY <1>1, StreamInit, UpInvariant, DownInvariant, PTL DEF Spec, ImplementsStream, Stream!Spec
-----------------------------------------------------------------------------
(***************************************************************************)
(* The way up of any circuit, as long as the client has not ended the      *)
(* stream and the exit delivers what it opens.                             *)
(***************************************************************************)
\* A stream that the client has ended stays ended.
LEMMA EndedStays ==
  ASSUME Next, phase \in {"endall", "returned"}
  PROVE  phase' \in {"endall", "returned"}
<1> USE DEF wires, relays, exit, client, hist
<1>1. CASE Handler \/ SendData \/ AppCloses
  BY <1>1 DEF Handler, SendConnect, OpenStream, SendBegin, SendData, AppCloses, SockClosed,
              SendEnd, SendEndAll, Return
<1>2. CASE RecvLoop
  BY <1>2 DEF RecvLoop, RecvCell, RecvEOF
<1>3. ASSUME NEW i \in Hops, NEW s \in Sides, ServeConn(i, s)
      PROVE  phase' = phase
  BY <1>3 DEF ServeConn, ServeStop, ForwardSetup, BeginAck, EndStream, EndCircuit,
              TakeData, ForwardData, FailData, SealData, SendSealed
<1>4. CASE ServeExit
  BY <1>4 DEF ServeExit, StartDial, Dialled, DialRefused, HiddenDialled, HiddenRefused,
              BeginHidden, DeliverData
<1>5. CASE FwdRead \/ ForwardUpstream \/ HiddenServeRead \/ HiddenServeStop \/ TargetCloses
  BY <1>5 DEF FwdRead, ForwardUpstream, FwdSeal, FwdEnd, HiddenServeRead, HiddenServeStop,
              TargetCloses
<1>6. ASSUME NEW i \in Hops, Expire(i) \/ ResetDn(i) \/ ResetUp(i)
      PROVE  phase' = phase
  BY <1>6 DEF Expire, ResetDn, ResetUp
<1> QED
  BY <1>1, <1>2, <1>3, <1>4, <1>5, <1>6 DEF Next

\* Once out of step, always out of step: so a state in time has been so all along, and
\* the exit has opened what it took.
LEMMA InTimeNext ==
  ASSUME DownInv, Next, InTime'
  PROVE  InTime /\ ~FailData(N, "up")
<1> DEFINE n == st[N].data
           m == Len(delivered)
<1>0. TypeOK /\ TypeOK' /\ Back /\ m <= n /\ (m < n => delivered' = delivered)
  BY DownNext, TypeNext DEF DownInv, InStep
<1>1. n \in Nat /\ m \in Nat
  <2>1. N \in Hops /\ st \in Relays /\ delivered \in Seq(Chunk)
    BY <1>0 DEF TypeOK, Hops
  <2> QED
    BY <2>1 DEF Relays, ConnState
<1>2. phase \notin {"endall", "returned"} /\ Len(delivered') = st'[N].data
  BY EndedStays DEF InTime
<1>3. CASE Opening
  <2>1. st'[N].data = n + 1
    BY <1>0, <1>3, OpeningStep
  <2>2. delivered' # delivered
    BY <1>0, <1>1, <1>2, <2>1
  <2>3. m = n
    BY <1>0, <1>1, <2>2
  <2>4. ~FailData(N, "up")
    BY <2>2 DEF FailData, hist
  <2> QED
    BY <1>2, <2>3, <2>4 DEF InTime
<1>4. CASE ~Opening
  <2>1. st'[N].data = n
    BY <1>0, <1>4, CountNext
  <2>2. m = n
    BY <1>0, <1>1, <1>2, <2>1
  <2> QED
    BY <1>2, <1>4, <2>2 DEF InTime, Opening
<1> QED
  BY <1>3, <1>4

\* What a relay's goroutine is about to open has the layers of the hops to come.
LEMMA HandCell ==
  ASSUME DownInv, NEW i \in Hops, job[i]["up"].pc = "open"
  PROVE  /\ job[i]["up"].cell.cmd = "DATA" /\ DownCell(i, job[i]["up"].cell)
         /\ sent # 0
<1> DEFINE c == job[i]["up"].cell
           q == Pipes(dn, job)[i]
<1>0. /\ "up" \in Sides /\ dn \in Wires /\ job \in Jobs /\ InHand(job[i]["up"])
      /\ AllChunks(Pipes(dn, job), sent) /\ c.cmd = "DATA" /\ sent \in Nat
  BY DEF DownInv, TypeOK, Sides, InHand, Back, BackJob
<1>1. Len(q) = Len(dn[i]) + 1 /\ q[1] = c /\ Len(dn[i]) \in Nat
  BY <1>0, PipeHead DEF Wires
<1> HIDE DEF q
<1>2. 1 \in 1 .. Len(q)
  BY <1>1
<1>3. ChunkCell(i, c, sent)
  BY <1>0, <1>1, <1>2 DEF AllChunks, q
<1>4. PICK no : no = c.body.no
  OBVIOUS
<1>5. no \in 1 .. sent /\ c.layers = Onion(i, no - 1)
  BY <1>0, <1>3, <1>4 DEF ChunkCell
<1>6. no - 1 \in Nat /\ sent # 0
  BY <1>0, <1>5
<1>7. PICK l : l = Onion(i, no - 1)
  OBVIOUS
<1>8. l \in Seq(Layer) /\ l = [k \in 1 .. N - i + 1 |-> [hop |-> i + k - 1, ctr |-> no - 1]]
  BY <1>6, <1>7, OnionType DEF Onion
<1>9. DOMAIN l = 1 .. Len(l) /\ N - i + 1 \in Nat
  BY <1>8 DEF Hops
<1>10. Len(l) = N - i + 1 /\ \A k \in 1 .. N - i + 1 : l[k].hop = i + k - 1
  BY <1>8, <1>9
<1> HIDE DEF c
<1> QED
  BY <1>0, <1>5, <1>6, <1>7, <1>10 DEF DownCell, c

\* What a ServeConn goroutine leaves of the way up, and what it reads of it.
LEMMA ReadUpCells ==
  ASSUME TypeOK, NEW n, UpCells(up, n), NEW i \in Hops, NEW s \in Sides, NEW cmds, Reads(i, s, cmds)
  PROVE  /\ UpCells(UpRead(i, s), n)
         /\ s = "down" => i < N /\ UpCell(i + 1, Head(Inbox(i, s)), n)
<1>1. CASE s = "up"
  BY <1>1 DEF UpRead
<1>2. CASE s = "down"
  <2>1. i < N /\ i + 1 \in Hops
    BY <1>2 DEF Reads, Serves, Hops
  <2>2. up[i+1] \in Seq(Cell) /\ up[i+1] # <<>> /\ Inbox(i, s) = up[i+1]
    BY <1>2, <2>1 DEF TypeOK, Wires, Reads, Inbox
  <2>3. UpCell(i + 1, Head(up[i+1]), n)
    BY <2>1, <2>2 DEF UpCells
  <2>4. UpCells([up EXCEPT ![i+1] = Tail(@)], n)
    BY <2>1, <2>2, TailUpCells DEF TypeOK
  <2> QED
    BY <1>2, <2>1, <2>2, <2>3, <2>4 DEF UpRead
<1> QED
  BY <1>1, <1>2 DEF Sides

\* Losing cells leaves the others as they are.
LEMMA ClearUpCells ==
  ASSUME NEW U, NEW V, NEW n, UpCells(U, n), \A h \in Hops : V[h] \in {U[h], <<>>}
  PROVE  UpCells(V, n)
<1>1. Len(<<>>) = 0
  OBVIOUS
<1> QED
  BY <1>1 DEF UpCells

\* The ServeConn goroutines seal on their way up only what is no chunk of the target's,
\* or what came from the next relay.
LEMMA ReturnServeConn ==
  ASSUME DownInv, NEW n \in Nat, UpCells(up, n), Returning(n),
         NEW i \in Hops, NEW s \in Sides, ServeConn(i, s), ~FailData(N, "up")
  PROVE  UpCells(up', n) /\ Returning(n)'
<1> USE DEF wires, relays, exit, client, hist
<1> DEFINE c == Head(Inbox(i, s))
           j == job[i][s]
           Proper(k) == /\ IF s = "up" THEN k.pc = "seal" => i < N /\ DownCell(i, k.cell)
                                       ELSE DownJob(i, k, n)
                        /\ SentJob(i, k, n)
<1>0. /\ TypeOK /\ Back /\ dn \in Wires /\ up \in Wires /\ job \in Jobs /\ j \in Job
      /\ BackJob(i, s, j) /\ Proper(j)
      /\ j.pc = "open" => j.cell.cmd = "DATA" /\ (s = "up" => DownCell(i, j.cell))
  <2>1. TypeOK /\ Back /\ dn \in Wires /\ up \in Wires /\ job \in Jobs
    BY DEF DownInv, TypeOK
  <2>2. j \in Job /\ BackJob(i, s, j)
    BY <2>1 DEF Jobs, Back
  <2>3. Proper(j)
    BY DEF Returning, Sides
  <2>4. j.pc = "open" => j.cell.cmd = "DATA" /\ (s = "up" => DownCell(i, j.cell))
    BY <2>2, HandCell DEF BackJob
  <2> QED
    BY <2>1, <2>2, <2>3, <2>4
\* What a step that reads a cell finds and leaves.
<1>r. ASSUME NEW cmds, Reads(i, s, cmds)
      PROVE  /\ c \in Cell /\ c.cmd \in cmds /\ UpRead(i, s) \in Wires
             /\ UpCells(UpRead(i, s), n)
             /\ s = "down" => i < N /\ UpCell(i + 1, c, n)
  BY <1>r, <1>0, ReadsType, ReadUpCells DEF Reads
\* What a step that changes the job of this goroutine has to show.
<1>j. ASSUME NEW k, job' = [job EXCEPT ![i][s] = k], Proper(k)
      PROVE  Returning(n)'
  BY <1>0, <1>j DEF Returning, Jobs, Sides
<1>i. Proper(Idle)
  BY DEF Idle, DownJob, SentJob
<1>w. job' = job => Returning(n)'
  BY DEF Returning
<1> HIDE DEF c, j, Proper
<1>1. CASE ServeStop(i, s)
  <2>1. s = "down" => i + 1 \in Hops
    BY <1>1 DEF ServeStop, Serves, Hops
  <2>2. \A h \in Hops : up'[h] \in {up[h], <<>>}
    BY <1>0, <1>1, <2>1 DEF ServeStop, Wires
  <2>3. UpCells(up', n)
    BY <2>2, ClearUpCells
  <2> QED
    BY <1>1, <1>w, <2>3 DEF ServeStop
<1>2. CASE ForwardSetup(i, s) \/ EndStream(i, s)
  <2>1. UpCells(UpRead(i, s), n)
    BY <1>2, <1>r DEF ForwardSetup, EndStream
  <2>2. up' = UpRead(i, s) /\ job' = job
    BY <1>2 DEF ForwardSetup, EndStream
  <2> QED
    BY <1>w, <2>1, <2>2
<1>3. CASE BeginAck(i, s)
  <2>1. c \in Cell /\ c.cmd = "BEGIN_ACK" /\ UpCells(UpRead(i, s), n) /\ UpRead(i, s) \in Wires
    BY <1>3, <1>r DEF BeginAck
  <2>2. UpCells(PutUp(UpRead(i, s), i, c), n)
    BY <2>1, ControlCells, PutUpCells
  <2> QED
    BY <1>3, <1>w, <2>2 DEF BeginAck, c
<1>4. CASE EndCircuit(i, s)
  <2>1. UpCells(UpRead(i, s), n) /\ UpRead(i, s) \in Wires
    BY <1>4, <1>r DEF EndCircuit
  <2>2. \A h \in Hops : up'[h] \in {UpRead(i, s)[h], <<>>}
    BY <1>4, <2>1 DEF EndCircuit, Close
  <2>3. UpCells(up', n)
    BY <2>1, <2>2, ClearUpCells
  <2> QED
    BY <1>4, <1>w, <2>3 DEF EndCircuit
<1>5. CASE TakeData(i, s)
  <2> DEFINE k == [pc |-> "open", cell |-> c, nonce |-> st[i].data]
  <2>1. c.cmd = "DATA" /\ UpCells(UpRead(i, s), n) /\ (s = "down" => i < N /\ UpCell(i + 1, c, n))
    BY <1>5, <1>r DEF TakeData
  <2>2. job' = [job EXCEPT ![i][s] = k] /\ UpCells(up', n)
    BY <1>5, <2>1 DEF TakeData, c
  <2>3. Proper(k)
    BY <2>1 DEF Proper, DownJob, SentJob, Sides
  <2> HIDE DEF k
  <2> QED
    BY <1>j, <2>2, <2>3
<1>6. CASE ForwardData(i, s)
  BY <1>6, <1>i, <1>j DEF ForwardData
<1>7. CASE FailData(i, s)
  <2> DEFINE k == [j EXCEPT !.pc = "seal", !.nonce = st[i].updata]
  <2>1. /\ j.pc = "open" /\ up' = up
        /\ job' = [job EXCEPT ![i][s] = IF HasDown(i) THEN k ELSE Idle]
    BY <1>7 DEF FailData, j
  <2>2. k.pc = "seal" /\ k.cell = j.cell
    BY <1>0 DEF Job
  <2>3. i < N
    <3>1. CASE s = "up"
      <4>1. i # N
        BY <1>7, <3>1
      <4> QED
        BY <4>1 DEF Hops
    <3>2. CASE s = "down"
      BY <1>0, <2>1, <3>2 DEF BackJob
    <3> QED
      BY <3>1, <3>2 DEF Sides
  <2>4. Proper(k)
    BY <1>0, <2>1, <2>2, <2>3 DEF Proper, DownJob, SentJob
  <2> HIDE DEF k
  <2> QED
    BY <1>i, <1>j, <2>1, <2>4
<1>8. CASE SealData(i, s)
  <2>1. j.pc = "seal" /\ j.cell \in Cell /\ j.cell.cmd = "DATA" /\ j.nonce \in Nat /\ i < N
    BY <1>0, <1>8 DEF SealData, BackJob, Proper, Job, Sides, j
  <2>2. UpCell(i, Seal(j.cell, i, j.nonce), n)
    <3>1. CASE s = "up"
      <4>1. DownCell(i, j.cell)
        BY <1>0, <2>1, <3>1 DEF Proper
      <4> QED
        BY <2>1, <4>1, SentBack
    <3>2. CASE s = "down"
      <4>1. UpCell(i + 1, j.cell, n)
        BY <1>0, <2>1, <3>2 DEF Proper, DownJob
      <4> QED
        BY <2>1, <4>1, SentOn
    <3> QED
      BY <3>1, <3>2 DEF Sides
  <2> DEFINE k == [j EXCEPT !.pc = "send", !.cell = Seal(j.cell, i, j.nonce)]
  <2>3. k.pc = "send" /\ k.cell = Seal(j.cell, i, j.nonce)
    BY <1>0 DEF Job
  <2>4. up' = up /\ job' = [job EXCEPT ![i][s] = k]
    BY <1>8 DEF SealData, j
  <2> HIDE DEF k
  <2>5. Proper(k)
    BY <2>2, <2>3 DEF Proper, DownJob, SentJob
  <2> QED
    BY <1>j, <2>4, <2>5
<1>9. CASE SendSealed(i, s)
  <2>1. j.cell \in Cell /\ UpCell(i, j.cell, n)
    BY <1>0, <1>9 DEF SendSealed, Proper, SentJob, Job, j
  <2>2. UpCells(PutUp(up, i, j.cell), n)
    BY <1>0, <2>1, PutUpCells
  <2>3. UpCells(up', n) /\ job' = [job EXCEPT ![i][s] = Idle]
    BY <1>9, <2>2 DEF SendSealed, j
  <2> QED
    BY <1>i, <1>j, <2>3
<1> QED
  BY <1>1, <1>2, <1>3, <1>4, <1>5, <1>6, <1>7, <1>8, <1>9 DEF ServeConn

\* A control cell of the exit's.
LEMMA ExitUpCells ==
  ASSUME TypeOK, NEW n, UpCells(up, n), NEW cmd \in {"BEGIN_ACK", "END", "DESTROY"}, NEW sid \in {0, 1}
  PROVE  UpCells(PutUp(up, N, Control(cmd, sid)), n)
<1>1. N \in Hops /\ up \in Wires /\ cmd \in Cmd /\ Control(cmd, sid).cmd = cmd
  BY DEF Hops, TypeOK, Cmd, Control
<1>2. Control(cmd, sid) \in Cell /\ UpCell(N, Control(cmd, sid), n)
  BY <1>1, ControlType, ControlCells
<1> QED
  BY <1>1, <1>2, PutUpCells

\* What only the exit does, and the rest but for forwardUpstream.
LEMMA ReturnNext ==
  ASSUME DownInv, NEW n \in Nat, UpCells(up, n), Returning(n), Next, ~FailData(N, "up"),
         ~ForwardUpstream
  PROVE  UpCells(up', n) /\ Returning(n)'
<1> USE DEF wires, relays, exit, client, hist
<1>0. TypeOK /\ dn \in Wires /\ up \in Wires /\ job \in Jobs /\ N \in Hops
  BY DEF DownInv, TypeOK, Hops
<1>w. job' = job => Returning(n)'
  BY DEF Returning
<1>1. CASE Handler \/ SendData \/ AppCloses \/ RecvEOF \/ FwdRead \/ HiddenServeRead \/ HiddenServeStop
           \/ TargetCloses
  <2>1. UNCHANGED <<up, job>>
    BY <1>1 DEF Handler, SendConnect, OpenStream, SendBegin, SendData, AppCloses, SockClosed,
                SendEnd, SendEndAll, RecvEOF, FwdRead, HiddenServeRead, HiddenServeStop, TargetCloses
  <2> QED
    BY <1>w, <2>1
<1>2. CASE RecvCell
  <2>1. 1 \in Hops /\ up[1] # <<>> /\ up' = [up EXCEPT ![1] = Tail(@)] /\ job' = job
    BY <1>2 DEF RecvCell, Hops
  <2> QED
    BY <1>0, <1>w, <2>1, TailUpCells
<1>3. ASSUME NEW i \in Hops, NEW s \in Sides, ServeConn(i, s)
      PROVE  UpCells(up', n) /\ Returning(n)'
  BY <1>3, ReturnServeConn
<1>4. CASE ServeExit
  <2>1. UpCells(up', n)
    <3>1. \/ up' = up
          \/ \E cmd \in {"BEGIN_ACK", "END", "DESTROY"}, sid \in {0, 1} : up' = PutUp(up, N, Control(cmd, sid))
      BY <1>4 DEF ServeExit, StartDial, Dialled, DialRefused, HiddenDialled, HiddenRefused,
                  BeginHidden, DeliverData
    <3> QED
      BY <1>0, <3>1, ExitUpCells
  <2>2. \E k : k.pc \notin {"seal", "send"} /\ (job' = job \/ job' = [job EXCEPT ![N]["up"] = k])
    <3>1. Idle.pc \notin {"seal", "send"}
      BY DEF Idle
    <3>2. CASE StartDial
      <4> DEFINE k == [pc |-> "dial", cell |-> Head(dn[N]), nonce |-> 0]
      <4>1. k.pc \notin {"seal", "send"}
        OBVIOUS
      <4>2. job' = job \/ job' = [job EXCEPT ![N]["up"] = k]
        BY <3>2 DEF StartDial
      <4> HIDE DEF k
      <4> QED
        BY <4>1, <4>2
    <3>3. CASE ~StartDial
      <4>1. job' = job \/ job' = [job EXCEPT ![N]["up"] = Idle]
        BY <1>4, <3>3 DEF ServeExit, Dialled, DialRefused, HiddenDialled, HiddenRefused,
                          DialReturns, BeginHidden, DeliverData
      <4> QED
        BY <3>1, <4>1
    <3> QED
      BY <3>2, <3>3
  <2>3. PICK k : k.pc \notin {"seal", "send"} /\ (job' = job \/ job' = [job EXCEPT ![N]["up"] = k])
    BY <2>2
  <2>4. Returning(n)'
    BY <1>0, <2>3 DEF Returning, SentJob, Jobs, Sides
  <2> QED
    BY <2>1, <2>4
<1>5. ASSUME NEW i \in Hops, Expire(i) \/ ResetDn(i) \/ ResetUp(i)
      PROVE  UpCells(up', n) /\ Returning(n)'
  <2>1. \A h \in Hops : up'[h] \in {up[h], <<>>}
    BY <1>0, <1>5 DEF Expire, Close, ResetDn, ResetUp, Wires
  <2>2. UpCells(up', n)
    BY <2>1, ClearUpCells
  <2>3. job' = job
    BY <1>5 DEF Expire, ResetDn, ResetUp
  <2> QED
    BY <1>w, <2>2, <2>3
<1> QED
  BY <1>1, <1>2, <1>3, <1>4, <1>5 DEF Next, RecvLoop

\* forwardUpstream moves the exit's counter on, and numbers what it sends.
LEMMA ReturnUpstream ==
  ASSUME TypeOK, TypeOK', NEW n \in Nat, n = st[N].updata, UpCells(up, n), Returning(n), Numbered,
         FwdRead \/ ForwardUpstream
  PROVE  UpCells(up', st'[N].updata) /\ Returning(st[N].updata)' /\ Numbered'
<1> USE DEF wires, relays, exit, client, hist
<1>0. N \in Hops /\ up \in Wires /\ st \in Relays /\ job \in Jobs
  BY DEF Hops, TypeOK
<1>m. ASSUME NEW m \in Nat, n <= m
      PROVE  UpCells(up, m) /\ Returning(m)
  <2>1. ASSUME NEW i \in Hops, NEW k \in 1 .. Len(up[i])
        PROVE  UpCell(i, up[i][k], m)
    <3>1. up[i][k] \in Cell /\ UpCell(i, up[i][k], n)
      BY <1>0 DEF UpCells, Wires
    <3> QED
      BY <1>m, <3>1, UpCellMono
  <2>2. ASSUME NEW i \in Hops
        PROVE  DownJob(i, job[i]["down"], m)
    <3>1. job[i]["down"].cell \in Cell /\ DownJob(i, job[i]["down"], n)
      BY <1>0 DEF Jobs, Job, Sides, Returning
    <3>2. ASSUME i < N
          PROVE  i + 1 \in Hops
      BY <3>2 DEF Hops
    <3> QED
      BY <1>m, <3>1, <3>2, UpCellMono DEF DownJob
  <2>3. ASSUME NEW i \in Hops, NEW s \in Sides
        PROVE  SentJob(i, job[i][s], m)
    <3>1. job[i][s].cell \in Cell /\ SentJob(i, job[i][s], n)
      BY <1>0 DEF Jobs, Job, Returning
    <3> QED
      BY <1>m, <3>1, UpCellMono DEF SentJob
  <2> QED
    BY <2>1, <2>2, <2>3 DEF UpCells, Returning
<1>1. CASE FwdRead
  <2>1. UNCHANGED <<up, job, st>> /\ Numbered'
    BY <1>1 DEF FwdRead, Numbered, TypeOK, Upstream
  <2> QED
    BY <2>1 DEF Returning
<1>2. CASE FwdEnd
  <2>1. UpCells(up', n)
    BY <1>0, <1>2, ExitUpCells DEF FwdEnd
  <2>2. UNCHANGED <<job, st>> /\ Numbered'
    BY <1>2 DEF FwdEnd, Numbered, TypeOK, Upstream
  <2> QED
    BY <2>1, <2>2 DEF Returning
<1>3. CASE FwdSeal
  <2> DEFINE c == Sealed("DATA", <<>>, Svc(fwd.no), fwd.room)
  <2>1. fwd.pc = "seal" /\ fwd.nonce = n /\ fwd.no = n + 1 /\ replied = n + 1 /\ fwd.room \in Nat
    BY <1>3 DEF FwdSeal, Numbered, TypeOK, Upstream
  <2>2. c \in Cell /\ c.cmd = "DATA" /\ Len(c.layers) = 0 /\ c.body = Svc(fwd.no)
    <3>1. <<>> \in Seq(Layer) /\ "DATA" \in Cmd /\ Len(<<>>) = 0
      BY DEF Cmd
    <3>2. Svc(fwd.no) \in Chunk
      BY <2>1 DEF Svc, Chunk
    <3> QED
      BY <2>1, <3>1, <3>2, SealedType DEF Sealed
  <2> HIDE DEF c
  <2>3. UpCell(N, Seal(c, N, n), fwd.no) /\ Seal(c, N, n) \in Cell
    BY <1>0, <2>1, <2>2, SentFirst, SealType
  <2>4. st' = [st EXCEPT ![N].updata = n + 1]
    <3>1. Bumped(fwd.nonce, st[N].updata) = {n + 1}
      BY <2>1 DEF Bumped
    <3> QED
      BY <1>3, <3>1 DEF FwdSeal
  <2>5. st'[N].updata = n + 1
    BY <1>0, <2>4 DEF Relays, ConnState
  <2>6. UpCells(up, fwd.no) /\ Returning(fwd.no)
    BY <2>1, <1>m
  <2>7. UpCells(up', fwd.no)
    <3>1. UpCells(PutUp(up, N, Seal(c, N, n)), fwd.no)
      BY <1>0, <2>3, <2>6, PutUpCells
    <3> QED
      BY <1>3, <2>1, <2>6, <3>1 DEF FwdSeal, c
  <2>8. Returning(st[N].updata)'
    BY <1>3, <2>1, <2>5, <2>6 DEF FwdSeal, Returning
  <2>9. Numbered'
    BY <1>3, <2>1, <2>5 DEF FwdSeal, Numbered, TypeOK, Upstream
  <2> QED
    BY <2>1, <2>5, <2>7, <2>8, <2>9
<1> QED
  BY <1>1, <1>2, <1>3 DEF ForwardUpstream

\* The last of CONNECT and BEGIN is served: then none is on its way.
LEMMA BeginLast ==
  ASSUME DownInv, NEW q, q = Pipes(dn, job)[N], q # <<>>, Head(q).cmd = "BEGIN",
         NEW Q, Q[N] = Tail(q), \A h \in Hops \ {N} : Q[h] = Pipes(dn, job)[h]
  PROVE  phase \notin Early /\ NoSetup(Q)
<1> DEFINE P == Pipes(dn, job)
<1>0. N \in Hops /\ q \in Seq(Cell) /\ InOrder(P) /\ (phase \in Early => Lacks(P, "BEGIN"))
  <2>1. dn \in Wires /\ job \in Jobs /\ N \in Hops
    BY DEF DownInv, TypeOK, Hops
  <2>2. P \in Wires
    BY <2>1, PipesType
  <2> QED
    BY <2>1, <2>2 DEF DownInv, Wires
<1>1. /\ Head(q) = q[1] /\ 1 \in 1 .. Len(q) /\ Len(Tail(q)) = Len(q) - 1 /\ Len(q) \in Nat
      /\ \A k \in 1 .. Len(Tail(q)) : k + 1 \in 1 .. Len(q) /\ 1 < k + 1 /\ Tail(q)[k] = q[k + 1]
  BY <1>0
<1>2. q = P[N]
  OBVIOUS
<1> HIDE DEF P
<1>3. phase \notin Early
  BY <1>0, <1>1, <1>2 DEF Lacks
<1>4. ASSUME NEW h \in Hops, NEW k \in 1 .. Len(Q[h])
      PROVE  Q[h][k].cmd \notin Setup
  <2>1. CASE h = N
    <3>1. k + 1 \in 1 .. Len(q) /\ 1 < k + 1 /\ Q[h][k] = q[k + 1]
      BY <1>1, <2>1
    <3>2. Ahead(q[1], q[k + 1])
      BY <1>0, <1>1, <1>2, <3>1 DEF InOrder
    <3> QED
      BY <1>1, <3>1, <3>2 DEF Ahead
  <2>2. CASE h # N
    <3>1. N > h /\ k \in 1 .. Len(P[h]) /\ Q[h][k] = P[h][k]
      BY <2>2 DEF Hops, P
    <3>2. Ahead(q[1], P[h][k])
      BY <1>0, <1>1, <1>2, <3>1 DEF InOrder
    <3> QED
      BY <1>1, <3>1, <3>2 DEF Ahead
  <2> QED
    BY <2>1, <2>2
<1> QED
  BY <1>3, <1>4 DEF NoSetup

\* So forwardUpstream starts with no CONNECT or BEGIN left.
LEMMA StartsLast ==
  ASSUME DownInv, Dialled \/ BeginHidden
  PROVE  phase' = phase /\ phase \notin Early /\ NoSetup(Pipes(dn', job'))
<1> USE DEF wires, relays, exit, client, hist
<1> DEFINE P == Pipes(dn, job)
<1>0. /\ N \in Hops /\ "up" \in Sides /\ dn \in Wires /\ job \in Jobs
  BY DEF DownInv, TypeOK, Hops, Sides
<1>1. CASE Dialled
  <2>1. /\ InHand(job[N]["up"]) /\ job[N]["up"].cell.cmd = "BEGIN"
        /\ dn' = dn /\ job' = [job EXCEPT ![N]["up"] = Idle] /\ phase' = phase
    BY <1>1 DEF Dialled, Dialling, DialReturns, InHand
  <2>2. P[N] # <<>> /\ Head(P[N]) = job[N]["up"].cell /\ Tail(P[N]) = dn[N]
    BY <1>0, <2>1, PipeRest
  <2>3. ~InHand(job'[N]["up"]) /\ \A h \in Hops \ {N} : job'[h]["up"] = job[h]["up"]
    BY <1>0, <2>1 DEF Jobs, InHand, Idle
  <2>4. Pipes(dn', job')[N] = Tail(P[N])
    <3>1. Pipes(dn', job')[N] = dn'[N]
      BY <1>0, <2>3, PipeFree
    <3> QED
      BY <2>1, <2>2, <3>1
  <2>5. ASSUME NEW h \in Hops \ {N}
        PROVE  Pipes(dn', job')[h] = P[h]
    BY <2>1, <2>3 DEF Pipes
  <2> QED
    BY <2>1, <2>2, <2>4, <2>5, BeginLast
<1>2. CASE BeginHidden
  <2>1. /\ ~InHand(job[N]["up"]) /\ dn[N] # <<>> /\ Head(dn[N]).cmd = "BEGIN"
        /\ dn' = [dn EXCEPT ![N] = Tail(@)] /\ job' = job /\ phase' = phase
    BY <1>2 DEF BeginHidden, Reads, Serves, Inbox, InHand, DnRead
  <2>2. P[N] = dn[N]
    BY <1>0, <2>1, PipeFree
  <2>3. Pipes(dn', job')[N] = Tail(P[N]) /\ \A h \in Hops \ {N} : Pipes(dn', job')[h] = P[h]
    BY <1>0, <2>1, <2>2 DEF Pipes, Wires
  <2> QED
    BY <2>1, <2>2, <2>3, BeginLast
<1> QED
  BY <1>1, <1>2

\* What the exit dials for, or answers at once, is a CONNECT or BEGIN on its way down.
LEMMA SetupHeld ==
  ASSUME DownInv, Dialled \/ HiddenDialled \/ BeginHidden
  PROVE  ~NoSetup(Pipes(dn, job))
<1> DEFINE P == Pipes(dn, job)
<1>0. N \in Hops /\ "up" \in Sides /\ dn \in Wires /\ job \in Jobs /\ P \in Wires
  BY PipesType DEF DownInv, TypeOK, Hops, Sides
<1>1. P[N] # <<>> /\ Head(P[N]).cmd \in Setup
  <2>1. CASE Dialled \/ HiddenDialled
    <3>1. InHand(job[N]["up"]) /\ job[N]["up"].cell.cmd \in Setup
      BY <2>1 DEF Dialled, HiddenDialled, Dialling, InHand, Setup
    <3> QED
      BY <1>0, <3>1, PipeRest
  <2>2. CASE BeginHidden
    <3>1. ~InHand(job[N]["up"]) /\ dn[N] # <<>> /\ Head(dn[N]).cmd = "BEGIN"
      BY <2>2 DEF BeginHidden, Reads, Serves, Inbox, InHand
    <3> QED
      BY <1>0, <3>1, PipeFree DEF Setup
  <2> QED
    BY <2>1, <2>2
<1>2. PICK q \in Seq(Cell) : q = P[N]
  BY <1>0 DEF Wires
<1>3. 1 \in 1 .. Len(q) /\ q[1] = Head(q)
  BY <1>1, <1>2
<1> HIDE DEF P
<1>4. ~NoSetup(P)
  BY <1>0, <1>1, <1>2, <1>3 DEF NoSetup
<1> QED
  BY <1>4 DEF P

\* Only forwardUpstream moves the exit's upstream counter, only it reads the target, and
\* the end of the setup starts it.
LEMMA UpstreamAlone ==
  ASSUME DownInv, NEW n \in Nat, n = st[N].updata, Returning(n), Numbered, Forwarding, Next,
         ~FwdRead, ~ForwardUpstream, ~FailData(N, "up")
  PROVE  /\ st'[N].updata = n /\ replied' = replied
         /\ \/ fwd' = fwd
            \/ fwd.pc = "off" /\ fwd' = [fwd EXCEPT !.pc = "read"] /\ (Dialled \/ BeginHidden)
<1> USE DEF wires, relays, exit, client, hist
<1> DEFINE Kept == st'[N].updata = n /\ replied' = replied /\ fwd' = fwd
<1>0. /\ N \in Hops /\ TypeOK /\ st \in Relays /\ Back
      /\ job[N]["up"].pc # "seal" /\ DownJob(N, job[N]["down"], n)
  BY DEF DownInv, TypeOK, Hops, Returning
<1>1. CASE Handler \/ RecvLoop \/ SendData \/ AppCloses
  BY <1>1 DEF Handler, RecvLoop, SendConnect, OpenStream, SendBegin, SendData, AppCloses,
              SockClosed, SendEnd, SendEndAll, RecvCell, RecvEOF
<1>2. ASSUME NEW i \in Hops, NEW s \in Sides, ServeConn(i, s)
      PROVE  Kept
  <2>1. CASE ServeStop(i, s) \/ BeginAck(i, s) \/ TakeData(i, s)
    BY <2>1 DEF ServeStop, BeginAck, TakeData
  <2>2. CASE ForwardSetup(i, s)
    BY <1>0, <2>2 DEF ForwardSetup, Relays, ConnState
  <2>3. CASE EndStream(i, s)
    BY <1>0, <2>3 DEF EndStream, Relays, ConnState
  <2>7. CASE EndCircuit(i, s)
    BY <1>0, <2>7 DEF EndCircuit, Relays, ConnState
  <2>4. CASE ForwardData(i, s)
    BY <1>0, <2>4 DEF ForwardData, Relays, ConnState
  <2>5. CASE FailData(i, s)
    BY <1>0, <2>5 DEF FailData, Relays, ConnState
  <2>6. CASE SealData(i, s)
    <3>1. i # N
      BY <1>0, <2>6 DEF SealData, DownJob, Sides
    <3> QED
      BY <1>0, <2>6, <3>1 DEF SealData, Relays
  <2>8. CASE SendSealed(i, s)
    BY <2>8 DEF SendSealed
  <2> QED
    BY <1>2, <2>1, <2>2, <2>3, <2>4, <2>5, <2>6, <2>7, <2>8 DEF ServeConn
<1>o. Dialled \/ HiddenDialled \/ BeginHidden => fwd.pc = "off" /\ n = 0
  BY SetupHeld DEF Forwarding, Numbered
<1>3. CASE ServeExit
  <2>1. CASE StartDial
    BY <1>0, <2>1 DEF StartDial, Relays, ConnState
  <2>2. CASE Dialled
    BY <1>o, <2>2 DEF Dialled, FwdStarts
  <2>3. CASE DialRefused \/ HiddenRefused
    BY <2>3 DEF DialRefused, HiddenRefused
  <2>4. CASE HiddenDialled
    BY <1>0, <1>o, <2>4 DEF HiddenDialled, Relays, ConnState
  <2>5. CASE BeginHidden
    BY <1>0, <1>o, <2>5 DEF BeginHidden, FwdStarts, Relays, ConnState
  <2>6. CASE DeliverData
    BY <1>0, <2>6 DEF DeliverData, Relays, ConnState
  <2> QED
    BY <1>3, <2>1, <2>2, <2>3, <2>4, <2>5, <2>6 DEF ServeExit
<1>4. CASE TargetCloses \/ HiddenServeStop
  BY <1>4 DEF TargetCloses, HiddenServeStop
<1>5. ~HiddenServeRead
  BY DEF HiddenServeRead, Forwarding
<1>6. CASE \E i \in Hops : Expire(i) \/ ResetDn(i) \/ ResetUp(i)
  BY <1>6 DEF Expire, ResetDn, ResetUp
<1> QED
  BY <1>1, <1>2, <1>3, <1>4, <1>5, <1>6 DEF Next
-----------------------------------------------------------------------------
(***************************************************************************)
(* Commands that no cell on a way has.                                     *)
(***************************************************************************)
LEMMA LacksTail ==
  ASSUME NEW W \in Wires, NEW cmd, Lacks(W, cmd), NEW i \in Hops, W[i] # <<>>
  PROVE  Lacks([W EXCEPT ![i] = Tail(@)], cmd) /\ Head(W[i]).cmd # cmd
<1>1. PICK q \in Seq(Cell) : q = W[i] /\ q # <<>>
  BY DEF Wires
<1>2. /\ Head(q) = q[1] /\ 1 \in 1 .. Len(q)
      /\ \A k \in 1 .. Len(Tail(q)) : k + 1 \in 1 .. Len(q) /\ Tail(q)[k] = q[k + 1]
  BY <1>1
<1>3. PICK V : V = [W EXCEPT ![i] = Tail(@)]
  OBVIOUS
<1>4. V[i] = Tail(q) /\ \A h \in Hops \ {i} : V[h] = W[h]
  BY <1>1, <1>3 DEF Wires
<1>5. \A k \in 1 .. Len(q) : q[k].cmd # cmd
  BY <1>1 DEF Lacks
<1>6. \A k \in 1 .. Len(V[i]) : V[i][k].cmd # cmd
  BY <1>2, <1>4, <1>5
<1>7. Lacks(V, cmd)
  BY <1>4, <1>6 DEF Lacks
<1> QED
  BY <1>1, <1>2, <1>3, <1>5, <1>7

LEMMA LacksAppend ==
  ASSUME NEW W \in Wires, NEW cmd, Lacks(W, cmd), NEW i \in Hops, NEW c \in Cell, c.cmd # cmd
  PROVE  Lacks([W EXCEPT ![i] = Append(@, c)], cmd)
<1>1. PICK V : V = [W EXCEPT ![i] = Append(@, c)]
  OBVIOUS
<1>2. W[i] \in Seq(Cell) /\ V[i] = Append(W[i], c) /\ \A h \in Hops \ {i} : V[h] = W[h]
  BY <1>1 DEF Wires
<1>3. \A k \in 1 .. Len(V[i]) : V[i][k] = c \/ (k \in 1 .. Len(W[i]) /\ V[i][k] = W[i][k])
  BY <1>2
<1>4. Lacks(V, cmd)
  BY <1>2, <1>3 DEF Lacks
<1> QED
  BY <1>1, <1>4

LEMMA LacksPutDown ==
  ASSUME NEW W \in Wires, NEW cmd, Lacks(W, cmd), NEW i \in 0 .. N - 1, NEW c \in Cell, c.cmd # cmd
  PROVE  Lacks(PutDown(W, i, c), cmd)
<1>1. i + 1 \in Hops
  BY DEF Hops
<1> QED
  BY <1>1, LacksAppend DEF PutDown

LEMMA LacksPutUp ==
  ASSUME NEW W \in Wires, NEW cmd, Lacks(W, cmd), NEW i \in Hops, NEW c \in Cell, c.cmd # cmd
  PROVE  Lacks(PutUp(W, i, c), cmd)
BY LacksAppend DEF PutUp

LEMMA LacksLoss ==
  ASSUME NEW W, NEW V, NEW cmd, Lacks(W, cmd), \A h \in Hops : V[h] \in {W[h], <<>>}
  PROVE  Lacks(V, cmd)
<1>1. Len(<<>>) = 0
  OBVIOUS
<1> QED
  BY <1>1 DEF Lacks

\* A ServeConn goroutine reads none that is not there.
LEMMA LacksRead ==
  ASSUME TypeOK, NEW cmd, NEW i \in Hops, NEW s \in Sides, NEW cmds, Reads(i, s, cmds)
  PROVE  /\ Lacks(dn, cmd) => Lacks(DnRead(i, s), cmd)
         /\ Lacks(up, cmd) => Lacks(UpRead(i, s), cmd)
         /\ (s = "up" => Lacks(dn, cmd)) /\ (s = "down" => Lacks(up, cmd)) => Head(Inbox(i, s)).cmd # cmd
<1>0. dn \in Wires /\ up \in Wires
  BY DEF TypeOK
<1>1. CASE s = "up"
  <2>1. dn[i] # <<>> /\ Inbox(i, s) = dn[i] /\ UpRead(i, s) = up /\ DnRead(i, s) = [dn EXCEPT ![i] = Tail(@)]
    BY <1>1 DEF Reads, Inbox, UpRead, DnRead
  <2>2. ASSUME Lacks(dn, cmd)
        PROVE  Lacks([dn EXCEPT ![i] = Tail(@)], cmd) /\ Head(dn[i]).cmd # cmd
    BY <1>0, <2>1, <2>2, LacksTail
  <2> QED
    BY <1>1, <2>1, <2>2
<1>2. CASE s = "down"
  <2>1. /\ i + 1 \in Hops /\ up[i + 1] # <<>> /\ Inbox(i, s) = up[i + 1] /\ DnRead(i, s) = dn
        /\ UpRead(i, s) = [up EXCEPT ![i + 1] = Tail(@)]
    BY <1>2 DEF Reads, Serves, Inbox, UpRead, DnRead, Hops
  <2>2. ASSUME Lacks(up, cmd)
        PROVE  Lacks([up EXCEPT ![i + 1] = Tail(@)], cmd) /\ Head(up[i + 1]).cmd # cmd
    BY <1>0, <2>1, <2>2, LacksTail
  <2> QED
    BY <1>2, <2>1, <2>2
<1> QED
  BY <1>1, <1>2 DEF Sides

\* No DATA goes up without the goroutines that seal it, no END without forwardUpstream.
LEMMA LacksUp ==
  ASSUME TypeOK, Back, NEW cmd \in {"END", "DATA"}, Lacks(up, cmd), Next,
         cmd = "END" => ~FwdEnd,
         cmd = "DATA" => ~FwdSeal /\ \A i \in Hops, s \in Sides : job[i][s].pc # "send"
  PROVE  Lacks(up', cmd)
<1> USE DEF wires, relays, exit, client, hist
<1>0. up \in Wires /\ N \in Hops /\ job \in Jobs
  BY DEF TypeOK, Hops
<1>1. CASE Handler \/ SendData \/ AppCloses \/ RecvEOF \/ FwdRead \/ HiddenServeRead \/ HiddenServeStop
           \/ TargetCloses
  BY <1>1 DEF Handler, SendConnect, OpenStream, SendBegin, SendData, AppCloses, SockClosed,
              SendEnd, SendEndAll, RecvEOF, FwdRead, HiddenServeRead, HiddenServeStop, TargetCloses
<1>2. CASE RecvCell
  <2>1. 1 \in Hops /\ up[1] # <<>> /\ up' = [up EXCEPT ![1] = Tail(@)]
    BY <1>2 DEF RecvCell, Hops
  <2> QED
    BY <1>0, <2>1, LacksTail
<1>3. ASSUME NEW i \in Hops, NEW s \in Sides, ServeConn(i, s)
      PROVE  Lacks(up', cmd)
  <2> DEFINE c == Head(Inbox(i, s))
             j == job[i][s]
             V == UpRead(i, s)
  <2>r. ASSUME NEW cmds, Reads(i, s, cmds)
        PROVE  c \in Cell /\ c.cmd \in cmds /\ V \in Wires /\ Lacks(V, cmd)
    BY <2>r, ReadsType, LacksRead DEF Reads
  <2> HIDE DEF c, V
  <2>1. CASE ServeStop(i, s)
    <3>1. \A h \in Hops : up'[h] \in {up[h], <<>>}
      BY <1>0, <2>1 DEF ServeStop, Wires, Serves, Hops
    <3> QED
      BY <3>1, LacksLoss
  <2>2. CASE ForwardSetup(i, s) \/ EndStream(i, s) \/ TakeData(i, s)
    BY <2>2, <2>r DEF ForwardSetup, EndStream, TakeData, V
  <2>3. CASE BeginAck(i, s)
    <3>1. c \in Cell /\ c.cmd = "BEGIN_ACK" /\ V \in Wires /\ Lacks(V, cmd)
      BY <2>3, <2>r DEF BeginAck
    <3>2. Lacks(PutUp(V, i, c), cmd)
      BY <3>1, LacksPutUp
    <3> QED
      BY <2>3, <3>2 DEF BeginAck, c, V
  <2>4. CASE EndCircuit(i, s)
    <3>1. Lacks(V, cmd)
      BY <2>4, <2>r DEF EndCircuit
    <3>2. \A h \in Hops : up'[h] \in {V[h], <<>>}
      BY <2>4 DEF EndCircuit, Close, V
    <3> QED
      BY <3>1, <3>2, LacksLoss
  <2>5. CASE ForwardData(i, s) \/ FailData(i, s) \/ SealData(i, s)
    BY <2>5 DEF ForwardData, FailData, SealData
  <2>6. CASE SendSealed(i, s)
    <3>1. /\ j.pc = "send" /\ j \in Job /\ BackJob(i, s, j)
          /\ up' = up \/ up' = PutUp(up, i, j.cell)
      BY <1>0, <2>6 DEF SendSealed, Back, Jobs
    <3>2. cmd = "END" /\ j.cell.cmd = "DATA" /\ j.cell \in Cell
      BY <3>1 DEF BackJob, Job
    <3>3. Lacks(PutUp(up, i, j.cell), cmd)
      BY <1>0, <3>2, LacksPutUp
    <3> QED
      BY <3>1, <3>3
  <2> QED
    BY <1>3, <2>1, <2>2, <2>3, <2>4, <2>5, <2>6 DEF ServeConn
<1>4. CASE ServeExit
  <2>1. \/ up' = up
        \/ \E ack \in {"BEGIN_ACK", "DESTROY"}, sid \in {0, 1} : up' = PutUp(up, N, Control(ack, sid))
    BY <1>4 DEF ServeExit, StartDial, Dialled, DialRefused, HiddenDialled, HiddenRefused,
                BeginHidden, DeliverData
  <2>2. ASSUME NEW ack \in {"BEGIN_ACK", "DESTROY"}, NEW sid \in {0, 1}
        PROVE  Lacks(PutUp(up, N, Control(ack, sid)), cmd)
    <3>1. Control(ack, sid) \in Cell /\ Control(ack, sid).cmd # cmd
      BY ControlType DEF Control, Cmd
    <3> QED
      BY <1>0, <3>1, LacksPutUp
  <2> QED
    BY <2>1, <2>2
<1>5. CASE ForwardUpstream
  <2>1. CASE FwdEnd
    <3>1. Control("END", 1) \in Cell /\ Control("END", 1).cmd # cmd
      BY <2>1, ControlType DEF Control, Cmd
    <3> QED
      BY <1>0, <2>1, <3>1, LacksPutUp DEF FwdEnd
  <2>2. CASE FwdSeal
    <3> DEFINE c == Sealed("DATA", <<>>, Svc(fwd.no), fwd.room)
    <3>1. c \in Cell /\ c.cmd = "DATA" /\ cmd = "END" /\ fwd.nonce \in Nat
      <4>1. <<>> \in Seq(Layer) /\ "DATA" \in Cmd /\ fwd \in Upstream
        BY DEF Cmd, TypeOK
      <4>2. Svc(fwd.no) \in Chunk /\ fwd.room \in Nat /\ fwd.nonce \in Nat
        BY <4>1 DEF Svc, Chunk, Upstream
      <4> QED
        BY <2>2, <4>1, <4>2, SealedType DEF Sealed
    <3> HIDE DEF c
    <3>2. Seal(c, N, fwd.nonce) \in Cell /\ Seal(c, N, fwd.nonce).cmd # cmd
      BY <1>0, <3>1, SealType DEF Seal, Cell
    <3>3. Lacks(PutUp(up, N, Seal(c, N, fwd.nonce)), cmd)
      BY <1>0, <3>2, LacksPutUp
    <3> QED
      BY <2>2, <3>3 DEF FwdSeal, c
  <2> QED
    BY <1>5, <2>1, <2>2 DEF ForwardUpstream
<1>6. ASSUME NEW i \in Hops, Expire(i) \/ ResetDn(i) \/ ResetUp(i)
      PROVE  Lacks(up', cmd)
  <2>1. \A h \in Hops : up'[h] \in {up[h], <<>>}
    BY <1>0, <1>6 DEF Expire, Close, ResetDn, ResetUp, Wires
  <2> QED
    BY <2>1, LacksLoss
<1> QED
  BY <1>1, <1>2, <1>3, <1>4, <1>5, <1>6 DEF Next, RecvLoop

\* No END goes down before the client sends one or one comes back up; and the exit starts
\* no goroutine on a hidden service's connection.
LEMMA LacksDown ==
  ASSUME TypeOK, Back, Lacks(dn, "END"), Lacks(up, "END"), serve[N]["down"] = "off", Next,
         phase' \notin {"endall", "returned"}
  PROVE  Lacks(dn', "END") /\ serve'[N]["down"] = "off"
<1> USE DEF wires, relays, exit, client, hist
<1>0. dn \in Wires /\ N \in Hops /\ 0 \in 0 .. N - 1 /\ job \in Jobs /\ serve \in Servers
  BY DEF TypeOK, Hops
<1>1. CASE OpenStream \/ AppCloses \/ SockClosed \/ RecvLoop \/ FwdRead \/ ForwardUpstream \/ HiddenServeRead
           \/ TargetCloses
  BY <1>1 DEF OpenStream, AppCloses, SockClosed, RecvLoop, RecvCell, RecvEOF, FwdRead, ForwardUpstream,
              FwdSeal, FwdEnd, HiddenServeRead, TargetCloses
<1>2. ~SendEnd /\ ~SendEndAll /\ ~HiddenServeStop
  BY DEF SendEnd, SendEndAll, HiddenServeStop, Return
<1>3. CASE SendConnect \/ SendBegin \/ SendData
  <2>1. \/ dn' = dn
        \/ \E cmd \in {"CONNECT", "BEGIN", "DATA"}, body \in Chunk, n \in Nat, room \in Nat :
             dn' = PutDown(dn, 0, Sealed(cmd, Onion(1, n), body, room))
    <3>1. /\ Cipher \in Chunk /\ App(sent + 1) \in Chunk /\ ctr.begin \in Nat /\ ctr.data \in Nat
          /\ N \in Nat /\ Rooms \subseteq Nat
      BY CircuitAssumption DEF TypeOK, Counters, App, Cipher, Chunk
    <3>2. CASE SendConnect \/ SendBegin
      BY <3>1, <3>2 DEF SendConnect, SendBegin, ClientWrites
    <3>3. CASE SendData
      BY <3>1, <3>3 DEF SendData, ClientWrites
    <3> QED
      BY <1>3, <3>2, <3>3
  <2>2. ASSUME NEW cmd \in {"CONNECT", "BEGIN", "DATA"}, NEW body \in Chunk, NEW n \in Nat, NEW room \in Nat
        PROVE  Lacks(PutDown(dn, 0, Sealed(cmd, Onion(1, n), body, room)), "END")
    <3> DEFINE c == Sealed(cmd, Onion(1, n), body, room)
    <3>1. c \in Cell /\ c.cmd = cmd
      BY OwnOnionType DEF Sealed, Cmd
    <3> HIDE DEF c
    <3> QED
      BY <1>0, <3>1, LacksPutDown DEF c
  <2>3. serve' = serve
    BY <1>3 DEF SendConnect, SendBegin, SendData
  <2> QED
    BY <2>1, <2>2, <2>3
<1>4. ASSUME NEW i \in Hops, NEW s \in Sides, ServeConn(i, s)
      PROVE  Lacks(dn', "END") /\ serve'[N]["down"] = "off"
  <2> DEFINE c == Head(Inbox(i, s))
             j == job[i][s]
             D == DnRead(i, s)
  <2>r. ASSUME NEW cmds, Reads(i, s, cmds)
        PROVE  c \in Cell /\ c.cmd \in cmds /\ D \in Wires /\ Lacks(D, "END") /\ c.cmd # "END"
    BY <2>r, ReadsType, LacksRead DEF Reads
  <2>s. ASSUME NEW must, i = N => ~must
        PROVE  Serving(i, must)[N]["down"] = "off"
    BY <1>0, <2>s DEF Serving, Servers
  <2>i. i < N => i \in 0 .. N - 1
    BY DEF Hops
  <2> HIDE DEF c, D
  <2>1. CASE ServeStop(i, s)
    <3>1. \A h \in Hops : dn'[h] \in {dn[h], <<>>}
      BY <1>0, <2>1 DEF ServeStop, Wires
    <3>2. serve'[N]["down"] = "off"
      BY <1>0, <2>1 DEF ServeStop, Serves, Servers, Sides
    <3> QED
      BY <3>1, <3>2, LacksLoss
  <2>2. CASE BeginAck(i, s) \/ TakeData(i, s)
    BY <2>2, <2>r DEF BeginAck, TakeData, D
  <2>3. CASE ForwardSetup(i, s)
    <3>1. c \in Cell /\ c.cmd \in Setup /\ D \in Wires /\ Lacks(D, "END") /\ i < N
      BY <2>3, <2>r DEF ForwardSetup, Setup
    <3>2. dn' = D \/ (c.layers # <<>> /\ dn' = PutDown(D, i, Peel(c)))
      BY <2>3 DEF ForwardSetup, Opens, c, D
    <3>3. ASSUME c.layers # <<>>
          PROVE  Lacks(PutDown(D, i, Peel(c)), "END")
      <4>1. Peel(c) \in Cell /\ Peel(c).cmd = c.cmd
        BY <3>1, <3>3, PeelType DEF Peel, Cell
      <4> QED
        BY <2>i, <3>1, <4>1, LacksPutDown DEF Setup
    <3>4. serve'[N]["down"] = "off"
      BY <2>3, <2>s DEF ForwardSetup
    <3> QED
      BY <3>1, <3>2, <3>3, <3>4
  <2>4. ~EndStream(i, s)
    BY <2>r DEF EndStream
  <2>5. CASE EndCircuit(i, s)
    <3>1. c \in Cell /\ D \in Wires /\ Lacks(D, "END") /\ c.cmd # "END"
      BY <2>5, <2>r DEF EndCircuit
    <3>2. Lacks(ToDown(i, D, c), "END")
      BY <2>i, <3>1, LacksPutDown DEF ToDown
    <3>3. \A h \in Hops : dn'[h] \in {ToDown(i, D, c)[h], <<>>}
      <4>1. ToDown(i, D, c) \in [Hops -> Seq(Cell)]
        BY <2>i, <3>1, PutDownType DEF ToDown, Wires
      <4> QED
        BY <2>5, <4>1 DEF EndCircuit, Close, c, D
    <3>4. serve'[N]["down"] = "off"
      BY <2>5, <2>s, <3>1 DEF EndCircuit, c
    <3> QED
      BY <3>2, <3>3, <3>4, LacksLoss
  <2>6. CASE ForwardData(i, s)
    <3>1. i < N /\ j \in Job /\ BackJob(i, s, j) /\ j.pc = "open" /\ j.cell.layers # <<>>
      BY <1>0, <2>6 DEF ForwardData, OpensData, Opens, Back, Jobs
    <3>2. Peel(j.cell) \in Cell /\ Peel(j.cell).cmd = "DATA"
      BY <3>1, PeelType DEF Peel, Cell, BackJob, Job
    <3>3. Lacks(PutDown(dn, i, Peel(j.cell)), "END")
      BY <1>0, <2>i, <3>1, <3>2, LacksPutDown
    <3>4. serve' = Serving(i, TRUE) /\ dn' = PutDown(dn, i, Peel(j.cell)) /\ i # N
      BY <2>6, <3>1 DEF ForwardData
    <3>5. Serving(i, TRUE)[N]["down"] = "off"
      BY <2>s, <3>4
    <3> QED
      BY <3>3, <3>4, <3>5
  <2>7. CASE FailData(i, s) \/ SealData(i, s) \/ SendSealed(i, s)
    BY <2>7 DEF FailData, SealData, SendSealed
  <2> QED
    BY <1>4, <2>1, <2>2, <2>3, <2>4, <2>5, <2>6, <2>7 DEF ServeConn
<1>5. CASE ServeExit
  <2>1. dn' = dn \/ (dn' = DnRead(N, "up") /\ Reads(N, "up", Setup))
    BY <1>5 DEF ServeExit, StartDial, Dialled, DialRefused, HiddenDialled, HiddenRefused,
                BeginHidden, DeliverData, Reads, Setup
  <2>2. serve' = serve
    BY <1>5 DEF ServeExit, StartDial, Dialled, DialRefused, HiddenDialled, HiddenRefused,
                BeginHidden, DeliverData
  <2>3. "up" \in Sides
    BY DEF Sides
  <2> QED
    BY <1>0, <2>1, <2>2, <2>3, LacksRead
<1>6. ASSUME NEW i \in Hops, Expire(i) \/ ResetDn(i) \/ ResetUp(i)
      PROVE  Lacks(dn', "END") /\ serve'[N]["down"] = "off"
  <2>1. \A h \in Hops : dn'[h] \in {dn[h], <<>>}
    BY <1>0, <1>6 DEF Expire, Close, ResetDn, ResetUp, Wires
  <2>2. serve' = serve
    BY <1>6 DEF Expire, ResetDn, ResetUp
  <2> QED
    BY <2>1, <2>2, LacksLoss
<1> QED
  BY <1>1, <1>2, <1>3, <1>4, <1>5, <1>6 DEF Next, Handler
-----------------------------------------------------------------------------
(***************************************************************************)
(* The order on the way up.                                                *)
(***************************************************************************)
\* Only the exit's dialling connects it to a target.
LEMMA NoTargetNext ==
  ASSUME Next, ~Dialled, ~HiddenDialled, tgt # "open"
  PROVE  tgt' # "open"
<1> USE DEF wires, relays, exit, client, hist
<1>1. CASE Handler \/ SendData \/ AppCloses \/ RecvLoop
  BY <1>1 DEF Handler, SendConnect, OpenStream, SendBegin, SendData, AppCloses,
              SockClosed, SendEnd, SendEndAll, RecvLoop, RecvCell, RecvEOF
<1>2. ASSUME NEW i \in Hops, NEW s \in Sides, ServeConn(i, s)
      PROVE  tgt' # "open"
  <2>1. CASE EndStream(i, s) \/ EndCircuit(i, s)
    BY <2>1 DEF EndStream, EndCircuit, TgtClosed
  <2>2. CASE ~(EndStream(i, s) \/ EndCircuit(i, s))
    BY <1>2, <2>2 DEF ServeConn, ServeStop, ForwardSetup, BeginAck, TakeData, ForwardData,
                      FailData, SealData, SendSealed
  <2> QED
    BY <2>1, <2>2
<1>3. CASE ServeExit
  BY <1>3 DEF ServeExit, StartDial, DialRefused, HiddenRefused, BeginHidden, DeliverData, TgtClosed
<1>4. CASE FwdRead \/ ForwardUpstream \/ HiddenServeRead \/ HiddenServeStop \/ TargetCloses
  BY <1>4 DEF FwdRead, ForwardUpstream, FwdSeal, FwdEnd, HiddenServeRead, HiddenServeStop,
              TargetCloses, TgtClosed
<1>5. ASSUME NEW i \in Hops, Expire(i) \/ ResetDn(i) \/ ResetUp(i)
      PROVE  tgt' # "open"
  BY <1>5 DEF Expire, ResetDn, ResetUp, TgtClosed
<1> QED
  BY <1>1, <1>2, <1>3, <1>4, <1>5 DEF Next

\* forwardUpstream starts once, and until it ends no END is under way.
LEMMA ForwardingNext ==
  ASSUME DownInv, TypeOK', NEW n \in Nat, n = st[N].updata, Returning(n), Numbered, Forwarding, Next,
         ~FailData(N, "up"), phase' \notin {"endall", "returned"}
  PROVE  Forwarding'
<1> USE DEF exit
<1>0. TypeOK /\ Back /\ fwd \in Upstream
  BY DEF DownInv, TypeOK
<1>1. /\ fwd'.pc = "off" => fwd.pc = "off" /\ replied' = replied
      /\ fwd'.pc # "off" => fwd.pc # "off" \/ Dialled \/ BeginHidden
      /\ fwd'.pc # "done" => fwd.pc # "done" /\ ~FwdEnd
      /\ fwd'.pc = "done" => fwd.pc = "done" \/ FwdEnd
  <2>1. CASE FwdRead \/ ForwardUpstream
    <3>1. fwd.pc \in {"read", "seal"}
      BY <2>1 DEF FwdRead, ForwardUpstream, FwdSeal, FwdEnd
    <3>2. FwdEnd => fwd'.pc = "done"
      BY <1>0 DEF FwdEnd, Upstream
    <3>3. FwdRead \/ FwdSeal => fwd'.pc \in {"read", "seal"}
      BY <1>0 DEF FwdRead, FwdSeal, Upstream
    <3> QED
      BY <2>1, <3>1, <3>2, <3>3 DEF ForwardUpstream
  <2>2. CASE ~FwdRead /\ ~ForwardUpstream
    <3>1. /\ replied' = replied
          /\ \/ fwd' = fwd
             \/ fwd.pc = "off" /\ fwd' = [fwd EXCEPT !.pc = "read"] /\ (Dialled \/ BeginHidden)
      BY <2>2, UpstreamAlone
    <3> QED
      BY <1>0, <2>2, <3>1 DEF ForwardUpstream, Upstream
  <2> QED
    BY <2>1, <2>2
<1>2. fwd'.pc = "off" => replied' = 0
  BY <1>1 DEF Forwarding
<1>3. ASSUME fwd'.pc # "off"
      PROVE  phase' \notin Early /\ NoSetup(Pipes(dn', job'))
  <2>1. CASE fwd.pc # "off"
    BY <2>1, SetupGone DEF Forwarding
  <2>2. CASE Dialled \/ BeginHidden
    BY <2>2, StartsLast
  <2> QED
    BY <1>1, <1>3, <2>1, <2>2
<1>4. ASSUME fwd'.pc # "done"
      PROVE  Lacks(dn', "END") /\ Lacks(up', "END") /\ serve'[N]["down"] = "off"
  <2>1. Lacks(dn, "END") /\ Lacks(up, "END") /\ serve[N]["down"] = "off" /\ ~FwdEnd
    BY <1>1, <1>4 DEF Forwarding
  <2> QED
    BY <1>0, <2>1, LacksUp, LacksDown
<1>5. ASSUME fwd'.pc = "done"
      PROVE  tgt' # "open"
  <2>1. CASE FwdEnd
    BY <2>1 DEF FwdEnd, TgtClosed
  <2>2. CASE fwd.pc = "done"
    <3>1. tgt # "open" /\ ~Dialled /\ ~HiddenDialled
      BY <2>2, SetupHeld DEF Forwarding
    <3> QED
      BY <3>1, NoTargetNext
  <2> QED
    BY <1>1, <1>5, <2>1, <2>2
<1> QED
  BY <1>2, <1>3, <1>4, <1>5 DEF Forwarding

\* Until the client sends BEGIN no relay has anything to send up.
LEMMA SilentNext ==
  ASSUME DownInv, Forwarding, Silent, Next
  PROVE  Silent'
<1> USE DEF wires, relays, exit, client, hist
<1>0. /\ TypeOK /\ Back /\ Sending /\ up \in Wires /\ job \in Jobs /\ ctr \in Counters
      /\ (phase' \in Early => phase \in Early)
  BY SendingNext DEF DownInv, TypeOK
<1>1. phase' \in {"connect", "open"} => phase \in {"connect", "open"} /\ (reg' => reg)
  <2>1. CASE Handler \/ SendData \/ AppCloses
    BY <2>1 DEF Handler, SendConnect, OpenStream, SendBegin, SendData, AppCloses, SockClosed,
                SendEnd, SendEndAll, Return
  <2>2. CASE RecvLoop
    BY <2>2 DEF RecvLoop, RecvCell, RecvEOF, CloseAll
  <2>3. ASSUME NEW i \in Hops, NEW s \in Sides, ServeConn(i, s)
        PROVE  phase' = phase /\ reg' = reg
    BY <2>3 DEF ServeConn, ServeStop, ForwardSetup, BeginAck, EndStream, EndCircuit,
                TakeData, ForwardData, FailData, SealData, SendSealed
  <2>4. CASE ServeExit
    BY <2>4 DEF ServeExit, StartDial, Dialled, DialRefused, HiddenDialled, HiddenRefused,
                BeginHidden, DeliverData
  <2>5. CASE FwdRead \/ ForwardUpstream \/ HiddenServeRead \/ HiddenServeStop \/ TargetCloses
    BY <2>5 DEF FwdRead, ForwardUpstream, FwdSeal, FwdEnd, HiddenServeRead, HiddenServeStop,
                TargetCloses
  <2>6. ASSUME NEW i \in Hops, Expire(i) \/ ResetDn(i) \/ ResetUp(i)
        PROVE  phase' = phase /\ reg' = reg
    BY <2>6 DEF Expire, ResetDn, ResetUp
  <2> QED
    BY <2>1, <2>2, <2>3, <2>4, <2>5, <2>6 DEF Next
<1> SUFFICES ASSUME phase' \in Early
             PROVE  /\ ctr'.up = 0 /\ received' = <<>> /\ Lacks(up', "DATA")
                    /\ \A i \in Hops : job'[i]["up"].pc \notin {"seal", "send"} /\ job'[i]["down"].pc = "read"
  BY <1>1 DEF Silent
<1>2. /\ phase \in Early /\ sent = 0 /\ fwd.pc = "off" /\ ctr.up = 0 /\ received = <<>> /\ Lacks(up, "DATA")
      /\ \A i \in Hops : job[i]["up"].pc \notin {"seal", "send"} /\ job[i]["down"].pc = "read"
  BY <1>0 DEF Silent, Forwarding, Sending
<1>3. \A i \in Hops, s \in Sides : job[i][s].pc \notin {"open", "seal", "send"}
  BY <1>2, HandCell DEF Sides
<1>4. Lacks(up', "DATA")
  BY <1>0, <1>2, <1>3, LacksUp DEF FwdSeal
<1>5. ctr'.up = 0 /\ received' = <<>> /\ \A i \in Hops : job'[i]["up"].pc \notin {"seal", "send"} /\ job'[i]["down"].pc = "read"
  <2>1. CASE Handler \/ SendData \/ AppCloses
    BY <1>0, <1>2, <2>1 DEF Handler, SendConnect, OpenStream, SendBegin, SendData, AppCloses, SockClosed,
                SendEnd, SendEndAll, Counters
  <2>2. CASE RecvLoop
    <3>1. CASE RecvCell
      <4>1. 1 \in Hops /\ up[1] # <<>>
        BY <3>1 DEF RecvCell, Hops
      <4>2. Head(up[1]).cmd # "DATA"
        BY <1>0, <1>2, <4>1, LacksTail
      <4> QED
        BY <1>2, <3>1, <4>2 DEF RecvCell
    <3>2. CASE RecvEOF
      BY <1>2, <3>2 DEF RecvEOF
    <3> QED
      BY <2>2, <3>1, <3>2 DEF RecvLoop
  <2>3. ASSUME NEW i \in Hops, NEW s \in Sides, ServeConn(i, s)
        PROVE  UNCHANGED <<ctr, received>>
               /\ \A h \in Hops : job'[h]["up"].pc \notin {"seal", "send"} /\ job'[h]["down"].pc = "read"
    <3>1. ~ForwardData(i, s) /\ ~FailData(i, s) /\ ~SealData(i, s) /\ ~SendSealed(i, s)
      BY <1>3 DEF ForwardData, OpensData, FailData, SealData, SendSealed
    <3>2. CASE TakeData(i, s)
      <4>1. s # "down"
        <5> SUFFICES ASSUME s = "down"
                     PROVE  FALSE
          OBVIOUS
        <5>1. Reads(i, s, {"DATA"})
          BY <3>2 DEF TakeData
        <5>2. Head(Inbox(i, s)).cmd # "DATA"
          BY <1>0, <1>2, <5>1, LacksRead
        <5> QED
          BY <5>1, <5>2 DEF Reads
      <4>2. s = "up"
        BY <4>1 DEF Sides
      <4> DEFINE j == [pc |-> "open", cell |-> Head(Inbox(i, s)), nonce |-> st[i].data]
      <4>3. PICK k : job' = [job EXCEPT ![i]["up"] = k] /\ k.pc = "open"
        <5>1. job' = [job EXCEPT ![i]["up"] = j] /\ j.pc = "open"
          BY <3>2, <4>2 DEF TakeData
        <5> HIDE DEF j
        <5> QED
          BY <5>1
      <4>4. \A h \in Hops : job'[h]["up"].pc \notin {"seal", "send"} /\ job'[h]["down"].pc = "read"
        BY <1>0, <1>2, <4>3 DEF Jobs, Sides
      <4> QED
        BY <3>2, <4>4 DEF TakeData
    <3>3. CASE ~TakeData(i, s)
      <4>1. UNCHANGED <<ctr, received, job>>
        BY <2>3, <3>1, <3>3 DEF ServeConn, ServeStop, ForwardSetup, BeginAck, EndStream, EndCircuit
      <4> QED
        BY <1>2, <4>1
    <3> QED
      BY <3>2, <3>3
  <2>4. CASE ServeExit
    <3>1. UNCHANGED <<ctr, received>>
      BY <2>4 DEF ServeExit, StartDial, Dialled, DialRefused, HiddenDialled, HiddenRefused,
                  BeginHidden, DeliverData
    <3>2. \E k : k.pc \notin {"seal", "send"} /\ (job' = job \/ job' = [job EXCEPT ![N]["up"] = k])
      <4>1. Idle.pc \notin {"seal", "send"}
        BY DEF Idle
      <4>2. CASE StartDial
        <5> DEFINE k == [pc |-> "dial", cell |-> Head(dn[N]), nonce |-> 0]
        <5>1. k.pc \notin {"seal", "send"} /\ (job' = job \/ job' = [job EXCEPT ![N]["up"] = k])
          BY <4>2 DEF StartDial
        <5> HIDE DEF k
        <5> QED
          BY <5>1
      <4>3. CASE ~StartDial
        <5>1. job' = job \/ job' = [job EXCEPT ![N]["up"] = Idle]
          BY <2>4, <4>3 DEF ServeExit, Dialled, DialRefused, HiddenDialled, HiddenRefused,
                            DialReturns, BeginHidden, DeliverData
        <5> QED
          BY <4>1, <5>1
      <4> QED
        BY <4>2, <4>3
    <3>3. PICK k : k.pc \notin {"seal", "send"} /\ (job' = job \/ job' = [job EXCEPT ![N]["up"] = k])
      BY <3>2
    <3>4. \A h \in Hops : job'[h]["up"].pc \notin {"seal", "send"} /\ job'[h]["down"].pc = "read"
      BY <1>0, <1>2, <3>3 DEF Jobs, Sides
    <3> QED
      BY <1>2, <3>1, <3>4
  <2>5. CASE FwdRead \/ ForwardUpstream \/ HiddenServeRead \/ HiddenServeStop \/ TargetCloses
    BY <1>2, <2>5 DEF FwdRead, ForwardUpstream, FwdSeal, FwdEnd, HiddenServeRead, HiddenServeStop,
                      TargetCloses
  <2>6. ASSUME NEW i \in Hops, Expire(i) \/ ResetDn(i) \/ ResetUp(i)
        PROVE  UNCHANGED <<ctr, received, job>>
    BY <2>6 DEF Expire, ResetDn, ResetUp
  <2> QED
    BY <1>2, <2>1, <2>2, <2>3, <2>4, <2>5, <2>6 DEF Next
<1> QED
  BY <1>4, <1>5

\* Nothing is on its way before the client sends.
LEMMA ReplyInit == Init => ReplyInv
<1> SUFFICES ASSUME Init
             PROVE  UpCells(up, st[N].updata) /\ Returning(st[N].updata) /\ Numbered
                    /\ Forwarding /\ Silent /\ Writing /\ UpOrdered
  BY DEF ReplyInv
<1>1. /\ N \in Hops /\ Len(<<>>) = 0 /\ DOMAIN <<>> = {}
      /\ \A i \in Hops : dn[i] = <<>> /\ up[i] = <<>> /\ job[i]["up"] = Idle /\ job[i]["down"] = Idle
  BY DEF Init, Hops, Sides
<1>2. st[N].updata = 0 /\ fwd.pc = "off" /\ replied = 0 /\ received = <<>> /\ ctr.up = 0 /\ ~reg /\ tgt # "open"
  BY <1>1 DEF Init
<1>3. serve[N]["down"] = "off"
  BY <1>1 DEF Init, Sides
<1>4. UpCells(up, 0) /\ Lacks(up, "END") /\ Lacks(up, "DATA") /\ Lacks(dn, "END")
  BY <1>1 DEF UpCells, Lacks
<1>5. Idle.pc = "read"
  BY DEF Idle
<1>6. Returning(0) /\ Numbered
  BY <1>1, <1>2, <1>5 DEF Returning, DownJob, SentJob, Sides, Numbered
<1>7. Forwarding /\ Silent
  BY <1>1, <1>2, <1>3, <1>4, <1>5 DEF Forwarding, Silent
<1>8. Writing /\ UpOrdered
  BY <1>1, <1>2 DEF Writing, UpOrdered
<1> QED
  BY <1>2, <1>4, <1>6, <1>7, <1>8

\* Every step that leaves the circuit in time keeps the invariant.
LEMMA ReplyNext ==
  ASSUME DownInv, TypeOK', ReplyInv, Next
  PROVE  ReplyInv'
<1> SUFFICES ASSUME InTime'
             PROVE  (UpCells(up, st[N].updata) /\ Returning(st[N].updata) /\ Numbered
                       /\ Forwarding /\ Silent /\ Writing /\ UpOrdered)'
  BY DEF ReplyInv
<1>1. InTime /\ ~FailData(N, "up") /\ phase' \notin {"endall", "returned"} /\ TypeOK
  BY InTimeNext DEF InTime, DownInv
<1>2. PICK n \in Nat : n = st[N].updata
  BY <1>1 DEF TypeOK, Relays, ConnState, Hops
<1>3. /\ UpCells(up, n) /\ Returning(n) /\ Numbered
      /\ Forwarding /\ Silent /\ Writing /\ UpOrdered
  BY <1>1, <1>2 DEF ReplyInv
<1>4. UpCells(up', st'[N].updata) /\ Returning(st[N].updata)' /\ Numbered'
  <2>1. CASE FwdRead \/ ForwardUpstream
    BY <1>1, <1>2, <1>3, <2>1, ReturnUpstream
  <2>2. CASE ~FwdRead /\ ~ForwardUpstream
    <3>1. /\ st'[N].updata = n /\ replied' = replied
          /\ fwd' = fwd \/ (fwd.pc = "off" /\ fwd' = [fwd EXCEPT !.pc = "read"])
      BY <1>1, <1>2, <1>3, <2>2, UpstreamAlone
    <3>2. UpCells(up', n) /\ Returning(n)'
      BY <1>1, <1>3, <2>2, ReturnNext
    <3>3. Numbered'
      BY <1>1, <1>2, <1>3, <3>1 DEF Numbered, TypeOK, Upstream
    <3>4. Returning(st[N].updata)'
      BY <3>1, <3>2 DEF Returning
    <3> QED
      BY <3>1, <3>2, <3>3, <3>4
  <2> QED
    BY <2>1, <2>2
<1>5. Forwarding'
  BY <1>1, <1>2, <1>3, ForwardingNext
<1>6. Silent'
  BY <1>3, SilentNext
<1>7. Writing' /\ UpOrdered'
  <2>1. phase = "open" => ctr.up = 0 /\ received = <<>>
    BY <1>3 DEF Silent, Early
  <2> QED
    BY <1>1, <1>2, <1>3, <2>1, WritingNext
<1> QED
  BY <1>4, <1>5, <1>6, <1>7

\* In every circuit, until the client ends the stream or the exit fails to deliver, what
\* is on its way up is the target's, numbered by the nonces of forwardUpstream.
THEOREM ReplyInvariant == Spec => []ReplyInv
<1>1. DownInv /\ DownInv' /\ ReplyInv /\ [Next]_vars => ReplyInv'
  <2> SUFFICES ASSUME DownInv, DownInv', ReplyInv, [Next]_vars
               PROVE  ReplyInv'
    OBVIOUS
  <2>1. CASE Next
    BY <2>1, ReplyNext DEF DownInv
  <2>2. CASE UNCHANGED vars
    BY <2>2 DEF ReplyInv, InTime, UpCells, Returning, Numbered, Forwarding, Silent, Writing, UpOrdered,
                Pipes, Lacks, vars, wires, relays, exit, client, hist
  <2> QED
    BY <2>1, <2>2
<1> QED
  BY <1>1, ReplyInit, DownInvariant, PTL DEF Spec

\* Also behind a hidden service the application gets the target's chunks unaltered and in
\* order until it has ended the stream, as long as the exit delivers what it opens.
THEOREM UpInStepCorrect == Spec => []UpOrderedInStep
<1>1. ReplyInv => UpOrderedInStep
  BY DEF ReplyInv, InTime, UpOrderedInStep
<1> QED
  BY <1>1, ReplyInvariant, PTL
=============================================================================
