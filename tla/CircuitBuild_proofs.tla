------------------------- MODULE CircuitBuild_proofs -------------------------
(***************************************************************************)
(* The keys of a constructed circuit agree, with all its entries the       *)
(* circuit is what module Circuit starts from, and an undisturbed          *)
(* construction never stands still, for every number of hops.              *)
(***************************************************************************)
EXTENDS CircuitBuildInv, SequenceTheorems, TLAPS

USE BuildAssumption
-----------------------------------------------------------------------------
(***************************************************************************)
(* Types.                                                                  *)
(***************************************************************************)
\* What the operators of the actions return.
LEMMA MessageTypes ==
  ASSUME NEW i \in Hops, NEW k \in 0..N
  PROVE  Created(i, k) \in Pubs /\ NextHop(k) \in 0..N /\ Teardown \in 0..N
BY DEF Created, Pubs, NextHop, Teardown, Hops

\* The key of any pair of public keys is a key.
LEMMA KeyType ==
  ASSUME NEW k \in 0..N, NEW p \in Pubs
  PROVE  Key(k, p) \in Keys
BY DEF Key, Keys

\* Writing keeps what is in flight well typed.
LEMMA PutDownType ==
  ASSUME TypeOK, NEW i \in Hops, NEW c \in 0..N
  PROVE  PutDown(i, c) \in [Hops -> Seq(0..N)]
<1>1. dn \in [Hops -> Seq(0..N)]
  BY DEF TypeOK
<1>2. Append(dn[i], c) \in Seq(0..N)
  BY <1>1
<1> QED
  BY <1>1, <1>2 DEF PutDown

LEMMA PutUpType ==
  ASSUME NEW i \in Hops, NEW p \in Pubs, NEW U \in [Hops -> Seq(Pubs)]
  PROVE  PutUp(U, i, p) \in [Hops -> Seq(Pubs)]
<1>1. Append(U[i], p) \in Seq(Pubs)
  OBVIOUS
<1> QED
  BY <1>1 DEF PutUp

\* Taking the first message does.
LEMMA TailTypes ==
  ASSUME NEW S, NEW W \in [Hops -> Seq(S)], NEW i \in Hops, W[i] # <<>>
  PROVE  Head(W[i]) \in S /\ [W EXCEPT ![i] = Tail(@)] \in [Hops -> Seq(S)]
<1>1. Head(W[i]) \in S /\ Tail(W[i]) \in Seq(S)
  OBVIOUS
<1> QED
  BY <1>1

\* The client gives up.
LEMMA AbortType ==
  ASSUME TypeOK, Abort
  PROVE  /\ phase' = "failed" /\ dn' \in [Hops -> Seq(0..N)]
         /\ topShut' \in [Hops -> BOOLEAN] /\ up' \in [Hops -> Seq(Pubs)]
<1>1. 1 \in Hops /\ <<>> \in Seq(Pubs) /\ Teardown \in 0..N
  BY DEF Hops, Teardown
<1>2. dn' \in [Hops -> Seq(0..N)]
  BY <1>1, PutDownType DEF Abort
<1> QED
  BY <1>1, <1>2 DEF Abort, TypeOK

\* A relay makes its entry.
LEMMA NewEntryType ==
  ASSUME TypeOK, NEW i \in Hops, NewEntry(i)
  PROVE  /\ table' \subseteq Hops /\ st' \in [Hops -> [key : Keys, down : 0..N]]
         /\ up' \in [Hops -> Seq(Pubs)]
<1>1. job[i] \in 0..N /\ up \in [Hops -> Seq(Pubs)]
  BY DEF TypeOK
<1>2. Created(i, job[i]) \in Pubs /\ NextHop(job[i]) \in 0..N
  BY <1>1, MessageTypes
<1>3. [key |-> Key(job[i], Created(i, job[i])), down |-> NextHop(job[i])]
        \in [key : Keys, down : 0..N]
  BY <1>1, <1>2, KeyType
<1>4. PutUp(up, i, Created(i, job[i])) \in [Hops -> Seq(Pubs)]
  BY <1>1, <1>2, PutUpType
<1> QED
  BY <1>3, <1>4 DEF NewEntry, TypeOK
-----------------------------------------------------------------------------
\* The client keeps every variable well typed.
LEMMA TypeClient ==
  ASSUME TypeOK, Proper, Build \/ DialRefused \/ DialTimeout \/ LateDial \/ Deadline
  PROVE  TypeOK'
<1> USE DEF client, wires, relays
<1>1. 1 \in Hops
  BY DEF Hops
<1>2. CASE Dial \/ DialRefused \/ DialTimeout \/ LateDial
  BY <1>1, <1>2 DEF TypeOK, Dial, DialRefused, DialTimeout, LateDial
<1>3. CASE SendExtend
  <2>1. hop \in 0..N /\ NoKey \in Keys
    BY MessageTypes DEF TypeOK, Hops, NoKey, Key, Keys, Pubs, Created
  <2>2. dn' \in [Hops -> Seq(0..N)] /\ topShut' \in [Hops -> BOOLEAN] /\ up' \in [Hops -> Seq(Pubs)]
    <3>1. CASE Abort
      BY <3>1, AbortType
    <3>2. ASSUME dn' = PutDown(1, hop), UNCHANGED <<topShut, up>>
          PROVE  dn' \in [Hops -> Seq(0..N)] /\ topShut' \in [Hops -> BOOLEAN] /\ up' \in [Hops -> Seq(Pubs)]
      BY <1>1, <2>1, <3>2, PutDownType DEF TypeOK
    <3> QED
      BY <1>3, <3>1, <3>2 DEF SendExtend
  <2>3. phase' \in {"wait", "failed"}
    BY <1>3 DEF SendExtend, Abort
  <2> QED
    BY <1>3, <2>2, <2>3 DEF SendExtend, TypeOK
<1>4. CASE WaitForCreated
  <2>1. Head(up[1]) \in Pubs /\ up' \in [Hops -> Seq(Pubs)]
    BY <1>1, <1>4, TailTypes DEF WaitForCreated, TypeOK
  <2>2. Key(hop, Head(up[1])) \in Keys
    BY SMTT(30), <2>1, KeyType DEF TypeOK, Hops
  <2>3. phase' \in {"built", "send"} /\ hop' \in Hops
    <3>1. hop \in Hops
      BY DEF TypeOK
    <3>2. \/ phase' = "built" /\ hop' = hop
          \/ phase' = "send" /\ hop # N /\ hop' = hop + 1
      BY <1>4 DEF WaitForCreated, LastHop
    <3> QED
      BY <3>1, <3>2 DEF Hops
  <2>4. ckey' \in [Hops -> Keys]
    BY <1>4, <2>2 DEF WaitForCreated, TypeOK
  <2> QED
    BY <1>4, <2>1, <2>3, <2>4 DEF WaitForCreated, TypeOK
<1>5. CASE WaitEOF \/ Deadline
  BY <1>5, AbortType DEF WaitEOF, Deadline, TypeOK
<1> QED
  BY <1>2, <1>3, <1>4, <1>5 DEF Build

\* So does a ServeConn goroutine.
LEMMA TypeServeConn ==
  ASSUME TypeOK, Proper, NEW i \in Hops, ServeConn(i) \/ ExtendRefused(i)
  PROVE  TypeOK'
<1> USE DEF client, wires, relays
<1>1. CASE ReadCell(i)
  <2>1. Head(dn[i]) \in 0..N /\ dn' \in [Hops -> Seq(0..N)]
    BY <1>1, TailTypes DEF ReadCell, TypeOK
  <2> QED
    BY <1>1, <2>1 DEF ReadCell, TypeOK
<1>2. CASE ServeStop(i)
  <2>1. <<>> \in Seq(0..N)
    OBVIOUS
  <2> QED
    BY <1>2, <2>1 DEF ServeStop, TypeOK
<1>3. CASE ExtendLast(i)
  BY <1>3, NewEntryType DEF ExtendLast, TypeOK
<1>4. CASE Extend(i) \/ ExtendRefused(i)
  BY <1>4 DEF Extend, ExtendRefused, TypeOK
<1>5. CASE ExtendDialled(i)
  <2>1. pc' \in [Hops -> {"off", "read", "cell", "dial", "wait", "done"}]
    BY <1>5 DEF ExtendDialled, DialledPc, TypeOK
  <2> QED
    BY <1>5, <2>1, NewEntryType DEF ExtendDialled, TypeOK
<1>6. CASE ForwardExtend(i)
  <2>1. job[i] \in 0..N /\ st[i].down \in 0..N
    BY DEF TypeOK
  <2>2. st[i].down # 0 => st[i].down \in Hops
    BY <2>1 DEF Hops
  <2>3. st[i].down # 0 => PutDown(st[i].down, job[i]) \in [Hops -> Seq(0..N)]
    BY <2>1, <2>2, PutDownType
  <2>4. dn' \in [Hops -> Seq(0..N)]
    BY <1>6, <2>3 DEF ForwardExtend, TypeOK
  <2>5. pc' \in [Hops -> {"off", "read", "cell", "dial", "wait", "done"}]
    BY <1>6 DEF ForwardExtend, TypeOK
  <2> QED
    BY <1>6, <2>4, <2>5 DEF ForwardExtend, Answers, TypeOK
<1>7. CASE ForwardCreated(i)
  <2> DEFINE d == st[i].down
             U == [up EXCEPT ![d] = Tail(@)]
  <2>1. d \in Hops /\ up[d] # <<>>
    BY <1>7 DEF ForwardCreated, Proper
  <2>2. Head(up[d]) \in Pubs /\ U \in [Hops -> Seq(Pubs)]
    BY <2>1, TailTypes DEF TypeOK
  <2>3. up' = PutUp(U, i, Head(up[d]))
    BY <1>7 DEF ForwardCreated
  <2>4. up' \in [Hops -> Seq(Pubs)]
    BY <2>2, <2>3, PutUpType
  <2> QED
    BY <1>7, <2>4 DEF ForwardCreated, TypeOK
<1>8. CASE ForwardEOF(i)
  BY <1>8 DEF ForwardEOF, TypeOK
<1> QED
  BY <1>1, <1>2, <1>3, <1>4, <1>5, <1>6, <1>7, <1>8 DEF ServeConn

\* So does gc.
LEMMA TypeExpire ==
  ASSUME TypeOK, NEW i \in Hops, Expire(i)
  PROVE  TypeOK'
<1> USE DEF client, wires, relays
<1>1. <<>> \in Seq(0..N) /\ <<>> \in Seq(Pubs)
  OBVIOUS
<1> QED
  BY <1>1 DEF Expire, Close, TypeOK
-----------------------------------------------------------------------------
(***************************************************************************)
(* The message under way.                                                  *)
(***************************************************************************)
\* What can be on a connection away from the client, and what that says of the EXTEND.
LEMMA DownContents ==
  ASSUME NEW h \in Hops, NEW d \in {<<>>, <<h>>, <<Teardown>>, <<h, Teardown>>}
  PROVE  /\ d # <<>> /\ Head(d) # Teardown <=> d \in {<<h>>, <<h, Teardown>>}
         /\ d # <<>> /\ Head(d) # Teardown => Head(d) = h /\ Tail(d) \in {<<>>, <<Teardown>>}
         /\ d = <<h, Teardown>> => Tail(d) = <<Teardown>>
         /\ d = <<h>> => Tail(d) = <<>>
<1>1. h \in Nat /\ h # 0 /\ Teardown = 0
  BY DEF Hops, Teardown
<1>2. Head(<<h>>) = h /\ Tail(<<h>>) = <<>> /\ <<h>> # <<>>
  OBVIOUS
<1>3. Head(<<h, Teardown>>) = h /\ Tail(<<h, Teardown>>) = <<Teardown>> /\ <<h, Teardown>> # <<>>
  OBVIOUS
<1>4. Head(<<Teardown>>) = Teardown /\ <<Teardown>> # <<>>
  OBVIOUS
<1>5. <<Teardown>> \notin {<<h>>, <<h, Teardown>>} /\ <<>> \notin {<<h>>, <<h, Teardown>>}
  BY <1>1, <1>2, <1>3, <1>4
<1>6. CASE d = <<>>
  BY <1>2, <1>3, <1>5, <1>6
<1>7. CASE d = <<Teardown>>
  BY <1>2, <1>4, <1>5, <1>7
<1>8. CASE d = <<h>>
  BY <1>1, <1>2, <1>3, <1>8
<1>9. CASE d = <<h, Teardown>>
  BY <1>1, <1>2, <1>3, <1>9
<1> QED
  BY <1>6, <1>7, <1>8, <1>9

\* A sequence that continues another by one element.
LEMMA AppendTypes ==
  ASSUME NEW s \in Seq(Nat), NEW y \in Nat
  PROVE  Append(s, y) \in Seq(Nat) /\ Len(Append(s, y)) = Len(s) + 1
OBVIOUS

LEMMA AppendLast ==
  ASSUME NEW s \in Seq(Nat), NEW y \in Nat
  PROVE  Append(s, y)[Len(s) + 1] = y
OBVIOUS

LEMMA AppendFirst ==
  ASSUME NEW s \in Seq(Nat), NEW y \in Nat, NEW i \in 1..Len(s)
  PROVE  Append(s, y)[i] = s[i]
OBVIOUS

LEMMA AppendIs ==
  ASSUME NEW s \in Seq(Nat), NEW y \in Nat, NEW t \in Seq(Nat), Len(t) = Len(s) + 1,
         \A i \in 1..Len(s) : t[i] = s[i], t[Len(s) + 1] = y
  PROVE  Append(s, y) = t
<1>1. Append(s, y) \in Seq(Nat) /\ Len(Append(s, y)) = Len(t)
  BY AppendTypes
<1>2. \A i \in 1..Len(t) : Append(s, y)[i] = t[i]
  <2> TAKE i \in 1..Len(t)
  <2>1. CASE i \in 1..Len(s)
    BY <2>1, AppendFirst
  <2>2. CASE i = Len(s) + 1
    BY <2>2, AppendLast
  <2>3. Len(s) \in Nat
    OBVIOUS
  <2> QED
    BY <2>1, <2>2, <2>3
<1> QED
  BY <1>1, <1>2, SeqEqual

\* Writing to an empty connection, and tearing down one that carries EXTEND.
LEMMA Appends ==
  ASSUME NEW h \in Hops
  PROVE  /\ Append(<<>>, h) = <<h>> /\ Append(<<>>, Teardown) = <<Teardown>>
         /\ Append(<<h>>, Teardown) = <<h, Teardown>>
<1>1. h \in Nat /\ Teardown \in Nat
  BY DEF Hops, Teardown
<1> DEFINE one == <<h>>
           two == <<h, Teardown>>
<1>2. one \in Seq(Nat) /\ Len(one) = 1 /\ one[1] = h
  BY <1>1
<1>3. two \in Seq(Nat) /\ Len(two) = 2 /\ two[1] = h /\ two[2] = Teardown
  BY <1>1
<1> HIDE DEF one, two
<1>4. Append(one, Teardown) = two
  <2>1. Len(two) = Len(one) + 1 /\ two[Len(one) + 1] = Teardown
    BY <1>2, <1>3
  <2>2. \A i \in 1..Len(one) : two[i] = one[i]
    <3> TAKE i \in 1..Len(one)
    <3>1. i = 1
      BY <1>2
    <3> QED
      BY <1>2, <1>3, <3>1
  <2> QED
    BY <1>1, <1>2, <1>3, <2>1, <2>2, AppendIs
<1> QED
  BY <1>1, <1>4 DEF one, two

\* A step that neither makes a new entry nor tells the client of one.
Frame ==
  /\ hop' = hop /\ ckey' = ckey /\ st' = st /\ table' \subseteq table
  /\ \A i \in Hops : botShut[i] => botShut'[i]
  /\ \A i \in table : i \notin table' => botShut'[i]
  /\ phase' = "built" <=> phase = "built"
  /\ \/ phase' = phase \/ phase' = "failed"
     \/ phase = "dial" /\ phase' = "send"
     \/ phase = "send" /\ phase' = "wait"

\* It makes no message but an EXTEND that the client sends.
Moves ==
  /\ (\E j \in Hops : At(j)') => (\E j \in Hops : At(j)) \/ (phase = "send" /\ phase' = "wait")
  /\ (\E j \in Hops : Back(j)') => \E j \in Hops : Back(j)

\* Such a step disturbs nothing that speaks of the message or of entries.
LEMMA Carry ==
  ASSUME BuildInv, Frame, Moves
  PROVE  Pending' /\ InOrder' /\ Regulars' /\ ClientKeys'
<1> USE DEF BuildInv, Frame, Moves
<1>1. Pending'
  BY DEF Pending
<1>2. InOrder'
  <2>1. \A i \in Hops : Had(i) => Had(i)'
    BY DEF Had
  <2>2. hop \in Hops /\ table \subseteq Hops
    BY DEF TypeOK
  <2>3. hop \in table' => phase' \notin {"dial", "send"} /\ \A j \in Hops : ~At(j)'
    BY DEF InOrder
  <2> QED
    BY <2>1, <2>2, <2>3 DEF InOrder
<1>3. Regulars'
  <2>1. \A i \in table' : Regular(i) => Regular(i)'
    BY DEF Regular
  <2> QED
    BY <2>1 DEF Regulars
<1>4. ClientKeys'
  BY DEF ClientKeys
<1> QED
  BY <1>1, <1>2, <1>3, <1>4

\* A step that only loses messages, or hands them to the relay that reads them.
LEMMA Shrink ==
  ASSUME Unique,
         \A j \in Hops : (At(j)' => At(j)) /\ (Back(j)' => Back(j)) /\ ~(Sent(j)' /\ Held(j)')
  PROVE  Unique' /\ Moves
BY DEF Unique, Moves

\* A step that only loses messages.
LEMMA Quiet ==
  ASSUME Proper, Unique, hop' = hop, st' = st, job' = job,
         \A j \in Hops : /\ dn'[j] \in {dn[j], <<>>} /\ up'[j] \in {up[j], <<>>}
                         /\ topShut[j] => topShut'[j]
                         /\ Held(j)' => Held(j)
                         /\ pc'[j] = "wait" => pc[j] = "wait"
  PROVE  Proper' /\ Unique' /\ Moves
<1>1. \A j \in Hops : (Sent(j)' => Sent(j)) /\ (Back(j)' => Back(j))
  BY DEF Sent, Back
<1>2. \A j \in Hops : At(j)' => At(j)
  BY <1>1 DEF At
<1>3. Unique' /\ Moves
  BY <1>1, <1>2, Shrink DEF Unique
<1>4. Proper'
  BY <1>2 DEF Proper
<1> QED
  BY <1>3, <1>4
-----------------------------------------------------------------------------
(***************************************************************************)
(* What each action does to the message under way.                         *)
(***************************************************************************)
\* The dial, and the steps of a relay that only lose messages.
LEMMA StepQuiet ==
  ASSUME BuildInv,
         NEW i \in Hops,
         \/ Dial \/ DialRefused \/ DialTimeout \/ LateDial
         \/ ServeStop(i) \/ Extend(i) \/ ExtendRefused(i) \/ ForwardEOF(i) \/ Expire(i)
  PROVE  Frame /\ Proper' /\ Unique' /\ Moves
<1> USE DEF client, wires, relays
<1> DEFINE Losing ==
             \A j \in Hops : /\ dn'[j] \in {dn[j], <<>>} /\ up'[j] \in {up[j], <<>>}
                             /\ topShut[j] => topShut'[j]
                             /\ Held(j)' => Held(j)
                             /\ pc'[j] = "wait" => pc[j] = "wait"
<1>1. dn \in [Hops -> Seq(0..N)] /\ botShut \in [Hops -> BOOLEAN] /\ pc = [j \in Hops |-> pc[j]]
  BY DEF BuildInv, TypeOK
<1>2. CASE Dial \/ DialRefused \/ DialTimeout \/ LateDial
  <2>1. Frame
    BY <1>2 DEF Dial, DialRefused, DialTimeout, LateDial, Frame
  <2>2. Losing /\ job' = job
    BY <1>1, <1>2 DEF Dial, DialRefused, DialTimeout, LateDial, Held
  <2> QED
    BY <2>1, <2>2, Quiet DEF BuildInv, Frame
<1>3. CASE ServeStop(i)
  <2>1. Frame
    BY <1>1, <1>3 DEF ServeStop, Frame
  <2>2. Losing /\ job' = job
    BY <1>1, <1>3 DEF ServeStop, Held
  <2> QED
    BY <2>1, <2>2, Quiet DEF BuildInv, Frame
<1>4. CASE Extend(i) \/ ExtendRefused(i) \/ ForwardEOF(i)
  <2>1. Frame
    BY <1>4 DEF Extend, ExtendRefused, ForwardEOF, Frame
  <2>2. Losing /\ job' = job
    BY <1>1, <1>4 DEF Extend, ExtendRefused, ForwardEOF, Held
  <2> QED
    BY <2>1, <2>2, Quiet DEF BuildInv, Frame
<1>5. CASE Expire(i)
  <2>1. Frame
    BY <1>1, <1>5 DEF Expire, Close, Frame
  <2>2. Losing /\ job' = job
    BY <1>1, <1>5 DEF Expire, Close, Held
  <2> QED
    BY <2>1, <2>2, Quiet DEF BuildInv, Frame
<1> QED
  BY <1>2, <1>3, <1>4, <1>5

\* What a relay takes from its connection is EXTEND.
LEMMA StepReadCell ==
  ASSUME BuildInv, NEW i \in Hops, ReadCell(i)
  PROVE  Frame /\ Proper' /\ Unique' /\ Moves
<1> USE DEF client, wires, relays
<1>1. /\ dn \in [Hops -> Seq(0..N)] /\ pc = [j \in Hops |-> pc[j]] /\ job \in [Hops -> 0..N]
      /\ hop \in Hops
  BY DEF BuildInv, TypeOK
<1>2. Frame /\ UNCHANGED <<up, topShut, st>>
  BY DEF ReadCell, Frame
<1>3. Sent(i) /\ ~Held(i)
  BY DEF ReadCell, Sent, Held
<1>4. /\ dn[i] \in {<<hop>>, <<hop, Teardown>>} /\ Head(dn[i]) = hop
      /\ dn'[i] \in {<<>>, <<Teardown>>}
      /\ dn'[i] = <<Teardown>> => topShut[i]
  <2>1. dn[i] \in {<<>>, <<hop>>} \/ (topShut[i] /\ dn[i] \in {<<Teardown>>, <<hop, Teardown>>})
    BY DEF BuildInv, Proper
  <2>2. dn'[i] = Tail(dn[i])
    BY <1>1 DEF ReadCell
  <2>3. dn[i] \in {<<>>, <<hop>>, <<Teardown>>, <<hop, Teardown>>}
    BY <2>1
  <2>4. dn[i] \in {<<hop>>, <<hop, Teardown>>} /\ Head(dn[i]) = hop
    BY <1>1, <1>3, <2>3, DownContents DEF Sent
  <2>5. Tail(<<hop>>) = <<>> /\ Tail(<<hop, Teardown>>) = <<Teardown>>
    OBVIOUS
  <2>6. <<hop>> # <<hop, Teardown>> /\ <<hop>> # <<>> /\ <<>> # <<Teardown>>
    BY <2>5
  <2>7. CASE dn[i] = <<hop>>
    BY <2>2, <2>4, <2>5, <2>6, <2>7
  <2>8. CASE dn[i] = <<hop, Teardown>>
    <3>1. topShut[i]
      BY <2>1, <2>6, <2>8
    <3> QED
      BY <2>2, <2>4, <2>5, <2>8, <3>1
  <2> QED
    BY <2>4, <2>7, <2>8
<1>5. ~Sent(i)' /\ Held(i)' /\ job'[i] = hop
  BY <1>1, <1>4, DownContents DEF ReadCell, Sent, Held
<1>6. \A j \in Hops : j # i => /\ dn'[j] = dn[j] /\ pc'[j] = pc[j] /\ job'[j] = job[j]
                               /\ (Sent(j)' <=> Sent(j)) /\ (Held(j)' <=> Held(j))
  BY <1>1 DEF ReadCell, Sent, Held
<1>7. \A j \in Hops : (At(j)' <=> At(j)) /\ (Back(j)' <=> Back(j)) /\ ~(Sent(j)' /\ Held(j)')
  BY <1>2, <1>3, <1>5, <1>6 DEF At, Back, BuildInv, Unique
<1>8. Unique' /\ Moves
  BY <1>7, Shrink DEF BuildInv
<1>9. Proper'
  <2>1. hop' = hop /\ pc'[i] = "cell"
    BY <1>1 DEF ReadCell
  <2> QED
    BY <1>2, <1>4, <1>5, <1>6, <1>7, <2>1 DEF BuildInv, Proper
<1> QED
  BY <1>2, <1>8, <1>9

\* Giving up puts TeardownCircuit behind what is on connection 1.
LEMMA StepAbort ==
  ASSUME BuildInv, Abort, phase \in {"send", "wait"},
         UNCHANGED <<hop, ckey, late, botShut, table, st, pc, job>>
  PROVE  Frame /\ Proper' /\ Unique' /\ Moves
<1>1. /\ dn \in [Hops -> Seq(0..N)] /\ up \in [Hops -> Seq(Pubs)] /\ hop \in Hops
      /\ topShut \in [Hops -> BOOLEAN] /\ 1 \in Hops
  BY DEF BuildInv, TypeOK, Hops
<1>2. Frame
  BY DEF Abort, Frame
<1>3. /\ topShut'[1] = TRUE /\ up'[1] = <<>>
      /\ \A j \in Hops : j # 1 => dn'[j] = dn[j] /\ up'[j] = up[j] /\ topShut'[j] = topShut[j]
  BY <1>1 DEF Abort, PutDown
<1>4. /\ dn'[1] \in {<<>>, <<hop>>, <<Teardown>>, <<hop, Teardown>>}
      /\ Sent(1)' => Sent(1)
  <2>1. dn[1] \in {<<>>, <<hop>>} \/ (topShut[1] /\ dn[1] \in {<<Teardown>>, <<hop, Teardown>>})
    BY <1>1 DEF BuildInv, Proper
  <2>2. dn'[1] = dn[1] \/ (~topShut[1] /\ dn'[1] = Append(dn[1], Teardown))
    BY <1>1 DEF Abort, PutDown
  <2>3. CASE dn'[1] = dn[1]
    BY <2>1, <2>3 DEF Sent
  <2>4. CASE ~topShut[1] /\ dn'[1] = Append(dn[1], Teardown)
    <3>1. \/ dn[1] = <<>> /\ dn'[1] = <<Teardown>>
          \/ dn[1] = <<hop>> /\ dn'[1] = <<hop, Teardown>>
      BY <1>1, <2>1, <2>4, Appends
    <3> QED
      BY <1>1, <3>1, DownContents DEF Sent
  <2> QED
    BY <2>2, <2>3, <2>4
<1>5. \A j \in Hops : /\ Sent(j)' => Sent(j)
                      /\ Held(j)' <=> Held(j)
                      /\ Back(j)' => Back(j)
  BY <1>3, <1>4 DEF Sent, Held, Back
<1>6. \A j \in Hops : (At(j)' => At(j)) /\ (Back(j)' => Back(j)) /\ ~(Sent(j)' /\ Held(j)')
  BY <1>5 DEF At, BuildInv, Unique
<1>7. Unique' /\ Moves
  BY <1>6, Shrink DEF BuildInv
<1>8. Proper'
  BY <1>1, <1>3, <1>4, <1>5, <1>6 DEF BuildInv, Proper
<1> QED
  BY <1>2, <1>7, <1>8

\* EXTEND arrives on connection d, where nothing else is under way.
LEMMA PutExtend ==
  ASSUME BuildInv, NEW d \in Hops, d <= hop, dn' = PutDown(d, hop),
         UNCHANGED <<hop, st, up, topShut, job>>,
         \A j \in Hops : ~Sent(j) /\ ~Back(j) /\ ~Held(j)',
         \A j \in Hops : pc'[j] = "wait" => st[j].down \in Hops,
         (\E j \in Hops : At(j)) \/ (phase = "send" /\ phase' = "wait")
  PROVE  Proper' /\ Unique' /\ Moves
<1>1. dn \in [Hops -> Seq(0..N)] /\ hop \in Hops
  BY DEF BuildInv, TypeOK
<1>2. \A j \in Hops : j # d => dn'[j] = dn[j]
  BY <1>1 DEF PutDown
<1>3. dn'[d] = dn[d] \/ dn'[d] = <<hop>>
  <2>1. CASE topShut[d] \/ botShut[d]
    BY <2>1 DEF PutDown
  <2>2. CASE ~topShut[d]
    <3>1. dn[d] \in {<<>>, <<hop>>}
      BY <2>2 DEF BuildInv, Proper
    <3>2. dn[d] = <<>>
      BY <1>1, <3>1, DownContents DEF Sent
    <3> QED
      BY <1>1, <3>2, Appends DEF PutDown
  <2> QED
    BY <2>1, <2>2
<1>4. \A j \in Hops : (At(j)' => j = d) /\ ~Back(j)'
  BY <1>2 DEF At, Sent, Held, Back
<1>5. Unique' /\ Moves
  BY <1>4 DEF Unique, Moves
<1>6. Proper'
  BY <1>2, <1>3, <1>4 DEF BuildInv, Proper
<1> QED
  BY <1>5, <1>6

\* The client sends EXTEND, or gives up.
LEMMA StepSendExtend ==
  ASSUME BuildInv, SendExtend
  PROVE  Frame /\ Proper' /\ Unique' /\ Moves
<1> USE DEF client, wires, relays
<1>1. phase = "send" /\ UNCHANGED <<hop, ckey, late, botShut, table, st, pc, job>>
  BY DEF SendExtend
<1>2. CASE Abort
  BY <1>1, <1>2, StepAbort
<1>3. CASE phase' = "wait" /\ dn' = PutDown(1, hop) /\ UNCHANGED <<topShut, up>>
  <2>1. Frame
    BY <1>1, <1>3 DEF Frame
  <2>2. \A j \in Hops : ~At(j) /\ ~Back(j)
    BY <1>1 DEF BuildInv, Pending
  <2>3. \A j \in Hops : ~Sent(j) /\ ~Held(j)'
    BY <1>1, <2>2 DEF At, Held
  <2>4. 1 \in Hops /\ 1 <= hop
    BY DEF BuildInv, TypeOK, Hops
  <2>5. \A j \in Hops : pc'[j] = "wait" => st[j].down \in Hops
    BY <1>1 DEF BuildInv, Proper
  <2>6. Proper' /\ Unique' /\ Moves
    BY <1>1, <1>3, <2>2, <2>3, <2>4, <2>5, PutExtend
  <2> QED
    BY <2>1, <2>6
<1> QED
  BY <1>2, <1>3 DEF SendExtend

\* A relay that has an entry passes EXTEND on to a hop that is not beyond hop.
LEMMA StepForwardExtend ==
  ASSUME BuildInv, NEW i \in Hops, ForwardExtend(i)
  PROVE  Frame /\ Proper' /\ Unique' /\ Moves
<1> USE DEF client, wires, relays
<1> DEFINE d == st[i].down
<1>1. /\ pc = [j \in Hops |-> pc[j]] /\ hop \in Hops /\ table \subseteq Hops
      /\ pc[i] = "cell" /\ i \in table
      /\ UNCHANGED <<phase, hop, ckey, up, topShut, botShut, table, st, job>>
  BY DEF ForwardExtend, Answers, BuildInv, TypeOK
<1>2. Frame
  BY <1>1 DEF Frame
<1>3. Held(i) /\ At(i) /\ job[i] = hop
  BY <1>1 DEF Held, At, BuildInv, Proper
<1>4. \A j \in Hops : ~Sent(j) /\ ~Back(j) /\ (Held(j) => j = i)
  BY <1>3 DEF At, BuildInv, Unique, Pending
<1>5. i < hop /\ d = i + 1 /\ d \in Hops /\ d <= hop
  <2>1. i <= hop /\ i # hop
    BY <1>1, <1>3 DEF BuildInv, InOrder
  <2>2. Regular(i)
    BY <1>1, <1>3 DEF BuildInv, Regulars
  <2>3. d = NextHop(i)
    BY <2>2 DEF Regular
  <2> HIDE DEF d
  <2> QED
    BY <1>1, <2>1, <2>3 DEF NextHop, Hops
<1>6. PICK ok \in BOOLEAN : /\ dn' = IF ok THEN PutDown(d, job[i]) ELSE dn
                            /\ pc' = [pc EXCEPT ![i] = IF ok THEN "wait" ELSE "read"]
  BY DEF ForwardExtend
<1>7. pc'[i] \in {"wait", "read"} /\ \A j \in Hops : j # i => pc'[j] = pc[j]
  BY <1>1, <1>6
<1>8. \A j \in Hops : ~Held(j)'
  BY <1>4, <1>7 DEF Held
<1>9. CASE ok
  <2>1. \A j \in Hops : pc'[j] = "wait" => st[j].down \in Hops
    BY <1>5, <1>7 DEF BuildInv, Proper
  <2>2. dn' = PutDown(d, hop)
    BY <1>3, <1>6, <1>9
  <2> HIDE DEF d
  <2>3. Proper' /\ Unique' /\ Moves
    BY <1>1, <1>3, <1>4, <1>5, <1>8, <2>1, <2>2, PutExtend
  <2> QED
    BY <1>2, <2>3
<1>10. CASE ~ok
  <2>1. dn' = dn /\ pc'[i] = "read"
    BY <1>1, <1>6, <1>10
  <2>2. \A j \in Hops : (pc'[j] = "wait" => pc[j] = "wait")
    BY <1>7, <2>1
  <2>3. Proper' /\ Unique' /\ Moves
    BY <1>1, <1>8, <2>1, <2>2, Quiet DEF BuildInv
  <2> QED
    BY <1>2, <2>3
<1> QED
  BY <1>9, <1>10

\* CREATED arrives on connection i, where no other is.
LEMMA PutCreated ==
  ASSUME NEW i \in Hops, NEW c \in Pubs, NEW U \in [Hops -> Seq(Pubs)],
         \A j \in Hops : U[j] = <<>>, up' = PutUp(U, i, c)
  PROVE  \A j \in Hops : /\ up'[j] \in {<<>>, <<c>>}
                         /\ Back(j)' => j = i /\ ~botShut[i]
<1>1. Append(<<>>, c) = <<c>>
  OBVIOUS
<1> QED
  BY <1>1 DEF PutUp, Back

\* A relay passes CREATED on.
LEMMA StepForwardCreated ==
  ASSUME BuildInv, NEW i \in Hops, ForwardCreated(i)
  PROVE  Frame /\ Proper' /\ Unique' /\ Moves
<1> USE DEF client, wires, relays
<1> DEFINE d == st[i].down
           U == [up EXCEPT ![d] = Tail(@)]
<1>1. /\ pc = [j \in Hops |-> pc[j]] /\ hop \in Hops /\ up \in [Hops -> Seq(Pubs)]
      /\ pc[i] = "wait" /\ UNCHANGED <<phase, hop, ckey, dn, topShut, botShut, table, st, job>>
      /\ pc' = [pc EXCEPT ![i] = "read"]
  BY DEF ForwardCreated, BuildInv, TypeOK
<1>2. Frame
  BY <1>1 DEF Frame
<1>3. d \in Hops /\ Back(d)
  BY <1>1 DEF BuildInv, Proper, ForwardCreated, Back
<1>4. up[d] = <<Created(hop, hop)>>
  BY <1>3 DEF BuildInv, Proper, Back
<1>5. Created(hop, hop) \in Pubs
  BY <1>1, MessageTypes DEF Hops
<1>6. \A j \in Hops : j # d => up[j] = <<>>
  BY <1>3 DEF BuildInv, Unique, Back
<1>7. Head(<<Created(hop, hop)>>) = Created(hop, hop) /\ Tail(<<Created(hop, hop)>>) = <<>>
  OBVIOUS
<1>8. U \in [Hops -> Seq(Pubs)] /\ \A j \in Hops : U[j] = <<>>
  BY <1>1, <1>3, <1>4, <1>6, <1>7
<1>9. up' = PutUp(U, i, Created(hop, hop))
  BY <1>4, <1>7 DEF ForwardCreated
<1>10. \A j \in Hops : up'[j] \in {<<>>, <<Created(hop, hop)>>} /\ (Back(j)' => j = i)
  <2> HIDE DEF U
  <2> QED
    BY <1>5, <1>8, <1>9, PutCreated
<1>11. \A j \in Hops : /\ Sent(j)' <=> Sent(j)
                       /\ Held(j)' <=> Held(j)
                       /\ pc'[j] = "wait" => pc[j] = "wait"
  BY <1>1 DEF Sent, Held
<1>12. \A j \in Hops : At(j)' <=> At(j)
  BY <1>11 DEF At
<1>13. Unique' /\ Moves
  BY <1>3, <1>10, <1>11, <1>12 DEF BuildInv, Unique, Moves
<1>14. Proper'
  BY <1>1, <1>10, <1>11, <1>12 DEF BuildInv, Proper
<1> QED
  BY <1>2, <1>13, <1>14
-----------------------------------------------------------------------------
(***************************************************************************)
(* The two steps that change what the keys are.                            *)
(***************************************************************************)
\* A relay without an entry makes one: for its own EXTEND, or, once its entry has been
\* collected, for that of a later hop, which it cannot answer any more.
LEMMA StepNewEntry ==
  ASSUME BuildInv, NEW i \in Hops, ExtendLast(i) \/ ExtendDialled(i)
  PROVE  Proper' /\ Unique' /\ Pending' /\ InOrder' /\ Regulars' /\ ClientKeys'
<1> USE DEF client, wires, relays
<1>1. /\ pc = [j \in Hops |-> pc[j]] /\ hop \in Hops /\ up \in [Hops -> Seq(Pubs)]
      /\ table \subseteq Hops /\ st = [j \in Hops |-> st[j]]
  BY DEF BuildInv, TypeOK
<1>2. /\ NewEntry(i) /\ Held(i)
      /\ UNCHANGED <<phase, hop, ckey, dn, topShut, botShut, job>>
      /\ pc'[i] = "read" /\ \A j \in Hops : pc'[j] \in {pc[j], "read"}
  <2>1. CASE ExtendLast(i)
    BY <1>1, <2>1 DEF ExtendLast, Held
  <2>2. CASE ExtendDialled(i)
    BY <1>1, <2>2 DEF ExtendDialled, DialledPc, Held
  <2> QED
    BY <2>1, <2>2
<1>3. i \notin table
  BY DEF ExtendLast, ExtendDialled, BuildInv, Dialling
<1>4. At(i) /\ job[i] = hop /\ i <= hop
  BY <1>2 DEF At, BuildInv, Proper
<1>5. \A j \in Hops : ~Sent(j) /\ up[j] = <<>> /\ (Held(j) => j = i)
  BY <1>2, <1>4 DEF At, Back, BuildInv, Unique, Pending
<1>6. \A j \in Hops : ~Sent(j)' /\ ~Held(j)' /\ ~At(j)'
  BY <1>2, <1>5 DEF At, Sent, Held
<1>7. Created(i, hop) \in Pubs
  BY <1>1, MessageTypes DEF Hops
<1>8. /\ table' = table \cup {i} /\ up' = PutUp(up, i, Created(i, hop))
      /\ st' = [st EXCEPT ![i] = [key |-> Key(hop, Created(i, hop)), down |-> NextHop(hop)]]
  BY <1>2, <1>4 DEF NewEntry
<1>9. \A j \in Hops : up'[j] \in {<<>>, <<Created(i, hop)>>} /\ (Back(j)' => j = i /\ ~botShut[i])
  BY <1>1, <1>5, <1>7, <1>8, PutCreated
<1>10. phase \in {"wait", "failed"}
  BY <1>4 DEF BuildInv, Pending
<1>11. Pending' /\ Unique'
  BY <1>2, <1>6, <1>9, <1>10 DEF Pending, Unique
<1>12. ClientKeys'
  BY <1>2 DEF BuildInv, ClientKeys
<1>13. i # hop => botShut[i]
  <2>1. i # hop => i < hop
    BY <1>1, <1>4 DEF Hops
  <2> QED
    BY <1>3, <2>1 DEF BuildInv, InOrder, Had
<1>14. \A j \in Hops : (Had(j) => Had(j)') /\ Had(i)'
  BY <1>2, <1>8 DEF Had
<1>15. InOrder'
  <2>1. \A j \in table' : j <= hop
    BY <1>4, <1>8 DEF BuildInv, InOrder
  <2>2. \A j \in Hops : j < hop' => Had(j)'
    <3>1. \A j \in Hops : j < hop => Had(j)
      BY DEF BuildInv, InOrder
    <3> QED
      BY <1>2, <1>14, <3>1
  <2>3. (\E j \in Hops : Back(j)') => Had(hop)'
    BY <1>2, <1>9, <1>13, <1>14
  <2> QED
    BY <1>2, <1>6, <1>10, <2>1, <2>2, <2>3 DEF InOrder
<1>16. Regulars'
  <2>1. CASE i = hop
    <3>1. \A j \in table : Regular(j)
      BY <1>4 DEF BuildInv, Regulars
    <3>2. \A j \in Hops : j # i => st'[j] = st[j]
      BY <1>1, <1>8
    <3>3. st'[i] = [key |-> Key(i, Created(i, i)), down |-> NextHop(i)]
      BY <1>1, <1>8, <2>1
    <3>4. \A j \in table' : Regular(j)'
      BY <1>1, <1>8, <3>1, <3>2, <3>3 DEF Regular
    <3> QED
      BY <3>4 DEF Regulars
  <2>2. CASE i # hop
    BY <1>2, <1>6, <1>9, <1>10, <1>13, <2>2 DEF Regulars
  <2> QED
    BY <2>1, <2>2
<1>17. Proper'
  <2>1. up'[i] \in {<<>>, <<Created(hop, hop)>>}
    BY <1>9, <1>13 DEF Back
  <2>2. \A j \in Hops : up'[j] \in {<<>>, <<Created(hop, hop)>>}
    BY <1>9, <2>1 DEF Back
  <2>3. \A j \in Hops : pc'[j] = "wait" => j # i /\ pc[j] = "wait"
    BY <1>2
  <2>4. \A j \in Hops : pc'[j] = "wait" => st'[j].down \in Hops
    BY <1>1, <1>8, <2>3 DEF BuildInv, Proper
  <2> QED
    BY <1>2, <1>6, <2>2, <2>4 DEF BuildInv, Proper
<1> QED
  BY <1>11, <1>12, <1>15, <1>16, <1>17

\* The client derives the key of hop from CREATED.
LEMMA StepWaitForCreated ==
  ASSUME BuildInv, WaitForCreated
  PROVE  Proper' /\ Unique' /\ Pending' /\ InOrder' /\ Regulars' /\ ClientKeys'
<1> USE DEF client, wires, relays
<1>1. /\ hop \in Hops /\ up \in [Hops -> Seq(Pubs)] /\ table \subseteq Hops /\ 1 \in Hops
      /\ ckey = [j \in Hops |-> ckey[j]]
  BY DEF BuildInv, TypeOK, Hops
<1>2. /\ phase = "wait" /\ Back(1)
      /\ UNCHANGED <<dn, topShut, botShut, table, st, pc, job>>
  BY DEF WaitForCreated, Back
<1>3. \/ hop = N /\ phase' = "built" /\ hop' = hop
      \/ hop # N /\ phase' = "send" /\ hop' = hop + 1
  BY DEF WaitForCreated, LastHop
<1>4. hop' \in Hops /\ hop <= hop'
  BY <1>1, <1>3 DEF Hops
<1>5. up[1] = <<Created(hop, hop)>>
  BY <1>1, <1>2 DEF BuildInv, Proper, Back
<1>6. Head(<<Created(hop, hop)>>) = Created(hop, hop) /\ Tail(<<Created(hop, hop)>>) = <<>>
  OBVIOUS
<1>7. ckey' = [ckey EXCEPT ![hop] = Key(hop, Created(hop, hop))]
  BY <1>5, <1>6 DEF WaitForCreated
<1>8. \A j \in Hops : up'[j] = <<>>
  <2>1. \A j \in Hops : j # 1 => up[j] = <<>>
    BY <1>1, <1>2 DEF BuildInv, Unique, Back
  <2>2. up' = [up EXCEPT ![1] = Tail(@)]
    BY DEF WaitForCreated
  <2> QED
    BY <1>1, <1>5, <1>6, <2>1, <2>2
<1>9. \A j \in Hops : ~At(j) /\ ~At(j)' /\ ~Back(j)'
  BY <1>1, <1>2, <1>8 DEF At, Sent, Held, Back, BuildInv, Pending
<1>10. Pending' /\ Unique'
  BY <1>9 DEF Pending, Unique, At
<1>11. Proper'
  <2>1. \A j \in Hops : dn[j] = <<>> \/ (topShut[j] /\ dn[j] = <<Teardown>>)
    <3> TAKE j \in Hops
    <3>1. dn[j] \in {<<>>, <<hop>>} \/ (topShut[j] /\ dn[j] \in {<<Teardown>>, <<hop, Teardown>>})
      BY DEF BuildInv, Proper
    <3>2. ~Sent(j)
      BY <1>9 DEF At
    <3>3. dn[j] \notin {<<hop>>, <<hop, Teardown>>}
      BY <1>1, <3>1, <3>2, DownContents DEF Sent
    <3> QED
      BY <3>1, <3>3
  <2>2. \A j \in Hops : Held(j)' => FALSE
    BY <1>9 DEF At
  <2> QED
    BY <1>2, <1>8, <1>9, <2>1, <2>2 DEF BuildInv, Proper
<1>12. InOrder'
  <2>1. Had(hop)
    BY <1>1, <1>2 DEF BuildInv, InOrder
  <2>2. \A j \in Hops : Had(j)' <=> Had(j)
    BY <1>2 DEF Had
  <2>3. \A j \in Hops : j < hop' => j < hop \/ j = hop
    BY <1>1, <1>3 DEF Hops
  <2>4. \A j \in Hops : j < hop' => Had(j)'
    BY <2>1, <2>2, <2>3 DEF BuildInv, InOrder
  <2>5. \A j \in table' : j <= hop' /\ (hop' # hop => j # hop')
    <3>1. \A j \in table : j \in Hops /\ j <= hop
      BY <1>1 DEF BuildInv, InOrder
    <3> QED
      BY <1>1, <1>2, <1>3, <3>1 DEF Hops
  <2>6. hop' \in table' => phase' \notin {"dial", "send"}
    BY <1>1, <1>3, <2>5 DEF Hops
  <2> QED
    BY <1>9, <2>4, <2>5, <2>6 DEF InOrder
<1>13. Regulars'
  <2>1. \A j \in table : Regular(j)
    BY <1>1, <1>2 DEF BuildInv, Regulars
  <2> QED
    BY <1>2, <2>1 DEF Regulars, Regular
<1>14. ClientKeys'
  <2>1. \A j \in Hops : (j < hop' \/ phase' = "built") <=> (j < hop \/ j = hop)
    BY <1>1, <1>3 DEF Hops
  <2>2. \A j \in Hops : ckey'[j] = IF j = hop THEN Key(j, Created(j, j)) ELSE ckey[j]
    BY <1>1, <1>7
  <2>3. \A j \in Hops : ckey[j] = IF j < hop THEN Key(j, Created(j, j)) ELSE NoKey
    BY <1>2 DEF BuildInv, ClientKeys
  <2>4. \A j \in Hops : ckey'[j] = IF j < hop' \/ phase' = "built" THEN Key(j, Created(j, j)) ELSE NoKey
    BY <2>1, <2>2, <2>3
  <2>5. phase' = "built" => hop' = N
    BY <1>3
  <2> QED
    BY <2>4, <2>5 DEF ClientKeys
<1> QED
  BY <1>10, <1>11, <1>12, <1>13, <1>14
-----------------------------------------------------------------------------
(***************************************************************************)
(* The invariant, and the property.                                        *)
(***************************************************************************)
\* Only Extend starts a dial, and only NewEntry, which ends one, makes an entry.
LEMMA StepDialling ==
  ASSUME BuildInv, [Next]_vars
  PROVE  Dialling'
<1> USE DEF client, wires, relays
<1>1. pc = [j \in Hops |-> pc[j]] /\ \A j \in Hops : pc[j] = "dial" => j \notin table
  BY DEF BuildInv, TypeOK, Dialling
<1>2. CASE Build \/ DialRefused \/ DialTimeout \/ LateDial \/ Deadline
  <2>1. table' = table /\ \A j \in Hops : pc'[j] \in {pc[j], "read"}
    BY <1>1, <1>2 DEF Build, Dial, SendExtend, WaitForCreated, WaitEOF, DialRefused,
                      DialTimeout, LateDial, Deadline
  <2> QED
    BY <1>1, <2>1 DEF Dialling
<1>3. ASSUME NEW i \in Hops, ServeConn(i) \/ ExtendRefused(i) \/ Expire(i)
      PROVE  Dialling'
  <2>1. CASE Extend(i)
    BY <1>1, <2>1 DEF Extend, Dialling
  <2>2. CASE ExtendLast(i) \/ ExtendDialled(i)
    <3>1. table' = table \cup {i} /\ pc'[i] = "read"
      BY <1>1, <2>2 DEF ExtendLast, ExtendDialled, DialledPc, NewEntry
    <3>2. \A j \in Hops : pc'[j] \in {pc[j], "read"}
      BY <1>1, <2>2 DEF ExtendLast, ExtendDialled, DialledPc
    <3> QED
      BY <1>1, <3>1, <3>2 DEF Dialling
  <2>3. CASE ReadCell(i) \/ ServeStop(i) \/ ForwardExtend(i) \/ ForwardCreated(i)
               \/ ForwardEOF(i) \/ ExtendRefused(i) \/ Expire(i)
    <3>1. table' \subseteq table
      BY <2>3 DEF ReadCell, ServeStop, ForwardExtend, ForwardCreated, ForwardEOF,
                  ExtendRefused, Expire
    <3>2. \A j \in Hops : pc'[j] = "dial" => pc[j] = "dial"
      BY <1>1, <2>3 DEF ReadCell, ServeStop, ForwardExtend, ForwardCreated, ForwardEOF,
                        ExtendRefused, Expire
    <3> QED
      BY <1>1, <3>1, <3>2 DEF Dialling
  <2> QED
    BY <1>3, <2>1, <2>2, <2>3 DEF ServeConn
<1>4. CASE UNCHANGED vars
  BY <1>1, <1>4 DEF vars, Dialling
<1> QED
  BY <1>2, <1>3, <1>4 DEF Next

\* The invariant holds at the start.
LEMMA InvInit == Init => BuildInv
<1> SUFFICES ASSUME Init PROVE BuildInv
  OBVIOUS
<1>1. 1 \in Hops /\ 0 \in 0..N /\ NoKey \in Keys
  BY DEF Hops, NoKey, Key, Keys, Pubs, Created
<1>2. TypeOK
  <2>1. <<>> \in Seq(0..N) /\ <<>> \in Seq(Pubs)
    OBVIOUS
  <2>2. dn \in [Hops -> Seq(0..N)] /\ up \in [Hops -> Seq(Pubs)]
    BY <2>1 DEF Init
  <2>3. st \in [Hops -> [key : Keys, down : 0..N]] /\ ckey \in [Hops -> Keys]
    BY <1>1 DEF Init
  <2> QED
    BY <1>1, <2>2, <2>3 DEF Init, TypeOK
<1>3. \A j \in Hops : ~Sent(j) /\ ~Held(j) /\ ~At(j) /\ ~Back(j)
  BY DEF Init, Sent, Held, At, Back
<1>4. Proper /\ Unique /\ Pending /\ Dialling
  BY <1>3 DEF Init, Proper, Unique, Pending, Dialling
<1>5. InOrder /\ Regulars /\ ClientKeys
  BY <1>1, <1>3 DEF Init, InOrder, Regulars, ClientKeys, Hops
<1> QED
  BY <1>2, <1>4, <1>5 DEF BuildInv

\* Every step keeps it.
LEMMA InvNext == BuildInv /\ [Next]_vars => BuildInv'
<1> SUFFICES ASSUME BuildInv, [Next]_vars PROVE BuildInv'
  OBVIOUS
<1>1. Dialling'
  BY StepDialling
<1>2. ASSUME Frame /\ Proper' /\ Unique' /\ Moves, TypeOK' PROVE BuildInv'
  BY <1>1, <1>2, Carry DEF BuildInv
<1>3. ASSUME Proper' /\ Unique' /\ Pending' /\ InOrder' /\ Regulars' /\ ClientKeys', TypeOK'
      PROVE  BuildInv'
  BY <1>1, <1>3 DEF BuildInv
<1>4. TypeOK /\ Proper /\ 1 \in Hops
  BY DEF BuildInv, Hops
<1>5. CASE Build \/ DialRefused \/ DialTimeout \/ LateDial \/ Deadline
  <2>1. TypeOK'
    BY <1>4, <1>5, TypeClient
  <2>2. CASE Dial \/ DialRefused \/ DialTimeout \/ LateDial
    BY <1>2, <1>4, <2>1, <2>2, StepQuiet
  <2>3. CASE SendExtend
    BY <1>2, <2>1, <2>3, StepSendExtend
  <2>4. CASE WaitForCreated
    BY <1>3, <2>1, <2>4, StepWaitForCreated
  <2>5. CASE WaitEOF \/ Deadline
    <3>1. /\ Abort /\ phase \in {"send", "wait"}
          /\ UNCHANGED <<hop, ckey, late, botShut, table, st, pc, job>>
      BY <2>5 DEF WaitEOF, Deadline, relays
    <3> QED
      BY <1>2, <2>1, <3>1, StepAbort
  <2> QED
    BY <1>5, <2>2, <2>3, <2>4, <2>5 DEF Build
<1>6. ASSUME NEW i \in Hops, ServeConn(i) \/ ExtendRefused(i) \/ Expire(i)
      PROVE  BuildInv'
  <2>1. TypeOK'
    BY <1>4, <1>6, TypeServeConn, TypeExpire
  <2>2. CASE ServeStop(i) \/ Extend(i) \/ ExtendRefused(i) \/ ForwardEOF(i) \/ Expire(i)
    BY <1>2, <2>1, <2>2, StepQuiet
  <2>3. CASE ReadCell(i)
    BY <1>2, <2>1, <2>3, StepReadCell
  <2>4. CASE ExtendLast(i) \/ ExtendDialled(i)
    BY <1>3, <2>1, <2>4, StepNewEntry
  <2>5. CASE ForwardExtend(i)
    BY <1>2, <2>1, <2>5, StepForwardExtend
  <2>6. CASE ForwardCreated(i)
    BY <1>2, <2>1, <2>6, StepForwardCreated
  <2> QED
    BY <1>6, <2>2, <2>3, <2>4, <2>5, <2>6 DEF ServeConn
<1>7. CASE UNCHANGED vars
  BY <1>7 DEF vars, client, wires, relays, BuildInv, TypeOK, Proper, Unique, Pending, Dialling,
              InOrder, Regulars, ClientKeys, Had, Regular, At, Sent, Held, Back
<1> QED
  BY <1>5, <1>6, <1>7 DEF Next

\* The invariant says it: the client's keys are those of ClientKeys, and when the
\* circuit is built no EXTEND or CREATED is left to make an irregular entry.
LEMMA InvKeysAgree == BuildInv => KeysAgree
<1> SUFFICES ASSUME BuildInv PROVE KeysAgree
  OBVIOUS
<1>1. \A i \in Hops : ckey[i] \in {NoKey, Key(i, Created(i, i))}
  BY DEF BuildInv, ClientKeys
<1>2. ASSUME phase = "built", NEW i \in Hops
      PROVE  /\ ckey[i] # NoKey
             /\ i \in table => st[i] = [key |-> ckey[i], down |-> NextHop(i)]
  <2>1. ckey[i] = Key(i, Created(i, i))
    BY <1>2 DEF BuildInv, ClientKeys
  <2>2. Key(i, Created(i, i)) # NoKey
    BY DEF NoKey, Key, Hops
  <2>3. i \in table => Regular(i)
    BY <1>2 DEF BuildInv, Regulars
  <2> QED
    BY <2>1, <2>2, <2>3 DEF Regular
<1> QED
  BY <1>1, <1>2 DEF KeysAgree

\* BuildInv is an invariant of the construction, for every number of hops.
THEOREM BuildCorrect == Spec => []BuildInv
BY InvInit, InvNext, PTL DEF Spec

\* The client and the relays agree on the keys and on the route: whatever the
\* interleaving of the relays' goroutines and of gc with the client's build.
THEOREM BuildKeysAgree == Spec => []KeysAgree
<1>1. BuildInv => KeysAgree
  BY InvKeysAgree
<1> QED
  BY <1>1, BuildCorrect, PTL
-----------------------------------------------------------------------------
(***************************************************************************)
(* What is left of a construction.                                         *)
(***************************************************************************)
\* A step that makes no entry leaves a trace of each that it takes away.
LEMMA CarryClosings ==
  ASSUME ReadyInv, Frame, Moves,
         Closed' => Closed \/ phase' = "failed" \/ \E i \in table : i \notin table'
  PROVE  Closings'
<1> USE DEF Frame
<1>1. hop \in Hops /\ table \subseteq Hops
  BY DEF ReadyInv, BuildInv, TypeOK
<1>2. phase = "failed" => phase' = "failed"
  OBVIOUS
<1>3. ASSUME NEW i \in Hops, Lost(i) PROVE Lost(i)'
  <2>1. i \notin table' /\ botShut'[i] /\ i <= hop'
    BY <1>1, <1>3 DEF Lost
  <2>2. i = hop => phase' \notin {"dial", "send"}
    BY <1>3 DEF Lost
  <2>3. i = hop => \A j \in Hops : ~At(j)'
    BY <1>3 DEF Lost, Moves
  <2> QED
    BY <2>1, <2>2, <2>3 DEF Lost
<1>4. ASSUME NEW i \in table, i \notin table' PROVE Lost(i)'
  <2>1. botShut'[i] /\ i <= hop'
    BY <1>4 DEF ReadyInv, BuildInv, InOrder
  <2>2. i = hop => phase \notin {"dial", "send"} /\ \A j \in Hops : ~At(j)
    BY <1>4 DEF ReadyInv, BuildInv, InOrder
  <2>3. i = hop => phase' \notin {"dial", "send"}
    BY <2>2
  <2>4. i = hop => \A j \in Hops : ~At(j)'
    BY <2>2 DEF Moves
  <2> QED
    BY <1>4, <2>1, <2>3, <2>4 DEF Lost
<1>5. ASSUME NEW i \in table, ~Regular(i)
      PROVE  Lost(i)' \/ (i \in table' /\ ~Regular(i)')
  <2>1. CASE i \in table'
    BY <1>5, <2>1 DEF Regular
  <2>2. CASE i \notin table'
    BY <1>4, <2>2
  <2> QED
    BY <2>1, <2>2
<1>6. CASE Closed
  BY <1>1, <1>2, <1>3, <1>5, <1>6 DEF ReadyInv, Closings
<1>7. CASE phase' = "failed"
  BY <1>7 DEF Closings
<1>8. CASE \E i \in table : i \notin table'
  BY <1>1, <1>4, <1>8 DEF Closings
<1> QED
  BY <1>6, <1>7, <1>8 DEF Closings

\* A relay that makes an entry makes an irregular one where one was lost.
LEMMA NewEntryClosings ==
  ASSUME ReadyInv, NEW i \in Hops, ExtendLast(i) \/ ExtendDialled(i), InOrder'
  PROVE  Closings'
<1> USE DEF client, wires, relays
<1>1. /\ hop \in Hops /\ table \subseteq Hops /\ st = [j \in Hops |-> st[j]] /\ i \notin table
  BY DEF ReadyInv, BuildInv, TypeOK, ExtendLast, ExtendDialled, Dialling
<1>2. /\ NewEntry(i) /\ Held(i) /\ UNCHANGED <<phase, hop, topShut, botShut>>
  BY DEF ExtendLast, ExtendDialled, Held
<1>3. At(i) /\ job[i] = hop
  BY <1>2 DEF At, ReadyInv, BuildInv, Proper
<1>4. /\ table' = table \cup {i}
      /\ st' = [st EXCEPT ![i] = [key |-> Key(hop, Created(i, hop)), down |-> NextHop(hop)]]
  BY <1>2, <1>3 DEF NewEntry
<1>5. \A j \in table : Regular(j)
  BY <1>3 DEF ReadyInv, BuildInv, Regulars
<1>6. ASSUME NEW j \in Hops, Lost(j) PROVE Lost(j)' \/ ~Regular(i)'
  <2>1. j < hop /\ j # hop
    BY <1>1, <1>3, <1>6 DEF Lost, Hops
  <2>2. CASE j = i
    <3>1. st'[i].key.client = hop
      BY <1>1, <1>4 DEF Key
    <3>2. Regular(i)' => st'[i].key.client = i
      BY DEF Regular, Key
    <3> QED
      BY <2>1, <2>2, <3>1, <3>2
  <2>3. CASE j # i
    BY <1>2, <1>4, <1>6, <2>1, <2>3 DEF Lost
  <2> QED
    BY <2>2, <2>3
<1>7. Closed' => Closed
  BY <1>2 DEF Closed
<1>8. i \in table'
  BY <1>4
<1>9. CASE phase = "failed"
  BY <1>2, <1>9 DEF Closings
<1>10. CASE \E j \in Hops : Lost(j)
  BY <1>6, <1>8, <1>10 DEF Closings
<1> QED
  BY <1>5, <1>7, <1>9, <1>10 DEF ReadyInv, Closings

\* Of the relays the client has keys with, those without an entry have lost it.
LEMMA WaitForCreatedClosings ==
  ASSUME ReadyInv, WaitForCreated
  PROVE  Closings'
<1> USE DEF client, wires, relays
<1>1. hop \in Hops /\ 1 \in Hops /\ table \subseteq Hops
  BY DEF ReadyInv, BuildInv, TypeOK, Hops
<1>2. /\ phase = "wait" /\ Back(1)
      /\ UNCHANGED <<dn, topShut, botShut, table, st, pc, job>>
  BY DEF WaitForCreated, Back
<1>3. \/ hop = N /\ phase' = "built" /\ hop' = hop
      \/ hop # N /\ phase' = "send" /\ hop' = hop + 1
  BY DEF WaitForCreated, LastHop
<1>4. \A j \in table : Regular(j)
  BY <1>1, <1>2 DEF ReadyInv, BuildInv, Regulars
<1>5. \A j \in Hops : ~At(j) /\ ~At(j)'
  BY <1>1, <1>2 DEF At, Sent, Held, ReadyInv, BuildInv, Pending
<1>6. ASSUME NEW j \in Hops, Lost(j) PROVE Lost(j)'
  <2>1. j <= hop' /\ (j = hop' => hop' = hop)
    BY <1>1, <1>3, <1>6 DEF Lost, Hops
  <2>2. j = hop' => phase' \notin {"dial", "send"}
    BY <1>1, <1>3, <2>1 DEF Hops
  <2> QED
    BY <1>2, <1>5, <1>6, <2>1, <2>2 DEF Lost
<1> QED
  BY <1>2, <1>4, <1>6 DEF ReadyInv, Closings, Closed

\* The messages of a construction do not turn back, or nobody waits for them.
LEMMA CarryWaits ==
  ASSUME Waits, Closed => Closed', phase = "failed" => phase' = "failed",
         \A i \in Hops : pc'[i] = "wait" => pc[i] = "wait",
         \/ Closed' \/ phase' = "failed" \/ Stalled'
         \/ /\ ~Stalled
            /\ \A i, j \in Hops : pc'[i] = "wait" /\ i < j /\ (At(j) \/ Back(j)) =>
                 \E k \in Hops : i < k /\ (At(k)' \/ Back(k)')
  PROVE  Waits'
<1> SUFFICES ASSUME NEW i \in Hops, pc'[i] = "wait",
                    phase' # "failed", ~Closed', ~Stalled'
             PROVE  \E k \in Hops : i < k /\ (At(k)' \/ Back(k)')
  BY DEF Waits
<1>1. phase # "failed" /\ ~Closed /\ ~Stalled /\ pc[i] = "wait"
  OBVIOUS
<1> QED
  BY <1>1 DEF Waits

\* What is closed stays so.
LEMMA StaysClosed ==
  ASSUME \A j \in Hops : (topShut[j] => topShut'[j]) /\ (botShut[j] => botShut'[j])
  PROVE  Closed => Closed'
BY DEF Closed

\* The dial, the client's reads, and its giving up.
LEMMA WaitsClient ==
  ASSUME ReadyInv, Build \/ DialRefused \/ DialTimeout \/ LateDial \/ Deadline
  PROVE  Waits'
<1> USE DEF client, wires, relays
<1>1. /\ pc = [j \in Hops |-> pc[j]] /\ topShut = [j \in Hops |-> topShut[j]] /\ 1 \in Hops
      /\ hop \in Hops /\ up \in [Hops -> Seq(Pubs)]
  BY DEF ReadyInv, BuildInv, TypeOK, Hops
<1>2. Closed => Closed'
  <2>1. \A j \in Hops : (topShut[j] => topShut'[j]) /\ botShut' = botShut
    BY <1>1 DEF Build, Dial, SendExtend, WaitForCreated, WaitEOF, Abort, DialRefused,
                DialTimeout, LateDial, Deadline
  <2> QED
    BY <2>1, StaysClosed
<1>3. phase = "failed" => phase' = "failed"
  BY DEF Build, Dial, SendExtend, WaitForCreated, WaitEOF, Abort, DialRefused,
         DialTimeout, LateDial, Deadline
<1>4. \A j \in Hops : pc'[j] = "wait" => pc[j] = "wait"
  BY <1>1 DEF Build, Dial, SendExtend, WaitForCreated, WaitEOF, DialRefused,
              DialTimeout, LateDial, Deadline
<1>5. CASE phase \in {"dial", "send"}
  <2>1. \A j \in Hops : ~At(j) /\ ~Back(j)
    BY <1>5 DEF ReadyInv, BuildInv, Pending
  <2> QED
    BY <1>2, <1>3, <1>4, <1>5, <2>1, CarryWaits DEF ReadyInv, Stalled
<1>6. CASE WaitForCreated
  <2>1. phase = "wait" /\ Back(1)
    BY <1>6 DEF WaitForCreated, Back
  <2>2. \A i, j \in Hops : i < j => ~(At(j) \/ Back(j))
    <3>1. \A j \in Hops : At(j) \/ Back(j) => j = 1
      BY <1>1, <2>1 DEF ReadyInv, BuildInv, Unique, Pending
    <3> QED
      BY <3>1 DEF Hops
  <2> QED
    BY <1>1, <1>2, <1>3, <1>4, <2>1, <2>2, CarryWaits DEF ReadyInv, Stalled
<1>7. CASE WaitEOF \/ Deadline \/ LateDial
  <2>1. phase' = "failed"
    BY <1>7 DEF WaitEOF, Deadline, Abort, LateDial, ReadyInv, Serving
  <2> QED
    BY <1>2, <1>3, <1>4, <2>1, CarryWaits DEF ReadyInv
<1> QED
  BY <1>5, <1>6, <1>7 DEF Build, Dial, SendExtend, DialRefused, DialTimeout

\* The steps of a relay that keep EXTEND where it is, or lose it.
LEMMA WaitsQuiet ==
  ASSUME ReadyInv, NEW i \in Hops,
         \/ ReadCell(i) \/ ServeStop(i) \/ Extend(i) \/ ExtendRefused(i)
         \/ ForwardEOF(i) \/ Expire(i)
  PROVE  Waits'
<1> USE DEF client, wires, relays
<1>1. /\ pc = [j \in Hops |-> pc[j]] /\ botShut = [j \in Hops |-> botShut[j]]
      /\ topShut = [j \in Hops |-> topShut[j]] /\ dn \in [Hops -> Seq(0..N)]
      /\ \A j \in Hops : pc[j] = "wait" => st[j].down \in Hops
  BY DEF ReadyInv, BuildInv, TypeOK, Proper
<1>2. Closed => Closed'
  <2>1. \A j \in Hops : (topShut[j] => topShut'[j]) /\ (botShut[j] => botShut'[j])
    BY <1>1 DEF ReadCell, ServeStop, Extend, ExtendRefused, ForwardEOF, Expire, Close
  <2> QED
    BY <2>1, StaysClosed
<1>3. phase' = phase
  BY DEF ReadCell, ServeStop, Extend, ExtendRefused, ForwardEOF, Expire
<1>4. \A j \in Hops : pc'[j] = "wait" => pc[j] = "wait"
  BY <1>1 DEF ReadCell, ServeStop, Extend, ExtendRefused, ForwardEOF, Expire
<1>5. CASE ServeStop(i) \/ Expire(i)
  <2>1. botShut'[i]
    BY <1>1, <1>5 DEF ServeStop, Expire, Close
  <2> QED
    BY <1>2, <1>3, <1>4, <2>1, CarryWaits DEF ReadyInv, Closed
<1>6. CASE ForwardEOF(i)
  <2>1. Closed /\ phase' = phase
    BY <1>1, <1>3, <1>6 DEF ForwardEOF, Closed
  <2> QED
    BY <1>2, <1>3, <1>4, <2>1, CarryWaits DEF ReadyInv
<1>7. CASE ReadCell(i) \/ Extend(i)
  <2>1. At(i) /\ Held(i)' /\ up' = up
    BY <1>1, <1>7 DEF ReadCell, Extend, At, Sent, Held
  <2>2. \A j \in Hops : j # i => ~At(j)
    BY <2>1 DEF ReadyInv, BuildInv, Unique
  <2>3. \A j \in Hops : At(j) \/ Back(j) => At(j)' \/ Back(j)'
    BY <2>1, <2>2 DEF At, Back
  <2> QED
    BY <1>2, <1>3, <1>4, <2>1, <2>3, CarryWaits DEF ReadyInv, Stalled
<1>8. CASE ExtendRefused(i)
  <2>1. Held(i) /\ UNCHANGED <<dn, up>> /\ pc'[i] = "read" /\ \A j \in Hops : j # i => pc'[j] = pc[j]
    BY <1>1, <1>8 DEF ExtendRefused, Held
  <2>2. /\ \A j \in Hops : ~Back(j) /\ ~Sent(j) /\ (j # i => ~Held(j))
        /\ phase \in {"wait", "failed"}
    BY <2>1 DEF ReadyInv, BuildInv, Unique, Pending, At
  <2>3. \A j \in Hops : ~At(j)' /\ ~Back(j)'
    BY <2>1, <2>2 DEF At, Sent, Held, Back
  <2>4. phase' = "failed" \/ Stalled'
    BY <1>3, <2>2, <2>3 DEF Stalled
  <2> QED
    BY <1>2, <1>3, <1>4, <2>4, CarryWaits DEF ReadyInv
<1> QED
  BY <1>5, <1>6, <1>7, <1>8

\* CREATED starts back from the relay that held EXTEND.
LEMMA SendsCreated ==
  ASSUME ReadyInv, NEW i \in Hops, ExtendLast(i) \/ ExtendDialled(i)
  PROVE  /\ At(i) /\ UNCHANGED <<phase, topShut, botShut>>
         /\ Closed' \/ Back(i)'
<1> USE DEF client, wires, relays
<1>1. up \in [Hops -> Seq(Pubs)] /\ job[i] \in 0..N
  BY DEF ReadyInv, BuildInv, TypeOK
<1>2. /\ Held(i) /\ UNCHANGED <<phase, topShut, botShut>>
      /\ up' = PutUp(up, i, Created(i, job[i]))
  BY DEF ExtendLast, ExtendDialled, Held, NewEntry
<1>3. CASE topShut[i] \/ botShut[i]
  BY <1>2, <1>3 DEF At, Closed
<1>4. CASE ~(topShut[i] \/ botShut[i])
  <2>1. up'[i] = Append(up[i], Created(i, job[i]))
    BY <1>1, <1>2, <1>4 DEF PutUp
  <2>2. Created(i, job[i]) \in Pubs /\ up[i] \in Seq(Pubs)
    BY <1>1, MessageTypes
  <2>3. up'[i] # <<>>
    BY <2>1, <2>2
  <2> QED
    BY <1>2, <2>3 DEF At, Back
<1> QED
  BY <1>3, <1>4

LEMMA WaitsNewEntry ==
  ASSUME ReadyInv, NEW i \in Hops, ExtendLast(i) \/ ExtendDialled(i)
  PROVE  Waits'
<1> USE DEF client, wires, relays
<1>1. pc = [j \in Hops |-> pc[j]]
  BY DEF ReadyInv, BuildInv, TypeOK
<1>2. \A j \in Hops : pc'[j] \in {pc[j], "read"}
  BY <1>1 DEF ExtendLast, ExtendDialled, DialledPc
<1>3. At(i) /\ UNCHANGED <<phase, topShut, botShut>> /\ (Closed' \/ Back(i)')
  BY SendsCreated
<1>4. \A j \in Hops : At(j) \/ Back(j) => j = i
  BY <1>3 DEF ReadyInv, BuildInv, Unique, Pending
<1>5. Closed => Closed'
  BY <1>3, StaysClosed
<1> QED
  BY <1>2, <1>3, <1>4, <1>5, CarryWaits DEF ReadyInv, Stalled

\* A relay passes EXTEND on to the next hop, and waits.
LEMMA PassesExtend ==
  ASSUME ReadyInv, NEW i \in Hops, ForwardExtend(i)
  PROVE  /\ At(i) /\ i \in table /\ UNCHANGED <<phase, topShut, botShut>>
         /\ \A j \in Hops : j # i => pc'[j] = pc[j]
         /\ \E d \in Hops : d = i + 1 /\ (Closed' \/ (At(d)' /\ pc'[i] = "wait"))
<1> USE DEF client, wires, relays
<1>1. /\ pc = [j \in Hops |-> pc[j]] /\ hop \in Hops /\ dn \in [Hops -> Seq(0..N)]
      /\ pc[i] = "cell" /\ i \in table /\ job[i] \in 0..N
      /\ UNCHANGED <<phase, topShut, botShut>>
  BY DEF ForwardExtend, ReadyInv, BuildInv, TypeOK
<1>2. Held(i) /\ At(i) /\ job[i] = hop
  BY <1>1 DEF Held, At, ReadyInv, BuildInv, Proper
<1>3. PICK d \in Hops : d = st[i].down /\ d = i + 1 /\ d # i
  <2>1. i <= hop /\ i # hop
    BY <1>1, <1>2 DEF ReadyInv, BuildInv, InOrder
  <2>2. Regular(i)
    BY <1>1, <1>2 DEF ReadyInv, BuildInv, Regulars
  <2>3. st[i].down = NextHop(i)
    BY <2>2 DEF Regular
  <2>4. NextHop(i) = i + 1 /\ i + 1 \in Hops /\ i + 1 # i
    BY <1>1, <2>1 DEF NextHop, Hops
  <2> QED
    BY <2>3, <2>4
<1>4. \A j \in Hops : At(j) \/ Back(j) => j = i
  BY <1>2 DEF ReadyInv, BuildInv, Unique, Pending
<1>5. PICK ok \in BOOLEAN : /\ IF d = 0 THEN ~ok ELSE MayReturn(ok, topShut[d], botShut[d])
                            /\ dn' = IF ok THEN PutDown(d, job[i]) ELSE dn
                            /\ pc' = [pc EXCEPT ![i] = IF ok THEN "wait" ELSE "read"]
  BY <1>3 DEF ForwardExtend
<1>6. d # 0
  BY <1>3 DEF Hops
<1>7. Closed' \/ (At(d)' /\ pc'[i] = "wait")
  <2>1. CASE topShut[d] \/ botShut[d]
    BY <1>1, <1>3, <2>1 DEF Closed
  <2>2. CASE ~(topShut[d] \/ botShut[d])
    <3>1. dn' = PutDown(d, job[i]) /\ pc'[i] = "wait"
      BY <1>1, <1>5, <1>6, <2>2 DEF MayReturn
    <3>2. dn'[d] = Append(dn[d], hop)
      BY <1>1, <1>2, <1>3, <2>2, <3>1 DEF PutDown
    <3>3. dn[d] = <<>>
      <4>1. dn[d] \in {<<>>, <<hop>>}
        BY <1>3, <2>2 DEF ReadyInv, BuildInv, Proper
      <4>2. ~Sent(d)
        BY <1>2, <1>3, <1>4 DEF At
      <4> QED
        BY <1>1, <4>1, <4>2, DownContents DEF Sent
    <3>4. dn'[d] = <<hop>>
      BY <1>1, <3>2, <3>3, Appends
    <3> QED
      BY <1>1, <3>1, <3>4, DownContents DEF At, Sent
  <2> QED
    BY <2>1, <2>2
<1>8. \A j \in Hops : j # i => pc'[j] = pc[j]
  BY <1>1, <1>5
<1> QED
  BY <1>1, <1>2, <1>3, <1>7, <1>8

LEMMA WaitsForwardExtend ==
  ASSUME ReadyInv, NEW i \in Hops, ForwardExtend(i)
  PROVE  Waits'
<1>1. /\ At(i) /\ UNCHANGED <<phase, topShut, botShut>>
      /\ \A j \in Hops : j # i => pc'[j] = pc[j]
  BY PassesExtend
<1>2. PICK d \in Hops : d = i + 1 /\ (Closed' \/ (At(d)' /\ pc'[i] = "wait"))
  BY PassesExtend
<1>3. \A j \in Hops : At(j) \/ Back(j) => j = i
  BY <1>1 DEF ReadyInv, BuildInv, Unique, Pending
<1>4. Closed => Closed'
  BY <1>1, StaysClosed
<1>5. CASE Closed'
  BY <1>5 DEF Waits
<1>6. CASE ~Closed' /\ At(d)'
  <2>1. ASSUME NEW j \in Hops, pc'[j] = "wait", phase' # "failed" PROVE j < d
    <3>1. CASE j = i
      BY <1>2, <3>1 DEF Hops
    <3>2. CASE j # i
      <4>1. pc[j] = "wait" /\ phase # "failed" /\ ~Closed
        BY <1>1, <1>4, <1>6, <2>1, <3>2
      <4>2. ~Stalled
        BY <1>1 DEF Stalled
      <4>3. \E k \in Hops : j < k /\ (At(k) \/ Back(k))
        BY <4>1, <4>2 DEF ReadyInv, Waits
      <4>4. j < i
        BY <1>3, <4>3
      <4> QED
        BY <1>2, <4>4 DEF Hops
    <3> QED
      BY <3>1, <3>2
  <2> QED
    BY <1>2, <1>6, <2>1 DEF Waits
<1> QED
  BY <1>2, <1>5, <1>6

\* CREATED goes from hop to hop.
LEMMA PassesCreated ==
  ASSUME ReadyInv, NEW i \in Hops, ForwardCreated(i), ~Closed
  PROVE  i + 1 \in Hops /\ Back(i + 1) /\ Back(i)' /\ pc'[i] = "read"
<1> USE DEF client, wires, relays
<1>1. /\ pc = [j \in Hops |-> pc[j]] /\ up \in [Hops -> Seq(Pubs)] /\ table \subseteq Hops
      /\ pc[i] = "wait" /\ pc'[i] = "read"
  BY DEF ForwardCreated, ReadyInv, BuildInv, TypeOK
<1>2. PICK d \in Hops : d = st[i].down /\ Back(d)
  BY <1>1 DEF ReadyInv, BuildInv, Proper, ForwardCreated, Back
<1>3. d = i + 1
  <2>1. i \in table
    BY <1>1 DEF ReadyInv, Serving, Had, Closed
  <2>2. Regular(i)
    BY <1>2, <2>1 DEF ReadyInv, BuildInv, Regulars
  <2>3. d = NextHop(i)
    BY <1>2, <2>2 DEF Regular
  <2> QED
    BY <1>2, <2>3 DEF NextHop, Hops
<1>4. Back(i)'
  <2>1. ~topShut[i] /\ ~botShut[i]
    BY DEF Closed
  <2>2. Head(up[d]) \in Pubs /\ [up EXCEPT ![d] = Tail(@)] \in [Hops -> Seq(Pubs)]
    BY <1>1, <1>2, TailTypes DEF Back
  <2>3. PICK U \in [Hops -> Seq(Pubs)] : /\ U = [up EXCEPT ![d] = Tail(@)]
                                         /\ up' = PutUp(U, i, Head(up[d]))
    BY <1>2, <2>2 DEF ForwardCreated
  <2>4. PICK c \in Pubs : c = Head(up[d])
    BY <2>2
  <2>5. up'[i] = Append(U[i], c)
    BY <2>1, <2>3, <2>4 DEF PutUp
  <2>6. up'[i] # <<>>
    BY <2>3, <2>5
  <2> QED
    BY <2>6 DEF Back
<1> QED
  BY <1>1, <1>2, <1>3, <1>4

\* No relay between two of them waits.
LEMMA WaitsForwardCreated ==
  ASSUME ReadyInv, NEW i \in Hops, ForwardCreated(i)
  PROVE  Waits'
<1> USE DEF client, wires, relays
<1>1. /\ pc = [j \in Hops |-> pc[j]] /\ pc' = [pc EXCEPT ![i] = "read"]
      /\ UNCHANGED <<phase, topShut, botShut>>
  BY DEF ForwardCreated, ReadyInv, BuildInv, TypeOK
<1>2. Closed => Closed'
  BY <1>1, StaysClosed
<1>3. CASE Closed
  BY <1>2, <1>3 DEF Waits
<1>4. CASE ~Closed
  <2>1. i + 1 \in Hops /\ Back(i + 1) /\ Back(i)'
    BY <1>4, PassesCreated
  <2>2. \A j \in Hops : At(j) \/ Back(j) => j = i + 1
    BY <2>1 DEF ReadyInv, BuildInv, Unique, Pending
  <2>3. ASSUME NEW j \in Hops, pc'[j] = "wait", phase' # "failed" PROVE j < i
    <3>1. pc[j] = "wait" /\ j # i /\ phase # "failed"
      BY <1>1, <2>3
    <3>2. ~Stalled
      BY <2>1 DEF Stalled
    <3>3. \E k \in Hops : j < k /\ (At(k) \/ Back(k))
      BY <1>4, <3>1, <3>2 DEF ReadyInv, Waits
    <3>4. j < i + 1
      BY <2>2, <3>3
    <3> QED
      BY <3>1, <3>4 DEF Hops
  <2> QED
    BY <2>1, <2>3 DEF Waits
<1> QED
  BY <1>3, <1>4

\* The goroutine of a relay ends with its connection.
LEMMA ServingClient ==
  ASSUME ReadyInv, Build \/ DialRefused \/ DialTimeout \/ LateDial \/ Deadline
  PROVE  Serving'
<1> USE DEF client, wires, relays
<1>1. pc = [j \in Hops |-> pc[j]] /\ (late => phase = "failed")
  BY DEF ReadyInv, BuildInv, TypeOK, Serving
<1>2. table' = table /\ botShut' = botShut /\ \A j \in Hops : pc'[j] \in {pc[j], "read"}
  BY <1>1 DEF Build, Dial, SendExtend, WaitForCreated, WaitEOF, Abort, DialRefused,
              DialTimeout, LateDial, Deadline
<1>3. late' => phase' = "failed"
  BY <1>1 DEF Build, Dial, SendExtend, WaitForCreated, WaitEOF, Abort, DialRefused,
              DialTimeout, LateDial, Deadline
<1> QED
  BY <1>2, <1>3 DEF ReadyInv, Serving, Had

LEMMA ServingRelay ==
  ASSUME ReadyInv, NEW i \in Hops, ServeConn(i) \/ ExtendRefused(i) \/ Expire(i)
  PROVE  Serving'
<1> USE DEF client, wires, relays
<1>1. /\ pc = [j \in Hops |-> pc[j]] /\ botShut = [j \in Hops |-> botShut[j]]
      /\ (late => phase = "failed") /\ table \subseteq Hops
  BY DEF ReadyInv, BuildInv, TypeOK, Serving
<1>2. late' => phase' = "failed"
  BY <1>1 DEF ServeConn, ReadCell, ServeStop, ExtendLast, Extend, ExtendDialled,
              ForwardExtend, ForwardCreated, ForwardEOF, ExtendRefused, Expire
<1>3. CASE ExtendLast(i) \/ ExtendDialled(i)
  <2>1. table' = table \cup {i} /\ botShut' = botShut /\ pc'[i] = "read"
    BY <1>1, <1>3 DEF ExtendLast, ExtendDialled, DialledPc, NewEntry
  <2>2. \A j \in Hops : pc'[j] \in {pc[j], "read"}
    BY <1>1, <1>3 DEF ExtendLast, ExtendDialled, DialledPc
  <2> QED
    BY <1>2, <2>1, <2>2 DEF ReadyInv, Serving, Had
<1>4. CASE ServeStop(i)
  <2>1. table' = table /\ pc'[i] = "done" /\ botShut'[i]
    BY <1>1, <1>4 DEF ServeStop
  <2>2. \A j \in Hops : j # i => pc'[j] = pc[j] /\ botShut'[j] = botShut[j]
    BY <1>1, <1>4 DEF ServeStop
  <2> QED
    BY <1>2, <2>1, <2>2 DEF ReadyInv, Serving, Had
<1>5. CASE Expire(i)
  <2>1. table' = table \ {i} /\ pc' = pc /\ botShut'[i]
    BY <1>1, <1>5 DEF Expire, Close
  <2>2. \A j \in Hops : j # i => botShut'[j] = botShut[j]
    BY <1>1, <1>5 DEF Expire, Close
  <2> QED
    BY <1>2, <2>1, <2>2 DEF ReadyInv, Serving, Had
<1>6. CASE ForwardExtend(i)
  <2>1. i \in table /\ table' = table /\ botShut' = botShut /\ pc'[i] \in {"wait", "read"}
    BY <1>1, <1>6 DEF ForwardExtend
  <2>2. \A j \in Hops : j # i => pc'[j] = pc[j]
    BY <1>1, <1>6 DEF ForwardExtend
  <2> QED
    BY <1>2, <2>1, <2>2 DEF ReadyInv, Serving, Had
<1>7. CASE ReadCell(i) \/ Extend(i) \/ ForwardCreated(i) \/ ForwardEOF(i) \/ ExtendRefused(i)
  <2>1. table' = table /\ botShut' = botShut /\ pc'[i] \in {"cell", "dial", "read"}
    BY <1>1, <1>7 DEF ReadCell, Extend, ForwardCreated, ForwardEOF, ExtendRefused
  <2>2. \A j \in Hops : j # i => pc'[j] = pc[j]
    BY <1>1, <1>7 DEF ReadCell, Extend, ForwardCreated, ForwardEOF, ExtendRefused
  <2> QED
    BY <1>2, <2>1, <2>2 DEF ReadyInv, Serving, Had
<1> QED
  BY <1>3, <1>4, <1>5, <1>6, <1>7 DEF ServeConn

\* Connections close when the client gives up, or after gc has closed one.
LEMMA StepClosings ==
  ASSUME ReadyInv, BuildInv', Next
  PROVE  Closings'
<1> USE DEF client, wires, relays
<1>1. /\ topShut = [j \in Hops |-> topShut[j]] /\ botShut = [j \in Hops |-> botShut[j]]
      /\ BuildInv /\ table \subseteq Hops
  BY DEF ReadyInv, BuildInv, TypeOK
<1>2. CASE Dial \/ DialRefused \/ DialTimeout \/ LateDial
  <2>1. Frame /\ Moves
    <3>1. PICK i \in Hops : i = 1
      BY DEF Hops
    <3> QED
      BY <1>1, <1>2, <3>1, StepQuiet
  <2>2. Closed' => Closed
    BY <1>2 DEF Dial, DialRefused, DialTimeout, LateDial, Closed
  <2> QED
    BY <2>1, <2>2, CarryClosings
<1>3. CASE SendExtend
  <2>1. Frame /\ Moves
    BY <1>1, <1>3, StepSendExtend
  <2>2. phase' = "failed" \/ (Closed' => Closed)
    BY <1>3 DEF SendExtend, Abort, Closed
  <2> QED
    BY <2>1, <2>2, CarryClosings
<1>4. CASE WaitForCreated
  BY <1>4, WaitForCreatedClosings
<1>5. CASE WaitEOF \/ Deadline
  BY <1>5 DEF WaitEOF, Deadline, Abort, Closings
<1>6. ASSUME NEW i \in Hops, ServeConn(i) \/ ExtendRefused(i) \/ Expire(i)
      PROVE  Closings'
  <2>1. CASE ExtendLast(i) \/ ExtendDialled(i)
    BY <2>1, NewEntryClosings DEF BuildInv
  <2>2. CASE ServeStop(i)
    <3>1. Frame /\ Moves
      BY <1>1, <2>2, StepQuiet
    <3>2. Closed
      BY <2>2 DEF ServeStop, Closed
    <3> QED
      BY <3>1, <3>2, CarryClosings
  <2>3. CASE Expire(i)
    <3>1. Frame /\ Moves
      BY <1>1, <2>3, StepQuiet
    <3>2. i \in table /\ i \notin table'
      BY <2>3 DEF Expire
    <3> QED
      BY <3>1, <3>2, CarryClosings
  <2>4. CASE ReadCell(i) \/ Extend(i) \/ ForwardExtend(i) \/ ForwardCreated(i)
               \/ ForwardEOF(i) \/ ExtendRefused(i)
    <3>1. Frame /\ Moves
      BY <1>1, <2>4, StepQuiet, StepReadCell, StepForwardExtend, StepForwardCreated
    <3>2. Closed' => Closed
      BY <2>4 DEF ReadCell, Extend, ForwardExtend, ForwardCreated, ForwardEOF,
                  ExtendRefused, Closed
    <3> QED
      BY <3>1, <3>2, CarryClosings
  <2> QED
    BY <1>6, <2>1, <2>2, <2>3, <2>4 DEF ServeConn
<1> QED
  BY <1>2, <1>3, <1>4, <1>5, <1>6 DEF Next, Build

\* The invariant holds at the start, and every step keeps it.
LEMMA ReadyInit == Init => ReadyInv
<1> SUFFICES ASSUME Init PROVE ReadyInv
  OBVIOUS
<1>1. ~Closed
  BY DEF Init, Closed
<1>2. Closings /\ Waits
  BY <1>1 DEF Init, Closings, Waits
<1>3. Serving
  BY DEF Init, Serving
<1> QED
  BY <1>2, <1>3, InvInit DEF ReadyInv

LEMMA ReadyNext == ReadyInv /\ [Next]_vars => ReadyInv'
<1> SUFFICES ASSUME ReadyInv, [Next]_vars PROVE ReadyInv'
  OBVIOUS
<1>1. BuildInv'
  BY InvNext DEF ReadyInv
<1>2. CASE Next
  <2>1. Closings'
    BY <1>1, <1>2, StepClosings
  <2>2. CASE Build \/ DialRefused \/ DialTimeout \/ LateDial \/ Deadline
    BY <1>1, <2>1, <2>2, WaitsClient, ServingClient DEF ReadyInv
  <2>3. ASSUME NEW i \in Hops, ServeConn(i) \/ ExtendRefused(i) \/ Expire(i)
        PROVE  ReadyInv'
    <3>1. Waits'
      BY <2>3, WaitsQuiet, WaitsNewEntry, WaitsForwardExtend, WaitsForwardCreated
         DEF ServeConn
    <3>2. Serving'
      BY <2>3, ServingRelay
    <3> QED
      BY <1>1, <2>1, <3>1, <3>2 DEF ReadyInv
  <2> QED
    BY <1>2, <2>2, <2>3 DEF Next
<1>3. CASE UNCHANGED vars
  BY <1>1, <1>3 DEF vars, client, wires, relays, ReadyInv, Closings, Waits, Serving, Closed,
                    Lost, Stalled, Had, Regular, At, Sent, Held, Back
<1> QED
  BY <1>2, <1>3

\* With every entry in place nothing was closed, so no relay waits for a CREATED.
LEMMA ReadyEstablished == ReadyInv => EstablishedIsInit
<1> SUFFICES ASSUME ReadyInv, phase = "built", table = Hops PROVE Established!Init
  BY DEF EstablishedIsInit
<1>1. /\ dn \in [Hops -> Seq(0..N)] /\ up \in [Hops -> Seq(Pubs)] /\ hop \in Hops
      /\ topShut \in [Hops -> BOOLEAN] /\ botShut \in [Hops -> BOOLEAN]
      /\ pc \in [Hops -> {"off", "read", "cell", "dial", "wait", "done"}]
  BY DEF ReadyInv, BuildInv, TypeOK
<1>2. \A j \in Hops : ~At(j) /\ ~Back(j)
  BY DEF ReadyInv, BuildInv, Pending
<1>3. ~Closed
  <2>1. \A j \in table : Regular(j)
    BY DEF ReadyInv, BuildInv, Regulars
  <2> QED
    BY <2>1 DEF ReadyInv, Closings, Lost
<1>4. \A j \in Hops : ~topShut[j] /\ ~botShut[j]
  BY <1>3 DEF Closed
<1>5. \A j \in Hops : dn[j] = <<>> /\ up[j] = <<>>
  <2> TAKE j \in Hops
  <2>1. dn[j] \in {<<>>, <<hop>>}
    BY <1>4 DEF ReadyInv, BuildInv, Proper
  <2>2. ~Sent(j)
    BY <1>2 DEF At
  <2>3. dn[j] = <<>>
    BY <1>1, <2>1, <2>2, DownContents DEF Sent
  <2> QED
    BY <1>2, <2>3 DEF Back
<1>6. \A j \in Hops : pc[j] = "read"
  <2> TAKE j \in Hops
  <2>1. pc[j] \notin {"cell", "dial"}
    BY <1>2 DEF At, Held
  <2>2. pc[j] # "wait"
    BY <1>2, <1>3 DEF ReadyInv, Waits, Stalled
  <2>3. pc[j] \notin {"off", "done"}
    BY <1>4 DEF ReadyInv, Serving
  <2> QED
    BY <1>1, <2>1, <2>2, <2>3
<1>7. /\ dn = [j \in Hops |-> <<>>] /\ up = [j \in Hops |-> <<>>]
      /\ topShut = [j \in Hops |-> FALSE] /\ botShut = [j \in Hops |-> FALSE]
  BY <1>1, <1>4, <1>5
<1>8. [i \in Hops |-> [up |-> IF pc[i] = "read" THEN "run" ELSE pc[i], down |-> "off"]]
        = [i \in Hops |-> [s \in {"up", "down"} |-> IF s = "up" THEN "run" ELSE "off"]]
  BY <1>6
<1>9. Established!Hops = Hops /\ Established!Sides = {"up", "down"}
  BY DEF Established!Hops, Established!Sides, Hops
<1>10. Established!Idle = [pc |-> "read", nonce |-> 0,
                           cell |-> [cmd |-> "END", sid |-> 1, layers |-> <<>>, body |-> Cipher, room |-> 0]]
  BY DEF Established!Idle, Established!Control, Established!Cipher, Cipher
<1> QED
  BY <1>7, <1>8, <1>9, <1>10 DEF Established!Init

\* Every state variable keeps its type.
THEOREM BuildTypeCorrect == Spec => []TypeOK
<1>1. BuildInv => TypeOK
  BY DEF BuildInv
<1> QED
  BY <1>1, BuildCorrect, PTL

\* What ReadyInv says of closed connections and waiting relays is always so.
THEOREM BuildReady == Spec => []ReadyInv
BY ReadyInit, ReadyNext, PTL DEF Spec

\* A built circuit whose relays have kept their entries is one that module Circuit
\* starts from: what is proved of an established circuit holds of what build returns.
THEOREM BuildEstablishes == Spec => []EstablishedIsInit
<1>1. ReadyInv => EstablishedIsInit
  BY ReadyEstablished
<1> QED
  BY <1>1, BuildReady, PTL
-----------------------------------------------------------------------------
(***************************************************************************)
(* A construction that nothing has disturbed never stands still.           *)
(***************************************************************************)
\* Its beginnings cannot lie behind a failure.
LEMMA GoesOn ==
  ASSUME FlowInv, Next, Going'
  PROVE  /\ Going /\ ~Closed /\ ~late
         /\ \A i \in Hops : ~ServeStop(i) /\ ~ForwardEOF(i) /\ ~Expire(i) /\ ~ExtendRefused(i)
<1> USE DEF client, wires, relays
<1>1. ~broken'
  BY DEF Going
<1>2. ~broken
  BY <1>1 DEF Next, Build, Dial, SendExtend, WaitForCreated, WaitEOF, DialRefused, DialTimeout,
              LateDial, Deadline, ServeConn, ReadCell, ServeStop, ExtendLast, Extend,
              ExtendDialled, ForwardExtend, ForwardCreated, ForwardEOF, ExtendRefused, Expire
<1>3. phase \in {"dial", "send", "wait", "built", "failed"}
  BY DEF FlowInv, ReadyInv, BuildInv, TypeOK
<1>4. phase' \notin {"failed", "built"}
  BY DEF Going
<1>5. phase \in {"dial", "send", "wait"}
  BY <1>3, <1>4 DEF Next, Build, Dial, SendExtend, WaitForCreated, WaitEOF, DialRefused,
              DialTimeout, LateDial, Deadline, ServeConn, ReadCell, ServeStop, ExtendLast,
              Extend, ExtendDialled, ForwardExtend, ForwardCreated, ForwardEOF, ExtendRefused,
              Expire
<1>6. ~Closed
  BY <1>2, <1>5 DEF FlowInv, Reached
<1>7. ~late
  BY <1>5 DEF FlowInv, ReadyInv, Serving
<1>8. ASSUME NEW i \in Hops
      PROVE  ~ServeStop(i) /\ ~ForwardEOF(i) /\ ~Expire(i) /\ ~ExtendRefused(i)
  <2>1. pc[i] = "wait" => st[i].down \in Hops
    BY DEF FlowInv, ReadyInv, BuildInv, Proper
  <2> QED
    BY <1>1, <1>6, <2>1 DEF ServeStop, ForwardEOF, Expire, ExtendRefused, Closed
<1> QED
  BY <1>2, <1>5, <1>6, <1>7, <1>8 DEF Going

\* The relay that makes an entry is the one that the client extends to.
LEMMA EntryInTurn ==
  ASSUME FlowInv, Going, ~Closed, NEW i \in Hops, ExtendLast(i) \/ ExtendDialled(i)
  PROVE  i = hop /\ job[i] = hop
<1>1. i \notin table
  BY DEF ExtendLast, ExtendDialled, FlowInv, ReadyInv, BuildInv, Dialling
<1>2. Held(i)
  BY DEF ExtendLast, ExtendDialled, Held
<1>3. i <= hop /\ job[i] = hop
  BY <1>2 DEF At, FlowInv, ReadyInv, BuildInv, Proper
<1>4. i < hop => i \in table
  BY DEF FlowInv, ReadyInv, BuildInv, InOrder, Had, Closed
<1> QED
  BY <1>1, <1>3, <1>4 DEF FlowInv, ReadyInv, BuildInv, TypeOK, Hops

\* A new entry comes after the dial of the next hop.
LEMMA EntryDials ==
  ASSUME FlowInv, Going, ~Closed, NEW i \in Hops, ExtendLast(i) \/ ExtendDialled(i)
  PROVE  /\ table' = table \cup {i}
         /\ i < N => i + 1 \in Hops /\ pc'[i + 1] = "read"
         /\ \A j \in Hops : j # i /\ j # i + 1 => pc'[j] = pc[j]
<1> USE DEF client, wires, relays
<1>1. pc = [j \in Hops |-> pc[j]] /\ hop \in Hops
  BY DEF FlowInv, ReadyInv, BuildInv, TypeOK
<1>2. i = hop /\ job[i] = hop
  BY EntryInTurn
<1>3. i \in Nat /\ i <= N /\ (i < N => i + 1 \in Hops)
  BY DEF Hops
<1>4. NextHop(job[i]) = IF i < N THEN i + 1 ELSE 0
  BY <1>2 DEF NextHop
<1>5. 0 \notin Hops
  BY DEF Hops
<1>6. CASE ExtendLast(i)
  <2>1. ~(i < N)
    BY <1>3, <1>4, <1>6 DEF ExtendLast
  <2> QED
    BY <1>1, <1>6, <2>1 DEF ExtendLast, NewEntry
<1>7. CASE ExtendDialled(i)
  BY <1>1, <1>3, <1>4, <1>5, <1>7 DEF ExtendDialled, DialledPc, NewEntry
<1> QED
  BY <1>6, <1>7

\* A relay is dialled before the circuit can reach it, and nothing closes.
LEMMA ReachedNext ==
  ASSUME FlowInv, Next
  PROVE  Reached'
<1> USE DEF client, wires, relays
<1>1. /\ pc = [j \in Hops |-> pc[j]] /\ table \subseteq Hops /\ 1 \in Hops
      /\ \A j \in Hops : j < N => j + 1 \in Hops
  BY DEF FlowInv, ReadyInv, BuildInv, TypeOK, Hops
<1>2. Closed' => phase' = "failed" \/ broken'
  <2>1. CASE Closed
    BY <2>1 DEF FlowInv, Reached, Next, Build, Dial, SendExtend, WaitForCreated, WaitEOF, Abort,
                DialRefused, DialTimeout, LateDial, Deadline, ServeConn, ReadCell, ServeStop,
                ExtendLast, Extend, ExtendDialled, ForwardExtend, ForwardCreated, ForwardEOF,
                ExtendRefused, Expire
  <2>2. CASE ~Closed /\ phase' # "failed" /\ ~broken'
    <3>1. topShut' = topShut /\ botShut' = botShut
      BY <2>2 DEF Closed, Next, Build, Dial, SendExtend, WaitForCreated, WaitEOF, Abort,
                DialRefused, DialTimeout, LateDial, Deadline, ServeConn, ReadCell, ServeStop,
                ExtendLast, Extend, ExtendDialled, ForwardExtend, ForwardCreated, ForwardEOF,
                ExtendRefused, Expire
    <3> QED
      BY <2>2, <3>1 DEF Closed
  <2> QED
    BY <2>1, <2>2
<1>3. ASSUME Going'
      PROVE  /\ phase' # "dial" => pc'[1] # "off"
             /\ \A i \in table' : i < N => pc'[i + 1] # "off"
  <2>1. Going /\ ~Closed /\ ~late
    BY <1>3, GoesOn
  <2>2. /\ phase # "dial" => pc[1] # "off"
        /\ \A i \in table : i < N => pc[i + 1] # "off"
    BY <2>1 DEF FlowInv, Reached
  <2>3. \A j \in Hops : pc[j] # "off" => pc'[j] # "off"
    BY <1>1 DEF Next, Build, Dial, SendExtend, WaitForCreated, WaitEOF,
                DialRefused, DialTimeout, LateDial, Deadline, ServeConn, ReadCell, ServeStop,
                ExtendLast, Extend, ExtendDialled, DialledPc, ForwardExtend, ForwardCreated,
                ForwardEOF, ExtendRefused, Expire
  <2>4. phase' # "dial" => pc'[1] # "off"
    <3>1. CASE phase # "dial"
      BY <1>1, <2>2, <2>3, <3>1
    <3>2. CASE phase = "dial" /\ phase' # "dial"
      <4>1. Dial
        BY <1>3, <3>2 DEF Going, Next, Build, Dial, SendExtend, WaitForCreated, WaitEOF,
                DialRefused, DialTimeout, LateDial, Deadline, ServeConn, ReadCell, ServeStop,
                ExtendLast, Extend, ExtendDialled, ForwardExtend, ForwardCreated,
                ForwardEOF, ExtendRefused, Expire
      <4> QED
        BY <1>1, <4>1 DEF Dial
    <3> QED
      BY <3>1, <3>2
  <2>5. ASSUME NEW i \in table', i < N PROVE pc'[i + 1] # "off"
    <3>1. CASE i \in table
      BY <1>1, <2>2, <2>3, <2>5, <3>1
    <3>2. CASE i \notin table
      <4>1. i \in Hops /\ (ExtendLast(i) \/ ExtendDialled(i))
        BY <2>5, <3>2 DEF Next, Build, Dial, SendExtend, WaitForCreated, WaitEOF,
                DialRefused, DialTimeout, LateDial, Deadline, ServeConn, ReadCell, ServeStop,
                ExtendLast, Extend, ExtendDialled, NewEntry, ForwardExtend, ForwardCreated,
                ForwardEOF, ExtendRefused, Expire
      <4> QED
        BY <2>1, <2>5, <4>1, EntryDials
    <3> QED
      BY <3>1, <3>2
  <2> QED
    BY <2>4, <2>5
<1> QED
  BY <1>2, <1>3 DEF Reached

\* There is one message, so what must be shown of it is shown where it is.
LEMMA AwaitedAt ==
  ASSUME BuildInv', NEW m \in Hops, (At(m) \/ Back(m))',
         \A k \in Hops : k < m => pc'[k] = "wait"
  PROVE  Awaited'
<1>1. \A j \in Hops : (At(j) \/ Back(j))' => j = m
  BY DEF BuildInv, Unique, Pending
<1> QED
  BY <1>1 DEF Awaited

\* The client waits exactly while there is one.
LEMMA AwaitedNone ==
  ASSUME BuildInv', phase' \in {"dial", "send"}
  PROVE  Awaited'
<1>1. \A j \in Hops : ~(At(j) \/ Back(j))'
  BY DEF BuildInv, Pending
<1> QED
  BY <1>1 DEF Awaited

\* The client sends EXTEND on a connection that is open, and empty.
LEMMA SendsExtend ==
  ASSUME ReadyInv, SendExtend, ~Closed, phase' # "failed"
  PROVE  At(1)'
<1> USE DEF client, wires, relays
<1>1. /\ dn \in [Hops -> Seq(0..N)] /\ hop \in Hops /\ 1 \in Hops
  BY DEF ReadyInv, BuildInv, TypeOK, Hops
<1>2. ~topShut[1] /\ ~botShut[1] /\ hop' = hop
  BY <1>1 DEF Closed, SendExtend
<1>3. dn' = PutDown(1, hop)
  BY <1>1 DEF SendExtend, Abort
<1>4. dn'[1] = Append(dn[1], hop)
  BY <1>1, <1>2, <1>3 DEF PutDown
<1>5. dn[1] = <<>>
  <2>1. dn[1] \in {<<>>, <<hop>>}
    BY <1>1, <1>2 DEF ReadyInv, BuildInv, Proper
  <2>2. ~Sent(1)
    BY <1>1 DEF SendExtend, ReadyInv, BuildInv, Pending, At
  <2> QED
    BY <1>1, <2>1, <2>2, DownContents DEF Sent
<1>6. dn'[1] = <<hop>>
  BY <1>1, <1>4, <1>5, Appends
<1> QED
  BY <1>1, <1>6, DownContents DEF At, Sent

\* The message moves from connection to relay to connection, and with it the relays
\* that wait for it.
LEMMA AwaitedNext ==
  ASSUME FlowInv, BuildInv', Next
  PROVE  Awaited'
<1> USE DEF client, wires, relays
<1> SUFFICES ASSUME Going' PROVE Awaited'
  BY DEF Awaited
<1>1. ReadyInv /\ pc = [j \in Hops |-> pc[j]] /\ 1 \in Hops
  <2>1. ReadyInv
    BY DEF FlowInv
  <2>2. pc = [j \in Hops |-> pc[j]] /\ 1 \in Hops
    BY <2>1 DEF ReadyInv, BuildInv, TypeOK, Hops
  <2> QED
    BY <2>1, <2>2
<1>2. Going /\ ~Closed /\ ~late
  BY GoesOn
<1>3. phase' \in {"dial", "send", "wait"}
  BY DEF Going
<1>4. \A j, k \in Hops : (At(j) \/ Back(j)) /\ k < j => pc[k] = "wait"
  BY <1>2 DEF FlowInv, Awaited
<1>5. CASE Dial \/ WaitForCreated
  BY <1>3, <1>5, AwaitedNone DEF Dial, WaitForCreated
<1>6. CASE SendExtend
  <2>1. At(1)'
    BY <1>1, <1>2, <1>3, <1>6, SendsExtend
  <2>2. \A k \in Hops : ~(k < 1)
    BY DEF Hops
  <2> QED
    BY <1>1, <2>1, <2>2, AwaitedAt
<1>7. CASE DialRefused \/ DialTimeout \/ LateDial \/ Deadline \/ WaitEOF
  BY <1>2, <1>3, <1>7 DEF DialRefused, DialTimeout, LateDial, Deadline, WaitEOF, Abort
<1>8. ASSUME NEW i \in Hops, ServeConn(i) \/ ExtendRefused(i) \/ Expire(i)
      PROVE  Awaited'
  <2>1. i \in Nat /\ \A k \in Hops : k \in Nat
    BY DEF Hops
  <2>2. CASE ReadCell(i) \/ Extend(i)
    <3>1. At(i) /\ At(i)' /\ \A j \in Hops : j # i => pc'[j] = pc[j]
      BY <1>1, <2>2 DEF ReadCell, Extend, At, Sent, Held
    <3>2. \A k \in Hops : k < i => pc'[k] = "wait"
      BY <1>4, <2>1, <3>1
    <3> QED
      BY <3>1, <3>2, AwaitedAt
  <2>3. CASE ExtendLast(i) \/ ExtendDialled(i)
    <3>1. At(i) /\ Back(i)'
      BY <1>1, <1>2, <2>3, SendsCreated DEF Closed
    <3>2. \A k \in Hops : k < i => pc'[k] = pc[k]
      BY <1>2, <2>1, <2>3, EntryDials
    <3>3. \A k \in Hops : k < i => pc'[k] = "wait"
      BY <1>4, <3>1, <3>2
    <3> QED
      BY <3>1, <3>3, AwaitedAt
  <2>4. CASE ForwardExtend(i)
    <3>1. At(i) /\ \A j \in Hops : j # i => pc'[j] = pc[j]
      BY <1>1, <2>4, PassesExtend
    <3>2. ~Closed'
      BY <1>1, <1>2, <2>4, PassesExtend DEF Closed
    <3>3. PICK d \in Hops : d = i + 1 /\ At(d)' /\ pc'[i] = "wait"
      BY <1>1, <2>4, <3>2, PassesExtend
    <3>4. \A k \in Hops : k < d => pc'[k] = "wait"
      BY <1>4, <2>1, <3>1, <3>3
    <3> QED
      BY <3>3, <3>4, AwaitedAt
  <2>5. CASE ForwardCreated(i)
    <3>1. i + 1 \in Hops /\ Back(i + 1) /\ Back(i)'
      BY <1>1, <1>2, <2>5, PassesCreated
    <3>2. \A j \in Hops : j # i => pc'[j] = pc[j]
      BY <1>1, <2>5 DEF ForwardCreated
    <3>3. \A k \in Hops : k < i => pc'[k] = "wait"
      BY <1>4, <2>1, <3>1, <3>2
    <3> QED
      BY <3>1, <3>3, AwaitedAt
  <2> QED
    BY <1>8, <2>2, <2>3, <2>4, <2>5, GoesOn DEF ServeConn
<1> QED
  BY <1>5, <1>6, <1>7, <1>8 DEF Next, Build

\* The invariant holds at the start, and every step keeps it.
LEMMA FlowInit == Init => FlowInv
<1> SUFFICES ASSUME Init PROVE FlowInv
  OBVIOUS
<1>1. Reached
  BY DEF Init, Reached, Closed, Going
<1>2. Awaited
  BY DEF Init, Awaited, At, Sent, Held, Back, Going
<1> QED
  BY <1>1, <1>2, ReadyInit DEF FlowInv

LEMMA FlowNext == FlowInv /\ [Next]_vars => FlowInv'
<1> SUFFICES ASSUME FlowInv, [Next]_vars PROVE FlowInv'
  OBVIOUS
<1>1. ReadyInv'
  BY ReadyNext DEF FlowInv
<1>2. CASE Next
  <2>1. BuildInv'
    BY <1>1 DEF ReadyInv
  <2> QED
    BY <1>1, <1>2, <2>1, ReachedNext, AwaitedNext DEF FlowInv
<1>3. CASE UNCHANGED vars
  BY <1>1, <1>3 DEF vars, client, wires, relays, FlowInv, Reached, Awaited, Going, Closed,
                    At, Sent, Held, Back
<1> QED
  BY <1>2, <1>3

\* Wherever the message is, somebody can take it further.
LEMMA FlowRuns == FlowInv => SomebodyCanRun
<1> SUFFICES ASSUME FlowInv, phase \in {"send", "wait"}, ~broken
             PROVE  BuildReads \/ \E i \in Hops : ServeReads(i)
  BY DEF SomebodyCanRun
<1>1. CASE phase = "send"
  BY <1>1 DEF BuildReads
<1>2. CASE phase = "wait"
  <2>1. Going /\ ~Closed
    BY <1>2 DEF Going, FlowInv, Reached
  <2>2. PICK j \in Hops : At(j) \/ Back(j)
    BY <1>2, <2>1 DEF FlowInv, Awaited
  <2>3. \A k \in Hops : At(k) \/ Back(k) => k = j
    BY <2>2 DEF FlowInv, ReadyInv, BuildInv, Unique, Pending
  <2>4. \A k \in Hops : k < j => pc[k] = "wait"
    BY <2>1, <2>2 DEF FlowInv, Awaited
  <2>5. CASE Held(j)
    BY <2>5 DEF ServeReads
  <2>6. CASE Sent(j) /\ ~Held(j)
    <3>1. pc[j] # "wait"
      <4>1. \A k \in Hops : j < k => ~(At(k) \/ Back(k))
        BY <2>3 DEF Hops
      <4> QED
        BY <1>2, <2>1, <2>2, <4>1 DEF FlowInv, ReadyInv, Waits, Stalled
    <3>2. pc[j] # "done"
      BY <2>1 DEF FlowInv, ReadyInv, Serving, Closed
    <3>3. pc[j] # "off"
      <4>1. CASE j = 1
        BY <1>2, <2>1, <4>1 DEF FlowInv, Reached
      <4>2. CASE j # 1
        <5>1. PICK i \in Hops : i + 1 = j /\ i < j /\ i < N
          <6>1. j - 1 \in Hops /\ (j - 1) + 1 = j /\ j - 1 < j /\ j - 1 < N
            BY <4>2 DEF Hops
          <6> QED
            BY <6>1
        <5>2. i \in table
          BY <2>1, <2>4, <5>1 DEF FlowInv, ReadyInv, Serving, Had, Closed
        <5> QED
          BY <2>1, <5>1, <5>2 DEF FlowInv, Reached
      <4> QED
        BY <4>1, <4>2
    <3>4. pc[j] = "read"
      BY <2>6, <3>1, <3>2, <3>3 DEF Held, FlowInv, ReadyInv, BuildInv, TypeOK
    <3> QED
      BY <2>6, <3>4 DEF ServeReads
  <2>7. CASE Back(j) /\ j = 1
    BY <1>2, <2>7 DEF BuildReads
  <2>8. CASE Back(j) /\ j # 1
    <3>1. PICK i \in Hops : i + 1 = j /\ i < j
      <4>1. j - 1 \in Hops /\ (j - 1) + 1 = j /\ j - 1 < j
        BY <2>8 DEF Hops
      <4> QED
        BY <4>1
    <3>2. pc[i] = "wait" /\ i \in table
      BY <2>1, <2>4, <3>1 DEF FlowInv, ReadyInv, Serving, Had, Closed
    <3>3. Regular(i)
      BY <2>8, <3>2 DEF FlowInv, ReadyInv, BuildInv, Regulars
    <3>4. st[i].down = NextHop(i)
      BY <3>3 DEF Regular
    <3>5. NextHop(i) = j
      BY <3>1 DEF NextHop, Hops
    <3> QED
      BY <2>8, <3>2, <3>4, <3>5 DEF ServeReads
  <2> QED
    BY <2>2, <2>5, <2>6, <2>7, <2>8 DEF At
<1> QED
  BY <1>1, <1>2

\* In every construction that no refused dial and no collected entry has disturbed, the
\* message is where exactly the relays before it wait for it.
THEOREM BuildFlows == Spec => []FlowInv
BY FlowInit, FlowNext, PTL DEF Spec

\* So the client and the relays that block on one another's connections in
\* ForwardExtend never all wait, for every number of hops.
THEOREM BuildNeverBlocks == Spec => []SomebodyCanRun
<1>1. FlowInv => SomebodyCanRun
  BY FlowRuns
<1> QED
  BY <1>1, BuildFlows, PTL
=============================================================================
