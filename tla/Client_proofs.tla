---------------------------- MODULE Client_proofs ----------------------------
(***************************************************************************)
(* The client, for every set of connections, every limit of the stream     *)
(* identifiers, every directory and whatever applications ask for.         *)
(***************************************************************************)
EXTENDS Client, FiniteSetTheorems, SequenceTheorems, WellFoundedInduction, TLAPS

\* Before a stream has its identifier.
Early  == {"socks", "build", "connect", "open", "wrap"}
\* Between the construction of the circuit and its control END.
Active == {"connect", "open", "wrap", "add", "begin", "relay", "close"}

\* Nobody knows a connection whose stream is not registered; a circuit that the relays are
\* still to be told about has a handler on its way to telling them.
Places == \A c \in Conns :
  /\ pc[c] \in Early \union {"add"} => sock[c] = NoConn /\ peer[c] = "idle"
  /\ pc[c] \in Early => sid[c] = 0
  /\ pc[c] \in Registered \union {"add"} => sid[c] # 0
  /\ peer[c] # "idle" => sid[c] # 0
  /\ pc[c] \in {"socks", "build"} => link[c] = "none" /\ rx[c] = "off"
  /\ link[c] = "up" => pc[c] \in Active

\* The first half of Agreement.
Managed == \A i \in StreamIDs : mgr[i] # NoConn =>
  sid[mgr[i]] = i /\ pc[mgr[i]] \in Registered /\ sock[mgr[i]] = NoConn

\* In the first round the counter is the number of identifiers handed out; past the limit
\* all of them have been, so that whoever is at the Store ends the round.
Counting ==
  /\ counter <= Limit /\ FirstRound => counter = Len(handed)
  /\ counter > Limit => Len(handed) >= Limit
  /\ \A c \in Conns : pc[c] = "wrap" => Len(handed) >= Limit

\* In the first round no two streams have one identifier.
Distinct == FirstRound =>
  /\ \A c \in Conns : sid[c] <= Len(handed)
  /\ \A c, d \in Conns : sid[c] = sid[d] => c = d \/ sid[c] = 0

\* The second half of Agreement.
Found == FirstRound => \A c \in Conns :
  pc[c] \in Registered /\ sock[c] = NoConn => mgr[sid[c]] = c

\* The identifiers have come round, and c and d have streams with the same one.
Same(c, d) == sid[c] = sid[d] /\ sid[c] # 0 /\ ~FirstRound

\* OwnData, with streams that exist.
Crossed == \A p \in crossed : Same(p[1], p[2])

\* OwnClose, with a circuit that exists.
Closers == \A c, d \in Conns :
  sock[d] = c /\ c # d /\ pc[d] # "done" =>
    pc[c] \notin {"socks", "build"} /\ (rx[c] = "done" \/ Same(c, d))

\* Of two identifiers handed out less than a round apart, the second is as far from the
\* first as its place in the sequence, but for a round.
Stepwise(s) == \A i, j \in DOMAIN s : i < j /\ j - i < Limit =>
  s[j] = s[i] + (j - i) \/ s[j] = s[i] + (j - i) - Limit

\* Without a race one call at a time is between its Add and its Store, the counter is then
\* one past the limit, and otherwise at the identifier handed out last.
Rounds == ~raced =>
  /\ Stepwise(handed)
  /\ \A c, d \in Conns : pc[c] = "wrap" /\ pc[d] = "wrap" => c = d
  /\ (\E c \in Conns : pc[c] = "wrap") => counter = Limit + 1 /\ handed # <<>>
  /\ (\A c \in Conns : pc[c] # "wrap") => counter <= Limit
  /\ counter <= Limit => counter = IF handed = <<>> THEN 0 ELSE handed[Len(handed)]
  /\ counter > Limit => handed[Len(handed)] = Limit

Inv == /\ TypeOK /\ Places /\ Managed /\ Counting /\ Distinct /\ Found
       /\ Crossed /\ Closers /\ Rounds
-----------------------------------------------------------------------------
\* The two outcomes of NewStreamIDAuto's Add.
LEMMA Opening ==
  ASSUME TypeOK, NEW c \in Conns, OpenStream(c)
  PROVE  /\ pc[c] = "open" /\ counter' = counter + 1 /\ UNCHANGED <<circuit, sock, crossed, mgr>>
         /\ \/ /\ counter + 1 <= Limit
               /\ pc' = [pc EXCEPT ![c] = "add"] /\ sid' = [sid EXCEPT ![c] = counter + 1]
               /\ handed' = Append(handed, counter + 1) /\ active' = [active EXCEPT ![c] = TRUE]
            \/ /\ counter + 1 > Limit
               /\ pc' = [pc EXCEPT ![c] = "wrap"] /\ UNCHANGED <<sid, handed, active>>
<1>1. counter \in Nat /\ Limit \in Nat  BY ClientAssumption DEF TypeOK
<1> QED  BY <1>1 DEF OpenStream, PastLimit, Return, Go

\* Every step keeps the types: where a reply arrives there is a stream.
LEMMA TypeNext ==
  ASSUME TypeOK, Places, Next
  PROVE  TypeOK'
<1>t. /\ pc \in [Conns -> Phases]
      /\ link \in [Conns -> {"none", "up", "bye", "down"}]
      /\ peer \in [Conns -> {"idle", "live", "ended"}]
      /\ rx \in [Conns -> {"off", "run", "done"}]
      /\ active \in [Conns -> BOOLEAN]
      /\ sock \in [Conns -> Conns \union {NoConn}]
      /\ mgr \in [StreamIDs -> Conns \union {NoConn}]
      /\ counter \in Nat
      /\ sid \in [Conns -> StreamIDs \union {0}]
      /\ handed \in Seq(StreamIDs)
      /\ crossed \subseteq Conns \X Conns
  BY DEF TypeOK
<1>p. {"open", "wrap", "add"} \subseteq Phases /\ 1 \in StreamIDs
  BY ClientAssumption DEF Phases, StreamIDs
<1>1. ASSUME NEW c \in Conns, Accept(c) PROVE TypeOK'
  BY <1>1, ClientAssumption DEF Accept, Go, TypeOK, Phases, StreamIDs
<1>2. ASSUME NEW c \in Conns, Request(c) PROVE TypeOK'
  BY <1>2, ClientAssumption DEF Request, Go, ids, TypeOK, Phases, StreamIDs
<1>3. ASSUME NEW c \in Conns, BadRequest(c) PROVE TypeOK'
  BY <1>3, ClientAssumption DEF BadRequest, Go, circuit, ids, TypeOK, Phases, StreamIDs
<1>4. ASSUME NEW c \in Conns, Build(c) PROVE TypeOK'
  BY <1>4, ClientAssumption DEF Build, Go, ids, TypeOK, Phases, StreamIDs
<1>5. ASSUME NEW c \in Conns, BuildFails(c) PROVE TypeOK'
  BY <1>5, ClientAssumption DEF BuildFails, Go, ids, TypeOK, Phases, StreamIDs
<1>6. ASSUME NEW c \in Conns, SendConnect(c) PROVE TypeOK'
  BY <1>6, ClientAssumption DEF SendConnect, Written, Go, circuit, ids, TypeOK, Phases,
        StreamIDs
<1>7. ASSUME NEW c \in Conns, OpenStream(c) PROVE TypeOK'
  <2> DEFINE i == counter + 1
  <2>1. pc[c] = "open" /\ counter' = i /\ UNCHANGED <<circuit, sock, crossed, mgr>>
    BY <1>7, Opening
  <2>2. CASE /\ i <= Limit
             /\ pc' = [pc EXCEPT ![c] = "add"] /\ sid' = [sid EXCEPT ![c] = i]
             /\ handed' = Append(handed, i) /\ active' = [active EXCEPT ![c] = TRUE]
    <3>1. i \in Nat /\ i \in StreamIDs  BY <1>t, <2>2, ClientAssumption DEF StreamIDs
    <3>2. counter' \in Nat /\ handed' \in Seq(StreamIDs)  BY <1>t, <2>1, <2>2, <3>1
    <3>3. /\ pc' \in [Conns -> Phases] /\ sid' \in [Conns -> StreamIDs \union {0}]
          /\ active' \in [Conns -> BOOLEAN]
      BY <1>t, <1>p, <2>2, <3>1
    <3>4. raced' \in BOOLEAN  BY <1>7 DEF OpenStream, TypeOK
    <3> QED  BY <2>1, <3>2, <3>3, <3>4 DEF circuit, TypeOK
  <2>3. CASE /\ i > Limit
             /\ pc' = [pc EXCEPT ![c] = "wrap"] /\ UNCHANGED <<sid, handed, active>>
    <3>1. counter' \in Nat  BY <1>t, <2>1
    <3>2. pc' \in [Conns -> Phases]  BY <1>t, <1>p, <2>3
    <3>3. raced' \in BOOLEAN  BY <1>7 DEF OpenStream, TypeOK
    <3> QED  BY <2>1, <2>3, <3>1, <3>2, <3>3 DEF circuit, TypeOK
  <2> QED  BY <1>7, <2>2, <2>3, Opening
<1>8. ASSUME NEW c \in Conns, WrapCounter(c) PROVE TypeOK'
  <2>1. handed' \in Seq(StreamIDs)  BY <1>t, <1>p, <1>8 DEF WrapCounter, Stored, Return
  <2>2. /\ pc' \in [Conns -> Phases] /\ sid' \in [Conns -> StreamIDs \union {0}]
        /\ active' \in [Conns -> BOOLEAN] /\ counter' \in Nat
    BY <1>t, <1>p, <1>8 DEF WrapCounter, Stored, Return, Go
  <2> QED  BY <1>8, <2>1, <2>2 DEF WrapCounter, circuit, TypeOK
<1>9. ASSUME NEW c \in Conns, Register(c) PROVE TypeOK'
  BY <1>9, ClientAssumption DEF Register, Go, circuit, ids, TypeOK, Phases, StreamIDs
<1>10. ASSUME NEW c \in Conns, SendBegin(c) PROVE TypeOK'
  BY <1>10, ClientAssumption DEF SendBegin, Written, Go, ids, TypeOK, Phases, StreamIDs
<1>11. ASSUME NEW c \in Conns, ReadEOF(c) PROVE TypeOK'
  BY <1>11, ClientAssumption DEF ReadEOF, Go, circuit, ids, TypeOK, Phases, StreamIDs
<1>12. ASSUME NEW c \in Conns, StopRelaying(c) PROVE TypeOK'
  BY <1>12, ClientAssumption DEF StopRelaying, Go, circuit, ids, TypeOK, Phases, StreamIDs
<1>13. ASSUME NEW c \in Conns, CloseStream(c) PROVE TypeOK'
  BY <1>13, ClientAssumption DEF CloseStream, LastStream, Go, ids, TypeOK, Phases, StreamIDs
<1>14. ASSUME NEW c \in Conns, Deregister(c) PROVE TypeOK'
  BY <1>14, ClientAssumption DEF Deregister, Drop, Closed, Go, circuit, ids, TypeOK, Phases,
        StreamIDs
<1>15. ASSUME NEW c \in Conns, Finish(c) PROVE TypeOK'
  BY <1>15, ClientAssumption DEF Finish, Closed, Go, circuit, ids, TypeOK, Phases, StreamIDs
<1>16. ASSUME NEW c \in Conns, RecvData(c) PROVE TypeOK'
  <2>1. sid[c] \in StreamIDs  BY <1>t, <1>16 DEF RecvData, Places
  <2>2. mgr[sid[c]] \in Conns  BY <1>t, <1>16, <2>1 DEF RecvData
  <2>3. crossed' = crossed \/ crossed' = crossed \union {<<c, mgr[sid[c]]>>}  BY <1>16 DEF
        RecvData
  <2>4. crossed' \subseteq Conns \X Conns  BY <1>t, <2>2, <2>3
  <2> QED  BY <1>16, <2>4 DEF RecvData, circuit, ids, TypeOK
<1>17. ASSUME NEW c \in Conns, RecvEnd(c) PROVE TypeOK'
  BY <1>17, ClientAssumption DEF RecvEnd, EndStream, Drop, Closed, ids, TypeOK, Phases,
        StreamIDs
<1>18. ASSUME NEW c \in Conns, RecvLast(c) PROVE TypeOK'
  BY <1>18, ClientAssumption DEF RecvLast, CloseAll, Closed, ids, TypeOK, Phases, StreamIDs
<1>19. ASSUME NEW c \in Conns, LinkLost(c) PROVE TypeOK'
  BY <1>19, ClientAssumption DEF LinkLost, ids, TypeOK, Phases, StreamIDs
<1> QED  BY <1>1, <1>2, <1>3, <1>4, <1>5, <1>6, <1>7, <1>8, <1>9, <1>10, <1>11, <1>12, <1>13,
   <1>14, <1>15, <1>16, <1>17, <1>18, <1>19 DEF Next, Handle

\* What is where, from phase to phase.
LEMMA PlacesNext ==
  ASSUME TypeOK, Places, Managed, Next
  PROVE  Places'
<1>t. /\ pc \in [Conns -> Phases]
      /\ link \in [Conns -> {"none", "up", "bye", "down"}]
      /\ peer \in [Conns -> {"idle", "live", "ended"}]
      /\ rx \in [Conns -> {"off", "run", "done"}]
      /\ active \in [Conns -> BOOLEAN]
      /\ sock \in [Conns -> Conns \union {NoConn}]
      /\ mgr \in [StreamIDs -> Conns \union {NoConn}]
      /\ sid \in [Conns -> StreamIDs \union {0}]
  BY DEF TypeOK
<1>n. counter \in Nat /\ Limit \in Nat /\ Limit > 0  BY ClientAssumption DEF TypeOK
<1> USE <1>t, ClientAssumption DEF Places, Managed, Phases, Early, Active, Registered, StreamIDs
<1>1. ASSUME NEW c \in Conns, Accept(c) PROVE Places'
  BY <1>1 DEF Accept, Go
<1>2. ASSUME NEW c \in Conns, Request(c) PROVE Places'
  BY <1>2 DEF Request, Go, ids
<1>3. ASSUME NEW c \in Conns, BadRequest(c) PROVE Places'
  BY <1>3 DEF BadRequest, Go, circuit, ids
<1>4. ASSUME NEW c \in Conns, Build(c) PROVE Places'
  BY <1>4 DEF Build, Go, ids
<1>5. ASSUME NEW c \in Conns, BuildFails(c) PROVE Places'
  BY <1>5 DEF BuildFails, Go, ids
<1>6. ASSUME NEW c \in Conns, SendConnect(c) PROVE Places'
  BY <1>6 DEF SendConnect, Written, Go, circuit, ids
<1>7. ASSUME NEW c \in Conns, OpenStream(c) PROVE Places'
  <2> DEFINE i == counter + 1
  <2>1. pc[c] = "open" /\ counter' = i /\ UNCHANGED <<circuit, sock, crossed, mgr>>
    BY <1>7, Opening
  <2>2. CASE /\ i <= Limit
             /\ pc' = [pc EXCEPT ![c] = "add"] /\ sid' = [sid EXCEPT ![c] = i]
             /\ handed' = Append(handed, i) /\ active' = [active EXCEPT ![c] = TRUE]
    <3>1. i # 0  BY <1>n
    <3>2. \A d \in Conns \ {c} : pc'[d] = pc[d] /\ sid'[d] = sid[d]  BY <2>2
    <3>3. pc'[c] = "add" /\ sid'[c] = i  BY <2>2
    <3> QED  BY ONLY <1>t, <2>1, <3>1, <3>2, <3>3, Places DEF circuit, Places, Early, Active,
          Registered
  <2>3. CASE /\ i > Limit
             /\ pc' = [pc EXCEPT ![c] = "wrap"] /\ UNCHANGED <<sid, handed, active>>
    BY <2>1, <2>3 DEF circuit
  <2> QED  BY <1>7, <2>2, <2>3, Opening
<1>8. ASSUME NEW c \in Conns, WrapCounter(c) PROVE Places'
  BY <1>8 DEF WrapCounter, Stored, Return, Go, circuit
<1>9. ASSUME NEW c \in Conns, Register(c) PROVE Places'
  BY <1>9 DEF Register, Go, circuit, ids
<1>10. ASSUME NEW c \in Conns, SendBegin(c) PROVE Places'
  BY <1>10 DEF SendBegin, Written, Go, ids
<1>11. ASSUME NEW c \in Conns, ReadEOF(c) PROVE Places'
  BY <1>11 DEF ReadEOF, Go, circuit, ids
<1>12. ASSUME NEW c \in Conns, StopRelaying(c) PROVE Places'
  BY <1>12 DEF StopRelaying, Go, circuit, ids
<1>13. ASSUME NEW c \in Conns, CloseStream(c) PROVE Places'
  <2>1. pc[c] = "close" /\ pc' = [pc EXCEPT ![c] = "remove"]  BY <1>13 DEF CloseStream, Go
  <2>2. active'[c] = FALSE  BY <1>13 DEF CloseStream
  <2>3. link' = [link EXCEPT ![c] = IF @ = "up" THEN "bye" ELSE @]
    BY <1>13, <2>2 DEF CloseStream, LastStream
  <2>4. UNCHANGED <<peer, rx, sock, sid>>  BY <1>13 DEF CloseStream, ids
  <2> QED  BY <2>1, <2>3, <2>4
<1>14. ASSUME NEW c \in Conns, Deregister(c) PROVE Places'
  BY <1>14 DEF Deregister, Drop, Closed, Go, circuit, ids
<1>15. ASSUME NEW c \in Conns, Finish(c) PROVE Places'
  BY <1>15 DEF Finish, Closed, Go, circuit, ids
<1>16. ASSUME NEW c \in Conns, RecvData(c) PROVE Places'
  BY <1>16 DEF RecvData, circuit, ids
<1>17. ASSUME NEW c \in Conns, RecvEnd(c) PROVE Places'
  BY <1>17 DEF RecvEnd, EndStream, Drop, Closed, ids
<1>18. ASSUME NEW c \in Conns, RecvLast(c) PROVE Places'
  BY <1>18 DEF RecvLast, CloseAll, Closed, ids
<1>19. ASSUME NEW c \in Conns, LinkLost(c) PROVE Places'
  BY <1>19 DEF LinkLost, ids
<1> QED  BY <1>1, <1>2, <1>3, <1>4, <1>5, <1>6, <1>7, <1>8, <1>9, <1>10, <1>11, <1>12, <1>13,
   <1>14, <1>15, <1>16, <1>17, <1>18, <1>19 DEF Next, Handle

\* Entries belong to handlers between Add and Remove.
LEMMA ManagedNext ==
  ASSUME TypeOK, Places, Managed, Next
  PROVE  Managed'
<1>t. /\ pc \in [Conns -> Phases]
      /\ peer \in [Conns -> {"idle", "live", "ended"}]
      /\ sock \in [Conns -> Conns \union {NoConn}]
      /\ mgr \in [StreamIDs -> Conns \union {NoConn}]
      /\ sid \in [Conns -> StreamIDs \union {0}]
  BY DEF TypeOK
<1> USE <1>t, ClientAssumption DEF Places, Managed, Phases, Early, Registered
<1>1. ASSUME NEW c \in Conns, Accept(c) PROVE Managed'
  BY <1>1 DEF Accept, Go
<1>2. ASSUME NEW c \in Conns, Request(c) PROVE Managed'
  BY <1>2 DEF Request, Go, ids
<1>3. ASSUME NEW c \in Conns, BadRequest(c) PROVE Managed'
  BY <1>3 DEF BadRequest, Go, circuit, ids
<1>4. ASSUME NEW c \in Conns, Build(c) PROVE Managed'
  BY <1>4 DEF Build, Go, ids
<1>5. ASSUME NEW c \in Conns, BuildFails(c) PROVE Managed'
  BY <1>5 DEF BuildFails, Go, ids
<1>6. ASSUME NEW c \in Conns, SendConnect(c) PROVE Managed'
  BY <1>6 DEF SendConnect, Written, Go, circuit, ids
<1>7. ASSUME NEW c \in Conns, OpenStream(c) PROVE Managed'
  <2> DEFINE i == counter + 1
  <2>1. pc[c] = "open" /\ counter' = i /\ UNCHANGED <<circuit, sock, crossed, mgr>>
    BY <1>7, Opening
  <2>2. CASE /\ i <= Limit
             /\ pc' = [pc EXCEPT ![c] = "add"] /\ sid' = [sid EXCEPT ![c] = i]
             /\ handed' = Append(handed, i) /\ active' = [active EXCEPT ![c] = TRUE]
    BY <2>1, <2>2 DEF circuit
  <2>3. CASE /\ i > Limit
             /\ pc' = [pc EXCEPT ![c] = "wrap"] /\ UNCHANGED <<sid, handed, active>>
    BY <2>1, <2>3 DEF circuit
  <2> QED  BY <1>7, <2>2, <2>3, Opening
<1>8. ASSUME NEW c \in Conns, WrapCounter(c) PROVE Managed'
  BY <1>8 DEF WrapCounter, Stored, Return, Go, circuit
<1>9. ASSUME NEW c \in Conns, Register(c) PROVE Managed'
  BY <1>9 DEF Register, Go, circuit, ids
<1>10. ASSUME NEW c \in Conns, SendBegin(c) PROVE Managed'
  BY <1>10 DEF SendBegin, Written, Go, ids
<1>11. ASSUME NEW c \in Conns, ReadEOF(c) PROVE Managed'
  BY <1>11 DEF ReadEOF, Go, circuit, ids
<1>12. ASSUME NEW c \in Conns, StopRelaying(c) PROVE Managed'
  BY <1>12 DEF StopRelaying, Go, circuit, ids
<1>13. ASSUME NEW c \in Conns, CloseStream(c) PROVE Managed'
  BY <1>13 DEF CloseStream, LastStream, Go, ids
<1>14. ASSUME NEW c \in Conns, Deregister(c) PROVE Managed'
  BY <1>14 DEF Deregister, Drop, Closed, Go, circuit, ids
<1>15. ASSUME NEW c \in Conns, Finish(c) PROVE Managed'
  BY <1>15 DEF Finish, Closed, Go, circuit, ids
<1>16. ASSUME NEW c \in Conns, RecvData(c) PROVE Managed'
  BY <1>16 DEF RecvData, circuit, ids
<1>17. ASSUME NEW c \in Conns, RecvEnd(c) PROVE Managed'
  BY <1>17 DEF RecvEnd, EndStream, Drop, Closed, ids
<1>18. ASSUME NEW c \in Conns, RecvLast(c) PROVE Managed'
  BY <1>18 DEF RecvLast, CloseAll, Closed, ids
<1>19. ASSUME NEW c \in Conns, LinkLost(c) PROVE Managed'
  BY <1>19 DEF LinkLost, ids
<1> QED  BY <1>1, <1>2, <1>3, <1>4, <1>5, <1>6, <1>7, <1>8, <1>9, <1>10, <1>11, <1>12, <1>13,
   <1>14, <1>15, <1>16, <1>17, <1>18, <1>19 DEF Next, Handle

\* In the first round the counter is the number of identifiers handed out.
LEMMA CountingNext ==
  ASSUME TypeOK, Counting, Next
  PROVE  Counting'
<1>t. /\ pc \in [Conns -> Phases]
      /\ counter \in Nat
      /\ handed \in Seq(StreamIDs)
  BY DEF TypeOK
<1> USE <1>t, ClientAssumption DEF Counting, FirstRound
<1>1. ASSUME NEW c \in Conns, OpenStream(c) PROVE Counting'
  <2> DEFINE i == counter + 1
  <2>1. pc[c] = "open" /\ counter' = i /\ UNCHANGED <<circuit, sock, crossed, mgr>>
    BY <1>1, Opening
  <2>2. CASE /\ i <= Limit
             /\ pc' = [pc EXCEPT ![c] = "add"] /\ sid' = [sid EXCEPT ![c] = i]
             /\ handed' = Append(handed, i) /\ active' = [active EXCEPT ![c] = TRUE]
    BY <2>1, <2>2 DEF circuit
  <2>3. CASE /\ i > Limit
             /\ pc' = [pc EXCEPT ![c] = "wrap"] /\ UNCHANGED <<sid, handed, active>>
    BY <2>1, <2>3 DEF circuit
  <2> QED  BY <1>1, <2>2, <2>3, Opening
<1>2. ASSUME NEW c \in Conns, WrapCounter(c) PROVE Counting'
  BY <1>2 DEF WrapCounter, Stored, Return, Go, circuit
<1> DEFINE Idle == /\ UNCHANGED <<counter, handed>>
                  /\ \A d \in Conns : pc'[d] = "wrap" => pc[d] = "wrap"
<1>3. ASSUME NEW c \in Conns,
                Accept(c) \/ Request(c) \/ BadRequest(c) \/ Build(c) \/ BuildFails(c) \/
                SendConnect(c) \/ Register(c) \/ SendBegin(c) \/ ReadEOF(c) \/ StopRelaying(c)
             \/ CloseStream(c) \/ Deregister(c) \/ Finish(c) \/ RecvData(c) \/ RecvEnd(c)
             \/ RecvLast(c) \/ LinkLost(c)
      PROVE  Idle
  BY <1>3 DEF Accept, Request, BadRequest, Build, BuildFails, SendConnect, Register, SendBegin,
     ReadEOF, StopRelaying, CloseStream, Deregister, Finish, RecvData, RecvEnd, RecvLast,
     LinkLost, Written, LastStream, Drop, Closed, EndStream, CloseAll, Go, circuit, ids
<1>i. ASSUME Idle PROVE Counting'
  BY <1>i
<1> QED  BY <1>i, <1>1, <1>2, <1>3 DEF Next, Handle

\* In the first round no identifier is handed out twice.
LEMMA DistinctNext ==
  ASSUME TypeOK, Places, Counting, Distinct, Next
  PROVE  Distinct'
<1>t. /\ pc \in [Conns -> Phases]
      /\ counter \in Nat
      /\ sid \in [Conns -> StreamIDs \union {0}]
      /\ handed \in Seq(StreamIDs)
  BY DEF TypeOK
<1> USE <1>t, ClientAssumption DEF Places, Counting, Distinct, FirstRound, Early, StreamIDs
<1>1. ASSUME NEW c \in Conns, Accept(c) PROVE Distinct'
  BY <1>1 DEF Accept, Go
<1>2. ASSUME NEW c \in Conns, OpenStream(c) PROVE Distinct'
  <2> DEFINE i == counter + 1
  <2>1. pc[c] = "open" /\ counter' = i /\ UNCHANGED <<circuit, sock, crossed, mgr>>
    BY <1>2, Opening
  <2>2. CASE /\ i <= Limit
             /\ pc' = [pc EXCEPT ![c] = "add"] /\ sid' = [sid EXCEPT ![c] = i]
             /\ handed' = Append(handed, i) /\ active' = [active EXCEPT ![c] = TRUE]
    BY <2>1, <2>2 DEF circuit
  <2>3. CASE /\ i > Limit
             /\ pc' = [pc EXCEPT ![c] = "wrap"] /\ UNCHANGED <<sid, handed, active>>
    BY <2>1, <2>3 DEF circuit
  <2> QED  BY <1>2, <2>2, <2>3, Opening
<1>3. ASSUME NEW c \in Conns, WrapCounter(c) PROVE Distinct'
  BY <1>3 DEF WrapCounter, Stored, Return, Go, circuit
<1> DEFINE Idle == UNCHANGED <<sid, handed>>
<1>4. ASSUME NEW c \in Conns,
                Request(c) \/ BadRequest(c) \/ Build(c) \/ BuildFails(c) \/ SendConnect(c) \/
                Register(c) \/ SendBegin(c) \/ ReadEOF(c) \/ StopRelaying(c) \/ CloseStream(c)
             \/ Deregister(c) \/ Finish(c) \/ RecvData(c) \/ RecvEnd(c) \/ RecvLast(c) \/
                LinkLost(c)
      PROVE  Idle
  BY <1>4 DEF Request, BadRequest, Build, BuildFails, SendConnect, Register, SendBegin, ReadEOF,
     StopRelaying, CloseStream, Deregister, Finish, RecvData, RecvEnd, RecvLast, LinkLost,
     Written, LastStream, Drop, Closed, EndStream, CloseAll, Go, circuit, ids
<1>i. ASSUME Idle PROVE Distinct'
  BY <1>i
<1> QED  BY <1>i, <1>1, <1>2, <1>3, <1>4 DEF Next, Handle

\* In the first round an entry is removed or replaced only by the handler it belongs to, or when
\* its connection is closed.
LEMMA FoundNext ==
  ASSUME TypeOK, Places, Managed, Counting, Distinct, Found, Next
  PROVE  Found'
<1>t. /\ pc \in [Conns -> Phases]
      /\ peer \in [Conns -> {"idle", "live", "ended"}]
      /\ sock \in [Conns -> Conns \union {NoConn}]
      /\ mgr \in [StreamIDs -> Conns \union {NoConn}]
      /\ sid \in [Conns -> StreamIDs \union {0}]
      /\ handed \in Seq(StreamIDs)
  BY DEF TypeOK
<1> USE <1>t, ClientAssumption DEF Places, Managed, Distinct, Found, FirstRound, Early,
      Registered, StreamIDs
<1>1. ASSUME NEW c \in Conns, Accept(c) PROVE Found'
  BY <1>1 DEF Accept, Go
<1>2. ASSUME NEW c \in Conns, Request(c) PROVE Found'
  BY <1>2 DEF Request, Go, ids
<1>3. ASSUME NEW c \in Conns, BadRequest(c) PROVE Found'
  BY <1>3 DEF BadRequest, Go, circuit, ids
<1>4. ASSUME NEW c \in Conns, Build(c) PROVE Found'
  BY <1>4 DEF Build, Go, ids
<1>5. ASSUME NEW c \in Conns, BuildFails(c) PROVE Found'
  BY <1>5 DEF BuildFails, Go, ids
<1>6. ASSUME NEW c \in Conns, SendConnect(c) PROVE Found'
  BY <1>6 DEF SendConnect, Written, Go, circuit, ids
<1>7. ASSUME NEW c \in Conns, OpenStream(c) PROVE Found'
  <2> DEFINE i == counter + 1
  <2>1. pc[c] = "open" /\ counter' = i /\ UNCHANGED <<circuit, sock, crossed, mgr>>
    BY <1>7, Opening
  <2>2. CASE /\ i <= Limit
             /\ pc' = [pc EXCEPT ![c] = "add"] /\ sid' = [sid EXCEPT ![c] = i]
             /\ handed' = Append(handed, i) /\ active' = [active EXCEPT ![c] = TRUE]
    BY <2>1, <2>2 DEF circuit
  <2>3. CASE /\ i > Limit
             /\ pc' = [pc EXCEPT ![c] = "wrap"] /\ UNCHANGED <<sid, handed, active>>
    BY <2>1, <2>3 DEF circuit
  <2> QED  BY <1>7, <2>2, <2>3, Opening
<1>8. ASSUME NEW c \in Conns, WrapCounter(c) PROVE Found'
  BY <1>8 DEF WrapCounter, Stored, Return, Go, circuit
<1>9. ASSUME NEW c \in Conns, Register(c) PROVE Found'
  BY <1>9 DEF Register, Go, circuit, ids
<1>10. ASSUME NEW c \in Conns, SendBegin(c) PROVE Found'
  BY <1>10 DEF SendBegin, Written, Go, ids
<1>11. ASSUME NEW c \in Conns, ReadEOF(c) PROVE Found'
  BY <1>11 DEF ReadEOF, Go, circuit, ids
<1>12. ASSUME NEW c \in Conns, StopRelaying(c) PROVE Found'
  BY <1>12 DEF StopRelaying, Go, circuit, ids
<1>13. ASSUME NEW c \in Conns, CloseStream(c) PROVE Found'
  BY <1>13 DEF CloseStream, LastStream, Go, ids
<1>14. ASSUME NEW c \in Conns, Deregister(c) PROVE Found'
  BY <1>14 DEF Deregister, Drop, Closed, Go, circuit, ids
<1>15. ASSUME NEW c \in Conns, Finish(c) PROVE Found'
  BY <1>15 DEF Finish, Closed, Go, circuit, ids
<1>16. ASSUME NEW c \in Conns, RecvData(c) PROVE Found'
  BY <1>16 DEF RecvData, circuit, ids
<1>17. ASSUME NEW c \in Conns, RecvEnd(c) PROVE Found'
  BY <1>17 DEF RecvEnd, EndStream, Drop, Closed, ids
<1>18. ASSUME NEW c \in Conns, RecvLast(c) PROVE Found'
  BY <1>18 DEF RecvLast, CloseAll, Closed, ids
<1>19. ASSUME NEW c \in Conns, LinkLost(c) PROVE Found'
  BY <1>19 DEF LinkLost, ids
<1> QED  BY <1>1, <1>2, <1>3, <1>4, <1>5, <1>6, <1>7, <1>8, <1>9, <1>10, <1>11, <1>12, <1>13,
   <1>14, <1>15, <1>16, <1>17, <1>18, <1>19 DEF Next, Handle

\* A reply that goes astray does so to a stream of the same identifier.
LEMMA CrossedNext ==
  ASSUME TypeOK, Places, Managed, Distinct, Crossed, Next
  PROVE  Crossed'
<1>t. /\ pc \in [Conns -> Phases]
      /\ peer \in [Conns -> {"idle", "live", "ended"}]
      /\ mgr \in [StreamIDs -> Conns \union {NoConn}]
      /\ sid \in [Conns -> StreamIDs \union {0}]
      /\ handed \in Seq(StreamIDs)
      /\ crossed \subseteq Conns \X Conns
  BY DEF TypeOK
<1> USE <1>t, ClientAssumption DEF Places, Managed, Distinct, Crossed, Same, FirstRound, Early,
      Registered, StreamIDs
<1>1. ASSUME NEW c \in Conns, Accept(c) PROVE Crossed'
  BY <1>1 DEF Accept, Go
<1>2. ASSUME NEW c \in Conns, OpenStream(c) PROVE Crossed'
  <2> DEFINE i == counter + 1
  <2>1. pc[c] = "open" /\ counter' = i /\ UNCHANGED <<circuit, sock, crossed, mgr>>
    BY <1>2, Opening
  <2>2. CASE /\ i <= Limit
             /\ pc' = [pc EXCEPT ![c] = "add"] /\ sid' = [sid EXCEPT ![c] = i]
             /\ handed' = Append(handed, i) /\ active' = [active EXCEPT ![c] = TRUE]
    BY <2>1, <2>2 DEF circuit
  <2>3. CASE /\ i > Limit
             /\ pc' = [pc EXCEPT ![c] = "wrap"] /\ UNCHANGED <<sid, handed, active>>
    BY <2>1, <2>3 DEF circuit
  <2> QED  BY <1>2, <2>2, <2>3, Opening
<1>3. ASSUME NEW c \in Conns, WrapCounter(c) PROVE Crossed'
  BY <1>3 DEF WrapCounter, Stored, Return, Go, circuit
<1>4. ASSUME NEW c \in Conns, RecvData(c) PROVE Crossed'
  BY <1>4 DEF RecvData, circuit, ids
<1> DEFINE Idle == UNCHANGED <<crossed, sid, handed>>
<1>5. ASSUME NEW c \in Conns,
                Request(c) \/ BadRequest(c) \/ Build(c) \/ BuildFails(c) \/ SendConnect(c) \/
                Register(c) \/ SendBegin(c) \/ ReadEOF(c) \/ StopRelaying(c) \/ CloseStream(c)
             \/ Deregister(c) \/ Finish(c) \/ RecvEnd(c) \/ RecvLast(c) \/ LinkLost(c)
      PROVE  Idle
  BY <1>5 DEF Request, BadRequest, Build, BuildFails, SendConnect, Register, SendBegin, ReadEOF,
     StopRelaying, CloseStream, Deregister, Finish, RecvEnd, RecvLast, LinkLost, Written,
     LastStream, Drop, Closed, EndStream, CloseAll, Go, circuit, ids
<1>i. ASSUME Idle PROVE Crossed'
  BY <1>i
<1> QED  BY <1>i, <1>1, <1>2, <1>3, <1>4, <1>5 DEF Next, Handle

\* Another circuit's loop closes a connection at its own end, or under a shared identifier.
LEMMA ClosersNext ==
  ASSUME TypeOK, Places, Managed, Distinct, Closers, Next
  PROVE  Closers'
<1>t. /\ pc \in [Conns -> Phases]
      /\ peer \in [Conns -> {"idle", "live", "ended"}]
      /\ rx \in [Conns -> {"off", "run", "done"}]
      /\ sock \in [Conns -> Conns \union {NoConn}]
      /\ mgr \in [StreamIDs -> Conns \union {NoConn}]
      /\ sid \in [Conns -> StreamIDs \union {0}]
      /\ handed \in Seq(StreamIDs)
  BY DEF TypeOK
<1> USE <1>t, ClientAssumption DEF Places, Managed, Distinct, Closers, Same, FirstRound, Early,
      Registered, StreamIDs
<1>1. ASSUME NEW c \in Conns, Accept(c) PROVE Closers'
  BY <1>1 DEF Accept, Go
<1>2. ASSUME NEW c \in Conns, Request(c) PROVE Closers'
  BY <1>2 DEF Request, Go, ids
<1>3. ASSUME NEW c \in Conns, BadRequest(c) PROVE Closers'
  BY <1>3 DEF BadRequest, Go, circuit, ids
<1>4. ASSUME NEW c \in Conns, Build(c) PROVE Closers'
  BY <1>4 DEF Build, Go, ids
<1>5. ASSUME NEW c \in Conns, BuildFails(c) PROVE Closers'
  BY <1>5 DEF BuildFails, Go, ids
<1>6. ASSUME NEW c \in Conns, SendConnect(c) PROVE Closers'
  BY <1>6 DEF SendConnect, Written, Go, circuit, ids
<1>7. ASSUME NEW c \in Conns, OpenStream(c) PROVE Closers'
  <2> DEFINE i == counter + 1
  <2>1. pc[c] = "open" /\ counter' = i /\ UNCHANGED <<circuit, sock, crossed, mgr>>
    BY <1>7, Opening
  <2>2. CASE /\ i <= Limit
             /\ pc' = [pc EXCEPT ![c] = "add"] /\ sid' = [sid EXCEPT ![c] = i]
             /\ handed' = Append(handed, i) /\ active' = [active EXCEPT ![c] = TRUE]
    BY <2>1, <2>2 DEF circuit
  <2>3. CASE /\ i > Limit
             /\ pc' = [pc EXCEPT ![c] = "wrap"] /\ UNCHANGED <<sid, handed, active>>
    BY <2>1, <2>3 DEF circuit
  <2> QED  BY <1>7, <2>2, <2>3, Opening
<1>8. ASSUME NEW c \in Conns, WrapCounter(c) PROVE Closers'
  BY <1>8 DEF WrapCounter, Stored, Return, Go, circuit
<1>9. ASSUME NEW c \in Conns, Register(c) PROVE Closers'
  BY <1>9 DEF Register, Go, circuit, ids
<1>10. ASSUME NEW c \in Conns, SendBegin(c) PROVE Closers'
  BY <1>10 DEF SendBegin, Written, Go, ids
<1>11. ASSUME NEW c \in Conns, ReadEOF(c) PROVE Closers'
  BY <1>11 DEF ReadEOF, Go, circuit, ids
<1>12. ASSUME NEW c \in Conns, StopRelaying(c) PROVE Closers'
  BY <1>12 DEF StopRelaying, Go, circuit, ids
<1>13. ASSUME NEW c \in Conns, CloseStream(c) PROVE Closers'
  BY <1>13 DEF CloseStream, LastStream, Go, ids
<1>14. ASSUME NEW c \in Conns, Deregister(c) PROVE Closers'
  BY <1>14 DEF Deregister, Drop, Closed, Go, circuit, ids
<1>15. ASSUME NEW c \in Conns, Finish(c) PROVE Closers'
  BY <1>15 DEF Finish, Closed, Go, circuit, ids
<1>16. ASSUME NEW c \in Conns, RecvData(c) PROVE Closers'
  BY <1>16 DEF RecvData, circuit, ids
<1>17. ASSUME NEW c \in Conns, RecvEnd(c) PROVE Closers'
  BY <1>17 DEF RecvEnd, EndStream, Drop, Closed, ids
<1>18. ASSUME NEW c \in Conns, RecvLast(c) PROVE Closers'
  BY <1>18 DEF RecvLast, CloseAll, Closed, ids
<1>19. ASSUME NEW c \in Conns, LinkLost(c) PROVE Closers'
  BY <1>19 DEF LinkLost, ids
<1> QED  BY <1>1, <1>2, <1>3, <1>4, <1>5, <1>6, <1>7, <1>8, <1>9, <1>10, <1>11, <1>12, <1>13,
   <1>14, <1>15, <1>16, <1>17, <1>18, <1>19 DEF Next, Handle
-----------------------------------------------------------------------------
\* One more identifier, the next one or the first.
LEMMA OneMore ==
  ASSUME NEW s \in Seq(StreamIDs), Stepwise(s), NEW v \in StreamIDs,
         s # <<>> => v = s[Len(s)] + 1 \/ (s[Len(s)] = Limit /\ v = 1)
  PROVE  Stepwise(Append(s, v))
<1> DEFINE t == Append(s, v)
           n == Len(s)
<1>1. /\ n \in Nat /\ Limit \in Nat /\ v \in Nat /\ DOMAIN s = 1..n /\ DOMAIN t = 1..(n + 1)
      /\ \A k \in 1..n : s[k] \in 1..Limit /\ t[k] = s[k]
      /\ t[n + 1] = v
  BY ClientAssumption DEF StreamIDs
<1> SUFFICES ASSUME NEW i \in 1..n, NEW j \in 1..(n + 1), i < j, j - i < Limit
             PROVE  t[j] = t[i] + (j - i) \/ t[j] = t[i] + (j - i) - Limit
  <2> HIDE DEF t, n
  <2>1. Stepwise(t)
    <3> SUFFICES ASSUME NEW i \in 1..(n + 1), NEW j \in 1..(n + 1), i < j, j - i < Limit
                 PROVE  t[j] = t[i] + (j - i) \/ t[j] = t[i] + (j - i) - Limit
      BY <1>1 DEF Stepwise
    <3>1. i \in 1..n  BY <1>1
    <3> QED  BY <3>1
  <2> QED  BY <2>1 DEF t
<1>2. \A k, l \in 1..n : k < l /\ l - k < Limit =>
        s[l] = s[k] + (l - k) \/ s[l] = s[k] + (l - k) - Limit
  BY <1>1 DEF Stepwise
<1> HIDE DEF t, n
<1>3. CASE j <= n  BY <1>1, <1>2, <1>3
<1>4. CASE j = n + 1 /\ i = n
  <2>1. v = s[n] + 1 \/ (s[n] = Limit /\ v = 1)  BY <1>1, <1>4 DEF n
  <2> QED  BY <1>1, <1>4, <2>1
<1>5. CASE j = n + 1 /\ i < n
  <2>1. v = s[n] + 1 \/ (s[n] = Limit /\ v = 1)  BY <1>1, <1>5 DEF n
  <2>2. n \in 1..n /\ i < n /\ n - i < Limit  BY <1>1, <1>5
  <2>3. s[n] = s[i] + (n - i) \/ s[n] = s[i] + (n - i) - Limit  BY <1>2, <2>2
  <2>4. s[i] \in 1..Limit /\ s[n] \in 1..Limit /\ t[j] = v /\ t[i] = s[i]  BY <1>1, <1>5
  <2>5. v = s[i] + (n + 1 - i) \/ v = s[i] + (n + 1 - i) - Limit
    <3> DEFINE a == s[i]
               b == s[n]
    <3>1. /\ a \in Nat /\ b \in Nat /\ i \in Nat /\ a > 0 /\ a <= Limit
          /\ v = b + 1 \/ (b = Limit /\ v = 1)
          /\ b = a + (n - i) \/ b = a + (n - i) - Limit
      BY SMTT(30), <1>1, <2>1, <2>3, <2>4
    <3> HIDE DEF a, b
    <3>2. v = a + (n + 1 - i) \/ v = a + (n + 1 - i) - Limit  BY <1>1, <2>2, <3>1
    <3> QED  BY <3>2 DEF a
  <2>6. j - i = n + 1 - i  BY <1>1, <1>5
  <2> QED  BY <2>4, <2>5, <2>6
<1> QED  BY <1>1, <1>3, <1>4, <1>5

\* Identifiers come one after another unless two calls meet at the limit.
LEMMA RoundsNext ==
  ASSUME TypeOK, Rounds, Next
  PROVE  Rounds'
<1>t. /\ pc \in [Conns -> Phases]
      /\ counter \in Nat
      /\ handed \in Seq(StreamIDs)
  BY DEF TypeOK
<1>n. Limit \in Nat /\ Limit > 0  BY ClientAssumption
<1>1. ASSUME NEW c \in Conns, OpenStream(c) PROVE Rounds'
  <2> SUFFICES ASSUME ~raced' PROVE Rounds'  BY DEF Rounds
  <2> DEFINE i == counter + 1
  <2>1. /\ ~raced /\ \A d \in Conns : pc[d] # "wrap"  BY <1>1 DEF OpenStream
  <2>2. /\ counter <= Limit /\ Stepwise(handed)
        /\ counter = IF handed = <<>> THEN 0 ELSE handed[Len(handed)]
    BY <2>1 DEF Rounds
  <2>3. counter' = i  BY <1>1, Opening
  <2>4. CASE i <= Limit /\ pc' = [pc EXCEPT ![c] = "add"] /\ handed' = Append(handed, i)
    <3>1. i \in StreamIDs  BY <1>t, <1>n, <2>4 DEF StreamIDs
    <3>2. Stepwise(handed')  BY <1>t, <2>2, <2>4, <3>1, OneMore
    <3>3. \A d \in Conns : pc'[d] # "wrap"  BY <1>t, <2>1, <2>4
    <3>4. handed' # <<>> /\ handed'[Len(handed')] = i  BY <1>t, <2>4, <3>1
    <3> QED  BY <1>t, <1>n, <2>3, <2>4, <3>2, <3>3, <3>4 DEF Rounds
  <2>5. CASE i > Limit /\ pc' = [pc EXCEPT ![c] = "wrap"] /\ handed' = handed
    <3>1. counter = Limit  BY <1>t, <1>n, <2>2, <2>5
    <3>2. handed # <<>> /\ handed[Len(handed)] = Limit  BY <1>n, <2>2, <3>1
    <3>3. pc'[c] = "wrap" /\ \A d \in Conns : pc'[d] = "wrap" => d = c  BY <1>t, <2>1, <2>5
    <3> QED  BY <1>n, <2>2, <2>3, <2>5, <3>1, <3>2, <3>3 DEF Rounds
  <2> QED  BY <1>1, <2>4, <2>5, Opening
<1>2. ASSUME NEW c \in Conns, WrapCounter(c) PROVE Rounds'
  <2> SUFFICES ASSUME ~raced' PROVE Rounds'  BY DEF Rounds
  <2>1. /\ pc[c] = "wrap" /\ pc' = [pc EXCEPT ![c] = "add"] /\ raced' = raced
        /\ counter' = 1 /\ handed' = Append(handed, 1)
    BY <1>2 DEF WrapCounter, Go, Stored, Return
  <2>2. /\ Stepwise(handed) /\ counter = Limit + 1 /\ handed # <<>>
        /\ \A d \in Conns : pc[d] = "wrap" => d = c
    BY <2>1 DEF Rounds
  <2>3. handed[Len(handed)] = Limit  BY <1>n, <2>1, <2>2 DEF Rounds
  <2>4. 1 \in StreamIDs  BY <1>n DEF StreamIDs
  <2>5. Stepwise(handed')  BY <1>t, <2>1, <2>2, <2>3, <2>4, OneMore
  <2>6. \A d \in Conns : pc'[d] # "wrap"  BY <1>t, <2>1, <2>2
  <2>7. handed' # <<>> /\ handed'[Len(handed')] = 1  BY <1>t, <2>1, <2>4
  <2> QED  BY <1>n, <2>1, <2>5, <2>6, <2>7 DEF Rounds
<1> DEFINE Idle == /\ UNCHANGED <<raced, counter, handed>>
                  /\ \A d \in Conns : pc'[d] = "wrap" <=> pc[d] = "wrap"
<1>3. ASSUME NEW c \in Conns,
                Accept(c) \/ Request(c) \/ BadRequest(c) \/ Build(c) \/ BuildFails(c) \/
                SendConnect(c) \/ Register(c) \/ SendBegin(c) \/ ReadEOF(c) \/ StopRelaying(c)
             \/ CloseStream(c) \/ Deregister(c) \/ Finish(c) \/ RecvData(c) \/ RecvEnd(c)
             \/ RecvLast(c) \/ LinkLost(c)
      PROVE  Idle
  BY <1>3, <1>t DEF Accept, Request, BadRequest, Build, BuildFails, SendConnect, Register,
     SendBegin, ReadEOF, StopRelaying, CloseStream, Deregister, Finish, RecvData, RecvEnd,
     RecvLast, LinkLost, Written, LastStream, Drop, Closed, EndStream, CloseAll, Go, circuit,
     ids
<1>i. ASSUME Idle PROVE Rounds'
  BY <1>i DEF Rounds
<1> QED  BY <1>i, <1>1, <1>2, <1>3 DEF Next, Handle
-----------------------------------------------------------------------------
\* The invariant holds in the beginning.
LEMMA InvInit == Init => Inv
<1> SUFFICES ASSUME Init PROVE Inv  OBVIOUS
<1> USE ClientAssumption DEF Init
<1>1. TypeOK
  <2>1. handed \in Seq(StreamIDs)  OBVIOUS
  <2> QED  BY <2>1 DEF TypeOK, Phases
<1>2. Places  BY DEF Places, Early, Active, Registered
<1>3. Managed  BY DEF Managed
<1>4. Counting /\ Distinct  BY DEF Counting, Distinct, FirstRound
<1>5. Found /\ Crossed /\ Closers  BY DEF Found, Crossed, Closers, Registered
<1>6. Rounds  BY DEF Rounds, Stepwise
<1> QED  BY <1>1, <1>2, <1>3, <1>4, <1>5, <1>6 DEF Inv

\* Rounds keep identifiers apart.
LEMMA Apart == TypeOK /\ Rounds => RoundUnique
<1> SUFFICES ASSUME TypeOK, Rounds, ~raced, NEW i \in DOMAIN handed, NEW j \in DOMAIN handed,
                    i < j, j - i < Limit
             PROVE  handed[i] # handed[j]
  BY DEF RoundUnique
<1>1. handed \in Seq(StreamIDs)  BY DEF TypeOK
<1>2. /\ i \in Nat /\ j \in Nat /\ Limit \in Nat /\ handed[i] \in Nat /\ handed[j] \in Nat
  BY <1>1, ClientAssumption DEF StreamIDs
<1>3. handed[j] = handed[i] + (j - i) \/ handed[j] = handed[i] + (j - i) - Limit
  BY DEF Rounds, Stepwise
<1> QED  BY <1>2, <1>3

\* The parts say what the properties do.
LEMMA InvImplies == Inv => /\ Agreement /\ OwnData /\ OwnClose /\ Farewell
<1> SUFFICES ASSUME Inv PROVE /\ Agreement /\ OwnData /\ OwnClose /\ Farewell  OBVIOUS
<1> USE DEF Inv
<1>1. Agreement  BY DEF Agreement, Managed, Found
<1>2. OwnData  BY DEF OwnData, Crossed, Same
<1>3. OwnClose  BY DEF OwnClose, Closers, Same, TypeOK
<1>4. Farewell
  <2>1. \A c \in Conns : link[c] \in {"none", "up", "bye", "down"}  BY DEF TypeOK
  <2> QED  BY <2>1 DEF Farewell, Places, Active, Returned
<1> QED  BY <1>1, <1>2, <1>3, <1>4

\* Every step keeps the invariant.
LEMMA InvNext == Inv /\ [Next]_vars => Inv'
<1> SUFFICES ASSUME Inv, [Next]_vars PROVE Inv'  OBVIOUS
<1> USE DEF Inv
<1>1. CASE Next
  <2>1. TypeOK'  BY <1>1, TypeNext
  <2>2. Places' /\ Managed'  BY <1>1, PlacesNext, ManagedNext
  <2>3. Counting' /\ Distinct'  BY <1>1, CountingNext, DistinctNext
  <2>4. Found' /\ Crossed' /\ Closers'  BY <1>1, FoundNext, CrossedNext, ClosersNext
  <2>5. Rounds'  BY <1>1, RoundsNext
  <2> QED  BY <2>1, <2>2, <2>3, <2>4, <2>5
<1>2. CASE UNCHANGED vars
  <2>1. TypeOK'  BY <1>2 DEF TypeOK, vars, circuit, ids
  <2>2. Places' /\ Managed'  BY <1>2 DEF Places, Managed, vars, circuit, ids
  <2>3. Counting' /\ Distinct'  BY <1>2 DEF Counting, Distinct, FirstRound, vars, ids
  <2>4. Found' /\ Crossed' /\ Closers'
    BY <1>2 DEF Found, Crossed, Closers, Same, FirstRound, vars, circuit, ids
  <2>5. Rounds'  BY <1>2 DEF Rounds, vars, ids
  <2> QED  BY <2>1, <2>2, <2>3, <2>4, <2>5
<1> QED  BY <1>1, <1>2

\* The invariant holds always.
LEMMA Invariant == Spec => []Inv
BY InvInit, InvNext, PTL DEF Spec
-----------------------------------------------------------------------------
\* Every variable has its type; a stream identifier is never 0 and fits its 16 bits
\* (stream_id.go:12-21).
THEOREM ClientTyped == Spec => []TypeOK
<1>1. Inv => TypeOK  BY DEF Inv
<1> QED  BY Invariant, <1>1, PTL

\* An entry of the stream manager is an open connection under the identifier of its stream,
\* with a handler that has yet to remove it, whatever loops close meanwhile; and until the
\* identifiers come round every open connection is found (socks5_controller.go:171-172).
THEOREM ManagerAgrees == Spec => []Agreement
BY Invariant, InvImplies, PTL

\* A reply goes to the application that asked unless two streams have one identifier
\* (socks5_controller.go:287).
THEOREM RepliesOwn == Spec => []OwnData
BY Invariant, InvImplies, PTL

\* The loop of one circuit closes the connection of another only as it ends, or because two
\* streams have one identifier (socks5_controller.go:258-304).
THEOREM ClosesOwn == Spec => []OwnClose
BY Invariant, InvImplies, PTL

\* No handler returns without the control END, unless the circuit's connection is lost
\* (close_stream_usecase.go:51-81).
THEOREM RelaysTold == Spec => []Farewell
BY Invariant, InvImplies, PTL

\* Calls of NewStreamIDAuto that do not meet at the limit return every identifier once in a
\* round, for every limit (stream_id.go:12-21).
THEOREM RoundsUnique == Spec => []RoundUnique
<1>1. Inv => RoundUnique  BY Apart DEF Inv
<1> QED  BY Invariant, <1>1, PTL
-----------------------------------------------------------------------------
(***************************************************************************)
(* The selection of relays, from any repository.  The loops of the code    *)
(* are recursive functions: that there are such functions, and that what   *)
(* holds before a loop and is kept by its body holds after it, comes from  *)
(* the order of the natural numbers, in which every set has a least one.   *)
(***************************************************************************)
\* Every set of naturals that is not empty has a least element.
LEMMA Least ==
  ASSUME NEW T \in SUBSET Nat, T # {}
  PROVE  \E n \in T : \A m \in T : n <= m
<1>1. PICK R : R = OpToRel(<, Nat)  BY Zenon
<1>2. IsWellFoundedOn(R, Nat)  BY <1>1, NatLessThanWellFounded, Zenon
<1>3. PICK n \in T : \A m \in T : ~ (<<m, n>> \in R)  BY <1>2, WFMin
<1>4. \A m \in T : m \in Nat /\ ~(m < n)  BY <1>1, <1>3 DEF OpToRel
<1> QED  BY <1>4

\* Induction, over the set of the numbers for which something holds.
LEMMA Induction ==
  ASSUME NEW S, 0 \in S, \A n \in Nat : n \in S => n + 1 \in S
  PROVE  Nat \subseteq S
<1> SUFFICES ASSUME Nat \ S # {} PROVE FALSE  OBVIOUS
<1>1. PICK n \in Nat \ S : \A m \in Nat \ S : n <= m  BY Least
<1>2. n - 1 \in Nat /\ n - 1 \in S  BY <1>1
<1> QED  BY <1>1, <1>2

\* f[i] is the value in V that a loop over 1..L starting from v has after step i.
Steps(f, V, v, G, L) ==
  f \in [0..L -> V] /\ f[0] = v /\ \A i \in 1..L : f[i] = G[<<i, f[i - 1]>>]

\* There is such a function: definitions by recursion define something.
LEMMA Recursion ==
  ASSUME NEW V, NEW v \in V, NEW G \in [Nat \X V -> V], NEW L \in Nat
  PROVE  \E f : Steps(f, V, v, G, L)
<1> DEFINE P(n) == \E f \in [0..n -> V] : f[0] = v /\ \A i \in 1..n : f[i] = G[<<i, f[i - 1]>>]
           S == { n \in Nat : P(n) }
<1>1. 0 \in S
  <2> DEFINE g == [i \in 0..0 |-> v]
  <2>1. g \in [0..0 -> V] /\ g[0] = v  OBVIOUS
  <2> HIDE DEF g
  <2>2. P(0)  BY <2>1
  <2> QED  BY <2>2
<1>2. ASSUME NEW n \in Nat, n \in S PROVE n + 1 \in S
  <2>1. PICK f \in [0..n -> V] : f[0] = v /\ \A i \in 1..n : f[i] = G[<<i, f[i - 1]>>]
    BY <1>2
  <2> DEFINE g == [i \in 0..n + 1 |-> IF i = n + 1 THEN G[<<n + 1, f[n]>>] ELSE f[i]]
  <2>2. g \in [0..n + 1 -> V]
    <3>1. G[<<n + 1, f[n]>>] \in V  OBVIOUS
    <3> QED  BY <3>1
  <2>3. g[0] = v  BY <2>1
  <2>4. ASSUME NEW i \in 1..n + 1 PROVE g[i] = G[<<i, g[i - 1]>>]
    <3>1. CASE i = n + 1
      <4>1. g[i] = G[<<n + 1, f[n]>>] /\ i - 1 = n /\ g[n] = f[n]  BY <3>1
      <4> QED  BY <3>1, <4>1
    <3>2. CASE i # n + 1
      <4>1. i \in 1..n /\ g[i] = f[i] /\ g[i - 1] = f[i - 1]  BY <3>2
      <4> QED  BY <2>1, <4>1
    <3> QED  BY <3>1, <3>2
  <2> HIDE DEF g
  <2>5. P(n + 1)  BY <2>2, <2>3, <2>4
  <2> QED  BY <2>5
<1> HIDE DEF S
<1>3. L \in S  BY <1>1, <1>2, Induction
<1> QED  BY <1>3 DEF S, Steps

\* AllOnline is a loop over the repository.
LEMMA OnlineLoop ==
  ASSUME NEW X, NEW relays \in Seq(X)
  PROVE  \E kept : /\ AllOnline(relays) = kept[Len(relays)]
                   /\ kept[0] = <<>>
                   /\ \A i \in 1..Len(relays) : kept[i] = Keep(kept[i - 1], relays[i])
<1> DEFINE L == Len(relays)
           V == Seq(X)
           G == [p \in Nat \X V |-> IF p[1] \in 1..L THEN Keep(p[2], relays[p[1]]) ELSE p[2]]
           Loop(f) == f = [i \in 0..L |-> IF i = 0 THEN <<>> ELSE Keep(f[i - 1], relays[i])]
<1>1. L \in Nat /\ <<>> \in V /\ \A i \in 1..L : relays[i] \in X  OBVIOUS
<1>2. G \in [Nat \X V -> V]
  <2>1. ASSUME NEW s \in V, NEW x \in X PROVE Keep(s, x) \in V  BY DEF Keep
  <2> QED  BY <1>1, <2>1
<1>3. \A i \in 1..L, s \in V : G[<<i, s>>] = Keep(s, relays[i])  BY <1>1
<1> HIDE DEF L, V, G
<1>4. PICK f \in [0..L -> V] : f[0] = <<>> /\ \A i \in 1..L : f[i] = G[<<i, f[i - 1]>>]
  <2>1. PICK f : Steps(f, V, <<>>, G, L)  BY <1>1, <1>2, Recursion
  <2> QED  BY <2>1 DEF Steps
<1>5. Loop(f)
  <2>1. ASSUME NEW i \in 1..L PROVE f[i] = Keep(f[i - 1], relays[i])
    <3>1. f[i - 1] \in V  BY <1>1
    <3> QED  BY <1>3, <1>4, <3>1
  <2>2. \A i \in 0..L : i = 0 \/ i \in 1..L  BY <1>1
  <2> QED  BY <1>4, <2>1, <2>2
<1>6. PICK k : k = CHOOSE g : Loop(g)  OBVIOUS
<1>7. Loop(k)
  <2> HIDE DEF Loop
  <2> QED  BY <1>5, <1>6
<1>8. AllOnline(relays) = k[L]  BY <1>6 DEF AllOnline, L
<1>9. k[0] = <<>> /\ \A i \in 1..L : k[i] = Keep(k[i - 1], relays[i])  BY <1>1, <1>7
<1> QED  BY <1>8, <1>9 DEF L

\* What the loop has put in its list after n relays: those online, each once.
OnlineUpTo(s, relays, n) ==
  /\ \A k \in 1..Len(s) : \E i \in 1..n : relays[i].online /\ s[k] = relays[i]
  /\ \A i \in 1..n : relays[i].online => \E k \in 1..Len(s) : s[k] = relays[i]
  /\ \A k, l \in 1..Len(s) : s[k].id = s[l].id => k = l
  /\ Len(s) <= n

LEMMA KeepStep ==
  ASSUME NEW X, NEW relays \in Seq(X), NEW n \in Nat, n + 1 <= Len(relays),
         \A i, j \in 1..Len(relays) : relays[i].id = relays[j].id => i = j,
         NEW s \in Seq(X), OnlineUpTo(s, relays, n)
  PROVE  /\ Keep(s, relays[n + 1]) \in Seq(X)
         /\ OnlineUpTo(Keep(s, relays[n + 1]), relays, n + 1)
<1> DEFINE x == relays[n + 1]
           t == Append(s, x)
<1>1. x \in X /\ n + 1 \in 1..n + 1 /\ \A i \in 1..n + 1 : i \in 1..n \/ i = n + 1  OBVIOUS
<1>2. /\ t \in Seq(X) /\ Len(t) = Len(s) + 1 /\ Len(s) \in Nat
      /\ t[Len(s) + 1] = x /\ \A k \in 1..Len(s) : t[k] = s[k]
  BY <1>1
<1> HIDE DEF t
<1>3. CASE x.online
  <2>1. \A k \in 1..Len(t) : k \in 1..Len(s) \/ k = Len(s) + 1  BY <1>2
  <2>2. \A k \in 1..Len(t) : \E i \in 1..n + 1 : relays[i].online /\ t[k] = relays[i]
    <3> TAKE k \in 1..Len(t)
    <3>1. CASE k \in 1..Len(s)
      <4>1. PICK i \in 1..n : relays[i].online /\ s[k] = relays[i]  BY <3>1 DEF OnlineUpTo
      <4> QED  BY <1>2, <3>1, <4>1
    <3>2. CASE k = Len(s) + 1  BY <1>1, <1>2, <1>3, <3>2
    <3> QED  BY <2>1, <3>1, <3>2
  <2>3. \A i \in 1..n + 1 : relays[i].online => \E k \in 1..Len(t) : t[k] = relays[i]
    <3> SUFFICES ASSUME NEW i \in 1..n + 1, relays[i].online
                 PROVE  \E k \in 1..Len(t) : t[k] = relays[i]
      OBVIOUS
    <3>1. CASE i \in 1..n  BY <1>2, <3>1 DEF OnlineUpTo
    <3>2. CASE i = n + 1
      <4>1. Len(s) + 1 \in 1..Len(t)  BY <1>2
      <4> QED  BY <1>2, <3>2, <4>1
    <3> QED  BY <1>1, <3>1, <3>2
  <2>4. \A k \in 1..Len(s) : s[k].id # x.id
    <3> TAKE k \in 1..Len(s)
    <3>1. PICK i \in 1..n : s[k] = relays[i]  BY DEF OnlineUpTo
    <3> QED  BY <3>1
  <2>5. ASSUME NEW k \in 1..Len(t), NEW l \in 1..Len(t), t[k].id = t[l].id PROVE k = l
    <3>1. CASE k \in 1..Len(s) /\ l \in 1..Len(s)  BY <1>2, <2>5, <3>1 DEF OnlineUpTo
    <3>2. CASE k = Len(s) + 1 \/ l = Len(s) + 1  BY <1>2, <2>1, <2>4, <2>5, <3>2
    <3> QED  BY <2>1, <3>1, <3>2
  <2>6. Keep(s, x) = t  BY <1>3 DEF Keep, t
  <2>7. OnlineUpTo(t, relays, n + 1)
    <3>1. Len(t) <= n + 1  BY <1>2 DEF OnlineUpTo
    <3> QED  BY <2>2, <2>3, <2>5, <3>1 DEF OnlineUpTo
  <2> QED  BY <1>2, <2>6, <2>7
<1>4. CASE ~x.online
  <2>1. Keep(s, x) = s  BY <1>4 DEF Keep
  <2> QED  BY <1>1, <1>4, <2>1 DEF OnlineUpTo
<1> QED  BY <1>3, <1>4

\* AllOnline lists the relays that are online, each once.
LEMMA OnlineList ==
  ASSUME NEW X, NEW relays \in Seq(X), ListedOnce(relays)
  PROVE  AllOnline(relays) \in Seq(X) /\ OnlineUpTo(AllOnline(relays), relays, Len(relays))
<1>1. PICK kept : /\ AllOnline(relays) = kept[Len(relays)]
                  /\ kept[0] = <<>>
                  /\ \A i \in 1..Len(relays) : kept[i] = Keep(kept[i - 1], relays[i])
  BY OnlineLoop
<1>2. \A i, j \in 1..Len(relays) : relays[i].id = relays[j].id => i = j
  BY DEF ListedOnce, IsInjective, Ids
<1>3. Len(relays) \in Nat  OBVIOUS
<1> DEFINE P(n) == kept[n] \in Seq(X) /\ OnlineUpTo(kept[n], relays, n)
           S == { n \in Nat : n <= Len(relays) => P(n) }
<1>4. 0 \in S
  <2>1. P(0)  BY <1>1 DEF OnlineUpTo
  <2> QED  BY <2>1
<1>5. ASSUME NEW n \in Nat, n \in S PROVE n + 1 \in S
  <2> SUFFICES ASSUME n + 1 <= Len(relays) PROVE P(n + 1)  OBVIOUS
  <2>1. P(n)  BY <1>3, <1>5
  <2>2. kept[n + 1] = Keep(kept[n], relays[n + 1])
    <3>1. n + 1 \in 1..Len(relays) /\ (n + 1) - 1 = n  BY <1>3
    <3> QED  BY <1>1, <3>1
  <2> QED  BY <1>2, <2>1, <2>2, KeepStep
<1> HIDE DEF S
<1>6. Len(relays) \in S  BY <1>3, <1>4, <1>5, Induction
<1>7. P(Len(relays))  BY <1>6 DEF S
<1> QED  BY <1>1, <1>7

\* The rearrangements of L places.
Perms(L) == Injection(1..L, 1..L)
\* xs in the order p.
Order(xs, p) == [i \in 1..Len(xs) |-> xs[p[i]]]
AllOrders(xs) == { Order(xs, p) : p \in Perms(Len(xs)) }

LEMMA PermFacts ==
  ASSUME NEW L \in Nat, NEW p \in Perms(L)
  PROVE  /\ p \in [1..L -> 1..L]
         /\ \A i, j \in 1..L : p[i] = p[j] => i = j
         /\ \A k \in 1..L : \E i \in 1..L : p[i] = k
<1>1. p \in Surjection(1..L, 1..L)
  <2>1. IsFiniteSet(1..L)  BY FS_Interval
  <2> QED  BY <2>1, FS_Injection DEF Perms
<1>2. p \in [1..L -> 1..L] /\ \A i, j \in 1..L : p[i] = p[j] => i = j
  BY DEF Perms, Injection, IsInjective
<1> QED  BY <1>1, <1>2 DEF Surjection

\* Swapping two places of an order gives an order.
LEMMA SwapPerm ==
  ASSUME NEW L \in Nat, NEW p \in Perms(L), NEW i \in 1..L, NEW j \in 1..L
  PROVE  Swap(p, i, j) \in Perms(L)
<1>1. p \in [1..L -> 1..L] /\ \A k, l \in 1..L : p[k] = p[l] => k = l  BY PermFacts
<1>2. PICK q : q = Swap(p, i, j)  OBVIOUS
<1>3. q \in [1..L -> 1..L]  BY <1>1, <1>2 DEF Swap
<1>4. \A k \in 1..L : q[k] = IF k = j THEN p[i] ELSE IF k = i THEN p[j] ELSE p[k]
  BY <1>1, <1>2 DEF Swap
<1>5. \A k, l \in 1..L : q[k] = q[l] => k = l  BY <1>1, <1>4
<1> QED  BY <1>2, <1>3, <1>5 DEF Perms, Injection, IsInjective

LEMMA SwapOrder ==
  ASSUME NEW X, NEW xs \in Seq(X), NEW p \in Perms(Len(xs)),
         NEW i \in 1..Len(xs), NEW j \in 1..Len(xs)
  PROVE  Swap(Order(xs, p), i, j) = Order(xs, Swap(p, i, j))
<1>1. p \in [1..Len(xs) -> 1..Len(xs)]  BY PermFacts
<1>2. PICK q : q = Swap(p, i, j)  OBVIOUS
<1>3. \A k \in 1..Len(xs) : q[k] = IF k = j THEN p[i] ELSE IF k = i THEN p[j] ELSE p[k]
  BY <1>1, <1>2 DEF Swap
<1>4. PICK ys : ys = Order(xs, p)  OBVIOUS
<1>5. \A k \in 1..Len(xs) : ys[k] = xs[p[k]]  BY <1>4 DEF Order
<1>6. Swap(ys, i, j) =
        [k \in 1..Len(xs) |-> IF k = j THEN ys[i] ELSE IF k = i THEN ys[j] ELSE ys[k]]
  BY <1>4 DEF Swap, Order
<1>7. \A k \in 1..Len(xs) : (IF k = j THEN ys[i] ELSE IF k = i THEN ys[j] ELSE ys[k]) = xs[q[k]]
  BY <1>3, <1>5
<1>8. Order(xs, q) = [k \in 1..Len(xs) |-> xs[q[k]]]  BY DEF Order
<1> HIDE DEF Swap, Order
<1> QED  BY <1>2, <1>4, <1>6, <1>7, <1>8

\* Some places can be chosen first, and the others follow in some order.
LEMMA Completed ==
  ASSUME NEW L \in Nat, NEW m \in 0..L, NEW f \in Injection(1..m, 1..L)
  PROVE  \E p \in Perms(L) : \A i \in 1..m : p[i] = f[i]
<1>1. f \in [1..m -> 1..L] /\ \A i, j \in 1..m : f[i] = f[j] => i = j
  BY DEF Injection, IsInjective
<1> DEFINE A == { f[i] : i \in 1..m }
           B == (1..L) \ A
<1>2. /\ IsFiniteSet(1..m) /\ Cardinality(1..m) = m
      /\ IsFiniteSet(1..L) /\ Cardinality(1..L) = L
      /\ IsFiniteSet(m + 1..L) /\ Cardinality(m + 1..L) = L - m
  <2>1. ASSUME NEW a \in Int, NEW b \in Int, a <= b + 1
        PROVE  IsFiniteSet(a..b) /\ Cardinality(a..b) = b - a + 1
    <3>1. IsFiniteSet(a..b) /\ Cardinality(a..b) = IF a > b THEN 0 ELSE b - a + 1
      BY FS_Interval
    <3> QED  BY <2>1, <3>1
  <2>2. m \in Int /\ L \in Int /\ m + 1 <= L + 1 /\ 1 <= m + 1 /\ 1 <= L + 1 /\ m + 1 \in Int
    OBVIOUS
  <2>3. IsFiniteSet(1..m) /\ Cardinality(1..m) = m - 1 + 1  BY <2>1, <2>2
  <2>4. IsFiniteSet(1..L) /\ Cardinality(1..L) = L - 1 + 1  BY <2>1, <2>2
  <2>5. IsFiniteSet(m + 1..L) /\ Cardinality(m + 1..L) = L - (m + 1) + 1  BY <2>1, <2>2
  <2> QED  BY <2>3, <2>4, <2>5
<1>3. IsFiniteSet(A) /\ Cardinality(A) = m
  <2>1. f \in Bijection(1..m, A)  BY <1>1 DEF Bijection, Injection, Surjection, IsInjective
  <2>2. ExistsBijection(1..m, A)  BY <2>1 DEF ExistsBijection
  <2> QED  BY <1>2, <2>2, FS_Bijection
<1>4. IsFiniteSet(B) /\ Cardinality(B) = L - m
  <2>1. (1..L) \cap A = A  BY <1>1
  <2> HIDE DEF A
  <2>2. /\ IsFiniteSet((1..L) \ A)
        /\ Cardinality((1..L) \ A) = Cardinality(1..L) - Cardinality((1..L) \cap A)
    BY <1>2, FS_Difference
  <2> QED  BY <1>2, <1>3, <2>1, <2>2
<1>5. PICK g : g \in Bijection(m + 1..L, B)
  BY <1>2, <1>4, FS_SameCardinalityBij DEF ExistsBijection
<1>6. g \in [m + 1..L -> B] /\ \A i, j \in m + 1..L : g[i] = g[j] => i = j
  BY <1>5 DEF Bijection, Injection, IsInjective
<1>7. PICK p : p = [i \in 1..L |-> IF i <= m THEN f[i] ELSE g[i]]  OBVIOUS
<1>8. \A i \in 1..L : \/ i \in 1..m /\ p[i] = f[i] /\ p[i] \in A
                      \/ i \in m + 1..L /\ p[i] = g[i] /\ p[i] \in B
  <2> TAKE i \in 1..L
  <2>1. CASE i <= m  BY <1>7, <2>1
  <2>2. CASE ~(i <= m)
    <3>1. i \in m + 1..L  BY <2>2
    <3> QED  BY <1>6, <1>7, <2>2, <3>1
  <2> QED  BY <2>1, <2>2
<1>9. A \subseteq 1..L /\ A \cap B = {}  BY <1>1
<1> HIDE DEF A, B
<1>10. p \in [1..L -> 1..L]
  <2>1. \A i \in 1..L : p[i] \in 1..L  BY <1>8, <1>9 DEF B
  <2> QED  BY <1>7, <2>1
<1>11. \A i, j \in 1..L : p[i] = p[j] => i = j  BY <1>1, <1>6, <1>8, <1>9
<1>12. \A i \in 1..m : p[i] = f[i]  BY <1>7
<1>13. p \in Perms(L)  BY <1>10, <1>11 DEF Perms, Injection, IsInjective
<1> QED  BY <1>12, <1>13

LEMMA CandidatesBound ==
  ASSUME NEW L \in Nat, NEW i \in 1..L
  PROVE  /\ Candidates(i) \subseteq 1..i /\ Candidates(i) \subseteq 1..L
         /\ L <= Draws => Candidates(i) = 1..i
BY DEF Candidates, Draws

\* A step of the shuffle makes orders out of orders.
LEMMA DrawnOrders ==
  ASSUME NEW X, NEW xs \in Seq(X), NEW T \in SUBSET AllOrders(xs), NEW i \in 1..Len(xs)
  PROVE  Drawn(T, i) \in SUBSET AllOrders(xs)
<1> SUFFICES ASSUME NEW ys \in T, NEW j \in Candidates(i)
             PROVE  Swap(ys, i, j) \in AllOrders(xs)
  BY DEF Drawn
<1>1. PICK p \in Perms(Len(xs)) : ys = Order(xs, p)  BY DEF AllOrders
<1>2. Len(xs) \in Nat  OBVIOUS
<1>3. j \in 1..Len(xs)  BY <1>2, CandidatesBound
<1>4. Swap(ys, i, j) = Order(xs, Swap(p, i, j))  BY <1>1, <1>3, SwapOrder
<1>5. Swap(p, i, j) \in Perms(Len(xs))  BY <1>2, <1>3, SwapPerm
<1> QED  BY <1>4, <1>5 DEF AllOrders

\* The order that leaves all as it is.
LEMMA Unmoved ==
  ASSUME NEW X, NEW xs \in Seq(X)
  PROVE  /\ [i \in 1..Len(xs) |-> i] \in Perms(Len(xs))
         /\ Order(xs, [i \in 1..Len(xs) |-> i]) = xs
<1>1. xs = [i \in 1..Len(xs) |-> xs[i]]  OBVIOUS
<1>2. Order(xs, [i \in 1..Len(xs) |-> i]) = [i \in 1..Len(xs) |-> xs[i]]  BY DEF Order
<1>3. [i \in 1..Len(xs) |-> i] \in Perms(Len(xs))  BY DEF Perms, Injection, IsInjective
<1> QED  BY <1>1, <1>2, <1>3

\* secureShuffle is a loop from the last place down to the second.
LEMMA ShuffleLoop ==
  ASSUME NEW X, NEW xs \in Seq(X), Len(xs) >= 2
  PROVE  \E from : /\ Shuffled(xs) = from[2]
                   /\ from[Len(xs) + 1] = {xs}
                   /\ \A i \in 2..Len(xs) : from[i] = Drawn(from[i + 1], i)
<1> DEFINE L == Len(xs)
           V == SUBSET AllOrders(xs)
           G == [p \in Nat \X V |-> IF p[1] \in 1..L - 1 THEN Drawn(p[2], L + 1 - p[1]) ELSE p[2]]
           Loop(f) == f = [i \in 2..L + 1 |-> IF i > L THEN {xs} ELSE Drawn(f[i + 1], i)]
<1>1. L \in Nat /\ L >= 2 /\ L - 1 \in Nat /\ {xs} \in V
  <2>1. xs \in AllOrders(xs)  BY Unmoved DEF AllOrders
  <2> QED  BY <2>1
<1>2. \A i \in 1..L, T \in V : Drawn(T, i) \in V  BY DrawnOrders
<1>3. G \in [Nat \X V -> V]
  <2>1. \A n \in 1..L - 1 : L + 1 - n \in 1..L  BY <1>1
  <2> HIDE DEF V, L
  <2> QED  BY <1>2, <2>1
<1>4. \A n \in 1..L - 1, T \in V : G[<<n, T>>] = Drawn(T, L + 1 - n)
  <2>1. \A n \in 1..L - 1 : n \in Nat  OBVIOUS
  <2> HIDE DEF V, L
  <2> QED  BY <2>1
<1>a. Shuffled(xs) = LET k == CHOOSE g : Loop(g) IN k[2]  BY <1>1 DEF Shuffled
<1> HIDE DEF L, V, G
<1>5. PICK f \in [0..L - 1 -> V] : f[0] = {xs} /\ \A n \in 1..L - 1 : f[n] = G[<<n, f[n - 1]>>]
  <2>1. PICK f : Steps(f, V, {xs}, G, L - 1)  BY <1>1, <1>3, Recursion
  <2> QED  BY <2>1 DEF Steps
<1>6. PICK g : g = [i \in 2..L + 1 |-> f[L + 1 - i]]  OBVIOUS
<1>7. Loop(g)
  <2>1. ASSUME NEW i \in 2..L PROVE g[i] = Drawn(g[i + 1], i)
    <3>1. i \in 2..L + 1 /\ i + 1 \in 2..L + 1 /\ L + 1 - i \in 1..L - 1 /\ L + 1 - (L + 1 - i) = i
          /\ L + 1 - (i + 1) = (L + 1 - i) - 1 /\ (L + 1 - i) - 1 \in 0..L - 1
      BY <1>1
    <3>2. g[i] = f[L + 1 - i] /\ g[i + 1] = f[(L + 1 - i) - 1]  BY <1>6, <3>1
    <3>3. f[(L + 1 - i) - 1] \in V  BY <1>5, <3>1
    <3>4. f[L + 1 - i] = G[<<L + 1 - i, f[(L + 1 - i) - 1]>>]  BY <1>5, <3>1
    <3>5. G[<<L + 1 - i, f[(L + 1 - i) - 1]>>] = Drawn(f[(L + 1 - i) - 1], i)
      BY <1>4, <3>1, <3>3
    <3> QED  BY <3>2, <3>4, <3>5
  <2>2. g[L + 1] = {xs}
    <3>1. L + 1 \in 2..L + 1 /\ L + 1 - (L + 1) = 0  BY <1>1
    <3> QED  BY <1>5, <1>6, <3>1
  <2>3. \A i \in 2..L + 1 : IF i > L THEN i = L + 1 ELSE i \in 2..L  BY <1>1
  <2>4. g = [i \in 2..L + 1 |-> g[i]]  BY <1>6
  <2>5. \A i \in 2..L + 1 : g[i] = IF i > L THEN {xs} ELSE Drawn(g[i + 1], i)
    BY <2>1, <2>2, <2>3
  <2> QED  BY <2>4, <2>5
<1>8. PICK k : k = CHOOSE h : Loop(h)  OBVIOUS
<1>9. Loop(k)
  <2> HIDE DEF Loop
  <2> QED  BY <1>7, <1>8
<1>10. Shuffled(xs) = k[2]  BY <1>8, <1>a
<1>11. k[L + 1] = {xs} /\ \A i \in 2..L : k[i] = Drawn(k[i + 1], i)  BY <1>1, <1>9
<1> QED  BY <1>10, <1>11 DEF L

\* Every order can still come up, as far as the places from i on are concerned.
Reached(orders, xs, i) ==
  \A p \in Perms(Len(xs)) : \E q \in Perms(Len(xs)) :
    Order(xs, q) \in orders /\ \A k \in i..Len(xs) : q[k] = p[k]

LEMMA DrawnReached ==
  ASSUME NEW X, NEW xs \in Seq(X), Len(xs) <= Draws, NEW i \in 1..Len(xs), NEW T,
         Reached(T, xs, i + 1)
  PROVE  Reached(Drawn(T, i), xs, i)
<1> DEFINE L == Len(xs)
<1>1. L \in Nat  OBVIOUS
<1> SUFFICES ASSUME NEW p \in Perms(L)
             PROVE  \E q \in Perms(L) : Order(xs, q) \in Drawn(T, i) /\ \A k \in i..L : q[k] = p[k]
  BY DEF Reached
<1>2. PICK q \in Perms(L) : Order(xs, q) \in T /\ \A k \in i + 1..L : q[k] = p[k]
  BY DEF Reached
<1> HIDE DEF L
<1>3. /\ p \in [1..L -> 1..L] /\ \A k, l \in 1..L : p[k] = p[l] => k = l
      /\ q \in [1..L -> 1..L] /\ \A k \in 1..L : \E l \in 1..L : q[l] = k
  BY <1>1, PermFacts
<1>4. i \in 1..L  BY DEF L
<1>5. PICK j \in 1..L : q[j] = p[i]  BY <1>3, <1>4
<1>6. j <= i
  <2> SUFFICES ASSUME j > i PROVE FALSE  BY <1>1, <1>4
  <2>1. j \in i + 1..L  BY <1>1, <1>4
  <2> QED  BY <1>2, <1>3, <1>4, <1>5, <2>1
<1>7. j \in Candidates(i)
  <2>1. Candidates(i) = 1..i  BY <1>1, <1>4, CandidatesBound DEF L
  <2> QED  BY <1>1, <1>6, <2>1
<1>8. PICK r : r = Swap(q, i, j)  OBVIOUS
<1>9. r \in Perms(L)  BY <1>1, <1>4, <1>8, SwapPerm
<1>10. Order(xs, r) \in Drawn(T, i)
  <2>1. Swap(Order(xs, q), i, j) = Order(xs, r)  BY <1>4, <1>8, SwapOrder DEF L
  <2> QED  BY <1>2, <1>7, <2>1 DEF Drawn
<1>11. \A k \in 1..L : r[k] = IF k = j THEN q[i] ELSE IF k = i THEN q[j] ELSE q[k]
  BY <1>3, <1>8 DEF Swap
<1>12. ASSUME NEW k \in i..L PROVE r[k] = p[k]
  <2>1. k \in 1..L /\ (k = i \/ k > i)  BY <1>1, <1>4
  <2>2. CASE k = i  BY <1>5, <1>11, <2>1, <2>2
  <2>3. CASE k > i
    <3>1. k \in i + 1..L /\ k # j /\ k # i  BY <1>1, <1>4, <1>6, <2>3
    <3> QED  BY <1>2, <1>11, <2>1, <3>1
  <2> QED  BY <2>1, <2>2, <2>3
<1> QED  BY <1>9, <1>10, <1>12

\* A sequence of fewer than two elements has one order.
LEMMA FewOrders ==
  ASSUME NEW X, NEW xs \in Seq(X), Len(xs) < 2
  PROVE  AllOrders(xs) = {xs}
<1>1. xs \in AllOrders(xs)  BY Unmoved DEF AllOrders
<1>2. ASSUME NEW p \in Perms(Len(xs)) PROVE Order(xs, p) = xs
  <2>0. Len(xs) \in Nat  OBVIOUS
  <2>1. \A i \in 1..Len(xs) : i = 1 /\ Len(xs) = 1  BY <2>0
  <2>2. \A i \in 1..Len(xs) : p[i] = i
    <3>1. p \in [1..Len(xs) -> 1..Len(xs)]  BY <2>0, PermFacts
    <3>2. \A i \in 1..Len(xs) : p[i] \in 1..Len(xs)  BY <3>1
    <3> QED  BY <2>1, <3>2
  <2>3. xs = [i \in 1..Len(xs) |-> xs[i]]  OBVIOUS
  <2>4. Order(xs, p) = [i \in 1..Len(xs) |-> xs[p[i]]]  BY DEF Order
  <2> QED  BY <2>2, <2>3, <2>4
<1> QED  BY <1>1, <1>2 DEF AllOrders

\* secureShuffle leaves the elements in some order, and as long as two random bytes can name
\* every place of the list it may leave them in any order whatever
\* (build_circuit_usecase.go:267-277).
THEOREM ShuffledOrders ==
  ASSUME NEW X, NEW xs \in Seq(X)
  PROVE  /\ Shuffled(xs) \subseteq AllOrders(xs)
         /\ Len(xs) <= Draws => Shuffled(xs) = AllOrders(xs)
<1>1. CASE Len(xs) < 2  BY <1>1, FewOrders DEF Shuffled
<1>2. CASE Len(xs) >= 2
  <2> DEFINE L == Len(xs)
  <2>1. L \in Nat /\ L >= 2  BY <1>2
  <2>2. PICK from : /\ Shuffled(xs) = from[2]
                    /\ from[L + 1] = {xs}
                    /\ \A i \in 2..L : from[i] = Drawn(from[i + 1], i)
    BY <1>2, ShuffleLoop
  <2> DEFINE P(i) == /\ from[i] \in SUBSET AllOrders(xs)
                     /\ L <= Draws => Reached(from[i], xs, i)
             S == { n \in Nat : n <= L - 1 => P(L + 1 - n) }
  <2>3. P(L + 1)
    <3>1. xs \in AllOrders(xs)  BY Unmoved DEF AllOrders
    <3>2. Reached({xs}, xs, L + 1)
      <4> DEFINE q == [i \in 1..Len(xs) |-> i]
      <4>1. q \in Perms(Len(xs)) /\ Order(xs, q) = xs  BY Unmoved
      <4>2. ~ \E k \in L + 1..L : TRUE  BY <2>1
      <4> HIDE DEF q
      <4> QED  BY <4>1, <4>2 DEF Reached
    <3> QED  BY <2>2, <3>1, <3>2
  <2>4. ASSUME NEW i \in 2..L, P(i + 1) PROVE P(i)
    <3>1. from[i] = Drawn(from[i + 1], i) /\ i \in 1..Len(xs)  BY <2>1, <2>2
    <3>2. from[i] \in SUBSET AllOrders(xs)  BY <2>4, <3>1, DrawnOrders
    <3>3. L <= Draws => Reached(from[i], xs, i)  BY <2>4, <3>1, DrawnReached
    <3> QED  BY <3>2, <3>3
  <2> HIDE DEF P, L
  <2>5. 0 \in S  BY <2>1, <2>3
  <2>6. ASSUME NEW n \in Nat, n \in S PROVE n + 1 \in S
    <3> SUFFICES ASSUME n + 1 <= L - 1 PROVE P(L + 1 - (n + 1))  OBVIOUS
    <3>1. P(L + 1 - n)  BY <2>1, <2>6
    <3>2. L - n \in 2..L /\ L + 1 - n = (L - n) + 1 /\ L + 1 - (n + 1) = L - n  BY <2>1
    <3> QED  BY <2>4, <3>1, <3>2
  <2> HIDE DEF S
  <2>7. P(2)
    <3>1. L - 1 \in S  BY <2>1, <2>5, <2>6, Induction
    <3>2. L - 1 <= L - 1 => P(L + 1 - (L - 1))  BY <3>1 DEF S
    <3>3. L - 1 <= L - 1 /\ L + 1 - (L - 1) = 2  BY <2>1
    <3> QED  BY <3>2, <3>3
  <2>8. ASSUME L <= Draws PROVE AllOrders(xs) \subseteq Shuffled(xs)
    <3> SUFFICES ASSUME NEW p \in Perms(L) PROVE Order(xs, p) \in Shuffled(xs)
      BY DEF AllOrders, L
    <3>1. PICK q \in Perms(L) : Order(xs, q) \in from[2] /\ \A k \in 2..L : q[k] = p[k]
      BY <2>7, <2>8 DEF P, Reached, L
    <3>2. /\ p \in [1..L -> 1..L] /\ \A k, l \in 1..L : p[k] = p[l] => k = l
          /\ q \in [1..L -> 1..L] /\ \A k \in 1..L : \E l \in 1..L : q[l] = k
      BY <2>1, PermFacts
    <3>3. q[1] = p[1]
      <4>1. 1 \in 1..L /\ p[1] \in 1..L  BY <2>1, <3>2
      <4>2. PICK l \in 1..L : q[l] = p[1]  BY <3>2, <4>1
      <4>3. l \in 2..L => l = 1  BY <3>1, <3>2, <4>1, <4>2
      <4>4. l = 1  BY <2>1, <4>3
      <4> QED  BY <4>2, <4>4
    <3>4. q = p
      <4>1. \A k \in 1..L : k = 1 \/ k \in 2..L  BY <2>1
      <4>2. \A k \in 1..L : q[k] = p[k]  BY <3>1, <3>3, <4>1
      <4>3. q = [k \in 1..L |-> q[k]] /\ p = [k \in 1..L |-> p[k]]  BY <3>2
      <4> QED  BY <4>2, <4>3
    <3> QED  BY <2>2, <3>1, <3>4
  <2>9. Shuffled(xs) \subseteq AllOrders(xs)  BY <2>2, <2>7 DEF P
  <2> QED  BY <2>8, <2>9 DEF L
<1>3. Len(xs) \in Nat  OBVIOUS
<1> QED  BY <1>1, <1>2, <1>3

\* What m places may hold: different members of R.
Picks(m, R) == { r \in [1..m -> R] : \A i, j \in 1..m : r[i] = r[j] => i = j }
\* The identifiers in the first m places of some lists.
Firsts(lists, m) == { Ids(SubSeq(s, 1, m)) : s \in lists }

LEMMA FirstIds ==
  ASSUME NEW X, NEW s \in Seq(X), NEW m \in 0..Len(s)
  PROVE  /\ SubSeq(s, 1, m) \in Seq(X) /\ Len(SubSeq(s, 1, m)) = m
         /\ Ids(SubSeq(s, 1, m)) = [i \in 1..m |-> s[i].id]
<1>1. /\ SubSeq(s, 1, m) \in Seq(X) /\ Len(SubSeq(s, 1, m)) = m
      /\ \A i \in 1..m : SubSeq(s, 1, m)[i] = s[i]
  OBVIOUS
<1>2. PICK t : t = SubSeq(s, 1, m)  OBVIOUS
<1>3. DOMAIN t = 1..m  BY <1>1, <1>2
<1>4. Ids(t) = [i \in 1..m |-> t[i].id]  BY <1>3 DEF Ids
<1> QED  BY <1>1, <1>2, <1>4

\* The first places of a list in any order hold any choice of its elements.
LEMMA Chosen ==
  ASSUME NEW X, NEW xs \in Seq(X), NEW m \in 0..Len(xs),
         \A k, l \in 1..Len(xs) : xs[k].id = xs[l].id => k = l
  PROVE  Firsts(AllOrders(xs), m) = Picks(m, IdsOf(xs))
<1> DEFINE L == Len(xs)
           R == IdsOf(xs)
<1>1. L \in Nat /\ m \in 0..L  OBVIOUS
<1>2. R = { xs[k].id : k \in 1..L }  BY DEF IdsOf, Ids, Range
<1>3. ASSUME NEW p \in Perms(L)
      PROVE  Ids(SubSeq(Order(xs, p), 1, m)) = [i \in 1..m |-> xs[p[i]].id]
  <2>1. p \in [1..L -> 1..L]  BY <1>1, PermFacts
  <2>2. PICK s : s = Order(xs, p)  OBVIOUS
  <2>3. s = [i \in 1..L |-> xs[p[i]]] /\ \A i \in 1..L : xs[p[i]] \in X
    BY <2>1, <2>2 DEF Order
  <2>4. s \in Seq(X) /\ Len(s) = L  BY <1>1, <2>3
  <2>5. Ids(SubSeq(s, 1, m)) = [i \in 1..m |-> s[i].id]  BY <2>4, FirstIds
  <2>6. \A i \in 1..m : s[i] = xs[p[i]]  BY <1>1, <2>3
  <2> QED  BY <2>2, <2>5, <2>6
<1> HIDE DEF L, R
<1>4. ASSUME NEW r \in Firsts(AllOrders(xs), m) PROVE r \in Picks(m, R)
  <2>0. PICK s \in AllOrders(xs) : r = Ids(SubSeq(s, 1, m))  BY DEF Firsts
  <2>1. PICK p \in Perms(L) : r = [i \in 1..m |-> xs[p[i]].id]
    <3>1. PICK p \in Perms(L) : s = Order(xs, p)  BY DEF AllOrders, L
    <3> QED  BY <1>3, <2>0, <3>1
  <2>2. /\ p \in [1..L -> 1..L] /\ \A i, j \in 1..L : p[i] = p[j] => i = j
    BY <1>1, PermFacts
  <2>3. \A i \in 1..m : i \in 1..L  BY <1>1
  <2>4. \A i \in 1..m : r[i] \in R  BY <1>2, <2>1, <2>2, <2>3
  <2>5. \A i, j \in 1..m : r[i] = r[j] => i = j  BY <2>1, <2>2, <2>3 DEF L
  <2>6. r \in [1..m -> R]  BY <2>1, <2>4
  <2> QED  BY <2>5, <2>6 DEF Picks
<1>5. ASSUME NEW r \in Picks(m, R) PROVE r \in Firsts(AllOrders(xs), m)
  <2>1. r \in [1..m -> R] /\ \A i, j \in 1..m : r[i] = r[j] => i = j  BY DEF Picks
  <2>2. \A i \in 1..m : \E k \in 1..L : xs[k].id = r[i]  BY <1>2, <2>1
  <2>3. PICK f : f = [i \in 1..m |-> CHOOSE k \in 1..L : xs[k].id = r[i]]  OBVIOUS
  <2>4. \A i \in 1..m : f[i] \in 1..L /\ xs[f[i]].id = r[i]  BY <2>2, <2>3
  <2>5. f \in Injection(1..m, 1..L)
    <3>1. f \in [1..m -> 1..L]  BY <2>3, <2>4
    <3>2. \A i, j \in 1..m : f[i] = f[j] => i = j  BY <2>1, <2>4
    <3> QED  BY <3>1, <3>2 DEF Injection, IsInjective
  <2>6. PICK p \in Perms(L) : \A i \in 1..m : p[i] = f[i]  BY <1>1, <2>5, Completed
  <2>7. Ids(SubSeq(Order(xs, p), 1, m)) = [i \in 1..m |-> xs[p[i]].id]  BY <1>3
  <2>8. \A i \in 1..m : xs[p[i]].id = r[i]  BY <2>4, <2>6
  <2>9. r = [i \in 1..m |-> xs[p[i]].id]  BY <2>1, <2>8
  <2>10. Order(xs, p) \in AllOrders(xs)  BY DEF AllOrders, L
  <2> QED  BY <2>7, <2>9, <2>10 DEF Firsts
<1> QED  BY <1>4, <1>5 DEF R

\* There are no more different choices than elements.
LEMMA TooMany ==
  ASSUME NEW X, NEW xs \in Seq(X), NEW m \in Nat, Len(xs) < m
  PROVE  Picks(m, IdsOf(xs)) = {}
<1> SUFFICES ASSUME NEW r \in Picks(m, IdsOf(xs)) PROVE FALSE  OBVIOUS
<1> DEFINE L == Len(xs)
<1>1. L \in Nat /\ L < m  OBVIOUS
<1>2. IdsOf(xs) = { xs[k].id : k \in 1..L }  BY DEF IdsOf, Ids, Range
<1>3. r \in [1..m -> IdsOf(xs)] /\ \A i, j \in 1..m : r[i] = r[j] => i = j  BY DEF Picks
<1> HIDE DEF L
<1>4. PICK f : f = [i \in 1..m |-> CHOOSE k \in 1..L : xs[k].id = r[i]]  OBVIOUS
<1>5. \A i \in 1..m : f[i] \in 1..L /\ xs[f[i]].id = r[i]
  <2> TAKE i \in 1..m
  <2>1. r[i] \in { xs[k].id : k \in 1..L }  BY <1>2, <1>3
  <2>2. \E k \in 1..L : xs[k].id = r[i]  BY <2>1
  <2>3. f[i] = CHOOSE k \in 1..L : xs[k].id = r[i]  BY <1>4
  <2> QED  BY <2>2, <2>3
<1>6. f \in [1..m -> 1..L]  BY <1>4, <1>5
<1>7. IsFiniteSet(1..m) /\ Cardinality(1..m) = m  BY FS_Interval
<1>8. IsFiniteSet(1..L) /\ Cardinality(1..L) = L
  <2>1. L \in Int /\ 1 \in Int /\ (1 > L => L = 0) /\ L - 1 + 1 = L  BY <1>1
  <2>2. IsFiniteSet(1..L) /\ Cardinality(1..L) = IF 1 > L THEN 0 ELSE L - 1 + 1
    BY <2>1, FS_Interval
  <2> QED  BY <2>1, <2>2
<1>9. \E i, j \in 1..m : i # j /\ f[i] = f[j]  BY <1>1, <1>6, <1>7, <1>8, FS_PigeonHole
<1> QED  BY <1>3, <1>5, <1>9

\* FindByID returns a relay with the identifier if there is one.
LEMMA Finding ==
  ASSUME NEW X, NEW xs \in Seq(X), NEW id
  PROVE  /\ FindByID(xs, id) = 0 => \A i \in 1..Len(xs) : xs[i].id # id
         /\ FindByID(xs, id) # 0 => FindByID(xs, id) \in 1..Len(xs) /\ xs[FindByID(xs, id)].id = id
<1> DEFINE P == { i \in DOMAIN xs : xs[i].id = id }
<1>1. DOMAIN xs = 1..Len(xs) /\ Len(xs) \in Nat  OBVIOUS
<1>2. P \in SUBSET Nat /\ P \subseteq 1..Len(xs)  BY <1>1
<1>3. FindByID(xs, id) = First(P)  BY DEF FindByID
<1>4. CASE P = {}  BY <1>1, <1>3, <1>4 DEF First
<1>5. CASE P # {}
  <2>1. \A i \in P : xs[i].id = id  OBVIOUS
  <2> HIDE DEF P
  <2>2. \E i \in P : \A j \in P : i <= j  BY <1>2, <1>5, Least
  <2>3. First(P) \in P  BY <1>5, <2>2 DEF First
  <2>4. First(P) # 0  BY <1>1, <1>2, <2>3
  <2> QED  BY <1>2, <1>3, <2>1, <2>3, <2>4
<1> QED  BY <1>4, <1>5

\* The list without one of its elements.
LEMMA Removed ==
  ASSUME NEW X, NEW xs \in Seq(X), NEW e \in 1..Len(xs),
         \A k, l \in 1..Len(xs) : xs[k].id = xs[l].id => k = l
  PROVE  /\ RemoveAt(xs, e) \in Seq(X) /\ Len(RemoveAt(xs, e)) = Len(xs) - 1
         /\ \A k, l \in 1..Len(RemoveAt(xs, e)) :
              RemoveAt(xs, e)[k].id = RemoveAt(xs, e)[l].id => k = l
         /\ IdsOf(RemoveAt(xs, e)) = IdsOf(xs) \ {xs[e].id}
<1> DEFINE L == Len(xs)
<1>1. L \in Nat /\ e \in 1..L  OBVIOUS
<1>2. PICK ys : ys = RemoveAt(xs, e)  OBVIOUS
<1>3. PICK a : a = SubSeq(xs, 1, e - 1)  OBVIOUS
<1>4. PICK b : b = SubSeq(xs, e + 1, L)  OBVIOUS
<1>5. a \in Seq(X) /\ Len(a) = e - 1 /\ \A i \in 1..e - 1 : a[i] = xs[i]  BY <1>3
<1>6. b \in Seq(X) /\ Len(b) = L - e /\ \A i \in 1..L - e : b[i] = xs[e + i]  BY <1>4
<1>7. ys = a \o b  BY <1>2, <1>3, <1>4 DEF RemoveAt
<1>8. ys \in Seq(X) /\ Len(ys) = L - 1
  <2>1. ys \in Seq(X) /\ Len(ys) = Len(a) + Len(b)
    <3>1. a \in Seq(X) /\ b \in Seq(X)  BY <1>5, <1>6
    <3> QED  BY <1>7, <3>1, ConcatProperties
  <2>2. (e - 1) + (L - e) = L - 1  BY <1>1
  <2> QED  BY <1>5, <1>6, <2>1, <2>2
<1>9. \A i \in 1..L - 1 : ys[i] = IF i < e THEN xs[i] ELSE xs[i + 1]
  <2> TAKE i \in 1..L - 1
  <2>1. CASE i < e  BY <1>1, <1>5, <1>7, <2>1
  <2>2. CASE ~(i < e)
    <3>1. ys[i] = b[i - (e - 1)]
      <4>1. a \in Seq(X) /\ b \in Seq(X) /\ Len(a) = e - 1 /\ Len(b) = L - e  BY <1>5, <1>6
      <4>2. i \in 1..Len(a) + Len(b) /\ ~(i <= Len(a))  BY <1>1, <2>2, <4>1
      <4>3. ys[i] = b[i - Len(a)]  BY <1>7, <4>1, <4>2, ConcatProperties
      <4> QED  BY <4>1, <4>3
    <3>2. i - (e - 1) \in 1..L - e /\ e + (i - (e - 1)) = i + 1  BY <1>1, <2>2
    <3> QED  BY <1>6, <2>2, <3>1, <3>2
  <2> QED  BY <2>1, <2>2
<1>10. DOMAIN ys = 1..L - 1 /\ DOMAIN xs = 1..L  BY <1>1, <1>8
<1> HIDE DEF L
<1>11. \A k, l \in 1..L : xs[k].id = xs[l].id => k = l  BY DEF L
<1>12. ASSUME NEW k \in 1..L - 1, NEW l \in 1..L - 1, ys[k].id = ys[l].id PROVE k = l
  <2>1. k \in 1..L /\ k + 1 \in 1..L /\ l \in 1..L /\ l + 1 \in 1..L  BY <1>1
  <2>2. PICK f : f = [i \in 1..L - 1 |-> IF i < e THEN i ELSE i + 1]  OBVIOUS
  <2>3. /\ f[k] \in 1..L /\ xs[f[k]] = ys[k] /\ f[k] = IF k < e THEN k ELSE k + 1
        /\ f[l] \in 1..L /\ xs[f[l]] = ys[l] /\ f[l] = IF l < e THEN l ELSE l + 1
    BY <1>9, <2>1, <2>2
  <2>4. f[k] = f[l]  BY <1>11, <1>12, <2>3
  <2> QED  BY <1>1, <2>1, <2>3, <2>4
<1>13. IdsOf(ys) = { ys[i].id : i \in 1..L - 1 } /\ IdsOf(xs) = { xs[i].id : i \in 1..L }
  BY <1>10 DEF IdsOf, Ids, Range
<1>14. ASSUME NEW i \in 1..L - 1 PROVE ys[i].id \in IdsOf(xs) \ {xs[e].id}
  <2>1. i \in 1..L /\ i + 1 \in 1..L  BY <1>1
  <2>2. CASE i < e  BY <1>1, <1>9, <1>11, <1>13, <2>1, <2>2
  <2>3. CASE ~(i < e)
    <3>1. i + 1 # e  BY <1>1, <2>3
    <3>2. ys[i] = xs[i + 1]  BY <1>9, <2>3
    <3> QED  BY <1>1, <1>11, <1>13, <2>1, <3>1, <3>2
  <2> QED  BY <2>2, <2>3
<1>15. ASSUME NEW i \in 1..L, i # e PROVE xs[i].id \in IdsOf(ys)
  <2>1. CASE i < e
    <3>1. i \in 1..L - 1  BY <1>1, <2>1
    <3> QED  BY <1>9, <1>13, <2>1, <3>1
  <2>2. CASE i > e
    <3>1. i - 1 \in 1..L - 1 /\ ~(i - 1 < e) /\ (i - 1) + 1 = i  BY <1>1, <2>2
    <3>2. ys[i - 1] = xs[i]  BY <1>9, <3>1
    <3> QED  BY <1>13, <3>1, <3>2
  <2>3. i < e \/ i > e  BY <1>1, <1>15
  <2> QED  BY <2>1, <2>2, <2>3
<1>16. IdsOf(ys) = IdsOf(xs) \ {xs[e].id}  BY <1>13, <1>14, <1>15
<1> HIDE DEF RemoveAt
<1> QED  BY <1>2, <1>8, <1>12, <1>16 DEF L

\* A choice that ends with e is a choice among the others, and e.
LEMMA LastPick ==
  ASSUME NEW R, NEW e \in R, NEW h \in Nat \ {0}
  PROVE  { r \in Picks(h, R) : r[h] = e } = { Append(q, e) : q \in Picks(h - 1, R \ {e}) }
<1>1. h - 1 \in Nat /\ h \in 1..h  OBVIOUS
<1>2. ASSUME NEW r \in Picks(h, R), r[h] = e
      PROVE  \E q \in Picks(h - 1, R \ {e}) : r = Append(q, e)
  <2>1. r \in [1..h -> R] /\ \A i, j \in 1..h : r[i] = r[j] => i = j  BY DEF Picks
  <2>2. PICK q : q = [i \in 1..h - 1 |-> r[i]]  OBVIOUS
  <2>3. \A i \in 1..h - 1 : i \in 1..h /\ i # h  BY <1>1
  <2>4. \A i \in 1..h - 1 : q[i] = r[i] /\ q[i] \in R \ {e}  BY <1>1, <1>2, <2>1, <2>2, <2>3
  <2>5. q \in [1..h - 1 -> R \ {e}]  BY <2>2, <2>4
  <2>6. q \in Picks(h - 1, R \ {e})  BY <2>1, <2>3, <2>4, <2>5 DEF Picks
  <2>7. q \in Seq(R) /\ Len(q) = h - 1  BY <1>1, <2>5
  <2>8. r = Append(q, e)
    <3>1. Append(q, e) \in Seq(R) /\ Len(Append(q, e)) = h  BY <1>1, <2>7
    <3>2. \A i \in 1..h : Append(q, e)[i] = r[i]
      <4> TAKE i \in 1..h
      <4>1. CASE i = h  BY <1>1, <1>2, <2>7, <4>1
      <4>2. CASE i # h
        <5>1. i \in 1..h - 1  BY <1>1, <4>2
        <5> QED  BY <1>1, <2>4, <2>7, <5>1
      <4> QED  BY <4>1, <4>2
    <3>3. PICK t : t = Append(q, e)  OBVIOUS
    <3>4. t = [i \in 1..h |-> t[i]]
      <4>1. t \in Seq(R) /\ Len(t) = h  BY <3>1, <3>3
      <4>2. t \in [1..Len(t) -> R]  BY <4>1
      <4> QED  BY <4>1, <4>2
    <3>5. r = [i \in 1..h |-> r[i]]  BY <2>1
    <3> QED  BY <3>2, <3>3, <3>4, <3>5
  <2> QED  BY <2>6, <2>8
<1>3. ASSUME NEW q \in Picks(h - 1, R \ {e})
      PROVE  Append(q, e) \in Picks(h, R) /\ Append(q, e)[h] = e
  <2>1. q \in [1..h - 1 -> R \ {e}] /\ \A i, j \in 1..h - 1 : q[i] = q[j] => i = j
    BY DEF Picks
  <2>2. q \in Seq(R) /\ Len(q) = h - 1  BY <1>1, <2>1
  <2>3. PICK r : r = Append(q, e)  OBVIOUS
  <2>4. /\ r \in [1..h -> R] /\ r[h] = e
        /\ \A i \in 1..h - 1 : r[i] = q[i]
    <3>1. r \in Seq(R) /\ Len(r) = Len(q) + 1 /\ Len(q) + 1 = h  BY <1>1, <2>2, <2>3
    <3>2. r \in [1..h -> R]  BY <3>1
    <3>3. r[Len(q) + 1] = e /\ \A i \in 1..Len(q) : r[i] = q[i]  BY <2>2, <2>3
    <3> QED  BY <2>2, <3>1, <3>2, <3>3
  <2>5. \A i \in 1..h : i = h \/ i \in 1..h - 1  BY <1>1
  <2>6. \A i, j \in 1..h : r[i] = r[j] => i = j  BY <2>1, <2>4, <2>5
  <2> QED  BY <2>3, <2>4, <2>6 DEF Picks
<1> QED  BY <1>2, <1>3

\* What has been selected is a choice of relays, and any choice may be, in a list that two
\* random bytes can shuffle.
LEMMA Drawing ==
  ASSUME NEW X, NEW xs \in Seq(X), NEW m \in 0..Len(xs),
         \A k, l \in 1..Len(xs) : xs[k].id = xs[l].id => k = l
  PROVE  /\ Firsts(Shuffled(xs), m) \subseteq Picks(m, IdsOf(xs))
         /\ Len(xs) <= Draws => Firsts(Shuffled(xs), m) = Picks(m, IdsOf(xs))
<1>1. Firsts(AllOrders(xs), m) = Picks(m, IdsOf(xs))  BY Chosen
<1>2. Shuffled(xs) \subseteq AllOrders(xs) /\ (Len(xs) <= Draws => Shuffled(xs) = AllOrders(xs))
  BY ShuffledOrders
<1>3. Firsts(Shuffled(xs), m) \subseteq Firsts(AllOrders(xs), m)  BY <1>2 DEF Firsts
<1> QED  BY <1>1, <1>2, <1>3

\* One hop needs no relay but the exit.
LEMMA NoPick ==
  ASSUME NEW R, NEW T
  PROVE  Picks(0, R) = Picks(0, T)
<1>1. \A f : f \in [1..0 -> R] <=> f \in [1..0 -> T]  OBVIOUS
<1> QED  BY <1>1 DEF Picks

\* The relays besides the exit come from the others that are online.
LEMMA PoolPicks ==
  ASSUME NEW X, NEW xs \in Seq(X), NEW exit, NEW h \in 1..Len(xs), exit \in IdsOf(xs),
         \A k, l \in 1..Len(xs) : xs[k].id = xs[l].id => k = l,
         NEW pool, pool = IF h = 1 THEN <<>> ELSE WithoutExit(xs, exit)
  PROVE  /\ ~(h - 1 > Len(pool))
         /\ Firsts(Shuffled(pool), h - 1) \subseteq Picks(h - 1, IdsOf(xs) \ {exit})
         /\ Len(xs) <= Draws =>
              Firsts(Shuffled(pool), h - 1) = Picks(h - 1, IdsOf(xs) \ {exit})
<1>1. Len(xs) \in Nat /\ h \in Nat /\ h <= Len(xs) /\ h >= 1  OBVIOUS
<1>2. CASE h = 1
  <2>1. pool \in Seq(X) /\ Len(pool) = 0 /\ h - 1 = 0  BY <1>2
  <2>2. /\ Firsts(Shuffled(pool), 0) \subseteq Picks(0, IdsOf(pool))
        /\ Len(pool) <= Draws => Firsts(Shuffled(pool), 0) = Picks(0, IdsOf(pool))
    <3>1. 0 \in 0..Len(pool) /\ \A k, l \in 1..Len(pool) : pool[k].id = pool[l].id => k = l
      BY <2>1
    <3> QED  BY <2>1, <3>1, Drawing
  <2>3. Picks(0, IdsOf(pool)) = Picks(0, IdsOf(xs) \ {exit})  BY NoPick
  <2>4. Len(pool) <= Draws  BY <2>1 DEF Draws
  <2> QED  BY <2>1, <2>2, <2>3, <2>4
<1>3. CASE h # 1
  <2>1. PICK e : e = FindByID(xs, exit)  OBVIOUS
  <2>2. e \in 1..Len(xs) /\ xs[e].id = exit
    <3>1. \E i \in 1..Len(xs) : xs[i].id = exit  BY DEF IdsOf, Ids, Range
    <3> QED  BY <2>1, <3>1, Finding
  <2>3. pool = RemoveAt(xs, e)  BY <1>3, <2>1 DEF WithoutExit
  <2>4. /\ pool \in Seq(X) /\ Len(pool) = Len(xs) - 1
        /\ \A k, l \in 1..Len(pool) : pool[k].id = pool[l].id => k = l
        /\ IdsOf(pool) = IdsOf(xs) \ {exit}
    <3> DEFINE ys == RemoveAt(xs, e)
    <3>1. /\ ys \in Seq(X) /\ Len(ys) = Len(xs) - 1
          /\ \A k, l \in 1..Len(ys) : ys[k].id = ys[l].id => k = l
          /\ IdsOf(ys) = IdsOf(xs) \ {xs[e].id}
      BY <2>2, Removed
    <3> HIDE DEF ys
    <3>2. pool = ys  BY <2>3 DEF ys
    <3> QED  BY <2>2, <3>1, <3>2
  <2>5. h - 1 \in 0..Len(pool)  BY <1>1, <2>4
  <2>6. /\ Firsts(Shuffled(pool), h - 1) \subseteq Picks(h - 1, IdsOf(pool))
        /\ Len(pool) <= Draws => Firsts(Shuffled(pool), h - 1) = Picks(h - 1, IdsOf(pool))
    BY <2>4, <2>5, Drawing
  <2>7. ~(h - 1 > Len(pool)) /\ (Len(xs) <= Draws => Len(pool) <= Draws)
    BY <1>1, <2>4 DEF Draws
  <2> QED  BY <2>4, <2>6, <2>7
<1> QED  BY <1>2, <1>3

\* The exit is found online exactly if it is among the relays online.
LEMMA ExitOnline ==
  ASSUME NEW X, NEW relays \in Seq(X), ListedOnce(relays), NEW exit
  PROVE  exit \in IdsOf(AllOnline(relays))
           <=> FindByID(relays, exit) # 0 /\ relays[FindByID(relays, exit)].online
<1>1. PICK xs : xs = AllOnline(relays)  OBVIOUS
<1>2. xs \in Seq(X) /\ OnlineUpTo(xs, relays, Len(relays))  BY <1>1, OnlineList
<1>3. IdsOf(xs) = { xs[k].id : k \in 1..Len(xs) }  BY <1>2 DEF IdsOf, Ids, Range
<1>4. PICK f : f = FindByID(relays, exit)  OBVIOUS
<1>5. ASSUME exit \in IdsOf(xs) PROVE f # 0 /\ relays[f].online
  <2>1. PICK k \in 1..Len(xs) : xs[k].id = exit  BY <1>3, <1>5
  <2>2. PICK i \in 1..Len(relays) : relays[i].online /\ xs[k] = relays[i]
    BY <1>2 DEF OnlineUpTo
  <2>3. f # 0 /\ f \in 1..Len(relays) /\ relays[f].id = exit  BY <1>4, <2>1, <2>2, Finding
  <2>4. f = i  BY <2>1, <2>2, <2>3 DEF ListedOnce, IsInjective, Ids
  <2> QED  BY <2>2, <2>3, <2>4
<1>6. ASSUME f # 0, relays[f].online PROVE exit \in IdsOf(xs)
  <2>1. f \in 1..Len(relays) /\ relays[f].id = exit  BY <1>4, <1>6, Finding
  <2>2. PICK k \in 1..Len(xs) : xs[k] = relays[f]  BY <1>2, <1>6, <2>1 DEF OnlineUpTo
  <2> QED  BY <1>3, <2>1, <2>2
<1> QED  BY <1>1, <1>4, <1>5, <1>6

LEMMA HopsPositive ==
  ASSUME NEW n \in Int
  PROVE  Hops(n) \in Nat \ {0}
BY DEF Hops

\* build selects, from any repository that lists no relay twice, nothing but proper choices,
\* and if two random bytes can name every place in it, any of them
\* (build_circuit_usecase.go:91-146).
THEOREM Selected ==
  ASSUME NEW X, NEW relays \in Seq(X), ListedOnce(relays), NEW n \in Int, NEW exit
  PROVE  /\ Routes(relays, n, exit) \subseteq ProperRoutes(relays, n, exit)
         /\ Len(relays) <= Draws => Routes(relays, n, exit) = ProperRoutes(relays, n, exit)
<1>1. PICK xs : xs = AllOnline(relays)  OBVIOUS
<1>2. PICK h : h = Hops(n)  OBVIOUS
<1>3. PICK pool : pool = IF h = 1 THEN <<>> ELSE WithoutExit(xs, exit)  OBVIOUS
<1>4. h \in Nat \ {0}  BY <1>2, HopsPositive
<1>5. xs \in Seq(X) /\ OnlineUpTo(xs, relays, Len(relays))  BY <1>1, OnlineList
<1>6. Len(xs) \in Nat /\ \A k, l \in 1..Len(xs) : xs[k].id = xs[l].id => k = l
  BY <1>5 DEF OnlineUpTo
<1>7. Len(relays) <= Draws => Len(xs) <= Draws  BY <1>5, <1>6 DEF OnlineUpTo, Draws
<1>8. Routes(relays, n, exit) =
        IF Len(xs) < h THEN {}
        ELSE IF exit = NoRelay THEN Firsts(Shuffled(xs), h)
        ELSE IF \/ FindByID(relays, exit) = 0
                \/ ~relays[FindByID(relays, exit)].online
                \/ h - 1 > Len(pool) THEN {}
        ELSE { Append(q, exit) : q \in Firsts(Shuffled(pool), h - 1) }
  <2>1. { Append(q, exit) : q \in Firsts(Shuffled(pool), h - 1) }
          = { Append(Ids(SubSeq(s, 1, h - 1)), exit) : s \in Shuffled(pool) }
    BY DEF Firsts
  <2>2. Firsts(Shuffled(xs), h) = { Ids(SubSeq(s, 1, h)) : s \in Shuffled(xs) }  BY DEF Firsts
  <2>3. PICK A : A = Shuffled(xs)  OBVIOUS
  <2>4. PICK B : B = Shuffled(pool)  OBVIOUS
  <2>5. PICK C : C = { Append(Ids(SubSeq(s, 1, h - 1)), exit) : s \in B }  OBVIOUS
  <2>6. PICK D : D = { Ids(SubSeq(s, 1, h)) : s \in A }  OBVIOUS
  <2>7. Routes(relays, n, exit) =
          IF Len(xs) < h THEN {}
          ELSE IF exit = NoRelay THEN D
          ELSE IF \/ FindByID(relays, exit) = 0
                  \/ ~relays[FindByID(relays, exit)].online
                  \/ h - 1 > Len(pool) THEN {}
          ELSE C
    BY <1>1, <1>2, <1>3, <2>3, <2>4, <2>5, <2>6 DEF Routes
  <2> QED  BY <2>1, <2>2, <2>3, <2>4, <2>5, <2>6, <2>7
<1>9. ProperRoutes(relays, n, exit) =
        { r \in Picks(h, IdsOf(xs)) : exit # NoRelay => r[h] = exit }
  BY <1>1, <1>2 DEF ProperRoutes, Picks
<1> DEFINE Rs == Routes(relays, n, exit)
           Ps == ProperRoutes(relays, n, exit)
           Good == Rs \subseteq Ps /\ (Len(relays) <= Draws => Rs = Ps)
<1> HIDE DEF Rs, Ps
<1>10. CASE Len(xs) < h
  <2>1. Picks(h, IdsOf(xs)) = {}  BY <1>4, <1>5, <1>10, TooMany
  <2>2. Rs = {} /\ Ps = {}  BY <1>8, <1>9, <1>10, <2>1 DEF Rs, Ps
  <2> QED  BY <2>2 DEF Rs, Ps
<1>11. CASE ~(Len(xs) < h) /\ exit = NoRelay
  <2>1. h \in 0..Len(xs)  BY <1>4, <1>6, <1>11
  <2>2. Rs = Firsts(Shuffled(xs), h)  BY <1>8, <1>11 DEF Rs
  <2>3. Ps = Picks(h, IdsOf(xs))  BY <1>9, <1>11 DEF Ps
  <2>4. Good  BY <1>5, <1>6, <1>7, <2>1, <2>2, <2>3, Drawing
  <2> QED  BY <2>4 DEF Rs, Ps
<1>12. CASE ~(Len(xs) < h) /\ exit # NoRelay /\ exit \notin IdsOf(xs)
  <2>1. Rs = {}  BY <1>1, <1>8, <1>12, ExitOnline DEF Rs
  <2>2. Ps = {}
    <3>1. \A r \in Picks(h, IdsOf(xs)) : r[h] \in IdsOf(xs)  BY <1>4 DEF Picks
    <3> QED  BY <1>9, <1>12, <3>1 DEF Ps
  <2> QED  BY <2>1, <2>2 DEF Rs, Ps
<1>13. CASE ~(Len(xs) < h) /\ exit # NoRelay /\ exit \in IdsOf(xs)
  <2>1. h \in 1..Len(xs)  BY <1>4, <1>6, <1>13
  <2>2. /\ ~(h - 1 > Len(pool))
        /\ Firsts(Shuffled(pool), h - 1) \subseteq Picks(h - 1, IdsOf(xs) \ {exit})
        /\ Len(xs) <= Draws =>
             Firsts(Shuffled(pool), h - 1) = Picks(h - 1, IdsOf(xs) \ {exit})
    BY <1>3, <1>5, <1>6, <1>13, <2>1, PoolPicks
  <2>3. FindByID(relays, exit) # 0 /\ relays[FindByID(relays, exit)].online
    BY <1>1, <1>13, ExitOnline
  <2>4. Rs = { Append(q, exit) : q \in Firsts(Shuffled(pool), h - 1) }
    BY <1>8, <1>13, <2>2, <2>3 DEF Rs
  <2>5. Ps = { Append(q, exit) : q \in Picks(h - 1, IdsOf(xs) \ {exit}) }
    <3>1. PICK A : A = Picks(h, IdsOf(xs))  OBVIOUS
    <3>2. Ps = { r \in A : exit # NoRelay => r[h] = exit }  BY <1>9, <3>1 DEF Ps
    <3>3. Ps = { r \in A : r[h] = exit }  BY <1>13, <3>2
    <3>4. exit \in IdsOf(xs)  BY <1>13
    <3>5. { r \in Picks(h, IdsOf(xs)) : r[h] = exit }
            = { Append(q, exit) : q \in Picks(h - 1, IdsOf(xs) \ {exit}) }
      BY <1>4, <3>4, LastPick, Zenon
    <3> QED  BY <3>1, <3>3, <3>5
  <2>6. Good  BY <1>7, <2>2, <2>4, <2>5
  <2> QED  BY <2>6 DEF Rs, Ps
<1> QED  BY <1>10, <1>11, <1>12, <1>13

-----------------------------------------------------------------------------
(***************************************************************************)
(* The directory of the client.                                            *)
(***************************************************************************)
\* The relays of a directory, some of which may be offline.
Known == [id : Range(Directory), online : BOOLEAN]

LEMMA ListedRelays ==
  ASSUME Consistent, NEW n \in 0..Len(Directory), NEW on \in [1..n -> BOOLEAN], NEW relays,
         relays = [i \in 1..n |-> Relay(Directory[i], on[i])]
  PROVE  relays \in Seq(Known) /\ ListedOnce(relays) /\ Len(relays) <= Draws
<1>1. Len(Directory) \in Nat /\ n \in Nat /\ n <= Len(Directory) /\ Len(Directory) <= Draws
  BY DirectoryAssumption DEF Consistent
<1>2. \A i \in 1..n : Relay(Directory[i], on[i]) \in Known
  <2> TAKE i \in 1..n
  <2>1. i \in DOMAIN Directory
    BY <1>1, DirectoryAssumption
  <2> QED
    BY <2>1 DEF Relay, Known, Range
<1>3. relays \in Seq(Known) /\ Len(relays) = n
  BY <1>1, <1>2
<1>4. \A i, j \in 1..Len(Directory) : Directory[i] = Directory[j] => i = j
  <2>1. DOMAIN Directory = 1..Len(Directory)
    BY DirectoryAssumption
  <2> QED
    BY <2>1 DEF Consistent, ListedOnce, IsInjective, Ids, Relays, LoadRelays, Relay
<1>5. ListedOnce(relays)
  <2>1. \A i \in 1..n : relays[i].id = Directory[i] /\ i \in 1..Len(Directory)
    BY <1>1 DEF Relay
  <2>2. DOMAIN relays = 1..n
    OBVIOUS
  <2> QED
    BY <1>4, <2>1, <2>2 DEF ListedOnce, IsInjective, Ids
<1>6. n <= Draws
  BY <1>1 DEF Draws
<1> QED
  BY <1>3, <1>5, <1>6

LEMMA AllRoutes == Consistent => RoutesExact
<1> SUFFICES ASSUME Consistent, NEW relays \in Repositories,
                    NEW n \in -1..Len(Directory) + 1, NEW exit
             PROVE  Routes(relays, n, exit) = ProperRoutes(relays, n, exit)
  BY DEF RoutesExact
<1>1. n \in Int
  OBVIOUS
<1>2. PICK m \in 0..Len(Directory) : \E on \in [1..m -> BOOLEAN] :
        relays = [i \in 1..m |-> Relay(Directory[i], on[i])]
  BY DEF Repositories
<1>3. relays \in Seq(Known) /\ ListedOnce(relays) /\ Len(relays) <= Draws
  BY <1>2, ListedRelays
<1> QED
  BY <1>1, <1>3, Selected

LEMMA DirectoryRoutes ==
  ASSUME Consistent, NEW exit
  PROVE  Routes(Relays, HopCount, exit) = ProperRoutes(Relays, HopCount, exit)
<1> DEFINE n == Len(Directory)
           on == [i \in 1..n |-> TRUE]
<1>1. n \in Nat /\ n \in 0..n /\ DOMAIN Directory = 1..n
  BY DirectoryAssumption
<1>2. on \in [1..n -> BOOLEAN] /\ Relays = [i \in 1..n |-> Relay(Directory[i], on[i])]
  BY <1>1 DEF Relays, LoadRelays
<1> HIDE DEF on
<1>3. Relays \in Seq(Known) /\ ListedOnce(Relays) /\ Len(Relays) <= Draws
  BY <1>1, <1>2, ListedRelays
<1> QED
  BY <1>3, DirectoryAssumption, Selected

LEMMA AllServices == Consistent => ServicesFound
<1> SUFFICES ASSUME Consistent, NEW i \in DOMAIN Services, NEW upper \in BOOLEAN, NEW h,
                    h = [Services[i].address EXCEPT !.upper = upper], h.ptor
             PROVE  Resolves(Services, h) /\ ExitOf(Services, h) = Services[i].relay
  BY DEF ServicesFound
<1>1. \A j \in DOMAIN Services : Lower(Services[j].address) = Lower(Services[i].address) <=> j = i
  BY DEF Consistent, IsInjective
<1>2. Lower(h) = Lower(Services[i].address)
  <2>1. PICK a : a = Services[i].address
    OBVIOUS
  <2>2. a \in [name : {a.name}, upper : BOOLEAN, ptor : BOOLEAN]
    BY <2>1, DirectoryAssumption
  <2> QED
    BY <2>1, <2>2 DEF Lower
<1>3. { j \in DOMAIN Services : Lower(Services[j].address) = Lower(h) } = {i}
  BY <1>1, <1>2
<1>4. i \in Nat \ {0}
  BY DirectoryAssumption
<1>5. FindByAddressString(Services, h) = i
  BY <1>3, <1>4 DEF FindByAddressString, First
<1> QED
  BY <1>4, <1>5 DEF Resolves, ExitOf

\* From a directory that lists nothing twice a handler can come by exactly the proper
\* routes, whatever its hop count, the exit and the relays offline, and a hidden service
\* leads to its relay (build_circuit_usecase.go:91-146, 267-277).
THEOREM SelectionProper == Spec => []SelectionExact
<1>1. SelectionExact
  BY AllRoutes, DirectoryRoutes, AllServices DEF SelectionExact
<1> QED
  BY <1>1, PTL
==============================================================================
