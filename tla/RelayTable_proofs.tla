-------------------------- MODULE RelayTable_proofs --------------------------
(***************************************************************************)
(* The table of a relay, for every set of circuits and streams, every TTL  *)
(* and every unit of time: its invariants.                                 *)
(***************************************************************************)
EXTENDS RelayTable, TLAPS

\* TypeOK without the bound on an entry's age.
Typed ==
  /\ entry \in [Circuits -> {"none", "exit", "hidden"}]
  /\ age \in [Circuits -> Nat] /\ quiet \in [Circuits -> Nat]
  /\ streams \in [Circuits -> SUBSET Streams] /\ timer \in 0..Interval
  /\ up \in [Circuits -> {"unused", "open", "gone", "closed"}]
  /\ serve \in [Circuits -> Cells] /\ reader \in [Circuits -> SUBSET Streams]
  /\ target \in [Circuits -> [Streams -> {"none", "open", "eof", "closed"}]]
  /\ service \in [Circuits -> {"none", "open", "eof", "closed"}]
  /\ served \in [Circuits -> BOOLEAN]
  /\ stage \in [Circuits -> {"new", "circuit", "hidden", "bye", "ended"}]
  /\ spoken \in [Circuits -> [Streams -> {"no", "yes", "ended"}]]

\* What sets LastUsed is traffic of the circuit, and the sweep to come finds no entry older
\* than the TTL and an interval.
Aging ==
  \A c \in Circuits :
    /\ quiet[c] <= age[c]
    /\ entry[c] = "none" => age[c] = 0
    /\ age[c] + timer <= TTL + Interval

\* Before a client connects the relay knows nothing of its circuit.
Fresh ==
  \A c \in Circuits :
    up[c] = "unused" =>
      serve[c] = Off /\ streams[c] = {} /\ stage[c] = "new" /\ entry[c] = "none"

TableInv == Typed /\ Aging /\ Fresh /\ TableExact /\ Attended /\ Disconnected
-----------------------------------------------------------------------------
\* The interval of gc is half the TTL or a second.
LEMMA Times ==
  /\ TTL \in Nat /\ Interval \in Nat /\ Interval > 0
  /\ Interval = HalfTTL \/ Interval = Second
BY TableAssumption DEF TTL, Interval

\* Where ServeConn may be.
LEMMA CellsHave ==
  /\ Off \in Cells /\ Read \in Cells /\ <<"EXTEND">> \in Cells /\ <<"CONNECT">> \in Cells
  /\ <<"dial">> \in Cells /\ <<"END">> \in Cells
  /\ \A s \in Streams : /\ <<"BEGIN", s>> \in Cells /\ <<"dial", s>> \in Cells
                        /\ <<"ack", s>> \in Cells /\ <<"DATA", s>> \in Cells
                        /\ <<"END", s>> \in Cells
BY DEF Cells, Off, Read

\* Neither EXTEND nor Off is anything else.
LEMMA Distinct ==
  /\ Off # Read /\ <<"EXTEND">> # Read /\ <<"EXTEND">> # Off
  /\ \A k \in {"CONNECT", "dial", "END"} :
       <<k>> # <<"EXTEND">> /\ <<k>> # Off
  /\ \A k \in {"BEGIN", "dial", "ack", "DATA", "END"} : \A s \in Streams :
       <<k, s>> # <<"EXTEND">> /\ <<k, s>> # Off
BY DEF Off, Read

\* Only ServeConn at the acknowledgement of s is at <<"ack", s>>.
LEMMA NoAck ==
  ASSUME NEW s \in Streams
  PROVE  /\ Read # <<"ack", s>> /\ Off # <<"ack", s>> /\ <<"EXTEND">> # <<"ack", s>>
         /\ <<"CONNECT">> # <<"ack", s>> /\ <<"dial">> # <<"ack", s>> /\ <<"END">> # <<"ack", s>>
         /\ \A t \in Streams :
              /\ <<"BEGIN", t>> # <<"ack", s>> /\ <<"dial", t>> # <<"ack", s>>
              /\ <<"DATA", t>> # <<"ack", s>> /\ <<"END", t>> # <<"ack", s>>
              /\ <<"ack", t>> = <<"ack", s>> => t = s
BY DEF Off, Read

\* Every step keeps the types.
LEMMA TypedNext ==
  ASSUME Typed, Next
  PROVE  Typed'
<1>a. streams \in [Circuits -> SUBSET Streams]  BY DEF Typed
<1>b. target \in [Circuits -> [Streams -> {"none", "open", "eof", "closed"}]]  BY DEF Typed
<1>c. reader \in [Circuits -> SUBSET Streams]  BY DEF Typed
<1>d. stage \in [Circuits -> {"new", "circuit", "hidden", "bye", "ended"}]  BY DEF Typed
<1>e. spoken \in [Circuits -> [Streams -> {"no", "yes", "ended"}]]  BY DEF Typed
<1>1. CASE Gc
  <2>1. timer' \in 0..Interval  BY <1>1, Times DEF Gc
  <2>2. UNCHANGED <<streams, target, serve, reader, served, sent>>  BY <1>1 DEF Gc
  <2>3. PICK C : Forget(C) /\ Close(C)  BY <1>1, Zenon DEF Gc
  <2>4. /\ entry' \in [Circuits -> {"none", "exit", "hidden"}]
        /\ age' \in [Circuits -> Nat] /\ quiet' \in [Circuits -> Nat]
    BY <2>3 DEF Forget, Typed
  <2>5. /\ up' \in [Circuits -> {"unused", "open", "gone", "closed"}]
        /\ service' \in [Circuits -> {"none", "open", "eof", "closed"}]
    BY <2>3 DEF Close, Typed
  <2> QED  BY <2>1, <2>2, <2>4, <2>5 DEF sent, Typed
<1>2. CASE Tick
  <2> DEFINE Older(a) == [c \in Circuits |-> IF entry[c] = "none" THEN a[c] ELSE a[c] + 1]
  <2>1. timer > 0 /\ timer' = timer - 1 /\ age' = Older(age) /\ quiet' = Older(quiet)
    BY <1>2 DEF Tick
  <2>2. timer \in 0..Interval /\ age \in [Circuits -> Nat] /\ quiet \in [Circuits -> Nat]
    BY DEF Typed
  <2>3. timer' \in 0..Interval  BY <2>1, <2>2, Times
  <2>4. age' \in [Circuits -> Nat] /\ quiet' \in [Circuits -> Nat]  BY <2>1, <2>2
  <2>5. UNCHANGED <<entry, streams, conns, serve, reader, served, sent>>  BY <1>2 DEF Tick
  <2> QED  BY <2>3, <2>4, <2>5 DEF conns, sent, Typed
<1>3. ASSUME NEW c \in Circuits, Accept(c) PROVE Typed'
  BY <1>3, Times, CellsHave DEF Typed, Accept, table, sent
<1>4. ASSUME NEW c \in Circuits, Receive(c) PROVE Typed'
  <2>1. PICK cell \in Cells : serve' = [serve EXCEPT ![c] = cell]
    BY <1>4, CellsHave, Zenon DEF Receive
  <2>2. \/ stage' = stage
        \/ \E x \in {"circuit", "hidden", "bye"} : stage' = [stage EXCEPT ![c] = x]
    BY <1>4, Zenon DEF Receive
  <2>3. \/ spoken' = spoken
        \/ \E s \in Streams, x \in {"yes", "ended"} : spoken' = [spoken EXCEPT ![c][s] = x]
    BY <1>4, Zenon DEF Receive
  <2>4. serve' \in [Circuits -> Cells]  BY <2>1 DEF Typed
  <2>5. stage' \in [Circuits -> {"new", "circuit", "hidden", "bye", "ended"}]  BY <2>2, <1>d
  <2>6. spoken' \in [Circuits -> [Streams -> {"no", "yes", "ended"}]]  BY <2>3, <1>e
  <2>7. UNCHANGED <<table, conns, timer, reader, served, quiet>>  BY <1>4 DEF Receive
  <2> QED  BY <2>4, <2>5, <2>6, <2>7 DEF conns, table, Typed
<1>5. ASSUME NEW c \in Circuits, ClientGone(c) PROVE Typed'
  BY <1>5, Times, CellsHave DEF Typed, ClientGone, table, sent
<1>6. ASSUME NEW c \in Circuits, ServiceEnds(c) PROVE Typed'
  BY <1>6, Times, CellsHave DEF Typed, ServiceEnds, table, sent
<1>7. ASSUME NEW c \in Circuits, ServeDownStop(c) PROVE Typed'
  BY <1>7, Times, CellsHave DEF Typed, ServeDownStop, table, sent
<1>8. ASSUME NEW c \in Circuits, Miss(c) PROVE Typed'
  BY <1>8, Times, CellsHave DEF Typed, Miss, conns, table, sent, Goes
<1>9. ASSUME NEW c \in Circuits, Extend(c) PROVE Typed'
  BY <1>9, Times, CellsHave DEF Typed, Extend, Add, conns, sent, At, Goes
<1>10. ASSUME NEW c \in Circuits, Connect(c) PROVE Typed'
  BY <1>10, Times, CellsHave DEF Typed, Connect, Found, Touched, conns, sent, At, Goes
<1>11. ASSUME NEW c \in Circuits, Connected(c) PROVE Typed'
  BY <1>11, Times, CellsHave DEF Typed, Connected, Add, sent, At, Goes
<1>12. ASSUME NEW c \in Circuits, DialFails(c) PROVE Typed'
  BY <1>12, Times, CellsHave DEF Typed, DialFails, conns, table, sent, Goes
<1>13. ASSUME NEW c \in Circuits, EndAll(c) PROVE Typed'
  BY ZenonT(40), <1>13, Times, CellsHave DEF Typed, EndAll, DestroyAllStreams, Forget, Close, At, Goes
<1>14. ASSUME NEW c \in Circuits, ServeStop(c) PROVE Typed'
  BY <1>14, Times, CellsHave DEF Typed, ServeStop, table, sent, At, Goes
<1>15. ASSUME NEW c \in Circuits, NEW s \in Streams, TargetEnds(c, s) PROVE Typed'
  BY <1>15, Times, CellsHave DEF Typed, TargetEnds, table, sent
<1>16. ASSUME NEW c \in Circuits, NEW s \in Streams, ForwardStop(c, s) PROVE Typed'
  BY ZenonT(40), <1>16, Times, CellsHave DEF Typed, ForwardStop, Sends, Leave, RemoveStream, sent
<1>22. ASSUME NEW c \in Circuits, NEW s \in Streams, Download(c, s) PROVE Typed'
  BY <1>22 DEF Typed, Download, Sends, conns, table, sent
<1>17. ASSUME NEW c \in Circuits, NEW s \in Streams, Begin(c, s) PROVE Typed'
  <2>1. PICK cell \in Cells : serve' = [serve EXCEPT ![c] = cell]
    BY <1>17, CellsHave DEF Begin, Goes
  <2>2. reader' = reader \/ reader' = [reader EXCEPT ![c] = @ \union {s}]  BY <1>17 DEF Begin
  <2>3. Found(c) /\ UNCHANGED <<entry, streams, conns, sent, timer, served>>  BY <1>17 DEF Begin
  <2>4. serve' \in [Circuits -> Cells]  BY <2>1 DEF Typed
  <2>5. reader' \in [Circuits -> SUBSET Streams]  BY <2>2, <1>c
  <2>6. age' \in [Circuits -> Nat] /\ quiet' \in [Circuits -> Nat]
    BY <2>3 DEF Found, Touched, Typed
  <2> QED  BY <2>3, <2>4, <2>5, <2>6 DEF conns, sent, Typed
<1>18. ASSUME NEW c \in Circuits, NEW s \in Streams, Dialled(c, s) PROVE Typed'
  BY <1>18, Times, CellsHave DEF Typed, Dialled, AddStream, sent, At, Goes
<1>19. ASSUME NEW c \in Circuits, NEW s \in Streams, Ack(c, s) PROVE Typed'
  <2>1. reader' = reader \/ reader' = [reader EXCEPT ![c] = @ \union {s}]  BY <1>19 DEF Ack
  <2>2. serve' = [serve EXCEPT ![c] = Read]  BY <1>19 DEF Ack, Goes
  <2>5. serve' \in [Circuits -> Cells]  BY <2>2, CellsHave DEF Typed
  <2>3. reader' \in [Circuits -> SUBSET Streams]  BY <2>1, <1>c
  <2>4. UNCHANGED <<table, conns, sent, timer, served, quiet>>  BY <1>19 DEF Ack
  <2> QED  BY <2>5, <2>3, <2>4 DEF table, conns, sent, Typed
<1>20. ASSUME NEW c \in Circuits, NEW s \in Streams, Data(c, s) PROVE Typed'
  <2>1. Found(c) /\ Goes(c, Read) /\ UNCHANGED <<entry, up, service, sent, timer, reader, served>>
    BY <1>20 DEF Data
  <2>2. (UNCHANGED <<streams, target>>) \/ RemoveStream(c, s)  BY <1>20 DEF Data
  <2>3. serve' \in [Circuits -> Cells]  BY <2>1, CellsHave DEF Goes, Typed
  <2>7. Found(c)  BY <2>1
  <2>4. age' \in [Circuits -> Nat] /\ quiet' \in [Circuits -> Nat]
    BY <2>7 DEF Found, Touched, Typed
  <2>5. streams' \in [Circuits -> SUBSET Streams]  BY <2>2, <1>a DEF RemoveStream
  <2>6. target' \in [Circuits -> [Streams -> {"none", "open", "eof", "closed"}]]
    BY <2>2, <1>a, <1>b DEF RemoveStream
  <2> QED  BY <2>1, <2>3, <2>4, <2>5, <2>6 DEF sent, Typed
<1>21. ASSUME NEW c \in Circuits, NEW s \in Streams, End(c, s) PROVE Typed'
  BY ZenonT(40), <1>21, Times, CellsHave DEF Typed, End, Found, Touched, RemoveStream, sent, At, Goes
<1> QED BY <1>1, <1>2, <1>3, <1>4, <1>5, <1>6, <1>7, <1>8, <1>9, <1>10, <1>11, <1>12, <1>13,
   <1>14, <1>15, <1>16, <1>17, <1>18, <1>19, <1>20, <1>21, <1>22 DEF Next, ServeConn

\* Every step keeps Aging: time passes for age and timer alike.
LEMMA AgingNext ==
  ASSUME Typed, Aging, Next
  PROVE  Aging'
<1>a. /\ age \in [Circuits -> Nat] /\ quiet \in [Circuits -> Nat]
      /\ timer \in 0..Interval /\ entry \in [Circuits -> {"none", "exit", "hidden"}]
  BY DEF Typed
<1> USE <1>a, Times DEF Aging
<1>1. CASE Gc  BY <1>1 DEF Gc, Expired, Forget
<1>2. CASE Tick  BY <1>2 DEF Tick, conns
<1>3. ASSUME NEW c \in Circuits, Extend(c) PROVE Aging'
  BY <1>3 DEF Extend, Add, conns
<1>4. ASSUME NEW c \in Circuits, Connect(c) PROVE Aging'
  BY <1>4 DEF Connect, Found, Touched, conns
<1>5. ASSUME NEW c \in Circuits, Connected(c) PROVE Aging'
  BY <1>5 DEF Connected, Add
<1>6. ASSUME NEW c \in Circuits, EndAll(c) PROVE Aging'
  BY <1>6 DEF EndAll, Forget
<1>7. ASSUME NEW c \in Circuits, NEW s \in Streams, Begin(c, s) PROVE Aging'
  BY <1>7 DEF Begin, Found, Touched, conns
<1>8. ASSUME NEW c \in Circuits, NEW s \in Streams, Data(c, s) PROVE Aging'
  BY <1>8 DEF Data, Found, Touched
<1>9. ASSUME NEW c \in Circuits, NEW s \in Streams, End(c, s) PROVE Aging'
  BY <1>9 DEF End, Found, Touched
<1>12. ASSUME NEW c \in Circuits, NEW s \in Streams, Download(c, s) PROVE Aging'
  BY <1>12 DEF Download, Sends, table
<1>13. ASSUME NEW c \in Circuits, NEW s \in Streams, ForwardStop(c, s) PROVE Aging'
  BY <1>13 DEF ForwardStop, Sends
<1>i. ASSUME UNCHANGED <<entry, age, timer, quiet>> PROVE Aging'  BY <1>i
<1>10. ASSUME NEW c \in Circuits,
                Accept(c) \/ Receive(c) \/ ClientGone(c) \/ ServiceEnds(c) \/ ServeDownStop(c)
             \/ Miss(c) \/ DialFails(c) \/ ServeStop(c)
      PROVE  UNCHANGED <<entry, age, timer, quiet>>
  BY <1>10 DEF Accept, Receive, ClientGone, ServiceEnds, ServeDownStop, Miss, DialFails,
     ServeStop, table, conns, sent
<1>11. ASSUME NEW c \in Circuits, NEW s \in Streams,
             TargetEnds(c, s) \/ Dialled(c, s) \/ Ack(c, s)
      PROVE  UNCHANGED <<entry, age, timer, quiet>>
  BY <1>11 DEF TargetEnds, Dialled, Ack, table, conns, sent
<1> QED  BY <1>i, <1>1, <1>2, <1>3, <1>4, <1>5, <1>6, <1>7, <1>8, <1>9, <1>10, <1>11,
   <1>12, <1>13 DEF Next, ServeConn

\* Every step keeps TableExact.
LEMMA ExactNext ==
  ASSUME Typed, TableExact, Next
  PROVE  TableExact'
<1>a. /\ streams \in [Circuits -> SUBSET Streams]
      /\ target \in [Circuits -> [Streams -> {"none", "open", "eof", "closed"}]]
  BY DEF Typed
<1> USE <1>a DEF TableExact
<1>1. ASSUME NEW c \in Circuits, EndAll(c) PROVE TableExact'
  BY <1>1 DEF EndAll, DestroyAllStreams
<1>2. ASSUME NEW c \in Circuits, NEW s \in Streams, TargetEnds(c, s) PROVE TableExact'
  BY <1>2 DEF TargetEnds, table
<1>3. ASSUME NEW c \in Circuits, NEW s \in Streams, ForwardStop(c, s) PROVE TableExact'
  BY <1>3 DEF ForwardStop, Leave, RemoveStream
<1>4. ASSUME NEW c \in Circuits, NEW s \in Streams, Dialled(c, s) PROVE TableExact'
  BY <1>4 DEF Dialled, AddStream
<1>5. ASSUME NEW c \in Circuits, NEW s \in Streams, Data(c, s) PROVE TableExact'
  BY <1>5 DEF Data, RemoveStream
<1>6. ASSUME NEW c \in Circuits, NEW s \in Streams, End(c, s) PROVE TableExact'
  BY <1>6 DEF End, RemoveStream
<1>i. ASSUME UNCHANGED <<streams, target>> PROVE TableExact'  BY <1>i
<1>7. ASSUME Gc \/ Tick
      PROVE  UNCHANGED <<streams, target>>
  BY <1>7 DEF Gc, Tick, conns, sent
<1>8. ASSUME NEW c \in Circuits,
                Accept(c) \/ Receive(c) \/ ClientGone(c) \/ ServiceEnds(c) \/ ServeDownStop(c)
             \/ Miss(c) \/ Extend(c) \/ Connect(c) \/ Connected(c) \/ DialFails(c) \/
                ServeStop(c)
      PROVE  UNCHANGED <<streams, target>>
  BY <1>8 DEF Accept, Receive, ClientGone, ServiceEnds, ServeDownStop, Miss, Extend, Connect,
     Connected, DialFails, ServeStop, table, conns, sent
<1>9. ASSUME NEW c \in Circuits, NEW s \in Streams,
             Begin(c, s) \/ Ack(c, s) \/ Download(c, s)
      PROVE  UNCHANGED <<streams, target>>
  BY <1>9 DEF Begin, Ack, Download, table, conns, sent
<1> QED  BY <1>i, <1>1, <1>2, <1>3, <1>4, <1>5, <1>6, <1>7, <1>8, <1>9 DEF Next, ServeConn

\* Every step keeps Attended.
LEMMA AttendedNext ==
  ASSUME Typed, Fresh, Attended, Next
  PROVE  Attended'
<1>a. /\ streams \in [Circuits -> SUBSET Streams] /\ reader \in [Circuits -> SUBSET Streams]
      /\ serve \in [Circuits -> Cells]
      /\ up \in [Circuits -> {"unused", "open", "gone", "closed"}]
  BY DEF Typed
<1> USE <1>a, NoAck DEF Attended
<1>1. CASE Gc  BY <1>1 DEF Gc, Close
<1>2. ASSUME NEW c \in Circuits, Accept(c) PROVE Attended'
  BY <1>2 DEF Fresh, Accept, table
<1>3. ASSUME NEW c \in Circuits, Receive(c) PROVE Attended'
  BY <1>3 DEF Receive, conns, table
<1>4. ASSUME NEW c \in Circuits, ClientGone(c) PROVE Attended'
  BY <1>4 DEF ClientGone, table
<1>5. ASSUME NEW c \in Circuits, Miss(c) PROVE Attended'
  BY <1>5 DEF Miss, conns, table, Goes
<1>6. ASSUME NEW c \in Circuits, Extend(c) PROVE Attended'
  BY <1>6 DEF Extend, conns, At, Goes
<1>7. ASSUME NEW c \in Circuits, Connect(c) PROVE Attended'
  BY <1>7 DEF Connect, conns, At, Goes
<1>8. ASSUME NEW c \in Circuits, Connected(c) PROVE Attended'
  BY <1>8 DEF Connected, At, Goes
<1>9. ASSUME NEW c \in Circuits, DialFails(c) PROVE Attended'
  BY <1>9 DEF DialFails, conns, table, Goes
<1>10. ASSUME NEW c \in Circuits, EndAll(c) PROVE Attended'
  BY <1>10 DEF EndAll, DestroyAllStreams, Close, At, Goes
<1>11. ASSUME NEW c \in Circuits, ServeStop(c) PROVE Attended'
  BY <1>11 DEF ServeStop, table, At, Goes
<1>12. ASSUME NEW c \in Circuits, NEW s \in Streams, ForwardStop(c, s) PROVE Attended'
  BY <1>12 DEF ForwardStop, Leave, RemoveStream
<1>13. ASSUME NEW c \in Circuits, NEW s \in Streams, Begin(c, s) PROVE Attended'
  <2>1. UNCHANGED <<streams, up>> /\ \A d \in Circuits \ {c} : serve'[d] = serve[d]
    BY <1>13 DEF Begin, Goes, conns
  <2>2. serve[c] = <<"BEGIN", s>>  BY <1>13 DEF Begin, At
  <2>3. \A d \in Circuits : reader[d] \subseteq reader'[d]  BY <1>13 DEF Begin
  <2> SUFFICES ASSUME NEW d \in Circuits, NEW t \in streams[d]
               PROVE  t \in reader'[d] \/ serve'[d] = <<"ack", t>> \/ up[d] # "open"
    BY <2>1
  <2>4. t \in Streams /\ (t \in reader[d] \/ serve[d] = <<"ack", t>> \/ up[d] # "open")
    OBVIOUS
  <2> QED  BY <2>1, <2>2, <2>3, <2>4
<1>14. ASSUME NEW c \in Circuits, NEW s \in Streams, Dialled(c, s) PROVE Attended'
  BY <1>14 DEF Dialled, AddStream, At, Goes
<1>15. ASSUME NEW c \in Circuits, NEW s \in Streams, Ack(c, s) PROVE Attended'
  <2>1. UNCHANGED <<streams, up>> /\ serve' = [serve EXCEPT ![c] = Read]
    BY <1>15 DEF Ack, Goes, table, conns
  <2>2. serve[c] = <<"ack", s>>  BY <1>15 DEF Ack, At
  <2>3. s \in reader'[c] \/ up[c] # "open"  BY <1>15 DEF Ack
  <2>4. \A d \in Circuits : reader[d] \subseteq reader'[d]  BY <1>15 DEF Ack
  <2> SUFFICES ASSUME NEW d \in Circuits, NEW t \in streams[d]
               PROVE  t \in reader'[d] \/ serve'[d] = <<"ack", t>> \/ up[d] # "open"
    BY <2>1
  <2>5. t \in Streams /\ (t \in reader[d] \/ serve[d] = <<"ack", t>> \/ up[d] # "open")
    OBVIOUS
  <2>6. CASE d # c  BY <2>1, <2>4, <2>5, <2>6
  <2>7. CASE d = c  BY <2>2, <2>3, <2>4, <2>5, <2>7
  <2> QED  BY <2>6, <2>7
<1>16. ASSUME NEW c \in Circuits, NEW s \in Streams, Data(c, s) PROVE Attended'
  BY <1>16 DEF Data, RemoveStream, At, Goes
<1>17. ASSUME NEW c \in Circuits, NEW s \in Streams, End(c, s) PROVE Attended'
  BY <1>17 DEF End, RemoveStream, At, Goes
<1>i. ASSUME UNCHANGED <<streams, reader, serve, up>> PROVE Attended'  BY <1>i
<1>18. ASSUME Tick
      PROVE  UNCHANGED <<streams, reader, serve, up>>
  BY <1>18 DEF Tick, conns, sent
<1>19. ASSUME NEW c \in Circuits,
             ServiceEnds(c) \/ ServeDownStop(c)
      PROVE  UNCHANGED <<streams, reader, serve, up>>
  BY <1>19 DEF ServiceEnds, ServeDownStop, table, sent
<1>20. ASSUME NEW c \in Circuits, NEW s \in Streams,
             TargetEnds(c, s) \/ Download(c, s)
      PROVE  UNCHANGED <<streams, reader, serve, up>>
  BY <1>20 DEF TargetEnds, Download, conns, table, sent
<1> QED  BY <1>i, <1>1, <1>2, <1>3, <1>4, <1>5, <1>6, <1>7, <1>8, <1>9, <1>10, <1>11, <1>12,
   <1>13, <1>14, <1>15, <1>16, <1>17, <1>18, <1>19, <1>20 DEF Next, ServeConn

\* Every step keeps Fresh.
LEMMA FreshNext ==
  ASSUME Typed, Fresh, Next
  PROVE  Fresh'
<1>a. /\ streams \in [Circuits -> SUBSET Streams] /\ serve \in [Circuits -> Cells]
      /\ entry \in [Circuits -> {"none", "exit", "hidden"}]
      /\ stage \in [Circuits -> {"new", "circuit", "hidden", "bye", "ended"}]
      /\ up \in [Circuits -> {"unused", "open", "gone", "closed"}]
  BY DEF Typed
<1> USE <1>a, Distinct DEF Fresh
<1>1. CASE Gc  BY <1>1 DEF Gc, Expired, Forget, Close, sent
<1>2. ASSUME NEW c \in Circuits, Accept(c) PROVE Fresh'
  BY <1>2 DEF Accept, table, sent
<1>3. ASSUME NEW c \in Circuits, Receive(c) PROVE Fresh'
  BY <1>3 DEF Receive, conns, table
<1>4. ASSUME NEW c \in Circuits, ClientGone(c) PROVE Fresh'
  BY <1>4 DEF ClientGone, table, sent
<1>5. ASSUME NEW c \in Circuits, Miss(c) PROVE Fresh'
  BY <1>5 DEF Miss, conns, table, sent, Goes
<1>6. ASSUME NEW c \in Circuits, Extend(c) PROVE Fresh'
  BY <1>6 DEF Extend, Add, conns, sent, At, Goes
<1>7. ASSUME NEW c \in Circuits, Connect(c) PROVE Fresh'
  BY <1>7 DEF Connect, Found, conns, sent, At, Goes
<1>8. ASSUME NEW c \in Circuits, Connected(c) PROVE Fresh'
  BY <1>8 DEF Connected, Add, sent, At, Goes
<1>9. ASSUME NEW c \in Circuits, DialFails(c) PROVE Fresh'
  BY <1>9 DEF DialFails, conns, table, sent, Goes
<1>10. ASSUME NEW c \in Circuits, EndAll(c) PROVE Fresh'
  BY <1>10 DEF EndAll, DestroyAllStreams, Forget, Close, At, Goes
<1>11. ASSUME NEW c \in Circuits, ServeStop(c) PROVE Fresh'
  BY <1>11 DEF ServeStop, table, sent, At, Goes
<1>12. ASSUME NEW c \in Circuits, NEW s \in Streams, ForwardStop(c, s) PROVE Fresh'
  BY <1>12 DEF ForwardStop, Leave, RemoveStream, sent
<1>13. ASSUME NEW c \in Circuits, NEW s \in Streams, Begin(c, s) PROVE Fresh'
  BY <1>13 DEF Begin, Found, conns, sent, At, Goes
<1>14. ASSUME NEW c \in Circuits, NEW s \in Streams, Dialled(c, s) PROVE Fresh'
  BY <1>14 DEF Dialled, AddStream, sent, At, Goes
<1>15. ASSUME NEW c \in Circuits, NEW s \in Streams, Ack(c, s) PROVE Fresh'
  BY <1>15 DEF Ack, conns, table, sent, At, Goes
<1>16. ASSUME NEW c \in Circuits, NEW s \in Streams, Data(c, s) PROVE Fresh'
  BY <1>16 DEF Data, Found, RemoveStream, sent, At, Goes
<1>17. ASSUME NEW c \in Circuits, NEW s \in Streams, End(c, s) PROVE Fresh'
  BY <1>17 DEF End, Found, RemoveStream, sent, At, Goes
<1>i. ASSUME UNCHANGED <<up, serve, streams, stage, entry>> PROVE Fresh'  BY <1>i
<1>18. ASSUME Tick
      PROVE  UNCHANGED <<up, serve, streams, stage, entry>>
  BY <1>18 DEF Tick, conns, sent
<1>19. ASSUME NEW c \in Circuits,
             ServiceEnds(c) \/ ServeDownStop(c)
      PROVE  UNCHANGED <<up, serve, streams, stage, entry>>
  BY <1>19 DEF ServiceEnds, ServeDownStop, table, sent
<1>20. ASSUME NEW c \in Circuits, NEW s \in Streams,
             TargetEnds(c, s) \/ Download(c, s)
      PROVE  UNCHANGED <<up, serve, streams, stage, entry>>
  BY <1>20 DEF TargetEnds, Download, conns, table, sent
<1> QED  BY <1>i, <1>1, <1>2, <1>3, <1>4, <1>5, <1>6, <1>7, <1>8, <1>9, <1>10, <1>11, <1>12,
   <1>13, <1>14, <1>15, <1>16, <1>17, <1>18, <1>19, <1>20 DEF Next, ServeConn

\* Every step keeps Disconnected.
LEMMA DisconnectedNext ==
  ASSUME Typed, Fresh, Disconnected, Next
  PROVE  Disconnected'
<1>a. /\ serve \in [Circuits -> Cells]
      /\ entry \in [Circuits -> {"none", "exit", "hidden"}]
      /\ stage \in [Circuits -> {"new", "circuit", "hidden", "bye", "ended"}]
      /\ up \in [Circuits -> {"unused", "open", "gone", "closed"}]
  BY DEF Typed
<1> USE <1>a, Distinct DEF Disconnected
<1>1. CASE Gc  BY <1>1 DEF Gc, Expired, Forget, Close, sent
<1>2. ASSUME NEW c \in Circuits, Accept(c) PROVE Disconnected'
  BY <1>2 DEF Fresh, Accept, table, sent
<1>3. ASSUME NEW c \in Circuits, Receive(c) PROVE Disconnected'
  BY ZenonT(40), <1>3 DEF Receive, conns, table
<1>4. ASSUME NEW c \in Circuits, ClientGone(c) PROVE Disconnected'
  BY <1>4 DEF ClientGone, table, sent
<1>5. ASSUME NEW c \in Circuits, Miss(c) PROVE Disconnected'
  BY <1>5 DEF Miss, conns, table, sent, Goes
<1>6. ASSUME NEW c \in Circuits, Extend(c) PROVE Disconnected'
  BY <1>6 DEF Extend, Add, conns, sent, At, Goes
<1>7. ASSUME NEW c \in Circuits, Connect(c) PROVE Disconnected'
  BY <1>7 DEF Connect, Found, conns, sent, At, Goes
<1>8. ASSUME NEW c \in Circuits, Connected(c) PROVE Disconnected'
  BY <1>8 DEF Connected, Add, sent, At, Goes
<1>9. ASSUME NEW c \in Circuits, DialFails(c) PROVE Disconnected'
  BY <1>9 DEF DialFails, conns, table, sent, Goes
<1>10. ASSUME NEW c \in Circuits, EndAll(c) PROVE Disconnected'
  BY <1>10 DEF EndAll, Forget, Close, At, Goes
<1>11. ASSUME NEW c \in Circuits, ServeStop(c) PROVE Disconnected'
  BY <1>11 DEF ServeStop, table, sent, At, Goes
<1>12. ASSUME NEW c \in Circuits, NEW s \in Streams, Begin(c, s) PROVE Disconnected'
  BY <1>12 DEF Begin, Found, conns, sent, At, Goes
<1>13. ASSUME NEW c \in Circuits, NEW s \in Streams, Dialled(c, s) PROVE Disconnected'
  BY <1>13 DEF Dialled, sent, At, Goes
<1>14. ASSUME NEW c \in Circuits, NEW s \in Streams, Ack(c, s) PROVE Disconnected'
  BY <1>14 DEF Ack, conns, table, sent, At, Goes
<1>15. ASSUME NEW c \in Circuits, NEW s \in Streams, Data(c, s) PROVE Disconnected'
  BY <1>15 DEF Data, Found, sent, At, Goes
<1>16. ASSUME NEW c \in Circuits, NEW s \in Streams, End(c, s) PROVE Disconnected'
  BY <1>16 DEF End, Found, sent, At, Goes
<1>i. ASSUME UNCHANGED <<up, serve, stage, entry>> PROVE Disconnected'  BY <1>i
<1>17. ASSUME Tick
      PROVE  UNCHANGED <<up, serve, stage, entry>>
  BY <1>17 DEF Tick, conns, sent
<1>18. ASSUME NEW c \in Circuits,
             ServiceEnds(c) \/ ServeDownStop(c)
      PROVE  UNCHANGED <<up, serve, stage, entry>>
  BY <1>18 DEF ServiceEnds, ServeDownStop, table, sent
<1>19. ASSUME NEW c \in Circuits, NEW s \in Streams,
             TargetEnds(c, s) \/ Download(c, s) \/ ForwardStop(c, s)
      PROVE  UNCHANGED <<up, serve, stage, entry>>
  BY <1>19 DEF TargetEnds, Download, ForwardStop, conns, table, sent
<1> QED  BY <1>i, <1>1, <1>2, <1>3, <1>4, <1>5, <1>6, <1>7, <1>8, <1>9, <1>10, <1>11, <1>12,
   <1>13, <1>14, <1>15, <1>16, <1>17, <1>18, <1>19 DEF Next, ServeConn

LEMMA InvInit == Init => TableInv
<1> SUFFICES ASSUME Init PROVE TableInv  OBVIOUS
<1>1. Typed  BY Times, CellsHave DEF Init, Typed
<1>2. Aging
  <2>1. timer = Interval /\ \A c \in Circuits : age[c] = 0 /\ quiet[c] = 0  BY DEF Init
  <2>2. 0 + Interval <= TTL + Interval /\ 0 <= 0  BY Times
  <2> QED  BY <2>1, <2>2, Zenon DEF Aging
<1>3. Fresh /\ Attended /\ Disconnected  BY DEF Init, Fresh, Attended, Disconnected
<1>4. TableExact  BY DEF Init, TableExact
<1> QED  BY <1>1, <1>2, <1>3, <1>4 DEF TableInv

LEMMA InvNext == TableInv /\ [Next]_vars => TableInv'
<1> SUFFICES ASSUME TableInv, [Next]_vars PROVE TableInv'  OBVIOUS
<1>1. CASE Next
  BY <1>1, TypedNext, AgingNext, FreshNext, ExactNext, AttendedNext, DisconnectedNext DEF TableInv
<1>2. CASE UNCHANGED vars
  BY <1>2 DEF vars, table, conns, sent, TableInv, Typed, Aging, Fresh, TableExact, Attended,
     Disconnected
<1> QED  BY <1>1, <1>2

\* The invariant implies the bounds on the age of an entry.
LEMMA InvBounds == TableInv => TypeOK /\ Swept
<1> SUFFICES ASSUME Typed, Aging PROVE TypeOK /\ Swept  BY DEF TableInv
<1>1. \A c \in Circuits :
        /\ quiet[c] <= TTL + Interval
        /\ age[c] \in 0..TTL + Interval
  <2> TAKE c \in Circuits
  <2>1. /\ age[c] \in Nat /\ quiet[c] \in Nat /\ timer \in Nat
        /\ quiet[c] <= age[c] /\ age[c] + timer <= TTL + Interval
    BY Times DEF Typed, Aging
  <2> QED  BY <2>1, Times
<1>2. age \in [Circuits -> 0..TTL + Interval]  BY <1>1 DEF Typed
<1>3. Swept
  <2>1. CASE Interval = HalfTTL  BY <1>1, <2>1 DEF Swept
  <2>2. CASE Interval = Second  BY <1>1, <2>2 DEF Swept
  <2> QED  BY <2>1, <2>2, Times
<1> QED  BY <1>2, <1>3 DEF Typed, TypeOK

\* The inductive invariant holds always.
LEMMA Inv == Spec => []TableInv
BY InvInit, InvNext, PTL DEF Spec
-----------------------------------------------------------------------------
\* Every variable has its type, and no entry gets older than the TTL and an interval of gc
\* (conn_state_repository.go:72-88).
THEOREM TableTyped == Spec => []TypeOK
BY Inv, InvBounds, PTL

\* The table has exactly the connections to targets that are open, whoever of ServeConn,
\* forwardUpstream and gc came first (conn_state_repository.go:92-157).
THEOREM TableIsExact == Spec => []TableExact
<1>1. TableInv => TableExact  BY DEF TableInv
<1> QED  BY Inv, <1>1, PTL

\* Every connection of the table has a forwardUpstream that reads it, unless the client was
\* lost before BEGIN was acknowledged (handle_begin_usecase.go:81-89).
THEOREM StreamsAttended == Spec => []Attended
<1>1. TableInv => Attended  BY DEF TableInv
<1> QED  BY Inv, <1>1, PTL

\* A client without an entry is disconnected (relay_handler.go:79-89), even one whose CONNECT
\* lasted longer than gc left its entry alone.
THEOREM ClientsDisconnected == Spec => []Disconnected
<1>1. TableInv => Disconnected  BY DEF TableInv
<1> QED  BY Inv, <1>1, PTL

\* The entry of a circuit without traffic is gone an interval of gc after the TTL
\* (conn_state_repository.go:72-88).
THEOREM UnusedSwept == Spec => []Swept
BY Inv, InvBounds, PTL
==============================================================================
