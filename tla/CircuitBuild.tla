---------------------------- MODULE CircuitBuild ----------------------------
(***************************************************************************)
(* The construction of one circuit: the client's build                     *)
(* (build_circuit_usecase.go:169-265) and what the ServeConn goroutines of *)
(* the relays do with EXTEND.  The client sends EXTEND k on its one        *)
(* connection, relays that have the circuit pass it on and block until the *)
(* CREATED comes back, and the first relay that does not have the circuit  *)
(* makes an entry for it, after it has dialled the hop that EXTEND k names.*)
(*                                                                         *)
(* EXTEND k carries the client's k-th public key and the address of hop    *)
(* k+1, so it is written as the number k.  A connection is named after the *)
(* relay it leads to: connection 1 is the client's, and relay i holds the  *)
(* other end of connection st[i].down.  No EXTEND is answered twice, so no *)
(* relay is dialled twice.                                                 *)
(*                                                                         *)
(* An operator marked "mistake" is the one after it with a plausible bug.  *)
(***************************************************************************)
EXTENDS Chunks, Naturals, Sequences

CONSTANTS
  N,         \* number of hops
  Expiry,    \* whether the relays' gc may find an entry unused for its TTL
  LateDials  \* whether dialling the first relay may take longer than 10 seconds

ASSUME BuildAssumption == N \in Nat \ {0} /\ {Expiry, LateDials} \subseteq BOOLEAN

VARIABLES
  phase,            \* where build is
  hop,              \* the hop it extends to
  ckey,             \* keys, by hop
  late,             \* the dial of relay 1 goes on although build has given up
  dn, up,           \* what is in flight on connection i, away from and towards the client
  topShut, botShut, \* the dialler's end of connection i, that of relay i, is closed
  table,            \* relays whose repository has the circuit
  st,               \* their ConnStates: the key, and the relay that down leads to
  pc,               \* where the ServeConn goroutine of relay i on connection i is
  job,              \* the EXTEND it handles
  broken            \* a relay could not dial its next hop, or has collected its entry

client == <<phase, hop, ckey, late>>
wires  == <<dn, up, topShut, botShut>>
relays == <<table, st, pc, job>>
vars   == <<client, wires, relays, broken>>

Hops == 1..N

\* The hop that EXTEND k asks for, 0 if it is the last.
NextHop(k) == IF k < N THEN k + 1 ELSE 0

\* The 20 bytes of TeardownCircuit, which no relay can read as a cell.
Teardown == 0

\* CREATED carries the public key that relay i made for EXTEND k.
Created(i, k) == [relay |-> i, extend |-> k]
\* What X25519 and HKDF make of the client's k-th key and a relay's.
Key(k, pub) == [client |-> k, pub |-> pub]
NoKey       == Key(0, Created(0, 0))

PutDown(i, c) == IF topShut[i] \/ botShut[i] THEN dn ELSE [dn EXCEPT ![i] = Append(@, c)]
PutUp(U, i, c) == IF topShut[i] \/ botShut[i] THEN U ELSE [U EXCEPT ![i] = Append(@, c)]

\* A write fails if the writer's end is closed, and may if the other end is.
MayReturn(ok, mine, other) == (ok => ~mine) /\ (~ok => mine \/ other)

Init ==
  /\ phase = "dial" /\ hop = 1 /\ ckey = [i \in Hops |-> NoKey] /\ late = FALSE
  /\ dn = [i \in Hops |-> <<>>] /\ up = [i \in Hops |-> <<>>]
  /\ topShut = [i \in Hops |-> FALSE] /\ botShut = [i \in Hops |-> FALSE]
  /\ table = {} /\ st = [i \in Hops |-> [key |-> NoKey, down |-> 0]]
  /\ pc = [i \in Hops |-> "off"] /\ job = [i \in Hops |-> 0]
  /\ broken = FALSE
-----------------------------------------------------------------------------
(***************************************************************************)
(* The client.                                                             *)
(***************************************************************************)
Dial ==
  /\ phase = "dial" /\ phase' = "send"
  /\ pc' = [pc EXCEPT ![1] = "read"]
  /\ UNCHANGED <<hop, ckey, late, wires, table, st, job, broken>>

DialRefused ==
  /\ phase = "dial" /\ phase' = "failed"
  /\ UNCHANGED <<hop, ckey, late, wires, relays, broken>>

\* The context expires; the goroutine that dials is left alone.
DialTimeout ==
  /\ LateDials /\ phase = "dial" /\ phase' = "failed" /\ late' = TRUE
  /\ UNCHANGED <<hop, ckey, wires, relays, broken>>

\* Nobody takes its connection out of the channel.
LateDial ==
  /\ late /\ late' = FALSE
  /\ \/ pc' = [pc EXCEPT ![1] = "read"]
     \/ UNCHANGED pc
  /\ UNCHANGED <<phase, hop, ckey, wires, table, st, job, broken>>

\* TeardownCircuit and Close.
Abort ==
  /\ phase' = "failed"
  /\ dn' = PutDown(1, Teardown)
  /\ topShut' = [topShut EXCEPT ![1] = TRUE] /\ up' = [up EXCEPT ![1] = <<>>]

SendExtend ==
  /\ phase = "send"
  /\ \E ok \in BOOLEAN :
       /\ MayReturn(ok, FALSE, botShut[1])
       /\ IF ok THEN phase' = "wait" /\ dn' = PutDown(1, hop) /\ UNCHANGED <<topShut, up>>
                ELSE Abort
  /\ UNCHANGED <<hop, ckey, late, botShut, relays, broken>>

\* mistake: one hop too many
LastHopLate == hop > N
LastHop == hop = N

WaitForCreated ==
  /\ phase = "wait" /\ up[1] # <<>>
  /\ ckey' = [ckey EXCEPT ![hop] = Key(hop, Head(up[1]))]
  /\ up' = [up EXCEPT ![1] = Tail(@)]
  /\ IF LastHop THEN phase' = "built" /\ UNCHANGED hop
                ELSE phase' = "send" /\ hop' = hop + 1
  /\ UNCHANGED <<late, dn, topShut, botShut, relays, broken>>

WaitEOF ==
  /\ phase = "wait" /\ up[1] = <<>> /\ botShut[1]
  /\ Abort
  /\ UNCHANGED <<hop, ckey, late, botShut, relays, broken>>

\* The deadline of 10 seconds passes.
Deadline ==
  /\ phase = "wait" /\ Abort
  /\ UNCHANGED <<hop, ckey, late, botShut, relays, broken>>
-----------------------------------------------------------------------------
(***************************************************************************)
(* The ServeConn goroutine of relay i.  The repository is asked after the  *)
(* cell is read, and in between gc may run.                                *)
(***************************************************************************)
ReadCell(i) ==
  /\ pc[i] = "read" /\ ~botShut[i] /\ dn[i] # <<>> /\ Head(dn[i]) # Teardown
  /\ pc' = [pc EXCEPT ![i] = "cell"] /\ job' = [job EXCEPT ![i] = Head(dn[i])]
  /\ dn' = [dn EXCEPT ![i] = Tail(@)]
  /\ UNCHANGED <<client, up, topShut, botShut, table, st, broken>>

\* Nothing to read any more.  Of a connection that its dialler has closed, possibly
\* with a CREATED unread, cells that are still unread may be lost.
ServeStop(i) ==
  /\ pc[i] = "read" /\ (topShut[i] \/ botShut[i])
  /\ pc' = [pc EXCEPT ![i] = "done"]
  /\ botShut' = [botShut EXCEPT ![i] = TRUE] /\ dn' = [dn EXCEPT ![i] = <<>>]
  /\ UNCHANGED <<client, up, topShut, table, st, job, broken>>

\* Extend once the next hop is reached: a new entry, and CREATED.
NewEntry(i) ==
  LET k == job[i]
  IN /\ table' = table \cup {i}
     /\ st' = [st EXCEPT ![i] = [key |-> Key(k, Created(i, k)), down |-> NextHop(k)]]
     /\ up' = PutUp(up, i, Created(i, k))

ExtendLast(i) ==
  /\ pc[i] = "cell" /\ i \notin table /\ NextHop(job[i]) = 0
  /\ NewEntry(i)
  /\ pc' = [pc EXCEPT ![i] = "read"]
  /\ UNCHANGED <<client, dn, topShut, botShut, job, broken>>

Extend(i) ==
  /\ pc[i] = "cell" /\ i \notin table /\ NextHop(job[i]) # 0
  /\ pc' = [pc EXCEPT ![i] = "dial"]
  /\ UNCHANGED <<client, wires, table, st, job, broken>>

\* mistake: the relay waits for the CREATED of the hop it has dialled
DialledPcWaits(i) == "wait"
DialledPc(i) == "read"

\* The next hop accepts and starts a ServeConn.
ExtendDialled(i) ==
  /\ pc[i] = "dial"
  /\ NewEntry(i)
  /\ pc' = [pc EXCEPT ![i] = DialledPc(i), ![NextHop(job[i])] = "read"]
  /\ UNCHANGED <<client, dn, topShut, botShut, job, broken>>

\* Nothing is sent.
ExtendRefused(i) ==
  /\ pc[i] = "dial"
  /\ pc' = [pc EXCEPT ![i] = "read"] /\ broken' = TRUE
  /\ UNCHANGED <<client, wires, table, st, job>>

\* mistake: the relay answers at once
AnswersAtOnce(i) == PutUp(up, i, Created(i, job[i]))
Answers(i) == up

ForwardExtend(i) ==
  LET d == st[i].down
  IN /\ pc[i] = "cell" /\ i \in table
     /\ \E ok \in BOOLEAN :
          /\ IF d = 0 THEN ~ok ELSE MayReturn(ok, topShut[d], botShut[d])
          /\ dn' = IF ok THEN PutDown(d, job[i]) ELSE dn
          /\ pc' = [pc EXCEPT ![i] = IF ok THEN "wait" ELSE "read"]
     /\ up' = Answers(i)
     /\ UNCHANGED <<client, topShut, botShut, table, st, job, broken>>

\* No deadline, and no look at the command.
ForwardCreated(i) ==
  LET d == st[i].down
  IN /\ pc[i] = "wait" /\ up[d] # <<>>
     /\ up' = PutUp([up EXCEPT ![d] = Tail(@)], i, Head(up[d]))
     /\ pc' = [pc EXCEPT ![i] = "read"]
     /\ UNCHANGED <<client, dn, topShut, botShut, table, st, job, broken>>

ForwardEOF(i) ==
  LET d == st[i].down
  IN /\ pc[i] = "wait" /\ up[d] = <<>> /\ (topShut[d] \/ botShut[d])
     /\ pc' = [pc EXCEPT ![i] = "read"]
     /\ UNCHANGED <<client, wires, table, st, job, broken>>
-----------------------------------------------------------------------------
(***************************************************************************)
(* gc.                                                                     *)
(***************************************************************************)
\* mistakes: the connections stay open; only up is closed
CloseForgets(i) == UNCHANGED wires
CloseUp(i) ==
  /\ botShut' = [botShut EXCEPT ![i] = TRUE] /\ dn' = [dn EXCEPT ![i] = <<>>]
  /\ UNCHANGED <<topShut, up>>
\* ConnState.Close
Close(i) ==
  /\ botShut' = [botShut EXCEPT ![i] = TRUE] /\ dn' = [dn EXCEPT ![i] = <<>>]
  /\ topShut' = [j \in Hops |-> topShut[j] \/ j = st[i].down]
  /\ up' = [j \in Hops |-> IF j = st[i].down THEN <<>> ELSE up[j]]

Expire(i) ==
  /\ Expiry /\ i \in table /\ table' = table \ {i}
  /\ Close(i)
  /\ broken' = TRUE
  /\ UNCHANGED <<client, st, pc, job>>
-----------------------------------------------------------------------------
Build == Dial \/ SendExtend \/ WaitForCreated \/ WaitEOF

ServeConn(i) ==
  \/ ReadCell(i) \/ ServeStop(i) \/ ExtendLast(i) \/ Extend(i)
  \/ ExtendDialled(i) \/ ForwardExtend(i) \/ ForwardCreated(i) \/ ForwardEOF(i)

Next ==
  \/ Build \/ DialRefused \/ DialTimeout \/ LateDial \/ Deadline
  \/ \E i \in Hops : ServeConn(i) \/ ExtendRefused(i) \/ Expire(i)

Spec == Init /\ [][Next]_vars

(***************************************************************************)
(* Goroutines that can run run, a dial returns, and gc finds an entry once *)
(* nothing has used it for the TTL.  Deadlines are not counted on.         *)
(***************************************************************************)
FairSpec ==
  /\ Spec
  /\ WF_vars(Build \/ DialRefused) /\ WF_vars(LateDial)
  /\ \A i \in Hops : WF_vars(ServeConn(i) \/ ExtendRefused(i)) /\ WF_vars(Expire(i))
-----------------------------------------------------------------------------
Pubs == [relay : 0..N, extend : 0..N]
Keys == [client : 0..N, pub : Pubs]

TypeOK ==
  /\ phase \in {"dial", "send", "wait", "built", "failed"} /\ hop \in Hops
  /\ ckey \in [Hops -> Keys] /\ late \in BOOLEAN
  /\ dn \in [Hops -> Seq(0..N)] /\ up \in [Hops -> Seq(Pubs)]
  /\ topShut \in [Hops -> BOOLEAN] /\ botShut \in [Hops -> BOOLEAN]
  /\ table \subseteq Hops /\ st \in [Hops -> [key : Keys, down : 0..N]]
  /\ pc \in [Hops -> {"off", "read", "cell", "dial", "wait", "done"}]
  /\ job \in [Hops -> 0..N] /\ broken \in BOOLEAN
-----------------------------------------------------------------------------
\* Every key the client derives is with the relay of that hop, and once the circuit
\* is built every relay that still has an entry has that key and the right next hop,
\* although a relay whose entry was collected takes the EXTEND for a later hop for a
\* new circuit's (relay_handler.go:84-86).
KeysAgree ==
  /\ \A i \in Hops : ckey[i] \in {NoKey, Key(i, Created(i, i))}
  /\ phase = "built" =>
       \A i \in Hops :
         /\ ckey[i] # NoKey
         /\ i \in table => st[i] = [key |-> ckey[i], down |-> NextHop(i)]

\* What build returns is what module Circuit starts from, unless an entry is
\* collected: nothing is in flight, nothing is closed, no relay still waits.
Established ==
  INSTANCE Circuit WITH
    Hidden <- FALSE, MaxSent <- 0, MaxReplied <- 0, Rooms <- {}, Resets <- FALSE,
    st <- [i \in Hops |->
             [begin |-> 0, data |-> 0, updata |-> 0, hidden |-> FALSE, served |-> FALSE]],
    serve <- [i \in Hops |-> [up |-> IF pc[i] = "read" THEN "run" ELSE pc[i], down |-> "off"]],
    job <- [i \in Hops |-> [s \in {"up", "down"} |->
              [pc |-> "read", nonce |-> 0,
               cell |-> [cmd |-> "END", sid |-> 1, layers |-> <<>>, body |-> Cipher, room |-> 0]]]],
    strm <- FALSE, tgt <- "none", fwd <- [pc |-> "off", no |-> 0, room |-> 0, nonce |-> 0],
    phase <- "open", sock <- "open", reg <- FALSE, rx <- "run",
    ctr <- [begin |-> 0, data |-> 0, up |-> 0],
    sent <- 0, delivered <- <<>>, replied <- 0, received <- <<>>, tainted <- FALSE
EstablishedIsInit == phase = "built" /\ table = Hops => Established!Init
-----------------------------------------------------------------------------
\* Unless a relay could not dial or lost its entry, a construction never stands still
\* until its deadline: the relays that block in ForwardExtend, and the client, never
\* all wait for one another.
NoMutualWait ==
  phase \in {"send", "wait"} /\ ~broken => ENABLED (Build \/ \E i \in Hops : ServeConn(i))

\* After a failed construction every relay forgets the circuit, every connection is
\* closed at both ends and every goroutine that served one ends: what TeardownCircuit
\* and the closing of the client's connection are for.
Forgotten ==
  /\ table = {} /\ ~late
  /\ \A i \in Hops : pc[i] = "off" \/ (pc[i] = "done" /\ topShut[i] /\ botShut[i])
FailureReleases == phase = "failed" ~> Forgotten

\* With the relays' gc it does, unless the connection to relay 1 came too late for
\* build to close it.
Abandoned == phase = "failed" /\ pc[1] # "off" /\ ~topShut[1]
FailureCollected == phase = "failed" ~> Forgotten \/ Abandoned
=============================================================================
