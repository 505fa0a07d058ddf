--------------------------- MODULE CircuitBuildInv --------------------------
(***************************************************************************)
(* The inductive invariants behind KeysAgree, EstablishedIsInit and        *)
(* SomebodyCanRun.  At most one message of a construction is under way:    *)
(* EXTEND on its way to relay hop, or its CREATED on the way back.         *)
(***************************************************************************)
EXTENDS CircuitBuild

\* EXTEND is on connection j, or in the hands of relay j; CREATED is on connection j.
Sent(j) == dn[j] # <<>> /\ Head(dn[j]) # Teardown
Held(j) == pc[j] \in {"cell", "dial"}
At(j)   == Sent(j) \/ Held(j)
Back(j) == up[j] # <<>>

\* What can be on the connections and in the relays' hands, and where.
Proper ==
  \A j \in Hops :
    /\ dn[j] \in {<<>>, <<hop>>} \/ (topShut[j] /\ dn[j] \in {<<Teardown>>, <<hop, Teardown>>})
    /\ up[j] \in {<<>>, <<Created(hop, hop)>>}
    /\ Held(j) => job[j] = hop
    /\ At(j) => j <= hop
    /\ pc[j] = "wait" => st[j].down \in Hops

\* It is one message at most.
Unique ==
  /\ \A j \in Hops : ~(Sent(j) /\ Held(j))
  /\ \A j, k \in Hops : (At(j) /\ At(k) => j = k) /\ (Back(j) /\ Back(k) => j = k)

\* It is EXTEND or CREATED, and the client waits for it or has given up.
Pending ==
  /\ \A j, k \in Hops : ~(At(j) /\ Back(k))
  /\ (\E j \in Hops : At(j) \/ Back(j)) => phase \in {"wait", "failed"}

\* Relay i has made its entry.
Had(i) == i \in table \/ botShut[i]

\* A relay dials because it has no entry.
Dialling == \A i \in Hops : pc[i] = "dial" => i \notin table

\* Entries are made in the order of the hops, each for an EXTEND that is spent.
InOrder ==
  /\ \A i \in table : i <= hop
  /\ hop \in table => phase \notin {"dial", "send"} /\ \A j \in Hops : ~At(j)
  /\ \A i \in Hops : i < hop => Had(i)
  /\ (\E j \in Hops : Back(j)) => Had(hop)

\* An entry that was made for the EXTEND of a later hop stops the construction.
Regular(i) == st[i] = [key |-> Key(i, Created(i, i)), down |-> NextHop(i)]
Regulars ==
  \/ \A i \in table : Regular(i)
  \/ phase \in {"wait", "failed"} /\ \A j \in Hops : ~At(j) /\ ~Back(j)

ClientKeys ==
  /\ phase = "built" => hop = N
  /\ \A i \in Hops :
       ckey[i] = IF i < hop \/ phase = "built" THEN Key(i, Created(i, i)) ELSE NoKey

BuildInv == TypeOK /\ Proper /\ Unique /\ Pending /\ Dialling /\ InOrder /\ Regulars /\ ClientKeys
-----------------------------------------------------------------------------
(***************************************************************************)
(* What is left of a construction: nothing closed, and nobody waiting.     *)
(***************************************************************************)
Closed == \E i \in Hops : topShut[i] \/ botShut[i]

\* The entry of relay i was collected, when EXTEND hop could not make it again.
Lost(i) ==
  /\ i \notin table /\ botShut[i] /\ i <= hop
  /\ i = hop => phase \notin {"dial", "send"} /\ \A j \in Hops : ~At(j)

\* Unless the client gives up, connections close only when a relay loses its entry.
Closings ==
  Closed => \/ phase = "failed" \/ \E i \in Hops : Lost(i)
            \/ \E i \in table : ~Regular(i)

\* The construction stands still until the client's deadline.
Stalled == phase = "wait" /\ \A j \in Hops : ~At(j) /\ ~Back(j)

\* A relay that waits for CREATED has the message further down the circuit.
Waits ==
  \A i \in Hops : pc[i] = "wait" =>
    \/ phase = "failed" \/ Closed \/ Stalled
    \/ \E j \in Hops : i < j /\ (At(j) \/ Back(j))

\* A relay with an entry serves its connection until that is closed.
Serving ==
  /\ late => phase = "failed"
  /\ \A i \in Hops : /\ i \in table => pc[i] # "off"
                     /\ pc[i] = "done" => botShut[i]
                     /\ pc[i] = "wait" => Had(i)

ReadyInv == BuildInv /\ Closings /\ Waits /\ Serving
-----------------------------------------------------------------------------
(***************************************************************************)
(* Why a construction that nothing has disturbed never stands still: the   *)
(* message is somewhere, and exactly the relays it has passed wait for it. *)
(***************************************************************************)
Going == phase \in {"dial", "send", "wait"} /\ ~broken

\* A relay was dialled before its EXTEND can arrive, and nothing closes.
Reached ==
  /\ Closed => phase = "failed" \/ broken
  /\ Going /\ phase # "dial" => pc[1] # "off"
  /\ Going => \A i \in table : i < N => pc[i + 1] # "off"

\* The message is not lost, and every relay before it waits.
Awaited ==
  Going =>
    /\ phase = "wait" => \E j \in Hops : At(j) \/ Back(j)
    /\ \A j, k \in Hops : (At(j) \/ Back(j)) /\ k < j => pc[k] = "wait"

FlowInv == ReadyInv /\ Reached /\ Awaited

\* A step of the client, and of the ServeConn goroutine of relay i, is possible.
BuildReads == phase \in {"dial", "send"} \/ (phase = "wait" /\ (Back(1) \/ botShut[1]))
ServeReads(i) ==
  \/ pc[i] = "read" /\ (Sent(i) \/ topShut[i] \/ botShut[i])
  \/ Held(i)
  \/ pc[i] = "wait" /\ LET d == st[i].down IN Back(d) \/ topShut[d] \/ botShut[d]

\* NoMutualWait with the guards of the actions in the place of ENABLED: no deadline is
\* needed to end a construction in which every relay could dial the next one and has
\* kept its entry.
SomebodyCanRun ==
  phase \in {"send", "wait"} /\ ~broken => BuildReads \/ \E i \in Hops : ServeReads(i)
=============================================================================
