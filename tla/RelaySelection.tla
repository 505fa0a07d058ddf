--------------------------- MODULE RelaySelection ---------------------------
(***************************************************************************)
(* How the client finds the exit of a request and chooses the relays of a  *)
(* circuit: its relay and hidden service repositories, the resolution of   *)
(* the requested host, and the first half of build.  A repository is a     *)
(* sequence in the directory's order.  Random numbers are a choice: a      *)
(* selection is the set of routes that build may come up with, which is    *)
(* empty if it returns an error.                                           *)
(*                                                                         *)
(* An operator marked "mistake" is the one after it with a plausible bug.  *)
(***************************************************************************)
EXTENDS Integers, SequencesExt

NoRelay == "no relay"

Relay(id, online) == [id |-> id, online |-> online]
Ids(relays)       == [i \in DOMAIN relays |-> relays[i].id]
IdsOf(relays)     == Range(Ids(relays))

\* No two relays of a list have one identifier.
ListedOnce(relays) == IsInjective(Ids(relays))

\* The repository after loading the directory: every relay it lists is online.
LoadRelays(ids) == [i \in DOMAIN ids |-> Relay(ids[i], TRUE)]

\* The list of those online, which AllOnline appends to relay by relay.
Keep(list, r) == IF r.online THEN Append(list, r) ELSE list
AllOnline(relays) ==
  LET kept[i \in 0..Len(relays)] == IF i = 0 THEN <<>> ELSE Keep(kept[i - 1], relays[i])
  IN  kept[Len(relays)]

\* The first of some places in a repository, 0 if there is none.
First(places) == IF places = {} THEN 0 ELSE CHOOSE i \in places : \A j \in places : i <= j

FindByID(relays, id) == First({ i \in DOMAIN relays : relays[i].id = id })

\* A host name: upper says whether it has capitals, ptor whether it ends in .ptor.
Lower(host) == [host EXCEPT !.upper = FALSE]

FindByAddressString(services, host) ==
  First({ i \in DOMAIN services : Lower(services[i].address) = Lower(host) })

\* Whether the host can be resolved, and the exit that its circuit needs.
Resolves(services, host) == host.ptor => FindByAddressString(services, host) # 0
ExitOf(services, host) ==
  IF host.ptor THEN services[FindByAddressString(services, host)].relay ELSE NoRelay
-----------------------------------------------------------------------------
Swap(xs, i, j) == [xs EXCEPT ![i] = xs[j], ![j] = xs[i]]

\* How many numbers two random bytes can be.
Draws == 65536

\* Mistake: an element never stays where it is.
CandidatesBelow(i) == 1..(i - 1)
\* What may be swapped to place i once the places above it are done.
Candidates(i) == 1..(IF i < Draws THEN i ELSE Draws)

Drawn(orders, i) == UNION { { Swap(ys, i, j) : j \in Candidates(i) } : ys \in orders }

\* Every order that secureShuffle may leave xs in, from its last place down to the second.
Shuffled(xs) ==
  LET from[i \in 2..Len(xs) + 1] == IF i > Len(xs) THEN {xs} ELSE Drawn(from[i + 1], i)
  IN  IF Len(xs) < 2 THEN {xs} ELSE from[2]

Hops(n) == IF n <= 0 THEN 3 ELSE n

\* The online relays without the exit.
WithoutExit(online, exit) == RemoveAt(online, FindByID(online, exit))

\* The routes that build may select from a repository.
Routes(relays, n, exit) ==
  LET online == AllOnline(relays)
      h      == Hops(n)
      pool   == IF h = 1 THEN <<>> ELSE WithoutExit(online, exit)
  IN  IF Len(online) < h THEN {}
      ELSE IF exit = NoRelay THEN { Ids(SubSeq(s, 1, h)) : s \in Shuffled(online) }
      ELSE IF \/ FindByID(relays, exit) = 0
              \/ ~relays[FindByID(relays, exit)].online
              \/ h - 1 > Len(pool) THEN {}
      ELSE { Append(Ids(SubSeq(s, 1, h - 1)), exit) : s \in Shuffled(pool) }
-----------------------------------------------------------------------------
\* What a selection should be: any choice of distinct online relays, the exit last.
ProperRoutes(relays, n, exit) ==
  LET h == Hops(n)
  IN  { r \in [1..h -> IdsOf(AllOnline(relays))] :
          /\ \A i, j \in 1..h : r[i] = r[j] => i = j
          /\ exit # NoRelay => r[h] = exit }
=============================================================================
