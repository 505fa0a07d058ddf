----------------------- MODULE CircuitTeardown_proofs -----------------------
(***************************************************************************)
(* Nobody tears down a circuit in use: on a circuit that is not for a      *)
(* hidden service, and unless a relay's gc collects its entry, TearInv of  *)
(* CircuitInv is inductive, for every number of hops.                      *)
(***************************************************************************)
EXTENDS CircuitUp_proofs, CircuitDown_proofs

USE CircuitAssumption
-----------------------------------------------------------------------------
(***************************************************************************)
(* What steps do to the way down: Q is P after one of them.                *)
(***************************************************************************)
\* What a step must keep that adds nothing to the way down.
Calm(P, Q) ==
  /\ \A b : AllMild(P, b) => AllMild(Q, b)
  /\ EndLast(P) => EndLast(Q)
  /\ Lacks(P, "DATA") => Lacks(Q, "DATA")
  /\ HasBegin(P) => HasBegin(Q)

\* The cell before relay i is dealt with.
Popped(Q, P, i) ==
  /\ P[i] # <<>> /\ Q[i] = Tail(P[i])
  /\ \A h \in Hops \ {i} : Q[h] = P[h]

\* It is passed on, as d.
Passed(Q, P, i, d) ==
  /\ i < N /\ P[i] # <<>> /\ d.cmd = Head(P[i]).cmd /\ d.sid = Head(P[i]).sid
  /\ Q[i] = Tail(P[i]) /\ Q[i+1] = Append(P[i+1], d)
  /\ \A h \in Hops \ {i, i+1} : Q[h] = P[h]

\* Connection i gets a cell.
Grown(Q, P, i, c) ==
  /\ Q[i] = Append(P[i], c)
  /\ \A h \in Hops \ {i} : Q[h] = P[h]

\* The cells that are left when one is dealt with.
LEMMA PoppedCells ==
  ASSUME NEW P \in Wires, NEW Q, NEW i \in Hops, Popped(Q, P, i)
  PROVE  /\ \A h \in Hops : Len(P[h]) \in Nat /\ Len(Q[h]) \in Nat
         /\ Len(P[i]) = Len(Q[i]) + 1 /\ Head(P[i]) = P[i][1]
         /\ \A k \in 1 .. Len(Q[i]) : Q[i][k] = P[i][k + 1]
         /\ \A h \in Hops \ {i} : Q[h] = P[h]
<1> DEFINE p == P[i]
<1>1. p \in Seq(Cell) /\ p # <<>> /\ Q[i] = Tail(p) /\ \A h \in Hops \ {i} : Q[h] = P[h]
  BY DEF Popped, Wires
<1>2. \A h \in Hops : Len(P[h]) \in Nat
  BY DEF Wires
<1> HIDE DEF p
<1>3. /\ Len(Tail(p)) \in Nat /\ Len(p) = Len(Tail(p)) + 1 /\ Head(p) = p[1]
      /\ \A k \in 1 .. Len(Tail(p)) : Tail(p)[k] = p[k + 1]
  BY <1>1
<1> QED
  BY <1>1, <1>2, <1>3 DEF p

\* Only a BEGIN may be missed.
LEMMA PoppedFacts ==
  ASSUME NEW P \in Wires, NEW Q, NEW i \in Hops, Popped(Q, P, i)
  PROVE  /\ \A b : AllMild(P, b) => AllMild(Q, b)
         /\ EndLast(P) => EndLast(Q)
         /\ Lacks(P, "DATA") => Lacks(Q, "DATA")
         /\ Head(P[i]).cmd # "BEGIN" => Calm(P, Q)
<1> DEFINE Was(h, k) == IF h = i THEN k + 1 ELSE k
<1>0. /\ \A h \in Hops : Len(P[h]) \in Nat /\ Len(Q[h]) \in Nat
      /\ Len(P[i]) = Len(Q[i]) + 1 /\ Head(P[i]) = P[i][1]
      /\ \A k \in 1 .. Len(Q[i]) : Q[i][k] = P[i][k + 1]
      /\ \A h \in Hops \ {i} : Q[h] = P[h]
  BY PoppedCells
<1>1. ASSUME NEW h \in Hops, NEW k \in 1 .. Len(Q[h])
      PROVE  Was(h, k) \in 1 .. Len(P[h]) /\ Q[h][k] = P[h][Was(h, k)]
  BY SMTT(30), <1>0
<1>2. ASSUME Head(P[i]).cmd # "BEGIN", NEW h \in Hops, NEW k \in 1 .. Len(P[h]), P[h][k].cmd = "BEGIN"
      PROVE  \E l \in 1 .. Len(Q[h]) : Q[h][l] = P[h][k]
  <2>1. CASE h = i
    <3>1. k # 1
      BY <1>0, <1>2, <2>1
    <3>2. k - 1 \in 1 .. Len(Q[h]) /\ (k - 1) + 1 = k
      BY <1>0, <2>1, <3>1
    <3> QED
      BY <1>0, <2>1, <3>2
  <2>2. CASE h # i
    BY <1>0, <2>2
  <2> QED
    BY <2>1, <2>2
<1>3. ASSUME EndLast(P)
      PROVE  EndLast(Q)
  <2> SUFFICES ASSUME NEW h \in Hops, NEW j \in Hops,
                      NEW k \in 1 .. Len(Q[h]), NEW l \in 1 .. Len(Q[j]),
                      h > j \/ (h = j /\ k < l), Q[h][k].cmd = "END"
               PROVE  Q[j][l].cmd # "DATA"
    BY DEF EndLast
  <2>1. h > j \/ (h = j /\ Was(h, k) < Was(j, l))
    BY <1>0
  <2> HIDE DEF Was
  <2>2. Was(h, k) \in 1 .. Len(P[h]) /\ P[h][Was(h, k)].cmd = "END"
    BY <1>1
  <2>3. Was(j, l) \in 1 .. Len(P[j]) /\ Q[j][l] = P[j][Was(j, l)]
    BY <1>1
  <2>4. P[j][Was(j, l)].cmd # "DATA"
    BY <1>3, <2>1, <2>2, <2>3 DEF EndLast
  <2> QED
    BY <2>3, <2>4
<1> HIDE DEF Was
<1>4. /\ \A b : AllMild(P, b) => AllMild(Q, b)
      /\ Lacks(P, "DATA") => Lacks(Q, "DATA")
  BY ZenonT(40), <1>1 DEF AllMild, Lacks
<1>5. Head(P[i]).cmd # "BEGIN" => (HasBegin(P) => HasBegin(Q))
  BY SMTT(30), <1>2 DEF HasBegin
<1> QED
  BY <1>3, <1>4, <1>5 DEF Calm

\* The cells when one is passed on.
LEMMA PassedCells ==
  ASSUME NEW P \in Wires, NEW Q, NEW i \in Hops, NEW d \in Cell, Passed(Q, P, i, d)
  PROVE  /\ \A h \in Hops : Len(P[h]) \in Nat /\ Len(Q[h]) \in Nat
         /\ i + 1 \in Hops /\ Len(P[i]) = Len(Q[i]) + 1 /\ Len(Q[i+1]) = Len(P[i+1]) + 1
         /\ d.cmd = P[i][1].cmd /\ d.sid = P[i][1].sid
         /\ \A k \in 1 .. Len(Q[i]) : Q[i][k] = P[i][k + 1]
         /\ \A k \in 1 .. Len(P[i+1]) : Q[i+1][k] = P[i+1][k]
         /\ Q[i+1][Len(Q[i+1])] = d
         /\ \A h \in Hops \ {i, i+1} : Q[h] = P[h]
<1> DEFINE p == P[i]
           r == P[i+1]
<1>1. /\ i + 1 \in Hops /\ p # <<>> /\ Q[i] = Tail(p) /\ Q[i+1] = Append(r, d)
      /\ d.cmd = Head(p).cmd /\ d.sid = Head(p).sid /\ \A h \in Hops \ {i, i+1} : Q[h] = P[h]
  BY DEF Passed, Hops
<1>2. p \in Seq(Cell) /\ r \in Seq(Cell) /\ \A h \in Hops : Len(P[h]) \in Nat
  BY <1>1 DEF Wires
<1> HIDE DEF p, r
<1>3. /\ Len(Tail(p)) \in Nat /\ Len(p) = Len(Tail(p)) + 1 /\ Head(p) = p[1]
      /\ \A k \in 1 .. Len(Tail(p)) : Tail(p)[k] = p[k + 1]
  BY <1>1, <1>2
<1>4. /\ Len(Append(r, d)) = Len(r) + 1 /\ Append(r, d)[Len(Append(r, d))] = d
      /\ \A k \in 1 .. Len(r) : Append(r, d)[k] = r[k]
  BY <1>2
<1>5. \A h \in Hops : Len(Q[h]) \in Nat
  BY <1>1, <1>2, <1>3, <1>4 DEF p, r
<1> QED
  BY <1>1, <1>2, <1>3, <1>4, <1>5 DEF p, r

\* A cell that is passed on keeps its place among the others.
LEMMA CalmPassed ==
  ASSUME NEW P \in Wires, NEW Q, NEW i \in Hops, NEW d \in Cell, Passed(Q, P, i, d)
  PROVE  Calm(P, Q)
<1> DEFINE Same(c, e) == c.cmd = e.cmd /\ c.sid = e.sid
           Old(h, k, x, y) == y \in 1 .. Len(P[x]) /\ Same(Q[h][k], P[x][y])
           Place(h, k, x, y) == \/ x = h /\ h # i /\ y = k
                                \/ x = i /\ h = i /\ y = k + 1
                                \/ x = i /\ h = i + 1 /\ y = 1 /\ k = Len(Q[h])
<1>0. /\ \A h \in Hops : Len(P[h]) \in Nat /\ Len(Q[h]) \in Nat
      /\ i + 1 \in Hops /\ Len(P[i]) = Len(Q[i]) + 1 /\ Len(Q[i+1]) = Len(P[i+1]) + 1
      /\ Same(d, P[i][1])
      /\ \A k \in 1 .. Len(Q[i]) : Q[i][k] = P[i][k + 1]
      /\ \A k \in 1 .. Len(P[i+1]) : Q[i+1][k] = P[i+1][k]
      /\ Q[i+1][Len(Q[i+1])] = d
      /\ \A h \in Hops \ {i, i+1} : Q[h] = P[h]
  BY PassedCells
<1>n. 1 \in 1 .. Len(P[i]) /\ i # i + 1
  BY SMTT(30), <1>0 DEF Hops
<1>1. ASSUME NEW h \in Hops, NEW k \in 1 .. Len(Q[h])
      PROVE  \E x \in Hops : \E y \in 1 .. Len(P[x]) : Old(h, k, x, y) /\ Place(h, k, x, y)
  <2>1. CASE h = i
    <3>1. k + 1 \in 1 .. Len(P[i]) /\ Q[h][k] = P[i][k + 1]
      BY <1>0, <2>1
    <3> QED
      BY <2>1, <3>1
  <2>2. CASE h = i + 1 /\ k = Len(Q[h])
    BY <1>0, <1>n, <2>2
  <2>3. CASE h = i + 1 /\ k # Len(Q[h])
    <3>1. k \in 1 .. Len(P[h]) /\ Q[h][k] = P[h][k]
      BY SMTT(30), <1>0, <2>3
    <3> QED
      BY <1>n, <2>3, <3>1
  <2>4. CASE h \notin {i, i + 1}
    BY <1>0, <2>4
  <2> QED
    BY <2>1, <2>2, <2>3, <2>4
<1>2. ASSUME EndLast(P)
      PROVE  EndLast(Q)
  <2> SUFFICES ASSUME NEW j \in Hops, NEW m \in Hops,
                      NEW k \in 1 .. Len(Q[j]), NEW l \in 1 .. Len(Q[m]),
                      j > m \/ (j = m /\ k < l), Q[j][k].cmd = "END"
               PROVE  Q[m][l].cmd # "DATA"
    BY DEF EndLast
  <2>a. PICK x \in Hops : \E y \in 1 .. Len(P[x]) : Old(j, k, x, y) /\ Place(j, k, x, y)
    BY <1>1
  <2>1. PICK y \in 1 .. Len(P[x]) : Old(j, k, x, y) /\ Place(j, k, x, y)
    BY <2>a
  <2>b. PICK u \in Hops : \E v \in 1 .. Len(P[u]) : Old(m, l, u, v) /\ Place(m, l, u, v)
    BY <1>1
  <2>2. PICK v \in 1 .. Len(P[u]) : Old(m, l, u, v) /\ Place(m, l, u, v)
    BY <2>b
  <2>3. x > u \/ (x = u /\ y < v)
    BY SMTT(30), <1>0, <2>1, <2>2 DEF Hops
  <2> QED
    BY <1>2, <2>1, <2>2, <2>3 DEF EndLast
<1>3. ASSUME NEW b, AllMild(P, b), NEW h \in Hops, NEW k \in 1 .. Len(Q[h])
      PROVE  Mild(Q[h][k], b)
  <2>1. PICK x \in Hops : \E y \in 1 .. Len(P[x]) : Old(h, k, x, y) /\ Place(h, k, x, y)
    BY <1>1
  <2>2. PICK y \in 1 .. Len(P[x]) : Old(h, k, x, y)
    BY <2>1
  <2> QED
    BY <1>3, <2>2 DEF AllMild, Mild
<1>4. ASSUME Lacks(P, "DATA"), NEW h \in Hops, NEW k \in 1 .. Len(Q[h])
      PROVE  Q[h][k].cmd # "DATA"
  <2>1. PICK x \in Hops : \E y \in 1 .. Len(P[x]) : Old(h, k, x, y) /\ Place(h, k, x, y)
    BY <1>1
  <2>2. PICK y \in 1 .. Len(P[x]) : Old(h, k, x, y)
    BY <2>1
  <2> QED
    BY <1>4, <2>2 DEF Lacks
<1>5. ASSUME NEW h \in Hops, NEW k \in 1 .. Len(P[h]), P[h][k].cmd = "BEGIN"
      PROVE  HasBegin(Q)
  <2>1. CASE h = i /\ k = 1
    <3>1. Len(Q[i+1]) \in 1 .. Len(Q[i+1]) /\ Q[i+1][Len(Q[i+1])].cmd = "BEGIN"
      BY <1>0, <1>5, <2>1
    <3> QED
      BY <1>0, <3>1 DEF HasBegin
  <2>2. CASE h = i /\ k # 1
    <3>1. k - 1 \in 1 .. Len(Q[i]) /\ (k - 1) + 1 = k
      BY <1>0, <2>2
    <3>2. Q[i][k - 1].cmd = "BEGIN"
      BY <1>0, <1>5, <2>2, <3>1
    <3> QED
      BY <3>1, <3>2 DEF HasBegin
  <2>3. CASE h # i
    <3>1. k \in 1 .. Len(Q[h]) /\ Q[h][k] = P[h][k]
      BY SMTT(30), <1>0, <2>3
    <3> QED
      BY <1>5, <3>1 DEF HasBegin
  <2> QED
    BY <2>1, <2>2, <2>3
<1>6. /\ \A b : AllMild(P, b) => AllMild(Q, b)
      /\ Lacks(P, "DATA") => Lacks(Q, "DATA")
  BY <1>3, <1>4 DEF AllMild, Lacks
<1>7. HasBegin(P) => HasBegin(Q)
  BY <1>5 DEF HasBegin
<1> QED
  BY <1>2, <1>6, <1>7 DEF Calm

\* What a cell more does.
LEMMA GrownFacts ==
  ASSUME NEW P \in Wires, NEW Q, NEW i \in Hops, NEW c \in Cell, Grown(Q, P, i, c)
  PROVE  /\ \A b : AllMild(P, b) /\ Mild(c, b) => AllMild(Q, b)
         /\ Lacks(P, "DATA") /\ c.cmd # "DATA" => Lacks(Q, "DATA")
         /\ HasBegin(P) \/ c.cmd = "BEGIN" => HasBegin(Q)
         /\ EndLast(P) /\ i = 1 /\ c.cmd # "DATA" => EndLast(Q)
<1> DEFINE p == P[i]
<1>1. p \in Seq(Cell) /\ Q[i] = Append(p, c) /\ \A h \in Hops \ {i} : Q[h] = P[h]
  BY DEF Grown, Wires
<1>2. \A h \in Hops : Len(P[h]) \in Nat
  BY DEF Wires
<1> HIDE DEF p
<1>3. /\ Len(Append(p, c)) = Len(p) + 1 /\ Append(p, c)[Len(p) + 1] = c
      /\ \A k \in 1 .. Len(p) : Append(p, c)[k] = p[k]
  BY <1>1
<1>4. /\ Len(Q[i]) = Len(P[i]) + 1 /\ Q[i][Len(P[i]) + 1] = c
      /\ \A k \in 1 .. Len(P[i]) : Q[i][k] = P[i][k]
  BY <1>1, <1>3 DEF p
<1>5. ASSUME NEW h \in Hops, NEW k \in 1 .. Len(Q[h])
      PROVE  \/ k \in 1 .. Len(P[h]) /\ Q[h][k] = P[h][k]
             \/ h = i /\ k = Len(P[h]) + 1 /\ Q[h][k] = c
  <2>1. CASE h = i
    <3>1. k \in 1 .. Len(P[i]) + 1 /\ Len(P[i]) \in Nat
      BY <1>2, <1>4, <2>1
    <3>2. k \in 1 .. Len(P[i]) \/ k = Len(P[i]) + 1
      BY <3>1
    <3> QED
      BY <1>4, <2>1, <3>2
  <2>2. CASE h # i
    BY <1>1, <2>2
  <2> QED
    BY <2>1, <2>2
<1>6. ASSUME NEW h \in Hops, NEW k \in 1 .. Len(P[h])
      PROVE  k \in 1 .. Len(Q[h]) /\ Q[h][k] = P[h][k]
  <2>1. CASE h = i
    <3>1. k \in 1 .. Len(P[i]) /\ Len(P[i]) \in Nat
      BY <1>2, <2>1
    <3>2. k \in 1 .. Len(P[i]) + 1
      BY <3>1
    <3> QED
      BY <1>4, <2>1, <3>1, <3>2
  <2>2. CASE h # i
    BY <1>1, <2>2
  <2> QED
    BY <2>1, <2>2
<1>7. \A b : AllMild(P, b) /\ Mild(c, b) => AllMild(Q, b)
  BY <1>5 DEF AllMild
<1>8. Lacks(P, "DATA") /\ c.cmd # "DATA" => Lacks(Q, "DATA")
  BY <1>5 DEF Lacks
<1>9. HasBegin(P) => HasBegin(Q)
  BY <1>6 DEF HasBegin
<1>10. c.cmd = "BEGIN" => HasBegin(Q)
  <2>1. Len(P[i]) + 1 \in 1 .. Len(Q[i])
    BY <1>2, <1>4
  <2> QED
    BY <1>4, <2>1 DEF HasBegin
<1>11. ASSUME EndLast(P), i = 1, c.cmd # "DATA"
       PROVE  EndLast(Q)
  <2> SUFFICES ASSUME NEW h \in Hops, NEW j \in Hops,
                      NEW k \in 1 .. Len(Q[h]), NEW l \in 1 .. Len(Q[j]),
                      h > j \/ (h = j /\ k < l), Q[h][k].cmd = "END"
               PROVE  Q[j][l].cmd # "DATA"
    BY DEF EndLast
  <2>1. k \in 1 .. Len(P[h]) /\ Q[h][k] = P[h][k]
    <3>1. CASE h = i /\ k = Len(P[h]) + 1
      <4>1. h = j /\ k < l
        BY <1>11, <3>1 DEF Hops
      <4> QED
        BY <1>2, <1>4, <3>1, <4>1
    <3> QED
      BY <1>5, <3>1
  <2>2. CASE l \in 1 .. Len(P[j]) /\ Q[j][l] = P[j][l]
    BY <1>11, <2>1, <2>2 DEF EndLast
  <2>3. CASE Q[j][l] = c
    BY <1>11, <2>3
  <2> QED
    BY <1>5, <2>2, <2>3
<1> QED
  BY <1>7, <1>8, <1>9, <1>10, <1>11

\* Without an END, or without a chunk, no chunk is behind an END.
LEMMA EndLastFacts ==
  ASSUME NEW P
  PROVE  /\ AllMild(P, FALSE) => EndLast(P)
         /\ Lacks(P, "DATA") => EndLast(P)
<1>1. AllMild(P, FALSE) => EndLast(P)
  BY DEF AllMild, Mild, EndLast
<1>2. Lacks(P, "DATA") => EndLast(P)
  BY DEF Lacks, EndLast
<1> QED
  BY <1>1, <1>2

\* A step without an effect on the way down.
LEMMA CalmSame ==
  ASSUME NEW P
  PROVE  Calm(P, P)
BY DEF Calm
-----------------------------------------------------------------------------
(***************************************************************************)
(* Where the cells of the way down are.                                    *)
(***************************************************************************)
\* What a relay reads is mild if the way it comes on is.
LEMMA HeadMild ==
  ASSUME TypeOK, NEW i \in Hops, NEW s \in Sides, NEW cmds, Reads(i, s, cmds), NEW b
  PROVE  /\ s = "up" /\ AllMild(Pipes(dn, job), b) => Mild(Head(Inbox(i, s)), b)
         /\ s = "down" /\ AllMild(up, b) => Mild(Head(Inbox(i, s)), b)
<1>1. ASSUME s = "up", AllMild(Pipes(dn, job), b)
      PROVE  Mild(Head(Inbox(i, s)), b)
  <2>1. dn[i] \in Seq(Cell) /\ dn[i] # <<>> /\ ~InHand(job[i]["up"])
    BY <1>1 DEF TypeOK, Wires, Reads, Serves, Inbox, InHand
  <2>2. Pipes(dn, job)[i] = dn[i]
    BY <2>1, PipeFree
  <2>3. 1 \in 1 .. Len(dn[i]) /\ Head(dn[i]) = dn[i][1]
    BY <2>1
  <2>4. Mild(dn[i][1], b)
    BY <1>1, <2>2, <2>3 DEF AllMild
  <2> QED
    BY <1>1, <2>3, <2>4 DEF Inbox
<1>2. ASSUME s = "down", AllMild(up, b)
      PROVE  Mild(Head(Inbox(i, s)), b)
  <2>1. i + 1 \in Hops
    BY <1>2 DEF Reads, Serves, Hops
  <2>2. up[i+1] \in Seq(Cell) /\ up[i+1] # <<>>
    BY <1>2, <2>1 DEF TypeOK, Wires, Reads, Inbox
  <2>3. 1 \in 1 .. Len(up[i+1]) /\ Head(up[i+1]) = up[i+1][1]
    BY <2>2
  <2> QED
    BY <1>2, <2>1, <2>3 DEF AllMild, Inbox
<1> QED
  BY <1>1, <1>2

\* Writing what is mild keeps the way up mild.
LEMMA UpPut ==
  ASSUME NEW U \in Wires, NEW i \in Hops, NEW c \in Cell, NEW b, AllMild(U, b), Mild(c, b)
  PROVE  AllMild(PutUp(U, i, c), b)
<1>1. CASE PutUp(U, i, c) # U
  <2>1. PICK V : V = PutUp(U, i, c)
    OBVIOUS
  <2>2. V[i] = Append(U[i], c) /\ \A h \in Hops \ {i} : V[h] = U[h]
    BY <1>1, <2>1 DEF PutUp, Wires
  <2>3. Grown(V, U, i, c)
    BY <2>2 DEF Grown
  <2>4. AllMild(U, b) /\ Mild(c, b) => AllMild(V, b)
    BY <2>3, GrownFacts
  <2> QED
    BY <2>1, <2>4
<1> QED
  BY <1>1

\* So does reading.
LEMMA UpTail ==
  ASSUME NEW U \in Wires, NEW h \in Hops, NEW b, AllMild(U, b), U[h] # <<>>
  PROVE  AllMild([U EXCEPT ![h] = Tail(@)], b)
<1>1. PICK V : V = [U EXCEPT ![h] = Tail(@)]
  OBVIOUS
<1>2. V[h] = Tail(U[h]) /\ \A j \in Hops \ {h} : V[j] = U[j]
  BY <1>1 DEF Wires
<1>3. Popped(V, U, h)
  BY <1>2 DEF Popped
<1>4. AllMild(U, b) => AllMild(V, b)
  BY <1>3, PoppedFacts
<1> QED
  BY <1>1, <1>4

LEMMA UpReadMild ==
  ASSUME TypeOK, NEW i \in Hops, NEW s \in Sides, NEW cmds, Reads(i, s, cmds),
         NEW b, AllMild(up, b)
  PROVE  AllMild(UpRead(i, s), b)
<1>1. CASE s = "up"
  BY <1>1 DEF UpRead
<1>2. CASE s = "down"
  <2>1. i + 1 \in Hops /\ up[i+1] # <<>> /\ UpRead(i, s) = [up EXCEPT ![i+1] = Tail(@)]
    BY <1>2 DEF Reads, Serves, Hops, Inbox, UpRead
  <2> QED
    BY <2>1, UpTail DEF TypeOK
<1> QED
  BY <1>1, <1>2 DEF Sides

-----------------------------------------------------------------------------
(***************************************************************************)
(* What the steps of a circuit that is whole do to the way down.           *)
(***************************************************************************)
Unshut == \A i \in Hops : ~topShut[i] /\ ~botShut[i]

\* D and J hold the way down P but for the first cell of relay i.
Rid(D, J, i) ==
  /\ Pipes(dn, job)[i] # <<>> /\ D[i] = Tail(Pipes(dn, job)[i])
  /\ \A h \in Hops \ {i} : D[h] = dn[h]
  /\ ~InHand(J[i]["up"]) /\ \A h \in Hops \ {i} : J[h]["up"] = job[h]["up"]

\* A relay that reads a cell for good, or has dealt with the one in hand.
LEMMA RidRead ==
  ASSUME TypeOK, NEW i \in Hops, NEW cmds, Reads(i, "up", cmds)
  PROVE  Rid(DnRead(i, "up"), job, i) /\ Head(Pipes(dn, job)[i]) = Head(dn[i])
<1>1. dn \in Wires /\ dn[i] # <<>> /\ ~InHand(job[i]["up"]) /\ DnRead(i, "up") = [dn EXCEPT ![i] = Tail(@)]
  BY DEF TypeOK, Reads, Serves, InHand, Inbox, DnRead
<1>2. Pipes(dn, job)[i] = dn[i]
  BY <1>1, PipeFree
<1>3. DnRead(i, "up")[i] = Tail(dn[i]) /\ \A h \in Hops \ {i} : DnRead(i, "up")[h] = dn[h]
  BY <1>1 DEF Wires
<1> QED
  BY <1>1, <1>2, <1>3 DEF Rid

LEMMA RidHand ==
  ASSUME TypeOK, NEW i \in Hops, InHand(job[i]["up"]), NEW k, ~InHand(k), job' = [job EXCEPT ![i]["up"] = k]
  PROVE  Rid(dn, job', i) /\ Head(Pipes(dn, job)[i]) = job[i]["up"].cell
<1>1. dn \in Wires /\ job \in Jobs /\ "up" \in Sides
  BY DEF TypeOK, Sides
<1>2. /\ Pipes(dn, job)[i] # <<>> /\ Head(Pipes(dn, job)[i]) = job[i]["up"].cell
      /\ Tail(Pipes(dn, job)[i]) = dn[i]
  BY <1>1, PipeRest
<1>3. job'[i]["up"] = k /\ \A h \in Hops \ {i} : job'[h]["up"] = job[h]["up"]
  BY <1>1 DEF Jobs
<1> QED
  BY <1>2, <1>3 DEF Rid

\* The way down without that cell.
LEMMA RidPops ==
  ASSUME NEW D, NEW J, NEW i \in Hops, Rid(D, J, i)
  PROVE  Popped(Pipes(D, J), Pipes(dn, job), i)
<1>1. Pipes(D, J)[i] = Tail(Pipes(dn, job)[i])
  BY PipeFree DEF Rid
<1>2. \A h \in Hops \ {i} : Pipes(D, J)[h] = Pipes(dn, job)[h]
  BY DEF Rid, Pipes
<1> QED
  BY <1>1, <1>2 DEF Rid, Popped

\* The way down with that cell passed on.
LEMMA RidPasses ==
  ASSUME TypeOK, Unshut, NEW D \in Wires, NEW J \in Jobs, NEW i \in Hops, i < N, Rid(D, J, i),
         NEW d \in Cell, d.cmd = Head(Pipes(dn, job)[i]).cmd, d.sid = Head(Pipes(dn, job)[i]).sid
  PROVE  Passed(Pipes(PutDown(D, i, d), J), Pipes(dn, job), i, d)
<1>1. i + 1 \in Hops /\ i + 1 # i
  BY DEF Hops
<1>2. PICK E : E = PutDown(D, i, d)
  OBVIOUS
<1>3. E[i + 1] = Append(D[i + 1], d) /\ \A h \in Hops \ {i + 1} : E[h] = D[h]
  BY <1>1, <1>2 DEF PutDown, Unshut, Wires
<1>4. /\ Pipes(E, J)[i + 1] = Append(Pipes(D, J)[i + 1], d)
      /\ \A h \in Hops \ {i + 1} : Pipes(E, J)[h] = Pipes(D, J)[h]
  BY <1>1, <1>3, PipeAppended
<1>5. Popped(Pipes(D, J), Pipes(dn, job), i)
  BY RidPops
<1> QED
  BY <1>1, <1>2, <1>4, <1>5 DEF Popped, Passed

\* Something more is written to connection i.
LEMMA PutGrows ==
  ASSUME TypeOK, Unshut, NEW D \in Wires, NEW i \in 0 .. N - 1, NEW c \in Cell
  PROVE  Grown(Pipes(PutDown(D, i, c), job), Pipes(D, job), i + 1, c)
<1>1. i + 1 \in Hops /\ job \in Jobs
  BY DEF Hops, TypeOK
<1>2. PICK E : E = PutDown(D, i, c)
  OBVIOUS
<1>3. E[i + 1] = Append(D[i + 1], c) /\ \A h \in Hops \ {i + 1} : E[h] = D[h]
  BY <1>1, <1>2 DEF PutDown, Unshut, Wires
<1>4. /\ Pipes(E, job)[i + 1] = Append(Pipes(D, job)[i + 1], c)
      /\ \A h \in Hops \ {i + 1} : Pipes(E, job)[h] = Pipes(D, job)[h]
  BY <1>1, <1>3, PipeAppended
<1> QED
  BY <1>2, <1>4 DEF Grown

-----------------------------------------------------------------------------
(***************************************************************************)
(* A circuit stays whole.                                                  *)
(***************************************************************************)
\* Whatever the end of a stream allows, it allows later.
LEMMA MildLater ==
  ASSUME NEW W, NEW b, NEW d, b => d, AllMild(W, b)
  PROVE  AllMild(W, d)
BY DEF AllMild, Mild

\* What a step has to show that neither attaches nor detaches the target.
LEMMA WholeFrame ==
  ASSUME Whole, UNCHANGED <<table, topShut, botShut, tgt>>, tgt = "open" => strm',
         phase = "endall" => phase' = "endall", phase \in Early => phase' \in Early,
         Calm(Pipes(dn, job), Pipes(dn', job')),
         AllMild(up, tgt = "shut") => AllMild(up', tgt = "shut")
  PROVE  Whole'
<1> DEFINE P == Pipes(dn, job)
           Q == Pipes(dn', job')
<1>0. Calm(P, Q) /\ AllMild(P, phase = "endall") /\ EndLast(P) /\ Attached
  BY DEF Whole
<1>1. Pipes(dn, job)' = Q
  OBVIOUS
<1> HIDE DEF P, Q
<1>2. AllMild(Q, phase = "endall") /\ EndLast(Q)
  BY <1>0 DEF Calm
<1>3. AllMild(Q, phase' = "endall")
  BY <1>2, MildLater
<1>4. Attached'
  <2>1. tgt' = "none" /\ phase' \notin Early => HasBegin(Q)
    BY <1>0 DEF Attached, Calm, P
  <2>2. tgt' = "shut" => phase' = "endall" /\ Lacks(Q, "DATA")
    BY <1>0 DEF Attached, Calm, P
  <2> QED
    BY <1>1, <2>1, <2>2 DEF Attached
<1> QED
  BY <1>1, <1>2, <1>3, <1>4 DEF Whole

\* What holds besides, on a circuit that is not hidden.
Known == TypeOK /\ TypeOK' /\ UpInv /\ DownInv /\ DialsOnce /\ BeginOpens /\ Whole

LEMMA KnownFacts ==
  ASSUME Known
  PROVE  /\ TypeOK /\ Unshut /\ Plain /\ BeginOnce /\ Quiet /\ Back /\ Sending
         /\ CellsAt(st[N].updata) /\ N \in Hops /\ "up" \in Sides
         /\ AllMild(Pipes(dn, job), phase = "endall") /\ AllMild(up, tgt = "shut")
         /\ EndLast(Pipes(dn, job)) /\ Attached
         /\ dn \in Wires /\ up \in Wires /\ job \in Jobs /\ Pipes(dn, job) \in Wires
<1>1. TypeOK /\ dn \in Wires /\ up \in Wires /\ job \in Jobs
  BY DEF Known, TypeOK
<1>2. Pipes(dn, job) \in Wires
  BY <1>1, PipesType
<1> QED
  BY <1>1, <1>2 DEF Known, UpInv, DownInv, Whole, Unshut, Hops, Sides

\* BEGIN opens at the relay that it has reached.
LEMMA HeadOpens ==
  ASSUME Known, NEW i \in Hops, NEW s \in Sides, Reads(i, s, {"BEGIN", "CONNECT"})
  PROVE  /\ s = "up" /\ Head(dn[i]).cmd = "BEGIN" /\ Head(dn[i]) \in Cell
         /\ Head(dn[i]).layers = Onion(i, 0) /\ Head(dn[i]).layers # <<>>
         /\ Opens(Head(dn[i]), i, st[i].begin)
<1>0. TypeOK /\ CellsAt(st[N].updata) /\ BackCells(up) /\ dn \in Wires
  BY KnownFacts DEF Back
<1>1. s = "up"
  BY <1>0, BackRead DEF BackCell, Setup, Reads, Sides
<1>2. DownCell(i, Head(dn[i]))
  BY <1>0, <1>1, ReadCells DEF CellsAt, Inbox
<1>3. dn[i] \in Seq(Cell) /\ dn[i] # <<>> /\ Head(dn[i]).cmd = "BEGIN"
  BY <1>0, <1>1, <1>2 DEF Reads, Inbox, DownCell, Wires
<1>4. 1 \in 1 .. Len(dn[i]) /\ Head(dn[i]) = dn[i][1] /\ Head(dn[i]) \in Cell
  BY <1>3
<1>5. Head(dn[i]).layers = Onion(i, 0) /\ st[i].begin = 0
  BY <1>3, <1>4 DEF Known, BeginOpens, Hops
<1>6. Onion(i, 0) # <<>> /\ Head(Onion(i, 0)) = [hop |-> i, ctr |-> 0]
  <2>1. 1 \in 1 .. N - i + 1 /\ N - i + 1 \in Nat
    BY DEF Hops
  <2>2. Onion(i, 0) \in Seq(Layer) /\ Len(Onion(i, 0)) = N - i + 1 /\ Onion(i, 0)[1] = [hop |-> i, ctr |-> 0]
    BY <2>1, OnionType DEF Onion, Hops
  <2>3. \A q \in Seq(Layer) : Len(q) \in Nat \ {0} => q # <<>> /\ Head(q) = q[1]
    OBVIOUS
  <2> QED
    BY <2>1, <2>2, <2>3
<1> QED
  BY <1>1, <1>3, <1>4, <1>5, <1>6 DEF Opens

\* The END of the stream goes down behind everything else; the exit then closes the target.
\* What comes back up of it goes down again, on a circuit whose stream is over.
LEMMA WholeEndStream ==
  ASSUME Known, NEW i \in Hops, NEW s \in Sides, EndStream(i, s), phase # "returned"
  PROVE  Whole'
<1> USE DEF wires, relays, exit, client, hist
<1> DEFINE c == Head(Inbox(i, s))
           P == Pipes(dn, job)
           Q == Pipes(dn', job')
<1>0. /\ TypeOK /\ Unshut /\ P \in Wires /\ Reads(i, s, {"END"})
      /\ AllMild(P, phase = "endall") /\ AllMild(up, tgt = "shut") /\ EndLast(P) /\ Attached
  BY KnownFacts DEF EndStream
<1>1. /\ UNCHANGED <<table, topShut, botShut, job, phase>> /\ up' = UpRead(i, s)
      /\ dn' = ToDown(i, DnRead(i, s), c)
      /\ i < N => dn' = PutDown(DnRead(i, s), i, c) /\ strm' = strm /\ tgt' = tgt
      /\ i = N => dn' = DnRead(i, s) /\ tgt' = TgtClosed(N, strm)
  <2>1. /\ UNCHANGED <<table, topShut, botShut, job, phase>> /\ up' = UpRead(i, s)
        /\ dn' = ToDown(i, DnRead(i, s), c)
        /\ strm' = (strm /\ i # N) /\ tgt' = TgtClosed(i, strm)
    BY DEF EndStream
  <2>2. i < N => dn' = PutDown(DnRead(i, s), i, c) /\ tgt' = tgt
    BY <2>1 DEF ToDown, TgtClosed, Hops
  <2>3. i = N => dn' = DnRead(i, s) /\ tgt' = TgtClosed(N, strm)
    BY <2>1 DEF ToDown, Hops
  <2>4. i < N => strm' = strm
    BY <1>0, <2>1 DEF TypeOK, Hops
  <2> QED
    BY <2>1, <2>2, <2>3, <2>4
<1>2. c \in Cell /\ DnRead(i, s) \in Wires /\ c.cmd = "END"
  BY <1>0, ReadsType DEF Reads
<1>3. AllMild(up, tgt = "shut") => AllMild(up', tgt = "shut")
  BY <1>0, <1>1, UpReadMild
<1>4. CASE s = "up" /\ i < N
  <2>1. Rid(DnRead(i, s), job, i) /\ Head(P[i]) = c
    BY <1>0, <1>4, RidRead DEF Inbox
  <2>2. Passed(Q, P, i, c)
    BY <1>0, <1>1, <1>2, <1>4, <2>1, RidPasses DEF TypeOK
  <2>3. Calm(P, Q)
    BY <1>0, <1>2, <2>2, CalmPassed
  <2> QED
    BY <1>0, <1>1, <1>3, <1>4, <2>3, WholeFrame DEF Known, Attached
<1>5. CASE s = "up" /\ i = N
  <2>1. Rid(DnRead(i, s), job, i) /\ Head(P[i]) = c
    BY <1>0, <1>5, RidRead DEF Inbox
  <2>2. Popped(Q, P, i)
    BY <1>1, <1>5, <2>1, RidPops
  <2>3. 1 \in 1 .. Len(P[N]) /\ P[N][1] = c
    <3>1. P[N] \in Seq(Cell) /\ P[N] # <<>>
      BY <1>0, <1>5, <2>2 DEF Popped, Wires
    <3> QED
      BY <1>5, <2>1, <3>1
  <2>4. phase = "endall"
    BY <1>0, <1>2, <1>5, <2>3 DEF AllMild, Mild
  <2>5. Lacks(P, "DATA")
    <3> SUFFICES ASSUME NEW h \in Hops, NEW k \in 1 .. Len(P[h])
                 PROVE  P[h][k].cmd # "DATA"
      BY DEF Lacks
    <3>1. CASE h = N /\ k = 1
      BY <1>2, <2>3, <3>1
    <3>2. CASE ~(h = N /\ k = 1)
      <4>1. N > h \/ (N = h /\ 1 < k)
        BY <3>2 DEF Hops
      <4> QED
        BY <1>0, <1>2, <1>5, <2>3, <4>1 DEF EndLast
    <3> QED
      BY <3>1, <3>2
  <2> HIDE DEF P, Q
  <2>6. Calm(P, Q)
    BY <1>0, <1>2, <2>1, <2>2, PoppedFacts
  <2>7. AllMild(Q, phase' = "endall") /\ EndLast(Q) /\ Lacks(Q, "DATA")
    BY <1>0, <1>1, <2>5, <2>6, MildLater DEF Calm
  <2>8. AllMild(up', tgt' = "shut")
    <3>1. tgt = "shut" => tgt' = "shut"
      BY <1>1, <1>5 DEF TgtClosed
    <3> QED
      BY <1>0, <1>3, <3>1, MildLater
  <2>9. Attached'
    <3>1. tgt' = "none" => tgt = "none"
      BY <1>1, <1>5 DEF TgtClosed
    <3>2. tgt' # "open"
      BY <1>0, <1>1, <1>5 DEF TgtClosed, Attached
    <3>3. tgt' = "none" /\ phase' \notin Early => HasBegin(Q)
      BY <1>0, <1>1, <2>6, <3>1 DEF Attached, Calm, P
    <3> QED
      BY <1>1, <2>4, <2>7, <3>2, <3>3 DEF Attached, Q
  <2> QED
    BY <1>1, <2>7, <2>8, <2>9 DEF Known, Whole, Q
<1>6. CASE s = "down"
  <2>1. i < N /\ i + 1 \in Hops /\ i \in 0 .. N - 1
    BY <1>0, <1>6 DEF Reads, Serves, Hops
  <2>2. Mild(c, tgt = "shut")
    BY <1>0, <1>6, HeadMild
  <2>3. tgt = "shut" /\ phase = "endall" /\ Lacks(P, "DATA") /\ Mild(c, phase = "endall")
    BY <1>0, <1>2, <2>2 DEF Mild, Attached
  <2>4. Grown(Q, P, i + 1, c)
    <3>1. DnRead(i, s) = dn
      BY <1>6 DEF DnRead
    <3> QED
      BY <1>0, <1>1, <1>2, <2>1, <3>1, PutGrows
  <2> HIDE DEF P, Q
  <2>5. AllMild(Q, phase = "endall") /\ Lacks(Q, "DATA") /\ (HasBegin(P) => HasBegin(Q))
    BY <1>0, <1>2, <2>1, <2>3, <2>4, GrownFacts
  <2>6. EndLast(Q)
    BY <2>5, EndLastFacts
  <2> QED
    BY <1>0, <1>1, <1>3, <2>1, <2>3, <2>5, <2>6 DEF Known, Whole, Attached, Q
<1> QED
  BY <1>4, <1>5, <1>6 DEF Sides, Hops

\* A ServeConn goroutine passes on or back what neither ends nor loses anything.
LEMMA WholeServeConn ==
  ASSUME Known, NEW i \in Hops, NEW s \in Sides, ServeConn(i, s), phase # "returned"
  PROVE  Whole'
<1> USE DEF wires, relays, exit, client, hist
<1> DEFINE c == Head(Inbox(i, s))
           j == job[i][s]
           P == Pipes(dn, job)
           Q == Pipes(dn', job')
<1>0. /\ TypeOK /\ Unshut /\ P \in Wires /\ dn \in Wires /\ up \in Wires
      /\ job \in Jobs /\ job' \in Jobs /\ j \in Job
      /\ AllMild(P, phase = "endall") /\ AllMild(up, tgt = "shut") /\ Attached
      /\ BackJob(i, s, j) /\ Back
  BY KnownFacts DEF Known, TypeOK, Back, Jobs
<1>f. ASSUME UNCHANGED <<table, topShut, botShut, exit, phase>>, Calm(P, Q), AllMild(up', tgt = "shut")
      PROVE  Whole'
  BY <1>0, <1>f, WholeFrame DEF Known, Attached
<1>r. ASSUME NEW cmds, Reads(i, s, cmds)
      PROVE  /\ c \in Cell /\ c.cmd \in cmds /\ AllMild(UpRead(i, s), tgt = "shut")
             /\ DnRead(i, s) \in Wires /\ UpRead(i, s) \in Wires
             /\ s = "up" => Rid(DnRead(i, s), job, i) /\ Head(P[i]) = c /\ Mild(c, phase = "endall")
             /\ s = "down" => Mild(c, tgt = "shut") /\ DnRead(i, s) = dn
  <2>1. c \in Cell /\ c.cmd \in cmds /\ DnRead(i, s) \in Wires /\ UpRead(i, s) \in Wires
    BY <1>0, <1>r, ReadsType DEF Reads
  <2>2. AllMild(UpRead(i, s), tgt = "shut")
    BY <1>0, <1>r, UpReadMild
  <2>3. s = "up" => Mild(c, phase = "endall")
    BY <1>0, <1>r, HeadMild
  <2>4. s = "down" => Mild(c, tgt = "shut")
    BY <1>0, <1>r, HeadMild
  <2>5. s = "up" => Rid(DnRead(i, s), job, i) /\ Head(P[i]) = c
    BY <1>0, <1>r, RidRead DEF Inbox
  <2>6. s = "down" => DnRead(i, s) = dn
    BY DEF DnRead
  <2> QED
    BY <2>1, <2>2, <2>3, <2>4, <2>5, <2>6
<1>s. Calm(P, P)
  BY CalmSame
\* What goroutines on side "down" have in hand is not on the way down.
<1>d. ASSUME s = "down", NEW k, job' = [job EXCEPT ![i][s] = k], dn' = dn
      PROVE  Q = P
  <2>1. \A h \in Hops : job'[h]["up"] = job[h]["up"]
    BY <1>0, <1>d DEF Jobs, Sides
  <2> QED
    BY <1>d, <2>1 DEF Pipes
<1>u. ASSUME s = "up", InHand(j), NEW k, ~InHand(k), job' = [job EXCEPT ![i][s] = k]
      PROVE  Rid(dn, job', i) /\ Head(P[i]) = j.cell
  BY <1>0, <1>u, RidHand
<1>i. ~InHand(Idle)
  BY DEF InHand, Idle
<1> HIDE DEF c, j, P, Q
<1>1. ~ServeStop(i, s)
  BY <1>0 DEF ServeStop, OwnShut, PeerShut, Unshut, Serves, Sides, Hops
<1>2. CASE ForwardSetup(i, s)
  <2>1. i < N /\ Reads(i, s, {"BEGIN", "CONNECT"}) /\ UNCHANGED <<topShut, botShut, table, job, exit, client>>
    BY <1>2 DEF ForwardSetup
  <2>2. /\ s = "up" /\ c = Head(dn[i]) /\ Opens(c, i, st[i].begin) /\ c \in Cell /\ c.layers # <<>>
    BY <2>1, HeadOpens DEF Inbox, c
  <2>3. dn' = PutDown(DnRead(i, s), i, Peel(c)) /\ up' = UpRead(i, s)
    BY <1>2, <2>2 DEF ForwardSetup, c
  <2>4. Peel(c) \in Cell /\ Peel(c).cmd = c.cmd /\ Peel(c).sid = c.sid
    BY <2>2, PeelType DEF Peel, Cell
  <2>5. Passed(Q, P, i, Peel(c))
    BY <1>0, <1>r, <2>1, <2>2, <2>3, <2>4, RidPasses DEF P, Q
  <2>6. Calm(P, Q)
    BY <1>0, <2>4, <2>5, CalmPassed
  <2> QED
    BY <1>f, <1>r, <2>1, <2>3, <2>6
<1>3. CASE BeginAck(i, s)
  <2>1. /\ Reads(i, s, {"BEGIN_ACK"}) /\ dn' = DnRead(i, s) /\ up' = PutUp(UpRead(i, s), i, c)
        /\ UNCHANGED <<topShut, botShut, table, job, exit, client>>
    BY <1>3 DEF BeginAck, c
  <2>2. c \in Cell /\ c.cmd = "BEGIN_ACK" /\ UpRead(i, s) \in Wires
    BY <1>r, <2>1
  <2>3. Mild(c, tgt = "shut")
    BY <2>2 DEF Mild
  <2>4. AllMild(up', tgt = "shut")
    BY <1>r, <2>1, <2>2, <2>3, UpPut
  <2>5. Calm(P, Q)
    <3>1. CASE s = "up"
      <4>1. Rid(dn', job', i) /\ Head(P[i]) = c
        BY <1>r, <2>1, <3>1
      <4>2. Popped(Q, P, i)
        BY <4>1, RidPops DEF P, Q
      <4> QED
        BY <1>0, <2>2, <4>1, <4>2, PoppedFacts
    <3>2. CASE s = "down"
      BY <1>r, <1>s, <2>1, <3>2 DEF P, Q
    <3> QED
      BY <3>1, <3>2 DEF Sides
  <2> QED
    BY <1>f, <2>1, <2>4, <2>5
<1>4. CASE EndStream(i, s)
  BY <1>4, WholeEndStream
<1>5. ~EndCircuit(i, s)
  <2> SUFFICES ASSUME EndCircuit(i, s)
               PROVE  FALSE
    OBVIOUS
  <2>1. Reads(i, s, {"END", "DESTROY"}) /\ c.sid = 0
    BY DEF EndCircuit, c
  <2>2. c.cmd \in {"END", "DESTROY"} /\ (Mild(c, phase = "endall") \/ Mild(c, tgt = "shut"))
    BY <1>r, <2>1 DEF Sides
  <2> QED
    BY <2>1, <2>2 DEF Mild
<1>6. CASE TakeData(i, s)
  <2>1. /\ Reads(i, s, {"DATA"}) /\ dn' = DnRead(i, s) /\ up' = UpRead(i, s)
        /\ UNCHANGED <<topShut, botShut, table, exit, client>>
        /\ \E k : job' = [job EXCEPT ![i][s] = k]
    BY <1>6 DEF TakeData
  <2>2. Q = P
    <3>1. CASE s = "up"
      BY <1>0, <1>6, <3>1, TakesHand DEF P, Q
    <3>2. CASE s = "down"
      BY <1>d, <1>r, <2>1, <3>2
    <3> QED
      BY <3>1, <3>2 DEF Sides
  <2> QED
    BY <1>f, <1>r, <1>s, <2>1, <2>2
<1>7. CASE ForwardData(i, s)
  <2>1. /\ i < N /\ j.pc = "open" /\ Opens(j.cell, i, j.nonce)
        /\ dn' = PutDown(dn, i, Peel(j.cell)) /\ job' = [job EXCEPT ![i][s] = Idle]
        /\ UNCHANGED <<up, topShut, botShut, table, exit, client>>
    BY <1>7 DEF ForwardData, OpensData, j
  <2>2. s = "up"
    BY <1>7, <1>0, OpensAbove DEF Sides
  <2>3. InHand(j) /\ j.cell \in Cell /\ j.cell.layers # <<>>
    BY <1>0, <2>1 DEF InHand, Job, Opens
  <2>4. Rid(dn, job', i) /\ Head(P[i]) = j.cell
    BY <1>i, <1>u, <2>1, <2>2, <2>3
  <2>5. Peel(j.cell) \in Cell /\ Peel(j.cell).cmd = j.cell.cmd /\ Peel(j.cell).sid = j.cell.sid
    BY <2>3, PeelType DEF Peel, Cell
  <2>6. Passed(Q, P, i, Peel(j.cell))
    BY <1>0, <2>1, <2>4, <2>5, RidPasses DEF P, Q
  <2>7. Calm(P, Q)
    BY <1>0, <2>5, <2>6, CalmPassed
  <2> QED
    BY <1>0, <1>f, <2>1, <2>7
<1>8. CASE FailData(i, s)
  <2> DEFINE k == [j EXCEPT !.pc = "seal", !.nonce = st[i].updata]
  <2>1. /\ j.pc = "open" /\ job' = [job EXCEPT ![i][s] = IF HasDown(i) THEN k ELSE Idle]
        /\ UNCHANGED <<dn, up, topShut, botShut, table, exit, client>>
    BY <1>8 DEF FailData, j
  <2>2. ~InHand(k)
    BY <1>0 DEF Job, InHand
  <2> HIDE DEF k
  <2>3. ~InHand(IF HasDown(i) THEN k ELSE Idle)
    BY <1>i, <2>2
  <2>4. j.cell.cmd = "DATA" /\ InHand(j)
    BY <1>0, <2>1 DEF BackJob, InHand
  <2>5. Calm(P, Q)
    <3>1. CASE s = "up"
      <4>1. Rid(dn', job', i) /\ Head(P[i]) = j.cell
        BY <1>u, <2>1, <2>3, <2>4, <3>1
      <4>2. Popped(Q, P, i)
        BY <4>1, RidPops DEF P, Q
      <4> QED
        BY <1>0, <2>4, <4>1, <4>2, PoppedFacts
    <3>2. CASE s = "down"
      BY <1>d, <1>s, <2>1, <3>2
    <3> QED
      BY <3>1, <3>2 DEF Sides
  <2> QED
    BY <1>0, <1>f, <2>1, <2>5
\* Nor is what they have sealed.
<1>k. ASSUME NEW k, ~InHand(j), ~InHand(k), job' = [job EXCEPT ![i][s] = k], dn' = dn
      PROVE  Q = P
  <2>1. CASE s = "up"
    <3>1. job'[i]["up"] = k /\ \A h \in Hops \ {i} : job'[h]["up"] = job[h]["up"]
      BY <1>0, <1>k, <2>1 DEF Jobs, Sides
    <3>2. ~InHand(job[i]["up"])
      BY <1>k, <2>1 DEF j
    <3> QED
      BY <1>k, <3>1, <3>2 DEF Pipes, P, Q
  <2>2. CASE s = "down"
    BY <1>d, <1>k, <2>2
  <2> QED
    BY <2>1, <2>2 DEF Sides
<1>9. CASE SealData(i, s)
  <2> DEFINE k == [j EXCEPT !.pc = "send", !.cell = Seal(j.cell, i, j.nonce)]
  <2>1. /\ j.pc = "seal" /\ job' = [job EXCEPT ![i][s] = k]
        /\ UNCHANGED <<dn, up, topShut, botShut, table, exit, client>>
    BY <1>9 DEF SealData, j
  <2>2. ~InHand(j) /\ ~InHand(k)
    BY <1>0, <2>1 DEF Job, InHand
  <2> HIDE DEF k
  <2>3. Q = P
    BY <1>k, <2>1, <2>2
  <2> QED
    BY <1>0, <1>f, <1>s, <2>1, <2>3
<1>10. CASE SendSealed(i, s)
  <2>1. /\ j.pc = "send" /\ job' = [job EXCEPT ![i][s] = Idle]
        /\ up' \in {up, PutUp(up, i, j.cell)}
        /\ UNCHANGED <<dn, topShut, botShut, table, exit, client>>
    BY <1>10 DEF SendSealed, j
  <2>2. j.cell \in Cell /\ j.cell.cmd = "DATA" /\ ~InHand(j)
    BY <1>0, <2>1 DEF Job, BackJob, InHand
  <2>3. AllMild(up', tgt = "shut")
    <3>1. Mild(j.cell, tgt = "shut")
      BY <2>2 DEF Mild
    <3> QED
      BY <1>0, <2>1, <2>2, <3>1, UpPut
  <2>4. Q = P
    BY <1>i, <1>k, <2>1, <2>2
  <2> QED
    BY <1>f, <1>s, <2>1, <2>3, <2>4
<1> QED
  BY <1>1, <1>2, <1>3, <1>4, <1>5, <1>6, <1>7, <1>8, <1>9, <1>10 DEF ServeConn

\* The chunk that the exit opens is written to the target, which the exit still has.
LEMMA HasTarget ==
  ASSUME Known, Live, OpensData(N, "up")
  PROVE  tgt = "open" /\ strm
<1> DEFINE P == Pipes(dn, job)
<1>0. /\ BackJob(N, "up", job[N]["up"]) /\ Attached /\ N \in Hops /\ dn \in Wires /\ job \in Jobs
      /\ InOrder(P) /\ AllChunks(P, sent) /\ Sending /\ TypeOK
  BY KnownFacts DEF Back, Known, DownInv
<1>1. InHand(job[N]["up"]) /\ job[N]["up"].cell.cmd = "DATA"
  BY <1>0 DEF OpensData, InHand, BackJob
<1>2. P[N][1] = job[N]["up"].cell /\ Len(P[N]) = Len(dn[N]) + 1 /\ Len(dn[N]) \in Nat
  BY <1>0, <1>1, PipeHead DEF Wires
<1>3. 1 \in 1 .. Len(P[N]) /\ P[N][1].cmd = "DATA"
  BY <1>1, <1>2
<1> HIDE DEF P
<1>4. tgt # "shut"
  BY <1>0, <1>3 DEF Attached, Lacks, P
<1>5. ~HasBegin(P)
  <2> SUFFICES ASSUME NEW h \in Hops, NEW k \in 1 .. Len(P[h]), P[h][k].cmd = "BEGIN"
               PROVE  FALSE
    BY DEF HasBegin
  <2>1. ~(h = N /\ k = 1)
    BY <1>3
  <2>2. N > h \/ (N = h /\ 1 < k)
    BY <2>1 DEF Hops
  <2>3. Ahead(P[N][1], P[h][k])
    BY <1>0, <1>3, <2>2 DEF InOrder
  <2> QED
    BY <1>3, <2>3 DEF Ahead, Setup
<1>6. phase \notin Early
  <2>1. ChunkCell(N, P[N][1], sent)
    BY <1>0, <1>3 DEF AllChunks
  <2>2. sent # 0
    BY <1>0, <1>3, <2>1 DEF ChunkCell, TypeOK
  <2> QED
    BY <1>0, <2>2 DEF Sending
<1>7. tgt # "none"
  BY <1>0, <1>5, <1>6 DEF Attached, P
<1>8. tgt = "open"
  BY <1>0, <1>4, <1>7 DEF Live, Lost, TypeOK, Target
<1> QED
  BY <1>0, <1>8 DEF Attached

\* The exit dials when BEGIN reaches it, and then keeps its target.
LEMMA WholeServeExit ==
  ASSUME Known, Live, Live', ServeExit
  PROVE  Whole'
<1> USE DEF wires, relays, exit, client, hist
<1> DEFINE P == Pipes(dn, job)
           Q == Pipes(dn', job')
<1>0. /\ TypeOK /\ Unshut /\ Plain /\ BeginOnce /\ Quiet /\ CellsAt(st[N].updata) /\ N \in Hops
      /\ P \in Wires /\ dn \in Wires /\ up \in Wires /\ job \in Jobs /\ "up" \in Sides
      /\ AllMild(P, phase = "endall") /\ AllMild(up, tgt = "shut") /\ EndLast(P) /\ Attached /\ Back
  BY KnownFacts
<1>i. ~InHand(Idle)
  BY DEF InHand, Idle
<1>h. ASSUME InHand(job[N]["up"]), DialReturns
      PROVE  Popped(Q, P, N) \/ dn' # dn
  <2>1. Rid(dn, job', N)
    BY <1>0, <1>h, <1>i, RidHand DEF DialReturns
  <2>2. Popped(Pipes(dn, job'), P, N)
    BY <1>0, <2>1, RidPops
  <2> QED
    BY <2>2
<1>1. CASE StartDial
  <2>1. /\ Reads(N, "up", {"BEGIN", "CONNECT"}) /\ dn' = DnRead(N, "up")
        /\ job' = IF Opens(Head(dn[N]), N, st[N].begin)
                  THEN [job EXCEPT ![N]["up"] = [pc |-> "dial", cell |-> Head(dn[N]), nonce |-> 0]]
                  ELSE job
        /\ UNCHANGED <<up, topShut, botShut, table, exit, phase>>
    BY <1>1 DEF StartDial
  <2>2. Opens(Head(dn[N]), N, st[N].begin)
    BY <1>0, <2>1, HeadOpens
  <2>3. job'[N]["up"].pc = "dial" /\ job[N]["up"].pc = "read"
    BY <1>0, <2>1, <2>2 DEF Jobs, Reads, Serves
  <2>4. Q = P
    BY <1>0, <1>1, <2>3, TakesHand
  <2>5. Calm(P, Q)
    BY <2>4, CalmSame
  <2> QED
    BY <1>0, <2>1, <2>5, WholeFrame DEF Known, Attached
<1>2. CASE Dialled
  <2>1. /\ job[N]["up"].pc = "dial" /\ DialReturns /\ strm' = TRUE /\ tgt' = "open"
        /\ up' \in {up, PutUp(up, N, Control("BEGIN_ACK", 1))}
        /\ UNCHANGED <<dn, topShut, botShut, table, phase>>
    BY <1>2 DEF Dialled, Dialling
  <2>2. InHand(job[N]["up"]) /\ job[N]["up"].cell.cmd \in Setup
    BY <1>0, <2>1 DEF InHand, Back, BackJob
  <2>3. tgt = "none"
    <3>1. P[N][1] = job[N]["up"].cell /\ Len(P[N]) = Len(dn[N]) + 1 /\ Len(dn[N]) \in Nat
      <4>1. dn \in Wires /\ job \in Jobs /\ N \in Hops /\ InHand(job[N]["up"])
        BY <1>0, <2>2
      <4>2. P[N][1] = job[N]["up"].cell /\ Len(P[N]) = Len(dn[N]) + 1
        BY <4>1, PipeHead
      <4>3. Len(dn[N]) \in Nat
        BY <4>1 DEF Wires
      <4> QED
        BY <4>2, <4>3
    <3>2. 1 \in 1 .. Len(P[N]) /\ P[N][1].cmd \in Setup
      BY <2>2, <3>1
    <3>3. ~NoSetup(P)
      BY <1>0, <3>2 DEF NoSetup
    <3> QED
      BY <3>3 DEF Known, DialsOnce
  <2>4. Popped(Q, P, N)
    BY <1>h, <2>1, <2>2
  <2> HIDE DEF P, Q
  <2>5. AllMild(Q, phase = "endall") /\ EndLast(Q)
    BY <1>0, <2>4, PoppedFacts
  <2>6. AllMild(up', tgt = "shut")
    <3>1. Control("BEGIN_ACK", 1) \in Cell /\ Mild(Control("BEGIN_ACK", 1), tgt = "shut")
      BY ControlType DEF Control, Cmd, Mild
    <3> QED
      BY <1>0, <2>1, <3>1, UpPut
  <2>7. AllMild(up', tgt' = "shut") /\ AllMild(Q, phase' = "endall")
    BY <2>1, <2>3, <2>5, <2>6, MildLater
  <2>8. Attached'
    BY <2>1 DEF Attached
  <2> QED
    BY <1>0, <2>1, <2>5, <2>7, <2>8 DEF Known, Whole, Q
<1>3. ~DialRefused
  BY DEF DialRefused, Live, Lost
<1>4. ~HiddenDialled /\ ~HiddenRefused /\ ~BeginHidden
  BY <1>0 DEF HiddenDialled, HiddenRefused, BeginHidden, Dialling, Plain, CellsAt, UpJob
<1>5. CASE DeliverData
  <2>1. OpensData(N, "up") /\ job' = [job EXCEPT ![N]["up"] = Idle]
    BY <1>5 DEF DeliverData
  <2>2. tgt = "open" /\ strm
    BY <2>1, HasTarget
  <2>3. UNCHANGED <<dn, up, strm, tgt, topShut, botShut, table, phase>>
    BY <1>5, <2>2 DEF DeliverData, MayReturn
  <2>4. InHand(job[N]["up"]) /\ job[N]["up"].cell.cmd = "DATA"
    BY <1>0, <2>1 DEF OpensData, InHand, Back, BackJob
  <2>5. Rid(dn, job', N) /\ Head(P[N]) = job[N]["up"].cell
    BY <1>0, <1>i, <2>1, <2>4, RidHand
  <2>6. Popped(Q, P, N)
    BY <1>0, <2>3, <2>5, RidPops
  <2>7. Calm(P, Q)
    BY <1>0, <2>4, <2>5, <2>6, PoppedFacts
  <2> QED
    BY <1>0, <2>2, <2>3, <2>7, WholeFrame DEF Known
<1> QED
  BY <1>1, <1>2, <1>3, <1>4, <1>5 DEF ServeExit

\* The client's writes reach the first relay; END comes last.
LEMMA WholeClient ==
  ASSUME Known, Live, Live', Handler \/ SendData \/ AppCloses \/ RecvLoop
  PROVE  Whole'
<1> USE DEF wires, relays, exit, client, hist
<1> DEFINE P == Pipes(dn, job)
           Q == Pipes(dn', job')
<1>0. /\ TypeOK /\ Unshut /\ Quiet /\ P \in Wires /\ dn \in Wires /\ up \in Wires /\ 1 \in Hops
      /\ AllMild(P, phase = "endall") /\ AllMild(up, tgt = "shut") /\ EndLast(P) /\ Attached
      /\ 0 \in 0 .. N - 1
  BY KnownFacts DEF Hops
<1>f. ASSUME UNCHANGED <<table, topShut, botShut, exit, dn, job>>, AllMild(up', tgt = "shut"),
             phase = "endall" => phase' = "endall", phase \in Early => phase' \in Early
      PROVE  Whole'
  <2>1. Calm(P, Q)
    BY <1>f, CalmSame
  <2> QED
    BY <1>0, <1>f, <2>1, WholeFrame DEF Known, Attached
<1>w. ASSUME NEW c \in Cell, NEW ok, ClientWrites(c, ok), ok \in BOOLEAN, job' = job
      PROVE  ok /\ Grown(Q, P, 1, c)
  <2>1. ok /\ dn' = PutDown(dn, 0, c)
    BY <1>0, <1>w DEF ClientWrites, MayReturn, Unshut
  <2>2. Grown(Pipes(PutDown(dn, 0, c), job), Pipes(dn, job), 0 + 1, c)
    BY <1>0, <1>w, PutGrows
  <2> QED
    BY <1>w, <2>1, <2>2
<1> HIDE DEF P, Q
<1>1. CASE OpenStream \/ SockClosed \/ AppCloses
  <2>1. /\ UNCHANGED <<up, dn, table, topShut, botShut, exit, job>>
        /\ phase = "endall" => phase' = "endall"
        /\ phase \in Early => phase' \in Early
    BY <1>1 DEF OpenStream, SockClosed, AppCloses, Early
  <2> QED
    BY <1>0, <1>f, <2>1
<1>2. CASE RecvLoop
  <2>1. /\ UNCHANGED <<dn, table, topShut, botShut, exit, job, phase>>
        /\ up' = up \/ (up[1] # <<>> /\ up' = [up EXCEPT ![1] = Tail(@)])
    BY <1>2 DEF RecvLoop, RecvCell, RecvEOF, CloseAll
  <2>2. AllMild(up', tgt = "shut")
    BY <1>0, <2>1, UpTail
  <2> QED
    BY <1>f, <2>1, <2>2
<1>3. CASE SendBegin
  <2> DEFINE c == Sealed("BEGIN", Onion(1, ctr.begin), Cipher, N)
  <2>1. /\ phase = "begin" /\ phase' = "relay" /\ \E ok \in BOOLEAN : ClientWrites(c, ok)
        /\ UNCHANGED <<up, topShut, botShut, relays, exit>>
    BY <1>3 DEF SendBegin, Return, Live
  <2>2. c \in Cell /\ c.cmd = "BEGIN"
    <3>1. Cipher \in Chunk /\ "BEGIN" \in Cmd /\ ctr.begin \in Nat
      BY <1>0 DEF Cipher, Chunk, Cmd, TypeOK, Counters
    <3> QED
      BY <3>1, OwnOnionType DEF Sealed
  <2> HIDE DEF c
  <2>3. Grown(Q, P, 1, c) /\ Mild(c, phase = "endall")
    BY <1>w, <2>1, <2>2 DEF Mild
  <2>4. AllMild(Q, phase = "endall") /\ HasBegin(Q)
    BY <1>0, <2>2, <2>3, GrownFacts
  <2>5. AllMild(Q, FALSE) /\ AllMild(Q, phase' = "endall")
    BY <2>1, <2>4, MildLater
  <2>6. EndLast(Q)
    BY <2>5, EndLastFacts
  <2>7. tgt = "none"
    BY <2>1 DEF Known, DialsOnce, Early
  <2>8. Attached'
    BY <2>1, <2>4, <2>7 DEF Attached, Q
  <2> QED
    BY <1>0, <2>1, <2>5, <2>6, <2>8 DEF Known, Whole, Q
<1>4. CASE SendData
  <2>1. /\ phase = "relay" /\ phase' \in {"relay", "end"}
        /\ UNCHANGED <<up, topShut, botShut, relays, exit>>
    BY <1>4 DEF SendData
  <2>2. PICK room \in Rooms :
          \/ UNCHANGED dn
          \/ \E ok \in BOOLEAN :
               ClientWrites(Sealed("DATA", Onion(1, ctr.data), App(sent + 1), room), ok)
    BY <1>4 DEF SendData
  <2> DEFINE c == Sealed("DATA", Onion(1, ctr.data), App(sent + 1), room)
  <2>3. c \in Cell /\ c.cmd = "DATA"
    <3>1. App(sent + 1) \in Chunk /\ "DATA" \in Cmd /\ ctr.data \in Nat
      BY <1>0 DEF App, Chunk, Cmd, TypeOK, Counters
    <3> QED
      BY <3>1, OwnOnionType DEF Sealed
  <2> HIDE DEF c
  <2>4. Q = P \/ Grown(Q, P, 1, c)
    <3>1. CASE UNCHANGED dn
      BY <2>1, <3>1 DEF P, Q
    <3>2. CASE \E ok \in BOOLEAN : ClientWrites(c, ok)
      BY <1>w, <2>1, <2>3, <3>2
    <3> QED
      BY <2>2, <3>1, <3>2 DEF c
  <2>5. AllMild(P, phase = "endall") => AllMild(Q, phase = "endall")
    <3>1. Mild(c, phase = "endall")
      BY <2>3 DEF Mild
    <3> QED
      BY <1>0, <2>3, <2>4, <3>1, GrownFacts
  <2>6. AllMild(Q, FALSE) /\ AllMild(Q, phase' = "endall")
    BY <1>0, <2>1, <2>5, MildLater
  <2>7. EndLast(Q)
    BY <2>6, EndLastFacts
  <2>8. HasBegin(P) => HasBegin(Q)
    BY <1>0, <2>3, <2>4, GrownFacts
  <2>9. Attached'
    BY <1>0, <2>1, <2>8 DEF Attached, Early, P, Q
  <2> QED
    BY <1>0, <2>1, <2>6, <2>7, <2>9 DEF Known, Whole, Q
<1>5. CASE SendEnd
  <2> DEFINE c == Control("END", 1)
  <2>1. /\ phase = "end" /\ phase' = "endall" /\ \E ok \in BOOLEAN : ClientWrites(c, ok)
        /\ UNCHANGED <<up, topShut, botShut, relays, exit>>
    BY <1>5 DEF SendEnd, Return, Live
  <2>2. c \in Cell /\ c.cmd = "END" /\ c.sid = 1
    BY ControlType DEF Control, Cmd
  <2> HIDE DEF c
  <2>3. Grown(Q, P, 1, c) /\ Mild(c, phase' = "endall")
    BY <1>w, <2>1, <2>2 DEF Mild
  <2>4. AllMild(P, phase' = "endall")
    BY <1>0, <2>1, MildLater
  <2>5. AllMild(Q, phase' = "endall")
    BY <1>0, <2>2, <2>3, <2>4, GrownFacts
  <2>6. EndLast(Q) /\ (HasBegin(P) => HasBegin(Q))
    BY <1>0, <2>2, <2>3, GrownFacts
  <2>7. Attached'
    BY <1>0, <2>1, <2>6 DEF Attached, Early, P, Q
  <2> QED
    BY <1>0, <2>1, <2>5, <2>6, <2>7 DEF Known, Whole, Q
<1>6. ~SendEndAll
  BY DEF SendEndAll, Return, Live
<1>7. ~SendConnect
  BY <1>0 DEF SendConnect, Quiet
<1> QED
  BY <1>1, <1>2, <1>3, <1>4, <1>5, <1>6, <1>7 DEF Handler

\* END comes up from the exit only once the client's END has closed the target.
LEMMA WholeUpstream ==
  ASSUME Known, Live, Live', FwdRead \/ ForwardUpstream
  PROVE  Whole'
<1> USE DEF wires, relays, exit, client, hist
<1>0. /\ TypeOK /\ up \in Wires /\ N \in Hops /\ AllMild(up, tgt = "shut") /\ Attached
  BY KnownFacts
<1>f. ASSUME UNCHANGED <<table, topShut, botShut, tgt, dn, job, phase>>, AllMild(up', tgt = "shut"),
             tgt = "open" => strm'
      PROVE  Whole'
  <2>1. Calm(Pipes(dn, job), Pipes(dn', job'))
    BY <1>f, CalmSame
  <2> QED
    BY <1>f, <2>1, WholeFrame DEF Known
<1>1. CASE FwdRead
  BY <1>0, <1>1, <1>f DEF FwdRead, Attached
<1>2. CASE FwdSeal
  <2> DEFINE c == Seal(Sealed("DATA", <<>>, Svc(fwd.no), fwd.room), N, fwd.nonce)
  <2>1. /\ up' \in {up, PutUp(up, N, c)}
        /\ UNCHANGED <<table, topShut, botShut, strm, tgt, dn, job, phase>>
    BY <1>2 DEF FwdSeal
  <2>2. c \in Cell /\ Mild(c, tgt = "shut")
    <3>1. /\ Svc(fwd.no) \in Chunk /\ "DATA" \in Cmd /\ <<>> \in Seq(Layer)
          /\ fwd.nonce \in Nat /\ fwd.room \in Nat
      BY <1>0 DEF TypeOK, Upstream, Svc, Chunk, Cmd
    <3>2. PICK e \in Cell : e = Sealed("DATA", <<>>, Svc(fwd.no), fwd.room)
      BY <3>1, SealedType
    <3>3. e.cmd = "DATA"
      BY <3>2 DEF Sealed
    <3>4. Seal(e, N, fwd.nonce) \in Cell /\ Seal(e, N, fwd.nonce).cmd = "DATA"
      BY <1>0, <3>1, <3>3, SealType DEF Seal, Cell
    <3> QED
      BY <3>2, <3>4 DEF Mild
  <2> HIDE DEF c
  <2>3. AllMild(up', tgt = "shut")
    BY <1>0, <2>1, <2>2, UpPut
  <2> QED
    BY <1>0, <1>f, <2>1, <2>3 DEF Attached
<1>3. CASE FwdEnd
  <2>1. /\ tgt \in {"eof", "gone", "shut"} /\ tgt' = TgtClosed(N, TRUE)
        /\ up' = PutUp(up, N, Control("END", 1))
        /\ UNCHANGED <<table, topShut, botShut, dn, job, phase>>
    BY <1>3 DEF FwdEnd
  <2>2. tgt = "shut" /\ tgt' = tgt
    BY <2>1 DEF Live, Lost, TgtClosed
  <2>3. Control("END", 1) \in Cell /\ Mild(Control("END", 1), tgt = "shut")
    BY <2>2, ControlType DEF Control, Cmd, Mild
  <2>4. AllMild(up', tgt = "shut")
    BY <1>0, <2>1, <2>3, UpPut
  <2> QED
    BY <1>f, <2>1, <2>2, <2>4
<1> QED
  BY <1>1, <1>2, <1>3 DEF ForwardUpstream

\* A circuit in use stays whole with every step.
LEMMA WholeNext ==
  ASSUME Known, ~Expiry, Live, Live', Next
  PROVE  Whole'
<1>0. Unshut /\ Plain
  BY KnownFacts
<1>1. CASE Handler \/ RecvLoop \/ SendData \/ AppCloses
  BY <1>1, WholeClient
<1>2. ASSUME NEW i \in Hops, NEW s \in Sides, ServeConn(i, s)
      PROVE  Whole'
  BY <1>2, WholeServeConn DEF Live
<1>3. CASE ServeExit
  BY <1>3, WholeServeExit
<1>4. CASE FwdRead \/ ForwardUpstream
  BY <1>4, WholeUpstream
<1>5. ~HiddenServeRead /\ ~HiddenServeStop
  BY <1>0 DEF HiddenServeRead, HiddenServeStop, Plain
<1>6. ~TargetCloses
  BY DEF TargetCloses, Live, Lost
<1>7. ~\E i \in Hops : Expire(i) \/ ResetDn(i) \/ ResetUp(i)
  BY <1>0 DEF Expire, ResetDn, ResetUp, Unshut
<1> QED
  BY <1>1, <1>2, <1>3, <1>4, <1>5, <1>6, <1>7 DEF Next

-----------------------------------------------------------------------------
(***************************************************************************)
(* The exit dials once, and has lost its target for good.                  *)
(***************************************************************************)
\* Only a dial that returns gives the exit a target, or none; what is lost stays lost.
LEMMA TgtNext ==
  ASSUME TypeOK, Next
  PROVE  /\ tgt = "none" /\ tgt' # "none" => Dialled \/ DialRefused \/ HiddenDialled \/ HiddenRefused
         /\ Lost /\ ~Lost' => Dialled \/ DialRefused \/ HiddenDialled \/ HiddenRefused
         /\ phase = "returned" => phase' = "returned"
<1> USE DEF wires, relays, exit, client, hist
<1> DEFINE Dials == Dialled \/ DialRefused \/ HiddenDialled \/ HiddenRefused
           Kept == (tgt = "none" => tgt' = "none") /\ (Lost => Lost')
<1>a. ASSUME NEW i, NEW closing, tgt' \in {tgt, TgtClosed(i, closing)}
      PROVE  Kept
  BY <1>a DEF TgtClosed, Lost
<1>1. CASE Handler \/ RecvLoop \/ SendData \/ AppCloses
  <2>1. tgt' = tgt
    BY <1>1 DEF Handler, SendConnect, OpenStream, SendBegin, SockClosed, SendEnd, SendEndAll,
                RecvLoop, RecvCell, RecvEOF, SendData, AppCloses
  <2>2. phase = "returned" => phase' = "returned"
    BY <1>1 DEF Handler, SendConnect, OpenStream, SendBegin, SockClosed, SendEnd, SendEndAll,
                RecvLoop, RecvCell, RecvEOF, SendData, AppCloses
  <2> QED
    BY <2>1, <2>2 DEF Lost
<1>2. ASSUME NEW i \in Hops, NEW s \in Sides, ServeConn(i, s)
      PROVE  Kept /\ phase' = phase
  <2>1. CASE EndStream(i, s)
    <3>1. tgt' = TgtClosed(i, strm) /\ phase' = phase
      BY <2>1 DEF EndStream
    <3> QED
      BY <1>a, <3>1
  <2>2. CASE EndCircuit(i, s)
    <3>1. tgt' = TgtClosed(i, strm \/ st[i].hidden) /\ phase' = phase
      BY <2>2 DEF EndCircuit
    <3> QED
      BY <1>a, <3>1
  <2>3. CASE ~EndStream(i, s) /\ ~EndCircuit(i, s)
    <3>1. tgt' = tgt /\ phase' = phase
      BY <1>2, <2>3 DEF ServeConn, ServeStop, ForwardSetup, BeginAck, TakeData, ForwardData,
                        FailData, SealData, SendSealed
    <3> QED
      BY <1>a, <3>1
  <2> QED
    BY <2>1, <2>2, <2>3
<1>3. CASE ServeExit /\ ~Dials
  <2>1. /\ phase' = phase
        /\ tgt' \in {tgt, TgtClosed(N, strm)}
    BY <1>3 DEF ServeExit, StartDial, BeginHidden, DeliverData
  <2>2. Kept
    BY <1>a, <2>1
  <2> QED
    BY <2>1, <2>2
<1>4. CASE FwdRead \/ ForwardUpstream \/ HiddenServeRead \/ HiddenServeStop
  <2>1. phase' = phase /\ tgt' \in {tgt, TgtClosed(N, TRUE)}
    BY <1>4 DEF FwdRead, ForwardUpstream, FwdSeal, FwdEnd, HiddenServeRead, HiddenServeStop
  <2>2. Kept
    BY <2>1 DEF TgtClosed, Lost
  <2> QED
    BY <2>1, <2>2
<1>5. CASE TargetCloses
  BY <1>5 DEF TargetCloses, Lost
<1>6. ASSUME NEW i \in Hops, Expire(i) \/ ResetDn(i) \/ ResetUp(i)
      PROVE  Kept /\ phase' = phase
  <2>1. phase' = phase /\ tgt' \in {tgt, TgtClosed(i, st[i].hidden)}
    BY <1>6 DEF Expire, ResetDn, ResetUp
  <2> QED
    BY <1>a, <2>1
<1>7. CASE Dials
  <2>1. phase' = phase
    BY <1>7 DEF Dialled, DialRefused, HiddenDialled, HiddenRefused
  <2> QED
    BY <1>7, <2>1
<1> QED
  BY <1>1, <1>2, <1>3, <1>4, <1>5, <1>6, <1>7 DEF Next

\* The exit dials before it has a target, for BEGIN, which leaves no other.
LEMMA DialFacts ==
  ASSUME UpInv, DownInv, DialsOnce, Dialled \/ DialRefused \/ HiddenDialled \/ HiddenRefused
  PROVE  /\ tgt = "none" /\ phase \notin Early /\ phase' = phase
         /\ NoSetup(Pipes(dn', job'))
<1> DEFINE P == Pipes(dn, job)
           Q == Pipes(dn', job')
<1>0. /\ TypeOK /\ dn \in Wires /\ job \in Jobs /\ N \in Hops /\ "up" \in Sides
      /\ CellsAt(st[N].updata) /\ BeginOnce /\ Quiet /\ Back
  BY DEF UpInv, DownInv, TypeOK, Hops, Sides
<1>1. /\ job[N]["up"].pc = "dial" /\ job' = [job EXCEPT ![N]["up"] = Idle] /\ dn' = dn /\ phase' = phase
  BY DEF Dialled, DialRefused, HiddenDialled, HiddenRefused, Dialling, DialReturns, client, wires
<1>2. InHand(job[N]["up"]) /\ job[N]["up"].cell.cmd \in Setup
  BY <1>0, <1>1 DEF InHand, Back, BackJob
<1>3. tgt = "none"
  <2>1. P[N][1] = job[N]["up"].cell /\ Len(P[N]) = Len(dn[N]) + 1 /\ Len(dn[N]) \in Nat
    BY <1>0, <1>2, PipeHead DEF Wires
  <2>2. 1 \in 1 .. Len(P[N]) /\ P[N][1].cmd \in Setup
    BY <1>2, <2>1
  <2> HIDE DEF P
  <2>3. ~NoSetup(P)
    BY <1>0, <2>2 DEF NoSetup
  <2> QED
    BY <2>3 DEF DialsOnce, P
<1>4. phase \notin Early
  BY <1>0, <1>1 DEF BeginOnce, Quiet, Early
<1>5. ASSUME NEW h \in Hops, NEW k \in 1 .. Len(dn[h])
      PROVE  dn[h][k].cmd \notin Setup
  <2>1. dn[h][k].cmd # "CONNECT"
    BY <1>0 DEF CellsAt, DownCells, DownCell
  <2>2. dn[h][k].cmd # "BEGIN"
    BY <1>0, <1>1 DEF BeginOnce, HasBegin
  <2> QED
    BY <2>1, <2>2 DEF Setup
<1>6. ASSUME NEW h \in Hops, InHand(job'[h]["up"])
      PROVE  job'[h]["up"].cell.cmd = "DATA"
  <2>1. h # N
    BY <1>0, <1>1, <1>6 DEF Jobs, InHand, Idle
  <2>2. job'[h]["up"] = job[h]["up"]
    BY <1>0, <1>1, <2>1 DEF Jobs
  <2>3. UpJob(h, job[h]["up"])
    BY <1>0 DEF CellsAt
  <2> QED
    BY <1>6, <2>1, <2>2, <2>3 DEF UpJob, InHand
<1>7. NoSetup(Q)
  <2> SUFFICES ASSUME NEW h \in Hops, NEW k \in 1 .. Len(Q[h])
               PROVE  Q[h][k].cmd \notin Setup
    BY DEF NoSetup
  <2>0. job' \in Jobs
    BY <1>0, <1>1, IdleJobsType
  <2>1. CASE InHand(job'[h]["up"])
    <3>1. PICK K \in Jobs : K = job'
      BY <2>0
    <3>2. PICK q : q = Pipes(dn, K)[h]
      OBVIOUS
    <3>3. /\ Len(q) = Len(dn[h]) + 1 /\ q[1] = K[h]["up"].cell
          /\ \A x \in 1 .. Len(dn[h]) : q[x + 1] = dn[h][x]
      <4>1. dn \in Wires /\ InHand(K[h]["up"])
        BY <1>0, <2>1, <3>1
      <4>2. /\ Len(Pipes(dn, K)[h]) = Len(dn[h]) + 1 /\ Pipes(dn, K)[h][1] = K[h]["up"].cell
            /\ \A x \in 1 .. Len(dn[h]) : Pipes(dn, K)[h][x + 1] = dn[h][x]
        BY <4>1, PipeHead
      <4> QED
        BY <3>2, <4>2
    <3>4. k \in 1 .. Len(q) /\ Q[h][k] = q[k] /\ Len(dn[h]) \in Nat
      BY <1>0, <1>1, <3>1, <3>2 DEF Wires
    <3>5. CASE k = 1
      BY <1>6, <2>1, <3>1, <3>3, <3>4, <3>5 DEF Setup
    <3>6. CASE k # 1
      <4>1. k - 1 \in 1 .. Len(dn[h]) /\ (k - 1) + 1 = k
        BY <3>3, <3>4, <3>6
      <4>2. q[k] = dn[h][k - 1]
        BY <3>3, <4>1
      <4> QED
        BY <1>5, <3>4, <4>1, <4>2
    <3> QED
      BY <3>5, <3>6
  <2>2. CASE ~InHand(job'[h]["up"])
    <3>1. Q[h] = dn[h]
      BY <1>1, <2>2, PipeFree
    <3> QED
      BY <1>5, <3>1
  <2> QED
    BY <2>1, <2>2
<1> QED
  BY <1>1, <1>3, <1>4, <1>7

LEMMA DialsNext ==
  ASSUME TypeOK', UpInv, DownInv, DialsOnce, Next
  PROVE  DialsOnce' /\ (Live' => Live)
<1> DEFINE P == Pipes(dn, job)
           Q == Pipes(dn', job')
           Dials == Dialled \/ DialRefused \/ HiddenDialled \/ HiddenRefused
<1>0. TypeOK /\ Back /\ Sending /\ Quiet /\ dn \in Wires /\ job \in Jobs /\ P \in Wires
  BY PipesType DEF UpInv, DownInv, TypeOK
<1>1. ASSUME tgt # "none"
      PROVE  phase' \notin Early /\ NoSetup(Q)
  BY <1>1, SetupGone DEF DialsOnce
<1>2. CASE Dials
  BY <1>2, DialFacts DEF DialsOnce, Live, Lost
<1>3. CASE ~Dials
  <2>1. tgt' # "none" => tgt # "none"
    BY <1>0, <1>3, TgtNext
  <2>2. Live' => Live
    BY <1>0, <1>3, TgtNext DEF Live
  <2> QED
    BY <1>1, <2>1, <2>2 DEF DialsOnce
<1> QED
  BY <1>2, <1>3

-----------------------------------------------------------------------------
(***************************************************************************)
(* Every relay opens the one BEGIN: its counter and the client's are at 0. *)
(***************************************************************************)
\* Each BEGIN of E is where it is in D.
SameBegin(E, D) ==
  \A h \in Hops : \A k \in 1 .. Len(E[h]) :
    E[h][k].cmd = "BEGIN" => \E l \in 1 .. Len(D[h]) : D[h][l] = E[h][k]

LEMMA SameLess ==
  ASSUME NEW D \in Wires, NEW E \in Wires, NEW J, Lessened(E, D, J)
  PROVE  SameBegin(E, D)
<1> SUFFICES ASSUME NEW h \in Hops, NEW k \in 1 .. Len(E[h]), E[h][k].cmd = "BEGIN"
             PROVE  \E l \in 1 .. Len(D[h]) : D[h][l] = E[h][k]
  BY DEF SameBegin
<1>1. PICK a \in {0, 1} : Within(E[h], D[h], a)
  BY DEF Lessened
<1>2. k + a \in 1 .. Len(D[h]) /\ E[h][k] = D[h][k + a]
  BY <1>1 DEF Within, Free, Setup
<1> QED
  BY <1>2

LEMMA SamePut ==
  ASSUME NEW D, NEW E \in Wires, SameBegin(E, D), NEW i \in 0 .. N - 1, NEW c \in Cell, c.cmd # "BEGIN"
  PROVE  SameBegin(PutDown(E, i, c), D)
<1>1. PICK F : F = PutDown(E, i, c)
  OBVIOUS
<1>2. PICK h \in Hops : h = i + 1
  BY DEF Hops
<1>3. CASE F = E
  BY <1>1, <1>3
<1>4. CASE F # E
  <2>1. F[h] = Append(E[h], c) /\ \A g \in Hops \ {h} : F[g] = E[g]
    BY <1>1, <1>2, <1>4 DEF PutDown, Wires
  <2>2. E[h] \in Seq(Cell) /\ \A g \in Hops : Len(E[g]) \in Nat
    BY DEF Wires
  <2>3. /\ Len(F[h]) = Len(E[h]) + 1 /\ F[h][Len(E[h]) + 1] = c
        /\ \A k \in 1 .. Len(E[h]) : F[h][k] = E[h][k]
    BY <2>1, <2>2
  <2>4. ASSUME NEW g \in Hops, NEW k \in 1 .. Len(F[g]), F[g][k].cmd = "BEGIN"
        PROVE  k \in 1 .. Len(E[g]) /\ F[g][k] = E[g][k]
    <3>1. CASE g = h
      <4>1. k # Len(E[h]) + 1
        BY <2>3, <2>4, <3>1
      <4>2. k \in 1 .. Len(E[h]) + 1 /\ Len(E[h]) \in Nat
        BY <2>2, <2>3, <3>1
      <4>3. k \in 1 .. Len(E[h])
        BY <4>1, <4>2
      <4> QED
        BY <2>3, <3>1, <4>3
    <3>2. CASE g # h
      BY <2>1, <3>2
    <3> QED
      BY <3>1, <3>2
  <2>5. SameBegin(F, D)
    <3> SUFFICES ASSUME NEW g \in Hops, NEW k \in 1 .. Len(F[g]), F[g][k].cmd = "BEGIN"
                 PROVE  \E l \in 1 .. Len(D[g]) : D[g][l] = F[g][k]
      BY DEF SameBegin
    <3>1. k \in 1 .. Len(E[g]) /\ F[g][k] = E[g][k]
      BY <2>4
    <3>2. E[g][k].cmd = "BEGIN"
      BY <3>1
    <3>3. \E l \in 1 .. Len(D[g]) : D[g][l] = E[g][k]
      BY <3>1, <3>2 DEF SameBegin
    <3> QED
      BY <3>1, <3>3
  <2> QED
    BY <1>1, <2>5
<1> QED
  BY <1>3, <1>4

LEMMA SameDrop ==
  ASSUME NEW D, NEW E, NEW F, SameBegin(E, D), \A h \in Hops : F[h] \in {E[h], <<>>}
  PROVE  SameBegin(F, D)
<1> SUFFICES ASSUME NEW h \in Hops, NEW k \in 1 .. Len(F[h]), F[h][k].cmd = "BEGIN"
             PROVE  \E l \in 1 .. Len(D[h]) : D[h][l] = F[h][k]
  BY DEF SameBegin
<1>1. F[h] = E[h]
  <2>1. Len(<<>>) = 0
    OBVIOUS
  <2> QED
    BY <2>1
<1> QED
  BY SMTT(30), <1>1 DEF SameBegin

\* What a step has to show at which no relay opens, or fails to open, a BEGIN.
LEMMA OpensFrame ==
  ASSUME BeginOpens, SameBegin(dn', dn), \A j \in Hops : st'[j].begin = st[j].begin,
         phase' \in Early => phase \in Early /\ ctr'.begin = ctr.begin
  PROVE  BeginOpens'
<1>1. phase' \in Early => ctr'.begin = 0 /\ \A j \in Hops : st'[j].begin = 0
  BY DEF BeginOpens
<1>2. ASSUME NEW i \in Hops, NEW k \in 1 .. Len(dn'[i]), dn'[i][k].cmd = "BEGIN"
      PROVE  dn'[i][k].layers = Onion(i, 0) /\ \A j \in i .. N : st'[j].begin = 0
  <2>1. PICK l \in 1 .. Len(dn[i]) : dn[i][l] = dn'[i][k]
    BY <1>2 DEF SameBegin
  <2>2. dn[i][l].cmd = "BEGIN"
    BY <1>2, <2>1
  <2>3. dn[i][l].layers = Onion(i, 0) /\ \A j \in i .. N : st[j].begin = 0
    BY <2>2 DEF BeginOpens
  <2>4. \A j \in i .. N : j \in Hops
    BY DEF Hops
  <2> QED
    BY <2>1, <2>3, <2>4
<1> QED
  BY <1>1, <1>2 DEF BeginOpens

\* The client's one BEGIN.
LEMMA OpensClient ==
  ASSUME TypeOK, UpInv, Sending, BeginOpens, Handler \/ SendData \/ AppCloses \/ RecvLoop
  PROVE  BeginOpens'
<1> USE DEF wires, relays, exit, client, hist
<1>0. /\ dn \in Wires /\ 0 \in 0 .. N - 1 /\ ctr \in Counters /\ BeginOnce /\ Quiet
      /\ SameBegin(dn, dn) /\ 1 \in Hops
  BY DEF TypeOK, UpInv, SameBegin, Hops
<1>1. UNCHANGED st
  BY DEF Handler, SendConnect, OpenStream, SendBegin, SockClosed, SendEnd, SendEndAll, SendData,
         AppCloses, RecvLoop, RecvCell, RecvEOF
<1>w. ASSUME NEW c \in Cell, c.cmd # "BEGIN", NEW ok \in BOOLEAN, ClientWrites(c, ok)
      PROVE  SameBegin(dn', dn)
  BY <1>0, <1>w, SamePut DEF ClientWrites
<1>c. ASSUME NEW sid \in {0, 1}
      PROVE  Control("END", sid) \in Cell /\ Control("END", sid).cmd # "BEGIN"
  BY ControlType DEF Control, Cmd
<1>2. CASE OpenStream \/ SockClosed \/ AppCloses
  <2>1. dn' = dn /\ (phase' \in Early => phase \in Early /\ ctr'.begin = ctr.begin)
    BY <1>2 DEF OpenStream, SockClosed, AppCloses, Early
  <2> QED
    BY <1>0, <1>1, <2>1, OpensFrame
<1>3. CASE RecvLoop
  <2>1. dn' = dn /\ phase' = phase /\ ctr'.begin = ctr.begin
    BY <1>0, <1>3 DEF RecvLoop, RecvCell, RecvEOF, Counters
  <2> QED
    BY <1>0, <1>1, <2>1, OpensFrame
<1>4. CASE SendEnd \/ SendEndAll
  <2>1. phase' \notin Early
    BY <1>4 DEF SendEnd, SendEndAll, Return, Early
  <2>2. SameBegin(dn', dn)
    BY <1>4, <1>c, <1>w DEF SendEnd, SendEndAll
  <2> QED
    BY <1>1, <2>1, <2>2, OpensFrame
<1>5. CASE SendData
  <2>1. PICK room \in Rooms :
          \/ UNCHANGED dn
          \/ \E ok \in BOOLEAN :
               ClientWrites(Sealed("DATA", Onion(1, ctr.data), App(sent + 1), room), ok)
    BY <1>5 DEF SendData
  <2>2. /\ Sealed("DATA", Onion(1, ctr.data), App(sent + 1), room) \in Cell
        /\ Sealed("DATA", Onion(1, ctr.data), App(sent + 1), room).cmd # "BEGIN"
    <3>1. App(sent + 1) \in Chunk /\ "DATA" \in Cmd /\ ctr.data \in Nat
      BY <1>0 DEF App, Chunk, Cmd, TypeOK, Counters
    <3> QED
      BY <3>1, OwnOnionType DEF Sealed
  <2>3. SameBegin(dn', dn)
    BY <1>0, <1>w, <2>1, <2>2
  <2>4. phase' \notin Early
    BY <1>5 DEF SendData, Early
  <2> QED
    BY <1>1, <2>3, <2>4, OpensFrame
<1>6. CASE SendBegin
  <2> DEFINE c == Sealed("BEGIN", Onion(1, ctr.begin), Cipher, N)
  <2>1. /\ phase = "begin" /\ phase' \notin Early /\ \E ok \in BOOLEAN : ClientWrites(c, ok)
    BY <1>6 DEF SendBegin, Return, Early
  <2>2. ctr.begin = 0 /\ \A j \in Hops : st[j].begin = 0
    BY <2>1 DEF BeginOpens, Early
  <2>3. c.layers = Onion(1, 0)
    BY <2>2 DEF Sealed
  <2> HIDE DEF c
  <2>4. ~HasBegin(dn)
    BY <1>0, <2>1 DEF BeginOnce
  <2>5. dn' = dn \/ dn' = [dn EXCEPT ![1] = Append(@, c)]
    BY <2>1 DEF ClientWrites, PutDown
  <2>6. ASSUME NEW i \in Hops, NEW k \in 1 .. Len(dn'[i]), dn'[i][k].cmd = "BEGIN"
        PROVE  dn'[i][k].layers = Onion(i, 0) /\ \A j \in i .. N : st'[j].begin = 0
    <3>1. ~(k \in 1 .. Len(dn[i]) /\ dn'[i][k] = dn[i][k])
      BY <2>4, <2>6 DEF HasBegin
    <3>2. dn' = [dn EXCEPT ![1] = Append(@, c)]
      BY <2>5, <2>6, <3>1
    <3>3. i = 1 /\ dn'[i] = Append(dn[1], c) /\ dn[1] \in Seq(Cell)
      BY <1>0, <2>6, <3>1, <3>2 DEF Wires
    <3>4. \A q \in Seq(Cell) : \A x \in 1 .. Len(Append(q, c)) :
            (x \in 1 .. Len(q) /\ Append(q, c)[x] = q[x]) \/ Append(q, c)[x] = c
      OBVIOUS
    <3>5. dn'[i][k] = c
      BY <2>6, <3>1, <3>3, <3>4
    <3>6. \A j \in i .. N : j \in Hops
      BY DEF Hops
    <3> QED
      BY <1>1, <2>2, <2>3, <3>3, <3>5, <3>6
  <2> QED
    BY <2>1, <2>6 DEF BeginOpens
<1>7. ~SendConnect
  BY <1>0 DEF SendConnect, Quiet
<1> QED
  BY <1>2, <1>3, <1>4, <1>5, <1>6, <1>7 DEF Handler

\* A relay that passes BEGIN on opens it, and it does so at the next one.
LEMMA OpensSetup ==
  ASSUME TypeOK, UpInv, Back, BeginOpens, NEW i \in Hops, NEW s \in Sides, ForwardSetup(i, s)
  PROVE  BeginOpens'
<1> USE DEF wires, relays, exit, client, hist
<1> DEFINE c == Head(dn[i])
           E == DnRead(i, "up")
<1>0. TypeOK /\ BeginOnce /\ Quiet /\ CellsAt(st[N].updata) /\ BackCells(up) /\ dn \in Wires /\ st \in Relays
  BY DEF UpInv, Back, TypeOK
<1>1. /\ Reads(i, s, {"BEGIN", "CONNECT"}) /\ i < N /\ phase' = phase
      /\ st' = [st EXCEPT ![i].begin = @ + 1,
                          ![i].served = @ \/ (Opens(Head(Inbox(i, s)), i, st[i].begin)
                                              \/ Head(Inbox(i, s)).cmd = "CONNECT")]
  BY DEF ForwardSetup
<1>2. s = "up"
  BY <1>0, <1>1, BackRead DEF BackCell, Setup, Reads, Sides
<1>3. c \in Cell /\ E \in Wires /\ DownCell(i, c) /\ c.cmd \in {"BEGIN", "CONNECT"}
  BY <1>0, <1>1, <1>2, ReadsType, ReadCells DEF CellsAt, Inbox, Reads
<1>4. c.cmd = "BEGIN"
  BY <1>3 DEF DownCell
<1>5. HasBegin(dn) /\ ~HasBegin(E)
  BY <1>0, <1>1, <1>2, <1>4, BeginRead DEF BeginOnce
<1>6. phase \notin Early
  BY <1>0, <1>5 DEF BeginOnce, Quiet, Early
<1>7. c.layers = Onion(i, 0) /\ \A j \in i .. N : st[j].begin = 0
  <2>1. dn[i] \in Seq(Cell) /\ dn[i] # <<>>
    BY <1>0, <1>1, <1>2 DEF Reads, Inbox, Wires
  <2>2. 1 \in 1 .. Len(dn[i]) /\ dn[i][1] = c
    BY <2>1
  <2> QED
    BY <1>4, <2>2 DEF BeginOpens
<1>8. \A j \in Hops \ {i} : st'[j].begin = st[j].begin
  BY <1>0, <1>1 DEF Relays
<1>9. i + 1 \in Hops /\ i \in 0 .. N - 1 /\ i # i + 1
  BY <1>1 DEF Hops
<1>10. dn' = E \/ (c.layers # <<>> /\ dn' = PutDown(E, i, Peel(c)))
  BY <1>2 DEF ForwardSetup, Inbox, Opens
<1>11. Peel(c).layers = Onion(i + 1, 0)
  <2>1. Peel(c).layers = Tail(c.layers)
    BY <1>3 DEF Peel, Cell
  <2> QED
    BY <1>1, <1>7, <2>1, PeelOnion
<1> HIDE DEF c, E
<1>12. ASSUME NEW h \in Hops, NEW k \in 1 .. Len(dn'[h]), dn'[h][k].cmd = "BEGIN"
       PROVE  dn'[h][k].layers = Onion(h, 0) /\ \A j \in h .. N : st'[j].begin = 0
  <2>1. ~(k \in 1 .. Len(E[h]) /\ dn'[h][k] = E[h][k])
    BY <1>5, <1>12 DEF HasBegin
  <2>2. c.layers # <<>> /\ dn' = [E EXCEPT ![i + 1] = Append(@, Peel(c))]
    BY <1>10, <1>12, <2>1 DEF PutDown
  <2>3. PICK d \in Cell : d = Peel(c)
    BY <1>3, <2>2, PeelType
  <2>4. h = i + 1 /\ dn'[h] = Append(E[h], d) /\ E[h] \in Seq(Cell)
    BY <1>3, <1>9, <1>12, <2>1, <2>2, <2>3 DEF Wires
  <2>5. \A q \in Seq(Cell) : \A x \in 1 .. Len(Append(q, d)) :
          (x \in 1 .. Len(q) /\ Append(q, d)[x] = q[x]) \/ Append(q, d)[x] = d
    OBVIOUS
  <2>6. dn'[h][k] = d
    BY <1>12, <2>1, <2>4, <2>5
  <2>7. \A j \in h .. N : j \in i .. N /\ j \in Hops \ {i}
    BY <2>4 DEF Hops
  <2> QED
    BY <1>7, <1>8, <1>11, <2>3, <2>4, <2>6, <2>7
<1> QED
  BY <1>1, <1>6, <1>12 DEF BeginOpens

LEMMA OpensServeConn ==
  ASSUME TypeOK, TypeOK', UpInv, Back, BeginOpens, NEW i \in Hops, NEW s \in Sides, ServeConn(i, s)
  PROVE  BeginOpens'
<1> USE DEF wires, relays, exit, client, hist
<1> DEFINE c == Head(Inbox(i, s))
           j == job[i][s]
<1>0. dn \in Wires /\ dn' \in Wires /\ st \in Relays /\ SameBegin(dn, dn) /\ j \in Job
      /\ BackJob(i, s, j) /\ phase' = phase /\ ctr' = ctr
  <2>1. phase' = phase /\ ctr' = ctr
    BY DEF ServeConn, ServeStop, ForwardSetup, BeginAck, EndStream, EndCircuit,
           TakeData, ForwardData, FailData, SealData, SendSealed
  <2> QED
    BY <2>1 DEF TypeOK, SameBegin, Back, Jobs
<1>f. ASSUME SameBegin(dn', dn), \A h \in Hops : st'[h].begin = st[h].begin
      PROVE  BeginOpens'
  BY <1>0, <1>f, OpensFrame
<1>r. ASSUME NEW cmds, Reads(i, s, cmds)
      PROVE  /\ c \in Cell /\ c.cmd \in cmds /\ DnRead(i, s) \in Wires /\ SameBegin(DnRead(i, s), dn)
  <2>1. c \in Cell /\ DnRead(i, s) \in Wires /\ c.cmd \in cmds
    BY <1>r, ReadsType DEF Reads
  <2> QED
    BY <1>0, <1>r, <2>1, LessRead, SameLess
<1>t. ASSUME Reads(i, s, {"END", "DESTROY"})
      PROVE  SameBegin(ToDown(i, DnRead(i, s), c), dn) /\ ToDown(i, DnRead(i, s), c) \in Wires
  <2>1. /\ c \in Cell /\ c.cmd # "BEGIN" /\ DnRead(i, s) \in Wires /\ SameBegin(DnRead(i, s), dn)
    BY <1>r, <1>t
  <2>2. i < N => i \in 0 .. N - 1
    BY DEF Hops
  <2>3. i < N => SameBegin(PutDown(DnRead(i, s), i, c), dn)
    BY <2>1, <2>2, SamePut
  <2> QED
    BY <2>1, <2>3, ToDownType DEF ToDown
<1>b. /\ \A v : st' = [st EXCEPT ![i].served = v] => \A h \in Hops : st'[h].begin = st[h].begin
      /\ \A v : st' = [st EXCEPT ![i].data = v] => \A h \in Hops : st'[h].begin = st[h].begin
      /\ \A v : st' = [st EXCEPT ![i].updata = v] => \A h \in Hops : st'[h].begin = st[h].begin
      /\ \A v : st' = [st EXCEPT ![i].data = v, ![i].served = TRUE] =>
           \A h \in Hops : st'[h].begin = st[h].begin
  BY <1>0 DEF Relays, ConnState
<1> HIDE DEF c, j
<1>1. CASE ServeStop(i, s)
  <2>1. \A h \in Hops : dn'[h] \in {dn[h], <<>>}
    BY <1>0, <1>1 DEF ServeStop, Wires
  <2>2. SameBegin(dn', dn)
    BY <1>0, <2>1, SameDrop
  <2> QED
    BY <1>1, <1>f, <2>2 DEF ServeStop
<1>2. CASE ForwardSetup(i, s)
  BY <1>2, OpensSetup
<1>3. CASE BeginAck(i, s)
  <2>1. Reads(i, s, {"BEGIN_ACK"}) /\ dn' = DnRead(i, s) /\ st' = st
    BY <1>3 DEF BeginAck
  <2> QED
    BY <1>f, <1>r, <2>1
<1>4. CASE EndStream(i, s)
  <2>1. /\ Reads(i, s, {"END"}) /\ dn' = ToDown(i, DnRead(i, s), c)
        /\ \E v : st' = [st EXCEPT ![i].served = v]
    BY <1>4 DEF EndStream, c
  <2>2. Reads(i, s, {"END", "DESTROY"})
    BY <2>1 DEF Reads
  <2> QED
    BY <1>b, <1>f, <1>t, <2>1, <2>2
<1>5. CASE EndCircuit(i, s)
  <2>1. /\ Reads(i, s, {"END", "DESTROY"}) /\ \E v : st' = [st EXCEPT ![i].served = v]
        /\ dn' = [ToDown(i, DnRead(i, s), c) EXCEPT ![i] = <<>>]
    BY <1>5 DEF EndCircuit, Close, c
  <2>2. PICK D \in Wires : D = ToDown(i, DnRead(i, s), c)
    BY <1>t, <2>1
  <2>3. SameBegin(D, dn) /\ \A h \in Hops : dn'[h] \in {D[h], <<>>}
    BY <1>t, <2>1, <2>2 DEF Wires
  <2>4. SameBegin(dn', dn)
    BY <2>3, SameDrop
  <2> QED
    BY <1>b, <1>f, <2>1, <2>4
<1>6. CASE TakeData(i, s)
  <2>1. Reads(i, s, {"DATA"}) /\ dn' = DnRead(i, s) /\ st' = st
    BY <1>6 DEF TakeData
  <2> QED
    BY <1>f, <1>r, <2>1
<1>7. CASE ForwardData(i, s)
  <2>1. /\ i < N /\ j.pc = "open" /\ j.cell.layers # <<>> /\ dn' = PutDown(dn, i, Peel(j.cell))
        /\ \E v : st' = [st EXCEPT ![i].data = v, ![i].served = TRUE]
    BY <1>7 DEF ForwardData, OpensData, Opens, j
  <2>2. j.cell \in Cell /\ j.cell.cmd = "DATA"
    BY <1>0, <2>1 DEF Job, BackJob
  <2>3. Peel(j.cell) \in Cell /\ Peel(j.cell).cmd # "BEGIN"
    BY <2>1, <2>2, PeelType DEF Peel, Cell
  <2>p. i \in 0 .. N - 1
    BY <2>1 DEF Hops
  <2>4. SameBegin(dn', dn)
    BY <1>0, <2>1, <2>3, <2>p, SamePut
  <2> QED
    BY <1>b, <1>f, <2>1, <2>4
<1>8. CASE FailData(i, s) \/ SealData(i, s)
  <2>1. dn' = dn /\ \E v : st' = [st EXCEPT ![i].data = v] \/ st' = [st EXCEPT ![i].updata = v]
    BY <1>8 DEF FailData, SealData
  <2> QED
    BY <1>0, <1>b, <1>f, <2>1
<1>9. CASE SendSealed(i, s)
  BY <1>0, <1>9, <1>f DEF SendSealed
<1> QED
  BY <1>1, <1>2, <1>3, <1>4, <1>5, <1>6, <1>7, <1>8, <1>9 DEF ServeConn

LEMMA OpensServeExit ==
  ASSUME TypeOK, UpInv, BeginOpens, ServeExit
  PROVE  BeginOpens'
<1> USE DEF wires, relays, exit, client, hist
<1>0. /\ dn \in Wires /\ st \in Relays /\ SameBegin(dn, dn) /\ N \in Hops /\ "up" \in Sides
      /\ BeginOnce /\ Quiet /\ Plain /\ CellsAt(st[N].updata) /\ phase' = phase /\ ctr' = ctr
  <2>1. phase' = phase /\ ctr' = ctr
    BY DEF ServeExit, StartDial, Dialled, DialRefused, HiddenDialled, HiddenRefused, BeginHidden,
           DeliverData
  <2> QED
    BY <2>1 DEF TypeOK, SameBegin, Hops, Sides, UpInv
<1>1. CASE StartDial
  <2>1. Reads(N, "up", {"BEGIN", "CONNECT"}) /\ Inbox(N, "up") = dn[N] /\ dn' = DnRead(N, "up")
    BY <1>1 DEF StartDial, Inbox
  <2>2. DownCell(N, Head(dn[N]))
    BY <1>0, <2>1, ReadCells DEF CellsAt
  <2>3. Head(dn[N]).cmd = "BEGIN"
    BY <2>1, <2>2 DEF Reads, DownCell
  <2>4. HasBegin(dn) /\ ~HasBegin(dn')
    BY <1>0, <2>1, <2>3, BeginRead DEF BeginOnce
  <2>5. phase \notin Early
    BY <1>0, <2>4 DEF BeginOnce, Quiet, Early
  <2>6. \A i \in Hops : \A k \in 1 .. Len(dn'[i]) : dn'[i][k].cmd # "BEGIN"
    BY <2>4 DEF HasBegin
  <2> QED
    BY <1>0, <2>5, <2>6 DEF BeginOpens
<1>2. CASE Dialled \/ DialRefused
  <2>1. dn' = dn /\ st' = st
    BY <1>2 DEF Dialled, DialRefused
  <2> QED
    BY <1>0, <2>1, OpensFrame
<1>3. ~HiddenDialled /\ ~HiddenRefused /\ ~BeginHidden
  BY <1>0 DEF HiddenDialled, HiddenRefused, BeginHidden, Dialling, Plain, CellsAt, UpJob
<1>4. CASE DeliverData
  <2>1. dn' = dn /\ \E v : st' = [st EXCEPT ![N].data = v]
    BY <1>4 DEF DeliverData
  <2>2. \A h \in Hops : st'[h].begin = st[h].begin
    BY <1>0, <2>1 DEF Relays, ConnState
  <2> QED
    BY <1>0, <2>1, <2>2, OpensFrame
<1> QED
  BY <1>1, <1>2, <1>3, <1>4 DEF ServeExit

LEMMA OpensNext ==
  ASSUME TypeOK', UpInv, DownInv, BeginOpens, Next
  PROVE  BeginOpens'
<1> USE DEF wires, relays, exit, client, hist
<1>0. /\ TypeOK /\ Back /\ Sending /\ dn \in Wires /\ st \in Relays /\ SameBegin(dn, dn) /\ N \in Hops
  BY DEF DownInv, TypeOK, SameBegin, Hops
<1>1. CASE Handler \/ RecvLoop \/ SendData \/ AppCloses
  BY <1>0, <1>1, OpensClient
<1>2. ASSUME NEW i \in Hops, NEW s \in Sides, ServeConn(i, s)
      PROVE  BeginOpens'
  BY <1>0, <1>2, OpensServeConn
<1>3. CASE ServeExit
  BY <1>0, <1>3, OpensServeExit
<1>4. CASE FwdRead \/ FwdEnd \/ HiddenServeRead \/ HiddenServeStop \/ TargetCloses
  <2>1. UNCHANGED <<dn, st, phase, ctr>>
    BY <1>4 DEF FwdRead, FwdEnd, HiddenServeRead, HiddenServeStop, TargetCloses
  <2> QED
    BY <1>0, <2>1, OpensFrame
<1>5. CASE FwdSeal
  <2>1. UNCHANGED <<dn, phase, ctr>> /\ \E v : st' = [st EXCEPT ![N].updata = v]
    BY <1>5 DEF FwdSeal
  <2>2. \A h \in Hops : st'[h].begin = st[h].begin
    BY <1>0, <2>1 DEF Relays, ConnState
  <2> QED
    BY <1>0, <2>1, <2>2, OpensFrame
<1>6. ASSUME NEW i \in Hops, Expire(i) \/ ResetDn(i) \/ ResetUp(i)
      PROVE  BeginOpens'
  <2>1. UNCHANGED <<st, phase, ctr>> /\ \A h \in Hops : dn'[h] \in {dn[h], <<>>}
    BY <1>0, <1>6 DEF Expire, Close, ResetDn, ResetUp, Wires
  <2>2. SameBegin(dn', dn)
    BY <1>0, <2>1, SameDrop
  <2> QED
    BY <2>1, <2>2, OpensFrame
<1> QED
  BY <1>1, <1>2, <1>3, <1>4, <1>5, <1>6 DEF Next, ForwardUpstream
-----------------------------------------------------------------------------
(***************************************************************************)
(* The theorem.                                                            *)
(***************************************************************************)
LEMMA TearInit ==
  ASSUME Init, ~Hidden
  PROVE  TearInv
<1> DEFINE P == Pipes(dn, job)
<1>1. /\ \A i \in Hops : P[i] = <<>> /\ up[i] = <<>> /\ dn[i] = <<>> /\ ~topShut[i] /\ ~botShut[i]
      /\ \A i \in Hops : st[i].begin = 0
      /\ phase = "open" /\ tgt = "none" /\ ctr.begin = 0 /\ table = Hops
  BY DEF Init, Pipes, InHand, Idle, Sides
<1>2. Len(<<>>) = 0
  OBVIOUS
<1> HIDE DEF P
<1>3. \A b : AllMild(P, b) /\ AllMild(up, b)
  BY <1>1, <1>2 DEF AllMild
<1>4. EndLast(P)
  BY <1>1, <1>2 DEF EndLast
<1>5. \A i \in Hops : \A k \in 1 .. Len(dn[i]) : FALSE
  BY <1>1, <1>2
<1>6. BeginOpens
  BY <1>1, <1>5 DEF BeginOpens
<1>7. Whole
  BY <1>1, <1>3, <1>4 DEF Whole, Attached, Early, P
<1> QED
  BY <1>1, <1>6, <1>7 DEF TearInv, DialsOnce

LEMMA TearNext ==
  ASSUME UpInv, DownInv, TearInv, ~Expiry, [Next]_vars
  PROVE  TearInv'
<1>1. CASE Next
  <2>0. TypeOK /\ TypeOK' /\ DialsOnce /\ BeginOpens
    BY TypeNext DEF DownInv, TearInv
  <2>1. DialsOnce' /\ (Live' => Live)
    BY <1>1, <2>0, DialsNext
  <2>2. BeginOpens'
    BY <1>1, <2>0, OpensNext
  <2>3. ASSUME Live'
        PROVE  Whole'
    <3>1. Live /\ Known
      BY <2>0, <2>1, <2>3 DEF Known, TearInv
    <3> QED
      BY <1>1, <2>3, <3>1, WholeNext
  <2> QED
    BY <2>1, <2>2, <2>3 DEF TearInv
<1>2. CASE UNCHANGED vars
  <2>1. UNCHANGED <<dn, up, topShut, botShut, table, job, st, tgt, strm, phase, ctr>>
    BY <1>2 DEF vars, wires, relays, exit, client
  <2>2. DialsOnce' /\ BeginOpens' /\ (Live' <=> Live)
    BY <2>1 DEF TearInv, DialsOnce, BeginOpens, Live, Lost
  <2>3. Whole => Whole'
    BY <2>1 DEF Whole, Attached
  <2> QED
    BY <2>2, <2>3 DEF TearInv
<1> QED
  BY <1>1, <1>2

\* A circuit in use is whole: every relay has its entry, every connection is open at both
\* ends, and no cell under way, nor any that a goroutine has in hand, ends the circuit.
THEOREM TearInvariant == ~Hidden /\ ~Expiry => (Spec => []TearInv)
<1>1. ~Hidden /\ Init => TearInv
  BY TearInit
<1>2. ~Expiry /\ UpInv /\ DownInv /\ TearInv /\ [Next]_vars => TearInv'
  BY TearNext
<1>3. ~Hidden => (Spec => []UpInv)
  BY UpInvariant
<1>4. Spec => []DownInv
  BY DownInvariant
<1>5. ASSUME ~Hidden, ~Expiry
      PROVE  Spec => []TearInv
  <2>1. Init => TearInv
    BY <1>1, <1>5
  <2>2. UpInv /\ DownInv /\ TearInv /\ [Next]_vars => TearInv'
    BY <1>2, <1>5
  <2>3. Spec => []UpInv
    BY <1>3, <1>5
  <2> QED
    BY <1>4, <2>1, <2>2, <2>3, PTL DEF Spec
<1> QED
  BY <1>5

\* Relays forget a circuit only after its client's handler has returned or its exit has lost
\* the target: no END of the stream, from whichever side and however often it is forwarded,
\* no DATA that fails to open and no late write to the target makes one of them tear it down,
\* for every number of hops.
THEOREM TeardownCorrect == ~Hidden /\ ~Expiry => (Spec => []NoSpuriousTeardown)
<1>1. TearInv => NoSpuriousTeardown
  BY DEF TearInv, Live, Whole, NoSpuriousTeardown
<1>2. ~Hidden /\ ~Expiry => (Spec => []TearInv)
  BY TearInvariant
<1>3. ASSUME ~Hidden, ~Expiry
      PROVE  Spec => []NoSpuriousTeardown
  <2>1. Spec => []TearInv
    BY <1>2, <1>3
  <2> QED
    BY <1>1, <2>1, PTL
<1> QED
  BY <1>3

=============================================================================
