------------------------- MODULE CircuitDown_proofs -------------------------
(***************************************************************************)
(* The target gets the application's chunks unaltered and in order, for    *)
(* every number of hops and for hidden services as well: DownInv of        *)
(* CircuitInv is inductive.                                                *)
(***************************************************************************)
EXTENDS CircuitInv, Circuit_proofs

USE CircuitAssumption
-----------------------------------------------------------------------------
(***************************************************************************)
(* Queues that lose cells at their ends and get cells that are none of     *)
(* DATA, BEGIN and CONNECT: r is q from its a-th cell on, but for those.   *)
(***************************************************************************)
Free(c) == c.cmd # "DATA" /\ c.cmd \notin Setup

Within(r, q, a) ==
  \A k \in 1 .. Len(r) : Free(r[k]) \/ (k + a \in 1 .. Len(q) /\ r[k] = q[k + a])

Thinned(R, P) == \A i \in Hops : \E a \in {0, 1} : Within(R[i], P[i], a)

\* What is in order stays so, and so does the rest.
LEMMA ThinnedFacts ==
  ASSUME NEW P \in Wires, NEW R \in Wires, Thinned(R, P)
  PROVE  /\ InOrder(P) => InOrder(R)
         /\ NoSetup(P) => NoSetup(R)
         /\ Lacks(P, "BEGIN") => Lacks(R, "BEGIN")
         /\ \A n \in Nat : From(P, n) => From(R, n)
         /\ \A n, m \in Nat : AllChunks(P, n) /\ n <= m => AllChunks(R, m)
<1> DEFINE Same(i, k, a) == Free(R[i][k]) \/ (k + a \in 1 .. Len(P[i]) /\ R[i][k] = P[i][k + a])
<1>1. ASSUME NEW i \in Hops
      PROVE  \E a \in {0, 1} : \A k \in 1 .. Len(R[i]) : Same(i, k, a)
  BY DEF Thinned, Within
<1>t. \A i \in Hops : Len(P[i]) \in Nat /\ Len(R[i]) \in Nat
  BY DEF Wires
<1>2. ASSUME InOrder(P)
      PROVE  InOrder(R)
  <2> SUFFICES ASSUME NEW i \in Hops, NEW j \in Hops,
                      NEW k \in 1 .. Len(R[i]), NEW l \in 1 .. Len(R[j]),
                      i > j \/ (i = j /\ k < l)
               PROVE  Ahead(R[i][k], R[j][l])
    BY DEF InOrder
  <2>1. PICK a \in {0, 1} : \A x \in 1 .. Len(R[i]) : Same(i, x, a)
    BY <1>1
  <2>2. PICK b \in {0, 1} : (i = j => a = b) /\ \A x \in 1 .. Len(R[j]) : Same(j, x, b)
    BY <1>1, <2>1
  <2>3. Same(i, k, a) /\ Same(j, l, b)
    BY <2>1, <2>2
  <2>4. CASE Free(R[i][k]) \/ Free(R[j][l])
    BY <2>4 DEF Free, Ahead, Setup
  <2>5. CASE ~Free(R[i][k]) /\ ~Free(R[j][l])
    <3>1. /\ k + a \in 1 .. Len(P[i]) /\ R[i][k] = P[i][k + a]
          /\ l + b \in 1 .. Len(P[j]) /\ R[j][l] = P[j][l + b]
      BY <2>3, <2>5
    <3>2. i > j \/ (i = j /\ k + a < l + b)
      BY <2>2, <1>t
    <3> QED
      BY <1>2, <3>1, <3>2 DEF InOrder
  <2> QED
    BY <2>4, <2>5
<1>3. ASSUME NoSetup(P)
      PROVE  NoSetup(R)
  <2> SUFFICES ASSUME NEW i \in Hops, NEW k \in 1 .. Len(R[i])
               PROVE  R[i][k].cmd \notin Setup
    BY DEF NoSetup
  <2>1. PICK a \in {0, 1} : Same(i, k, a)
    BY <1>1
  <2> QED
    BY <1>3, <2>1 DEF NoSetup, Free
<1>b. ASSUME Lacks(P, "BEGIN")
      PROVE  Lacks(R, "BEGIN")
  <2> SUFFICES ASSUME NEW i \in Hops, NEW k \in 1 .. Len(R[i])
               PROVE  R[i][k].cmd # "BEGIN"
    BY DEF Lacks
  <2>1. PICK a \in {0, 1} : Same(i, k, a)
    BY <1>1
  <2> QED
    BY <1>b, <2>1 DEF Lacks, Free, Setup
<1>4. ASSUME NEW n \in Nat, From(P, n)
      PROVE  From(R, n)
  <2> SUFFICES ASSUME NEW i \in Hops, NEW k \in 1 .. Len(R[i]), R[i][k].cmd = "DATA"
               PROVE  R[i][k].body.no > n
    BY DEF From
  <2>1. PICK a \in {0, 1} : Same(i, k, a)
    BY <1>1
  <2> QED
    BY <1>4, <2>1 DEF From, Free
<1>5. ASSUME NEW n \in Nat, NEW m \in Nat, AllChunks(P, n), n <= m
      PROVE  AllChunks(R, m)
  <2> SUFFICES ASSUME NEW i \in Hops, NEW k \in 1 .. Len(R[i]), R[i][k].cmd = "DATA"
               PROVE  ChunkCell(i, R[i][k], m)
    BY DEF AllChunks, ChunkCell
  <2>1. PICK a \in {0, 1} : Same(i, k, a)
    BY <1>1
  <2>2. ChunkCell(i, R[i][k], n)
    BY <1>5, <2>1 DEF AllChunks, Free
  <2>3. R[i][k].body.no \in 1 .. m
    BY <1>5, <2>2 DEF ChunkCell
  <2> QED
    BY <2>2, <2>3 DEF ChunkCell
<1> QED
  BY <1>2, <1>3, <1>b, <1>4, <1>5

\* A relay passes its first cell on, one layer less, or loses it.
Moved(R, P, i, d) ==
  /\ i < N /\ P[i] # <<>>
  /\ d.cmd = Head(P[i]).cmd /\ d.body = Head(P[i]).body /\ d.layers = Tail(Head(P[i]).layers)
  /\ R = [P EXCEPT ![i] = Tail(@), ![i + 1] = Append(@, d)]

\* The layers of a chunk's cell at the next hop.
LEMMA PeelOnion ==
  ASSUME NEW i \in Hops, i < N, NEW c \in Nat
  PROVE  Tail(Onion(i, c)) = Onion(i + 1, c)
<1> DEFINE q == Onion(i, c)
           r == Onion(i + 1, c)
           l(j) == [hop |-> j, ctr |-> c]
<1>0. i + 1 \in Hops /\ N - i \in Nat /\ N - i + 1 \in Nat \ {0}
  BY DEF Hops
<1>1. q \in Seq(Layer) /\ r \in Seq(Layer)
  BY <1>0, OnionType
<1>2. DOMAIN q = 1 .. N - i + 1 /\ \A k \in 1 .. N - i + 1 : q[k] = l(i + k - 1)
  BY DEF Onion
<1>3. DOMAIN r = 1 .. N - i /\ \A k \in 1 .. N - i : r[k] = l(i + k)
  <2>1. N - (i + 1) + 1 = N - i /\ \A k \in 1 .. N - i : i + 1 + k - 1 = i + k
    BY DEF Hops
  <2> QED
    BY <2>1 DEF Onion
<1> HIDE DEF q, r, l
<1>4. Len(q) = N - i + 1 /\ Len(r) = N - i
  BY <1>0, <1>1, <1>2, <1>3
<1>5. Tail(q) \in Seq(Layer) /\ Len(Tail(q)) = N - i /\ \A k \in 1 .. N - i : Tail(q)[k] = q[k + 1]
  BY <1>0, <1>1, <1>4
<1>6. ASSUME NEW k \in 1 .. N - i
      PROVE  Tail(q)[k] = r[k]
  <2>1. k + 1 \in 1 .. N - i + 1 /\ i + (k + 1) - 1 = i + k
    BY <1>0 DEF Hops
  <2> QED
    BY <1>2, <1>3, <1>5, <2>1
<1>7. Tail(q) = r
  BY <1>0, <1>1, <1>4, <1>5, <1>6, SeqEqual
<1> QED
  BY <1>7 DEF q, r

\* The cells of the queues once a cell has moved.
LEMMA MovedCells ==
  ASSUME NEW P \in Wires, NEW i \in Hops, NEW d \in Cell, NEW R, Moved(R, P, i, d)
  PROVE  /\ R \in Wires /\ i + 1 \in Hops /\ 1 \in 1 .. Len(P[i])
         /\ d.cmd = P[i][1].cmd /\ d.body = P[i][1].body /\ d.layers = Tail(P[i][1].layers)
         /\ \A j \in Hops : \A k \in 1 .. Len(R[j]) :
              \/ j \notin {i, i + 1} /\ k \in 1 .. Len(P[j]) /\ R[j][k] = P[j][k]
              \/ j = i /\ k + 1 \in 1 .. Len(P[i]) /\ R[j][k] = P[i][k + 1]
              \/ j = i + 1 /\ k \in 1 .. Len(P[j]) /\ R[j][k] = P[j][k]
              \/ j = i + 1 /\ k = Len(R[j]) /\ k = Len(P[j]) + 1 /\ R[j][k] = d
<1> DEFINE q == P[i]
           r == P[i + 1]
<1>1. i + 1 \in Hops /\ i + 1 # i
  BY DEF Moved, Hops
<1>2. q \in Seq(Cell) /\ r \in Seq(Cell) /\ q # <<>>
  BY <1>1 DEF Moved, Wires
<1>3. /\ R[i] = Tail(q) /\ R[i + 1] = Append(r, d)
      /\ \A j \in Hops \ {i, i + 1} : R[j] = P[j]
      /\ R \in [Hops -> Seq(Cell)]
  <2>1. P \in [Hops -> Seq(Cell)]
    BY DEF Wires
  <2>2. R = [P EXCEPT ![i] = Tail(@), ![i + 1] = Append(@, d)]
    BY DEF Moved
  <2>3. Tail(q) \in Seq(Cell) /\ Append(r, d) \in Seq(Cell)
    BY <1>2
  <2> QED
    BY <1>1, <2>1, <2>2, <2>3
<1> HIDE DEF q, r
<1>4. /\ Len(q) >= 1 /\ Head(q) = q[1] /\ Len(Tail(q)) = Len(q) - 1
      /\ \A k \in 1 .. Len(q) - 1 : Tail(q)[k] = q[k + 1]
  BY <1>2
<1>5. /\ Len(Append(r, d)) = Len(r) + 1 /\ Append(r, d)[Len(r) + 1] = d
      /\ \A k \in 1 .. Len(r) : Append(r, d)[k] = r[k]
  BY <1>2
<1>6. Len(q) \in Nat /\ Len(r) \in Nat
  BY <1>2
<1>7. /\ 1 \in 1 .. Len(P[i])
      /\ d.cmd = P[i][1].cmd /\ d.body = P[i][1].body /\ d.layers = Tail(P[i][1].layers)
  BY <1>4, <1>6 DEF Moved, q
<1>8. ASSUME NEW k \in 1 .. Len(R[i])
      PROVE  k + 1 \in 1 .. Len(P[i]) /\ R[i][k] = P[i][k + 1]
  BY <1>3, <1>4, <1>6 DEF q
<1>9. ASSUME NEW k \in 1 .. Len(R[i + 1])
      PROVE  \/ k \in 1 .. Len(P[i + 1]) /\ R[i + 1][k] = P[i + 1][k]
             \/ k = Len(R[i + 1]) /\ k = Len(P[i + 1]) + 1 /\ R[i + 1][k] = d
  BY <1>3, <1>5, <1>6 DEF r
<1>10. ASSUME NEW j \in Hops, NEW k \in 1 .. Len(R[j])
       PROVE  \/ j \notin {i, i + 1} /\ k \in 1 .. Len(P[j]) /\ R[j][k] = P[j][k]
              \/ j = i /\ k + 1 \in 1 .. Len(P[i]) /\ R[j][k] = P[i][k + 1]
              \/ j = i + 1 /\ k \in 1 .. Len(P[j]) /\ R[j][k] = P[j][k]
              \/ j = i + 1 /\ k = Len(R[j]) /\ k = Len(P[j]) + 1 /\ R[j][k] = d
  BY <1>3, <1>8, <1>9
<1> QED
  BY <1>1, <1>3, <1>7, <1>10 DEF Wires

\* A cell that moves keeps its place among the others.
LEMMA MovedFacts ==
  ASSUME NEW P \in Wires, NEW i \in Hops, NEW d \in Cell, NEW R, Moved(R, P, i, d)
  PROVE  /\ InOrder(P) => InOrder(R)
         /\ NoSetup(P) => NoSetup(R)
         /\ Lacks(P, "BEGIN") => Lacks(R, "BEGIN")
         /\ \A n \in Nat : From(P, n) => From(R, n)
         /\ \A n \in Nat : AllChunks(P, n) => AllChunks(R, n)
<1> DEFINE Old(j, k, x, y) == y \in 1 .. Len(P[x]) /\ R[j][k].cmd = P[x][y].cmd
                                /\ R[j][k].body = P[x][y].body
           Place(j, k, x, y) == \/ x = j /\ j # i /\ y = k
                                \/ x = i /\ j = i /\ y = k + 1
                                \/ x = i /\ j = i + 1 /\ y = 1 /\ k = Len(R[j])
<1>t. \A j \in Hops : Len(P[j]) \in Nat /\ Len(R[j]) \in Nat
  BY MovedCells DEF Wires
<1>d. /\ i + 1 \in Hops /\ 1 \in 1 .. Len(P[i]) /\ i < N
      /\ d.cmd = P[i][1].cmd /\ d.body = P[i][1].body /\ d.layers = Tail(P[i][1].layers)
  BY MovedCells DEF Moved
<1>m. ASSUME NEW j \in Hops, NEW k \in 1 .. Len(R[j])
      PROVE  \/ j \notin {i, i + 1} /\ k \in 1 .. Len(P[j]) /\ R[j][k] = P[j][k]
             \/ j = i /\ k + 1 \in 1 .. Len(P[i]) /\ R[j][k] = P[i][k + 1]
             \/ j = i + 1 /\ k \in 1 .. Len(P[j]) /\ R[j][k] = P[j][k]
             \/ j = i + 1 /\ k = Len(R[j]) /\ k = Len(P[j]) + 1 /\ R[j][k] = d
  BY MovedCells
<1>1. ASSUME NEW j \in Hops, NEW k \in 1 .. Len(R[j])
      PROVE  \E x \in Hops : \E y \in 1 .. Len(P[x]) : Old(j, k, x, y) /\ Place(j, k, x, y)
  <2>1. CASE j # i /\ k \in 1 .. Len(P[j]) /\ R[j][k] = P[j][k]
    BY <2>1
  <2>2. CASE j = i /\ k + 1 \in 1 .. Len(P[i]) /\ R[j][k] = P[i][k + 1]
    BY <2>2
  <2>3. CASE j = i + 1 /\ k = Len(R[j]) /\ k = Len(P[j]) + 1 /\ R[j][k] = d
    BY <1>d, <2>3
  <2> QED
    BY <1>m, <2>1, <2>2, <2>3 DEF Hops
<1>2. ASSUME InOrder(P)
      PROVE  InOrder(R)
  <2> SUFFICES ASSUME NEW j \in Hops, NEW m \in Hops,
                      NEW k \in 1 .. Len(R[j]), NEW l \in 1 .. Len(R[m]),
                      j > m \/ (j = m /\ k < l)
               PROVE  Ahead(R[j][k], R[m][l])
    BY DEF InOrder
  <2>a. PICK x \in Hops : \E y \in 1 .. Len(P[x]) : Old(j, k, x, y) /\ Place(j, k, x, y)
    BY <1>1
  <2>1. PICK y \in 1 .. Len(P[x]) : Old(j, k, x, y) /\ Place(j, k, x, y)
    BY <2>a
  <2>b. PICK u \in Hops : \E v \in 1 .. Len(P[u]) : Old(m, l, u, v) /\ Place(m, l, u, v)
    BY <1>1
  <2>2. PICK v \in 1 .. Len(P[u]) : Old(m, l, u, v) /\ Place(m, l, u, v)
    BY <2>b
  <2>3. x > u \/ (x = u /\ y < v)
    BY SMTT(30), <1>t, <2>1, <2>2 DEF Hops
  <2>4. Ahead(P[x][y], P[u][v])
    BY <1>2, <2>3 DEF InOrder
  <2> QED
    BY <2>1, <2>2, <2>4 DEF Ahead
<1>3. ASSUME NoSetup(P)
      PROVE  NoSetup(R)
  <2> SUFFICES ASSUME NEW j \in Hops, NEW k \in 1 .. Len(R[j])
               PROVE  R[j][k].cmd \notin Setup
    BY DEF NoSetup
  <2>a. PICK x \in Hops : \E y \in 1 .. Len(P[x]) : Old(j, k, x, y) /\ Place(j, k, x, y)
    BY <1>1
  <2>1. PICK y \in 1 .. Len(P[x]) : Old(j, k, x, y)
    BY <2>a
  <2> QED
    BY <1>3, <2>1 DEF NoSetup
<1>b. ASSUME Lacks(P, "BEGIN")
      PROVE  Lacks(R, "BEGIN")
  <2> SUFFICES ASSUME NEW j \in Hops, NEW k \in 1 .. Len(R[j])
               PROVE  R[j][k].cmd # "BEGIN"
    BY DEF Lacks
  <2>a. PICK x \in Hops : \E y \in 1 .. Len(P[x]) : Old(j, k, x, y) /\ Place(j, k, x, y)
    BY <1>1
  <2>1. PICK y \in 1 .. Len(P[x]) : Old(j, k, x, y)
    BY <2>a
  <2> QED
    BY <1>b, <2>1 DEF Lacks
<1>4. ASSUME NEW n \in Nat, From(P, n)
      PROVE  From(R, n)
  <2> SUFFICES ASSUME NEW j \in Hops, NEW k \in 1 .. Len(R[j]), R[j][k].cmd = "DATA"
               PROVE  R[j][k].body.no > n
    BY DEF From
  <2>a. PICK x \in Hops : \E y \in 1 .. Len(P[x]) : Old(j, k, x, y) /\ Place(j, k, x, y)
    BY <1>1
  <2>1. PICK y \in 1 .. Len(P[x]) : Old(j, k, x, y)
    BY <2>a
  <2> QED
    BY <1>4, <2>1 DEF From
<1>5. ASSUME NEW n \in Nat, AllChunks(P, n)
      PROVE  AllChunks(R, n)
  <2> SUFFICES ASSUME NEW j \in Hops, NEW k \in 1 .. Len(R[j])
               PROVE  ChunkCell(j, R[j][k], n)
    BY DEF AllChunks
  <2>1. ASSUME NEW y \in 1 .. Len(P[j]), R[j][k] = P[j][y]
        PROVE  ChunkCell(j, R[j][k], n)
    BY <1>5, <2>1 DEF AllChunks
  <2>2. ASSUME j = i + 1, R[j][k] = d, d.cmd = "DATA"
        PROVE  ChunkCell(j, R[j][k], n)
    <3> DEFINE no == d.body.no
    <3>2. ChunkCell(i, P[i][1], n)
      BY <1>5, <1>d DEF AllChunks
    <3>3. no \in 1 .. n /\ d.body = App(no) /\ d.layers = Tail(Onion(i, no - 1))
      BY <1>d, <2>2, <3>2 DEF ChunkCell
    <3>4. no - 1 \in Nat
      BY <3>3
    <3> HIDE DEF no
    <3>5. Tail(Onion(i, no - 1)) = Onion(j, no - 1)
      BY <1>d, <2>2, <3>4, PeelOnion
    <3> QED
      BY <2>2, <3>3, <3>5 DEF ChunkCell, no
  <2>3. d.cmd # "DATA" => ChunkCell(j, d, n)
    BY DEF ChunkCell
  <2> QED
    BY <1>m, <2>1, <2>2, <2>3
<1> QED
  BY <1>2, <1>3, <1>b, <1>4, <1>5

\* The client writes a chunk behind all the others, or a BEGIN before any chunk.
LEMMA AppendedFacts ==
  ASSUME NEW P \in Wires, NEW c \in Cell, NEW n \in Nat, InOrder(P), AllChunks(P, n),
         \/ c.cmd = "DATA" /\ c.body = App(n + 1) /\ c.layers = Onion(1, n)
         \/ c.cmd \in Setup /\ n = 0 /\ Lacks(P, "BEGIN"),
         NEW R, R[1] = Append(P[1], c), \A h \in Hops \ {1} : R[h] = P[h]
  PROVE  /\ InOrder(R)
         /\ c.cmd = "DATA" => AllChunks(R, n + 1)
         /\ c.cmd # "DATA" => AllChunks(R, n)
         /\ c.cmd # "BEGIN" /\ Lacks(P, "BEGIN") => Lacks(R, "BEGIN")
         /\ \A m \in 0 .. n : From(P, m) => From(R, m)
<1>0. 1 \in Hops /\ (c.cmd \in Setup => c.cmd # "DATA")
  BY DEF Hops, Setup
<1>1. ASSUME NEW j \in Hops, NEW k \in 1 .. Len(R[j])
      PROVE  \/ k \in 1 .. Len(P[j]) /\ R[j][k] = P[j][k]
             \/ j = 1 /\ k = Len(R[j]) /\ k = Len(P[j]) + 1 /\ R[j][k] = c
  <2>1. CASE j = 1
    <3>1. R[j] = Append(P[j], c) /\ P[j] \in Seq(Cell)
      BY <2>1 DEF Wires
    <3> QED
      BY SMTT(30), <2>1, <3>1
  <2>2. CASE j # 1
    BY <2>2 DEF Wires
  <2> QED
    BY <2>1, <2>2
<1>t. \A j \in Hops : Len(P[j]) \in Nat
  BY DEF Wires
<1>c. c.cmd = "DATA" => c.body.no = n + 1
  BY <1>0 DEF App
<1>p. ASSUME NEW j \in Hops, NEW k \in 1 .. Len(P[j])
      PROVE  ChunkCell(j, P[j][k], n)
  BY DEF AllChunks
<1>2. InOrder(R)
  <2> SUFFICES ASSUME NEW i \in Hops, NEW j \in Hops,
                      NEW k \in 1 .. Len(R[i]), NEW l \in 1 .. Len(R[j]),
                      i > j \/ (i = j /\ k < l)
               PROVE  Ahead(R[i][k], R[j][l])
    BY DEF InOrder
  <2>1. k \in 1 .. Len(P[i]) /\ R[i][k] = P[i][k]
    BY SMTT(30), <1>1, <1>t DEF Hops
  <2>2. CASE l \in 1 .. Len(P[j]) /\ R[j][l] = P[j][l]
    BY <2>1, <2>2 DEF InOrder
  <2>3. CASE R[j][l] = c
    <3>1. ChunkCell(i, R[i][k], n)
      BY <1>p, <2>1
    <3>2. R[i][k].cmd = "DATA" => R[i][k].body.no \in 1 .. n
      BY <3>1 DEF ChunkCell
    <3>3. R[i][k].cmd = "DATA" => c.cmd \notin Setup
      BY SMTT(30), <1>0, <3>2
    <3>b. R[i][k].cmd = "BEGIN" => c.cmd \notin Setup
      BY <1>0, <2>1 DEF Lacks, Setup
    <3>4. R[i][k].cmd = "DATA" /\ c.cmd = "DATA" => R[i][k].body.no < c.body.no
      BY SMTT(30), <1>c, <3>2
    <3>5. Ahead(R[i][k], c)
      BY <3>3, <3>4, <3>b DEF Ahead
    <3> QED
      BY <2>3, <3>5
  <2> QED
    BY <1>1, <2>2, <2>3
<1>3. ASSUME NEW m, m = IF c.cmd = "DATA" THEN n + 1 ELSE n
      PROVE  AllChunks(R, m)
  <2> SUFFICES ASSUME NEW i \in Hops, NEW k \in 1 .. Len(R[i]), R[i][k].cmd = "DATA"
               PROVE  ChunkCell(i, R[i][k], m)
    BY DEF AllChunks, ChunkCell
  <2>1. CASE k \in 1 .. Len(P[i]) /\ R[i][k] = P[i][k]
    <3>1. ChunkCell(i, R[i][k], n)
      BY <1>p, <2>1
    <3>2. R[i][k].body.no \in 1 .. m
      BY <1>3, <3>1 DEF ChunkCell
    <3> QED
      BY <3>1, <3>2 DEF ChunkCell
  <2>2. CASE i = 1 /\ R[i][k] = c
    <3>1. c.cmd = "DATA" /\ m = n + 1 /\ c.body = App(n + 1) /\ c.layers = Onion(1, n)
      BY <1>0, <1>3, <2>2
    <3>2. (n + 1) - 1 = n /\ n + 1 \in 1 .. n + 1
      OBVIOUS
    <3> QED
      BY <1>c, <2>2, <3>1, <3>2 DEF ChunkCell
  <2> QED
    BY <1>1, <2>1, <2>2
<1>4. ASSUME NEW m \in 0 .. n, From(P, m)
      PROVE  From(R, m)
  <2>1. n + 1 > m
    OBVIOUS
  <2> SUFFICES ASSUME NEW j \in Hops, NEW k \in 1 .. Len(R[j]), R[j][k].cmd = "DATA"
               PROVE  R[j][k].body.no > m
    BY DEF From
  <2>2. CASE k \in 1 .. Len(P[j]) /\ R[j][k] = P[j][k]
    BY <1>4, <2>2 DEF From
  <2>3. CASE R[j][k] = c
    BY <1>c, <2>1, <2>3
  <2> QED
    BY <1>1, <2>2, <2>3
<1>5. ASSUME c.cmd # "BEGIN", Lacks(P, "BEGIN"), NEW j \in Hops, NEW k \in 1 .. Len(R[j])
      PROVE  R[j][k].cmd # "BEGIN"
  BY SMTT(30), <1>1, <1>5 DEF Lacks
<1> QED
  BY <1>2, <1>3, <1>4, <1>5 DEF Lacks

\* A chunk sets nothing up.
LEMMA AppendedSetup ==
  ASSUME NEW P \in Wires, NEW c \in Cell, c.cmd = "DATA", NoSetup(P),
         NEW R, R[1] = Append(P[1], c), \A h \in Hops \ {1} : R[h] = P[h]
  PROVE  NoSetup(R)
<1>0. 1 \in Hops /\ c.cmd \notin Setup
  BY DEF Hops, Setup
<1>1. ASSUME NEW j \in Hops, NEW k \in 1 .. Len(R[j])
      PROVE  R[j][k].cmd \notin Setup
  <2>1. CASE j = 1
    <3>1. R[j] = Append(P[j], c) /\ P[j] \in Seq(Cell)
      BY <2>1 DEF Wires
    <3>2. (k \in 1 .. Len(P[j]) /\ R[j][k] = P[j][k]) \/ R[j][k] = c
      BY <3>1
    <3> QED
      BY <1>0, <3>2 DEF NoSetup
  <2>2. CASE j # 1
    BY <2>2 DEF Wires, NoSetup
  <2> QED
    BY <2>1, <2>2
<1> QED
  BY <1>1 DEF NoSetup
-----------------------------------------------------------------------------
(***************************************************************************)
(* What the steps do to the way down.                                      *)
(***************************************************************************)
LEMMA PipesType ==
  ASSUME NEW D \in Wires, NEW J \in Jobs
  PROVE  Pipes(D, J) \in Wires
<1> SUFFICES ASSUME NEW i \in Hops
             PROVE  (IF InHand(J[i]["up"]) THEN <<J[i]["up"].cell>> \o D[i] ELSE D[i]) \in Seq(Cell)
  BY DEF Pipes, Wires
<1>1. J[i]["up"].cell \in Cell /\ D[i] \in Seq(Cell)
  BY DEF Jobs, Job, Sides, Wires
<1>2. <<J[i]["up"].cell>> \o D[i] \in Seq(Cell)
  BY <1>1, Prepend
<1> QED
  BY <1>1, <1>2

\* A goroutine that has a cell in hand has the first one.
LEMMA PipeHead ==
  ASSUME NEW D \in Wires, NEW J \in Jobs, NEW i \in Hops, InHand(J[i]["up"])
  PROVE  /\ Pipes(D, J)[i] \in Seq(Cell) /\ Len(Pipes(D, J)[i]) = Len(D[i]) + 1
         /\ Pipes(D, J)[i][1] = J[i]["up"].cell
         /\ \A k \in 1 .. Len(D[i]) : Pipes(D, J)[i][k + 1] = D[i][k]
<1> DEFINE c == J[i]["up"].cell
<1>1. c \in Cell /\ D[i] \in Seq(Cell)
  BY DEF Jobs, Job, Sides, Wires
<1>2. Pipes(D, J)[i] = <<c>> \o D[i]
  BY DEF Pipes
<1> HIDE DEF c
<1> QED
  BY <1>1, <1>2, Prepend DEF c

\* Without it, what is left is what the connection holds.
LEMMA PipeRest ==
  ASSUME NEW D \in Wires, NEW J \in Jobs, NEW i \in Hops, InHand(J[i]["up"])
  PROVE  /\ Pipes(D, J)[i] # <<>> /\ Head(Pipes(D, J)[i]) = J[i]["up"].cell
         /\ Tail(Pipes(D, J)[i]) = D[i]
<1> DEFINE c == J[i]["up"].cell
<1>1. PICK q : q = Pipes(D, J)[i]
  OBVIOUS
<1>2. D[i] \in Seq(Cell)
  BY DEF Wires
<1>3. /\ q \in Seq(Cell) /\ Len(q) = Len(D[i]) + 1 /\ q[1] = c
      /\ \A k \in 1 .. Len(D[i]) : q[k + 1] = D[i][k]
  BY <1>1, PipeHead
<1> HIDE DEF c
<1>4. q # <<>> /\ Head(q) = q[1]
  BY <1>2, <1>3
<1>5. Tail(q) = D[i]
  <2>1. /\ Tail(q) \in Seq(Cell) /\ Len(Tail(q)) = Len(D[i])
        /\ \A k \in 1 .. Len(D[i]) : Tail(q)[k] = q[k + 1]
    BY <1>2, <1>3, <1>4
  <2>2. \A k \in 1 .. Len(D[i]) : Tail(q)[k] = D[i][k]
    BY <1>3, <2>1
  <2> QED
    BY <1>2, <2>1, <2>2, SeqEqual
<1> QED
  BY <1>1, <1>3, <1>4, <1>5 DEF c

\* What the connection holds is the way down without the cell in hand.
LEMMA PipeTail ==
  ASSUME NEW D \in Wires, NEW J \in Jobs, NEW i \in Hops, InHand(J[i]["up"])
  PROVE  Within(D[i], Pipes(D, J)[i], 1)
<1>1. PICK q : q = Pipes(D, J)[i]
  OBVIOUS
<1>2. Len(q) = Len(D[i]) + 1 /\ \A k \in 1 .. Len(D[i]) : q[k + 1] = D[i][k]
  BY <1>1, PipeHead
<1>3. Len(D[i]) \in Nat
  BY DEF Wires
<1> QED
  BY <1>1, <1>2, <1>3 DEF Within

\* Without a cell in hand the way down is what the connection holds.
LEMMA PipeFree ==
  ASSUME NEW D, NEW J, NEW i \in Hops, ~InHand(J[i]["up"])
  PROVE  Pipes(D, J)[i] = D[i]
BY DEF Pipes

\* E is D after a goroutine has read, or after cells at the end were lost or came that
\* are free; what is behind a cell in hand keeps its place.
Lessened(E, D, J) ==
  \A i \in Hops : \/ Within(E[i], D[i], 0)
                  \/ ~InHand(J[i]["up"]) /\ Within(E[i], D[i], 1)

\* A connection that got shorter makes the way down shorter.
LEMMA LessThin ==
  ASSUME NEW D \in Wires, NEW E \in Wires, NEW J \in Jobs, Lessened(E, D, J)
  PROVE  Thinned(Pipes(E, J), Pipes(D, J))
<1> SUFFICES ASSUME NEW i \in Hops
             PROVE  \E a \in {0, 1} : Within(Pipes(E, J)[i], Pipes(D, J)[i], a)
  BY DEF Thinned
<1>1. CASE ~InHand(J[i]["up"])
  <2>1. Pipes(E, J)[i] = E[i] /\ Pipes(D, J)[i] = D[i]
    BY <1>1, PipeFree
  <2> QED
    BY <2>1 DEF Lessened
<1>2. CASE InHand(J[i]["up"])
  <2> DEFINE c == J[i]["up"].cell
  <2>1. Within(E[i], D[i], 0)
    BY <1>2 DEF Lessened
  <2>2. PICK r : r = Pipes(E, J)[i]
    OBVIOUS
  <2>3. PICK q : q = Pipes(D, J)[i]
    OBVIOUS
  <2>4. Len(r) = Len(E[i]) + 1 /\ r[1] = c /\ \A k \in 1 .. Len(E[i]) : r[k + 1] = E[i][k]
    BY <1>2, <2>2, PipeHead
  <2>5. Len(q) = Len(D[i]) + 1 /\ q[1] = c /\ \A k \in 1 .. Len(D[i]) : q[k + 1] = D[i][k]
    BY <1>2, <2>3, PipeHead
  <2>6. Len(E[i]) \in Nat /\ Len(D[i]) \in Nat
    BY DEF Wires
  <2> HIDE DEF c
  <2>7. ASSUME NEW k \in 1 .. Len(r)
        PROVE  Free(r[k]) \/ (k + 0 \in 1 .. Len(q) /\ r[k] = q[k + 0])
    <3>1. CASE k = 1
      BY <2>4, <2>5, <2>6, <3>1
    <3>2. CASE k # 1
      <4>1. PICK m \in 1 .. Len(E[i]) : k = m + 1
        <5>1. k - 1 \in 1 .. Len(E[i]) /\ k = (k - 1) + 1
          BY <2>4, <2>6, <3>2
        <5> QED
          BY <5>1
      <4>2. r[k] = E[i][m]
        BY <2>4, <4>1
      <4>3. Free(E[i][m]) \/ (m \in 1 .. Len(D[i]) /\ E[i][m] = D[i][m])
        BY <2>1, <2>6 DEF Within
      <4> QED
        BY <2>5, <2>6, <4>1, <4>2, <4>3
    <3> QED
      BY <3>1, <3>2
  <2> QED
    BY <2>2, <2>3, <2>7 DEF Within
<1> QED
  BY <1>1, <1>2

\* A queue is within itself.
LEMMA WithinSelf ==
  ASSUME NEW q \in Seq(Cell)
  PROVE  Within(q, q, 0)
BY DEF Within

\* A queue that was read from is within the one it was.
LEMMA WithinTail ==
  ASSUME NEW q \in Seq(Cell), q # <<>>
  PROVE  Within(Tail(q), q, 1)
<1>1. Len(Tail(q)) = Len(q) - 1 /\ Len(q) \in Nat
  OBVIOUS
<1>2. \A k \in 1 .. Len(q) - 1 : Tail(q)[k] = q[k + 1]
  OBVIOUS
<1> QED
  BY <1>1, <1>2 DEF Within

\* A free cell may join.
LEMMA WithinAppend ==
  ASSUME NEW q, NEW r \in Seq(Cell), NEW a \in {0, 1}, Within(r, q, a), NEW c \in Cell, Free(c)
  PROVE  Within(Append(r, c), q, a)
<1> DEFINE s == Append(r, c)
<1>1. Len(s) = Len(r) + 1 /\ s[Len(r) + 1] = c /\ \A k \in 1 .. Len(r) : s[k] = r[k]
  OBVIOUS
<1>2. Len(r) \in Nat
  OBVIOUS
<1> HIDE DEF s
<1>3. Within(s, q, a)
  BY SMTT(30), <1>1, <1>2 DEF Within
<1> QED
  BY <1>3 DEF s

\* Connections that nobody touches have lost nothing.
LEMMA LessSame ==
  ASSUME NEW D \in Wires, NEW J
  PROVE  Lessened(D, D, J)
BY WithinSelf DEF Lessened, Wires

\* A goroutine reads its next cell.
LEMMA LessRead ==
  ASSUME TypeOK, NEW i \in Hops, NEW s \in Sides, NEW cmds, Reads(i, s, cmds)
  PROVE  Lessened(DnRead(i, s), dn, job)
<1>1. CASE s = "up"
  <2>1. ~InHand(job[i]["up"]) /\ dn[i] # <<>> /\ DnRead(i, s) = [dn EXCEPT ![i] = Tail(@)]
    BY <1>1 DEF Reads, Serves, Inbox, InHand, DnRead
  <2>2. dn \in [Hops -> Seq(Cell)]
    BY DEF TypeOK, Wires
  <2>3. Within(Tail(dn[i]), dn[i], 1) /\ \A h \in Hops : Within(dn[h], dn[h], 0)
    BY <2>1, <2>2, WithinTail, WithinSelf
  <2> QED
    BY <2>1, <2>2, <2>3 DEF Lessened
<1>2. CASE s = "down"
  <2>1. DnRead(i, s) = dn
    BY <1>2 DEF DnRead
  <2> QED
    BY <2>1, LessSame DEF TypeOK
<1> QED
  BY <1>1, <1>2 DEF Sides

\* Somebody writes a free cell.
LEMMA LessPut ==
  ASSUME NEW D \in Wires, NEW E \in Wires, NEW J, Lessened(E, D, J),
         NEW i \in 0 .. N - 1, NEW c \in Cell, Free(c)
  PROVE  Lessened(PutDown(E, i, c), D, J)
<1>1. i + 1 \in Hops /\ E \in [Hops -> Seq(Cell)]
  BY DEF Wires, Hops
<1>2. ASSUME NEW h \in Hops, NEW a \in {0, 1}, Within(E[h], D[h], a)
      PROVE  Within(Append(E[h], c), D[h], a)
  BY <1>1, <1>2, WithinAppend
<1>3. Lessened([E EXCEPT ![i+1] = Append(@, c)], D, J)
  BY <1>1, <1>2 DEF Lessened
<1> QED
  BY <1>3 DEF PutDown

\* A queue is emptied.
LEMMA LessClear ==
  ASSUME NEW D, NEW E, NEW F, NEW J, Lessened(E, D, J), \A i \in Hops : F[i] \in {E[i], <<>>}
  PROVE  Lessened(F, D, J)
<1>1. Len(<<>>) = 0
  OBVIOUS
<1>2. \A q : Within(<<>>, q, 0)
  BY <1>1 DEF Within
<1> QED
  BY <1>2 DEF Lessened

\* The cell in hand is dealt with and goes nowhere.
LEMMA DropHand ==
  ASSUME NEW D \in Wires, NEW J \in Jobs, NEW K, NEW i \in Hops, NEW k, ~InHand(k),
         K = [J EXCEPT ![i]["up"] = k]
  PROVE  Thinned(Pipes(D, K), Pipes(D, J))
<1> SUFFICES ASSUME NEW h \in Hops
             PROVE  \E a \in {0, 1} : Within(Pipes(D, K)[h], Pipes(D, J)[h], a)
  BY DEF Thinned
<1>1. K[h]["up"] = IF h = i THEN k ELSE J[h]["up"]
  BY DEF Jobs, Sides
<1>2. Pipes(D, J)[h] \in Seq(Cell) /\ D[h] \in Seq(Cell)
  BY PipesType DEF Wires
<1>3. CASE h = i
  <2>0. ~InHand(K[h]["up"])
    BY <1>1, <1>3
  <2>1. Pipes(D, K)[h] = D[h]
    BY <2>0, PipeFree
  <2>2. CASE InHand(J[h]["up"])
    <3>1. Within(D[h], Pipes(D, J)[h], 1)
      BY <2>2, PipeTail
    <3> QED
      BY <2>1, <3>1
  <2>3. CASE ~InHand(J[h]["up"])
    <3>1. Pipes(D, J)[h] = D[h]
      BY <2>3, PipeFree
    <3> QED
      BY <1>2, <2>1, <3>1, WithinSelf
  <2> QED
    BY <2>2, <2>3
<1>4. CASE h # i
  <2>1. Pipes(D, K)[h] = Pipes(D, J)[h]
    BY <1>1, <1>4 DEF Pipes
  <2> QED
    BY <1>2, <2>1, WithinSelf
<1> QED
  BY <1>3, <1>4

\* The goroutine takes the first cell in hand.
LEMMA TakeHand ==
  ASSUME NEW D \in Wires, NEW J \in Jobs, NEW i \in Hops, ~InHand(J[i]["up"]), D[i] # <<>>, NEW E, NEW K,
         E[i] = Tail(D[i]), \A h \in Hops \ {i} : E[h] = D[h],
         InHand(K[i]["up"]), K[i]["up"].cell = Head(D[i]),
         \A h \in Hops \ {i} : K[h]["up"] = J[h]["up"]
  PROVE  Pipes(E, K) = Pipes(D, J)
<1> DEFINE q == D[i]
<1>1. q \in Seq(Cell) /\ q # <<>> /\ E[i] = Tail(q) /\ \A h \in Hops \ {i} : E[h] = D[h]
  BY DEF Wires
<1>2. InHand(K[i]["up"]) /\ \A h \in Hops \ {i} : K[h]["up"] = J[h]["up"]
  BY DEF Jobs, Sides
<1>3. K[i]["up"].cell = Head(q)
  OBVIOUS
<1> HIDE DEF q
<1>4. <<Head(q)>> \o Tail(q) = q
  <2>0. Head(q) \in Cell /\ Tail(q) \in Seq(Cell)
    BY <1>1
  <2>1. PICK e \in Cell : e = Head(q)
    BY <2>0
  <2>2. PICK r \in Seq(Cell) : r = Tail(q)
    BY <2>0
  <2>3. /\ Len(r) = Len(q) - 1 /\ Len(q) \in Nat /\ e = q[1] /\ Len(q) >= 1
        /\ \A m \in 1 .. Len(r) : r[m] = q[m + 1]
    BY <1>1, <2>1, <2>2
  <2>4. PICK t : t = <<e>> \o r
    OBVIOUS
  <2>5. /\ t \in Seq(Cell) /\ Len(t) = Len(r) + 1 /\ t[1] = e
        /\ \A m \in 1 .. Len(r) : t[m + 1] = r[m]
    BY <2>4, Prepend
  <2>6. ASSUME NEW m \in 1 .. Len(t)
        PROVE  t[m] = q[m]
    <3>1. CASE m = 1
      BY <2>3, <2>5, <3>1
    <3>2. CASE m # 1
      <4>1. m - 1 \in 1 .. Len(r) /\ (m - 1) + 1 = m
        BY <2>3, <2>5, <3>2
      <4> QED
        BY ZenonT(40), <2>3, <2>5, <4>1
    <3> QED
      BY <3>1, <3>2
  <2>7. Len(t) = Len(q)
    BY <2>3, <2>5
  <2>8. t = q
    BY <1>1, <2>5, <2>6, <2>7, SeqEqual
  <2> QED
    BY <2>1, <2>2, <2>4, <2>8
<1>5. ASSUME NEW h \in Hops
      PROVE  Pipes(E, K)[h] = Pipes(D, J)[h]
  <2>1. CASE h = i
    BY <1>1, <1>2, <1>3, <1>4, <2>1 DEF Pipes, q
  <2>2. CASE h # i
    BY <1>1, <1>2, <2>2 DEF Pipes
  <2> QED
    BY <2>1, <2>2
<1> QED
  BY <1>5 DEF Pipes

\* Writing to a connection extends the way down at its end.
LEMMA PipeAppend ==
  ASSUME NEW D \in Wires, NEW J \in Jobs, NEW i \in Hops, NEW c \in Cell,
         NEW E, E[i] = Append(D[i], c), NEW K, K[i]["up"] = J[i]["up"]
  PROVE  Pipes(E, K)[i] = Append(Pipes(D, J)[i], c)
<1>1. D[i] \in Seq(Cell)
  BY DEF Wires
<1>2. CASE ~InHand(J[i]["up"])
  BY <1>2 DEF Pipes
<1>3. CASE InHand(J[i]["up"])
  <2>1. PICK e \in Cell : e = J[i]["up"].cell
    BY DEF Jobs, Job, Sides
  <2>2. Pipes(E, K)[i] = <<e>> \o Append(D[i], c) /\ Pipes(D, J)[i] = <<e>> \o D[i]
    BY <1>3, <2>1 DEF Pipes
  <2>3. \A q \in Seq(Cell) : <<e>> \o Append(q, c) = Append(<<e>> \o q, c)
    OBVIOUS
  <2> QED
    BY <1>1, <2>2, <2>3
<1> QED
  BY <1>2, <1>3

\* The same for the way down as a whole.
LEMMA PipeAppended ==
  ASSUME NEW D \in Wires, NEW J \in Jobs, NEW i \in Hops, NEW c \in Cell,
         NEW E, E[i] = Append(D[i], c), \A h \in Hops \ {i} : E[h] = D[h],
         NEW K, \A h \in Hops : K[h]["up"] = J[h]["up"]
  PROVE  /\ Pipes(E, K)[i] = Append(Pipes(D, J)[i], c)
         /\ \A h \in Hops \ {i} : Pipes(E, K)[h] = Pipes(D, J)[h]
<1>1. K[i]["up"] = J[i]["up"]
  OBVIOUS
<1>2. Pipes(E, K)[i] = Append(Pipes(D, J)[i], c)
  BY <1>1, PipeAppend
<1>3. \A h \in Hops \ {i} : Pipes(E, K)[h] = Pipes(D, J)[h]
  BY DEF Pipes
<1> QED
  BY <1>2, <1>3

\* A relay passes its first cell on, from its hand or from connection i.
LEMMA MovePipes ==
  ASSUME NEW D \in Wires, NEW J \in Jobs, NEW i \in Hops, i < N, NEW c \in Cell,
         Pipes(D, J)[i] # <<>>, Head(Pipes(D, J)[i]) = c, NEW d \in Cell, d = Peel(c),
         NEW E, Tail(Pipes(D, J)[i]) = E[i], E[i + 1] = Append(D[i + 1], d),
         \A h \in Hops \ {i, i + 1} : E[h] = D[h],
         NEW K, ~InHand(K[i]["up"]), \A h \in Hops \ {i} : K[h]["up"] = J[h]["up"]
  PROVE  Moved(Pipes(E, K), Pipes(D, J), i, d)
<1> DEFINE P == Pipes(D, J)
           R == Pipes(E, K)
<1>1. i + 1 \in Hops /\ i + 1 # i
  BY DEF Hops
<1>2. P \in [Hops -> Seq(Cell)]
  BY PipesType DEF Wires
<1>3. d.cmd = c.cmd /\ d.body = c.body /\ d.layers = Tail(c.layers)
  BY DEF Peel, Cell
<1>4. R[i] = E[i]
  BY DEF Pipes
<1>5. K[i + 1]["up"] = J[i + 1]["up"]
  BY <1>1
<1>6. R[i + 1] = Append(P[i + 1], d)
  BY <1>1, <1>5, PipeAppend
<1>7. ASSUME NEW h \in Hops \ {i, i + 1}
      PROVE  R[h] = P[h]
  BY DEF Pipes
<1>8. R = [h \in Hops |-> R[h]]
  BY DEF Pipes
<1>9. P[i] # <<>> /\ Head(P[i]) = c /\ Tail(P[i]) = E[i]
  OBVIOUS
<1> HIDE DEF P, R
<1>10. R = [P EXCEPT ![i] = Tail(@), ![i + 1] = Append(@, d)]
  <2>1. PICK G : G = [P EXCEPT ![i] = Tail(@), ![i + 1] = Append(@, d)]
    OBVIOUS
  <2>2. /\ G = [h \in Hops |-> G[h]] /\ G[i] = Tail(P[i]) /\ G[i + 1] = Append(P[i + 1], d)
        /\ \A h \in Hops \ {i, i + 1} : G[h] = P[h]
    BY <1>1, <1>2, <2>1
  <2>3. \A h \in Hops : G[h] = R[h]
    BY <1>4, <1>6, <1>7, <1>9, <2>2
  <2>4. G = R
    BY <1>8, <2>2, <2>3
  <2> QED
    BY <2>1, <2>4
<1>11. Moved(R, P, i, d)
  BY <1>3, <1>9, <1>10 DEF Moved
<1> QED
  BY <1>11 DEF P, R
-----------------------------------------------------------------------------
(***************************************************************************)
(* What comes back up stays apart from what goes down.                     *)
(***************************************************************************)
LEMMA BackTail ==
  ASSUME NEW U \in Wires, BackCells(U), NEW i \in Hops, U[i] # <<>>
  PROVE  BackCells([U EXCEPT ![i] = Tail(@)]) /\ BackCell(i, Head(U[i]))
<1> DEFINE V == [U EXCEPT ![i] = Tail(@)]
<1>1. U[i] \in Seq(Cell) /\ V[i] = Tail(U[i]) /\ \A h \in Hops \ {i} : V[h] = U[h]
  BY DEF Wires
<1>2. /\ Len(Tail(U[i])) = Len(U[i]) - 1 /\ Len(U[i]) \in Nat
      /\ \A k \in 1 .. Len(U[i]) - 1 : Tail(U[i])[k] = U[i][k + 1]
      /\ Head(U[i]) = U[i][1] /\ 1 \in 1 .. Len(U[i])
  BY <1>1
<1>3. ASSUME NEW j \in Hops, NEW k \in 1 .. Len(V[j])
      PROVE  BackCell(j, V[j][k])
  <2>1. CASE j = i
    <3>1. k \in 1 .. Len(U[i]) - 1 /\ V[j][k] = U[i][k + 1]
      BY <1>1, <1>2, <2>1
    <3>2. k + 1 \in 1 .. Len(U[i])
      BY <1>2, <3>1
    <3> QED
      BY <2>1, <3>1, <3>2 DEF BackCells
  <2>2. CASE j # i
    BY <1>1, <2>2 DEF BackCells
  <2> QED
    BY <2>1, <2>2
<1> HIDE DEF V
<1>4. BackCells(V)
  BY <1>3 DEF BackCells
<1> QED
  BY <1>2, <1>4 DEF BackCells, V

\* Writing towards the client a cell that comes back.
LEMMA BackPut ==
  ASSUME NEW U \in Wires, BackCells(U), NEW i \in Hops, NEW c \in Cell, BackCell(i, c)
  PROVE  BackCells(PutUp(U, i, c))
<1>1. U[i] \in Seq(Cell)
  BY DEF Wires
<1>2. ASSUME NEW j \in Hops, NEW k \in 1 .. Len([U EXCEPT ![i] = Append(@, c)][j])
      PROVE  BackCell(j, [U EXCEPT ![i] = Append(@, c)][j][k])
  <2>1. CASE j = i
    BY <1>1, <1>2, <2>1 DEF BackCells, Wires
  <2>2. CASE j # i
    BY <1>1, <1>2, <2>2 DEF BackCells, Wires
  <2> QED
    BY <2>1, <2>2
<1> QED
  BY <1>2 DEF BackCells, PutUp

\* Queues that are emptied hold none that does not.
LEMMA BackClear ==
  ASSUME NEW U, NEW V, BackCells(U), \A i \in Hops : V[i] \in {U[i], <<>>}
  PROVE  BackCells(V)
<1>1. Len(<<>>) = 0
  OBVIOUS
<1> QED
  BY <1>1 DEF BackCells

\* Control cells come back.
LEMMA BackControl ==
  ASSUME NEW i \in Hops, NEW c, c.cmd \in {"BEGIN_ACK", "END", "DESTROY"}
  PROVE  BackCell(i, c)
BY DEF BackCell, Setup

\* The exit writes a control cell.
LEMMA BackExit ==
  ASSUME TypeOK, BackCells(up), NEW cmd \in {"BEGIN_ACK", "END", "DESTROY"}, NEW sid \in {0, 1}
  PROVE  BackCells(PutUp(up, N, Control(cmd, sid)))
<1>1. N \in Hops /\ up \in Wires
  BY DEF Hops, TypeOK
<1>2. Control(cmd, sid) \in Cell /\ Control(cmd, sid).cmd = cmd
  <2>1. cmd \in Cmd
    BY DEF Cmd
  <2> QED
    BY <2>1, ControlType DEF Control
<1>3. BackCell(N, Control(cmd, sid))
  BY <1>1, <1>2, BackControl
<1> QED
  BY <1>1, <1>2, <1>3, BackPut

\* A sealed cell.
LEMMA BackSeal ==
  ASSUME NEW c \in Cell, NEW i \in Hops, NEW n \in Nat, c.cmd = "DATA"
  PROVE  BackCell(i, Seal(c, i, n)) /\ Seal(c, i, n) \in Cell
<1> DEFINE e == [hop |-> i, ctr |-> n]
<1>1. Seal(c, i, n) \in Cell /\ Seal(c, i, n).cmd = "DATA" /\ Seal(c, i, n).layers = <<e>> \o c.layers
  BY SealType DEF Seal, Cell
<1>2. e \in Layer /\ e.hop = i /\ c.layers \in Seq(Layer)
  BY DEF Layer, Cell
<1> HIDE DEF e
<1>3. (<<e>> \o c.layers)[1] = e /\ <<e>> \o c.layers # <<>>
  <2>1. PICK q : q = <<e>> \o c.layers
    OBVIOUS
  <2>2. q \in Seq(Layer) /\ Len(q) = Len(c.layers) + 1 /\ q[1] = e
    BY <1>2, <2>1, Prepend
  <2>3. Len(c.layers) \in Nat
    BY <1>2
  <2>4. q # <<>>
    BY <2>2, <2>3
  <2> QED
    BY <2>1, <2>2, <2>4
<1> QED
  BY <1>1, <1>2, <1>3 DEF BackCell, Setup

\* What a goroutine reads on its side "down" comes back.
LEMMA BackRead ==
  ASSUME TypeOK, BackCells(up), NEW i \in Hops, NEW s \in Sides, NEW cmds, Reads(i, s, cmds)
  PROVE  /\ BackCells(UpRead(i, s))
         /\ s = "down" => i < N /\ BackCell(i + 1, Head(Inbox(i, s)))
<1>1. CASE s = "up"
  BY <1>1 DEF UpRead
<1>2. CASE s = "down"
  <2>1. i < N /\ i + 1 \in Hops /\ up[i+1] # <<>> /\ Inbox(i, s) = up[i+1]
    BY <1>2 DEF Reads, Serves, Inbox, Hops
  <2>2. BackCells([up EXCEPT ![i+1] = Tail(@)]) /\ BackCell(i + 1, Head(up[i+1]))
    BY <2>1, BackTail DEF TypeOK
  <2> QED
    BY <1>2, <2>1, <2>2 DEF UpRead
<1> QED
  BY <1>1, <1>2 DEF Sides

\* A ServeConn goroutine on any relay.
LEMMA BackServeConn ==
  ASSUME TypeOK, Back, NEW i \in Hops, NEW s \in Sides, ServeConn(i, s)
  PROVE  Back'
<1> USE DEF wires, relays, exit, client, hist
<1> DEFINE c == Head(Inbox(i, s))
           j == job[i][s]
<1>0. /\ BackCells(up) /\ up \in Wires /\ j \in Job /\ BackJob(i, s, j)
      /\ \A h \in Hops, x \in Sides : BackJob(h, x, job[h][x])
  BY DEF Back, TypeOK, Jobs
<1>r. ASSUME NEW cmds, Reads(i, s, cmds)
      PROVE  /\ c \in Cell /\ c.cmd \in cmds
             /\ UpRead(i, s) \in Wires /\ BackCells(UpRead(i, s))
             /\ s = "down" => i < N /\ BackCell(i + 1, c)
  BY <1>r, <1>0, ReadsType, BackRead DEF Reads
<1>w. ASSUME BackCells(up'), job' = job
      PROVE  Back'
  BY <1>0, <1>w DEF Back
<1>j. ASSUME BackCells(up'), NEW k, job' = [job EXCEPT ![i][s] = k], BackJob(i, s, k)
      PROVE  Back'
  <2>1. ASSUME NEW h \in Hops, NEW x \in Sides
        PROVE  job'[h][x] = IF h = i /\ x = s THEN k ELSE job[h][x]
    BY <1>j DEF TypeOK, Jobs
  <2>2. ASSUME NEW h \in Hops, NEW x \in Sides
        PROVE  BackJob(h, x, job'[h][x])
    BY <1>0, <1>j, <2>1
  <2> QED
    BY <1>j, <2>2 DEF Back
<1>i. BackJob(i, s, Idle)
  BY DEF Idle, BackJob
<1> HIDE DEF c, j
<1>1. CASE ServeStop(i, s)
  <2>1. s = "down" => i + 1 \in Hops
    BY <1>1 DEF ServeStop, Serves, Hops
  <2>2. \A h \in Hops : up'[h] \in {up[h], <<>>}
    BY <1>0, <1>1, <2>1 DEF ServeStop, Wires
  <2> QED
    BY <1>0, <1>1, <1>w, <2>2, BackClear DEF ServeStop
<1>2. CASE ForwardSetup(i, s)
  BY <1>2, <1>r, <1>w DEF ForwardSetup
<1>3. CASE BeginAck(i, s)
  <2>1. c \in Cell /\ c.cmd = "BEGIN_ACK" /\ BackCells(UpRead(i, s)) /\ UpRead(i, s) \in Wires
    BY <1>3, <1>r DEF BeginAck
  <2>2. BackCells(PutUp(UpRead(i, s), i, c))
    BY <2>1, BackControl, BackPut
  <2> QED
    BY <1>3, <1>w, <2>2 DEF BeginAck, c
<1>4. CASE EndStream(i, s)
  BY <1>4, <1>r, <1>w DEF EndStream
<1>5. CASE EndCircuit(i, s)
  <2>1. BackCells(UpRead(i, s)) /\ UpRead(i, s) \in Wires
    BY <1>5, <1>r DEF EndCircuit
  <2>2. \A h \in Hops : up'[h] \in {UpRead(i, s)[h], <<>>}
    BY <1>5 DEF EndCircuit, Close
  <2>3. BackCells(up')
    BY <2>1, <2>2, BackClear
  <2> QED
    BY <1>5, <1>w, <2>3 DEF EndCircuit
<1>6. CASE TakeData(i, s)
  <2> DEFINE k == [pc |-> "open", cell |-> c, nonce |-> st[i].data]
  <2>1. /\ c.cmd = "DATA" /\ BackCells(UpRead(i, s))
        /\ s = "down" => i < N /\ BackCell(i + 1, c)
    BY <1>6, <1>r DEF TakeData
  <2>2. BackJob(i, s, k)
    BY <2>1 DEF BackJob
  <2>3. job' = [job EXCEPT ![i][s] = k] /\ BackCells(up')
    BY <1>6, <2>1 DEF TakeData, c
  <2> HIDE DEF k
  <2> QED
    BY <1>j, <2>2, <2>3
<1>7. CASE ForwardData(i, s)
  <2>1. job' = [job EXCEPT ![i][s] = Idle] /\ BackCells(up')
    BY <1>0, <1>7 DEF ForwardData
  <2> QED
    BY <1>i, <1>j, <2>1
<1>8. CASE FailData(i, s)
  <2> DEFINE k == [j EXCEPT !.pc = "seal", !.nonce = st[i].updata]
  <2>1. j.pc = "open" /\ BackCells(up') /\ job' = [job EXCEPT ![i][s] = IF HasDown(i) THEN k ELSE Idle]
    BY <1>0, <1>8 DEF FailData, j
  <2>2. k.pc = "seal" /\ k.cell = j.cell
    BY <1>0 DEF Job
  <2>3. BackJob(i, s, k)
    BY <1>0, <2>1, <2>2 DEF BackJob
  <2> HIDE DEF k
  <2>4. BackJob(i, s, IF HasDown(i) THEN k ELSE Idle)
    BY <1>i, <2>3
  <2> QED
    BY <1>j, <2>1, <2>4
<1>9. CASE SealData(i, s)
  <2>1. j.pc = "seal" /\ j.cell \in Cell /\ j.cell.cmd = "DATA" /\ j.nonce \in Nat
    BY <1>0, <1>9 DEF SealData, BackJob, Job, j
  <2>2. BackCell(i, Seal(j.cell, i, j.nonce)) /\ Seal(j.cell, i, j.nonce) \in Cell
    BY <2>1, BackSeal
  <2> DEFINE k == [j EXCEPT !.pc = "send", !.cell = Seal(j.cell, i, j.nonce)]
  <2>3. k.pc = "send" /\ k.cell = Seal(j.cell, i, j.nonce) /\ k.cell.cmd = "DATA"
    BY <1>0, <2>1 DEF Job, Seal, Cell
  <2>4. BackCells(up') /\ job' = [job EXCEPT ![i][s] = k]
    BY <1>0, <1>9 DEF SealData, j
  <2> HIDE DEF k
  <2>5. BackJob(i, s, k)
    BY <2>2, <2>3 DEF BackJob
  <2> QED
    BY <1>j, <2>4, <2>5
<1>10. CASE SendSealed(i, s)
  <2>1. j.cell \in Cell /\ BackCell(i, j.cell)
    BY <1>0, <1>10 DEF SendSealed, BackJob, Job, j
  <2>2. BackCells(PutUp(up, i, j.cell))
    BY <1>0, <2>1, BackPut
  <2>3. BackCells(up') /\ job' = [job EXCEPT ![i][s] = Idle]
    BY <1>0, <1>10, <2>2 DEF SendSealed, j
  <2> QED
    BY <1>i, <1>j, <2>3
<1> QED
  BY <1>1, <1>2, <1>3, <1>4, <1>5, <1>6, <1>7, <1>8, <1>9, <1>10 DEF ServeConn

\* What only the exit does.
LEMMA BackServeExit ==
  ASSUME TypeOK, Back, ServeExit
  PROVE  Back'
<1> USE DEF wires, relays, exit, client, hist
<1>0. /\ N \in Hops /\ "up" \in Sides /\ BackCells(up)
      /\ \A h \in Hops, x \in Sides : BackJob(h, x, job[h][x])
  BY DEF Back, Hops, Sides
<1>j. ASSUME BackCells(up'), NEW k, job' = [job EXCEPT ![N]["up"] = k], BackJob(N, "up", k)
      PROVE  Back'
  <2>1. ASSUME NEW h \in Hops, NEW x \in Sides
        PROVE  job'[h][x] = IF h = N /\ x = "up" THEN k ELSE job[h][x]
    BY <1>0, <1>j DEF TypeOK, Jobs
  <2>2. ASSUME NEW h \in Hops, NEW x \in Sides
        PROVE  BackJob(h, x, job'[h][x])
    BY <1>0, <1>j, <2>1
  <2> QED
    BY <1>j, <2>2 DEF Back
<1>i. BackJob(N, "up", Idle)
  BY DEF Idle, BackJob
<1>u. ASSUME NEW cmd \in {"BEGIN_ACK", "DESTROY"}, NEW sid \in {0, 1}
      PROVE  BackCells(PutUp(up, N, Control(cmd, sid)))
  BY <1>0, BackExit
<1>1. CASE StartDial
  <2> DEFINE k == [pc |-> "dial", cell |-> Head(dn[N]), nonce |-> 0]
  <2>1. Head(dn[N]).cmd \in Setup
    BY <1>1 DEF StartDial, Reads, Inbox, Setup
  <2>2. BackJob(N, "up", k)
    BY <2>1 DEF BackJob
  <2>3. (job' = [job EXCEPT ![N]["up"] = k] \/ job' = job) /\ BackCells(up')
    BY <1>0, <1>1 DEF StartDial
  <2> HIDE DEF k
  <2>4. job' = job => Back'
    BY <1>0, <2>3 DEF Back
  <2> QED
    BY <1>j, <2>2, <2>3, <2>4
<1>2. CASE Dialled \/ DialRefused \/ HiddenDialled \/ HiddenRefused
  <2>1. BackCells(up') /\ job' = [job EXCEPT ![N]["up"] = Idle]
    BY <1>0, <1>2, <1>u DEF Dialled, DialRefused, HiddenDialled, HiddenRefused, DialReturns
  <2> QED
    BY <1>i, <1>j, <2>1
<1>3. CASE BeginHidden
  <2>1. BackCells(up') /\ job' = job
    BY <1>0, <1>3, <1>u DEF BeginHidden
  <2> QED
    BY <1>0, <2>1 DEF Back
<1>4. CASE DeliverData
  <2>1. BackCells(up') /\ job' = [job EXCEPT ![N]["up"] = Idle]
    BY <1>0, <1>4, <1>u DEF DeliverData
  <2> QED
    BY <1>i, <1>j, <2>1
<1> QED
  BY <1>1, <1>2, <1>3, <1>4 DEF ServeExit

\* Every step keeps apart what comes back.
LEMMA BackNext ==
  ASSUME TypeOK, Back, Next
  PROVE  Back'
<1> USE DEF wires, relays, exit, client, hist
<1>0. N \in Hops /\ 1 \in Hops /\ BackCells(up) /\ up \in Wires
  BY DEF Back, Hops, TypeOK
<1>w. ASSUME BackCells(up'), job' = job
      PROVE  Back'
  BY <1>w DEF Back
<1>1. CASE Handler \/ SendData \/ AppCloses
  <2>1. up' = up /\ job' = job
    BY <1>1 DEF Handler, SendConnect, OpenStream, SendBegin, SendData, AppCloses,
                SockClosed, SendEnd, SendEndAll
  <2> QED
    BY <1>0, <1>w, <2>1
<1>2. CASE RecvLoop
  <2>1. CASE RecvCell
    <3>1. BackCells([up EXCEPT ![1] = Tail(@)])
      BY <1>0, <2>1, BackTail DEF RecvCell
    <3> QED
      BY <1>w, <2>1, <3>1 DEF RecvCell
  <2>2. CASE RecvEOF
    BY <1>0, <1>w, <2>2 DEF RecvEOF
  <2> QED
    BY <1>2, <2>1, <2>2 DEF RecvLoop
<1>3. ASSUME NEW i \in Hops, NEW s \in Sides, ServeConn(i, s)
      PROVE  Back'
  BY <1>3, BackServeConn
<1>4. CASE ServeExit
  BY <1>4, BackServeExit
<1>5. CASE FwdSeal
  <2> DEFINE c == Sealed("DATA", <<>>, Svc(fwd.no), fwd.room)
  <2>1. c \in Cell /\ c.cmd = "DATA" /\ fwd.nonce \in Nat
    <3>1. <<>> \in Seq(Layer) /\ "DATA" \in Cmd
      BY DEF Cmd
    <3>2. Svc(fwd.no) \in Chunk /\ fwd.room \in Nat /\ fwd.nonce \in Nat
      BY DEF TypeOK, Upstream, Svc, Chunk
    <3> QED
      BY <3>1, <3>2, SealedType DEF Sealed
  <2>2. up' = up \/ up' = PutUp(up, N, Seal(c, N, fwd.nonce))
    BY <1>5 DEF FwdSeal
  <2> HIDE DEF c
  <2>3. BackCells(PutUp(up, N, Seal(c, N, fwd.nonce)))
    BY <1>0, <2>1, BackSeal, BackPut
  <2> QED
    BY <1>0, <1>5, <1>w, <2>2, <2>3 DEF FwdSeal
<1>6. CASE FwdEnd
  <2>1. BackCells(up')
    BY <1>0, <1>6, BackExit DEF FwdEnd
  <2> QED
    BY <1>6, <1>w, <2>1 DEF FwdEnd
<1>7. CASE FwdRead \/ HiddenServeRead \/ HiddenServeStop \/ TargetCloses
  <2>1. up' = up /\ job' = job
    BY <1>7 DEF FwdRead, HiddenServeRead, HiddenServeStop, TargetCloses
  <2> QED
    BY <1>0, <1>w, <2>1
<1>8. ASSUME NEW i \in Hops, Expire(i) \/ ResetDn(i) \/ ResetUp(i)
      PROVE  Back'
  <2>1. job' = job
    BY <1>8 DEF Expire, ResetDn, ResetUp
  <2>2. \A h \in Hops : up'[h] \in {up[h], <<>>}
    BY <1>0, <1>8 DEF Expire, Close, ResetDn, ResetUp, Wires
  <2>3. BackCells(up')
    BY <1>0, <2>2, BackClear
  <2> QED
    BY <1>w, <2>1, <2>3
<1> QED
  BY <1>1, <1>2, <1>3, <1>4, <1>5, <1>6, <1>7, <1>8 DEF Next, ForwardUpstream
-----------------------------------------------------------------------------
(***************************************************************************)
(* The client's counter, the exit's nonce and its target.                  *)
(***************************************************************************)
\* No step of the client's gets its counter and its chunks out of step.
LEMMA SendingNext ==
  ASSUME TypeOK, Sending, Next
  PROVE  Sending' /\ (phase \notin Early => phase' \notin Early)
<1> USE DEF wires, relays, exit, client, hist
<1>0. ctr \in Counters /\ sent \in Nat
  BY DEF TypeOK
<1>1. CASE SendData
  <2>1. phase = "relay" /\ ctr.data = sent /\ ctr'.data = sent + 1
    BY <1>0, <1>1 DEF SendData, Sending, Counters
  <2>2. (phase' = "relay" /\ sent' = sent + 1) \/ phase' = "end"
    BY <1>1 DEF SendData
  <2> QED
    BY <2>1, <2>2 DEF Sending, Early
<1>2. CASE SendConnect \/ OpenStream \/ SendBegin
  <2>1. phase \in Early /\ UNCHANGED sent /\ ctr'.data = ctr.data
    BY <1>0, <1>2 DEF SendConnect, OpenStream, SendBegin, Counters, Early
  <2> QED
    BY <1>0, <2>1 DEF Sending
<1>3. CASE SockClosed \/ AppCloses \/ SendEnd \/ SendEndAll
  <2>1. phase \notin Early /\ phase' \in {"end", "endall", "returned"}
    BY <1>3 DEF SockClosed, AppCloses, SendEnd, SendEndAll, Return, Early
  <2> QED
    BY <2>1 DEF Sending, Early
<1>4. CASE UNCHANGED <<phase, sent>> /\ ctr'.data = ctr.data
  BY <1>4 DEF Sending
<1>5. CASE RecvLoop
  <2>1. UNCHANGED <<phase, sent>> /\ ctr'.data = ctr.data
    BY <1>0, <1>5 DEF RecvLoop, RecvCell, RecvEOF, Counters
  <2> QED
    BY <1>4, <2>1
<1>6. ASSUME NEW i \in Hops, NEW s \in Sides, ServeConn(i, s)
      PROVE  UNCHANGED <<phase, sent, ctr>>
  BY <1>6 DEF ServeConn, ServeStop, ForwardSetup, BeginAck, EndStream, EndCircuit,
              TakeData, ForwardData, FailData, SealData, SendSealed
<1>7. CASE ServeExit
  <2>1. UNCHANGED <<phase, sent, ctr>>
    BY <1>7 DEF ServeExit, StartDial, Dialled, DialRefused, HiddenDialled, HiddenRefused,
                BeginHidden, DeliverData
  <2> QED
    BY <1>4, <2>1
<1>8. CASE FwdRead \/ ForwardUpstream \/ HiddenServeRead \/ HiddenServeStop \/ TargetCloses
  <2>1. UNCHANGED <<phase, sent, ctr>>
    BY <1>8 DEF FwdRead, ForwardUpstream, FwdSeal, FwdEnd, HiddenServeRead, HiddenServeStop,
                TargetCloses
  <2> QED
    BY <1>4, <2>1
<1>9. ASSUME NEW i \in Hops, Expire(i) \/ ResetDn(i) \/ ResetUp(i)
      PROVE  UNCHANGED <<phase, sent, ctr>>
  BY <1>9 DEF Expire, ResetDn, ResetUp
<1> QED
  BY <1>1, <1>2, <1>3, <1>4, <1>5, <1>6, <1>7, <1>8, <1>9 DEF Next, Handler

\* The exit takes a nonce for DATA only when it opens a cell or fails to.
Opening == DeliverData \/ FailData(N, "up")

\* So no other step changes its counter.
LEMMA CountNext ==
  ASSUME TypeOK, Back, Next, ~Opening
  PROVE  st'[N].data = st[N].data
<1> USE DEF wires, relays, exit, client, hist
<1>0. N \in Hops /\ st \in Relays
  BY DEF Hops, TypeOK
<1>1. CASE UNCHANGED st
  BY <1>1
<1>2. CASE Handler \/ SendData \/ AppCloses \/ RecvLoop
  <2>1. UNCHANGED st
    BY <1>2 DEF Handler, SendConnect, OpenStream, SendBegin, SendData, AppCloses,
                SockClosed, SendEnd, SendEndAll, RecvLoop, RecvCell, RecvEOF
  <2> QED
    BY <2>1
<1>3. ASSUME NEW i \in Hops, NEW s \in Sides, ServeConn(i, s)
      PROVE  st'[N].data = st[N].data
  <2>1. CASE ServeStop(i, s) \/ BeginAck(i, s) \/ TakeData(i, s) \/ SendSealed(i, s)
    BY <2>1 DEF ServeStop, BeginAck, TakeData, SendSealed
  <2>2. CASE ForwardSetup(i, s) \/ ForwardData(i, s)
    <3>0. i < N
      BY <2>2 DEF ForwardSetup, ForwardData
    <3>1. i # N
      BY <3>0 DEF Hops
    <3> QED
      BY <1>0, <2>2, <3>1 DEF ForwardSetup, ForwardData, Relays
  <2>3. CASE EndStream(i, s) \/ EndCircuit(i, s)
    <3>1. \E b : st' = [st EXCEPT ![i].served = b]
      BY <2>3 DEF EndStream, EndCircuit
    <3> QED
      BY <1>0, <3>1 DEF Relays, ConnState
  <2>4. CASE FailData(i, s)
    <3>1. i # N
      <4>1. s = "down" => i < N
        BY <2>4 DEF FailData, Back, BackJob
      <4> QED
        BY <2>4, <4>1 DEF Opening, Sides
    <3> QED
      BY <1>0, <2>4, <3>1 DEF FailData, Relays
  <2>5. CASE SealData(i, s)
    <3>1. \E v : st' = [st EXCEPT ![i].updata = v]
      BY <2>5 DEF SealData
    <3> QED
      BY <1>0, <3>1 DEF Relays, ConnState
  <2> QED
    BY <1>3, <2>1, <2>2, <2>3, <2>4, <2>5 DEF ServeConn
<1>4. CASE StartDial \/ BeginHidden
  <2>1. st' = [st EXCEPT ![N].begin = @ + 1]
    BY <1>4 DEF StartDial, BeginHidden
  <2> QED
    BY <1>0, <2>1 DEF Relays, ConnState
<1>5. CASE Dialled \/ DialRefused \/ HiddenRefused
  BY <1>5 DEF Dialled, DialRefused, HiddenRefused
<1>6. CASE HiddenDialled
  <2>1. st'[N] = [st[N] EXCEPT !.updata = 0, !.hidden = TRUE, !.served = FALSE]
    BY <1>0, <1>6 DEF HiddenDialled, Relays
  <2>2. st[N] \in ConnState
    BY <1>0 DEF Relays
  <2> QED
    BY <2>1, <2>2 DEF ConnState
<1>7. CASE FwdSeal
  <2>1. \E v : st' = [st EXCEPT ![N].updata = v]
    BY <1>7 DEF FwdSeal
  <2> QED
    BY <1>0, <2>1 DEF Relays, ConnState
<1>8. CASE FwdRead \/ FwdEnd \/ HiddenServeRead \/ HiddenServeStop \/ TargetCloses
  BY <1>8 DEF FwdRead, FwdEnd, HiddenServeRead, HiddenServeStop, TargetCloses
<1>9. ASSUME NEW i \in Hops, Expire(i) \/ ResetDn(i) \/ ResetUp(i)
      PROVE  UNCHANGED st
  BY <1>9 DEF Expire, ResetDn, ResetUp
<1> QED
  BY <1>2, <1>3, <1>4, <1>5, <1>6, <1>7, <1>8, <1>9 DEF Next, ServeExit, ForwardUpstream, Opening

\* One cell after the other.
LEMMA AloneNext ==
  ASSUME TypeOK, Back, ExitAlone, Next
  PROVE  ExitAlone'
<1> USE DEF wires, relays, exit, client, hist
<1>0. N \in Hops /\ "up" \in Sides /\ job \in Jobs /\ Idle.pc = "read"
  BY DEF Hops, Sides, TypeOK, Idle
<1> SUFFICES ASSUME job'[N]["up"].pc = "open"
             PROVE  job'[N]["up"].nonce = st'[N].data
  BY DEF ExitAlone
<1>1. CASE ~Opening /\ job'[N]["up"] = job[N]["up"]
  BY <1>1, CountNext DEF ExitAlone
<1>2. CASE Handler \/ SendData \/ AppCloses \/ RecvLoop
  <2>1. UNCHANGED <<job, st>>
    BY <1>2 DEF Handler, SendConnect, OpenStream, SendBegin, SendData, AppCloses,
                SockClosed, SendEnd, SendEndAll, RecvLoop, RecvCell, RecvEOF
  <2> QED
    BY <2>1 DEF ExitAlone
<1>3. ASSUME NEW i \in Hops, NEW s \in Sides, ServeConn(i, s), ~Opening
      PROVE  job'[N]["up"].nonce = st'[N].data
  <2>1. st'[N].data = st[N].data
    BY <1>3, CountNext
  <2>2. CASE i # N \/ s # "up"
    <3>1. job' = job \/ \E k : job' = [job EXCEPT ![i][s] = k]
      BY <1>3 DEF ServeConn, ServeStop, ForwardSetup, BeginAck, EndStream, EndCircuit,
                  TakeData, ForwardData, FailData, SealData, SendSealed
    <3>2. job'[N]["up"] = job[N]["up"]
      BY <1>0, <2>2, <3>1 DEF Jobs
    <3> QED
      BY <2>1, <3>2 DEF ExitAlone
  <2>3. CASE i = N /\ s = "up"
    <3>1. CASE TakeData(i, s)
      <4>1. job' = [job EXCEPT ![i][s] = [pc |-> "open", cell |-> Head(Inbox(i, s)), nonce |-> st[i].data]]
        BY <3>1 DEF TakeData
      <4>2. job'[N]["up"] = [pc |-> "open", cell |-> Head(Inbox(i, s)), nonce |-> st[i].data]
        BY <1>0, <2>3, <4>1 DEF Jobs
      <4> QED
        BY <2>1, <2>3, <4>2
    <3>2. CASE SealData(i, s)
      <4> DEFINE k == [job[i][s] EXCEPT !.pc = "send", !.cell = Seal(job[i][s].cell, i, job[i][s].nonce)]
      <4>1. job' = [job EXCEPT ![i][s] = k]
        BY <3>2 DEF SealData
      <4>2. k.pc = "send"
        BY <1>0 DEF Jobs, Job
      <4> HIDE DEF k
      <4>3. job'[N]["up"] = k
        BY <1>0, <2>3, <4>1 DEF Jobs
      <4> QED
        BY <4>2, <4>3
    <3>5. CASE SendSealed(i, s)
      <4>1. job'[N]["up"] = Idle
        BY <1>0, <2>3, <3>5 DEF SendSealed, Jobs
      <4> QED
        BY <1>0, <4>1
    <3>3. ~ForwardData(i, s) /\ ~FailData(i, s)
      <4>1. ~(i < N)
        BY <2>3
      <4>2. ~FailData(i, s)
        BY <1>3, <2>3 DEF Opening
      <4> QED
        BY <4>1, <4>2 DEF ForwardData
    <3>4. CASE job' = job
      BY <2>1, <3>4 DEF ExitAlone
    <3> QED
      BY <1>3, <3>1, <3>2, <3>3, <3>4, <3>5 DEF ServeConn, ServeStop, ForwardSetup, BeginAck,
                                          EndStream, EndCircuit
  <2> QED
    BY <2>2, <2>3
<1>4. CASE StartDial
  <2> DEFINE k == [pc |-> "dial", cell |-> Head(dn[N]), nonce |-> 0]
  <2>1. job' = [job EXCEPT ![N]["up"] = k] \/ job' = job
    BY <1>4 DEF StartDial
  <2>2. k.pc = "dial"
    OBVIOUS
  <2> HIDE DEF k
  <2>3. job' = job
    <3>1. job' = [job EXCEPT ![N]["up"] = k] => job'[N]["up"] = k
      BY <1>0 DEF Jobs
    <3> QED
      BY <2>1, <2>2, <3>1
  <2>4. ~Opening
    BY <1>4 DEF StartDial, Reads, Serves, Opening, DeliverData, OpensData, FailData
  <2> QED
    BY <1>1, <2>3, <2>4
<1>5. CASE Dialled \/ DialRefused \/ HiddenDialled \/ HiddenRefused \/ DeliverData
  <2>1. job'[N]["up"] = Idle
    BY <1>0, <1>5 DEF Dialled, DialRefused, HiddenDialled, HiddenRefused, DeliverData,
                      DialReturns, Jobs
  <2> QED
    BY <1>0, <2>1
<1>6. CASE BeginHidden
  <2>1. job' = job
    BY <1>6 DEF BeginHidden
  <2>2. ~Opening
    BY <1>6 DEF BeginHidden, Reads, Serves, Opening, DeliverData, OpensData, FailData
  <2> QED
    BY <1>1, <2>1, <2>2
<1>7. CASE FailData(N, "up")
  <2> DEFINE k == [job[N]["up"] EXCEPT !.pc = "seal", !.nonce = st[N].updata]
  <2>1. job' = [job EXCEPT ![N]["up"] = IF HasDown(N) THEN k ELSE Idle]
    BY <1>7 DEF FailData
  <2>2. k.pc = "seal"
    BY <1>0 DEF Jobs, Job
  <2> HIDE DEF k
  <2>3. job'[N]["up"] = k \/ job'[N]["up"] = Idle
    BY <1>0, <2>1 DEF Jobs
  <2> QED
    BY <1>0, <2>2, <2>3
<1>8. CASE FwdSeal
  <2>1. job' = job
    BY <1>8 DEF FwdSeal
  <2>2. \E v : st' = [st EXCEPT ![N].updata = v]
    BY <1>8 DEF FwdSeal
  <2>3. st'[N].data = st[N].data
    BY <1>0, <2>2 DEF TypeOK, Relays, ConnState
  <2> QED
    BY <2>1, <2>3 DEF ExitAlone
<1>9. CASE FwdRead \/ FwdEnd \/ HiddenServeRead \/ HiddenServeStop \/ TargetCloses
  <2>1. UNCHANGED <<job, st>>
    BY <1>9 DEF FwdRead, FwdEnd, HiddenServeRead, HiddenServeStop, TargetCloses
  <2> QED
    BY <2>1 DEF ExitAlone
<1>10. ASSUME NEW i \in Hops, Expire(i) \/ ResetDn(i) \/ ResetUp(i)
       PROVE  job'[N]["up"].nonce = st'[N].data
  <2>1. UNCHANGED <<job, st>>
    BY <1>10 DEF Expire, ResetDn, ResetUp
  <2> QED
    BY <2>1 DEF ExitAlone
<1> QED
  BY <1>2, <1>3, <1>4, <1>5, <1>6, <1>7, <1>8, <1>9, <1>10
     DEF Next, ServeExit, ForwardUpstream, Opening

\* Without a BEGIN or CONNECT on its way, no target and no stream comes into being.
LEMMA OverNext ==
  ASSUME TypeOK, Back, Sending, Over, Next, NoSetup(Pipes(dn, job))'
  PROVE  Over'
<1> USE DEF wires, relays, exit, client, hist
<1>0. N \in Hops /\ "up" \in Sides /\ st \in Relays /\ dn \in Wires /\ job \in Jobs
  BY DEF Hops, Sides, TypeOK
<1> DEFINE Without == tgt # "open" \/ ~(strm \/ st[N].hidden)
<1>1. SUFFICES Without'
  BY SendingNext DEF Over
<1>2. Without
  BY DEF Over
<1>3. ~Dialled /\ ~HiddenDialled
  <2> SUFFICES ASSUME job[N]["up"].pc = "dial"
               PROVE  FALSE
    BY DEF Dialled, HiddenDialled, Dialling
  <2>1. InHand(job[N]["up"]) /\ job[N]["up"].cell.cmd \in Setup
    BY <1>0 DEF InHand, Back, BackJob
  <2>2. PICK q : q = Pipes(dn, job)[N]
    OBVIOUS
  <2>3. Len(q) = Len(dn[N]) + 1 /\ q[1] = job[N]["up"].cell
    BY <1>0, <2>1, <2>2, PipeHead
  <2>4. Len(dn[N]) \in Nat
    BY <1>0 DEF Wires
  <2>5. 1 \in 1 .. Len(q)
    BY <2>3, <2>4
  <2> QED
    BY <1>0, <2>1, <2>2, <2>3, <2>5 DEF Over, NoSetup
<1>f. ASSUME tgt' = "open" => tgt = "open", strm' => strm, st'[N].hidden = st[N].hidden
      PROVE  Without'
  BY <1>2, <1>f
<1> HIDE DEF Without
<1>4. CASE Handler \/ SendData \/ AppCloses \/ RecvLoop
  <2>1. UNCHANGED <<tgt, strm, st>>
    BY <1>4 DEF Handler, SendConnect, OpenStream, SendBegin, SendData, AppCloses,
                SockClosed, SendEnd, SendEndAll, RecvLoop, RecvCell, RecvEOF
  <2> QED
    BY <1>f, <2>1
<1>5. ASSUME NEW i \in Hops, NEW s \in Sides, ServeConn(i, s)
      PROVE  Without'
  <2>1. (tgt' = "open" => tgt = "open") /\ (strm' => strm)
    <3>1. CASE EndStream(i, s)
      BY <3>1 DEF EndStream, TgtClosed
    <3>2. CASE EndCircuit(i, s)
      BY <3>2 DEF EndCircuit, TgtClosed
    <3>3. CASE UNCHANGED exit
      BY <3>3
    <3> QED
      BY <1>5, <3>1, <3>2, <3>3 DEF ServeConn, ServeStop, ForwardSetup, BeginAck,
                                    TakeData, ForwardData, FailData, SealData, SendSealed
  <2>2. st'[N].hidden = st[N].hidden
    <3>1. CASE UNCHANGED st
      BY <3>1
    <3>2. CASE ForwardSetup(i, s)
      <4>1. \E v, b : st' = [st EXCEPT ![i].begin = v, ![i].served = b]
        BY <3>2 DEF ForwardSetup
      <4> QED
        BY <1>0, <4>1 DEF Relays, ConnState
    <3>3. CASE ForwardData(i, s)
      <4>1. \E v, b : st' = [st EXCEPT ![i].data = v, ![i].served = b]
        BY <3>3 DEF ForwardData
      <4> QED
        BY <1>0, <4>1 DEF Relays, ConnState
    <3>4. CASE EndStream(i, s) \/ EndCircuit(i, s)
      <4>1. \E b : st' = [st EXCEPT ![i].served = b]
        BY <3>4 DEF EndStream, EndCircuit
      <4> QED
        BY <1>0, <4>1 DEF Relays, ConnState
    <3>5. CASE FailData(i, s)
      <4>1. \E v : st' = [st EXCEPT ![i].data = v]
        BY <3>5 DEF FailData
      <4> QED
        BY <1>0, <4>1 DEF Relays, ConnState
    <3>6. CASE SealData(i, s)
      <4>1. \E v : st' = [st EXCEPT ![i].updata = v]
        BY <3>6 DEF SealData
      <4> QED
        BY <1>0, <4>1 DEF Relays, ConnState
    <3> QED
      BY <1>5, <3>1, <3>2, <3>3, <3>4, <3>5, <3>6 DEF ServeConn, ServeStop, BeginAck, TakeData,
                                                      SendSealed
  <2> QED
    BY <1>f, <2>1, <2>2
<1>6. CASE StartDial \/ BeginHidden
  <2>1. UNCHANGED <<tgt, strm>> /\ st' = [st EXCEPT ![N].begin = @ + 1]
    BY <1>6 DEF StartDial, BeginHidden
  <2>2. st'[N].hidden = st[N].hidden
    BY <1>0, <2>1 DEF Relays, ConnState
  <2> QED
    BY <1>f, <2>1, <2>2
<1>7. CASE DialRefused \/ HiddenRefused
  <2>1. UNCHANGED <<strm, st>> /\ tgt' = "refused"
    BY <1>7 DEF DialRefused, HiddenRefused
  <2> QED
    BY <1>f, <2>1
<1>8. CASE DeliverData
  <2>1. (tgt' = "open" => tgt = "open") /\ (strm' => strm)
    BY <1>8 DEF DeliverData, TgtClosed
  <2>2. \E v : st' = [st EXCEPT ![N].data = v]
    BY <1>8 DEF DeliverData
  <2>3. st'[N].hidden = st[N].hidden
    BY <1>0, <2>2 DEF Relays, ConnState
  <2> QED
    BY <1>f, <2>1, <2>3
<1>9. CASE FwdSeal
  <2>1. UNCHANGED <<tgt, strm>> /\ \E v : st' = [st EXCEPT ![N].updata = v]
    BY <1>9 DEF FwdSeal
  <2>2. st'[N].hidden = st[N].hidden
    BY <1>0, <2>1 DEF Relays, ConnState
  <2> QED
    BY <1>f, <2>1, <2>2
<1>10. CASE FwdRead \/ FwdEnd \/ HiddenServeRead \/ HiddenServeStop \/ TargetCloses
  <2>1. UNCHANGED st /\ (tgt' = "open" => tgt = "open") /\ (strm' => strm)
    BY <1>10 DEF FwdRead, FwdEnd, HiddenServeRead, HiddenServeStop, TargetCloses, TgtClosed
  <2> QED
    BY <1>f, <2>1
<1>11. ASSUME NEW i \in Hops, Expire(i) \/ ResetDn(i) \/ ResetUp(i)
       PROVE  Without'
  <2>1. UNCHANGED <<strm, st>> /\ (tgt' = "open" => tgt = "open")
    BY <1>11 DEF Expire, ResetDn, ResetUp, TgtClosed
  <2> QED
    BY <1>f, <2>1
<1> QED
  BY <1>3, <1>4, <1>5, <1>6, <1>7, <1>8, <1>9, <1>10, <1>11
     DEF Next, ServeExit, ForwardUpstream
-----------------------------------------------------------------------------
(***************************************************************************)
(* The steps that add nothing to the way down: cells are lost, or pass on. *)
(***************************************************************************)
\* What is in order on the way down stays in order, and nothing new comes into it.
Steady(P, Q) ==
  /\ InOrder(P) => InOrder(Q)
  /\ NoSetup(P) => NoSetup(Q)
  /\ Lacks(P, "BEGIN") => Lacks(Q, "BEGIN")
  /\ \A n \in Nat : From(P, n) => From(Q, n)
  /\ \A n \in Nat : AllChunks(P, n) => AllChunks(Q, n)

Stays == Steady(Pipes(dn, job), Pipes(dn', job')) /\ UNCHANGED <<sent, delivered>>

\* Losing cells is steady.
LEMMA SteadyThin ==
  ASSUME NEW P \in Wires, NEW R \in Wires, Thinned(R, P)
  PROVE  Steady(P, R)
BY ThinnedFacts DEF Steady

\* The queues with one less, no cell in hand taken up or put down.
LEMMA SteadyLess ==
  ASSUME NEW D \in Wires, NEW E \in Wires, NEW J \in Jobs, Lessened(E, D, J),
         NEW K, \A i \in Hops : K[i]["up"] = J[i]["up"]
  PROVE  Steady(Pipes(D, J), Pipes(E, K))
<1>1. Pipes(E, K) = Pipes(E, J)
  BY DEF Pipes
<1>2. Pipes(E, J) \in Wires /\ Pipes(D, J) \in Wires
  BY PipesType
<1>3. Thinned(Pipes(E, J), Pipes(D, J))
  BY LessThin
<1> QED
  BY <1>1, <1>2, <1>3, SteadyThin

\* Dealing with the cell in hand.
LEMMA SteadyDrop ==
  ASSUME NEW D \in Wires, NEW J \in Jobs, NEW K \in Jobs, NEW i \in Hops, NEW k, ~InHand(k),
         K = [J EXCEPT ![i]["up"] = k]
  PROVE  Steady(Pipes(D, J), Pipes(D, K))
<1>1. Pipes(D, K) \in Wires /\ Pipes(D, J) \in Wires
  BY PipesType
<1>2. Thinned(Pipes(D, K), Pipes(D, J))
  BY DropHand
<1> QED
  BY <1>1, <1>2, SteadyThin

\* Passing a cell on.
LEMMA SteadyMove ==
  ASSUME NEW P \in Wires, NEW i \in Hops, NEW d \in Cell, NEW R, Moved(R, P, i, d)
  PROVE  Steady(P, R)
BY MovedFacts DEF Steady

\* A relay passes its first cell on, or the next connection is closed and it is lost.
LEMMA PassOn ==
  ASSUME TypeOK, NEW J \in Jobs, NEW i \in Hops, i < N, NEW E \in Wires, NEW c \in Cell,
         Pipes(dn, J)[i] # <<>>, Head(Pipes(dn, J)[i]) = c, c.layers # <<>>,
         Tail(Pipes(dn, J)[i]) = E[i], \A h \in Hops \ {i} : E[h] = dn[h],
         NEW K \in Jobs, ~InHand(K[i]["up"]), \A h \in Hops \ {i} : K[h]["up"] = J[h]["up"]
  PROVE  Steady(Pipes(dn, J), Pipes(PutDown(E, i, Peel(c)), K))
<1> DEFINE d == Peel(c)
           P == Pipes(dn, J)
<1>0. /\ dn \in Wires /\ i + 1 \in Hops /\ i + 1 # i /\ d \in Cell
      /\ P \in Wires /\ Pipes(E, K) \in Wires
  BY PipesType, PeelType DEF TypeOK, Hops
<1>1. CASE ~(topShut[i+1] \/ botShut[i+1])
  <2>1. PICK F : F = PutDown(E, i, d)
    OBVIOUS
  <2>2. /\ F[i] = E[i] /\ F[i + 1] = Append(dn[i + 1], d)
        /\ \A h \in Hops \ {i, i + 1} : F[h] = dn[h]
    BY <1>0, <1>1, <2>1 DEF PutDown, Wires
  <2>3. Moved(Pipes(F, K), P, i, d)
    BY <1>0, <2>2, MovePipes
  <2> QED
    BY <1>0, <2>1, <2>3, SteadyMove
<1>2. CASE topShut[i+1] \/ botShut[i+1]
  <2>1. PutDown(E, i, d) = E
    BY <1>2 DEF PutDown
  <2>2. Pipes(E, K)[i] = Tail(P[i]) /\ P[i] \in Seq(Cell) /\ P[i] # <<>>
    BY <1>0 DEF Pipes, Wires
  <2>3. Within(Pipes(E, K)[i], P[i], 1)
    BY <2>2, WithinTail
  <2>4. ASSUME NEW h \in Hops \ {i}
        PROVE  Within(Pipes(E, K)[h], P[h], 0)
    <3>1. Pipes(E, K)[h] = P[h] /\ P[h] \in Seq(Cell)
      BY <1>0 DEF Pipes, Wires
    <3> QED
      BY <3>1, WithinSelf
  <2>5. Thinned(Pipes(E, K), P)
    BY <2>3, <2>4 DEF Thinned
  <2> QED
    BY <1>0, <2>1, <2>5, SteadyThin
<1> QED
  BY <1>1, <1>2

\* A cell that a goroutine takes in hand, DATA or what the exit dials for, stays where it
\* is on the way down.
LEMMA TakesHand ==
  ASSUME TypeOK
  PROVE  /\ \A i \in Hops : TakeData(i, "up") => Pipes(dn', job') = Pipes(dn, job)
         /\ StartDial /\ job' # job => Pipes(dn', job') = Pipes(dn, job)
<1>1. ASSUME NEW i \in Hops, NEW k, InHand(k), k.cell = Head(dn[i]), NEW cmds, Reads(i, "up", cmds),
             dn' = DnRead(i, "up"), job' = [job EXCEPT ![i]["up"] = k]
      PROVE  Pipes(dn', job') = Pipes(dn, job)
  <2>1. /\ ~InHand(job[i]["up"]) /\ dn[i] # <<>> /\ dn' = [dn EXCEPT ![i] = Tail(@)]
        /\ dn \in Wires /\ job \in Jobs /\ "up" \in Sides
    BY <1>1 DEF Reads, Serves, InHand, Inbox, DnRead, TypeOK, Sides
  <2>2. PICK E : E = dn'
    OBVIOUS
  <2>3. PICK K : K = job'
    OBVIOUS
  <2>4. /\ E[i] = Tail(dn[i]) /\ \A h \in Hops \ {i} : E[h] = dn[h]
        /\ InHand(K[i]["up"]) /\ K[i]["up"].cell = Head(dn[i])
        /\ \A h \in Hops \ {i} : K[h]["up"] = job[h]["up"]
    BY <1>1, <2>1, <2>2, <2>3 DEF Wires, Jobs
  <2>5. Pipes(E, K) = Pipes(dn, job)
    BY <2>1, <2>4, TakeHand
  <2> QED
    BY <2>2, <2>3, <2>5
<1>2. ASSUME NEW i \in Hops, TakeData(i, "up")
      PROVE  Pipes(dn', job') = Pipes(dn, job)
  <2> DEFINE k == [pc |-> "open", cell |-> Head(dn[i]), nonce |-> st[i].data]
  <2>1. InHand(k) /\ k.cell = Head(dn[i])
    BY DEF InHand
  <2>2. Reads(i, "up", {"DATA"}) /\ dn' = DnRead(i, "up") /\ job' = [job EXCEPT ![i]["up"] = k]
    BY <1>2 DEF TakeData, Inbox
  <2> HIDE DEF k
  <2> QED
    BY <1>1, <2>1, <2>2
<1>3. ASSUME StartDial, job' # job
      PROVE  Pipes(dn', job') = Pipes(dn, job)
  <2> DEFINE k == [pc |-> "dial", cell |-> Head(dn[N]), nonce |-> 0]
  <2>1. InHand(k) /\ k.cell = Head(dn[N]) /\ N \in Hops
    BY DEF InHand, Hops
  <2>2. /\ Reads(N, "up", {"BEGIN", "CONNECT"}) /\ dn' = DnRead(N, "up")
        /\ job' = [job EXCEPT ![N]["up"] = k]
    BY <1>3 DEF StartDial
  <2> HIDE DEF k
  <2> QED
    BY <1>1, <2>1, <2>2
<1> QED
  BY <1>2, <1>3

\* Only cells from above open: those from below were sealed last by the next relay.
LEMMA OpensAbove ==
  ASSUME TypeOK, Back, NEW i \in Hops, NEW s \in Sides, ForwardData(i, s)
  PROVE  s = "up"
<1> SUFFICES ASSUME s = "down"
             PROVE  FALSE
  BY DEF Sides
<1> DEFINE j == job[i][s]
<1>1. j \in Job /\ BackJob(i, s, j) /\ j.pc = "open" /\ Opens(j.cell, i, j.nonce)
  BY DEF TypeOK, Jobs, Back, ForwardData, OpensData
<1> HIDE DEF j
<1>2. BackCell(i + 1, j.cell) /\ j.cell.cmd = "DATA"
  BY <1>1 DEF BackJob
<1>3. j.cell.layers \in Seq(Layer) /\ j.cell.layers # <<>> /\ j.cell.layers[1].hop = i + 1
  BY <1>1, <1>2 DEF BackCell, Job, Cell
<1>4. Head(j.cell.layers).hop = i
  BY <1>1 DEF Opens
<1>5. Head(j.cell.layers) = j.cell.layers[1]
  BY <1>3
<1> QED
  BY <1>3, <1>4, <1>5 DEF Hops

\* A step of a ServeConn goroutine other than the exit's opening of DATA.
LEMMA SteadyServeConn ==
  ASSUME TypeOK, TypeOK', Back, NEW i \in Hops, NEW s \in Sides, ServeConn(i, s), ~Opening
  PROVE  Stays
<1> USE DEF wires, relays, exit, client, hist
<1> DEFINE c == Head(Inbox(i, s))
           j == job[i][s]
<1>0. /\ dn \in Wires /\ job \in Jobs /\ dn' \in Wires /\ job' \in Jobs /\ j \in Job
      /\ BackJob(i, s, j) /\ UNCHANGED <<sent, delivered>>
  <2>1. UNCHANGED <<sent, delivered>>
    BY DEF ServeConn, ServeStop, ForwardSetup, BeginAck, EndStream, EndCircuit,
           TakeData, ForwardData, FailData, SealData, SendSealed
  <2> QED
    BY <2>1 DEF TypeOK, Back, Jobs
<1>r. ASSUME NEW cmds, Reads(i, s, cmds)
      PROVE  /\ c \in Cell /\ c.cmd \in cmds /\ DnRead(i, s) \in Wires
             /\ Lessened(DnRead(i, s), dn, job)
             /\ s = "down" => c.cmd \notin Setup
  <2>1. c \in Cell /\ DnRead(i, s) \in Wires /\ c.cmd \in cmds
    BY <1>r, ReadsType DEF Reads
  <2>2. s = "down" => c.cmd \notin Setup
    BY <1>r, BackRead DEF Back, BackCell
  <2> QED
    BY <1>r, <2>1, <2>2, LessRead
<1>l. ASSUME Lessened(dn', dn, job), job' = job \/ \E k : job' = [job EXCEPT ![i]["down"] = k]
      PROVE  Stays
  <2>1. \A h \in Hops : job'[h]["up"] = job[h]["up"]
    BY <1>0, <1>l DEF Jobs, Sides
  <2> QED
    BY <1>0, <1>l, <2>1, SteadyLess DEF Stays
<1>s. Lessened(dn, dn, job)
  BY <1>0, LessSame
<1>d. ASSUME dn' = dn, NEW k, ~InHand(k), job' = [job EXCEPT ![i][s] = k]
      PROVE  Stays
  <2>1. CASE s = "up"
    BY <1>0, <1>d, <2>1, SteadyDrop DEF Stays
  <2>2. CASE s = "down"
    BY <1>d, <1>l, <1>s, <2>2
  <2> QED
    BY <2>1, <2>2 DEF Sides
<1>p. ASSUME NEW D \in Wires, Lessened(D, dn, job), NEW e \in Cell, Free(e)
      PROVE  Lessened(ToDown(i, D, e), dn, job)
  <2>1. CASE i < N
    <3>1. i \in 0 .. N - 1
      BY <2>1 DEF Hops
    <3>2. Lessened(PutDown(D, i, e), dn, job)
      BY <1>0, <1>p, <3>1, LessPut
    <3> QED
      BY <2>1, <3>2 DEF ToDown
  <2>2. CASE ~(i < N)
    BY <1>p, <2>2 DEF ToDown
  <2> QED
    BY <2>1, <2>2
<1>i. ~InHand(Idle)
  BY DEF InHand, Idle
<1> HIDE DEF c, j
<1>1. CASE ServeStop(i, s)
  <2>1. \A h \in Hops : dn'[h] \in {dn[h], <<>>}
    BY <1>0, <1>1 DEF ServeStop, Wires
  <2>2. Lessened(dn', dn, job) /\ job' = job
    BY <1>1, <1>s, <2>1, LessClear DEF ServeStop
  <2> QED
    BY <1>l, <2>2
<1>2. CASE ForwardSetup(i, s)
  <2>1. i < N /\ Reads(i, s, Setup) /\ job' = job
    BY <1>2 DEF ForwardSetup, Setup
  <2>2. s = "up"
    BY <1>r, <2>1 DEF Sides
  <2>3. CASE dn' = DnRead(i, s)
    BY <1>l, <1>r, <2>1, <2>3
  <2>4. CASE Opens(c, i, st[i].begin) /\ dn' = PutDown(DnRead(i, s), i, Peel(c))
    <3>1. ~InHand(job[i]["up"]) /\ dn[i] # <<>> /\ c = Head(dn[i]) /\ c.layers # <<>>
      BY <2>1, <2>2, <2>4 DEF Reads, Serves, InHand, Inbox, Opens, c
    <3>2. Pipes(dn, job)[i] = dn[i]
      BY <3>1, PipeFree
    <3>3. DnRead(i, s) \in Wires /\ c \in Cell
      BY <1>r, <2>1
    <3>4. DnRead(i, s)[i] = Tail(dn[i]) /\ \A h \in Hops \ {i} : DnRead(i, s)[h] = dn[h]
      BY <1>0, <2>2 DEF DnRead, Wires
    <3>5. Steady(Pipes(dn, job), Pipes(PutDown(DnRead(i, s), i, Peel(c)), job))
      BY <1>0, <2>1, <3>1, <3>2, <3>3, <3>4, PassOn
    <3> QED
      BY <1>0, <2>1, <2>4, <3>5 DEF Stays
  <2> QED
    BY <1>2, <2>3, <2>4 DEF ForwardSetup, c
<1>3. CASE BeginAck(i, s)
  BY <1>3, <1>r, <1>l DEF BeginAck
<1>4. CASE EndStream(i, s)
  <2>1. Lessened(DnRead(i, s), dn, job) /\ DnRead(i, s) \in Wires /\ c \in Cell /\ c.cmd = "END"
    BY <1>4, <1>r DEF EndStream
  <2>2. Free(c)
    BY <2>1 DEF Free, Setup
  <2>3. Lessened(ToDown(i, DnRead(i, s), c), dn, job)
    BY <1>p, <2>1, <2>2
  <2>4. Lessened(dn', dn, job) /\ job' = job
    BY <1>4, <2>3 DEF EndStream, c
  <2> QED
    BY <1>l, <2>4
<1>5. CASE EndCircuit(i, s)
  <2>1. /\ Lessened(DnRead(i, s), dn, job) /\ DnRead(i, s) \in Wires /\ c \in Cell
        /\ c.cmd \in {"END", "DESTROY"}
    BY <1>5, <1>r DEF EndCircuit
  <2>2. Free(c)
    BY <2>1 DEF Free, Setup
  <2>3. ToDown(i, DnRead(i, s), c) \in Wires
    BY <2>1, ToDownType
  <2>4. PICK D \in Wires : D = ToDown(i, DnRead(i, s), c)
    BY <2>3
  <2>5. Lessened(D, dn, job)
    BY <1>p, <2>1, <2>2, <2>4
  <2>6. dn' = [D EXCEPT ![i] = <<>>] /\ job' = job
    BY <1>5, <2>4 DEF EndCircuit, Close, c
  <2>7. \A h \in Hops : dn'[h] \in {D[h], <<>>}
    BY <2>6 DEF Wires
  <2>8. Lessened(dn', dn, job)
    BY <2>5, <2>7, LessClear
  <2> QED
    BY <1>l, <2>6, <2>8
<1>6. CASE TakeData(i, s)
  <2>1. CASE s = "down"
    <3>1. dn' = dn /\ \E k : job' = [job EXCEPT ![i]["down"] = k]
      BY <1>6, <2>1 DEF TakeData, DnRead
    <3> QED
      BY <1>l, <1>s, <3>1
  <2>2. CASE s = "up"
    BY <1>0, <1>6, <2>2, TakesHand DEF Stays, Steady
  <2> QED
    BY <2>1, <2>2 DEF Sides
<1>7. CASE ForwardData(i, s)
  <2>1. /\ i < N /\ j.pc = "open" /\ Opens(j.cell, i, j.nonce)
        /\ dn' = PutDown(dn, i, Peel(j.cell)) /\ job' = [job EXCEPT ![i][s] = Idle]
    BY <1>7 DEF ForwardData, OpensData, j
  <2>2. s = "up"
    BY <1>7, OpensAbove
  <2>3. InHand(job[i]["up"]) /\ j = job[i]["up"]
    BY <2>1, <2>2 DEF InHand, j
  <2>4. /\ Pipes(dn, job)[i] # <<>> /\ Head(Pipes(dn, job)[i]) = j.cell
        /\ Tail(Pipes(dn, job)[i]) = dn[i]
    BY <1>0, <2>3, PipeRest
  <2>5. ~InHand(job'[i]["up"]) /\ \A h \in Hops \ {i} : job'[h]["up"] = job[h]["up"]
    BY <1>0, <1>i, <2>1, <2>2 DEF Jobs
  <2>6. j.cell \in Cell /\ j.cell.layers # <<>>
    BY <1>0, <2>1 DEF Job, Opens
  <2>7. Steady(Pipes(dn, job), Pipes(PutDown(dn, i, Peel(j.cell)), job'))
    BY <1>0, <2>1, <2>4, <2>5, <2>6, PassOn
  <2> QED
    BY <1>0, <2>1, <2>7 DEF Stays
<1>8. CASE FailData(i, s)
  <2> DEFINE k == [j EXCEPT !.pc = "seal", !.nonce = st[i].updata]
  <2>1. dn' = dn /\ job' = [job EXCEPT ![i][s] = IF HasDown(i) THEN k ELSE Idle]
    BY <1>8 DEF FailData, j
  <2>2. ~InHand(k)
    BY <1>0 DEF Job, InHand
  <2> HIDE DEF k
  <2>3. ~InHand(IF HasDown(i) THEN k ELSE Idle)
    BY <1>i, <2>2
  <2> QED
    BY <1>d, <2>1, <2>3
<1>9. CASE SealData(i, s)
  <2> DEFINE k == [j EXCEPT !.pc = "send", !.cell = Seal(j.cell, i, j.nonce)]
  <2>1. dn' = dn /\ job' = [job EXCEPT ![i][s] = k]
    BY <1>9 DEF SealData, j
  <2>2. ~InHand(k)
    BY <1>0 DEF Job, InHand
  <2> HIDE DEF k
  <2> QED
    BY <1>d, <2>1, <2>2
<1>10. CASE SendSealed(i, s)
  BY <1>10, <1>d, <1>i DEF SendSealed
<1> QED
  BY <1>1, <1>2, <1>3, <1>4, <1>5, <1>6, <1>7, <1>8, <1>9, <1>10 DEF ServeConn

\* What only the exit does, but for the opening of DATA.
LEMMA SteadyServeExit ==
  ASSUME TypeOK, TypeOK', ServeExit, ~Opening
  PROVE  Stays
<1> USE DEF wires, relays, exit, client, hist
<1>0. /\ N \in Hops /\ "up" \in Sides /\ dn \in Wires /\ job \in Jobs
      /\ dn' \in Wires /\ job' \in Jobs
  BY DEF Hops, Sides, TypeOK
<1>r. ASSUME Reads(N, "up", Setup), dn' = DnRead(N, "up"), job' = job, UNCHANGED <<sent, delivered>>
      PROVE  Stays
  <2>1. Lessened(DnRead(N, "up"), dn, job)
    BY <1>0, <1>r, LessRead
  <2> QED
    BY <1>0, <1>r, <2>1, SteadyLess DEF Stays
<1>1. CASE StartDial
  <2>1. /\ Reads(N, "up", Setup) /\ dn' = DnRead(N, "up") /\ UNCHANGED <<sent, delivered>>
    BY <1>1 DEF StartDial, Setup
  <2>2. CASE job' # job
    BY <1>0, <1>1, <2>1, <2>2, TakesHand DEF Stays, Steady
  <2> QED
    BY <1>r, <2>1, <2>2
<1>2. CASE Dialled \/ DialRefused \/ HiddenDialled \/ HiddenRefused
  <2>1. dn' = dn /\ job' = [job EXCEPT ![N]["up"] = Idle] /\ UNCHANGED <<sent, delivered>>
    BY <1>2 DEF Dialled, DialRefused, HiddenDialled, HiddenRefused, DialReturns
  <2>2. ~InHand(Idle)
    BY DEF InHand, Idle
  <2> QED
    BY <1>0, <2>1, <2>2, SteadyDrop DEF Stays
<1>3. CASE BeginHidden
  <2>1. Reads(N, "up", {"BEGIN"}) => Reads(N, "up", Setup)
    BY DEF Reads, Setup
  <2> QED
    BY <1>3, <1>r, <2>1 DEF BeginHidden
<1> QED
  BY <1>1, <1>2, <1>3 DEF ServeExit, Opening

\* What the client puts into the way down: CONNECT, BEGIN, and the application's chunks.
ClientPuts == SendConnect \/ SendBegin \/ SendData

\* Every step other than those and the exit's opening of DATA is steady.
LEMMA SteadyNext ==
  ASSUME TypeOK, TypeOK', Back, Next, ~Opening, ~ClientPuts
  PROVE  Stays
<1> USE DEF wires, relays, exit, client, hist
<1>0. dn \in Wires /\ job \in Jobs /\ dn' \in Wires /\ Lessened(dn, dn, job)
  BY LessSame DEF TypeOK
<1>l. ASSUME Lessened(dn', dn, job), job' = job, UNCHANGED <<sent, delivered>>
      PROVE  Stays
  BY <1>0, <1>l, SteadyLess DEF Stays
<1>s. CASE UNCHANGED <<dn, job, sent, delivered>>
  BY <1>0, <1>l, <1>s
<1>1. CASE OpenStream \/ SockClosed \/ AppCloses \/ RecvLoop
  BY <1>1, <1>s DEF OpenStream, SockClosed, AppCloses, RecvLoop, RecvCell, RecvEOF
<1>2. CASE SendEnd \/ SendEndAll
  <2>1. PICK sid \in {0, 1} : \E ok \in BOOLEAN : ClientWrites(Control("END", sid), ok)
    BY <1>2 DEF SendEnd, SendEndAll
  <2>2. Control("END", sid) \in Cell /\ Free(Control("END", sid))
    BY ControlType DEF Control, Cmd, Free, Setup
  <2>3. dn' = dn \/ dn' = PutDown(dn, 0, Control("END", sid))
    BY <2>1 DEF ClientWrites
  <2>4. 0 \in 0 .. N - 1
    OBVIOUS
  <2>5. Lessened(PutDown(dn, 0, Control("END", sid)), dn, job)
    BY <1>0, <2>2, <2>4, LessPut
  <2>6. UNCHANGED <<job, sent, delivered>>
    BY <1>2 DEF SendEnd, SendEndAll
  <2> QED
    BY <1>0, <1>l, <2>3, <2>5, <2>6
<1>3. CASE FwdRead \/ ForwardUpstream \/ HiddenServeRead \/ HiddenServeStop \/ TargetCloses
  BY <1>3, <1>s DEF FwdRead, ForwardUpstream, FwdSeal, FwdEnd, HiddenServeRead, HiddenServeStop,
                    TargetCloses
<1>4. ASSUME NEW i \in Hops, Expire(i) \/ ResetDn(i) \/ ResetUp(i)
      PROVE  Stays
  <2>1. UNCHANGED <<job, sent, delivered>>
    BY <1>4 DEF Expire, ResetDn, ResetUp
  <2>2. \A h \in Hops : dn'[h] \in {dn[h], <<>>}
    BY <1>0, <1>4 DEF Expire, Close, ResetDn, ResetUp, Wires
  <2>3. Lessened(dn', dn, job)
    BY <1>0, <2>2, LessClear
  <2> QED
    BY <1>l, <2>1, <2>3
<1>5. ASSUME NEW i \in Hops, NEW s \in Sides, ServeConn(i, s)
      PROVE  Stays
  BY <1>5, SteadyServeConn
<1> QED
  BY <1>1, <1>2, <1>3, <1>4, <1>5, SteadyServeExit DEF Next, Handler, ClientPuts

\* What of DownInv is about the streams.
Flow ==
  /\ InOrder(Pipes(dn, job)) /\ AllChunks(Pipes(dn, job), sent)
  /\ phase \in Early => Lacks(Pipes(dn, job), "BEGIN")
  /\ InStep /\ DownOrdered

\* Steps that are steady keep the target's stream in order.
LEMMA FlowStays ==
  ASSUME DownInv, TypeOK', Next, ~Opening, ~ClientPuts
  PROVE  Flow'
<1> DEFINE P == Pipes(dn, job)
           Q == Pipes(dn', job')
           n == st[N].data
<1>0. /\ TypeOK /\ Back /\ Sending /\ InOrder(P) /\ AllChunks(P, sent)
      /\ InStep /\ DownOrdered /\ (phase \in Early => Lacks(P, "BEGIN"))
  BY DEF DownInv
<1>1. Stays
  BY <1>0, SteadyNext
<1>2. Steady(P, Q) /\ UNCHANGED <<sent, delivered>>
  BY <1>1 DEF Stays
<1>3. st'[N].data = n
  BY <1>0, CountNext
<1>4. sent \in Nat /\ n \in Nat /\ n + 1 \in Nat
  <2>1. N \in Hops /\ st \in Relays
    BY <1>0 DEF TypeOK, Hops
  <2> QED
    BY SMTT(30), <1>0, <2>1 DEF TypeOK, Relays, ConnState
<1>5. Over => Over'
  <2> SUFFICES ASSUME Over
               PROVE  Over'
    OBVIOUS
  <2>1. NoSetup(P)
    BY DEF Over
  <2>2. NoSetup(Q)
    BY <1>2, <2>1 DEF Steady
  <2> QED
    BY <1>0, <2>2, OverNext
<1> HIDE DEF P, Q, n
<1>6. InOrder(Q) /\ AllChunks(Q, sent)
  BY <1>0, <1>2, <1>4 DEF Steady
<1>7. /\ Len(delivered) <= n
      /\ IF Len(delivered) = n THEN From(P, n) ELSE Over \/ (n < sent /\ From(P, n + 1))
  BY <1>0 DEF InStep, P, n
<1>8. IF Len(delivered) = n THEN From(Q, n) ELSE Over' \/ (n < sent /\ From(Q, n + 1))
  BY <1>2, <1>4, <1>5, <1>7 DEF Steady
<1>9. InStep'
  BY <1>2, <1>3, <1>7, <1>8 DEF InStep, Q
<1>10. DownOrdered'
  BY <1>0, <1>2 DEF DownOrdered
<1>11. phase' \in Early => Lacks(Q, "BEGIN")
  BY <1>0, <1>2, SendingNext DEF Steady
<1> QED
  BY <1>2, <1>6, <1>9, <1>10, <1>11 DEF Flow, Q

\* A chunk's cell stays one while more are sent.
LEMMA ChunksMono ==
  ASSUME NEW P \in Wires, NEW n \in Nat, AllChunks(P, n)
  PROVE  AllChunks(P, n + 1)
<1>1. ASSUME NEW i \in Hops, NEW k \in 1 .. Len(P[i]), P[i][k].cmd = "DATA"
      PROVE  ChunkCell(i, P[i][k], n + 1)
  <2>1. ChunkCell(i, P[i][k], n)
    BY DEF AllChunks
  <2> QED
    BY <1>1, <2>1 DEF ChunkCell
<1> QED
  BY <1>1 DEF AllChunks, ChunkCell

\* R is P with one more cell of the client's.
Longer(R, P, c) == R[1] = Append(P[1], c) /\ \A h \in Hops \ {1} : R[h] = P[h]

\* The client puts a cell behind all the others, or loses it.
LEMMA ClientAppends ==
  ASSUME TypeOK, NEW c \in Cell, NEW ok \in BOOLEAN, ClientWrites(c, ok), job' = job
  PROVE  dn' = dn \/ Longer(Pipes(dn', job'), Pipes(dn, job), c)
<1>0. 1 \in Hops /\ dn \in Wires /\ job \in Jobs
  BY DEF Hops, TypeOK
<1>1. dn' = dn \/ dn' = [dn EXCEPT ![1] = Append(@, c)]
  BY DEF ClientWrites, PutDown
<1>2. ASSUME dn' = [dn EXCEPT ![1] = Append(@, c)]
      PROVE  Longer(Pipes(dn', job'), Pipes(dn, job), c)
  <2>1. PICK E : E = dn'
    OBVIOUS
  <2>2. E[1] = Append(dn[1], c) /\ \A h \in Hops \ {1} : E[h] = dn[h]
    BY <1>0, <1>2, <2>1 DEF Wires
  <2>3. /\ Pipes(E, job)[1] = Append(Pipes(dn, job)[1], c)
        /\ \A h \in Hops \ {1} : Pipes(E, job)[h] = Pipes(dn, job)[h]
    BY <1>0, <2>2, PipeAppended
  <2> QED
    BY <2>1, <2>3 DEF Longer
<1> QED
  BY <1>1, <1>2

\* The client's writes keep the order: its counter numbers its chunks.
LEMMA FlowClient ==
  ASSUME DownInv, TypeOK', ClientPuts
  PROVE  Flow'
<1> USE DEF wires, relays, exit, client, hist
<1> DEFINE P == Pipes(dn, job)
           Q == Pipes(dn', job')
           n == st[N].data
           m == Len(delivered)
<1>0. /\ TypeOK /\ Back /\ Sending /\ InOrder(P) /\ AllChunks(P, sent)
      /\ DownOrdered /\ P \in Wires /\ Q \in Wires /\ (phase \in Early => Lacks(P, "BEGIN"))
  BY PipesType DEF DownInv, TypeOK
<1>1. /\ m <= n /\ m <= sent
      /\ IF m = n THEN From(P, n) ELSE Over \/ (n < sent /\ From(P, n + 1))
  BY DEF DownInv, InStep, DownOrdered
<1>2. sent \in Nat /\ n \in Nat /\ m \in Nat /\ ctr \in Counters
  <2>1. N \in Hops /\ st \in Relays /\ delivered \in Seq(Chunk)
    BY <1>0 DEF TypeOK, Hops
  <2> QED
    BY SMTT(30), <1>0, <2>1 DEF TypeOK, Relays, ConnState
<1>3. UNCHANGED <<st, job, delivered>>
  BY DEF ClientPuts, SendConnect, SendBegin, SendData
<1>4. Next
  BY DEF ClientPuts, Next, Handler
<1>5. ASSUME InOrder(Q), AllChunks(Q, sent'), sent' \in {sent, sent + 1},
             \A l \in 0 .. sent : From(P, l) => From(Q, l), Over => NoSetup(Q),
             phase' \in Early => Lacks(Q, "BEGIN")
      PROVE  Flow'
  <2>1. Over => Over'
    <3> SUFFICES ASSUME Over
                 PROVE  Over'
      OBVIOUS
    <3>1. NoSetup(Q)
      BY <1>5
    <3> QED
      BY <1>0, <1>4, <3>1, OverNext
  <2> HIDE DEF P, Q, n, m
  <2>2. IF m = n THEN From(Q, n) ELSE Over' \/ (n < sent' /\ From(Q, n + 1))
    BY <1>1, <1>2, <1>5, <2>1
  <2>3. InStep'
    BY <1>1, <1>3, <2>2 DEF InStep, Q, n, m
  <2>4. DownOrdered'
    BY <1>0, <1>2, <1>3, <1>5 DEF DownOrdered, m
  <2> QED
    BY <1>5, <2>3, <2>4 DEF Flow, Q
<1>6. ASSUME dn' = dn, sent' = sent
      PROVE  Flow'
  <2>1. Q = P
    BY <1>3, <1>6
  <2> HIDE DEF P, Q
  <2>2. Over => NoSetup(Q)
    BY <2>1 DEF Over, P
  <2> QED
    BY <1>0, <1>4, <1>5, <1>6, <2>1, <2>2, SendingNext
<1> HIDE DEF P, Q, n, m
<1>7. ASSUME SendConnect \/ SendBegin
      PROVE  Flow'
  <2>1. PICK cmd \in Setup :
          /\ phase' \in Early => cmd # "BEGIN"
          /\ \E ok \in BOOLEAN : ClientWrites(Sealed(cmd, Onion(1, ctr.begin), Cipher, N), ok)
    BY <1>7 DEF SendConnect, SendBegin, Setup, Return, Early
  <2>2. PICK ok \in BOOLEAN : ClientWrites(Sealed(cmd, Onion(1, ctr.begin), Cipher, N), ok)
    BY <2>1
  <2> DEFINE c == Sealed(cmd, Onion(1, ctr.begin), Cipher, N)
  <2>3. c \in Cell /\ c.cmd \in Setup
    <3>1. cmd \in Cmd /\ ctr.begin \in Nat /\ Cipher \in Chunk /\ N \in Nat
      BY <1>2, <2>1 DEF Setup, Cmd, Counters, Cipher, Chunk
    <3>2. c \in Cell
      BY <3>1, OwnOnionType
    <3> QED
      BY <3>2 DEF Sealed
  <2>4. phase \in Early /\ sent' = sent
    BY <1>7 DEF SendConnect, SendBegin, Early
  <2>5. sent = 0 /\ ~Over
    BY <1>0, <2>4 DEF Sending, Over
  <2>b. phase' \in Early => c.cmd # "BEGIN"
    BY <2>1 DEF Sealed
  <2> HIDE DEF c
  <2>6. dn' = dn \/ Longer(Q, P, c)
    BY <1>0, <1>3, <2>2, <2>3, ClientAppends DEF P, Q, c
  <2>7. ASSUME Longer(Q, P, c)
        PROVE  Flow'
    <3>1. c.cmd # "DATA"
      BY <2>3 DEF Setup
    <3>2. /\ InOrder(Q) /\ AllChunks(Q, sent) /\ \A l \in 0 .. sent : From(P, l) => From(Q, l)
          /\ c.cmd # "BEGIN" => Lacks(Q, "BEGIN")
      <4>2. /\ InOrder(Q) /\ (c.cmd # "DATA" => AllChunks(Q, sent))
            /\ \A l \in 0 .. sent : From(P, l) => From(Q, l)
            /\ c.cmd # "BEGIN" => Lacks(Q, "BEGIN")
        <5>1. P \in Wires /\ sent \in Nat /\ InOrder(P) /\ AllChunks(P, sent) /\ c \in Cell
          BY <1>0, <1>2, <2>3
        <5>2. \/ c.cmd = "DATA" /\ c.body = App(sent + 1) /\ c.layers = Onion(1, sent)
              \/ c.cmd \in Setup /\ sent = 0 /\ Lacks(P, "BEGIN")
          BY <1>0, <2>3, <2>4, <2>5
        <5> QED
          BY <1>0, <2>4, <2>7, <5>1, <5>2, AppendedFacts DEF Longer
      <4> QED
        BY <3>1, <4>2
    <3>3. phase' \in Early => c.cmd # "BEGIN"
      BY <2>b
    <3> QED
      BY <1>5, <2>4, <2>5, <3>2, <3>3
  <2> QED
    BY <1>6, <2>4, <2>6, <2>7
<1>8. ASSUME SendData
      PROVE  Flow'
  <2>e. phase' \notin Early
    BY <1>8 DEF SendData, Early
  <2>1. \/ dn' = dn /\ sent' = sent
        \/ \E room \in Rooms :
             /\ sent' = sent + 1
             /\ ClientWrites(Sealed("DATA", Onion(1, ctr.data), App(sent + 1), room), TRUE)
    BY <1>8 DEF SendData, ClientWrites
  <2>2. ASSUME NEW room \in Rooms, sent' = sent + 1,
               ClientWrites(Sealed("DATA", Onion(1, ctr.data), App(sent + 1), room), TRUE)
        PROVE  Flow'
    <3> DEFINE c == Sealed("DATA", Onion(1, ctr.data), App(sent + 1), room)
    <3>1. ctr.data = sent
      BY <1>0, <1>8 DEF SendData, Sending
    <3>2. c \in Cell
      <4>1. "DATA" \in Cmd /\ ctr.data \in Nat /\ App(sent + 1) \in Chunk /\ room \in Nat
        BY <1>2, <3>1 DEF Cmd, App, Chunk
      <4> QED
        BY <4>1, OwnOnionType
    <3>3. c.cmd = "DATA" /\ c.body = App(sent + 1) /\ c.layers = Onion(1, sent)
      BY <3>1 DEF Sealed
    <3>4. ClientWrites(c, TRUE)
      BY <2>2
    <3> HIDE DEF c
    <3>5. dn' = dn \/ Longer(Q, P, c)
      BY <1>0, <1>3, <3>2, <3>4, ClientAppends DEF P, Q
    <3>6. CASE dn' = dn
      <4>1. Q = P
        BY <1>3, <3>6 DEF P, Q
      <4>2. AllChunks(Q, sent')
        BY <1>0, <1>2, <2>2, <4>1, ChunksMono
      <4>3. Over => NoSetup(Q)
        BY <4>1 DEF Over, P
      <4> QED
        BY <1>0, <1>5, <2>e, <2>2, <4>1, <4>2, <4>3
    <3>7. CASE Longer(Q, P, c)
      <4>1. /\ InOrder(Q) /\ AllChunks(Q, sent + 1)
            /\ \A l \in 0 .. sent : From(P, l) => From(Q, l)
        BY <1>0, <1>2, <3>2, <3>3, <3>7, AppendedFacts DEF Longer
      <4>2. NoSetup(P) => NoSetup(Q)
        BY <1>0, <3>2, <3>3, <3>7, AppendedSetup DEF Longer
      <4>3. Over => NoSetup(Q)
        BY <4>2 DEF Over, P
      <4> QED
        BY <1>5, <2>e, <2>2, <4>1, <4>3
    <3> QED
      BY <3>5, <3>6, <3>7
  <2> QED
    BY <1>6, <2>1, <2>2
<1> QED
  BY <1>7, <1>8 DEF ClientPuts
-----------------------------------------------------------------------------
(***************************************************************************)
(* The exit opens DATA.                                                    *)
(***************************************************************************)
\* The cell in the exit's hand, and the number of its chunk.
Taken == job[N]["up"].cell
TakenNo == Taken.body.no

\* The cell in the exit's hand is the first of the way down, with the next chunk of
\* those that are left; it opens if the exit's counter is at that chunk.
LEMMA OpeningCell ==
  ASSUME DownInv, job[N]["up"].pc = "open"
  PROVE  /\ TakenNo \in 1 .. sent /\ Text(Taken, 1) = App(TakenNo)
         /\ OpensData(N, "up") <=> TakenNo = st[N].data + 1
         /\ \A x \in Nat : From(Pipes(dn, job), x) => TakenNo > x
<1> DEFINE c == job[N]["up"].cell
           no == c.body.no
           n == st[N].data
           q == Pipes(dn, job)[N]
<1>0. /\ N \in Hops /\ "up" \in Sides /\ dn \in Wires /\ job \in Jobs /\ c \in Cell
      /\ InHand(job[N]["up"]) /\ st \in Relays /\ sent \in Nat
  BY DEF DownInv, TypeOK, Hops, Sides, Jobs, Job, InHand
<1>1. /\ AllChunks(Pipes(dn, job), sent) /\ c.cmd = "DATA" /\ job[N]["up"].nonce = n
  BY <1>0 DEF DownInv, Back, BackJob, ExitAlone
<1>2. Len(q) = Len(dn[N]) + 1 /\ q[1] = c /\ Len(dn[N]) \in Nat
  BY <1>0, PipeHead DEF Wires
<1>n. n \in Nat
  BY <1>0 DEF Relays, ConnState
<1> HIDE DEF q, n
<1>3. 1 \in 1 .. Len(q)
  BY <1>2
<1>4. ChunkCell(N, c, sent)
  BY <1>0, <1>1, <1>2, <1>3 DEF AllChunks, q
<1>5. no \in 1 .. sent /\ c.body = App(no) /\ c.layers = Onion(N, no - 1)
  BY <1>1, <1>4 DEF ChunkCell
<1>6. ASSUME NEW x \in Nat, From(Pipes(dn, job), x)
      PROVE  no > x
  BY <1>0, <1>1, <1>2, <1>3, <1>6 DEF From, q
<1>7. Onion(N, no - 1) = [k \in 1 .. 1 |-> [hop |-> N + k - 1, ctr |-> no - 1]]
  <2>1. N - N + 1 = 1
    OBVIOUS
  <2> QED
    BY <2>1 DEF Onion
<1> DEFINE l == c.layers
<1>8. l \in Seq(Layer) /\ DOMAIN l = 1 .. 1 /\ l[1] = [hop |-> N, ctr |-> no - 1]
  <2>1. l \in Seq(Layer)
    BY <1>0 DEF Cell
  <2>2. N + 1 - 1 = N /\ 1 \in 1 .. 1
    OBVIOUS
  <2> QED
    BY <1>5, <1>7, <2>1, <2>2
<1> HIDE DEF l
<1>9. Len(l) = 1 /\ l # <<>> /\ Head(l) = [hop |-> N, ctr |-> no - 1]
  BY SMTT(30), <1>8
<1>10. Opens(c, N, n) <=> no - 1 = n
  BY <1>9 DEF Opens, l
<1>11. no - 1 = n <=> no = n + 1
  BY <1>5, <1>n
<1>12. Text(c, 1) = App(no)
  BY <1>5, <1>9 DEF Text, l
<1>13. OpensData(N, "up") <=> no = n + 1
  BY <1>1, <1>10, <1>11 DEF OpensData
<1> QED
  BY <1>5, <1>6, <1>12, <1>13 DEF TakenNo, Taken, n

\* With it dealt with, what is left comes after it.
LEMMA OpeningRest ==
  ASSUME DownInv, job[N]["up"].pc = "open", dn' = dn, NEW k, ~InHand(k),
         job' = [job EXCEPT ![N]["up"] = k]
  PROVE  /\ From(Pipes(dn', job'), TakenNo) /\ NoSetup(Pipes(dn', job'))
<1> DEFINE c == job[N]["up"].cell
           P == Pipes(dn, job)
           q == P[N]
           Q == Pipes(dn', job')
<1>0. /\ N \in Hops /\ "up" \in Sides /\ dn \in Wires /\ job \in Jobs
      /\ InHand(job[N]["up"]) /\ InOrder(P)
  BY DEF DownInv, TypeOK, Hops, Sides, InHand
<1>1. c.cmd = "DATA"
  BY <1>0 DEF DownInv, Back, BackJob
<1>2. /\ Len(q) = Len(dn[N]) + 1 /\ q[1] = c /\ Len(dn[N]) \in Nat
      /\ \A x \in 1 .. Len(dn[N]) : q[x + 1] = dn[N][x]
  <2>1. Len(dn[N]) \in Nat
    BY <1>0 DEF Wires
  <2>2. /\ Len(q) = Len(dn[N]) + 1 /\ q[1] = c
        /\ \A x \in 1 .. Len(dn[N]) : q[x + 1] = dn[N][x]
    BY <1>0, PipeHead
  <2> QED
    BY <2>1, <2>2
<1>3. job'[N]["up"] = k /\ \A i \in Hops \ {N} : job'[i]["up"] = job[i]["up"]
  BY <1>0 DEF Jobs
<1>4. Q[N] = dn[N] /\ \A i \in Hops \ {N} : Q[i] = P[i]
  BY <1>0, <1>3 DEF Pipes
<1> HIDE DEF c, q
<1>5. ASSUME NEW i \in Hops, NEW l \in 1 .. Len(Q[i])
      PROVE  Ahead(c, Q[i][l])
  <2>1. 1 \in 1 .. Len(q)
    BY <1>2
  <2>2. CASE i = N
    <3>1. l + 1 \in 1 .. Len(q) /\ 1 < l + 1 /\ Q[i][l] = q[l + 1]
      BY SMTT(30), <1>2, <1>4, <2>2
    <3> QED
      BY <1>0, <1>2, <2>1, <3>1 DEF InOrder, q
  <2>3. CASE i # N
    <3>1. N > i
      BY <2>3 DEF Hops
    <3>2. l \in 1 .. Len(P[i]) /\ Q[i][l] = P[i][l]
      BY <1>4, <2>3
    <3> QED
      BY <1>0, <1>2, <2>1, <3>1, <3>2 DEF InOrder, q
  <2> QED
    BY <2>2, <2>3
<1>6. From(Q, c.body.no)
  <2> SUFFICES ASSUME NEW i \in Hops, NEW l \in 1 .. Len(Q[i]), Q[i][l].cmd = "DATA"
               PROVE  Q[i][l].body.no > c.body.no
    BY DEF From
  <2>1. Q[i][l].body.no \in Nat /\ c.body.no \in Nat
    <3>1. P \in Wires /\ c \in Cell
      BY <1>0, PipesType DEF Jobs, Job, c
    <3>2. Q[i] \in Seq(Cell)
      BY <1>0, <1>4, <3>1 DEF Wires
    <3>3. Q[i][l] \in Cell
      BY <3>2
    <3> QED
      BY <3>1, <3>3 DEF Cell, Chunk
  <2>2. c.body.no < Q[i][l].body.no
    BY <1>1, <1>5 DEF Ahead
  <2> QED
    BY <2>1, <2>2
<1>7. NoSetup(Q)
  BY <1>1, <1>5 DEF Ahead, NoSetup
<1> QED
  BY <1>6, <1>7 DEF TakenNo, Taken, c

\* The exit's counter takes one step with every cell, since it has no second goroutine
\* that opens any; the way down loses the cell and no other.
LEMMA OpeningStep ==
  ASSUME DownInv, TypeOK', Opening
  PROVE  /\ job[N]["up"].pc = "open" /\ st'[N].data = st[N].data + 1 /\ sent' = sent
         /\ st'[N].hidden = st[N].hidden /\ phase' = phase
         /\ Steady(Pipes(dn, job), Pipes(dn', job'))
         /\ From(Pipes(dn', job'), TakenNo) /\ NoSetup(Pipes(dn', job'))
<1> USE DEF wires, relays, exit, client, hist
<1> DEFINE j == job[N]["up"]
           n == st[N].data
           l == [j EXCEPT !.pc = "seal", !.nonce = st[N].updata]
<1>0. /\ N \in Hops /\ st \in Relays /\ dn \in Wires /\ job \in Jobs /\ job' \in Jobs /\ j \in Job
      /\ ExitAlone
  BY DEF DownInv, TypeOK, Hops, Jobs, Sides
<1>1. /\ j.pc = "open" /\ dn' = dn /\ sent' = sent /\ phase' = phase
      /\ \E v \in Bumped(j.nonce, n) : st' = [st EXCEPT ![N].data = v]
      /\ \E k \in {Idle, l} : job' = [job EXCEPT ![N]["up"] = k]
  BY DEF Opening, DeliverData, FailData, OpensData
<1>2. n \in Nat /\ j.nonce = n
  BY <1>0, <1>1 DEF Relays, ConnState, ExitAlone
<1>3. \A v \in Bumped(n, n) : v = n + 1
  BY <1>2 DEF Bumped
<1>4. st' = [st EXCEPT ![N].data = n + 1]
  BY <1>1, <1>2, <1>3
<1>5. st'[N].data = n + 1 /\ st'[N].hidden = st[N].hidden
  BY <1>0, <1>4 DEF Relays, ConnState
<1>6. ~InHand(Idle) /\ ~InHand(l)
  BY <1>0 DEF InHand, Idle, Job
<1> HIDE DEF n, l
<1>7. PICK k : ~InHand(k) /\ job' = [job EXCEPT ![N]["up"] = k]
  BY <1>1, <1>6
<1>8. Steady(Pipes(dn, job), Pipes(dn', job'))
  BY <1>0, <1>1, <1>7, SteadyDrop
<1>9. From(Pipes(dn', job'), TakenNo) /\ NoSetup(Pipes(dn', job'))
  BY <1>1, <1>7, OpeningRest
<1> QED
  BY <1>1, <1>5, <1>8, <1>9 DEF n

\* What DeliverData does to the target: it gets the chunk, or there is none any more.
LEMMA Delivers ==
  ASSUME TypeOK, DeliverData
  PROVE  \/ delivered' = Append(delivered, Text(Taken, 1)) /\ tgt = "open" /\ (strm \/ st[N].hidden)
         \/ delivered' = delivered /\ (tgt' # "open" \/ ~(strm' \/ st[N].hidden))
BY DEF DeliverData, Taken, exit, MayReturn

\* A sequence that has grown is another one.
LEMMA UnlikeAppend ==
  ASSUME NEW q \in Seq(Chunk), NEW c
  PROVE  Append(q, c) # q
<1>1. Len(Append(q, c)) = Len(q) + 1 /\ Len(q) \in Nat
  OBVIOUS
<1> QED
  BY <1>1

\* Opening a cell keeps the order, and once a chunk is missing nothing is delivered.
LEMMA FlowOpening ==
  ASSUME DownInv, TypeOK', Opening
  PROVE  Flow' /\ (Len(delivered) < st[N].data => delivered' = delivered)
<1> USE DEF wires, relays, exit, client, hist
<1> DEFINE P == Pipes(dn, job)
           Q == Pipes(dn', job')
           n == st[N].data
           m == Len(delivered)
           no == TakenNo
           Without == tgt' # "open" \/ ~(strm' \/ st'[N].hidden)
<1>0. /\ TypeOK /\ Back /\ Sending /\ InOrder(P) /\ AllChunks(P, sent) /\ DownOrdered
      /\ sent \in Nat /\ delivered \in Seq(Chunk) /\ m \in Nat /\ n \in Nat
  <2>1. N \in Hops /\ st \in Relays /\ delivered \in Seq(Chunk)
    BY DEF DownInv, TypeOK, Hops
  <2>2. m \in Nat /\ n \in Nat
    BY <2>1 DEF Relays, ConnState
  <2> QED
    BY <2>1, <2>2 DEF DownInv, TypeOK
<1>1. /\ m <= n /\ m <= sent
      /\ IF m = n THEN From(P, n) ELSE Over \/ (n < sent /\ From(P, n + 1))
  BY DEF DownInv, InStep, DownOrdered
<1>2. /\ job[N]["up"].pc = "open" /\ st'[N].data = n + 1 /\ sent' = sent
      /\ st'[N].hidden = st[N].hidden /\ phase' = phase
      /\ Steady(P, Q) /\ From(Q, no) /\ NoSetup(Q)
  BY OpeningStep
<1>3. /\ no \in 1 .. sent /\ Text(Taken, 1) = App(no) /\ (OpensData(N, "up") <=> no = n + 1)
      /\ \A x \in Nat : From(P, x) => no > x
  BY <1>2, OpeningCell
<1>4. /\ DeliverData \/ (FailData(N, "up") /\ delivered' = delivered)
      /\ DeliverData => OpensData(N, "up")
      /\ FailData(N, "up") => ~OpensData(N, "up")
  BY DEF Opening, DeliverData, FailData
<1>5. phase' \notin Early
  BY <1>0, <1>2, <1>3 DEF Sending
<1>6. Without => Over'
  BY <1>2, <1>5 DEF Over
<1>7. Over => Over'
  <2>1. Next
    <3>1. N \in Hops /\ "up" \in Sides
      BY DEF Hops, Sides
    <3> QED
      BY <3>1 DEF Opening, Next, ServeConn, ServeExit
  <2>2. NoSetup(Pipes(dn, job))'
    BY <1>2
  <2> QED
    BY <1>0, <2>1, <2>2, OverNext
<1>8. DeliverData => \/ delivered' = Append(delivered, App(no)) /\ ~Over
                     \/ delivered' = delivered /\ Without
  BY <1>0, <1>2, <1>3, Delivers DEF Over
<1>9. AllChunks(Q, sent') /\ InOrder(Q)
  BY <1>0, <1>2 DEF Steady
<1> HIDE DEF P, Q, n, no, Without
<1>10. \A x \in Nat : x <= no => From(Q, x)
  <2> SUFFICES ASSUME NEW x \in Nat, x <= no
               PROVE  From(Q, x)
    OBVIOUS
  <2>1. Q \in Wires
    BY PipesType DEF TypeOK, Q
  <2>2. ASSUME NEW i \in Hops, NEW k \in 1 .. Len(Q[i]), Q[i][k].cmd = "DATA"
        PROVE  Q[i][k].body.no > x
    <3>1. Q[i][k] \in Cell
      BY <2>1 DEF Wires
    <3>2. Q[i][k].body.no \in Nat
      BY <3>1 DEF Cell, Chunk
    <3>3. Q[i][k].body.no > no
      BY <1>2, <2>2 DEF From
    <3> QED
      BY <1>3, <3>2, <3>3
  <2> QED
    BY <2>2 DEF From
<1> DEFINE InStepAt(k) == /\ k <= n + 1
                          /\ IF k = n + 1 THEN From(Q, n + 1)
                             ELSE Over' \/ (n + 1 < sent /\ From(Q, n + 1 + 1))
<1>11. ASSUME DeliverData, delivered' = Append(delivered, App(no))
       PROVE  m = n /\ no = m + 1 /\ InStepAt(m + 1)
  <2>1. no = n + 1
    BY <1>3, <1>4, <1>11
  <2>2. m = n
    BY <1>0, <1>1, <1>3, <1>8, <1>11, <2>1, UnlikeAppend
  <2> QED
    BY <1>0, <1>10, <2>1, <2>2
<1>12. ASSUME delivered' = delivered
       PROVE  InStepAt(m)
  <2>1. CASE Over'
    BY <1>0, <1>1, <2>1
  <2>2. CASE ~Over'
    <3>1. ~Over /\ ~Without
      BY <1>6, <1>7, <2>2
    <3>2. no # n + 1
      BY <1>0, <1>3, <1>4, <1>8, <1>12, <3>1, UnlikeAppend
    <3>3. no > n
      BY <1>0, <1>1, <1>3, <3>1
    <3>4. no >= n + 2
      BY <1>0, <1>3, <3>2, <3>3
    <3>5. From(Q, n + 1 + 1) /\ n + 1 < sent
      BY <1>0, <1>3, <1>10, <3>4
    <3> QED
      BY <1>0, <1>1, <3>5
  <2> QED
    BY <2>1, <2>2
<1>13. CASE delivered' = delivered
  <2>1. InStep'
    BY <1>2, <1>12, <1>13 DEF InStep, Q, m, n
  <2>2. DownOrdered'
    BY <1>0, <1>2, <1>13 DEF DownOrdered
  <2> QED
    BY <1>5, <1>9, <1>13, <2>1, <2>2 DEF Flow, Q
<1>14. CASE DeliverData /\ delivered' = Append(delivered, App(no))
  <2>1. m = n /\ no = m + 1 /\ InStepAt(m + 1)
    BY <1>11, <1>14
  <2>2. App(no) \in Chunk
    BY <1>3 DEF App, Chunk
  <2>3. /\ Len(delivered') = m + 1 /\ delivered'[m + 1] = App(m + 1)
        /\ \A k \in 1 .. m : delivered'[k] = delivered[k]
    BY <1>0, <1>14, <2>1, <2>2 DEF m
  <2>4. DOMAIN delivered' = 1 .. m + 1
    BY <2>3 DEF TypeOK
  <2>5. InStep'
    BY <1>2, <2>1, <2>3 DEF InStep, Q, n
  <2>6. DownOrdered'
    <3>1. \A k \in 1 .. m : delivered[k] = App(k)
      BY <1>0 DEF DownOrdered, m
    <3>2. m + 1 <= sent
      BY <1>3, <2>1
    <3>3. \A k \in 1 .. m + 1 : delivered'[k] = App(k)
      BY <1>0, <2>3, <3>1
    <3> QED
      BY <1>2, <2>3, <2>4, <3>2, <3>3 DEF DownOrdered
  <2> QED
    BY <1>5, <1>9, <2>1, <2>5, <2>6 DEF Flow, Q, m, n
<1> QED
  BY <1>4, <1>8, <1>13, <1>14

\* CONNECT and BEGIN do not come back: once the client has sent them and none is on its
\* way down, none ever is.
LEMMA SetupGone ==
  ASSUME DownInv, TypeOK', Next, phase \notin Early, NoSetup(Pipes(dn, job))
  PROVE  phase' \notin Early /\ NoSetup(Pipes(dn', job'))
<1> DEFINE P == Pipes(dn, job)
           Q == Pipes(dn', job')
<1>0. TypeOK /\ Back /\ Sending /\ dn \in Wires /\ job \in Jobs /\ P \in Wires
  BY PipesType DEF DownInv, TypeOK
<1>1. phase' \notin Early
  BY <1>0, SendingNext
<1>2. CASE Opening
  BY <1>1, <1>2, OpeningStep
<1>3. CASE ClientPuts
  <2>1. SendData
    BY <1>3 DEF ClientPuts, SendConnect, SendBegin, Early
  <2>2. PICK room \in Rooms :
          \/ UNCHANGED dn
          \/ \E ok \in BOOLEAN :
               ClientWrites(Sealed("DATA", Onion(1, ctr.data), App(sent + 1), room), ok)
    BY <2>1 DEF SendData
  <2> DEFINE c == Sealed("DATA", Onion(1, ctr.data), App(sent + 1), room)
  <2>3. c \in Cell /\ c.cmd = "DATA" /\ job' = job
    <3>1. App(sent + 1) \in Chunk /\ "DATA" \in Cmd /\ ctr.data \in Nat
      BY <1>0 DEF App, Chunk, Cmd, TypeOK, Counters
    <3> QED
      BY <2>1, <3>1, OwnOnionType DEF Sealed, SendData, relays
  <2> HIDE DEF c
  <2>4. Q = P \/ Longer(Q, P, c)
    <3>1. CASE UNCHANGED dn
      BY <2>3, <3>1
    <3>2. ASSUME NEW ok \in BOOLEAN, ClientWrites(c, ok)
          PROVE  Q = P \/ Longer(Q, P, c)
      <4>1. dn' = dn \/ Longer(Q, P, c)
        BY <1>0, <2>3, <3>2, ClientAppends
      <4> QED
        BY <2>3, <4>1
    <3> QED
      BY <2>2, <3>1, <3>2 DEF c
  <2> HIDE DEF P, Q
  <2>5. NoSetup(P) => NoSetup(Q)
    BY <1>0, <2>3, <2>4, AppendedSetup DEF Longer
  <2> QED
    BY <1>1, <2>5 DEF P, Q
<1>4. CASE ~Opening /\ ~ClientPuts
  BY <1>0, <1>1, <1>4, SteadyNext DEF Stays, Steady
<1> QED
  BY <1>2, <1>3, <1>4

\* Nothing is on its way before the client sends.
LEMMA DownInit == Init => DownInv
<1> SUFFICES ASSUME Init
             PROVE  DownInv
  OBVIOUS
<1>1. TypeOK
  BY TypeInit
<1>2. N \in Hops /\ Idle.pc = "read" /\ Len(<<>>) = 0
  BY DEF Hops, Idle
<1>3. \A i \in Hops, s \in Sides : job[i][s] = Idle
  BY DEF Init
<1>4. \A i \in Hops : up[i] = <<>> /\ Pipes(dn, job)[i] = <<>>
  BY <1>2, <1>3 DEF Init, Pipes, InHand, Sides
<1>5. Back
  <2>1. BackCells(up)
    BY <1>2, <1>4 DEF BackCells
  <2>2. \A i \in Hops, s \in Sides : BackJob(i, s, Idle)
    BY <1>2 DEF BackJob
  <2> QED
    BY <1>3, <2>1, <2>2 DEF Back
<1>6. Sending
  BY DEF Init, Sending
<1>7. ExitAlone
  BY <1>2, <1>3 DEF ExitAlone, Sides
<1>8. /\ InOrder(Pipes(dn, job)) /\ AllChunks(Pipes(dn, job), sent) /\ From(Pipes(dn, job), 0)
      /\ Lacks(Pipes(dn, job), "BEGIN")
  <2> DEFINE P == Pipes(dn, job)
  <2>1. \A i \in Hops : 1 .. Len(P[i]) = {}
    BY <1>2, <1>4
  <2> HIDE DEF P
  <2>2. InOrder(P) /\ AllChunks(P, sent) /\ From(P, 0) /\ Lacks(P, "BEGIN")
    BY <2>1 DEF InOrder, AllChunks, From, Lacks
  <2> QED
    BY <2>2 DEF P
<1>9. InStep /\ DownOrdered
  BY <1>2, <1>8 DEF Init, InStep, DownOrdered
<1> QED
  BY <1>1, <1>5, <1>6, <1>7, <1>8, <1>9 DEF DownInv

\* Every step keeps the invariant, and none delivers a chunk behind a missing one.
LEMMA DownNext ==
  ASSUME DownInv, [Next]_vars
  PROVE  DownInv' /\ (Len(delivered) < st[N].data => UNCHANGED delivered)
<1>0. TypeOK /\ TypeOK' /\ Back /\ Sending /\ ExitAlone
  BY TypeNext DEF DownInv
<1>1. CASE Next
  <2>1. Back' /\ Sending' /\ ExitAlone'
    BY <1>0, <1>1, BackNext, SendingNext, AloneNext
  <2>2. Flow' /\ (Len(delivered) < st[N].data => UNCHANGED delivered)
    <3>1. CASE Opening
      BY <1>0, <3>1, FlowOpening
    <3>2. CASE ClientPuts
      <4>1. UNCHANGED delivered
        BY <3>2 DEF ClientPuts, SendConnect, SendBegin, SendData, hist
      <4> QED
        BY <1>0, <3>2, <4>1, FlowClient
    <3>3. CASE ~Opening /\ ~ClientPuts
      <4>1. Stays
        BY <1>0, <1>1, <3>3, SteadyNext
      <4>2. Flow'
        BY <1>0, <1>1, <3>3, FlowStays
      <4> QED
        BY <4>1, <4>2 DEF Stays
    <3> QED
      BY <3>1, <3>2, <3>3
  <2> QED
    BY <1>0, <2>1, <2>2 DEF Flow, DownInv
<1>2. CASE UNCHANGED vars
  <2>1. UNCHANGED <<dn, up, job, st, tgt, strm, phase, ctr, sent, delivered>>
    BY <1>2 DEF vars, wires, relays, exit, client, hist
  <2>2. (Back /\ Sending /\ ExitAlone)'
    BY <1>0, <2>1 DEF Back, Sending, ExitAlone
  <2>3. (InStep /\ DownOrdered)'
    BY <2>1 DEF DownInv, InStep, Over, DownOrdered
  <2>4. /\ InOrder(Pipes(dn, job))' /\ AllChunks(Pipes(dn, job), sent)'
        /\ (phase \in Early => Lacks(Pipes(dn, job), "BEGIN"))'
    BY <2>1 DEF DownInv
  <2> QED
    BY <1>0, <2>1, <2>2, <2>3, <2>4 DEF DownInv
<1> QED
  BY <1>1, <1>2
-----------------------------------------------------------------------------
\* What holds of the cells on their way to the exit: they are in order, carry the nonces
\* of their chunks, and are joined by none that comes back.
THEOREM DownInvariant == Spec => []DownInv
<1>1. DownInv /\ [Next]_vars => DownInv'
  BY DownNext
<1> QED
  BY <1>1, DownInit, PTL DEF Spec

\* The target gets what the application sent, unaltered and in order, with nothing
\* left out before what it gets: for every number of hops, for clear addresses and
\* hidden services, whatever is lost, torn down, expired or reset.
THEOREM DownCorrect == Spec => []DownOrdered
<1>1. DownInv => DownOrdered
  BY DEF DownInv
<1> QED
  BY <1>1, DownInvariant, PTL

\* After the first chunk that the exit fails to open or to deliver, it delivers none.
THEOREM SilenceCorrect == Spec => SilentAfterGap
<1>1. DownInv /\ [Next]_vars => [Len(delivered) < st[N].data => UNCHANGED delivered]_vars
  BY DownNext
<1> QED
  BY <1>1, DownInvariant, PTL DEF Spec, SilentAfterGap
=============================================================================
