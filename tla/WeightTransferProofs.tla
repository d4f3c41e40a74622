------------------------- MODULE WeightTransferProofs -------------------------
(***************************************************************************)
(* WeightTransfer for every chain of rollout workers, every list of        *)
(* weights, every size of the buckets and every grouping into replicas:    *)
(* who may use a buffer (Untouched), what the servers load (Intact), and   *)
(* that both together are the update WeightUpdate promises.                *)
(***************************************************************************)
EXTENDS WeightTransfer, TLAPS

-----------------------------------------------------------------------------
(* Types *)

Typed ==
    /\ version \in 1..MaxUpdates
    /\ pc \in [Nodes -> Sends \cup Receives]
    /\ pc[0] \in Sends /\ \A n \in Receivers : pc[n] \in Receives
    /\ node \in [Nodes -> NodeStates]
    /\ port \in [Receivers -> PortStates]
    /\ worker \in [Receivers -> WorkerStates]

LEMMA Constants ==
    /\ Workers \in Nat \ {0} /\ BucketSize \in Nat \ {0} /\ MaxUpdates \in Nat \ {0}
    /\ Receivers \subseteq Nodes /\ 0 \in Nodes /\ 0 \notin Receivers
    /\ Nodes \subseteq Nat /\ Len(Sizes) \in Nat /\ Weights \subseteq Nat
    /\ \A n \in Receivers : n - 1 \in Nodes /\ n - 1 # n
    /\ \A n \in Nodes : n = 0 \/ n \in Receivers
    /\ \A w \in Weights : Sizes[w] \in 1..BucketSize
BY TransferAssumption DEF Nodes, Receivers, Weights

\* What fits begins inside the buffer.
LEMMA Fitting ==
    ASSUME NEW w \in Weights, NEW i \in 0..BucketSize
    PROVE  /\ Fits(i, w) => i \in Bytes /\ i + Sizes[w] \in 0..BucketSize
           /\ Fits(0, w) /\ 0 \in Bytes
BY Constants DEF Fits, Bytes

LEMMA Written ==
    ASSUME NEW V, NEW b \in [Bytes -> V], NEW i, NEW k \in Nat, NEW cells,
           cells = [j \in 1..k |-> cells[j]], \A j \in 1..k : cells[j] \in V
    PROVE  Write(b, i, cells) \in [Bytes -> V]
<1>1. Len(cells) = k
  OBVIOUS
<1> QED BY <1>1 DEF Write

LEMMA TypedInit ==
    /\ NewNode \in NodeStates /\ NewPort \in PortStates /\ NewWorker \in WorkerStates
    /\ NoBucket \in Buckets
    /\ Starts \in [Nodes -> Sends \cup Receives]
    /\ Starts[0] = "send" /\ \A n \in Receivers : Starts[n] = "start"
<1>1. Blank \in Buffer
  BY DEF Blank, Buffer, Cell
<1>2. NoBucket \in Buckets /\ NoRead \in Reads /\ 0 \in 0..BucketSize
  BY Constants DEF NoBucket, NoRead, Bucket, Buckets, Reads
<1>3. NewNode \in NodeStates
  BY <1>1, <1>2 DEF NewNode, NodeStates
<1>4. NewPort \in PortStates
  BY <1>1, <1>2 DEF NewPort, PortStates
<1>5. NewWorker \in WorkerStates
  BY <1>2 DEF NewWorker, WorkerStates
<1> QED BY <1>2, <1>3, <1>4, <1>5, Constants DEF Starts, Sends, Receives

-----------------------------------------------------------------------------
(* Every step keeps the types *)

\* What a step may make of the engine of node n.
SameNode(n) == node'[n] = node[n]

\* The cells of a weight that lies in a buffer.
LEMMA CellsTyped ==
    ASSUME NEW b \in Buffer, NEW w \in Weights, NEW i \in Bytes, Fits(i, w)
    PROVE  /\ Cells(b, i, w) \in Seq(Cell) /\ Len(Cells(b, i, w)) = Sizes[w]
           /\ \A j \in 1..Sizes[w] :
                 i + j - 1 \in Bytes /\ Cells(b, i, w)[j] = b[i + j - 1]
<1>1. Sizes[w] \in 1..BucketSize /\ i \in Nat /\ BucketSize \in Nat
  BY Constants DEF Bytes
<1>2. \A j \in 1..Sizes[w] : i + j - 1 \in Bytes
  BY <1>1, Constants DEF Fits, Bytes
<1>3. \A j \in 1..Sizes[w] : b[i + j - 1] \in Cell
  BY <1>2 DEF Buffer
<1>4. Cells(b, i, w) \in [1..Sizes[w] -> Cell]
  BY <1>3 DEF Cells
<1>5. \A j \in 1..Sizes[w] : Cells(b, i, w)[j] = b[i + j - 1]
  BY DEF Cells
<1>6. Cells(b, i, w) \in Seq(Cell) /\ Len(Cells(b, i, w)) = Sizes[w]
  <2> DEFINE cells == Cells(b, i, w)
             k == Sizes[w]
  <2>1. cells \in [1..k -> Cell] /\ k \in Nat
    BY <1>1, <1>4
  <2> HIDE DEF cells, k
  <2>2. cells \in Seq(Cell) /\ Len(cells) = k
    BY <2>1
  <2> QED BY <2>2 DEF cells, k
<1> QED BY <1>2, <1>5, <1>6

\* What weight w of this version looks like.
New(w) == [j \in 1..Sizes[w] |-> <<w, version>>]

LEMMA CopiesTyped ==
    ASSUME Typed, NEW n \in Nodes, Copies(n)
    PROVE  /\ Typed' /\ node[n].stream # <<>>
           /\ UNCHANGED <<version, pc, worker>>
           /\ \A m \in Nodes \ {n} : SameNode(m)
           /\ node'[n].stream = Tail(node[n].stream)
           /\ \A f \in {"out", "bucket", "offset", "incoming", "index", "post", "link",
                        "read"} : node'[n][f] = node[n][f]
           /\ \A b \in {0, 1} :
                 n > 0 \/ Head(node[n].stream).buffer # b =>
                     node'[n].buffers[b] = node[n].buffers[b]
           /\ n = 0 =>
                 /\ port' = port
                 /\ LET c == Head(node[n].stream)
                    IN  node'[n].buffers[c.buffer]
                           = Write(node[n].buffers[c.buffer], c.from, New(c.weight))
           /\ n # 0 =>
                 LET c == Head(node[n].stream)
                 IN  port'[n].shared = Write(port[n].shared, c.to,
                         Cells(node[n].buffers[c.buffer], c.from, c.weight))
           /\ \A m \in Receivers : m # n => port'[m] = port[m]
           /\ \A m \in Receivers : \A f \in {"packed", "offset", "request", "reply"} :
                 port'[m][f] = port[m][f]
<1> DEFINE c == Head(node[n].stream)
           rest == Tail(node[n].stream)
<1>1. node[n] \in NodeStates /\ node[n].stream \in Seq(QueuedCopies) /\ ~Idle(n)
  BY DEF Typed, NodeStates, Copies
<1>2. c \in QueuedCopies /\ rest \in Seq(QueuedCopies) /\ node[n].stream # <<>>
  BY <1>1 DEF Idle
<1>3. UNCHANGED <<version, pc, worker>>
  BY DEF Copies
<1>6. Sizes[c.weight] \in Nat /\ c.weight \in Weights /\ c.buffer \in {0, 1}
      /\ c.from \in Bytes /\ Fits(c.from, c.weight)
  <2> HIDE DEF c
  <2>1. /\ c.weight \in Weights /\ c.buffer \in {0, 1}
        /\ c.from \in Bytes /\ Fits(c.from, c.weight)
    BY <1>2 DEF QueuedCopies
  <2>2. Sizes[c.weight] \in 1..BucketSize /\ BucketSize \in Nat
    BY <2>1, Constants
  <2> QED BY <2>1, <2>2
<1>4. CASE n = 0
  <2> DEFINE filled == Write(node[n].buffers[c.buffer], c.from, New(c.weight))
  <2>1. filled \in Buffer
    <3>1. node[n].buffers[c.buffer] \in [Bytes -> Cell]
      BY <1>1, <1>6 DEF NodeStates, Buffer
    <3>3. /\ \A j \in 1..Sizes[c.weight] : New(c.weight)[j] \in Cell
          /\ New(c.weight) = [j \in 1..Sizes[c.weight] |-> New(c.weight)[j]]
      BY <1>6 DEF Typed, Cell, New
    <3> HIDE DEF c
    <3> QED BY <1>6, <3>1, <3>3, Written DEF Buffer
  <2>2. node' = [node EXCEPT ![n] = [node[n] EXCEPT
                    !.stream = rest,
                    !.buffers = [node[n].buffers EXCEPT ![c.buffer] = filled]]]
    <3>1. node' = [node EXCEPT
              ![n].stream = rest,
              ![n].buffers[c.buffer] = Write(@, c.from, New(c.weight))]
      BY <1>4 DEF Copies, New
    <3>2. n \in Nodes /\ node \in [Nodes -> NodeStates]
      BY DEF Typed
    <3> HIDE DEF c, rest
    <3> QED BY <1>1, <3>1, <3>2 DEF NodeStates
  <2>3. port' = port
    BY <1>4 DEF Copies
  <2> HIDE DEF c, rest, filled
  <2>4. node'[n] = [node[n] EXCEPT
            !.stream = rest,
            !.buffers = [node[n].buffers EXCEPT ![c.buffer] = filled]]
    BY <2>2 DEF Typed
  <2>5. node'[n] \in NodeStates
    <3>1. [node[n].buffers EXCEPT ![c.buffer] = filled] \in [{0, 1} -> Buffer]
      BY <1>1, <2>1 DEF NodeStates
    <3> QED BY <1>1, <1>2, <2>4, <3>1 DEF NodeStates
  <2>6. node' \in [Nodes -> NodeStates]
    BY <2>2, <2>5 DEF Typed
  <2>7. Typed'
    BY <1>3, <2>3, <2>6 DEF Typed
  <2>8. node'[n].buffers[c.buffer] = filled
    BY <1>1, <1>6, <2>4 DEF NodeStates
  <2> USE DEF c, rest
  <2>9. \A m \in Nodes \ {n} : SameNode(m)
    BY <2>2 DEF SameNode, Typed
  <2>10. \A b \in {0, 1} : c.buffer # b => node'[n].buffers[b] = node[n].buffers[b]
    BY <1>1, <2>4 DEF NodeStates
  <2>11. /\ node'[n].stream = Tail(node[n].stream)
         /\ \A f \in {"out", "bucket", "offset", "incoming", "index", "post", "link",
                      "read"} : node'[n][f] = node[n][f]
    BY <1>1, <2>4 DEF NodeStates
  <2>12. \A b \in {0, 1} : n > 0 \/ Head(node[n].stream).buffer # b =>
                node'[n].buffers[b] = node[n].buffers[b]
    BY <1>4, <2>10
  <2>13. node'[n].buffers[c.buffer]
            = Write(node[n].buffers[c.buffer], c.from, New(c.weight))
    BY <2>8 DEF filled
  <2> HIDE DEF rest
  <2> QED BY <1>2, <1>3, <1>4, <2>3, <2>7, <2>9, <2>11, <2>12, <2>13
<1>5. CASE n # 0
  <2>0. n \in Receivers
    BY <1>5, Constants
  <2> DEFINE cells == Cells(node[n].buffers[c.buffer], c.from, c.weight)
             filled == Write(port[n].shared, c.to, cells)
  <2>1. filled \in Buffer
    <3>1. port[n].shared \in [Bytes -> Cell] /\ node[n].buffers[c.buffer] \in Buffer
      BY <1>1, <1>6, <2>0 DEF NodeStates, PortStates, Buffer, Typed
    <3>3. cells \in Seq(Cell) /\ Len(cells) = Sizes[c.weight]
      <4> HIDE DEF c
      <4> QED BY <1>6, <3>1, CellsTyped
    <3>4. /\ \A j \in 1..Sizes[c.weight] : cells[j] \in Cell
          /\ cells = [j \in 1..Sizes[c.weight] |-> cells[j]]
      <4> HIDE DEF c, cells
      <4> QED BY <1>6, <3>3
    <3> HIDE DEF c, cells
    <3> QED BY <1>6, <3>1, <3>4, Written DEF Buffer
  <2>2. /\ node' = [node EXCEPT ![n] = [node[n] EXCEPT !.stream = rest]]
        /\ port' = [port EXCEPT ![n] = [port[n] EXCEPT !.shared = filled]]
    BY <1>5 DEF Copies, Typed
  <2> HIDE DEF c, rest, filled
  <2>4. /\ node'[n] = [node[n] EXCEPT !.stream = rest]
        /\ port'[n] = [port[n] EXCEPT !.shared = filled]
        /\ port[n] \in PortStates
    BY <2>0, <2>2 DEF Typed
  <2>5. node'[n] \in NodeStates /\ port'[n] \in PortStates
    BY <1>1, <1>2, <2>1, <2>4 DEF NodeStates, PortStates
  <2>6. node' \in [Nodes -> NodeStates] /\ port' \in [Receivers -> PortStates]
    BY <2>0, <2>2, <2>5 DEF Typed
  <2>7. Typed'
    BY <1>3, <2>6 DEF Typed
  <2>8. port'[n].shared = filled
    BY <2>4 DEF PortStates
  <2>9. port'[n].shared = Write(port[n].shared, c.to,
                             Cells(node[n].buffers[c.buffer], c.from, c.weight))
    BY <2>8 DEF filled
  <2> USE DEF c, rest
  <2>10. \A m \in Nodes \ {n} : SameNode(m)
    BY <2>2 DEF SameNode, Typed
  <2>11. /\ node'[n].stream = Tail(node[n].stream)
         /\ node'[n].buffers = node[n].buffers
         /\ \A f \in {"out", "bucket", "offset", "incoming", "index", "post", "link",
                      "read"} : node'[n][f] = node[n][f]
    BY <1>1, <2>4 DEF NodeStates
  <2>12. \A m \in Receivers : m # n => port'[m] = port[m]
    BY <2>2 DEF Typed
  <2>13. \A f \in {"packed", "offset", "request", "reply"} : port'[n][f] = port[n][f]
    BY <2>4 DEF PortStates
  <2> QED BY <1>2, <1>3, <1>5, <2>7, <2>9, <2>10, <2>11, <2>12, <2>13
<1> QED BY <1>4, <1>5

LEMMA TransferTyped ==
    ASSUME Typed, NEW n \in Receivers, Transfer(n)
    PROVE  /\ Typed' /\ node[n].read.got < BucketSize
           /\ UNCHANGED <<version, pc, port, worker>>
           /\ \A m \in Nodes \ {n, n-1} : SameNode(m)
           /\ node'[n].read = [node[n].read EXCEPT !.got = @ + 1]
           /\ \A f \in {"out", "bucket", "offset", "incoming", "index", "post", "link",
                        "stream"} : node'[n][f] = node[n][f]
           /\ \A f \in {"buffers", "out", "bucket", "offset", "incoming", "index", "link",
                        "read", "stream"} : node'[n-1][f] = node[n-1][f]
           /\ node'[n-1].post = IF node[n].read.got + 1 = BucketSize THEN "read"
                                ELSE node[n-1].post
           /\ \A b \in {0, 1} : node[n].read.to # b =>
                 node'[n].buffers[b] = node[n].buffers[b]
           /\ node'[n].buffers[node[n].read.to]
                 = [node[n].buffers[node[n].read.to] EXCEPT ![node[n].read.got] =
                       node[n-1].buffers[node[n].read.from][node[n].read.got]]
<1> DEFINE r == node[n].read
           cell == node[n-1].buffers[r.from][r.got]
           buffer == [node[n].buffers[r.to] EXCEPT ![r.got] = cell]
           post == IF r.got + 1 = BucketSize THEN "read" ELSE node[n-1].post
<1>0. n \in Nodes /\ n - 1 \in Nodes /\ n # n - 1
  BY Constants
<1>1. node[n] \in NodeStates /\ node[n-1] \in NodeStates /\ r \in Reads
  BY <1>0 DEF Typed, NodeStates
<1>2. r.got < BucketSize /\ UNCHANGED <<version, pc, port, worker>>
  BY DEF Transfer
<1>3. r.got \in Bytes /\ r.got + 1 \in 0..BucketSize
  BY <1>1, <1>2, Constants DEF Reads, Bytes
<1>4. cell \in Cell /\ buffer \in Buffer
  BY <1>1, <1>3 DEF NodeStates, Reads, Buffer
<1>5. node' = [node EXCEPT
                 ![n] = [node[n] EXCEPT
                     !.buffers = [node[n].buffers EXCEPT ![r.to] = buffer],
                     !.read = [r EXCEPT !.got = r.got + 1]],
                 ![n-1] = [node[n-1] EXCEPT !.post = post]]
  BY <1>0, <1>1 DEF Transfer, Typed, NodeStates
<1> HIDE DEF buffer
<1>6. /\ node'[n] = [node[n] EXCEPT
            !.buffers = [node[n].buffers EXCEPT ![r.to] = buffer],
            !.read = [r EXCEPT !.got = r.got + 1]]
      /\ node'[n-1] = [node[n-1] EXCEPT !.post = post]
      /\ \A m \in Nodes \ {n, n-1} : node'[m] = node[m]
  BY <1>0, <1>5 DEF Typed
<1>7. node'[n] \in NodeStates /\ node'[n-1] \in NodeStates
  <2>1. [r EXCEPT !.got = r.got + 1] \in Reads
    BY <1>1, <1>3 DEF Reads
  <2>2. [node[n].buffers EXCEPT ![r.to] = buffer] \in [{0, 1} -> Buffer]
    BY <1>1, <1>4 DEF NodeStates
  <2>3. post \in {"none", "posted", "read"}
    BY <1>1 DEF NodeStates
  <2> HIDE DEF r, post
  <2> QED BY <1>1, <1>6, <2>1, <2>2, <2>3 DEF NodeStates
<1>8. node' \in [Nodes -> NodeStates]
  BY <1>5, <1>6, <1>7 DEF Typed
<1>9. Typed'
  BY <1>2, <1>8 DEF Typed
<1>10. /\ node'[n].read = [node[n].read EXCEPT !.got = @ + 1]
       /\ \A f \in {"out", "bucket", "offset", "incoming", "index", "post", "link",
                    "stream"} : node'[n][f] = node[n][f]
       /\ \A b \in {0, 1} : r.to # b => node'[n].buffers[b] = node[n].buffers[b]
  BY <1>1, <1>6 DEF NodeStates
<1>11. /\ node'[n-1].post = post
       /\ \A f \in {"buffers", "out", "bucket", "offset", "incoming", "index", "link",
                    "read", "stream"} : node'[n-1][f] = node[n-1][f]
  BY <1>1, <1>6 DEF NodeStates
<1>12. node'[n].buffers[r.to] = buffer
  BY <1>1, <1>6 DEF NodeStates, Reads
<1> QED BY <1>2, <1>6, <1>9, <1>10, <1>11, <1>12 DEF SameNode, buffer

\* A node alone changes, to an engine state x.
Becomes(n, x) == node' = [node EXCEPT ![n] = x]

LEMMA Became ==
    ASSUME Typed, NEW n \in Nodes, NEW x \in NodeStates, Becomes(n, x)
    PROVE  /\ node' \in [Nodes -> NodeStates] /\ node'[n] = x
           /\ \A m \in Nodes \ {n} : SameNode(m)
BY DEF Typed, Becomes, SameNode

LEMMA WentTyped ==
    ASSUME Typed, NEW n \in Nodes, NEW place, Goes(n, place),
           place \in IF n = 0 THEN Sends ELSE Receives
    PROVE  /\ pc' \in [Nodes -> Sends \cup Receives] /\ pc'[n] = place
           /\ pc'[0] \in Sends /\ \A m \in Receivers : pc'[m] \in Receives
           /\ \A m \in Nodes \ {n} : pc'[m] = pc[m]
BY Constants DEF Typed, Goes

LEMMA Appended ==
    ASSUME NEW S, NEW q \in Seq(S), NEW x \in S
    PROVE  /\ Append(q, x) \in Seq(S) /\ Len(q) \in Nat
           /\ Len(Append(q, x)) = Len(q) + 1 /\ Append(q, x)[Len(q) + 1] = x
           /\ \A i \in 1..Len(q) : Append(q, x)[i] = q[i]
           /\ \A i \in 1..Len(q) + 1 : i \in 1..Len(q) \/ i = Len(q) + 1
OBVIOUS

LEMMA QueuedTyped ==
    ASSUME Typed, NEW n \in Nodes, NEW w \in Weights,
           NEW from \in Bytes, NEW to \in Bytes, Fits(from, w), Fits(to, w)
    PROVE  /\ Queued(n, w, from, to) \in Seq(QueuedCopies)
           /\ Queued(n, w, from, to) # <<>>
           /\ \A b \in {0, 1} :
                 (\A i \in 1..Len(node[n].stream) : node[n].stream[i].buffer = b)
                     /\ node[n].out = b =>
                 \A i \in 1..Len(Queued(n, w, from, to)) :
                     Queued(n, w, from, to)[i].buffer = b
<1> DEFINE e == [weight |-> w, buffer |-> node[n].out, from |-> from, to |-> to]
<1>1. node[n].stream \in Seq(QueuedCopies) /\ node[n].out \in {0, 1}
  BY DEF Typed, NodeStates
<1>2. e \in QueuedCopies /\ e.buffer = node[n].out
  BY <1>1 DEF QueuedCopies
<1>3. Queued(n, w, from, to) = Append(node[n].stream, e)
  BY DEF Queued
<1> HIDE DEF e
<1> QED BY <1>1, <1>2, <1>3

LEMMA MessageTyped ==
    ASSUME Typed, NEW n \in Nodes, NEW b \in Buckets
    PROVE  /\ Message(n, b) \in Messages /\ Message(n, b).buffer = node[n].out
           /\ Message(n, b).bucket = b
           /\ Append(node[n].link, Message(n, b)) \in Seq(Messages)
           /\ node[n].link = <<>> =>
                 /\ Len(Append(node[n].link, Message(n, b))) = 1
                 /\ Append(node[n].link, Message(n, b))[1] = Message(n, b)
<1>1. node[n].link \in Seq(Messages) /\ node[n].out \in {0, 1}
  BY DEF Typed, NodeStates
<1>2. Message(n, b) \in Messages /\ Message(n, b).buffer = node[n].out
      /\ Message(n, b).bucket = b
  BY <1>1 DEF Message, Messages
<1> QED BY <1>1, <1>2

LEMMA PackTyped ==
    ASSUME Typed, Pack
    PROVE  /\ Typed' /\ UNCHANGED <<version, pc, port, worker>> /\ pc[0] = "send"
           /\ \A m \in Receivers : SameNode(m)
           /\ \A f \in {"buffers", "out", "incoming", "post", "link", "read"} :
                 node'[0][f] = node[0][f]
           /\ \A b \in {0, 1} :
                 (\A i \in 1..Len(node[0].stream) : node[0].stream[i].buffer = b)
                     /\ node[0].out = b =>
                 \A i \in 1..Len(node'[0].stream) : node'[0].stream[i].buffer = b
           /\ node[0].index \in Weights /\ Fits(node[0].offset, node[0].index)
           /\ Meta(node[0].index, node[0].offset) \in Metas
           /\ node'[0].stream = Queued(0, node[0].index, node[0].offset, 0)
           /\ node'[0].bucket.meta
                 = Append(node[0].bucket.meta, Meta(node[0].index, node[0].offset))
           /\ node'[0].bucket.last = node[0].bucket.last
           /\ node'[0].offset = node[0].offset + Sizes[node[0].index]
           /\ node'[0].index = node[0].index + 1
<1> DEFINE from == node[0].offset
           w == node[0].index
           s == Queued(0, w, from, 0)
           ms == Append(node[0].bucket.meta, Meta(w, from))
           k == [node[0].bucket EXCEPT !.meta = ms]
           end == from + Sizes[w]
           x == [node[0] EXCEPT !.stream = s, !.bucket = k, !.offset = end,
                                !.index = w + 1]
<1>1. node[0] \in NodeStates /\ node[0].bucket \in Buckets /\ 0 \in Nodes
  BY Constants DEF Typed, NodeStates
<1>2. w \in Weights /\ Fits(from, w) /\ from \in 0..BucketSize
  BY <1>1, Constants DEF Pack, NodeStates, Weights
<1>3. /\ from \in Bytes /\ end \in 0..BucketSize /\ 0 \in Bytes /\ Fits(0, w)
      /\ Meta(w, from) \in Metas
  <2> HIDE DEF w, from
  <2> QED BY <1>2, Fitting DEF Meta, Metas
<1>4. UNCHANGED <<version, pc, port, worker>> /\ pc[0] = "send"
  BY DEF Pack
<1>5. /\ s \in Seq(QueuedCopies)
      /\ \A b \in {0, 1} :
            (\A i \in 1..Len(node[0].stream) : node[0].stream[i].buffer = b)
                /\ node[0].out = b => \A i \in 1..Len(s) : s[i].buffer = b
  <2> HIDE DEF w, from
  <2> QED BY <1>1, <1>2, <1>3, QueuedTyped
<1>6. k \in Buckets /\ k.meta = ms /\ k.last = node[0].bucket.last
  <2>1. ms \in Seq(Metas)
    BY <1>1, <1>3 DEF Buckets
  <2> HIDE DEF ms
  <2> QED BY <1>1, <2>1 DEF Buckets
<1>7. Becomes(0, x)
  BY <1>1, Constants DEF Pack, Becomes, Typed, NodeStates, Buckets
<1> HIDE DEF s, k, end
<1>8. x \in NodeStates
  <2>1. w + 1 \in Nat \ {0}
    BY <1>1 DEF NodeStates
  <2> HIDE DEF w
  <2> QED BY <1>1, <1>3, <1>5, <1>6, <2>1 DEF NodeStates
<1>9. /\ node' \in [Nodes -> NodeStates] /\ node'[0] = x
      /\ \A m \in Receivers : SameNode(m)
  <2> HIDE DEF x
  <2> QED BY <1>7, <1>8, Became, Constants
<1>10. Typed'
  BY <1>4, <1>9 DEF Typed
<1>11. /\ node'[0].stream = s /\ node'[0].bucket = k /\ node'[0].offset = end
       /\ node'[0].index = w + 1
       /\ \A f \in {"buffers", "out", "incoming", "post", "link", "read"} :
             node'[0][f] = node[0][f]
  <2> HIDE DEF w
  <2> QED BY <1>1, <1>9 DEF NodeStates
<1>12. /\ node'[0].stream = Queued(0, node[0].index, node[0].offset, 0)
       /\ node'[0].bucket.meta
                 = Append(node[0].bucket.meta, Meta(node[0].index, node[0].offset))
       /\ node'[0].bucket.last = node[0].bucket.last
       /\ node'[0].offset = node[0].offset + Sizes[node[0].index]
       /\ node'[0].index = node[0].index + 1
  BY <1>6, <1>11 DEF s, end
<1> HIDE DEF ms, x
<1> QED BY <1>2, <1>3, <1>4, <1>5, <1>9, <1>10, <1>11, <1>12

LEMMA YieldTyped ==
    ASSUME Typed, NEW n \in Receivers, Yield(n)
    PROVE  /\ Typed' /\ UNCHANGED <<version, pc, worker>> /\ pc[n] = "yield"
           /\ \A m \in Nodes \ {n} : SameNode(m)
           /\ \A m \in Receivers : m # n => port'[m] = port[m]
           /\ \A m \in Receivers : /\ port'[m].shared = port[m].shared
                                   /\ port'[m].request = port[m].request
                                   /\ port'[m].reply = port[m].reply
           /\ \A f \in {"buffers", "out", "incoming", "bucket", "offset", "post", "link",
                        "read"} : node'[n][f] = node[n][f]
           /\ \A b \in {0, 1} :
                 (\A i \in 1..Len(node[n].stream) : node[n].stream[i].buffer = b)
                     /\ node[n].out = b =>
                 \A i \in 1..Len(node'[n].stream) : node'[n].stream[i].buffer = b
           /\ NextMeta(n) \in Metas /\ node[n].index \in 1..Len(node[n].bucket.meta)
           /\ Fits(port[n].offset, NextMeta(n).weight)
           /\ Meta(NextMeta(n).weight, port[n].offset) \in Metas
           /\ node'[n].stream = Queued(n, NextMeta(n).weight, NextMeta(n).offset,
                                       port[n].offset)
           /\ node'[n].index = node[n].index + 1
           /\ port'[n].packed
                 = Append(port[n].packed, Meta(NextMeta(n).weight, port[n].offset))
           /\ port'[n].offset = port[n].offset + Sizes[NextMeta(n).weight]
<1> DEFINE from == NextMeta(n).offset
           w == NextMeta(n).weight
           to == port[n].offset
           s == Queued(n, w, from, to)
           ms == Append(port[n].packed, Meta(w, to))
           end == to + Sizes[w]
           x == [node[n] EXCEPT !.stream = s, !.index = node[n].index + 1]
           p == [port[n] EXCEPT !.packed = ms, !.offset = end]
<1>0. n \in Nodes
  BY Constants
<1>1. node[n] \in NodeStates /\ node[n].bucket \in Buckets /\ port[n] \in PortStates
  BY <1>0 DEF Typed, NodeStates
<1>2. /\ NextMeta(n) \in Metas /\ node[n].index \in 1..Len(node[n].bucket.meta)
      /\ Fits(to, w) /\ to \in 0..BucketSize
  <2>1. node[n].bucket.meta \in Seq(Metas) /\ node[n].index \in Nat \ {0}
    BY <1>1 DEF NodeStates, Buckets
  <2>2. node[n].index <= Len(node[n].bucket.meta) /\ Len(node[n].bucket.meta) \in Nat
    BY <2>1 DEF Yield, More
  <2>3. Fits(to, w) /\ to \in 0..BucketSize
    BY <1>1 DEF Yield, PortStates
  <2> QED BY <2>1, <2>2, <2>3 DEF NextMeta
<1>3. /\ w \in Weights /\ from \in Bytes /\ Fits(from, w)
      /\ to \in Bytes /\ end \in 0..BucketSize /\ Meta(w, to) \in Metas
  <2>1. w \in Weights /\ from \in Bytes /\ Fits(from, w)
    BY <1>2 DEF Metas
  <2> HIDE DEF w, from, to
  <2> QED BY <1>2, <2>1, Fitting DEF Meta, Metas
<1>4. UNCHANGED <<version, pc, worker>> /\ pc[n] = "yield"
  BY DEF Yield
<1>5. /\ s \in Seq(QueuedCopies)
      /\ \A b \in {0, 1} :
            (\A i \in 1..Len(node[n].stream) : node[n].stream[i].buffer = b)
                /\ node[n].out = b => \A i \in 1..Len(s) : s[i].buffer = b
  <2> HIDE DEF from, to, w
  <2> QED BY <1>0, <1>2, <1>3, QueuedTyped
<1>6. Becomes(n, x) /\ port' = [port EXCEPT ![n] = p]
  <2> HIDE DEF w, from
  <2>1. node' = [node EXCEPT ![n].stream = s, ![n].index = @ + 1]
    BY DEF Yield, w, from
  <2>2. port' = [port EXCEPT ![n].packed = ms, ![n].offset = end]
    <3>1. port' = [port EXCEPT
              ![n].packed = Append(@, Meta(w, port[n].offset)),
              ![n].offset = @ + Sizes[w]]
      BY DEF Yield, w
    <3> QED BY <1>1, <3>1 DEF Typed, PortStates
  <2> HIDE DEF s, ms, end
  <2> QED BY <1>0, <1>1, <2>1, <2>2 DEF Becomes, Typed, NodeStates, PortStates
<1> HIDE DEF s, w, ms, end
<1>8. x \in NodeStates /\ p \in PortStates
  <2>1. node[n].index + 1 \in Nat \ {0}
    BY <1>1 DEF NodeStates
  <2>2. ms \in Seq(Metas)
    BY <1>1, <1>3 DEF PortStates, ms
  <2>3. x \in NodeStates
    BY <1>1, <1>5, <2>1 DEF NodeStates
  <2> QED BY <1>1, <1>3, <2>2, <2>3 DEF PortStates
<1>9. /\ node' \in [Nodes -> NodeStates] /\ node'[n] = x
      /\ \A m \in Nodes \ {n} : SameNode(m)
  <2> HIDE DEF x
  <2> QED BY <1>0, <1>6, <1>8, Became
<1>10. port' \in [Receivers -> PortStates] /\ port'[n] = p
       /\ \A m \in Receivers : m # n => port'[m] = port[m]
  <2> HIDE DEF p
  <2> QED BY <1>6, <1>8 DEF Typed
<1>11. Typed'
  BY <1>4, <1>9, <1>10 DEF Typed
<1>12. /\ node'[n].stream = s /\ node'[n].index = node[n].index + 1
       /\ \A f \in {"buffers", "out", "incoming", "bucket", "offset", "post", "link",
                    "read"} : node'[n][f] = node[n][f]
  BY <1>1, <1>9 DEF NodeStates
<1>13. /\ port'[n].packed = ms /\ port'[n].offset = end
       /\ port'[n].shared = port[n].shared /\ port'[n].request = port[n].request
       /\ port'[n].reply = port[n].reply
  BY <1>1, <1>10 DEF PortStates
<1> HIDE DEF x, p
<1>14. /\ node'[n].stream = Queued(n, NextMeta(n).weight, NextMeta(n).offset,
                                   port[n].offset)
       /\ port'[n].packed
             = Append(port[n].packed, Meta(NextMeta(n).weight, port[n].offset))
       /\ port'[n].offset = port[n].offset + Sizes[NextMeta(n).weight]
  BY <1>12, <1>13 DEF s, ms, end, w
<1>15. /\ Fits(port[n].offset, NextMeta(n).weight)
       /\ Meta(NextMeta(n).weight, port[n].offset) \in Metas
  BY <1>2, <1>3 DEF w
<1> QED BY <1>2, <1>4, <1>5, <1>9, <1>10, <1>11, <1>12, <1>13, <1>14, <1>15

LEMMA PostFullTyped ==
    ASSUME Typed, PostFull
    PROVE  /\ Typed' /\ UNCHANGED <<version, pc, port, worker>>
           /\ pc[0] = "send" /\ node[0].stream = <<>> /\ node[0].post # "posted"
           /\ \A m \in Receivers : SameNode(m)
           /\ \A f \in {"buffers", "incoming", "index", "read", "stream"} :
                 node'[0][f] = node[0][f]
           /\ node'[0].out = 1 - node[0].out /\ node'[0].post = "posted"
           /\ node'[0].bucket = NoBucket /\ node'[0].offset = 0
           /\ node[0].link = <<>> =>
                 /\ Len(node'[0].link) = 1
                 /\ node'[0].link[1] = Message(0, node[0].bucket)
                 /\ node'[0].link[1].buffer = node[0].out
                 /\ node'[0].link[1].bucket = node[0].bucket
<1> DEFINE l == Append(node[0].link, Message(0, node[0].bucket))
           x == [node[0] EXCEPT !.post = "posted", !.link = l,
                     !.out = 1 - node[0].out, !.bucket = NoBucket, !.offset = 0]
<1>1. node[0] \in NodeStates /\ node[0].bucket \in Buckets /\ NoBucket \in Buckets
      /\ 0 \in 0..BucketSize
  BY Constants, TypedInit DEF Typed, NodeStates
<1>2. /\ l \in Seq(Messages)
      /\ node[0].link = <<>> =>
            /\ Len(l) = 1 /\ l[1] = Message(0, node[0].bucket)
            /\ l[1].buffer = node[0].out /\ l[1].bucket = node[0].bucket
  BY <1>1, Constants, MessageTyped
<1>3. /\ UNCHANGED <<version, pc, port, worker>>
      /\ pc[0] = "send" /\ node[0].stream = <<>> /\ node[0].post # "posted"
  BY DEF PostFull, Idle
<1>4. Becomes(0, x)
  BY <1>1, Constants DEF PostFull, Becomes, Typed, NodeStates
<1> HIDE DEF l
<1>5. x \in NodeStates
  <2>1. 1 - node[0].out \in {0, 1}
    BY <1>1 DEF NodeStates
  <2> QED BY <1>1, <1>2, <2>1 DEF NodeStates
<1>6. /\ node' \in [Nodes -> NodeStates] /\ node'[0] = x
      /\ \A m \in Receivers : SameNode(m)
  <2> HIDE DEF x
  <2> QED BY <1>4, <1>5, Became, Constants
<1>7. Typed'
  BY <1>3, <1>6 DEF Typed
<1>8. /\ node'[0].link = l /\ node'[0].post = "posted"
      /\ node'[0].out = 1 - node[0].out
      /\ node'[0].bucket = NoBucket /\ node'[0].offset = 0
      /\ \A f \in {"buffers", "incoming", "index", "read", "stream"} :
            node'[0][f] = node[0][f]
  BY <1>1, <1>6 DEF NodeStates
<1> QED BY <1>2, <1>3, <1>6, <1>7, <1>8

LEMMA PostLastTyped ==
    ASSUME Typed, PostLast
    PROVE  /\ Typed' /\ UNCHANGED <<version, port, worker>>
           /\ pc[0] = "send" /\ node[0].stream = <<>> /\ node[0].post # "posted"
           /\ pc'[0] = "sent" /\ \A m \in Receivers : pc'[m] = pc[m]
           /\ \A m \in Receivers : SameNode(m)
           /\ \A f \in {"buffers", "out", "bucket", "offset", "incoming", "index", "read",
                        "stream"} : node'[0][f] = node[0][f]
           /\ node'[0].post = "posted"
           /\ node[0].link = <<>> =>
                 /\ Len(node'[0].link) = 1
                 /\ node'[0].link[1].buffer = node[0].out
                 /\ node'[0].link[1].bucket = Bucket(node[0].bucket.meta, TRUE)
<1> DEFINE l == Append(node[0].link, Message(0, Bucket(node[0].bucket.meta, TRUE)))
           x == [node[0] EXCEPT !.post = "posted", !.link = l]
<1>1. node[0] \in NodeStates /\ Bucket(node[0].bucket.meta, TRUE) \in Buckets
  BY Constants DEF Typed, NodeStates, Bucket, Buckets
<1>2. /\ l \in Seq(Messages)
      /\ node[0].link = <<>> =>
            /\ Len(l) = 1 /\ l[1].buffer = node[0].out
            /\ l[1].bucket = Bucket(node[0].bucket.meta, TRUE)
  <2> DEFINE b == Bucket(node[0].bucket.meta, TRUE)
  <2>1. b \in Buckets /\ 0 \in Nodes
    BY <1>1, Constants
  <2> HIDE DEF b
  <2>2. /\ Append(node[0].link, Message(0, b)) \in Seq(Messages)
        /\ node[0].link = <<>> =>
              /\ Len(Append(node[0].link, Message(0, b))) = 1
              /\ Append(node[0].link, Message(0, b))[1] = Message(0, b)
        /\ Message(0, b).buffer = node[0].out /\ Message(0, b).bucket = b
    BY <2>1, MessageTyped
  <2> QED BY <2>2 DEF b
<1>3. /\ UNCHANGED <<version, port, worker>> /\ Goes(0, "sent")
      /\ pc[0] = "send" /\ node[0].stream = <<>> /\ node[0].post # "posted"
  BY DEF PostLast, Idle
<1>4. Becomes(0, x)
  BY <1>1, Constants DEF PostLast, Becomes, Typed, NodeStates
<1> HIDE DEF l
<1>5. x \in NodeStates
  BY <1>1, <1>2 DEF NodeStates
<1>6. /\ node' \in [Nodes -> NodeStates] /\ node'[0] = x
      /\ \A m \in Receivers : SameNode(m)
  <2> HIDE DEF x
  <2> QED BY <1>4, <1>5, Became, Constants
<1>7. /\ pc' \in [Nodes -> Sends \cup Receives] /\ pc'[0] = "sent"
      /\ \A m \in Receivers : pc'[m] = pc[m]
  BY <1>3, WentTyped, Constants DEF Sends
<1>8. Typed'
  BY <1>3, <1>6, <1>7 DEF Typed, Sends
<1>9. /\ node'[0].link = l /\ node'[0].post = "posted"
      /\ \A f \in {"buffers", "out", "bucket", "offset", "incoming", "index", "read",
                   "stream"} : node'[0][f] = node[0][f]
  BY <1>1, <1>6 DEF NodeStates
<1> QED BY <1>2, <1>3, <1>6, <1>7, <1>8, <1>9

LEMMA BeginReadTyped ==
    ASSUME Typed, NEW n \in Receivers, BeginRead(n)
    PROVE  /\ Typed' /\ UNCHANGED <<version, port, worker>>
           /\ \/ pc[n] = "first" /\ pc'[n] = "first read"
              \/ pc[n] = "metadata" /\ pc'[n] = "yield"
           /\ \A m \in Nodes \ {n} : pc'[m] = pc[m]
           /\ \A m \in Nodes \ {n, n-1} : SameNode(m)
           /\ node[n-1].link # <<>>
           /\ node'[n-1].link = Tail(node[n-1].link)
           /\ node'[n].read = [from |-> node[n-1].link[1].buffer,
                               to |-> 1 - node[n].out, got |-> 0]
           /\ node'[n].incoming = node[n-1].link[1].bucket
           /\ \A f \in {"buffers", "out", "bucket", "offset", "index", "post", "link",
                        "stream"} : node'[n][f] = node[n][f]
           /\ \A f \in {"buffers", "out", "bucket", "offset", "incoming", "index", "post",
                        "read", "stream"} : node'[n-1][f] = node[n-1][f]
<1> DEFINE m == Head(node[n-1].link)
           l == Tail(node[n-1].link)
           r == [from |-> m.buffer, to |-> 1 - node[n].out, got |-> 0]
           x == [node[n] EXCEPT !.incoming = m.bucket, !.read = r]
           y == [node[n-1] EXCEPT !.link = l]
           place == IF pc[n] = "first" THEN "first read" ELSE "yield"
<1>0. n \in Nodes /\ n - 1 \in Nodes /\ n # n - 1 /\ n # 0
  BY Constants
<1>1. node[n] \in NodeStates /\ node[n-1] \in NodeStates
      /\ node[n-1].link \in Seq(Messages) /\ node[n-1].link # <<>>
  BY <1>0 DEF Typed, NodeStates, BeginRead
<1>2. m \in Messages /\ l \in Seq(Messages) /\ m = node[n-1].link[1]
  BY <1>1
<1>3. r \in Reads /\ m.bucket \in Buckets
  <2>1. 1 - node[n].out \in {0, 1}
    BY <1>1 DEF NodeStates
  <2>2. 0 \in 0..BucketSize
    BY Constants
  <2> HIDE DEF m
  <2> QED BY <1>2, <2>1, <2>2 DEF Reads, Messages
<1>4. UNCHANGED <<version, port, worker>> /\ Goes(n, place)
      /\ pc[n] \in {"first", "metadata"}
  BY DEF BeginRead
<1>5. node' = [node EXCEPT ![n] = x, ![n-1] = y]
  BY <1>0, <1>1 DEF BeginRead, Typed, NodeStates
<1> HIDE DEF r, m, l
<1>6. x \in NodeStates /\ y \in NodeStates
  BY <1>1, <1>2, <1>3 DEF NodeStates
<1>7. /\ node' \in [Nodes -> NodeStates] /\ node'[n] = x /\ node'[n-1] = y
      /\ \A k \in Nodes \ {n, n-1} : SameNode(k)
  <2> HIDE DEF x, y
  <2> QED BY <1>0, <1>5, <1>6 DEF Typed, SameNode
<1>8. /\ pc' \in [Nodes -> Sends \cup Receives] /\ pc'[n] = place
      /\ pc'[0] \in Sends /\ \A k \in Receivers : pc'[k] \in Receives
      /\ \A k \in Nodes \ {n} : pc'[k] = pc[k]
  BY <1>0, <1>4, WentTyped DEF Receives
<1>9. Typed'
  BY <1>4, <1>7, <1>8 DEF Typed
<1>10. /\ node'[n].read = r /\ node'[n-1].link = l /\ node'[n].incoming = m.bucket
       /\ \A f \in {"buffers", "out", "bucket", "offset", "index", "post", "link",
                    "stream"} : node'[n][f] = node[n][f]
       /\ \A f \in {"buffers", "out", "bucket", "offset", "incoming", "index", "post",
                    "read", "stream"} : node'[n-1][f] = node[n-1][f]
  BY <1>1, <1>7 DEF NodeStates
<1>11. r = [from |-> node[n-1].link[1].buffer, to |-> 1 - node[n].out, got |-> 0]
       /\ l = Tail(node[n-1].link) /\ m.bucket = node[n-1].link[1].bucket
  BY <1>2 DEF r, l
<1> QED BY <1>1, <1>4, <1>7, <1>8, <1>9, <1>10, <1>11

LEMMA SwapTyped ==
    ASSUME Typed, NEW n \in Receivers, Swaps(n)
    PROVE  /\ Typed' /\ UNCHANGED <<version, port, worker>>
           /\ pc'[n] = "forward"
           /\ \A m \in Nodes \ {n} : pc'[m] = pc[m]
           /\ \A m \in Nodes \ {n} : SameNode(m)
           /\ node'[n].out = 1 - node[n].out
           /\ node'[n].bucket = node[n].incoming /\ node'[n].index = 1
           /\ \A f \in {"buffers", "offset", "incoming", "post", "link", "read", "stream"} :
                 node'[n][f] = node[n][f]
<1> DEFINE x == [node[n] EXCEPT !.bucket = node[n].incoming,
                                !.out = 1 - node[n].out, !.index = 1]
<1>0. n \in Nodes /\ n # 0
  BY Constants
<1>1. node[n] \in NodeStates /\ 1 - node[n].out \in {0, 1}
  BY <1>0 DEF Typed, NodeStates
<1>2. UNCHANGED <<version, port, worker>> /\ Goes(n, "forward") /\ Becomes(n, x)
  BY <1>0, <1>1 DEF Swaps, Becomes, Typed, NodeStates
<1>3. x \in NodeStates
  <2>1. node[n].incoming \in Buckets /\ 1 \in Nat \ {0}
    BY <1>1 DEF NodeStates
  <2> DEFINE o == 1 - node[n].out
  <2>2. o \in {0, 1}
    BY <1>1
  <2> HIDE DEF o
  <2> QED BY <1>1, <2>1, <2>2 DEF NodeStates
<1>4. /\ node' \in [Nodes -> NodeStates] /\ node'[n] = x
      /\ \A k \in Nodes \ {n} : SameNode(k)
  <2> HIDE DEF x
  <2> QED BY <1>0, <1>2, <1>3, Became
<1>5. /\ pc' \in [Nodes -> Sends \cup Receives] /\ pc'[n] = "forward"
      /\ pc'[0] \in Sends /\ \A k \in Receivers : pc'[k] \in Receives
      /\ \A k \in Nodes \ {n} : pc'[k] = pc[k]
  BY <1>0, <1>2, WentTyped DEF Receives
<1>6. Typed'
  BY <1>2, <1>4, <1>5 DEF Typed
<1>7. /\ node'[n].out = 1 - node[n].out
      /\ node'[n].bucket = node[n].incoming /\ node'[n].index = 1
      /\ \A f \in {"buffers", "offset", "incoming", "post", "link", "read", "stream"} :
            node'[n][f] = node[n][f]
  BY <1>1, <1>4 DEF NodeStates
<1> QED BY <1>2, <1>4, <1>5, <1>6, <1>7

LEMMA ForwardTyped ==
    ASSUME Typed, NEW n \in Receivers, Forward(n)
    PROVE  /\ Typed' /\ UNCHANGED <<version, port, worker>>
           /\ pc[n] = "forward" /\ pc'[n] \in {"yield", "metadata"}
           /\ pc'[n] = "yield" <=> node[n].bucket.last
           /\ \A m \in Nodes \ {n} : pc'[m] = pc[m]
           /\ \A m \in Nodes \ {n} : SameNode(m)
           /\ \A f \in {"buffers", "out", "bucket", "offset", "incoming", "index", "read",
                        "stream"} : node'[n][f] = node[n][f]
           /\ IF n < Workers
              THEN /\ node'[n].post = "posted"
                   /\ node[n].link = <<>> =>
                         /\ Len(node'[n].link) = 1
                         /\ node'[n].link[1].buffer = node[n].out
                         /\ node'[n].link[1].bucket = node[n].bucket
              ELSE node'[n].post = "none" /\ node'[n].link = node[n].link
<1> DEFINE l == Append(node[n].link, Message(n, node[n].bucket))
           x == IF n < Workers
                THEN [node[n] EXCEPT !.post = "posted", !.link = l]
                ELSE [node[n] EXCEPT !.post = "none"]
           place == IF node[n].bucket.last THEN "yield" ELSE "metadata"
<1>0. n \in Nodes /\ n # 0
  BY Constants
<1>1. node[n] \in NodeStates /\ node[n].bucket \in Buckets
  BY <1>0 DEF Typed, NodeStates
<1>2. /\ l \in Seq(Messages)
      /\ node[n].link = <<>> =>
            Len(l) = 1 /\ l[1].buffer = node[n].out /\ l[1].bucket = node[n].bucket
  BY <1>0, <1>1, MessageTyped
<1>3. UNCHANGED <<version, port, worker>> /\ Goes(n, place) /\ pc[n] = "forward"
  BY DEF Forward
<1>4. Becomes(n, x)
  BY <1>0, <1>1 DEF Forward, Becomes, Typed, NodeStates
<1> HIDE DEF l
<1>5. x \in NodeStates
  BY <1>1, <1>2 DEF NodeStates
<1>6. /\ node' \in [Nodes -> NodeStates] /\ node'[n] = x
      /\ \A k \in Nodes \ {n} : SameNode(k)
  <2> HIDE DEF x
  <2> QED BY <1>0, <1>4, <1>5, Became
<1>7. /\ pc' \in [Nodes -> Sends \cup Receives] /\ pc'[n] \in {"yield", "metadata"}
      /\ pc'[n] = "yield" <=> node[n].bucket.last
      /\ pc'[0] \in Sends /\ \A k \in Receivers : pc'[k] \in Receives
      /\ \A k \in Nodes \ {n} : pc'[k] = pc[k]
  <2>1. place \in Receives /\ place \in {"yield", "metadata"}
    BY DEF Receives
  <2>2. place = "yield" <=> node[n].bucket.last
    OBVIOUS
  <2> HIDE DEF place
  <2> QED BY <1>0, <1>3, <2>1, <2>2, WentTyped
<1>8. Typed'
  BY <1>3, <1>6, <1>7 DEF Typed
<1>9. /\ \A f \in {"buffers", "out", "bucket", "offset", "incoming", "index", "read",
                   "stream"} : node'[n][f] = node[n][f]
      /\ IF n < Workers THEN node'[n].post = "posted" /\ node'[n].link = l
                        ELSE node'[n].post = "none" /\ node'[n].link = node[n].link
  BY <1>1, <1>6 DEF NodeStates
<1> QED BY <1>2, <1>3, <1>6, <1>7, <1>8, <1>9

\* Steps of a consumer and its inference worker leave the engines alone.
LEMMA WentOutside ==
    ASSUME Typed, NEW n \in Receivers,
           UNCHANGED <<version, node>>,
           NEW p \in PortStates, port' = [port EXCEPT ![n] = p],
           worker' \in [Receivers -> WorkerStates],
           NEW place \in Receives, Goes(n, place)
    PROVE  /\ Typed' /\ pc'[n] = place /\ port'[n] = p
           /\ \A m \in Nodes \ {n} : pc'[m] = pc[m]
           /\ \A m \in Receivers \ {n} : port'[m] = port[m]
<1>1. n \in Nodes /\ n # 0
  BY Constants
<1>2. /\ pc' \in [Nodes -> Sends \cup Receives] /\ pc'[n] = place
      /\ pc'[0] \in Sends /\ \A k \in Receivers : pc'[k] \in Receives
      /\ \A k \in Nodes \ {n} : pc'[k] = pc[k]
  BY <1>1, WentTyped
<1>3. /\ port' \in [Receivers -> PortStates] /\ port'[n] = p
      /\ \A m \in Receivers \ {n} : port'[m] = port[m]
  BY DEF Typed
<1>4. Typed'
  BY <1>2, <1>3 DEF Typed
<1> QED BY <1>2, <1>3, <1>4

LEMMA OneBucket == ASSUME NEW b \in Buckets PROVE <<b>> \in Seq(Buckets)
OBVIOUS

LEMMA StartTyped ==
    ASSUME Typed, NEW n \in Receivers, Start(n)
    PROVE  /\ Typed' /\ UNCHANGED <<version, node>>
           /\ pc[n] = "start" /\ pc'[n] = "hello"
           /\ \A m \in Nodes \ {n} : pc'[m] = pc[m]
           /\ \A m \in Receivers \ {n} : port'[m] = port[m]
           /\ port'[n].shared = port[n].shared /\ port'[n].reply = port[n].reply
           /\ port'[n].packed = port[n].packed /\ port'[n].offset = port[n].offset
           /\ port'[n].request = <<NoBucket>>
           /\ \A m \in Receivers :
                 worker'[m] = worker[m] \/ (worker'[m].pc = "hello" /\ n = Leader[m])
           /\ \A m \in Receivers : n = Leader[m] => worker'[m].pc = "hello"
           /\ \A m \in Receivers : \A f \in {"task", "copy", "loaded"} :
                 worker'[m][f] = worker[m][f]
<1> DEFINE p == [port[n] EXCEPT !.request = <<NoBucket>>]
<1>1. port[n] \in PortStates /\ NoBucket \in Buckets
  BY TypedInit DEF Typed
<1>2. /\ worker' = [m \in Receivers |->
            IF n = Leader[n] /\ Leader[m] = n
            THEN [worker[m] EXCEPT !.pc = "hello"] ELSE worker[m]]
      /\ port' = [port EXCEPT ![n] = p]
      /\ Goes(n, "hello") /\ pc[n] = "start" /\ UNCHANGED <<version, node>>
  BY DEF Start, Typed
<1>3. /\ p \in PortStates /\ p.shared = port[n].shared /\ p.reply = port[n].reply
      /\ p.packed = port[n].packed /\ p.offset = port[n].offset
      /\ p.request = <<NoBucket>>
  <2>1. <<NoBucket>> \in Seq(Buckets)
    BY <1>1, OneBucket
  <2> QED BY <1>1, <2>1 DEF PortStates
<1>4. \A m \in Receivers : /\ [worker[m] EXCEPT !.pc = "hello"] \in WorkerStates
                           /\ [worker[m] EXCEPT !.pc = "hello"].pc = "hello"
                           /\ \A f \in {"task", "copy", "loaded"} :
                                 [worker[m] EXCEPT !.pc = "hello"][f] = worker[m][f]
  BY DEF Typed, WorkerStates
<1>5. worker' \in [Receivers -> WorkerStates]
  BY <1>2, <1>4 DEF Typed
<1> HIDE DEF p
<1>6. /\ Typed' /\ pc'[n] = "hello" /\ port'[n] = p
      /\ \A m \in Nodes \ {n} : pc'[m] = pc[m]
      /\ \A m \in Receivers \ {n} : port'[m] = port[m]
  BY <1>2, <1>3, <1>5, WentOutside DEF Receives
<1>7. \A m \in Receivers :
          /\ worker'[m] = worker[m] \/ (worker'[m].pc = "hello" /\ n = Leader[m])
          /\ n = Leader[m] => worker'[m].pc = "hello"
          /\ \A f \in {"task", "copy", "loaded"} : worker'[m][f] = worker[m][f]
  <2>1. \A m \in Receivers : n = Leader[m] => n = Leader[n]
    BY TransferAssumption
  <2> QED BY <1>2, <1>4, <2>1
<1> QED BY <1>2, <1>3, <1>6, <1>7

LEMMA AnsweredTyped ==
    ASSUME Typed, NEW n \in Receivers, Answered(n)
    PROVE  /\ Typed' /\ UNCHANGED <<version, node, worker>>
           /\ \/ pc[n] = "hello" /\ pc'[n] = "first"
              \/ pc[n] = "flush" /\ pc'[n] = "yield"
              \/ pc[n] = "flush last" /\ pc'[n] = "future"
           /\ \A m \in Nodes \ {n} : pc'[m] = pc[m]
           /\ \A m \in Receivers \ {n} : port'[m] = port[m]
           /\ port[n].reply /\ ~port'[n].reply
           /\ port'[n].request = port[n].request /\ port'[n].shared = port[n].shared
           /\ port'[n].packed = <<>> /\ port'[n].offset = 0
<1> DEFINE p == [port[n] EXCEPT !.reply = FALSE, !.packed = <<>>, !.offset = 0]
<1>1. port[n] \in PortStates
  BY DEF Typed
<1>2. port' = [port EXCEPT ![n] = p] /\ port[n].reply
      /\ UNCHANGED <<version, node, worker>>
  BY DEF Answered, Typed
<1>3. PICK place \in {"first", "yield", "future"} :
          /\ Goes(n, place)
          /\ \/ pc[n] = "hello" /\ place = "first"
             \/ pc[n] = "flush" /\ place = "yield"
             \/ pc[n] = "flush last" /\ place = "future"
  BY DEF Answered
<1>4. p \in PortStates /\ ~p.reply /\ p.request = port[n].request
      /\ p.shared = port[n].shared /\ p.packed = <<>> /\ p.offset = 0
  <2>1. <<>> \in Seq(Metas) /\ 0 \in 0..BucketSize
    BY Constants
  <2> QED BY <1>1, <2>1 DEF PortStates
<1> HIDE DEF p
<1>5. worker' \in [Receivers -> WorkerStates] /\ place \in Receives
  BY <1>2 DEF Typed, Receives
<1>6. /\ Typed' /\ pc'[n] = place /\ port'[n] = p
      /\ \A m \in Nodes \ {n} : pc'[m] = pc[m]
      /\ \A m \in Receivers \ {n} : port'[m] = port[m]
  BY <1>2, <1>3, <1>4, <1>5, WentOutside
<1> QED BY <1>2, <1>3, <1>4, <1>6

LEMMA FlushTyped ==
    ASSUME Typed, NEW n \in Receivers, Flush(n) \/ FlushLast(n)
    PROVE  /\ Typed' /\ UNCHANGED <<version, node, worker>>
           /\ pc[n] = "yield" /\ node[n].stream = <<>>
           /\ \/ pc'[n] = "flush"
              \/ /\ pc'[n] = "flush last" /\ node[n].post # "posted"
                 /\ node[n].bucket.last /\ ~More(n)
           /\ \A m \in Nodes \ {n} : pc'[m] = pc[m]
           /\ \A m \in Receivers \ {n} : port'[m] = port[m]
           /\ port'[n].reply = port[n].reply /\ port'[n].shared = port[n].shared
           /\ port'[n].packed = port[n].packed /\ port'[n].offset = port[n].offset
           /\ port'[n].request = <<Bucket(port[n].packed, pc'[n] = "flush last")>>
<1>1. PICK last \in BOOLEAN, place \in {"flush", "flush last"} :
          /\ port' = [port EXCEPT ![n].request = <<Bucket(port[n].packed, last)>>]
          /\ Goes(n, place)
          /\ place = "flush last" =>
                node[n].post # "posted" /\ node[n].bucket.last /\ ~More(n)
          /\ last = (place = "flush last")
  BY DEF Flush, FlushLast
<1> DEFINE p == [port[n] EXCEPT !.request = <<Bucket(port[n].packed, last)>>]
<1>2. port[n] \in PortStates
  BY DEF Typed
<1>3. port' = [port EXCEPT ![n] = p]
  BY <1>1 DEF Typed
<1>4. /\ p \in PortStates /\ p.reply = port[n].reply /\ p.shared = port[n].shared
      /\ p.packed = port[n].packed /\ p.offset = port[n].offset
      /\ p.request = <<Bucket(port[n].packed, last)>>
  <2> DEFINE b == Bucket(port[n].packed, last)
  <2>1. b \in Buckets
    BY <1>2 DEF PortStates, Bucket, Buckets
  <2>2. <<b>> \in Seq(Buckets)
    BY <2>1, OneBucket
  <2> QED BY <1>2, <2>2 DEF PortStates
<1> HIDE DEF p
<1>5. /\ UNCHANGED <<version, node, worker>>
      /\ pc[n] = "yield" /\ node[n].stream = <<>>
  BY DEF Flush, FlushLast, Idle
<1>6. worker' \in [Receivers -> WorkerStates] /\ place \in Receives
  BY <1>5 DEF Typed, Receives
<1>7. /\ Typed' /\ pc'[n] = place /\ port'[n] = p
      /\ \A m \in Nodes \ {n} : pc'[m] = pc[m]
      /\ \A m \in Receivers \ {n} : port'[m] = port[m]
  BY <1>1, <1>3, <1>4, <1>5, <1>6, WentOutside
<1> QED BY <1>1, <1>4, <1>5, <1>7

\* What the steps of the inference worker of node n do.
Connected(n) ==
    /\ worker[n].pc = "hello" /\ worker'[n].pc = "receive"
    /\ port[n].request # <<>> /\ port'[n].request = <<>> /\ port'[n].reply
    /\ \A f \in {"task", "copy", "loaded"} : worker'[n][f] = worker[n][f]

Took(n) ==
    /\ worker[n].pc = "receive" /\ worker'[n].pc = "clone"
    /\ port[n].request # <<>> /\ port'[n].request = <<>>
    /\ port'[n].reply = port[n].reply
    /\ worker'[n].task = port[n].request[1]
    /\ \A f \in {"copy", "loaded"} : worker'[n][f] = worker[n][f]

Cloned(n) ==
    /\ worker[n].pc = "clone" /\ worker'[n].pc = "load"
    /\ port'[n].request = port[n].request /\ port'[n].reply
    /\ \A f \in {"task", "loaded"} : worker'[n][f] = worker[n][f]
    /\ LET metas == worker[n].task.meta
           copy == worker'[n].copy
       IN  /\ Len(copy) = Len(metas)
           /\ \A i \in 1..Len(metas) :
                 /\ copy[i].weight = metas[i].weight
                 /\ copy[i].cells
                       = Cells(port[n].shared, metas[i].offset, metas[i].weight)

Loaded(n) ==
    /\ worker[n].pc = "load" /\ port'[n] = port[n]
    /\ worker'[n].pc = IF worker[n].task.last THEN "done" ELSE "receive"
    /\ worker'[n].loaded = worker[n].loaded \o worker[n].copy
    /\ worker'[n].copy = <<>> /\ worker'[n].task = worker[n].task

LEMMA WorkerTyped ==
    ASSUME Typed, NEW n \in Receivers, InferenceWorker(n)
    PROVE  /\ Typed' /\ UNCHANGED <<version, pc, node>>
           /\ \A m \in Receivers \ {n} : port'[m] = port[m] /\ worker'[m] = worker[m]
           /\ \A f \in {"shared", "packed", "offset"} : port'[n][f] = port[n][f]
           /\ \/ Connected(n) \/ Took(n) \/ Cloned(n) \/ Loaded(n)
<1>0. port[n] \in PortStates /\ worker[n] \in WorkerStates
  BY DEF Typed
<1>1. UNCHANGED <<version, pc, node>>
  BY DEF InferenceWorker, Connect, Receive, Clone, Load
<1>2. SUFFICES ASSUME NEW p \in PortStates, NEW x \in WorkerStates,
                      port' = [port EXCEPT ![n] = p], worker' = [worker EXCEPT ![n] = x]
               PROVE  /\ Typed'
                      /\ port'[n] = p /\ worker'[n] = x
                      /\ \A m \in Receivers \ {n} :
                            port'[m] = port[m] /\ worker'[m] = worker[m]
  <2>1. CASE Connect(n)
    <3> DEFINE p == [port[n] EXCEPT !.request = <<>>, !.reply = TRUE]
               x == [worker[n] EXCEPT !.pc = "receive"]
    <3>1. port' = [port EXCEPT ![n] = p] /\ worker' = [worker EXCEPT ![n] = x]
      BY <2>1 DEF Connect, Typed
    <3>2. p \in PortStates /\ x \in WorkerStates
      <4>1. <<>> \in Seq(Buckets)
        OBVIOUS
      <4> QED BY <1>0, <4>1 DEF PortStates, WorkerStates
    <3>3. /\ \A f \in {"shared", "packed", "offset"} : p[f] = port[n][f]
          /\ p.request = <<>> /\ p.reply /\ x.pc = "receive"
          /\ \A f \in {"task", "copy", "loaded"} : x[f] = worker[n][f]
      BY <1>0 DEF PortStates, WorkerStates
    <3> HIDE DEF p, x
    <3>4. /\ Typed' /\ port'[n] = p /\ worker'[n] = x
          /\ \A m \in Receivers \ {n} : port'[m] = port[m] /\ worker'[m] = worker[m]
      BY <1>2, <3>1, <3>2
    <3>5. Connected(n)
      BY <2>1, <3>3, <3>4 DEF Connect, Connected
    <3> QED BY <1>1, <3>3, <3>4, <3>5
  <2>2. CASE Receive(n)
    <3> DEFINE p == [port[n] EXCEPT !.request = <<>>]
               x == [worker[n] EXCEPT !.pc = "clone", !.task = Head(port[n].request)]
    <3>1. port' = [port EXCEPT ![n] = p] /\ worker' = [worker EXCEPT ![n] = x]
      BY <2>2 DEF Receive, Typed
    <3>2. p \in PortStates /\ x \in WorkerStates
      <4>1. Head(port[n].request) \in Buckets
        <5>1. port[n].request \in Seq(Buckets) /\ port[n].request # <<>>
          BY <1>0, <2>2 DEF Receive, PortStates
        <5> QED BY <5>1
      <4>2. <<>> \in Seq(Buckets)
        OBVIOUS
      <4> QED BY <1>0, <4>1, <4>2 DEF PortStates, WorkerStates
    <3>3. /\ \A f \in {"shared", "packed", "offset"} : p[f] = port[n][f]
          /\ p.request = <<>> /\ p.reply = port[n].reply
          /\ x.pc = "clone" /\ x.task = Head(port[n].request)
          /\ \A f \in {"copy", "loaded"} : x[f] = worker[n][f]
      BY <1>0 DEF PortStates, WorkerStates
    <3>4. port[n].request # <<>> /\ Head(port[n].request) = port[n].request[1]
      <4>1. port[n].request \in Seq(Buckets) /\ port[n].request # <<>>
        BY <1>0, <2>2 DEF Receive, PortStates
      <4> QED BY <4>1
    <3> HIDE DEF p, x
    <3> QED BY <1>1, <1>2, <2>2, <3>1, <3>2, <3>3, <3>4 DEF Receive, Took
  <2>3. CASE Clone(n)
    <3> DEFINE metas == worker[n].task.meta
               copy == [i \in 1..Len(metas) |->
                   [weight |-> metas[i].weight,
                    cells |-> Cells(port[n].shared, metas[i].offset, metas[i].weight)]]
               p == [port[n] EXCEPT !.reply = TRUE]
               x == [worker[n] EXCEPT !.pc = "load", !.copy = copy]
    <3>1. port' = [port EXCEPT ![n] = p] /\ worker' = [worker EXCEPT ![n] = x]
      BY <2>3 DEF Clone, Typed
    <3>2. /\ copy \in Seq(Clones) /\ Len(copy) = Len(metas)
          /\ \A i \in 1..Len(metas) :
                /\ copy[i].weight = metas[i].weight
                /\ copy[i].cells
                      = Cells(port[n].shared, metas[i].offset, metas[i].weight)
      <4>1. metas \in Seq(Metas) /\ port[n].shared \in Buffer
        BY <1>0 DEF PortStates, WorkerStates, Buckets
      <4>2. ASSUME NEW i \in 1..Len(metas) PROVE copy[i] \in Clones
        <5>1. metas[i] \in Metas
          BY <4>1
        <5> DEFINE w == metas[i].weight
                   o == metas[i].offset
        <5>2. w \in Weights /\ o \in Bytes /\ Fits(o, w)
          BY <5>1 DEF Metas
        <5>3. copy[i] = [weight |-> w, cells |-> Cells(port[n].shared, o, w)]
          OBVIOUS
        <5> HIDE DEF copy, metas, w, o
        <5> QED BY <4>1, <5>2, <5>3, CellsTyped DEF Clones
      <4>3. Len(metas) \in Nat
        BY <4>1
      <4>4. copy \in [1..Len(metas) -> Clones]
        <5>1. copy = [i \in 1..Len(metas) |-> copy[i]]
          OBVIOUS
        <5> HIDE DEF copy
        <5> QED BY <4>2, <5>1
      <4>5. \A i \in 1..Len(metas) :
                /\ copy[i].weight = metas[i].weight
                /\ copy[i].cells
                      = Cells(port[n].shared, metas[i].offset, metas[i].weight)
        OBVIOUS
      <4>6. copy \in Seq(Clones) /\ Len(copy) = Len(metas)
        <5> HIDE DEF copy, metas
        <5> QED BY <4>3, <4>4
      <4> QED BY <4>5, <4>6
    <3> HIDE DEF copy
    <3>3. p \in PortStates /\ x \in WorkerStates
      BY <1>0, <3>2 DEF PortStates, WorkerStates
    <3>4. /\ \A f \in {"shared", "packed", "offset"} : p[f] = port[n][f]
          /\ p.request = port[n].request /\ p.reply
          /\ x.pc = "load" /\ x.copy = copy
          /\ \A f \in {"task", "loaded"} : x[f] = worker[n][f]
      BY <1>0 DEF PortStates, WorkerStates
    <3> HIDE DEF p, x
    <3>5. /\ Typed' /\ port'[n] = p /\ worker'[n] = x
          /\ \A m \in Receivers \ {n} : port'[m] = port[m] /\ worker'[m] = worker[m]
      BY <1>2, <3>1, <3>3
    <3>6. Cloned(n)
      <4>1. worker[n].pc = "clone"
        BY <2>3 DEF Clone
      <4> QED BY <3>2, <3>4, <3>5, <4>1 DEF Cloned
    <3> QED BY <1>1, <3>4, <3>5, <3>6
  <2>4. CASE Load(n)
    <3> DEFINE all == worker[n].loaded \o worker[n].copy
               x == [worker[n] EXCEPT
                       !.pc = IF worker[n].task.last THEN "done" ELSE "receive",
                       !.loaded = all, !.copy = <<>>]
    <3>1. port' = [port EXCEPT ![n] = port[n]] /\ worker' = [worker EXCEPT ![n] = x]
      BY <2>4 DEF Load, Typed
    <3>2. all \in Seq(Clones) /\ <<>> \in Seq(Clones)
      BY <1>0 DEF WorkerStates
    <3> HIDE DEF all
    <3>3. /\ x \in WorkerStates
          /\ x.pc = IF worker[n].task.last THEN "done" ELSE "receive"
          /\ x.loaded = all /\ x.copy = <<>> /\ x.task = worker[n].task
      BY <1>0, <3>2 DEF WorkerStates
    <3>4. all = worker[n].loaded \o worker[n].copy
      BY DEF all
    <3> HIDE DEF x
    <3>5. /\ Typed' /\ port'[n] = port[n] /\ worker'[n] = x
          /\ \A m \in Receivers \ {n} : port'[m] = port[m] /\ worker'[m] = worker[m]
      BY <1>0, <1>2, <3>1, <3>3
    <3>6. worker[n].pc = "load"
      BY <2>4 DEF Load
    <3>7. Loaded(n)
      BY <3>3, <3>4, <3>5, <3>6 DEF Loaded
    <3> QED BY <1>1, <3>5, <3>7
  <2> QED BY <2>1, <2>2, <2>3, <2>4 DEF InferenceWorker
<1> QED BY <1>1, <1>2 DEF Typed

-----------------------------------------------------------------------------
(* Who may use a buffer *)

Flying(n) == node[n].read.got < BucketSize

\* The buffer that node n has posted: node 0 turns to the other one at once, a
\* rollout worker when it has been read.
Posted(n) == IF n = 0 /\ pc[0] = "send" THEN 1 - node[n].out ELSE node[n].out

\* Between a node and the one before: one message or one read at a time, of the
\* buffer posted, into the buffer that is not sent.
Edge(n) ==
    /\ Len(node[n-1].link) <= 1
    /\ node[n-1].link # <<>> =>
          /\ node[n-1].post = "posted" /\ ~Flying(n)
          /\ node[n-1].link[1].buffer = Posted(n-1)
    /\ Flying(n) =>
          /\ node[n-1].post = "posted"
          /\ node[n].read.from = Posted(n-1)
          /\ node[n].read.to = 1 - node[n].out

\* The device copies from or to send_buf, and a node that posts has nothing posted.
Own(n) ==
    /\ node[n].stream # <<>> => pc[n] \in {"send", "yield"}
    /\ \A i \in 1..Len(node[n].stream) : node[n].stream[i].buffer = node[n].out
    /\ pc[n] \in {"start", "hello", "first", "first read", "forward", "flush last",
                  "future", "done"} => node[n].post # "posted"
    /\ n = Workers => node[n].link = <<>>

\* The shared buffer is with one of the two.
Waits == {"hello", "flush", "flush last"}

Hand(n) ==
    /\ port[n].request # <<>> =>
          pc[n] \in Waits /\ ~port[n].reply /\ worker[n].pc # "clone"
    /\ worker[n].pc = "clone" => pc[n] \in Waits /\ ~port[n].reply
    /\ port[n].reply => pc[n] \in Waits
    /\ pc[Leader[n]] = "done" => worker[n].pc = "done"

DoubleBuffer ==
    /\ Typed
    /\ \A n \in Receivers : Edge(n) /\ Hand(n)
    /\ \A n \in Nodes : Own(n)

\* A new update has new buffers, and nothing under way.
Fresh ==
    /\ pc = Starts /\ node = [n \in Nodes |-> NewNode]
    /\ port = [n \in Receivers |-> NewPort] /\ worker = [n \in Receivers |-> NewWorker]
    /\ version \in 1..MaxUpdates

LEMMA NothingIn == \A i : i \notin 1..Len(<<>>)
OBVIOUS

\* A message or nothing.
LEMMA OneMessage ==
    ASSUME NEW l \in Seq(Messages), Len(l) <= 1, l # <<>>
    PROVE  Tail(l) = <<>>
OBVIOUS

LEMMA FreshBuffers == Fresh => DoubleBuffer
<1> SUFFICES ASSUME Fresh PROVE DoubleBuffer
  OBVIOUS
<1>1. Typed
  BY TypedInit, Constants DEF Fresh, Typed, Sends, Receives
<1>2. /\ \A n \in Nodes : /\ node[n].link = <<>> /\ node[n].stream = <<>>
                          /\ node[n].post = "none" /\ ~Flying(n)
      /\ \A n \in Receivers : /\ port[n].request = <<>> /\ ~port[n].reply
                              /\ worker[n].pc = "idle" /\ pc[n] = "start"
  BY Constants, TypedInit
     DEF Fresh, NewNode, NewPort, NewWorker, Flying, NoRead
<1>3. ASSUME NEW n \in Receivers PROVE Edge(n)
  <2>1. n - 1 \in Nodes /\ n \in Nodes /\ Len(<<>>) = 0
    BY Constants
  <2> QED BY <1>2, <2>1 DEF Edge
<1>4. ASSUME NEW n \in Receivers PROVE Hand(n)
  <2>1. Leader[n] \in Receivers
    BY TransferAssumption
  <2> QED BY <1>2, <2>1 DEF Hand
<1>5. \A n \in Nodes : Own(n)
  BY <1>2, NothingIn DEF Own
<1> QED BY <1>1, <1>3, <1>4, <1>5 DEF DoubleBuffer

LEMMA Ranges ==
    ASSUME Typed
    PROVE  /\ \A n \in Nodes :
                 /\ node[n].out \in {0, 1} /\ node[n].link \in Seq(Messages)
                 /\ node[n].stream \in Seq(QueuedCopies) /\ node[n].read \in Reads
           /\ \A n \in Receivers : Leader[n] \in Receivers /\ Leader[Leader[n]] = Leader[n]
BY TransferAssumption DEF Typed, NodeStates

\* What the three parts depend on.
LEMMA EdgeSame ==
    ASSUME NEW n \in Receivers, Edge(n), pc'[0] = pc[0],
           node'[n].read = node[n].read, node'[n].out = node[n].out,
           node'[n-1].post = node[n-1].post, node'[n-1].link = node[n-1].link,
           node'[n-1].out = node[n-1].out
    PROVE  Edge(n)'
BY DEF Edge, Flying, Posted

\* With nothing posted the edge does not depend on the buffers.
LEMMA EdgeIdle ==
    ASSUME NEW n \in Receivers, Edge(n), node[n-1].post # "posted",
           node'[n].read = node[n].read, node'[n-1].link = node[n-1].link
    PROVE  Edge(n)'
BY DEF Edge, Flying

LEMMA HandSame ==
    ASSUME NEW n \in Receivers, Hand(n),
           pc'[n] \in Waits <=> pc[n] \in Waits,
           pc'[Leader[n]] = "done" => pc[Leader[n]] = "done",
           port'[n].request = port[n].request, port'[n].reply = port[n].reply,
           worker'[n].pc = worker[n].pc
    PROVE  Hand(n)'
BY DEF Hand

LEMMA OwnSame ==
    ASSUME NEW n \in Nodes, Own(n), pc'[n] = pc[n],
           node'[n].stream = node[n].stream, node'[n].out = node[n].out,
           node'[n].link = node[n].link,
           node'[n].post = node[n].post \/ node'[n].post # "posted"
    PROVE  Own(n)'
BY DEF Own

LEMMA DoubleBufferStep == DoubleBuffer /\ [Next]_vars => DoubleBuffer'
<1> SUFFICES ASSUME DoubleBuffer, [Next]_vars PROVE DoubleBuffer'
  OBVIOUS
<1>0. /\ Typed
      /\ \A n \in Receivers : Edge(n) /\ Hand(n)
      /\ \A n \in Nodes : Own(n)
  BY DEF DoubleBuffer
<1>1. ASSUME NEW n \in Nodes, Copies(n) PROVE DoubleBuffer'
  <2>1. /\ Typed' /\ node[n].stream # <<>> /\ UNCHANGED <<pc, worker>>
        /\ \A m \in Nodes \ {n} : node'[m] = node[m]
        /\ node'[n].stream = Tail(node[n].stream)
        /\ node'[n].out = node[n].out /\ node'[n].post = node[n].post
        /\ node'[n].link = node[n].link /\ node'[n].read = node[n].read
        /\ \A m \in Receivers : /\ port'[m].request = port[m].request
                                /\ port'[m].reply = port[m].reply
    BY <1>0, <1>1, CopiesTyped DEF SameNode
  <2>2. ASSUME NEW m \in Receivers PROVE Edge(m)'
    <3>1. m \in Nodes /\ m - 1 \in Nodes
      BY Constants
    <3> QED BY <1>0, <2>1, <3>1, EdgeSame
  <2>3. \A m \in Receivers : Hand(m)'
    BY <1>0, <2>1 DEF Hand
  <2>4. ASSUME NEW m \in Nodes PROVE Own(m)'
    <3>1. CASE m = n
      <4>1. /\ node[n].stream \in Seq(QueuedCopies) /\ Own(n)
        BY <1>0, Ranges
      <4>2. \A i \in 1..Len(Tail(node[n].stream)) :
                /\ i + 1 \in 1..Len(node[n].stream)
                /\ Tail(node[n].stream)[i] = node[n].stream[i + 1]
        BY <2>1, <4>1
      <4>3. \A i \in 1..Len(node'[n].stream) :
                node'[n].stream[i].buffer = node'[n].out
        <5>1. \A i \in 1..Len(node[n].stream) :
                  node[n].stream[i].buffer = node[n].out
          BY <4>1 DEF Own
        <5>2. \A i \in 1..Len(Tail(node[n].stream)) :
                  Tail(node[n].stream)[i].buffer = node[n].out
          BY <4>2, <5>1
        <5> QED BY <2>1, <5>2
      <4> QED BY <2>1, <3>1, <4>1, <4>3 DEF Own
    <3>2. CASE m # n
      BY <1>0, <2>1, <3>2, OwnSame
    <3> QED BY <3>1, <3>2
  <2> QED BY <2>1, <2>2, <2>3, <2>4 DEF DoubleBuffer
<1>2. ASSUME NEW n \in Receivers, Transfer(n) PROVE DoubleBuffer'
  <2>1. /\ Typed' /\ Flying(n) /\ UNCHANGED <<pc, port, worker>>
        /\ \A m \in Nodes \ {n, n-1} : node'[m] = node[m]
        /\ node'[n].read = [node[n].read EXCEPT !.got = @ + 1]
        /\ node'[n].out = node[n].out /\ node'[n].post = node[n].post
        /\ node'[n].link = node[n].link /\ node'[n].stream = node[n].stream
        /\ node'[n-1].out = node[n-1].out /\ node'[n-1].link = node[n-1].link
        /\ node'[n-1].read = node[n-1].read /\ node'[n-1].stream = node[n-1].stream
        /\ node'[n-1].post = IF node[n].read.got + 1 = BucketSize THEN "read"
                             ELSE node[n-1].post
    BY <1>0, <1>2, TransferTyped DEF SameNode, Flying
  <2>2. \A m \in Receivers : Edge(m)'
    <3>1. node[n].read \in Reads /\ n \in Nodes /\ n - 1 \in Nodes /\ n # n - 1
      BY <1>0, Ranges, Constants
    <3>2. Edge(n)'
      BY <1>0, <2>1, <3>1, Constants DEF Edge, Flying, Posted, Reads
    <3>3. ASSUME NEW m \in Receivers, m # n PROVE Edge(m)'
      <4>1. /\ m - 1 # n - 1 /\ m \in Nodes /\ m - 1 \in Nodes
        BY <3>3, Constants
      <4>2. /\ node'[m].read = node[m].read /\ node'[m].out = node[m].out
            /\ node'[m-1].post = node[m-1].post /\ node'[m-1].link = node[m-1].link
            /\ node'[m-1].out = node[m-1].out
        BY <2>1, <3>3, <4>1
      <4> QED BY <1>0, <2>1, <4>2 DEF Edge, Flying, Posted
    <3> QED BY <3>2, <3>3
  <2>3. \A m \in Receivers : Hand(m)'
    BY <1>0, <2>1 DEF Hand
  <2>4. ASSUME NEW m \in Nodes PROVE Own(m)'
    <3>1. n \in Nodes /\ n - 1 \in Nodes /\ n # n - 1
      BY Constants
    <3>2. /\ node'[m].stream = node[m].stream /\ node'[m].out = node[m].out
          /\ node'[m].link = node[m].link
          /\ node'[m].post = node[m].post \/ node'[m].post # "posted"
      BY <2>1, <3>1
    <3> QED BY <1>0, <2>1, <3>2, OwnSame
  <2> QED BY <2>1, <2>2, <2>3, <2>4 DEF DoubleBuffer
<1>3. CASE Pack
  <2>1. /\ Typed' /\ UNCHANGED <<pc, port, worker>> /\ pc[0] = "send"
        /\ \A m \in Receivers : node'[m] = node[m]
        /\ node'[0].out = node[0].out /\ node'[0].post = node[0].post
        /\ node'[0].link = node[0].link /\ node'[0].read = node[0].read
        /\ \A i \in 1..Len(node'[0].stream) : node'[0].stream[i].buffer = node[0].out
    <3>1. node[0].out \in {0, 1} /\ Own(0)
      BY <1>0, Ranges, Constants
    <3> QED BY <1>0, <1>3, <3>1, PackTyped DEF SameNode, Own
  <2>2. \A m \in Nodes : m = 0 \/ (m \in Receivers /\ node'[m] = node[m])
    BY <2>1, Constants
  <2>3. \A m \in Receivers : Edge(m)'
    BY <1>0, <2>1, <2>2, Constants DEF Edge, Flying, Posted
  <2>4. \A m \in Receivers : Hand(m)'
    BY <1>0, <2>1 DEF Hand
  <2>5. ASSUME NEW m \in Nodes PROVE Own(m)'
    <3>1. CASE m = 0
      BY <1>0, <2>1, <3>1 DEF Own
    <3>2. CASE m # 0
      BY <1>0, <2>1, <2>2, <3>2, OwnSame
    <3> QED BY <3>1, <3>2
  <2> QED BY <2>1, <2>3, <2>4, <2>5 DEF DoubleBuffer
<1>4. CASE PostFull \/ PostLast
  <2>0. node[0].post # "posted" /\ node[0].link = <<>> /\ ~Flying(1) /\ 1 \in Receivers
    <3>1. 1 \in Receivers /\ 1 - 1 = 0
      BY Constants DEF Receivers
    <3>2. node[0].post # "posted"
      BY <1>4 DEF PostFull, PostLast
    <3> QED BY <1>0, <3>1, <3>2 DEF Edge
  <2>1. /\ Typed' /\ UNCHANGED <<port, worker>>
        /\ pc[0] = "send" /\ node[0].stream = <<>>
        /\ \A m \in Receivers : node'[m] = node[m] /\ pc'[m] = pc[m]
        /\ node'[0].stream = <<>> /\ node'[0].post = "posted"
        /\ Len(node'[0].link) = 1
        /\ node'[0].link[1].buffer = node[0].out
        /\ \/ pc'[0] = "send" /\ node'[0].out = 1 - node[0].out
           \/ pc'[0] = "sent" /\ node'[0].out = node[0].out
    BY <1>0, <1>4, <2>0, PostFullTyped, PostLastTyped DEF SameNode
  <2>2. node[0].out \in {0, 1}
    BY <1>0, Ranges, Constants
  <2>3. \A m \in Receivers : Edge(m)'
    <3>1. Edge(1)'
      <4>1. 1 - 1 = 0 /\ node'[1] = node[1]
        BY <2>0, <2>1
      <4>2. ~Flying(1)'
        BY <2>0, <4>1 DEF Flying
      <4>3. 1 - (1 - node[0].out) = node[0].out
        BY <2>2
      <4>4. Posted(1 - 1)' = node[0].out
        BY <2>1, <4>1, <4>3 DEF Posted
      <4>5. /\ Len(node'[1 - 1].link) = 1 /\ node'[1 - 1].post = "posted"
            /\ node'[1 - 1].link[1].buffer = node[0].out
        BY <2>1, <4>1
      <4> QED BY <4>2, <4>4, <4>5 DEF Edge
    <3>2. ASSUME NEW m \in Receivers, m # 1 PROVE Edge(m)'
      <4>1. m - 1 \in Receivers /\ m - 1 # 0
        BY <3>2, Constants DEF Receivers
      <4> QED BY <1>0, <2>1, <4>1 DEF Edge, Flying, Posted
    <3> QED BY <3>1, <3>2
  <2>4. \A m \in Receivers : Hand(m)'
    BY <1>0, <2>1, Ranges DEF Hand
  <2>5. ASSUME NEW m \in Nodes PROVE Own(m)'
    <3>1. CASE m = 0
      <4>1. 0 # Workers
        BY Constants
      <4> QED BY <2>1, <3>1, <4>1, NothingIn DEF Own
    <3>2. CASE m # 0
      BY <1>0, <2>1, <3>2, Constants, OwnSame
    <3> QED BY <3>1, <3>2
  <2> QED BY <2>1, <2>3, <2>4, <2>5 DEF DoubleBuffer
<1>5. CASE Sent
  <2>1. /\ UNCHANGED <<version, node, port, worker>> /\ pc[0] = "sent"
        /\ node[0].post = "read" /\ pc'[0] = "done"
        /\ \A m \in Receivers : pc'[m] = pc[m]
        /\ pc' \in [Nodes -> Sends \cup Receives]
    BY <1>0, <1>5, WentTyped, Constants DEF Sent, Sends
  <2>2. Typed'
    BY <1>0, <2>1 DEF Typed, Sends
  <2>3. \A m \in Receivers : Edge(m)'
    BY <1>0, <2>1, Constants DEF Edge, Flying, Posted
  <2>4. \A m \in Receivers : Hand(m)'
    BY <1>0, <2>1, Ranges DEF Hand
  <2>5. \A m \in Nodes : Own(m)'
    BY <1>0, <2>1, Constants DEF Own
  <2> QED BY <2>2, <2>3, <2>4, <2>5 DEF DoubleBuffer
<1>6. ASSUME NEW n \in Receivers, BeginRead(n) PROVE DoubleBuffer'
  <2>0. n \in Nodes /\ n - 1 \in Nodes /\ n # n - 1 /\ n # 0 /\ n - 1 # Workers
    BY Constants DEF Receivers
  <2>1. /\ Typed' /\ UNCHANGED <<version, port, worker>>
        /\ pc[n] \in {"first", "metadata"} /\ pc'[n] \in {"first read", "yield"}
        /\ pc'[n] = "first read" => pc[n] = "first"
        /\ \A m \in Nodes \ {n} : pc'[m] = pc[m]
        /\ \A m \in Nodes \ {n, n-1} : node'[m] = node[m]
        /\ node[n-1].link # <<>> /\ node'[n-1].link = Tail(node[n-1].link)
        /\ node'[n].read = [from |-> node[n-1].link[1].buffer,
                            to |-> 1 - node[n].out, got |-> 0]
        /\ node'[n].out = node[n].out /\ node'[n].post = node[n].post
        /\ node'[n].link = node[n].link /\ node'[n].stream = node[n].stream
        /\ node'[n-1].out = node[n-1].out /\ node'[n-1].read = node[n-1].read
        /\ node'[n-1].post = node[n-1].post
        /\ node'[n-1].stream = node[n-1].stream
    BY <1>0, <1>6, BeginReadTyped DEF SameNode
  <2>2. pc'[0] = pc[0]
    BY <2>0, <2>1, Constants
  <2>3. \A m \in Receivers : Edge(m)'
    <3>1. node'[n-1].link = <<>>
      <4>1. node[n-1].link \in Seq(Messages) /\ Len(node[n-1].link) <= 1
        <5>1. Edge(n)
          BY <1>0
        <5> QED BY <1>0, <2>0, <5>1, Ranges DEF Edge
      <4> QED BY <2>1, <4>1, OneMessage
    <3>2. Edge(n)'
      <4>1. Edge(n) /\ Len(<<>>) = 0
        BY <1>0
      <4>2. /\ node'[n].read.from = Posted(n-1)
            /\ node'[n].read.to = 1 - node'[n].out
            /\ node'[n-1].post = "posted"
        <5>1. /\ node[n-1].link[1].buffer = Posted(n-1)
              /\ node[n-1].post = "posted"
          BY <2>1, <4>1 DEF Edge
        <5>2. /\ node'[n].read = [from |-> node[n-1].link[1].buffer,
                                   to |-> 1 - node[n].out, got |-> 0]
              /\ node'[n].out = node[n].out /\ node'[n-1].post = node[n-1].post
          BY <2>1
        <5> QED BY <5>1, <5>2
      <4>3. Posted(n-1)' = Posted(n-1)
        BY <2>1, <2>2 DEF Posted
      <4> QED BY <3>1, <4>1, <4>2, <4>3 DEF Edge
    <3>3. ASSUME NEW m \in Receivers, m # n PROVE Edge(m)'
      <4>1. m - 1 # n - 1 /\ m \in Nodes /\ m - 1 \in Nodes
        BY <3>3, Constants
      <4>2. /\ node'[m].read = node[m].read /\ node'[m].out = node[m].out
            /\ node'[m-1].post = node[m-1].post /\ node'[m-1].link = node[m-1].link
            /\ node'[m-1].out = node[m-1].out
        BY <2>1, <3>3, <4>1
      <4> QED BY <1>0, <2>2, <4>2 DEF Edge, Flying, Posted
    <3> QED BY <3>2, <3>3
  <2>4. ASSUME NEW m \in Receivers PROVE Hand(m)'
    <3>1. m \in Nodes /\ Leader[m] \in Nodes
      BY <1>0, Ranges, Constants
    <3>2. pc'[m] \in Waits <=> pc[m] \in Waits
      BY <2>1, <2>2, <3>1 DEF Waits
    <3>3. pc'[Leader[m]] = "done" => pc[Leader[m]] = "done"
      BY <2>1, <2>2, <3>1
    <3> QED BY <1>0, <2>1, <2>2, <3>2, <3>3, HandSame
  <2>5. ASSUME NEW m \in Nodes PROVE Own(m)'
    <3>1. CASE m = n
      <4>1. Own(n)
        BY <1>0, <2>0
      <4> QED BY <2>0, <2>1, <3>1, <4>1 DEF Own
    <3>2. CASE m = n - 1
      <4>1. Own(n-1) /\ pc'[n-1] = pc[n-1]
        BY <1>0, <2>0, <2>1
      <4> QED BY <2>0, <2>1, <3>2, <4>1 DEF Own
    <3>3. CASE m # n /\ m # n - 1
      BY <1>0, <2>1, <3>3, OwnSame
    <3> QED BY <3>1, <3>2, <3>3
  <2> QED BY <2>1, <2>3, <2>4, <2>5 DEF DoubleBuffer
<1>7. ASSUME NEW n \in Receivers, FirstRead(n) \/ Swap(n) PROVE DoubleBuffer'
  <2>0. n \in Nodes /\ n # 0
    BY Constants
  <2>1. /\ Swaps(n) /\ ~Flying(n) /\ node[n].stream = <<>>
        /\ pc[n] \in {"first read", "yield"} /\ node[n].post # "posted"
    <3>1. node[n].read.got = BucketSize /\ Swaps(n)
      BY <1>7 DEF FirstRead, Swap
    <3>2. ~Flying(n)
      BY <3>1, Constants DEF Flying
    <3> QED BY <1>0, <1>7, <2>0, <3>1, <3>2 DEF FirstRead, Swap, Idle, Own
  <2>2. /\ Typed' /\ UNCHANGED <<version, port, worker>> /\ pc'[n] = "forward"
        /\ \A m \in Nodes \ {n} : pc'[m] = pc[m] /\ node'[m] = node[m]
        /\ node'[n].out = 1 - node[n].out /\ node'[n].post = node[n].post
        /\ node'[n].link = node[n].link /\ node'[n].read = node[n].read
        /\ node'[n].stream = node[n].stream
    BY <1>0, <2>1, SwapTyped DEF SameNode
  <2>3. \A m \in Receivers : Edge(m)'
    <3>1. Edge(n)'
      BY <1>0, <2>0, <2>1, <2>2, Constants DEF Edge, Flying, Posted
    <3>2. ASSUME NEW m \in Receivers, m # n PROVE Edge(m)'
      <4>1. m \in Nodes /\ m - 1 \in Nodes /\ 0 \in Nodes
        BY Constants
      <4>2. CASE m - 1 = n
        <5>1. node[m-1].link = <<>> /\ ~Flying(m)
          BY <1>0, <2>1, <4>2 DEF Edge
        <5> QED BY <1>0, <2>2, <3>2, <4>1, <4>2, <5>1 DEF Edge, Flying
      <4>3. CASE m - 1 # n
        BY <1>0, <2>0, <2>2, <3>2, <4>1, <4>3 DEF Edge, Flying, Posted
      <4> QED BY <4>2, <4>3
    <3> QED BY <3>1, <3>2
  <2>4. ASSUME NEW m \in Receivers PROVE Hand(m)'
    <3>1. m \in Nodes /\ Leader[m] \in Nodes
      BY <1>0, Ranges, Constants
    <3>2. pc'[m] \in Waits <=> pc[m] \in Waits
      BY <2>1, <2>2, <3>1 DEF Waits
    <3>3. pc'[Leader[m]] = "done" => pc[Leader[m]] = "done"
      BY <2>1, <2>2, <3>1
    <3> QED BY <1>0, <2>1, <2>2, <3>2, <3>3, HandSame
  <2>5. ASSUME NEW m \in Nodes PROVE Own(m)'
    <3>1. CASE m = n
      <4>1. Own(n)
        BY <1>0, <2>0
      <4> QED BY <2>1, <2>2, <3>1, <4>1, NothingIn DEF Own
    <3>2. CASE m # n
      BY <1>0, <2>2, <3>2, OwnSame
    <3> QED BY <3>1, <3>2
  <2> QED BY <2>2, <2>3, <2>4, <2>5 DEF DoubleBuffer
<1>8. ASSUME NEW n \in Receivers, Forward(n) PROVE DoubleBuffer'
  <2>0. n \in Nodes /\ n # 0
    BY Constants
  <2>1. /\ Typed' /\ UNCHANGED <<version, port, worker>>
        /\ pc[n] = "forward" /\ pc'[n] \in {"yield", "metadata"}
        /\ \A m \in Nodes \ {n} : pc'[m] = pc[m] /\ node'[m] = node[m]
        /\ node'[n].out = node[n].out /\ node'[n].read = node[n].read
        /\ node'[n].stream = node[n].stream
        /\ IF n < Workers
           THEN /\ node'[n].post = "posted"
                /\ node[n].link = <<>> => /\ Len(node'[n].link) = 1
                                          /\ node'[n].link[1].buffer = node[n].out
           ELSE node'[n].post = "none" /\ node'[n].link = node[n].link
    BY <1>0, <1>8, ForwardTyped DEF SameNode
  <2>2. node[n].post # "posted"
    BY <1>0, <2>0, <2>1 DEF Own
  <2>3. \A m \in Receivers : Edge(m)'
    <3>1. Edge(n)'
      BY <1>0, <2>0, <2>1, Constants DEF Edge, Flying, Posted
    <3>2. ASSUME NEW m \in Receivers, m # n PROVE Edge(m)'
      <4>1. m \in Nodes /\ m - 1 \in Nodes /\ 0 \in Nodes
        BY Constants
      <4>2. CASE m - 1 = n
        <5>1. node[n].link = <<>> /\ ~Flying(m)
          BY <1>0, <2>2, <4>2 DEF Edge
        <5>2. n < Workers
          BY <4>2, Constants DEF Receivers
        <5>3. Len(node'[n].link) = 1 /\ node'[n].post = "posted"
              /\ node'[n].link[1].buffer = node'[n].out
          BY <2>1, <5>1, <5>2
        <5>4. ~Flying(m)'
          BY <2>1, <3>2, <4>1, <5>1 DEF Flying
        <5>5. Posted(m - 1)' = node'[n].out
          BY <2>0, <4>2 DEF Posted
        <5>6. /\ Len(node'[m - 1].link) = 1 /\ node'[m - 1].post = "posted"
              /\ node'[m - 1].link[1].buffer = node'[n].out
          BY <4>2, <5>3
        <5> QED BY <5>4, <5>5, <5>6 DEF Edge
      <4>3. CASE m - 1 # n
        BY <1>0, <2>0, <2>1, <3>2, <4>1, <4>3 DEF Edge, Flying, Posted
      <4> QED BY <4>2, <4>3
    <3> QED BY <3>1, <3>2
  <2>4. ASSUME NEW m \in Receivers PROVE Hand(m)'
    <3>1. m \in Nodes /\ Leader[m] \in Nodes
      BY <1>0, Ranges, Constants
    <3>2. pc'[m] \in Waits <=> pc[m] \in Waits
      BY <2>1, <2>2, <3>1 DEF Waits
    <3>3. pc'[Leader[m]] = "done" => pc[Leader[m]] = "done"
      BY <2>1, <2>2, <3>1
    <3> QED BY <1>0, <2>1, <2>2, <3>2, <3>3, HandSame
  <2>5. ASSUME NEW m \in Nodes PROVE Own(m)'
    <3>1. CASE m = n
      <4>1. Own(n) /\ (n = Workers => ~(n < Workers))
        BY <1>0, <2>0, Constants
      <4>2. node[n].stream = <<>> /\ Len(<<>>) = 0
        BY <2>1, <4>1 DEF Own
      <4> QED BY <2>1, <3>1, <4>1, <4>2 DEF Own
    <3>2. CASE m # n
      BY <1>0, <2>1, <3>2, OwnSame
    <3> QED BY <3>1, <3>2
  <2> QED BY <2>1, <2>3, <2>4, <2>5 DEF DoubleBuffer
<1>9. ASSUME NEW n \in Receivers, Yield(n) PROVE DoubleBuffer'
  <2>0. n \in Nodes /\ n # 0 /\ node[n].out \in {0, 1} /\ Own(n)
    BY <1>0, Constants, Ranges
  <2>1. /\ Typed' /\ UNCHANGED <<version, pc, worker>> /\ pc[n] = "yield"
        /\ \A m \in Nodes \ {n} : node'[m] = node[m]
        /\ \A m \in Receivers : /\ port'[m].request = port[m].request
                                /\ port'[m].reply = port[m].reply
        /\ node'[n].out = node[n].out /\ node'[n].post = node[n].post
        /\ node'[n].link = node[n].link /\ node'[n].read = node[n].read
        /\ \A i \in 1..Len(node'[n].stream) : node'[n].stream[i].buffer = node[n].out
    BY <1>0, <1>9, <2>0, YieldTyped DEF SameNode, Own
  <2>2. ASSUME NEW m \in Receivers PROVE Edge(m)'
    <3>1. m \in Nodes /\ m - 1 \in Nodes
      BY Constants
    <3> QED BY <1>0, <2>1, <3>1, EdgeSame
  <2>3. \A m \in Receivers : Hand(m)'
    BY <1>0, <2>1, HandSame
  <2>4. ASSUME NEW m \in Nodes PROVE Own(m)'
    <3>1. CASE m = n
      BY <2>0, <2>1, <3>1 DEF Own
    <3>2. CASE m # n
      BY <1>0, <2>1, <3>2, OwnSame
    <3> QED BY <3>1, <3>2
  <2> QED BY <2>1, <2>2, <2>3, <2>4 DEF DoubleBuffer
<1>10. ASSUME NEW n \in Receivers,
              Start(n) \/ Answered(n) \/ Flush(n) \/ FlushLast(n) \/ Finish(n)
       PROVE  DoubleBuffer'
  <2>0. n \in Nodes /\ n # 0 /\ 0 \in Nodes
    BY Constants
  <2>1. CASE Start(n)
    <3>1. /\ Typed' /\ UNCHANGED <<version, node>>
          /\ pc[n] = "start" /\ pc'[n] = "hello"
          /\ \A m \in Nodes \ {n} : pc'[m] = pc[m]
          /\ \A m \in Receivers \ {n} : port'[m] = port[m]
          /\ port'[n].reply = port[n].reply
          /\ \A m \in Receivers :
                worker'[m] = worker[m] \/ (worker'[m].pc = "hello" /\ n = Leader[m])
      BY <1>0, <2>1, StartTyped
    <3>2. \A m \in Receivers : Edge(m)'
      BY <1>0, <2>0, <3>1 DEF Edge, Flying, Posted
    <3>3. ASSUME NEW m \in Receivers PROVE Hand(m)'
      <4>1. m \in Nodes /\ Leader[m] \in Nodes
            /\ (pc'[Leader[m]] = "done" => pc[Leader[m]] = "done")
        BY <1>0, <3>1, Ranges, Constants
      <4>2. CASE m = n
        BY <1>0, <3>1, <4>1, <4>2 DEF Hand, Waits
      <4>3. CASE m # n
        <5>1. pc'[m] = pc[m] /\ port'[m] = port[m]
          BY <3>1, <4>1, <4>3
        <5> QED BY <1>0, <3>1, <4>1, <5>1 DEF Hand
      <4> QED BY <4>2, <4>3
    <3>4. \A m \in Nodes : Own(m)'
      BY <1>0, <2>0, <3>1 DEF Own
    <3> QED BY <3>1, <3>2, <3>3, <3>4 DEF DoubleBuffer
  <2>2. CASE Answered(n)
    <3>1. /\ Typed' /\ UNCHANGED <<version, node, worker>>
          /\ \/ pc[n] = "hello" /\ pc'[n] = "first"
             \/ pc[n] = "flush" /\ pc'[n] = "yield"
             \/ pc[n] = "flush last" /\ pc'[n] = "future"
          /\ \A m \in Nodes \ {n} : pc'[m] = pc[m]
          /\ \A m \in Receivers \ {n} : port'[m] = port[m]
          /\ port[n].reply /\ ~port'[n].reply
          /\ port'[n].request = port[n].request
      BY <1>0, <2>2, AnsweredTyped
    <3>2. \A m \in Receivers : Edge(m)'
      BY <1>0, <2>0, <3>1 DEF Edge, Flying, Posted
    <3>3. ASSUME NEW m \in Receivers PROVE Hand(m)'
      <4>1. m \in Nodes /\ Leader[m] \in Nodes
            /\ (pc'[Leader[m]] = "done" => pc[Leader[m]] = "done")
        BY <1>0, <3>1, Ranges, Constants
      <4>2. CASE m = n
        BY <1>0, <3>1, <4>1, <4>2 DEF Hand, Waits
      <4>3. CASE m # n
        <5>1. pc'[m] = pc[m] /\ port'[m] = port[m]
          BY <3>1, <4>1, <4>3
        <5> QED BY <1>0, <3>1, <4>1, <5>1 DEF Hand
      <4> QED BY <4>2, <4>3
    <3>4. \A m \in Nodes : Own(m)'
      BY <1>0, <2>0, <3>1 DEF Own
    <3> QED BY <3>1, <3>2, <3>3, <3>4 DEF DoubleBuffer
  <2>3. CASE Flush(n) \/ FlushLast(n)
    <3>1. /\ Typed' /\ UNCHANGED <<version, node, worker>>
          /\ pc[n] = "yield" /\ node[n].stream = <<>>
          /\ \/ pc'[n] = "flush"
             \/ pc'[n] = "flush last" /\ node[n].post # "posted"
          /\ \A m \in Nodes \ {n} : pc'[m] = pc[m]
          /\ \A m \in Receivers \ {n} : port'[m] = port[m]
          /\ port'[n].reply = port[n].reply
      BY <1>0, <2>3, FlushTyped
    <3>2. \A m \in Receivers : Edge(m)'
      BY <1>0, <2>0, <3>1 DEF Edge, Flying, Posted
    <3>3. ASSUME NEW m \in Receivers PROVE Hand(m)'
      <4>1. m \in Nodes /\ Leader[m] \in Nodes
            /\ (pc'[Leader[m]] = "done" => pc[Leader[m]] = "done")
        BY <1>0, <3>1, Ranges, Constants
      <4>2. CASE m = n
        BY <1>0, <3>1, <4>1, <4>2 DEF Hand, Waits
      <4>3. CASE m # n
        <5>1. pc'[m] = pc[m] /\ port'[m] = port[m]
          BY <3>1, <4>1, <4>3
        <5> QED BY <1>0, <3>1, <4>1, <5>1 DEF Hand
      <4> QED BY <4>2, <4>3
    <3>4. \A m \in Nodes : Own(m)'
      BY <1>0, <2>0, <3>1 DEF Own
    <3> QED BY <3>1, <3>2, <3>3, <3>4 DEF DoubleBuffer
  <2>4. CASE Finish(n)
    <3>1. /\ UNCHANGED <<version, node, port, worker>> /\ pc[n] = "future"
          /\ \A m \in Receivers :
                n = Leader[n] /\ Leader[m] = n => worker[m].pc = "done"
          /\ Goes(n, "done")
      BY <2>4 DEF Finish
    <3>2. /\ pc' \in [Nodes -> Sends \cup Receives] /\ pc'[n] = "done"
          /\ pc'[0] \in Sends /\ \A k \in Receivers : pc'[k] \in Receives
          /\ \A k \in Nodes \ {n} : pc'[k] = pc[k]
      BY <1>0, <2>0, <3>1, WentTyped DEF Receives
    <3>3. Typed'
      BY <1>0, <3>1, <3>2 DEF Typed
    <3>4. \A m \in Receivers : Edge(m)'
      BY <1>0, <2>0, <3>1, <3>2 DEF Edge, Flying, Posted
    <3>5. ASSUME NEW m \in Receivers PROVE Hand(m)'
      <4>1. m \in Nodes /\ Leader[m] \in Nodes /\ Leader[Leader[m]] = Leader[m]
        BY <1>0, Ranges, Constants
      <4>2. pc'[m] \in Waits <=> pc[m] \in Waits
        BY <3>1, <3>2, <4>1 DEF Waits
      <4>3. pc'[Leader[m]] = "done" =>
                pc[Leader[m]] = "done" \/ worker[m].pc = "done"
        BY <3>1, <3>2, <4>1
      <4> QED BY <1>0, <3>1, <4>2, <4>3 DEF Hand
    <3>6. \A m \in Nodes : Own(m)'
      BY <1>0, <2>0, <3>1, <3>2 DEF Own
    <3> QED BY <3>3, <3>4, <3>5, <3>6 DEF DoubleBuffer
  <2> QED BY <1>10, <2>1, <2>2, <2>3, <2>4
<1>11. ASSUME NEW n \in Receivers, InferenceWorker(n) PROVE DoubleBuffer'
  <2>1. /\ Typed' /\ UNCHANGED <<version, pc, node>>
        /\ \A m \in Receivers \ {n} : port'[m] = port[m] /\ worker'[m] = worker[m]
        /\ \/ /\ worker[n].pc = "hello" /\ worker'[n].pc = "receive"
              /\ port[n].request # <<>> /\ port'[n].request = <<>>
              /\ port'[n].reply
           \/ /\ worker[n].pc = "receive" /\ worker'[n].pc = "clone"
              /\ port[n].request # <<>> /\ port'[n].request = <<>>
              /\ port'[n].reply = port[n].reply
           \/ /\ worker[n].pc = "clone" /\ worker'[n].pc = "load"
              /\ port'[n].request = port[n].request /\ port'[n].reply
           \/ /\ worker[n].pc = "load" /\ worker'[n].pc \in {"receive", "done"}
              /\ port'[n] = port[n]
    <3>1. /\ Typed' /\ UNCHANGED <<version, pc, node>>
          /\ \A m \in Receivers \ {n} : port'[m] = port[m] /\ worker'[m] = worker[m]
          /\ \/ Connected(n) \/ Took(n) \/ Cloned(n) \/ Loaded(n)
      BY <1>0, <1>11, WorkerTyped
    <3>2. CASE Connected(n)
      BY <3>1, <3>2 DEF Connected
    <3>3. CASE Took(n)
      BY <3>1, <3>3 DEF Took
    <3>4. CASE Cloned(n)
      BY <3>1, <3>4 DEF Cloned
    <3>5. CASE Loaded(n)
      BY <3>1, <3>5 DEF Loaded
    <3> QED BY <3>1, <3>2, <3>3, <3>4, <3>5
  <2>2. \A m \in Receivers : Edge(m)'
    BY <1>0, <2>1 DEF Edge, Flying, Posted
  <2>3. \A m \in Receivers : Hand(m)'
    BY <1>0, <2>1 DEF Hand
  <2>4. \A m \in Nodes : Own(m)'
    BY <1>0, <2>1 DEF Own
  <2> QED BY <2>1, <2>2, <2>3, <2>4 DEF DoubleBuffer
<1>12. CASE NextUpdate
  <2>1. Fresh'
    BY <1>0, <1>12, Constants DEF NextUpdate, Fresh, Typed
  <2>2. Fresh' => DoubleBuffer'
    BY FreshBuffers, PTL
  <2> QED BY <2>1, <2>2
<1>13. CASE UNCHANGED vars
  BY <1>0, <1>13 DEF vars, DoubleBuffer, Typed, Edge, Hand, Own, Flying, Posted
<1> QED BY <1>1, <1>2, <1>3, <1>4, <1>5, <1>6, <1>7, <1>8, <1>9, <1>10, <1>11,
           <1>12, <1>13 DEF Next, Sender, Receiver, Over

LEMMA Initially == Init => DoubleBuffer
<1>1. Init => Fresh
  BY Constants DEF Init, Fresh
<1> QED BY <1>1, FreshBuffers

-----------------------------------------------------------------------------
(* The double buffering *)

\* A buffer that is wanted is the one posted, or one of which copies are made.
LEMMA WantedWhere ==
    ASSUME DoubleBuffer, NEW n \in Nodes, NEW b \in {0, 1}, Wanted(n, b)
    PROVE  \/ b = Posted(n) /\ node[n].post = "posted"
           \/ n > 0 /\ b = node[n].out /\ node[n].stream # <<>>
<1>0. /\ Typed /\ Own(n) /\ node[n].link \in Seq(Messages)
      /\ node[n].stream \in Seq(QueuedCopies)
  BY Ranges DEF DoubleBuffer
<1>1. CASE \E i \in 1..Len(node[n].link) : node[n].link[i].buffer = b
  <2>1. PICK i \in 1..Len(node[n].link) : node[n].link[i].buffer = b
    BY <1>1
  <2>2. node[n].link # <<>>
    BY <2>1, NothingIn
  <2>3. n + 1 \in Receivers /\ (n + 1) - 1 = n
    <3>1. n # Workers
      BY <1>0, <2>2 DEF Own
    <3> QED BY <3>1, Constants DEF Nodes, Receivers
  <2>4. Edge(n + 1)
    BY <2>3 DEF DoubleBuffer
  <2>5. /\ Len(node[n].link) <= 1 /\ node[n].post = "posted"
        /\ node[n].link[1].buffer = Posted(n)
    BY <2>2, <2>3, <2>4 DEF Edge
  <2>6. i = 1
    BY <1>0, <2>5
  <2> QED BY <2>1, <2>5, <2>6
<1>2. CASE n < Workers /\ node[n+1].read.got < BucketSize /\ node[n+1].read.from = b
  <2>1. n + 1 \in Receivers /\ (n + 1) - 1 = n
    BY <1>2, Constants DEF Nodes, Receivers
  <2>2. Edge(n + 1) /\ Flying(n + 1)
    BY <1>2, <2>1 DEF DoubleBuffer, Flying
  <2>3. node[n].post = "posted" /\ node[n+1].read.from = Posted(n)
    BY <2>1, <2>2 DEF Edge
  <2> QED BY <1>2, <2>3
<1>3. CASE n > 0 /\ \E i \in 1..Len(node[n].stream) : node[n].stream[i].buffer = b
  <2>1. node[n].stream # <<>>
    BY <1>3, NothingIn
  <2> QED BY <1>0, <1>3, <2>1 DEF Own
<1> QED BY <1>1, <1>2, <1>3 DEF Wanted

\* Between updates nothing is wanted and nothing handed over.
LEMMA EndedQuiet ==
    ASSUME DoubleBuffer, Ended
    PROVE  /\ \A n \in Nodes, b \in {0, 1} : ~Wanted(n, b)
           /\ \A n \in Receivers : ~Handed(n)
<1>1. ASSUME NEW n \in Nodes, NEW b \in {0, 1}, Wanted(n, b) PROVE FALSE
  <2>1. Own(n) /\ pc[n] = "done"
    BY DEF DoubleBuffer, Ended
  <2>2. node[n].post # "posted" /\ node[n].stream = <<>>
    BY <2>1 DEF Own
  <2> QED BY <1>1, <2>2, WantedWhere
<1>2. ASSUME NEW n \in Receivers PROVE ~Handed(n)
  <2>1. Hand(n) /\ pc[n] = "done"
    BY Constants DEF DoubleBuffer, Ended
  <2> QED BY <2>1 DEF Hand, Handed, Waits
<1> QED BY <1>1, <1>2

Kept ==
    /\ \A n \in Nodes, b \in {0, 1} :
          Wanted(n, b) => node'[n].buffers[b] = node[n].buffers[b]
    /\ \A n \in Receivers : Handed(n) => port'[n].shared = port[n].shared

LEMMA KeptStep ==
    ASSUME DoubleBuffer, [Next]_vars
    PROVE  Kept
<1>0. /\ Typed
      /\ \A n \in Receivers : Edge(n) /\ Hand(n)
      /\ \A n \in Nodes : Own(n)
  BY DEF DoubleBuffer
<1>1. ASSUME \A n \in Nodes : node'[n].buffers = node[n].buffers,
             \A n \in Receivers : port'[n].shared = port[n].shared
      PROVE  Kept
  BY <1>1 DEF Kept
<1>2. ASSUME NEW n \in Nodes, Copies(n) PROVE Kept
  <2>1. /\ node[n].stream # <<>>
        /\ \A m \in Nodes \ {n} : node'[m] = node[m]
        /\ \A b \in {0, 1} : n > 0 \/ Head(node[n].stream).buffer # b =>
              node'[n].buffers[b] = node[n].buffers[b]
        /\ \A m \in Receivers : m # n => port'[m] = port[m]
    BY <1>0, <1>2, CopiesTyped DEF SameNode
  <2>2. /\ pc[n] \in {"send", "yield"} /\ Head(node[n].stream).buffer = node[n].out
    <3>1. /\ node[n].stream \in Seq(QueuedCopies) /\ Own(n)
      BY <1>0, Ranges
    <3>2. 1 \in 1..Len(node[n].stream) /\ Head(node[n].stream) = node[n].stream[1]
      BY <2>1, <3>1
    <3> QED BY <2>1, <3>1, <3>2 DEF Own
  <2>3. ASSUME NEW b \in {0, 1}, Wanted(n, b), n = 0
        PROVE  Head(node[n].stream).buffer # b
    <3>1. b = Posted(n)
      BY <2>3, WantedWhere
    <3>2. pc[0] = "send"
      BY <1>0, <2>2, <2>3 DEF Typed, Sends
    <3>3. b = 1 - node[n].out /\ node[n].out \in {0, 1}
      BY <1>0, <2>3, <3>1, <3>2, Ranges DEF Posted
    <3> QED BY <2>2, <3>3
  <2>4. ASSUME n \in Receivers PROVE ~Handed(n)
    <3>1. Hand(n) /\ pc[n] = "yield"
      BY <1>0, <2>2, <2>4 DEF Typed, Receives
    <3> QED BY <3>1 DEF Hand, Handed, Waits
  <2>5. n = 0 \/ n > 0
    BY Constants
  <2> QED BY <2>1, <2>3, <2>4, <2>5 DEF Kept
<1>3. ASSUME NEW n \in Receivers, Transfer(n) PROVE Kept
  <2>1. /\ Flying(n) /\ UNCHANGED port
        /\ \A m \in Nodes \ {n, n-1} : node'[m] = node[m]
        /\ node'[n-1].buffers = node[n-1].buffers
        /\ \A b \in {0, 1} : node[n].read.to # b =>
              node'[n].buffers[b] = node[n].buffers[b]
    BY <1>0, <1>3, TransferTyped DEF SameNode, Flying
  <2>2. node[n].read.to = 1 - node[n].out /\ node[n].out \in {0, 1}
        /\ n \in Nodes /\ n # 0
    <3>1. Edge(n) /\ n \in Nodes /\ n # 0
      BY <1>0, Constants
    <3> QED BY <1>0, <2>1, <3>1, Ranges DEF Edge
  <2>3. ASSUME NEW b \in {0, 1}, Wanted(n, b) PROVE node[n].read.to # b
    <3>1. b = node[n].out
      BY <2>2, <2>3, WantedWhere DEF Posted
    <3> QED BY <2>2, <3>1
  <2> QED BY <2>1, <2>3 DEF Kept
<1>4. CASE Sender
  <2>1. node'[0].buffers = node[0].buffers /\ UNCHANGED port
        /\ \A m \in Receivers : node'[m] = node[m]
    BY <1>0, <1>4, PackTyped, PostFullTyped, PostLastTyped
       DEF Sender, Sent, SameNode
  <2>2. \A m \in Nodes : node'[m].buffers = node[m].buffers
    BY <2>1, Constants
  <2> QED BY <1>1, <2>1, <2>2
<1>5. ASSUME NEW n \in Receivers, Receiver(n) PROVE Kept
  <2>1. CASE BeginRead(n) \/ FirstRead(n) \/ Swap(n) \/ Forward(n) \/ Yield(n)
    <3>1. \A m \in Receivers : port'[m].shared = port[m].shared
      BY <1>0, <2>1, YieldTyped DEF BeginRead, FirstRead, Swap, Swaps, Forward
    <3>2. \A m \in Nodes : node'[m].buffers = node[m].buffers
      <4>1. CASE BeginRead(n)
        <5>1. \A m \in Nodes \ {n, n-1} : node'[m] = node[m]
          BY <1>0, <4>1, BeginReadTyped DEF SameNode
        <5>2. node'[n].buffers = node[n].buffers
          BY <1>0, <4>1, BeginReadTyped
        <5>3. node'[n-1].buffers = node[n-1].buffers
          BY <1>0, <4>1, BeginReadTyped
        <5> QED BY <5>1, <5>2, <5>3
      <4>2. CASE FirstRead(n) \/ Swap(n)
        BY <1>0, <4>2, SwapTyped DEF FirstRead, Swap, SameNode
      <4>3. CASE Forward(n)
        BY <1>0, <4>3, ForwardTyped DEF SameNode
      <4>4. CASE Yield(n)
        BY <1>0, <4>4, YieldTyped DEF SameNode
      <4> QED BY <2>1, <4>1, <4>2, <4>3, <4>4
    <3> QED BY <1>1, <3>1, <3>2
  <2>2. CASE Start(n) \/ Answered(n) \/ Flush(n) \/ FlushLast(n) \/ Finish(n)
    <3>1. UNCHANGED node
      BY <2>2 DEF Start, Answered, Flush, FlushLast, Finish
    <3>2. \A m \in Receivers : port'[m].shared = port[m].shared
      <4>1. CASE Start(n)
        BY <1>0, <4>1, StartTyped
      <4>2. CASE Answered(n)
        BY <1>0, <4>2, AnsweredTyped
      <4>3. CASE Flush(n) \/ FlushLast(n)
        BY <1>0, <4>3, FlushTyped
      <4>4. CASE Finish(n)
        BY <4>4 DEF Finish
      <4> QED BY <2>2, <4>1, <4>2, <4>3, <4>4
    <3> QED BY <1>1, <3>1, <3>2
  <2> QED BY <1>5, <2>1, <2>2 DEF Receiver
<1>6. ASSUME NEW n \in Receivers, InferenceWorker(n) PROVE Kept
  <2>1. UNCHANGED node /\ \A m \in Receivers : port'[m].shared = port[m].shared
    BY <1>0, <1>6, WorkerTyped
  <2> QED BY <1>1, <2>1
<1>7. CASE NextUpdate
  BY <1>7, EndedQuiet DEF NextUpdate, Kept
<1>8. CASE UNCHANGED vars
  BY <1>1, <1>8 DEF vars
<1> QED BY <1>2, <1>3, <1>4, <1>5, <1>6, <1>7, <1>8 DEF Next, Over

\* Nobody writes a buffer that the next node, the device or the inference
\* worker has still to read, for every chain, model and bucket size.
THEOREM BuffersUntouched == Spec => Untouched
<1>1. DoubleBuffer /\ [Next]_vars => DoubleBuffer'
  BY DoubleBufferStep
<1>2. DoubleBuffer /\ [Next]_vars => [Kept]_vars
  BY KeptStep
<1>3. Untouched <=> [][Kept]_vars
  BY DEF Untouched, Kept
<1> QED BY <1>1, <1>2, <1>3, Initially, PTL DEF Spec

-----------------------------------------------------------------------------
(* Where the weights are *)

Count == Len(Sizes)

\* The cells of m lie in buffer b, in version v.
Whole(v, b, m) == \A j \in 1..Sizes[m.weight] : b[m.offset + j - 1] = <<m.weight, v>>
Partly(v, b, ms, k) == \A i \in 1..k : Whole(v, b, ms[i])
AllWhole(v, b, ms) == Partly(v, b, ms, Len(ms))

\* The weights of the model that follow the first k.
Ordered(ms, k) == \A i \in 1..Len(ms) : ms[i].weight = k + i

\* One behind the other, the last before end.
Apart(ms, end) ==
    /\ \A i \in 1..Len(ms) : ms[i].offset + Sizes[ms[i].weight] <= end
    /\ \A i, j \in 1..Len(ms) :
          i < j => ms[i].offset + Sizes[ms[i].weight] <= ms[j].offset

\* The stream holds the copies of the last weights of ms, that go to or come
\* from field f.
Queue(ms, st, f) ==
    /\ Len(st) <= Len(ms)
    /\ \A i \in 1..Len(st) :
          LET m == ms[Len(ms) - Len(st) + i]
          IN  st[i].weight = m.weight /\ st[i][f] = m.offset

\* How many weights an inference worker has cloned, and how many its node has
\* yielded.
Delivered(n) == Len(worker[n].loaded) + Len(worker[n].copy)
Yielded(n) == Delivered(n) + IF port[n].reply THEN 0 ELSE Len(port[n].packed)

\* The bucket of node n holds the weights behind Begin(n) up to End(n).
Begin(n) ==
    IF n = 0 THEN node[0].index - 1 - Len(node[0].bucket.meta)
             ELSE Yielded(n) - (node[n].index - 1)
End(n) == Begin(n) + Len(node[n].bucket.meta)

\* A bucket is being read, or has been read and is not yet the one passed on.
Pending(n) ==
    \/ pc[n] = "first read"
    \/ pc[n] \in {"yield", "flush"} /\ ~node[n].bucket.last

\* How far the messages have come that node n received, and those it sent.
Received(n) == End(n) + IF Pending(n) THEN Len(node[n].incoming.meta) ELSE 0
Passed(n) ==
    IF (n = 0 /\ pc[0] = "send") \/ (n > 0 /\ pc[n] = "forward") THEN Begin(n) ELSE End(n)

\* Node 0 packs the weights of the model in order; those whose copies have been
\* made are in the buffer.
Filling ==
    LET ms == node[0].bucket.meta
        st == node[0].stream
    IN  /\ node[0].index - 1 <= Count /\ ~node[0].bucket.last
        /\ pc[0] # "send" => node[0].index - 1 = Count
        /\ pc[0] = "send" =>
              /\ Queue(ms, st, "from")
              /\ Partly(version, node[0].buffers[node[0].out], ms, Len(ms) - Len(st))
              /\ Apart(ms, node[0].offset)
              /\ Ordered(ms, Begin(0))

\* A message on its way holds what node n has still to receive of what the node
\* before has passed on.
Link(n) ==
    IF node[n-1].link = <<>> THEN Received(n) = Passed(n-1)
    ELSE LET m == node[n-1].link[1]
         IN  /\ Received(n) + Len(m.bucket.meta) = Passed(n-1)
             /\ Ordered(m.bucket.meta, Received(n))
             /\ AllWhole(version, node[n-1].buffers[m.buffer], m.bucket.meta)
             /\ m.bucket.last => Passed(n-1) = Count

\* The bucket being read follows the one in hand; what a read has brought is
\* what lies before.
Reading(n) ==
    /\ Flying(n) => Pending(n)
    /\ Pending(n) =>
          /\ Ordered(node[n].incoming.meta, End(n))
          /\ node[n].incoming.last => Received(n) = Count
          /\ IF Flying(n)
             THEN LET r == node[n].read
                  IN  /\ AllWhole(version, node[n-1].buffers[r.from],
                                  node[n].incoming.meta)
                      /\ \A c \in 0..r.got - 1 :
                            node[n].buffers[r.to][c] = node[n-1].buffers[r.from][c]
             ELSE AllWhole(version, node[n].buffers[1 - node[n].out],
                           node[n].incoming.meta)

\* The bucket in hand is whole, and after the last one there is nothing more.
Current(n) ==
    LET b == node[n].bucket
    IN  /\ Ordered(b.meta, Begin(n))
        /\ AllWhole(version, node[n].buffers[node[n].out], b.meta)
        /\ b.last => End(n) = Count
        /\ node[n].index <= Len(b.meta) + 1
        /\ pc[n] \in {"start", "hello", "first", "first read"} => b.meta = <<>> /\ ~b.last
        /\ pc[n] = "metadata" => ~b.last
        /\ pc[n] \in {"forward", "metadata"} => node[n].index = 1
        /\ pc[n] \in {"flush last", "future", "done"} => b.last /\ ~More(n)

\* The weights packed for the inference worker are in the shared buffer as far
\* as their copies have been made.
Consumer(n) ==
    LET p == port[n].packed
        st == node[n].stream
    IN  /\ Queue(p, st, "to")
        /\ Partly(version, port[n].shared, p, Len(p) - Len(st))
        /\ Apart(p, port[n].offset)
        /\ \A i \in 1..Len(st) :
              Whole(version, node[n].buffers[node[n].out], Meta(st[i].weight, st[i].from))
        /\ ~port[n].reply => Ordered(p, Delivered(n))
        /\ pc[n] \in {"start", "hello", "first", "first read", "future", "done"} =>
              p = <<>>

\* What the inference worker is asked for is what is packed, and the last task
\* completes the model.
Task(n) ==
    LET packed == Bucket(port[n].packed, pc[n] = "flush last")
    IN  /\ Len(port[n].request) <= 1
        /\ port[n].request # <<>> /\ worker[n].pc \notin {"idle", "hello"} =>
              port[n].request[1] = packed
        /\ worker[n].pc = "clone" => worker[n].task = packed
        /\ worker[n].pc # "load" => worker[n].copy = <<>>
        /\ worker[n].pc = "load" /\ worker[n].task.last => Delivered(n) = Count
        /\ worker[n].pc = "done" => Delivered(n) = Count

\* The inference worker is there before anything is asked of it.
Meeting(n) ==
    /\ worker[n].pc \in {"idle", "hello"} <=>
          pc[n] = "start" \/ (pc[n] = "hello" /\ ~port[n].reply)
    /\ pc[Leader[n]] = "start" => worker[n].pc = "idle"

\* What it has is the model from the first weight on.
Has(v, clones, k) ==
    \A i \in 1..Len(clones) :
        /\ clones[i].weight = k + i
        /\ \A j \in 1..Sizes[k + i] : clones[i].cells[j] = <<k + i, v>>

Got(n) ==
    /\ Has(version, worker[n].loaded, 0)
    /\ Has(version, worker[n].copy, Len(worker[n].loaded))

Data ==
    /\ Filling
    /\ \A n \in Receivers :
          /\ Link(n) /\ Reading(n) /\ Current(n) /\ Consumer(n)
          /\ Task(n) /\ Meeting(n) /\ Got(n)

\* A weight lies in the buffer with all its cells.
LEMMA Sized ==
    ASSUME NEW m \in Metas
    PROVE  /\ m.weight \in Weights /\ m.offset \in Nat /\ Sizes[m.weight] \in Nat \ {0}
           /\ m.offset + Sizes[m.weight] <= BucketSize
           /\ \A j \in 1..Sizes[m.weight] : m.offset + j - 1 \in Bytes
<1>1. m.weight \in Weights /\ m.offset \in Bytes /\ Fits(m.offset, m.weight)
  BY DEF Metas
<1>2. Sizes[m.weight] \in 1..BucketSize /\ BucketSize \in Nat
  BY <1>1, Constants
<1> DEFINE w == m.weight
           i == m.offset
<1> HIDE DEF w, i
<1>3. i \in Nat /\ Sizes[w] \in Nat \ {0} /\ i + Sizes[w] <= BucketSize
  BY <1>1, <1>2 DEF Bytes, Fits, w, i
<1>4. \A j \in 1..Sizes[w] : i + j - 1 \in Bytes
  BY <1>2, <1>3 DEF Bytes
<1> QED BY <1>1, <1>3, <1>4 DEF w, i

\* A copy that is made leaves what lies elsewhere and makes its weight whole.
LEMMA WrittenWhole ==
    ASSUME NEW v, NEW b \in Buffer, NEW m \in Metas, NEW cells,
           Len(cells) = Sizes[m.weight],
           \A j \in 1..Sizes[m.weight] : cells[j] = <<m.weight, v>>
    PROVE  /\ Whole(v, Write(b, m.offset, cells), m)
           /\ \A l \in Metas :
                 /\ l.offset + Sizes[l.weight] <= m.offset
                 /\ Whole(v, b, l)
                 => Whole(v, Write(b, m.offset, cells), l)
<1> DEFINE i == m.offset
           k == Sizes[m.weight]
           x == Write(b, i, cells)
<1>1. i \in Nat /\ k \in Nat \ {0} /\ \A j \in 1..k : i + j - 1 \in Bytes
  BY Sized
<1>2. \A j \in Bytes : x[j] = IF j - i + 1 \in 1..k THEN cells[j - i + 1] ELSE b[j]
  BY DEF Write
<1> HIDE DEF x, i, k
<1>3. ASSUME NEW j \in 1..k PROVE x[i + j - 1] = cells[j]
  <2> DEFINE q == i + j - 1
  <2>1. q \in Bytes /\ q - i + 1 = j
    BY <1>1
  <2> HIDE DEF q
  <2>2. x[q] = cells[j]
    BY <1>2, <2>1
  <2> QED BY <2>2 DEF q
<1>4. Whole(v, x, m)
  BY <1>3 DEF Whole, i, k
<1>5. ASSUME NEW l \in Metas, l.offset + Sizes[l.weight] <= i, Whole(v, b, l)
      PROVE  Whole(v, x, l)
  <2> DEFINE o == l.offset
             s == Sizes[l.weight]
  <2>1. o \in Nat /\ s \in Nat \ {0} /\ o + s <= i
        /\ \A j \in 1..s : o + j - 1 \in Bytes
    BY <1>5, Sized
  <2> HIDE DEF o, s
  <2>2. ASSUME NEW j \in 1..s PROVE x[o + j - 1] = b[o + j - 1]
    <3> DEFINE q == o + j - 1
    <3>1. q \in Bytes /\ q - i + 1 \notin 1..k
      BY <1>1, <2>1
    <3> HIDE DEF q
    <3>2. x[q] = b[q]
      BY <1>2, <3>1
    <3> QED BY <3>2 DEF q
  <2> QED BY <1>5, <2>2 DEF Whole, o, s
<1> QED BY <1>4, <1>5 DEF x, i

\* The next copy of a stream makes one more weight whole.
LEMMA CopyNext ==
    ASSUME NEW v, NEW b \in Buffer, NEW ms \in Seq(Metas), NEW end, Apart(ms, end),
           NEW st \in Seq(QueuedCopies), st # <<>>, NEW f \in {"from", "to"},
           Queue(ms, st, f), Partly(v, b, ms, Len(ms) - Len(st)),
           NEW cells, Len(cells) = Sizes[st[1].weight],
           \A j \in 1..Sizes[st[1].weight] : cells[j] = <<st[1].weight, v>>
    PROVE  /\ Queue(ms, Tail(st), f)
           /\ Partly(v, Write(b, st[1][f], cells), ms, Len(ms) - Len(Tail(st)))
<1> DEFINE k == Len(ms) - Len(st)
           x == Write(b, st[1][f], cells)
<1>1. /\ Len(st) \in Nat \ {0} /\ Len(ms) \in Nat /\ Len(st) <= Len(ms)
      /\ Len(Tail(st)) = Len(st) - 1
      /\ \A i \in 1..Len(st) - 1 : Tail(st)[i] = st[i + 1]
  BY DEF Queue
<1>2. k \in Nat /\ k + 1 \in 1..Len(ms) /\ Len(ms) - Len(Tail(st)) = k + 1
  BY <1>1
<1>3. \A i \in 1..Len(st) : st[i].weight = ms[k + i].weight /\ st[i][f] = ms[k + i].offset
  BY DEF Queue
<1> HIDE DEF k
<1>4. Queue(ms, Tail(st), f)
  <2>1. ASSUME NEW i \in 1..Len(st) - 1
        PROVE  /\ Tail(st)[i].weight = ms[(k + 1) + i].weight
               /\ Tail(st)[i][f] = ms[(k + 1) + i].offset
    <3>1. i + 1 \in 1..Len(st) /\ k + (i + 1) = (k + 1) + i /\ Tail(st)[i] = st[i + 1]
      BY <1>1, <1>2
    <3> QED BY <1>3, <3>1
  <2> QED BY <1>1, <1>2, <2>1 DEF Queue
<1>5. /\ st[1].weight = ms[k + 1].weight /\ st[1][f] = ms[k + 1].offset
      /\ ms[k + 1] \in Metas
  BY <1>1, <1>2, <1>3
<1>6. /\ Whole(v, x, ms[k + 1])
      /\ \A l \in Metas :
            /\ l.offset + Sizes[l.weight] <= ms[k + 1].offset
            /\ Whole(v, b, l)
            => Whole(v, x, l)
  <2> DEFINE m == ms[k + 1]
  <2>1. /\ m \in Metas /\ Len(cells) = Sizes[m.weight] /\ st[1][f] = m.offset
        /\ \A j \in 1..Sizes[m.weight] : cells[j] = <<m.weight, v>>
    BY <1>5
  <2> HIDE DEF m
  <2>2. x = Write(b, m.offset, cells)
    BY <2>1
  <2> HIDE DEF x
  <2>3. /\ Whole(v, x, m)
        /\ \A l \in Metas :
              /\ l.offset + Sizes[l.weight] <= m.offset
              /\ Whole(v, b, l)
              => Whole(v, x, l)
    BY <2>1, <2>2, WrittenWhole
  <2> QED BY <2>3 DEF m
<1> HIDE DEF x
<1>7. ASSUME NEW i \in 1..k PROVE Whole(v, x, ms[i])
  <2>1. i \in 1..Len(ms) /\ i < k + 1 /\ ms[i] \in Metas
    BY <1>1, <1>2
  <2>2. ms[i].offset + Sizes[ms[i].weight] <= ms[k + 1].offset
    BY <1>2, <2>1 DEF Apart
  <2>3. Whole(v, b, ms[i])
    BY DEF Partly, k
  <2> QED BY <1>6, <2>1, <2>2, <2>3
<1>8. Partly(v, x, ms, k + 1)
  <2>1. \A i \in 1..k + 1 : i \in 1..k \/ i = k + 1
    BY <1>2
  <2> QED BY <1>6, <1>7, <2>1 DEF Partly
<1> QED BY <1>2, <1>4, <1>8 DEF x

\* One more weight is packed.
LEMMA PackNext ==
    ASSUME NEW ms \in Seq(Metas), NEW m \in Metas, Apart(ms, m.offset)
    PROVE  /\ Append(ms, m) \in Seq(Metas) /\ Len(Append(ms, m)) = Len(ms) + 1
           /\ Apart(Append(ms, m), m.offset + Sizes[m.weight])
           /\ \A k \in Int : Ordered(ms, k) /\ m.weight = k + Len(ms) + 1 =>
                        Ordered(Append(ms, m), k)
           /\ \A v, b : \A k \in 0..Len(ms) :
                 Partly(v, b, ms, k) => Partly(v, b, Append(ms, m), k)
<1> DEFINE x == Append(ms, m)
           k == Len(ms)
<1>1. /\ x \in Seq(Metas) /\ k \in Nat /\ Len(x) = k + 1 /\ x[k + 1] = m
      /\ \A i \in 1..k : x[i] = ms[i] /\ ms[i] \in Metas
      /\ \A i \in 1..k + 1 : i \in 1..k \/ i = k + 1
  BY Appended
<1> HIDE DEF x, k
<1>2. /\ \A i \in 1..k : ms[i].offset + Sizes[ms[i].weight] <= m.offset
      /\ \A i, j \in 1..k : i < j => ms[i].offset + Sizes[ms[i].weight] <= ms[j].offset
  BY DEF Apart, k
<1>3. m.offset \in Nat /\ Sizes[m.weight] \in Nat
  BY Sized
<1>4. ASSUME NEW i \in 1..k + 1
      PROVE  x[i].offset + Sizes[x[i].weight] <= m.offset + Sizes[m.weight]
  <2>1. CASE i = k + 1
    BY <1>1, <1>3, <2>1
  <2>2. CASE i \in 1..k
    <3> DEFINE e == ms[i].offset + Sizes[ms[i].weight]
    <3>1. e \in Nat
      BY <1>1, <2>2, Sized
    <3>2. e <= m.offset /\ x[i] = ms[i]
      BY <1>1, <1>2, <2>2
    <3>3. e <= m.offset + Sizes[m.weight]
      <4> HIDE DEF e
      <4> QED BY <1>3, <3>1, <3>2
    <3> QED BY <3>2, <3>3
  <2> QED BY <1>1, <2>1, <2>2
<1>5. ASSUME NEW i \in 1..k + 1, NEW j \in 1..k + 1, i < j
      PROVE  x[i].offset + Sizes[x[i].weight] <= x[j].offset
  <2>1. i \in 1..k
    BY <1>1, <1>5
  <2>2. CASE j = k + 1
    BY <1>1, <1>2, <2>1, <2>2
  <2>3. CASE j \in 1..k
    BY <1>1, <1>2, <1>5, <2>1, <2>3
  <2> QED BY <1>1, <2>2, <2>3
<1>6. Apart(x, m.offset + Sizes[m.weight])
  BY <1>1, <1>4, <1>5 DEF Apart
<1>7. ASSUME NEW c \in Int, Ordered(ms, c), m.weight = c + k + 1 PROVE Ordered(x, c)
  <2>1. \A i \in 1..k : x[i].weight = c + i
    BY <1>1, <1>7 DEF Ordered, k
  <2>2. x[k + 1].weight = c + (k + 1)
    <3>1. c + k + 1 = c + (k + 1)
      BY <1>1
    <3> QED BY <1>1, <1>7, <3>1
  <2> QED BY <1>1, <2>1, <2>2 DEF Ordered
<1>8. ASSUME NEW v, NEW b, NEW c \in 0..k, Partly(v, b, ms, c) PROVE Partly(v, b, x, c)
  <2>1. \A i \in 1..c : i \in 1..k
    BY <1>1
  <2> QED BY <1>1, <1>8, <2>1 DEF Partly
<1> QED BY <1>1, <1>6, <1>7, <1>8 DEF x, k

\* Its copy joins the stream.
LEMMA QueueNext ==
    ASSUME NEW ms \in Seq(Metas), NEW m \in Metas, NEW st \in Seq(QueuedCopies),
           NEW c \in QueuedCopies, NEW f \in {"from", "to"},
           Queue(ms, st, f), c.weight = m.weight, c[f] = m.offset
    PROVE  /\ Queue(Append(ms, m), Append(st, c), f)
           /\ Len(Append(ms, m)) - Len(Append(st, c)) = Len(ms) - Len(st)
           /\ Len(ms) - Len(st) \in 0..Len(ms)
<1> DEFINE x == Append(ms, m)
           y == Append(st, c)
           k == Len(ms)
           l == Len(st)
<1>1. /\ k \in Nat /\ Len(x) = k + 1 /\ x[k + 1] = m
      /\ \A i \in 1..k : x[i] = ms[i]
  BY Appended
<1>2. /\ l \in Nat /\ Len(y) = l + 1 /\ y[l + 1] = c
      /\ \A i \in 1..l : y[i] = st[i]
      /\ \A i \in 1..l + 1 : i \in 1..l \/ i = l + 1
  BY Appended
<1>3. l <= k /\ \A i \in 1..l : st[i].weight = ms[k - l + i].weight
                                /\ st[i][f] = ms[k - l + i].offset
  BY DEF Queue
<1> HIDE DEF x, y, k, l
<1>4. ASSUME NEW i \in 1..l + 1
      PROVE  y[i].weight = x[(k + 1) - (l + 1) + i].weight
             /\ y[i][f] = x[(k + 1) - (l + 1) + i].offset
  <2>1. CASE i = l + 1
    <3>1. (k + 1) - (l + 1) + i = k + 1
      BY <1>1, <1>2, <2>1
    <3> QED BY <1>1, <1>2, <2>1, <3>1
  <2>2. CASE i \in 1..l
    <3>1. (k + 1) - (l + 1) + i = k - l + i /\ k - l + i \in 1..k
      BY <1>1, <1>2, <1>3, <2>2
    <3> QED BY <1>1, <1>2, <1>3, <2>2, <3>1
  <2> QED BY <1>2, <2>1, <2>2
<1>5. l + 1 <= k + 1 /\ (k + 1) - (l + 1) = k - l /\ k - l \in 0..k
  BY <1>1, <1>2, <1>3
<1>6. Queue(x, y, f)
  BY <1>1, <1>2, <1>4, <1>5 DEF Queue
<1> QED BY <1>1, <1>2, <1>5, <1>6 DEF x, y, k, l

LEMMA Parts ==
    ASSUME Typed
    PROVE  /\ \A n \in Nodes :
                 /\ node[n].bucket.meta \in Seq(Metas) /\ node[n].bucket.last \in BOOLEAN
                 /\ Len(node[n].bucket.meta) \in Nat
                 /\ node[n].incoming.meta \in Seq(Metas)
                 /\ Len(node[n].incoming.meta) \in Nat
                 /\ node[n].index \in Nat \ {0} /\ node[n].offset \in Nat
                 /\ \A b \in {0, 1} : node[n].buffers[b] \in Buffer
           /\ \A n \in Receivers :
                 /\ port[n].packed \in Seq(Metas) /\ Len(port[n].packed) \in Nat
                 /\ port[n].shared \in Buffer /\ port[n].offset \in Nat
                 /\ port[n].request \in Seq(Buckets)
                 /\ worker[n].copy \in Seq(Clones) /\ Len(worker[n].copy) \in Nat
                 /\ worker[n].loaded \in Seq(Clones) /\ Len(worker[n].loaded) \in Nat
                 /\ worker[n].task \in Buckets
<1>1. ASSUME NEW n \in Nodes
      PROVE  /\ node[n].bucket \in Buckets /\ node[n].incoming \in Buckets
             /\ node[n].index \in Nat \ {0} /\ node[n].offset \in Nat
             /\ \A b \in {0, 1} : node[n].buffers[b] \in Buffer
  BY Constants DEF Typed, NodeStates
<1>2. \A b \in Buckets : b.meta \in Seq(Metas) /\ Len(b.meta) \in Nat /\ b.last \in BOOLEAN
  BY DEF Buckets
<1>3. ASSUME NEW n \in Receivers
      PROVE  /\ port[n].packed \in Seq(Metas) /\ Len(port[n].packed) \in Nat
             /\ port[n].shared \in Buffer /\ port[n].offset \in Nat
             /\ port[n].request \in Seq(Buckets)
  BY Constants DEF Typed, PortStates
<1>4. ASSUME NEW n \in Receivers
      PROVE  /\ worker[n].copy \in Seq(Clones) /\ Len(worker[n].copy) \in Nat
             /\ worker[n].loaded \in Seq(Clones) /\ Len(worker[n].loaded) \in Nat
             /\ worker[n].task \in Buckets
  BY DEF Typed, WorkerStates
<1> QED BY <1>1, <1>2, <1>3, <1>4

LEMMA Counters ==
    ASSUME Typed
    PROVE  /\ \A n \in Receivers : /\ Delivered(n) \in Nat /\ Yielded(n) \in Nat
                                   /\ Len(port[n].packed) \in Nat
           /\ \A n \in Nodes : /\ Begin(n) \in Int /\ End(n) \in Int
                               /\ Received(n) \in Int /\ Passed(n) \in Int
                               /\ Len(node[n].bucket.meta) \in Nat
                               /\ Len(node[n].incoming.meta) \in Nat
                               /\ node[n].index \in Nat
           /\ Count \in Nat
<1>1. ASSUME NEW n \in Receivers
      PROVE  Delivered(n) \in Nat /\ Yielded(n) \in Nat /\ Len(port[n].packed) \in Nat
  <2> DEFINE a == Len(worker[n].loaded)
             b == Len(worker[n].copy)
             c == Len(port[n].packed)
             d == Delivered(n)
  <2>1. a \in Nat /\ b \in Nat /\ c \in Nat
    BY Parts
  <2>2. d = a + b /\ Yielded(n) = d + IF port[n].reply THEN 0 ELSE c
    BY DEF Delivered, Yielded
  <2> HIDE DEF a, b, c, d
  <2>3. d \in Nat
    BY <2>1, <2>2
  <2>4. Yielded(n) \in Nat
    BY <2>1, <2>2, <2>3
  <2> QED BY <2>1, <2>3, <2>4 DEF c, d
<1>2. \A n \in Nodes : /\ Len(node[n].bucket.meta) \in Nat
                       /\ Len(node[n].incoming.meta) \in Nat
                       /\ node[n].index \in Nat
  BY Parts
<1>3. ASSUME NEW n \in Nodes
      PROVE  /\ Begin(n) \in Int /\ End(n) \in Int
             /\ Received(n) \in Int /\ Passed(n) \in Int
  <2> DEFINE a == Len(node[n].bucket.meta)
             b == Len(node[n].incoming.meta)
             c == node[n].index
             d == Begin(n)
             e == End(n)
  <2>1. a \in Nat /\ b \in Nat /\ c \in Nat
    BY <1>2
  <2>2. /\ d = IF n = 0 THEN c - 1 - a ELSE Yielded(n) - (c - 1)
        /\ n # 0 => Yielded(n) \in Nat
    BY <1>1, Constants DEF Begin
  <2>3. /\ e = d + a
        /\ Received(n) = e + IF Pending(n) THEN b ELSE 0
        /\ Passed(n) = d \/ Passed(n) = e
    BY DEF End, Received, Passed
  <2> HIDE DEF a, b, c, d, e
  <2>4. d \in Int
    BY <2>1, <2>2
  <2>5. e \in Int
    BY <2>1, <2>3, <2>4
  <2>6. Received(n) \in Int /\ Passed(n) \in Int
    BY <2>1, <2>3, <2>4, <2>5
  <2> QED BY <2>4, <2>5, <2>6 DEF d, e
<1> QED BY <1>1, <1>2, <1>3, Constants DEF Count

\* What the parts of the invariant depend on.
LEMMA CountsSame ==
    ASSUME NEW n \in Nodes,
           node'[n].bucket = node[n].bucket, node'[n].incoming = node[n].incoming,
           node'[n].index = node[n].index, pc'[n] = pc[n],
           n # 0 => /\ port'[n].packed = port[n].packed /\ port'[n].reply = port[n].reply
                    /\ worker'[n].loaded = worker[n].loaded
                    /\ worker'[n].copy = worker[n].copy
    PROVE  /\ Begin(n)' = Begin(n) /\ End(n)' = End(n)
           /\ Received(n)' = Received(n) /\ Passed(n)' = Passed(n)
           /\ Pending(n)' <=> Pending(n)
           /\ n # 0 => Delivered(n)' = Delivered(n) /\ Yielded(n)' = Yielded(n)
<1>1. n # 0 => Delivered(n)' = Delivered(n) /\ Yielded(n)' = Yielded(n)
  BY DEF Delivered, Yielded
<1>2. Begin(n)' = Begin(n) /\ End(n)' = End(n)
  BY <1>1 DEF Begin, End
<1>3. Pending(n)' <=> Pending(n)
  BY DEF Pending
<1>4. Received(n)' = Received(n) /\ Passed(n)' = Passed(n)
  BY <1>2, <1>3 DEF Received, Passed
<1> QED BY <1>1, <1>2, <1>3, <1>4

LEMMA BeginSame ==
    ASSUME NEW n \in Receivers,
           node'[n].bucket = node[n].bucket, node'[n].index = node[n].index,
           Yielded(n)' = Yielded(n)
    PROVE  Begin(n)' = Begin(n) /\ End(n)' = End(n)
<1>1. Begin(n)' = Begin(n)
  BY Constants DEF Begin
<1> QED BY <1>1 DEF End

LEMMA FillingSame ==
    ASSUME Filling, version' = version, pc'[0] = pc[0],
           \A f \in {"buffers", "out", "bucket", "index", "offset", "stream"} :
               node'[0][f] = node[0][f]
    PROVE  Filling'
<1>1. /\ node'[0].buffers = node[0].buffers /\ node'[0].out = node[0].out
      /\ node'[0].bucket = node[0].bucket /\ node'[0].index = node[0].index
      /\ node'[0].offset = node[0].offset /\ node'[0].stream = node[0].stream
  OBVIOUS
<1>2. Begin(0)' = Begin(0)
  BY <1>1 DEF Begin
<1> QED BY <1>1, <1>2 DEF Filling

LEMMA LinkSame ==
    ASSUME NEW n \in Receivers, Link(n), version' = version,
           Received(n)' = Received(n), Passed(n-1)' = Passed(n-1),
           node'[n-1].link = node[n-1].link,
           node[n-1].link # <<>> =>
               node'[n-1].buffers[node[n-1].link[1].buffer]
                   = node[n-1].buffers[node[n-1].link[1].buffer]
    PROVE  Link(n)'
BY DEF Link

LEMMA ReadingSame ==
    ASSUME NEW n \in Receivers, Reading(n), version' = version,
           End(n)' = End(n), Received(n)' = Received(n), Pending(n)' <=> Pending(n),
           \A f \in {"buffers", "out", "incoming", "read"} : node'[n][f] = node[n][f],
           Flying(n) => node'[n-1].buffers[node[n].read.from]
                            = node[n-1].buffers[node[n].read.from]
    PROVE  Reading(n)'
<1>1. /\ node'[n].buffers = node[n].buffers /\ node'[n].out = node[n].out
      /\ node'[n].incoming = node[n].incoming /\ node'[n].read = node[n].read
  OBVIOUS
<1>2. Flying(n)' <=> Flying(n)
  BY <1>1 DEF Flying
<1> QED BY <1>1, <1>2 DEF Reading

LEMMA CurrentSame ==
    ASSUME NEW n \in Receivers, Current(n), version' = version, pc'[n] = pc[n],
           Begin(n)' = Begin(n), node'[n].bucket = node[n].bucket,
           node'[n].index = node[n].index, node'[n].out = node[n].out,
           node'[n].buffers[node[n].out] = node[n].buffers[node[n].out]
    PROVE  Current(n)'
BY DEF Current, End, More

LEMMA ConsumerSame ==
    ASSUME NEW n \in Receivers, Consumer(n), version' = version, pc'[n] = pc[n],
           Delivered(n)' = Delivered(n),
           \A f \in {"packed", "offset", "shared", "reply"} : port'[n][f] = port[n][f],
           node'[n].stream = node[n].stream, node'[n].out = node[n].out,
           node'[n].buffers[node[n].out] = node[n].buffers[node[n].out]
    PROVE  Consumer(n)'
<1>1. /\ port'[n].packed = port[n].packed /\ port'[n].offset = port[n].offset
      /\ port'[n].shared = port[n].shared /\ port'[n].reply = port[n].reply
  OBVIOUS
<1> QED BY <1>1 DEF Consumer

\* An inference worker does nothing but, perhaps, come into being.
Stays(n) ==
    /\ \A f \in {"task", "copy", "loaded"} : worker'[n][f] = worker[n][f]
    /\ \/ worker'[n].pc = worker[n].pc
       \/ /\ worker[n].pc = "idle" /\ worker'[n].pc = "hello"
          /\ pc'[Leader[n]] # "start"

LEMMA WorkerSame ==
    ASSUME NEW n \in Receivers, version' = version, Stays(n)
    PROVE  /\ Got(n) => Got(n)'
           /\ /\ Meeting(n) /\ port'[n].reply = port[n].reply
              /\ pc'[n] = pc[n] \/ (pc[n] = "start" /\ pc'[n] = "hello" /\ ~port[n].reply)
                 \/ (pc[n] \notin {"start", "hello"} /\ pc'[n] \notin {"start", "hello"})
              /\ pc'[Leader[n]] = "start" => pc[Leader[n]] = "start"
              => Meeting(n)'
           /\ /\ Task(n)
              /\ pc'[n] = "flush last" <=> pc[n] = "flush last"
              /\ port'[n].packed = port[n].packed /\ port'[n].request = port[n].request
              => Task(n)'
<1>1. /\ worker'[n].task = worker[n].task /\ worker'[n].copy = worker[n].copy
      /\ worker'[n].loaded = worker[n].loaded
      /\ \/ worker'[n].pc = worker[n].pc
         \/ worker[n].pc = "idle" /\ worker'[n].pc = "hello" /\ pc'[Leader[n]] # "start"
  BY DEF Stays
<1>2. Got(n) => Got(n)'
  BY <1>1 DEF Got
<1>3. ASSUME Meeting(n), port'[n].reply = port[n].reply,
             \/ pc'[n] = pc[n]
             \/ pc[n] = "start" /\ pc'[n] = "hello" /\ ~port[n].reply
             \/ pc[n] \notin {"start", "hello"} /\ pc'[n] \notin {"start", "hello"},
             pc'[Leader[n]] = "start" => pc[Leader[n]] = "start"
      PROVE  Meeting(n)'
  BY <1>1, <1>3 DEF Meeting
<1>4. ASSUME Task(n), pc'[n] = "flush last" <=> pc[n] = "flush last",
             port'[n].packed = port[n].packed, port'[n].request = port[n].request
      PROVE  Task(n)'
  <2>1. Delivered(n)' = Delivered(n)
    BY <1>1 DEF Delivered
  <2> QED BY <1>1, <1>4, <2>1 DEF Task
<1> QED BY <1>2, <1>3, <1>4

\* A buffer on its way is left alone.
LEMMA WantedKept ==
    ASSUME DoubleBuffer, Kept, NEW n \in Receivers
    PROVE  /\ node[n-1].link # <<>> =>
                 node'[n-1].buffers[node[n-1].link[1].buffer]
                     = node[n-1].buffers[node[n-1].link[1].buffer]
           /\ Flying(n) => node'[n-1].buffers[node[n].read.from]
                               = node[n-1].buffers[node[n].read.from]
<1>1. /\ n - 1 \in Nodes /\ (n - 1) + 1 = n /\ n - 1 < Workers /\ n \in Nodes
  BY Constants DEF Receivers
<1>2. Typed /\ node[n-1].link \in Seq(Messages) /\ node[n].read.from \in {0, 1}
  BY <1>1, Ranges DEF DoubleBuffer, Reads
<1>3. ASSUME node[n-1].link # <<>>
      PROVE  /\ node[n-1].link[1].buffer \in {0, 1}
             /\ Wanted(n-1, node[n-1].link[1].buffer)
  <2>1. 1 \in 1..Len(node[n-1].link) /\ node[n-1].link[1] \in Messages
    BY <1>2, <1>3
  <2> QED BY <2>1 DEF Wanted, Messages
<1>4. Flying(n) => Wanted(n-1, node[n].read.from)
  BY <1>1 DEF Flying, Wanted
<1> QED BY <1>1, <1>2, <1>3, <1>4 DEF Kept

\* A step of node n: the others keep what they have, but for messages.
Alone(n) ==
    /\ version' = version
    /\ \A m \in Nodes \ {n} :
          /\ pc'[m] = pc[m]
          /\ \A f \in {"buffers", "out", "bucket", "offset", "incoming", "index", "read",
                       "stream"} : node'[m][f] = node[m][f]
    /\ \A m \in Receivers \ {n} : port'[m] = port[m] /\ Stays(m)

LEMMA AloneCounts ==
    ASSUME NEW n \in Nodes, Alone(n), NEW m \in Nodes, m # n
    PROVE  /\ Begin(m)' = Begin(m) /\ End(m)' = End(m)
           /\ Received(m)' = Received(m) /\ Passed(m)' = Passed(m)
           /\ Pending(m)' <=> Pending(m)
           /\ m # 0 => Delivered(m)' = Delivered(m)
<1>1. /\ node'[m].bucket = node[m].bucket /\ node'[m].incoming = node[m].incoming
      /\ node'[m].index = node[m].index /\ pc'[m] = pc[m]
  BY DEF Alone
<1>2. m # 0 => /\ port'[m] = port[m]
               /\ worker'[m].loaded = worker[m].loaded
               /\ worker'[m].copy = worker[m].copy
  BY Constants DEF Alone, Stays
<1> QED BY <1>1, <1>2, CountsSame

\* A receiver that takes no message.
LEMMA NoMessage ==
    ASSUME DoubleBuffer, Data, Kept, NEW n \in Receivers, Alone(n),
           node'[n-1].link = node[n-1].link, Received(n)' = Received(n)
    PROVE  Link(n)'
<1>1. n \in Nodes /\ n - 1 \in Nodes /\ n - 1 # n /\ Link(n) /\ version' = version
  BY Constants DEF Data, Alone
<1>2. Passed(n-1)' = Passed(n-1)
  BY <1>1, AloneCounts
<1>3. node[n-1].link # <<>> =>
          node'[n-1].buffers[node[n-1].link[1].buffer]
              = node[n-1].buffers[node[n-1].link[1].buffer]
  BY WantedKept
<1> QED BY <1>1, <1>2, <1>3, LinkSame

\* A receiver whose read goes on undisturbed.
LEMMA ReadsOn ==
    ASSUME DoubleBuffer, Data, Kept, NEW n \in Receivers, Alone(n),
           End(n)' = End(n), Received(n)' = Received(n), Pending(n)' <=> Pending(n),
           \A f \in {"buffers", "out", "incoming", "read"} : node'[n][f] = node[n][f]
    PROVE  Reading(n)'
<1>1. Reading(n) /\ version' = version
  BY DEF Data, Alone
<1>2. Flying(n) => node'[n-1].buffers[node[n].read.from]
                       = node[n-1].buffers[node[n].read.from]
  BY WantedKept
<1> QED BY <1>1, <1>2, ReadingSame

\* A step of node n keeps the invariant when it keeps it at n, and for the
\* message that n sends.
LEMMA Elsewhere ==
    ASSUME DoubleBuffer, Data, Kept, NEW n \in Nodes, Alone(n),
           \A m \in Receivers \ {n, n+1} : node'[m-1].link = node[m-1].link,
           pc'[n] = "start" => pc[n] = "start",
           n = 0 => Filling',
           n \in Receivers => Link(n)' /\ Reading(n)' /\ Current(n)' /\ Consumer(n)'
                              /\ Task(n)' /\ Meeting(n)' /\ Got(n)',
           n + 1 \in Receivers =>
               \/ Link(n+1)'
               \/ node'[n].link = node[n].link /\ Passed(n)' = Passed(n)
    PROVE  Data'
<1>0. /\ version' = version
      /\ \A m \in Nodes \ {n} :
            /\ pc'[m] = pc[m]
            /\ \A f \in {"buffers", "out", "bucket", "offset", "incoming", "index",
                         "read", "stream"} : node'[m][f] = node[m][f]
      /\ \A m \in Receivers \ {n} : port'[m] = port[m] /\ Stays(m)
  BY DEF Alone
<1>1. ASSUME NEW m \in Nodes, m # n
      PROVE  /\ Begin(m)' = Begin(m) /\ End(m)' = End(m)
             /\ Received(m)' = Received(m) /\ Passed(m)' = Passed(m)
             /\ Pending(m)' <=> Pending(m)
             /\ m # 0 => Delivered(m)' = Delivered(m)
  BY <1>1, AloneCounts
<1>2. Filling'
  <2>1. Filling /\ 0 \in Nodes
    BY Constants DEF Data
  <2>2. CASE n # 0
    <3>1. /\ pc'[0] = pc[0]
          /\ \A f \in {"buffers", "out", "bucket", "index", "offset", "stream"} :
                node'[0][f] = node[0][f]
      BY <1>0, <2>1, <2>2
    <3> QED BY <1>0, <2>1, <3>1, FillingSame
  <2> QED BY <2>2
<1>3. ASSUME NEW m \in Receivers, m # n
      PROVE  /\ Reading(m)' /\ Current(m)' /\ Consumer(m)' /\ Task(m)' /\ Meeting(m)'
             /\ Got(m)' /\ Link(m)'
  <2>1. /\ Link(m) /\ Reading(m) /\ Current(m) /\ Consumer(m) /\ Task(m) /\ Meeting(m)
        /\ Got(m)
    BY DEF Data
  <2>2. /\ m \in Nodes /\ m # 0 /\ m - 1 \in Nodes /\ Leader[m] \in Receivers
        /\ Receivers \subseteq Nodes
    BY Constants, TransferAssumption
  <2>3. /\ pc'[m] = pc[m]
        /\ \A f \in {"buffers", "out", "bucket", "offset", "incoming", "index",
                     "read", "stream"} : node'[m][f] = node[m][f]
        /\ port'[m] = port[m] /\ Stays(m)
    BY <1>0, <1>3, <2>2
  <2>4. node'[m].buffers = node[m].buffers /\ node'[m].out = node[m].out
        /\ node'[m].bucket = node[m].bucket /\ node'[m].index = node[m].index
        /\ node'[m].stream = node[m].stream
    BY <2>3
  <2>5. /\ Begin(m)' = Begin(m) /\ End(m)' = End(m)
        /\ Received(m)' = Received(m)
        /\ Pending(m)' <=> Pending(m)
        /\ Delivered(m)' = Delivered(m)
    BY <1>1, <1>3, <2>2
  <2>6. Reading(m)'
    <3>1. Flying(m) => node'[m-1].buffers[node[m].read.from]
                           = node[m-1].buffers[node[m].read.from]
      BY WantedKept
    <3> QED BY <1>0, <2>1, <2>3, <2>5, <3>1, ReadingSame
  <2>7. Current(m)'
    BY <1>0, <2>1, <2>3, <2>4, <2>5, CurrentSame
  <2>8. Consumer(m)'
    BY <1>0, <2>1, <2>3, <2>4, <2>5, ConsumerSame
  <2>9. pc'[Leader[m]] = "start" => pc[Leader[m]] = "start"
    BY <1>0, <2>2
  <2>10. Task(m)' /\ Meeting(m)' /\ Got(m)'
    BY <1>0, <2>1, <2>3, <2>9, WorkerSame
  <2>11. Link(m)'
    <3>0. node[m-1].link # <<>> =>
              node'[m-1].buffers[node[m-1].link[1].buffer]
                  = node[m-1].buffers[node[m-1].link[1].buffer]
      BY WantedKept
    <3>1. CASE m = n + 1 /\ Link(n+1)'
      BY <3>1
    <3>2. CASE m = n + 1 /\ ~Link(n+1)'
      <4>1. node'[m-1].link = node[m-1].link /\ Passed(m-1)' = Passed(m-1)
        <5>1. m - 1 = n /\ n + 1 \in Receivers
          BY <3>2, Constants
        <5>2. node'[n].link = node[n].link /\ Passed(n)' = Passed(n)
          BY <3>2, <5>1
        <5> QED BY <5>1, <5>2
      <4> QED BY <1>0, <2>1, <2>5, <3>0, <4>1, LinkSame
    <3>3. CASE m # n + 1
      <4>1. m - 1 # n /\ node'[m-1].link = node[m-1].link
        BY <1>3, <2>2, <3>3, Constants
      <4>2. Passed(m-1)' = Passed(m-1)
        BY <1>1, <2>2, <4>1
      <4> QED BY <1>0, <2>1, <2>5, <3>0, <4>1, <4>2, LinkSame
    <3> QED BY <3>1, <3>2, <3>3
  <2> QED BY <2>6, <2>7, <2>8, <2>10, <2>11
<1>4. \A m \in Receivers : /\ Link(m)' /\ Reading(m)' /\ Current(m)' /\ Consumer(m)'
                           /\ Task(m)' /\ Meeting(m)' /\ Got(m)'
  BY <1>3
<1> QED BY <1>2, <1>4 DEF Data

-----------------------------------------------------------------------------
(* Every step keeps the weights where they are *)

LEMMA CopiesHead ==
    ASSUME DoubleBuffer, NEW n \in Nodes, Copies(n)
    PROVE  /\ node[n].stream \in Seq(QueuedCopies) /\ node[n].stream # <<>>
           /\ LET c == node[n].stream[1]
              IN  /\ Head(node[n].stream) = c /\ c \in QueuedCopies
                  /\ c.buffer = node[n].out
                  /\ c.weight \in Weights /\ c.from \in Bytes /\ c.to \in Bytes
                  /\ Fits(c.from, c.weight) /\ Fits(c.to, c.weight)
                  /\ Meta(c.weight, c.from) \in Metas
           /\ node[n].out \in {0, 1}
           /\ pc[n] \in {"send", "yield"}
<1>1. /\ Typed /\ Own(n) /\ node[n].stream \in Seq(QueuedCopies) /\ node[n].stream # <<>>
      /\ node[n].out \in {0, 1}
  BY Ranges, CopiesTyped DEF DoubleBuffer
<1>2. /\ 1 \in 1..Len(node[n].stream) /\ Head(node[n].stream) = node[n].stream[1]
      /\ node[n].stream[1] \in QueuedCopies
  BY <1>1
<1>3. node[n].stream[1].buffer = node[n].out /\ pc[n] \in {"send", "yield"}
  BY <1>1, <1>2 DEF Own
<1> DEFINE c == node[n].stream[1]
<1>4. c \in QueuedCopies
  BY <1>2
<1> HIDE DEF c
<1>5. /\ c.weight \in Weights /\ c.from \in Bytes /\ c.to \in Bytes
      /\ Fits(c.from, c.weight) /\ Fits(c.to, c.weight)
      /\ Meta(c.weight, c.from) \in Metas
  BY <1>4 DEF QueuedCopies, Meta, Metas
<1> QED BY <1>1, <1>2, <1>3, <1>5 DEF c

LEMMA CopiesInData ==
    ASSUME DoubleBuffer, Data, Kept, Copies(0)
    PROVE  Data'
<1> DEFINE st == node[0].stream
           c == st[1]
           b == node[0].buffers[node[0].out]
           ms == node[0].bucket.meta
<1>0. 0 \in Nodes /\ 0 \notin Receivers /\ Typed
  BY Constants DEF DoubleBuffer
<1>1. /\ st \in Seq(QueuedCopies) /\ st # <<>> /\ Head(st) = c /\ c.buffer = node[0].out
      /\ c.weight \in Weights /\ node[0].out \in {0, 1} /\ pc[0] = "send"
  <2>1. pc[0] \in Sends
    BY <1>0 DEF Typed
  <2> QED BY <1>0, <2>1, CopiesHead DEF Sends
<1>2. /\ UNCHANGED <<version, pc, worker, port>>
      /\ \A m \in Nodes \ {0} : node'[m] = node[m]
      /\ node'[0].stream = Tail(st)
      /\ \A f \in {"out", "bucket", "offset", "incoming", "index", "post", "link",
                   "read"} : node'[0][f] = node[0][f]
      /\ node'[0].buffers[c.buffer] = Write(node[0].buffers[c.buffer], c.from, New(c.weight))
  BY <1>0, <1>1, CopiesTyped DEF SameNode
<1>3. /\ node'[0].out = node[0].out /\ node'[0].bucket = node[0].bucket
      /\ node'[0].incoming = node[0].incoming
      /\ node'[0].index = node[0].index /\ node'[0].offset = node[0].offset
      /\ node'[0].link = node[0].link
      /\ node'[0].buffers[node'[0].out] = Write(b, c.from, New(c.weight))
  BY <1>1, <1>2
<1>4. Begin(0)' = Begin(0) /\ Passed(0)' = Passed(0)
  BY <1>0, <1>2, <1>3, CountsSame
<1>5. Filling'
  <2>1. /\ Filling /\ ms \in Seq(Metas) /\ b \in Buffer
    BY <1>0, <1>1, Parts DEF Data
  <2>2. /\ Queue(ms, st, "from") /\ Partly(version, b, ms, Len(ms) - Len(st))
        /\ Apart(ms, node[0].offset) /\ Ordered(ms, Begin(0))
        /\ node[0].index - 1 <= Count /\ ~node[0].bucket.last
    BY <1>1, <2>1 DEF Filling
  <2>3. /\ Len(New(c.weight)) = Sizes[c.weight]
        /\ \A j \in 1..Sizes[c.weight] : New(c.weight)[j] = <<c.weight, version>>
    <3>1. Sizes[c.weight] \in Nat
      <4>1. Sizes[c.weight] \in 1..BucketSize /\ BucketSize \in Nat
        BY <1>1, Constants
      <4> QED BY <4>1
    <3> HIDE DEF c
    <3> QED BY <3>1 DEF New
  <2> DEFINE cells == New(c.weight)
             x == Write(b, c["from"], cells)
  <2>4. /\ Queue(ms, Tail(st), "from")
        /\ Partly(version, x, ms, Len(ms) - Len(Tail(st)))
    <3> HIDE DEF st, ms, b, cells
    <3> QED BY <1>1, <2>1, <2>2, <2>3, CopyNext DEF cells
  <2>5. node'[0].buffers[node'[0].out] = x
    BY <1>3
  <2> HIDE DEF x
  <2> QED BY <1>1, <1>2, <1>3, <1>4, <2>2, <2>4, <2>5 DEF Filling
<1>6. Alone(0)
  BY <1>0, <1>2 DEF Alone, Stays
<1>7. \A m \in Receivers \ {0, 0+1} : node'[m-1].link = node[m-1].link
  BY <1>2, <1>3, Constants
<1> QED BY <1>0, <1>2, <1>3, <1>4, <1>5, <1>6, <1>7, Elsewhere

LEMMA CopiesOutData ==
    ASSUME DoubleBuffer, Data, Kept, NEW n \in Receivers, Copies(n)
    PROVE  Data'
<1> DEFINE st == node[n].stream
           c == st[1]
           b == node[n].buffers[node[n].out]
           p == port[n].packed
           cells == Cells(b, c.from, c.weight)
<1>0. n \in Nodes /\ n - 1 \in Nodes /\ n - 1 # n /\ n # 0 /\ Typed
  BY Constants DEF DoubleBuffer
<1>1. /\ st \in Seq(QueuedCopies) /\ st # <<>> /\ Head(st) = c /\ c.buffer = node[n].out
      /\ c.weight \in Weights /\ c.from \in Bytes /\ Fits(c.from, c.weight)
      /\ Meta(c.weight, c.from) \in Metas
      /\ node[n].out \in {0, 1} /\ pc[n] = "yield"
  <2>1. pc[n] \in Receives
    BY <1>0 DEF Typed
  <2> QED BY <1>0, <2>1, CopiesHead DEF Receives
<1>2. /\ UNCHANGED <<version, pc, worker>>
      /\ \A m \in Nodes \ {n} : node'[m] = node[m]
      /\ \A m \in Receivers : m # n => port'[m] = port[m]
      /\ node'[n].stream = Tail(st)
      /\ \A f \in {"out", "bucket", "offset", "incoming", "index", "post", "link",
                   "read"} : node'[n][f] = node[n][f]
      /\ \A k \in {0, 1} : n > 0 => node'[n].buffers[k] = node[n].buffers[k]
      /\ port'[n].shared = Write(port[n].shared, c.to, cells)
      /\ \A f \in {"packed", "offset", "request", "reply"} : port'[n][f] = port[n][f]
  BY <1>0, <1>1, CopiesTyped DEF SameNode
<1>3. /\ node'[n].out = node[n].out /\ node'[n].bucket = node[n].bucket
      /\ node'[n].incoming = node[n].incoming /\ node'[n].index = node[n].index
      /\ node'[n].link = node[n].link /\ node'[n].read = node[n].read
      /\ port'[n].packed = p /\ port'[n].offset = port[n].offset
      /\ port'[n].request = port[n].request /\ port'[n].reply = port[n].reply
  BY <1>2
<1>4. node'[n].buffers = node[n].buffers
  <2>1. node'[n].buffers \in [{0, 1} -> Buffer] /\ node[n].buffers \in [{0, 1} -> Buffer]
    <3>1. Typed'
      BY <1>0, CopiesTyped
    <3> QED BY <1>0, <3>1 DEF Typed, NodeStates
  <2>2. \A k \in {0, 1} : node'[n].buffers[k] = node[n].buffers[k]
    BY <1>2, Constants DEF Receivers
  <2> QED BY <2>1, <2>2
<1>5. Alone(n) /\ Stays(n)
  BY <1>2 DEF Alone, Stays
<1>6. /\ Begin(n)' = Begin(n) /\ End(n)' = End(n)
      /\ Received(n)' = Received(n) /\ Passed(n)' = Passed(n)
      /\ Pending(n)' <=> Pending(n)
      /\ Delivered(n)' = Delivered(n)
  BY <1>0, <1>2, <1>3, CountsSame
<1>7. Link(n)'
  BY <1>0, <1>2, <1>5, <1>6, NoMessage
<1>8. Reading(n)'
  BY <1>2, <1>4, <1>5, <1>6, ReadsOn
<1>9. Current(n)'
  <2>1. Current(n)
    BY DEF Data
  <2> QED BY <1>2, <1>3, <1>4, <1>6, <2>1, CurrentSame
<1>10. Consumer(n)'
  <2>1. Consumer(n) /\ p \in Seq(Metas) /\ b \in Buffer /\ port[n].shared \in Buffer
    BY <1>0, <1>1, Parts DEF Data
  <2>2. /\ Queue(p, st, "to") /\ Partly(version, port[n].shared, p, Len(p) - Len(st))
        /\ Apart(p, port[n].offset)
        /\ \A i \in 1..Len(st) : Whole(version, b, Meta(st[i].weight, st[i].from))
    BY <2>1 DEF Consumer
  <2>3. /\ Len(cells) = Sizes[c.weight]
        /\ \A j \in 1..Sizes[c.weight] : cells[j] = <<c.weight, version>>
    <3>1. /\ Len(cells) = Sizes[c.weight]
          /\ \A j \in 1..Sizes[c.weight] : cells[j] = b[c.from + j - 1]
      <4> HIDE DEF c, b
      <4> QED BY <1>1, <2>1, CellsTyped
    <3>2. Whole(version, b, Meta(c.weight, c.from))
      <4>1. 1 \in 1..Len(st)
        BY <1>1
      <4> QED BY <2>2, <4>1
    <3>3. \A j \in 1..Sizes[c.weight] : b[c.from + j - 1] = <<c.weight, version>>
      <4> HIDE DEF c, b
      <4> QED BY <3>2 DEF Whole, Meta
    <3> HIDE DEF c, b, cells
    <3> QED BY <3>1, <3>3
  <2> DEFINE x == Write(port[n].shared, c["to"], cells)
  <2>4. /\ Queue(p, Tail(st), "to")
        /\ Partly(version, x, p, Len(p) - Len(Tail(st)))
    <3> HIDE DEF st, p, b, cells
    <3> QED BY <1>1, <2>1, <2>2, <2>3, CopyNext
  <2>5. port'[n].shared = x
    BY <1>2
  <2>6. \A i \in 1..Len(Tail(st)) :
            Whole(version, b, Meta(Tail(st)[i].weight, Tail(st)[i].from))
    <3>1. \A i \in 1..Len(Tail(st)) : i + 1 \in 1..Len(st) /\ Tail(st)[i] = st[i + 1]
      BY <1>1
    <3> HIDE DEF st, b
    <3> QED BY <2>2, <3>1
  <2>7. node'[n].buffers[node'[n].out] = b
    BY <1>3, <1>4
  <2>8. /\ ~port[n].reply => Ordered(p, Delivered(n))
        /\ pc[n] \in {"start", "hello", "first", "first read", "future", "done"} =>
              p = <<>>
    BY <2>1 DEF Consumer
  <2> HIDE DEF x, b
  <2> QED BY <1>2, <1>3, <1>6, <2>2, <2>4, <2>5, <2>6, <2>7, <2>8 DEF Consumer
<1>11. Task(n)' /\ Meeting(n)' /\ Got(n)'
  BY <1>2, <1>3, <1>5, WorkerSame DEF Data
<1>12. \A m \in Receivers \ {n, n+1} : node'[m-1].link = node[m-1].link
  BY <1>2, Constants
<1> QED BY <1>0, <1>2, <1>3, <1>5, <1>6, <1>7, <1>8, <1>9, <1>10, <1>11, <1>12, Elsewhere

LEMMA TransferData ==
    ASSUME DoubleBuffer, Data, Kept, NEW n \in Receivers, Transfer(n)
    PROVE  Data'
<1> DEFINE r == node[n].read
           from == node[n-1].buffers[r.from]
           to == node[n].buffers[r.to]
<1>0. n \in Nodes /\ n - 1 \in Nodes /\ n - 1 # n /\ n # 0 /\ Typed /\ Edge(n)
  BY Constants DEF DoubleBuffer
<1>1. /\ Typed' /\ Flying(n) /\ UNCHANGED <<version, pc, port, worker>>
      /\ \A m \in Nodes \ {n, n-1} : node'[m] = node[m]
      /\ node'[n].read = [node[n].read EXCEPT !.got = @ + 1]
      /\ \A f \in {"out", "bucket", "offset", "incoming", "index", "post", "link",
                   "stream"} : node'[n][f] = node[n][f]
      /\ \A f \in {"buffers", "out", "bucket", "offset", "incoming", "index", "link",
                   "read", "stream"} : node'[n-1][f] = node[n-1][f]
      /\ \A k \in {0, 1} : r.to # k => node'[n].buffers[k] = node[n].buffers[k]
      /\ node'[n].buffers[r.to] = [to EXCEPT ![r.got] = from[r.got]]
  BY <1>0, TransferTyped DEF SameNode, Flying
<1>2. /\ node'[n].out = node[n].out /\ node'[n].bucket = node[n].bucket
      /\ node'[n].incoming = node[n].incoming /\ node'[n].index = node[n].index
      /\ node'[n].link = node[n].link /\ node'[n].stream = node[n].stream
      /\ node'[n-1].link = node[n-1].link /\ node'[n-1].buffers = node[n-1].buffers
  BY <1>1
<1>3. /\ r \in Reads /\ r.got \in Bytes /\ r.got < BucketSize /\ r.to = 1 - node[n].out
      /\ node[n].out \in {0, 1} /\ r.to \in {0, 1} /\ r.from \in {0, 1}
      /\ to \in Buffer /\ from \in Buffer
  <2>1. r \in Reads /\ node[n].out \in {0, 1}
    BY <1>0, Ranges
  <2>2. r.to \in {0, 1} /\ r.from \in {0, 1} /\ r.got \in 0..BucketSize
    BY <2>1 DEF Reads
  <2>3. to \in Buffer /\ from \in Buffer
    BY <1>0, <2>2, Parts
  <2>4. r.got < BucketSize /\ r.to = 1 - node[n].out
    BY <1>0, <1>1 DEF Flying, Edge
  <2>5. r.got \in Bytes
    BY <2>2, <2>4, Constants DEF Bytes
  <2> QED BY <2>1, <2>2, <2>3, <2>4, <2>5
<1>4. node'[n].buffers[node[n].out] = node[n].buffers[node[n].out]
  BY <1>1, <1>3
<1>5. Alone(n) /\ Stays(n)
  <2>1. ASSUME NEW m \in Nodes \ {n}
        PROVE  \A f \in {"buffers", "out", "bucket", "offset", "incoming", "index",
                         "read", "stream"} : node'[m][f] = node[m][f]
    BY <1>1
  <2> QED BY <1>1, <2>1 DEF Alone, Stays
<1>6. /\ Begin(n)' = Begin(n) /\ End(n)' = End(n)
      /\ Received(n)' = Received(n) /\ Passed(n)' = Passed(n)
      /\ Pending(n)' <=> Pending(n)
      /\ Delivered(n)' = Delivered(n)
  BY <1>0, <1>1, <1>2, CountsSame
<1>7. Link(n)'
  BY <1>2, <1>5, <1>6, NoMessage
<1>8. Reading(n)'
  <2>1. /\ Pending(n) /\ Ordered(node[n].incoming.meta, End(n))
        /\ node[n].incoming.last => Received(n) = Count
        /\ AllWhole(version, from, node[n].incoming.meta)
        /\ \A c \in 0..r.got - 1 : to[c] = from[c]
    <3>1. Reading(n)
      BY DEF Data
    <3> QED BY <1>1, <3>1 DEF Reading
  <2>2. /\ node'[n].read.got = r.got + 1 /\ node'[n].read.to = r.to
        /\ node'[n].read.from = r.from
    BY <1>1, <1>3 DEF Reads
  <2> DEFINE x == node'[n].buffers[r.to]
  <2>3. x \in Buffer /\ \A c \in 0..r.got : x[c] = from[c]
    <3>1. x = [to EXCEPT ![r.got] = from[r.got]] /\ to \in [Bytes -> Cell]
          /\ from \in [Bytes -> Cell]
      BY <1>1, <1>3 DEF Buffer
    <3> HIDE DEF x, to, from
    <3>2. x \in Buffer
      BY <1>3, <3>1 DEF Buffer
    <3>3. \A c \in 0..r.got : c \in 0..r.got - 1 \/ c = r.got
      BY <1>3 DEF Bytes
    <3>4. x[r.got] = from[r.got] /\ \A c \in 0..r.got - 1 : x[c] = to[c]
      BY <1>3, <3>1 DEF Bytes
    <3> QED BY <2>1, <3>2, <3>3, <3>4
  <2>4. node'[n-1].buffers[r.from] = from
    BY <1>2
  <2> HIDE DEF x
  <2>5. CASE r.got + 1 < BucketSize
    <3>1. Flying(n)'
      BY <2>2, <2>5 DEF Flying
    <3>2. \A c \in 0..node'[n].read.got - 1 : x[c] = from[c]
      BY <1>3, <2>2, <2>3 DEF Bytes
    <3>3. \A c \in 0..node'[n].read.got - 1 :
              node'[n].buffers[node'[n].read.to][c]
                  = node'[n-1].buffers[node'[n].read.from][c]
      BY <2>2, <2>4, <3>2 DEF x
    <3> HIDE DEF from, to, r
    <3> QED BY <1>1, <1>2, <1>6, <2>1, <2>2, <2>4, <3>1, <3>3 DEF Reading
  <2>6. CASE ~(r.got + 1 < BucketSize)
    <3>1. ~Flying(n)'
      BY <2>2, <2>6 DEF Flying
    <3>2. \A c \in Bytes : c \in 0..r.got
      BY <1>3, <2>6, Constants DEF Bytes
    <3>3. x = from
      <4> HIDE DEF from
      <4> QED BY <1>3, <2>3, <3>2 DEF Buffer
    <3>4. node'[n].buffers[1 - node'[n].out] = from
      BY <1>2, <1>3, <3>3 DEF x
    <3> HIDE DEF from, to, r
    <3> QED BY <1>1, <1>2, <1>6, <2>1, <3>1, <3>4 DEF Reading
  <2> QED BY <2>5, <2>6
<1>9. Current(n)'
  BY <1>1, <1>2, <1>4, <1>6, CurrentSame DEF Data
<1>10. Consumer(n)'
  BY <1>1, <1>2, <1>4, <1>6, ConsumerSame DEF Data
<1>11. Task(n)' /\ Meeting(n)' /\ Got(n)'
  BY <1>1, <1>5, WorkerSame DEF Data
<1>12. \A m \in Receivers \ {n, n+1} : node'[m-1].link = node[m-1].link
  <2>1. \A m \in Nodes : node'[m].link = node[m].link
    BY <1>1, <1>2
  <2> QED BY <2>1, Constants
<1> QED BY <1>0, <1>1, <1>2, <1>5, <1>6, <1>7, <1>8, <1>9, <1>10, <1>11, <1>12, Elsewhere

LEMMA PackData ==
    ASSUME DoubleBuffer, Data, Kept, Pack
    PROVE  Data'
<1> DEFINE st == node[0].stream
           ms == node[0].bucket.meta
           w == node[0].index
           i == node[0].offset
           m == Meta(w, i)
           c == [weight |-> w, buffer |-> node[0].out, from |-> i, to |-> 0]
<1>0. 0 \in Nodes /\ 0 \notin Receivers /\ Typed
  BY Constants DEF DoubleBuffer
<1>1. /\ UNCHANGED <<version, pc, port, worker>> /\ pc[0] = "send"
      /\ \A k \in Receivers : node'[k] = node[k]
      /\ \A f \in {"buffers", "out", "incoming", "post", "link", "read"} :
            node'[0][f] = node[0][f]
      /\ w \in Weights /\ Fits(i, w) /\ m \in Metas
      /\ node'[0].stream = Queued(0, w, i, 0)
      /\ node'[0].bucket.meta = Append(ms, m)
      /\ node'[0].bucket.last = node[0].bucket.last
      /\ node'[0].offset = i + Sizes[w]
      /\ node'[0].index = w + 1
  BY <1>0, PackTyped DEF SameNode
<1>2. /\ node'[0].out = node[0].out /\ node'[0].buffers = node[0].buffers
      /\ node'[0].link = node[0].link
  BY <1>1
<1>3. m.weight = w /\ m.offset = i
  BY DEF Meta
<1>4. /\ ms \in Seq(Metas) /\ st \in Seq(QueuedCopies) /\ Len(ms) \in Nat
      /\ node[0].out \in {0, 1} /\ w \in 1..Len(Sizes) /\ Len(Sizes) \in Nat
  BY <1>0, <1>1, Parts, Ranges, Constants DEF Weights
<1>5. Queued(0, w, i, 0) = Append(st, c) /\ c \in QueuedCopies
      /\ c.weight = w /\ c["from"] = i
  <2>1. Fits(0, w) /\ 0 \in Bytes /\ i \in Bytes
    <3>1. i \in 0..BucketSize
      <4>1. node[0].offset \in 0..BucketSize
        BY <1>0 DEF Typed, NodeStates
      <4> QED BY <4>1
    <3> HIDE DEF w, i
    <3> QED BY <1>1, <3>1, Fitting
  <2> HIDE DEF w, i
  <2> QED BY <1>1, <1>4, <2>1 DEF Queued, QueuedCopies
<1>6. /\ Queue(ms, st, "from")
      /\ Partly(version, node[0].buffers[node[0].out], ms, Len(ms) - Len(st))
      /\ Apart(ms, i) /\ Ordered(ms, Begin(0)) /\ ~node[0].bucket.last
  BY <1>1 DEF Data, Filling
<1> HIDE DEF c, m
<1>7. /\ Queue(Append(ms, m), Append(st, c), "from")
      /\ Len(Append(ms, m)) - Len(Append(st, c)) = Len(ms) - Len(st)
      /\ Len(ms) - Len(st) \in 0..Len(ms)
  <2>1. c.weight = m.weight /\ c["from"] = m.offset
    BY <1>3, <1>5
  <2> HIDE DEF ms, st, w, i
  <2> QED BY <1>1, <1>4, <1>5, <1>6, <2>1, QueueNext
<1>8. w = Begin(0) + Len(ms) + 1 /\ Begin(0) \in Int
  <2> DEFINE k == Len(ms)
  <2>1. Begin(0) = w - 1 - k /\ k \in Nat /\ w \in Nat
    BY <1>4 DEF Begin
  <2> HIDE DEF k, w
  <2>2. w = Begin(0) + k + 1 /\ Begin(0) \in Int
    BY <2>1
  <2> QED BY <2>2 DEF k
<1>9. /\ Len(Append(ms, m)) = Len(ms) + 1
      /\ Apart(Append(ms, m), i + Sizes[w])
      /\ Ordered(Append(ms, m), Begin(0))
      /\ Partly(version, node[0].buffers[node[0].out], Append(ms, m), Len(ms) - Len(st))
  <2> DEFINE k == Begin(0)
             b == node[0].buffers[node[0].out]
             l == Len(ms) - Len(st)
  <2>1. Apart(ms, m.offset) /\ m.weight = k + Len(ms) + 1 /\ Ordered(ms, k) /\ k \in Int
    BY <1>3, <1>6, <1>8
  <2>2. Partly(version, b, ms, l) /\ l \in 0..Len(ms)
    BY <1>6, <1>7
  <2> HIDE DEF k, b, l, ms, w, i
  <2>3. /\ Len(Append(ms, m)) = Len(ms) + 1
        /\ Apart(Append(ms, m), m.offset + Sizes[m.weight])
        /\ Ordered(Append(ms, m), k)
        /\ Partly(version, b, Append(ms, m), l)
    BY <1>1, <1>4, <2>1, <2>2, PackNext
  <2> QED BY <1>3, <2>3 DEF k, b, l
<1>10. Begin(0)' = Begin(0)
  <2> DEFINE k == Len(ms)
  <2>1. Begin(0)' = (w + 1) - 1 - (k + 1)
    BY <1>1, <1>9 DEF Begin
  <2>2. Begin(0) = w - 1 - k /\ k \in Nat /\ w \in Nat
    BY <1>4 DEF Begin
  <2> HIDE DEF k, w
  <2> QED BY <2>1, <2>2
<1>11. Filling'
  <2>1. w + 1 - 1 <= Count
    BY <1>4 DEF Count
  <2>2. Count' = Count
    BY DEF Count
  <2> DEFINE l == Len(ms) - Len(st)
  <2>4. /\ node'[0].bucket.meta = Append(ms, m) /\ node'[0].stream = Append(st, c)
        /\ node'[0].buffers[node'[0].out] = node[0].buffers[node[0].out]
    BY <1>1, <1>2, <1>5
  <2>3. /\ node'[0].index - 1 <= Count
        /\ pc'[0] = "send"
        /\ Queue(node'[0].bucket.meta, node'[0].stream, "from")
        /\ Len(node'[0].bucket.meta) - Len(node'[0].stream) = l
        /\ Partly(version, node'[0].buffers[node'[0].out], node'[0].bucket.meta, l)
        /\ Apart(node'[0].bucket.meta, node'[0].offset)
        /\ Ordered(node'[0].bucket.meta, Begin(0))
        /\ ~node'[0].bucket.last
    <3>1. node'[0].index - 1 <= Count /\ pc'[0] = "send" /\ ~node'[0].bucket.last
          /\ node'[0].offset = i + Sizes[w]
      <4>1. node'[0].index = w + 1 /\ w \in Nat
        BY <1>1, <1>4
      <4>2. node'[0].index - 1 <= Count
        <5> HIDE DEF w
        <5> QED BY <2>1, <4>1
      <4> QED BY <1>1, <1>6, <4>2
    <3> HIDE DEF ms, st, w, i
    <3> QED BY <1>7, <1>9, <2>4, <3>1
  <2> HIDE DEF l
  <2> QED BY <1>1, <1>10, <2>3 DEF Filling
<1>12. Passed(0)' = Passed(0)
  BY <1>1, <1>10 DEF Passed
<1>13. Alone(0)
  <2>1. \A k \in Nodes \ {0} : k \in Receivers
    BY Constants
  <2> QED BY <1>0, <1>1, <2>1 DEF Alone, Stays
<1>14. \A k \in Receivers \ {0, 0+1} : node'[k-1].link = node[k-1].link
  <2>1. \A k \in Nodes : node'[k].link = node[k].link
    BY <1>1, <1>2, Constants
  <2> QED BY <2>1, Constants
<1> QED BY <1>0, <1>1, <1>2, <1>11, <1>12, <1>13, <1>14, Elsewhere

\* Of nothing everything holds.
LEMMA Nothing ==
    /\ Len(<<>>) = 0
    /\ \A f : Queue(<<>>, <<>>, f)
    /\ \A v, b : AllWhole(v, b, <<>>) /\ Partly(v, b, <<>>, Len(<<>>) - Len(<<>>))
    /\ \A k : Apart(<<>>, k) /\ Ordered(<<>>, k)
    /\ \A v, k : Has(v, <<>>, k)
<1>1. Len(<<>>) = 0 /\ Len(<<>>) - Len(<<>>) = 0 /\ \A i : i \notin 1..0
  OBVIOUS
<1> QED BY <1>1 DEF Queue, AllWhole, Partly, Apart, Ordered, Has

LEMMA PostsData ==
    ASSUME DoubleBuffer, Data, Kept, PostFull \/ PostLast
    PROVE  Data'
<1> DEFINE ms == node[0].bucket.meta
           b == node[0].buffers[node[0].out]
<1>0. /\ 0 \in Nodes /\ 0 \notin Receivers /\ Typed
      /\ 1 \in Receivers /\ 1 \in Nodes /\ 1 # 0 /\ 1 - 1 = 0 /\ 0 + 1 = 1
  BY Constants DEF DoubleBuffer, Receivers
<1>1. node[0].post # "posted"
  BY DEF PostFull, PostLast
<1>2. node[0].link = <<>>
  <2>1. Edge(1)
    BY <1>0 DEF DoubleBuffer
  <2> QED BY <1>0, <1>1, <2>1 DEF Edge
<1>3. /\ UNCHANGED <<version, port, worker>> /\ pc[0] = "send" /\ node[0].stream = <<>>
      /\ \A k \in Receivers : node'[k] = node[k] /\ pc'[k] = pc[k]
      /\ node'[0].buffers = node[0].buffers /\ node'[0].index = node[0].index
      /\ node'[0].stream = <<>>
      /\ Len(node'[0].link) = 1
      /\ node'[0].link[1].buffer = node[0].out /\ node'[0].link[1].bucket.meta = ms
      /\ \/ /\ pc'[0] = "send" /\ node'[0].bucket = NoBucket /\ node'[0].offset = 0
            /\ node'[0].link[1].bucket.last = node[0].bucket.last
         \/ /\ pc'[0] = "sent" /\ node'[0].bucket = node[0].bucket
            /\ node[0].index > Len(Sizes)
  <2>1. CASE PostFull
    <3>1. /\ UNCHANGED <<version, pc, port, worker>>
          /\ pc[0] = "send" /\ node[0].stream = <<>>
          /\ \A m \in Receivers : node'[m] = node[m]
          /\ \A f \in {"buffers", "incoming", "index", "read", "stream"} :
                node'[0][f] = node[0][f]
          /\ node'[0].bucket = NoBucket /\ node'[0].offset = 0
          /\ Len(node'[0].link) = 1
          /\ node'[0].link[1].buffer = node[0].out
          /\ node'[0].link[1].bucket = node[0].bucket
      BY <1>0, <1>2, <2>1, PostFullTyped DEF SameNode
    <3> QED BY <3>1
  <2>2. CASE PostLast
    <3>1. /\ UNCHANGED <<version, port, worker>>
          /\ pc[0] = "send" /\ node[0].stream = <<>>
          /\ pc'[0] = "sent" /\ \A m \in Receivers : pc'[m] = pc[m]
          /\ \A m \in Receivers : node'[m] = node[m]
          /\ \A f \in {"buffers", "out", "bucket", "offset", "incoming", "index", "read",
                       "stream"} : node'[0][f] = node[0][f]
          /\ Len(node'[0].link) = 1
          /\ node'[0].link[1].buffer = node[0].out
          /\ node'[0].link[1].bucket = Bucket(node[0].bucket.meta, TRUE)
      BY <1>0, <1>2, <2>2, PostLastTyped DEF SameNode
    <3>2. node[0].index > Len(Sizes)
      BY <2>2 DEF PostLast
    <3> QED BY <3>1, <3>2 DEF Bucket
  <2> QED BY <2>1, <2>2
<1>4. /\ AllWhole(version, b, ms) /\ Ordered(ms, Begin(0)) /\ ~node[0].bucket.last
      /\ node[0].index - 1 <= Count
  <2>1. /\ Partly(version, b, ms, Len(ms) - Len(node[0].stream)) /\ Ordered(ms, Begin(0))
        /\ ~node[0].bucket.last /\ node[0].index - 1 <= Count
    BY <1>3 DEF Data, Filling
  <2>2. Len(ms) - Len(node[0].stream) = Len(ms)
    <3>1. Len(ms) \in Nat /\ Len(node[0].stream) = 0
      BY <1>0, <1>3, Parts, Nothing
    <3> QED BY <3>1
  <2> QED BY <2>1, <2>2 DEF AllWhole
<1>5. /\ Received(1) = Passed(0) /\ Passed(0) = Begin(0)
      /\ Received(1)' = Received(1)
  <2>1. Link(1)
    BY <1>0 DEF Data
  <2>2. Received(1) = Passed(0)
    BY <1>0, <1>2, <2>1 DEF Link
  <2>3. Passed(0) = Begin(0)
    BY <1>3 DEF Passed
  <2>4. Received(1)' = Received(1)
    BY <1>0, <1>3, CountsSame
  <2> QED BY <2>2, <2>3, <2>4
<1>6. /\ Passed(0)' = Begin(0) + Len(ms)
      /\ pc'[0] = "sent" => node[0].index - 1 = Count /\ Passed(0)' = Count
      /\ Begin(0) \in Int /\ Len(ms) \in Nat
  <2> DEFINE k == Len(ms)
             w == node[0].index
             l == Begin(0)
  <2>1. l = w - 1 - k /\ k \in Nat /\ w \in Nat /\ Count \in Nat
    BY <1>0, Counters, Parts DEF Begin
  <2>2. CASE pc'[0] = "send"
    <3>1. Passed(0)' = w - 1 - Len(NoBucket.meta)
      BY <1>3, <2>2 DEF Passed, Begin
    <3>2. Len(NoBucket.meta) = 0
      BY Nothing DEF NoBucket, Bucket
    <3>3. Passed(0)' = w - 1 - 0
      BY <3>1, <3>2
    <3> HIDE DEF k, w, l
    <3>4. Passed(0)' = l + k /\ l \in Int /\ k \in Nat
      BY <2>1, <3>3
    <3>5. pc'[0] # "sent"
      BY <2>2
    <3> QED BY <3>4, <3>5 DEF k, l
  <2>3. CASE pc'[0] = "sent"
    <3>1. Passed(0)' = (w - 1 - k) + k
      BY <1>3, <2>3 DEF Passed, Begin, End
    <3>2. w - 1 <= Count /\ w > Count
      BY <1>3, <1>4, <2>3 DEF Count
    <3> HIDE DEF k, w, l
    <3>3. /\ Passed(0)' = l + k /\ w - 1 = Count /\ Passed(0)' = Count
          /\ l \in Int /\ k \in Nat
      BY <2>1, <3>1, <3>2
    <3> QED BY <3>3 DEF k, l, w
  <2> QED BY <1>3, <2>2, <2>3
<1>7. Link(1)'
  <2> DEFINE m == node'[0].link[1]
  <2>1. node'[1-1].link # <<>>
    BY <1>0, <1>3, Nothing
  <2>2. /\ m.bucket.meta = ms /\ m.buffer = node[0].out
        /\ node'[0].buffers[m.buffer] = b
        /\ m.bucket.last => pc'[0] = "sent"
    BY <1>3, <1>4
  <2>3. /\ Received(1)' + Len(m.bucket.meta) = Passed(0)'
        /\ Ordered(m.bucket.meta, Received(1)')
        /\ AllWhole(version', node'[0].buffers[m.buffer], m.bucket.meta)
        /\ m.bucket.last => Passed(0)' = Count
    BY <1>3, <1>4, <1>5, <1>6, <2>2
  <2>4. /\ Received(1)' + Len(node'[1-1].link[1].bucket.meta) = Passed(1-1)'
        /\ Ordered(node'[1-1].link[1].bucket.meta, Received(1)')
        /\ AllWhole(version', node'[1-1].buffers[node'[1-1].link[1].buffer],
                    node'[1-1].link[1].bucket.meta)
        /\ node'[1-1].link[1].bucket.last => Passed(1-1)' = Count
    BY <1>0, <2>3
  <2> QED BY <2>1, <2>4 DEF Link
<1>8. Filling'
  <2>1. node'[0].index - 1 <= Count
    BY <1>3, <1>4
  <2>2. CASE pc'[0] = "send"
    <3>1. /\ node'[0].bucket.meta = <<>> /\ ~node'[0].bucket.last
          /\ node'[0].stream = <<>>
      BY <1>3, <2>2 DEF NoBucket, Bucket
    <3> QED BY <2>1, <2>2, <3>1, Nothing DEF Filling
  <2>3. CASE pc'[0] = "sent"
    <3>1. ~node'[0].bucket.last /\ node'[0].index - 1 = Count
      BY <1>3, <1>4, <1>6, <2>3
    <3> QED BY <2>1, <2>3, <3>1 DEF Filling
  <2> QED BY <1>3, <2>2, <2>3
<1>9. Alone(0)
  <2>1. \A k \in Nodes \ {0} : k \in Receivers
    BY Constants
  <2> QED BY <1>0, <1>3, <2>1 DEF Alone, Stays
<1>10. \A k \in Receivers \ {0, 0+1} : node'[k-1].link = node[k-1].link
  <2>1. \A k \in Receivers \ {0, 0+1} : k - 1 \in Receivers
    BY Constants DEF Receivers
  <2> QED BY <1>3, <2>1
<1>11. 0 + 1 \in Receivers => Link(0 + 1)'
  BY <1>0, <1>7
<1> QED BY <1>0, <1>3, <1>8, <1>9, <1>10, <1>11, Elsewhere

LEMMA SentData ==
    ASSUME DoubleBuffer, Data, Kept, Sent
    PROVE  Data'
<1>0. 0 \in Nodes /\ 0 \notin Receivers /\ pc \in [Nodes -> Sends \cup Receives]
  BY Constants DEF DoubleBuffer, Typed
<1>1. /\ UNCHANGED <<version, node, port, worker>> /\ pc[0] = "sent" /\ pc'[0] = "done"
      /\ \A m \in Nodes \ {0} : pc'[m] = pc[m]
  BY <1>0 DEF Sent, Goes
<1>2. Filling'
  <2>1. Filling
    BY DEF Data
  <2> QED BY <1>1, <2>1 DEF Filling
<1>3. Passed(0)' = Passed(0)
  BY <1>1 DEF Passed, End, Begin
<1>4. Alone(0)
  BY <1>1 DEF Alone, Stays
<1> QED BY <1>0, <1>1, <1>2, <1>3, <1>4, Elsewhere

LEMMA BeginReadData ==
    ASSUME DoubleBuffer, Data, Kept, NEW n \in Receivers, BeginRead(n)
    PROVE  Data'
<1> DEFINE m == node[n-1].link[1]
           ms == m.bucket.meta
<1>0. n \in Nodes /\ n - 1 \in Nodes /\ n - 1 # n /\ n # 0 /\ Typed /\ Edge(n) /\ Own(n)
  BY Constants DEF DoubleBuffer
<1>1. /\ Typed' /\ UNCHANGED <<version, port, worker>>
      /\ \/ pc[n] = "first" /\ pc'[n] = "first read"
         \/ pc[n] = "metadata" /\ pc'[n] = "yield"
      /\ \A k \in Nodes \ {n} : pc'[k] = pc[k]
      /\ \A k \in Nodes \ {n, n-1} : node'[k] = node[k]
      /\ node[n-1].link # <<>> /\ node'[n-1].link = Tail(node[n-1].link)
      /\ node'[n].read = [from |-> m.buffer, to |-> 1 - node[n].out, got |-> 0]
      /\ node'[n].incoming = m.bucket
      /\ \A f \in {"buffers", "out", "bucket", "offset", "index", "post", "link",
                   "stream"} : node'[n][f] = node[n][f]
      /\ \A f \in {"buffers", "out", "bucket", "offset", "incoming", "index", "post",
                   "read", "stream"} : node'[n-1][f] = node[n-1][f]
  BY <1>0, BeginReadTyped DEF SameNode
<1> HIDE DEF m
<1>2. /\ node'[n].out = node[n].out /\ node'[n].bucket = node[n].bucket
      /\ node'[n].buffers = node[n].buffers /\ node'[n].index = node[n].index
      /\ node'[n].link = node[n].link /\ node'[n].stream = node[n].stream
      /\ node'[n-1].buffers = node[n-1].buffers
  BY <1>1
<1>3. node'[n-1].link = <<>>
  <2>1. node[n-1].link \in Seq(Messages) /\ Len(node[n-1].link) <= 1
    BY <1>0, Ranges DEF Edge
  <2> QED BY <1>1, <2>1, OneMessage
<1>4. Alone(n) /\ Stays(n)
  <2>1. ASSUME NEW k \in Nodes \ {n}
        PROVE  \A f \in {"buffers", "out", "bucket", "offset", "incoming", "index",
                         "read", "stream"} : node'[k][f] = node[k][f]
    BY <1>1
  <2> QED BY <1>1, <2>1 DEF Alone, Stays
<1>5. /\ Link(n) /\ Reading(n) /\ Current(n) /\ Consumer(n) /\ Task(n) /\ Meeting(n)
      /\ Got(n)
  BY DEF Data
<1>6. /\ Delivered(n)' = Delivered(n) /\ Yielded(n)' = Yielded(n)
      /\ Begin(n)' = Begin(n) /\ End(n)' = End(n)
  <2>1. Delivered(n)' = Delivered(n) /\ Yielded(n)' = Yielded(n)
    BY <1>1 DEF Delivered, Yielded
  <2> QED BY <1>2, <2>1, BeginSame
<1>7. ~Pending(n) /\ Pending(n)'
  BY <1>1, <1>2, <1>5 DEF Pending, Current
<1>8. /\ Received(n) = End(n) /\ Received(n)' = Received(n) + Len(ms)
      /\ End(n) \in Int /\ Passed(n)' = Passed(n)
  <2>1. End(n) \in Int
    BY <1>0, Counters
  <2>2. Received(n) = End(n)
    BY <1>7, <2>1 DEF Received
  <2>3. Received(n)' = End(n) + Len(ms)
    BY <1>1, <1>6, <1>7 DEF Received
  <2>4. Passed(n)' = Passed(n)
    BY <1>0, <1>1, <1>6 DEF Passed
  <2> QED BY <2>1, <2>2, <2>3, <2>4
<1>9. /\ Received(n)' = Passed(n-1) /\ Ordered(ms, Received(n))
      /\ AllWhole(version, node[n-1].buffers[m.buffer], ms)
      /\ m.bucket.last => Passed(n-1) = Count
      /\ Passed(n-1)' = Passed(n-1)
  <2>1. Passed(n-1)' = Passed(n-1)
    BY <1>0, <1>4, AloneCounts
  <2>2. /\ Received(n) + Len(ms) = Passed(n-1) /\ Ordered(ms, Received(n))
        /\ AllWhole(version, node[n-1].buffers[m.buffer], ms)
        /\ m.bucket.last => Passed(n-1) = Count
    BY <1>1, <1>5 DEF Link, m
  <2> QED BY <1>8, <2>1, <2>2
<1>10. Link(n)'
  BY <1>3, <1>9 DEF Link
<1>11. Reading(n)'
  <2>1. /\ node'[n].read.got = 0 /\ node'[n].read.from = m.buffer
        /\ node'[n].incoming.meta = ms /\ node'[n].incoming.last = m.bucket.last
        /\ Flying(n)'
    <3>1. /\ node'[n].read.got = 0 /\ node'[n].read.from = m.buffer
          /\ node'[n].incoming.meta = ms /\ node'[n].incoming.last = m.bucket.last
      <4>1. node'[n].read = [from |-> m.buffer, to |-> 1 - node[n].out, got |-> 0]
        BY <1>1
      <4>2. node'[n].incoming = m.bucket
        BY <1>1
      <4>3. node'[n].read.got = 0 /\ node'[n].read.from = m.buffer
        BY <4>1
      <4> QED BY <4>2, <4>3
    <3>2. 0 < BucketSize
      BY Constants
    <3> QED BY <3>1, <3>2 DEF Flying
  <2>2. \A c : c \notin 0..node'[n].read.got - 1
    BY <2>1
  <2>3. /\ Ordered(node'[n].incoming.meta, End(n)')
        /\ node'[n].incoming.last => Received(n)' = Count
        /\ AllWhole(version', node'[n-1].buffers[node'[n].read.from],
                    node'[n].incoming.meta)
    BY <1>1, <1>2, <1>6, <1>8, <1>9, <2>1
  <2>4. Count' = Count
    BY DEF Count
  <2> QED BY <1>7, <2>1, <2>2, <2>3, <2>4 DEF Reading
<1>12. Current(n)'
  BY <1>1, <1>2, <1>5, <1>6 DEF Current, More
<1>13. Consumer(n)'
  BY <1>1, <1>2, <1>5, <1>6 DEF Consumer
<1>14. Task(n)' /\ Meeting(n)' /\ Got(n)'
  <2>1. pc'[Leader[n]] = "start" => pc[Leader[n]] = "start"
    BY <1>1, TransferAssumption, Constants
  <2>2. /\ pc'[n] = "flush last" <=> pc[n] = "flush last"
        /\ pc[n] \notin {"start", "hello"} /\ pc'[n] \notin {"start", "hello"}
    BY <1>1
  <2> QED BY <1>1, <1>4, <1>5, <2>1, <2>2, WorkerSame
<1>15. \A k \in Receivers \ {n, n+1} : node'[k-1].link = node[k-1].link
  <2>1. \A k \in Receivers \ {n, n+1} : k - 1 \in Nodes \ {n, n-1}
    BY Constants
  <2> QED BY <1>1, <2>1
<1> QED BY <1>0, <1>1, <1>2, <1>4, <1>8, <1>10, <1>11, <1>12, <1>13, <1>14, <1>15,
           Elsewhere

LEMMA SwapsData ==
    ASSUME DoubleBuffer, Data, Kept, NEW n \in Receivers, FirstRead(n) \/ Swap(n)
    PROVE  Data'
<1> DEFINE ms == node[n].bucket.meta
           is == node[n].incoming.meta
<1>0. /\ n \in Nodes /\ n - 1 \in Nodes /\ n - 1 # n /\ n # 0 /\ Typed /\ Own(n)
      /\ node[n].out \in {0, 1}
  BY Constants, Ranges DEF DoubleBuffer
<1>1. /\ Swaps(n) /\ ~Flying(n) /\ node[n].stream = <<>> /\ Pending(n)
      /\ pc[n] = "first read" \/ (pc[n] = "yield" /\ ~More(n))
  <2>1. node[n].read.got = BucketSize /\ Swaps(n)
    BY DEF FirstRead, Swap
  <2>2. ~Flying(n)
    BY <2>1, Constants DEF Flying
  <2> QED BY <1>0, <2>1, <2>2 DEF FirstRead, Swap, Idle, Own, Pending
<1>2. /\ Typed' /\ UNCHANGED <<version, port, worker>> /\ pc'[n] = "forward"
      /\ \A k \in Nodes \ {n} : pc'[k] = pc[k] /\ node'[k] = node[k]
      /\ node'[n].out = 1 - node[n].out
      /\ node'[n].bucket = node[n].incoming /\ node'[n].index = 1
      /\ \A f \in {"buffers", "offset", "incoming", "post", "link", "read", "stream"} :
            node'[n][f] = node[n][f]
  BY <1>0, <1>1, SwapTyped DEF SameNode
<1>3. /\ node'[n].buffers = node[n].buffers /\ node'[n].link = node[n].link
      /\ node'[n].stream = <<>> /\ node'[n].read = node[n].read
      /\ 1 - node'[n].out = node[n].out
  <2>1. 1 - (1 - node[n].out) = node[n].out
    BY <1>0
  <2>2. node'[n].stream = node[n].stream
    BY <1>2
  <2> QED BY <1>1, <1>2, <2>1, <2>2
<1>4. Alone(n) /\ Stays(n)
  BY <1>2 DEF Alone, Stays
<1>5. /\ Link(n) /\ Reading(n) /\ Current(n) /\ Consumer(n) /\ Task(n) /\ Meeting(n)
      /\ Got(n)
  BY DEF Data
<1>6. /\ Delivered(n)' = Delivered(n) /\ Yielded(n)' = Yielded(n)
      /\ Yielded(n) \in Nat /\ Len(ms) \in Nat /\ Len(is) \in Nat
  BY <1>0, <1>2, Counters DEF Delivered, Yielded
<1>7. node[n].index = Len(ms) + 1
  <2>1. node[n].index <= Len(ms) + 1 /\ node[n].index \in Nat \ {0}
    BY <1>0, <1>5, Parts DEF Current
  <2>2. CASE pc[n] = "first read"
    <3>1. ms = <<>>
      BY <1>5, <2>2 DEF Current
    <3>2. Len(ms) = 0
      BY <3>1, Nothing
    <3> HIDE DEF ms
    <3> QED BY <2>1, <3>2
  <2>3. CASE ~More(n)
    <3>1. ~(node[n].index <= Len(ms))
      BY <2>3 DEF More
    <3> HIDE DEF ms
    <3> QED BY <1>6, <2>1, <3>1
  <2> QED BY <1>1, <2>2, <2>3
<1>8. /\ End(n) = Yielded(n) /\ Begin(n)' = End(n) /\ End(n)' = End(n) + Len(is)
      /\ Received(n) = End(n) + Len(is) /\ End(n)' = Received(n)
  <2> DEFINE k == Len(ms)
             l == Len(is)
             y == Yielded(n)
  <2>1. Begin(n) = y - (k + 1 - 1) /\ End(n) = Begin(n) + k
    BY <1>0, <1>7 DEF Begin, End
  <2>2. Begin(n)' = y - (1 - 1) /\ End(n)' = Begin(n)' + l
    BY <1>0, <1>2, <1>6 DEF Begin, End
  <2>3. Received(n) = End(n) + l
    BY <1>1 DEF Received
  <2>4. y \in Nat /\ k \in Nat /\ l \in Nat
    BY <1>6
  <2> HIDE DEF k, l, y
  <2>5. End(n) = y /\ Begin(n)' = y
    BY <2>1, <2>2, <2>4
  <2> QED BY <2>2, <2>3, <2>4, <2>5 DEF l, y
<1>9. ~Pending(n)' /\ Received(n)' = Received(n) /\ Passed(n)' = Passed(n)
  <2>1. ~Pending(n)'
    BY <1>2 DEF Pending
  <2>2. Received(n)' = End(n)' /\ End(n)' \in Int
    <3>1. End(n)' = End(n) + Len(is) /\ End(n) \in Int
      BY <1>0, <1>8, Counters
    <3>2. Received(n)' = End(n)' + 0
      BY <2>1 DEF Received
    <3>3. End(n)' \in Int
      <4> DEFINE k == Len(is)
      <4>1. End(n)' = End(n) + k /\ End(n) \in Int /\ k \in Nat
        BY <1>6, <3>1
      <4> HIDE DEF k
      <4> QED BY <4>1
    <3> QED BY <3>2, <3>3
  <2>3. Passed(n) = End(n) /\ Passed(n)' = Begin(n)'
    <3>1. pc[n] # "forward"
      BY <1>1
    <3>2. n > 0
      BY DEF Receivers
    <3> QED BY <1>2, <3>1, <3>2 DEF Passed
  <2> QED BY <1>8, <2>1, <2>2, <2>3
<1>10. Link(n)'
  <2>1. node'[n-1].link = node[n-1].link
    BY <1>0, <1>2
  <2> QED BY <1>4, <1>9, <2>1, NoMessage
<1>11. Reading(n)'
  <2>1. ~Flying(n)'
    BY <1>1, <1>3 DEF Flying
  <2> QED BY <1>9, <2>1 DEF Reading
<1>12. Current(n)'
  <2>1. /\ Ordered(is, End(n))
        /\ node[n].incoming.last => Received(n) = Count
        /\ AllWhole(version, node[n].buffers[1 - node[n].out], is)
    BY <1>1, <1>5 DEF Reading
  <2>2. /\ Ordered(node'[n].bucket.meta, Begin(n)')
        /\ AllWhole(version', node'[n].buffers[node'[n].out], node'[n].bucket.meta)
        /\ node'[n].bucket.last => End(n)' = Count
        /\ node'[n].index = 1 /\ 1 <= Len(node'[n].bucket.meta) + 1
    <3>1. node'[n].bucket.meta = is /\ node'[n].bucket.last = node[n].incoming.last
      BY <1>2
    <3>2. 1 <= Len(is) + 1
      BY <1>6
    <3>3. node'[n].buffers[node'[n].out] = node[n].buffers[1 - node[n].out]
      BY <1>2, <1>3
    <3>4. node[n].incoming.last => End(n)' = Count
      <4>1. node[n].incoming.last => Received(n) = Count
        BY <2>1
      <4>2. End(n)' = Received(n)
        BY <1>8
      <4> QED BY <4>1, <4>2
    <3>5. version' = version /\ node'[n].index = 1
      BY <1>2
    <3> HIDE DEF is
    <3>6. Ordered(is, Begin(n)')
      <4>1. Begin(n)' = End(n)
        BY <1>8
      <4> QED BY <2>1, <4>1
    <3> QED BY <2>1, <3>1, <3>2, <3>3, <3>4, <3>5, <3>6
  <2>3. Count' = Count
    BY DEF Count
  <2> QED BY <1>2, <2>2, <2>3 DEF Current
<1>13. Consumer(n)'
  <2>1. \A i : i \notin 1..Len(<<>>)
    BY NothingIn
  <2> QED BY <1>1, <1>2, <1>3, <1>5, <1>6, <2>1 DEF Consumer
<1>14. Task(n)' /\ Meeting(n)' /\ Got(n)'
  <2>1. pc'[Leader[n]] = "start" => pc[Leader[n]] = "start"
    BY <1>2, TransferAssumption, Constants
  <2>2. /\ pc'[n] = "flush last" <=> pc[n] = "flush last"
        /\ pc[n] \notin {"start", "hello"} /\ pc'[n] \notin {"start", "hello"}
    BY <1>1, <1>2
  <2> QED BY <1>2, <1>4, <1>5, <2>1, <2>2, WorkerSame
<1>15. \A k \in Receivers \ {n, n+1} : node'[k-1].link = node[k-1].link
  BY <1>2, Constants
<1> QED BY <1>0, <1>2, <1>3, <1>4, <1>9, <1>10, <1>11, <1>12, <1>13, <1>14, <1>15,
           Elsewhere

LEMMA ForwardData ==
    ASSUME DoubleBuffer, Data, Kept, NEW n \in Receivers, Forward(n)
    PROVE  Data'
<1> DEFINE ms == node[n].bucket.meta
           b == node[n].buffers[node[n].out]
<1>0. /\ n \in Nodes /\ n - 1 \in Nodes /\ n - 1 # n /\ n # 0 /\ Typed /\ Own(n)
      /\ node[n].out \in {0, 1}
  BY Constants, Ranges DEF DoubleBuffer
<1>1. /\ Typed' /\ UNCHANGED <<version, port, worker>>
      /\ pc[n] = "forward" /\ pc'[n] \in {"yield", "metadata"}
      /\ pc'[n] = "yield" <=> node[n].bucket.last
      /\ \A k \in Nodes \ {n} : pc'[k] = pc[k] /\ node'[k] = node[k]
      /\ \A f \in {"buffers", "out", "bucket", "offset", "incoming", "index", "read",
                   "stream"} : node'[n][f] = node[n][f]
      /\ n < Workers /\ node[n].link = <<>> =>
            /\ Len(node'[n].link) = 1
            /\ node'[n].link[1].buffer = node[n].out
            /\ node'[n].link[1].bucket = node[n].bucket
  BY <1>0, ForwardTyped DEF SameNode
<1>2. /\ node'[n].out = node[n].out /\ node'[n].bucket = node[n].bucket
      /\ node'[n].buffers = node[n].buffers /\ node'[n].index = node[n].index
      /\ node'[n].incoming = node[n].incoming /\ node'[n].stream = node[n].stream
      /\ node'[n].read = node[n].read
  BY <1>1
<1>3. node[n].post # "posted"
  BY <1>0, <1>1 DEF Own
<1>4. Alone(n) /\ Stays(n)
  BY <1>1 DEF Alone, Stays
<1>5. /\ Link(n) /\ Reading(n) /\ Current(n) /\ Consumer(n) /\ Task(n) /\ Meeting(n)
      /\ Got(n)
  BY DEF Data
<1>6. /\ Delivered(n)' = Delivered(n) /\ Yielded(n)' = Yielded(n)
      /\ Begin(n)' = Begin(n) /\ End(n)' = End(n)
  <2>1. Delivered(n)' = Delivered(n) /\ Yielded(n)' = Yielded(n)
    BY <1>1 DEF Delivered, Yielded
  <2> QED BY <1>2, <2>1, BeginSame
<1>7. ~Pending(n) /\ ~Pending(n)'
  BY <1>1, <1>2 DEF Pending
<1>8. /\ Received(n)' = Received(n)
      /\ Passed(n) = Begin(n) /\ Passed(n)' = End(n) /\ End(n) = Begin(n) + Len(ms)
  <2>1. Received(n)' = Received(n)
    BY <1>6, <1>7 DEF Received
  <2>2. n > 0
    BY DEF Receivers
  <2>3. Passed(n) = Begin(n) /\ Passed(n)' = End(n)
    BY <1>1, <1>6, <2>2 DEF Passed
  <2> QED BY <2>1, <2>3 DEF End
<1>9. Link(n)'
  <2>1. node'[n-1].link = node[n-1].link
    BY <1>0, <1>1
  <2> QED BY <1>4, <1>8, <2>1, NoMessage
<1>10. Reading(n)'
  <2>1. ~Flying(n)
    BY <1>5, <1>7 DEF Reading
  <2>2. ~Flying(n)'
    BY <1>2, <2>1 DEF Flying
  <2> QED BY <1>7, <2>2 DEF Reading
<1>11. Current(n)'
  <2>1. /\ Ordered(ms, Begin(n)) /\ AllWhole(version, b, ms)
        /\ (node[n].bucket.last => End(n) = Count)
        /\ node[n].index = 1 /\ node[n].index <= Len(ms) + 1
    BY <1>1, <1>5 DEF Current
  <2>2. Count' = Count /\ (pc'[n] = "metadata" => ~node[n].bucket.last)
    BY <1>1 DEF Count
  <2> QED BY <1>1, <1>2, <1>6, <2>1, <2>2 DEF Current
<1>12. Consumer(n)'
  <2>1. pc'[n] \notin {"start", "hello", "first", "first read", "future", "done"}
    BY <1>1
  <2> QED BY <1>1, <1>2, <1>5, <1>6, <2>1 DEF Consumer
<1>13. Task(n)' /\ Meeting(n)' /\ Got(n)'
  <2>1. pc'[Leader[n]] = "start" => pc[Leader[n]] = "start"
    BY <1>1, TransferAssumption, Constants
  <2>2. /\ pc'[n] = "flush last" <=> pc[n] = "flush last"
        /\ pc[n] \notin {"start", "hello"} /\ pc'[n] \notin {"start", "hello"}
    BY <1>1
  <2> QED BY <1>1, <1>4, <1>5, <2>1, <2>2, WorkerSame
<1>14. n + 1 \in Receivers => Link(n + 1)'
  <2>1. SUFFICES ASSUME n + 1 \in Receivers PROVE Link(n + 1)'
    OBVIOUS
  <2>2. /\ n < Workers /\ (n + 1) - 1 = n /\ n + 1 # n /\ n + 1 \in Nodes
        /\ Edge(n + 1) /\ Link(n + 1)
    BY <2>1, Constants DEF Receivers, DoubleBuffer, Data
  <2>3. node[n].link = <<>>
    BY <1>3, <2>2 DEF Edge
  <2>4. Received(n + 1) = Begin(n)
    BY <1>8, <2>2, <2>3 DEF Link
  <2>5. Received(n + 1)' = Begin(n)
    BY <1>0, <1>4, <2>2, <2>4, AloneCounts
  <2> DEFINE m == node'[n].link[1]
  <2>6. /\ node'[n].link # <<>> /\ m.buffer = node[n].out /\ m.bucket = node[n].bucket
    BY <1>1, <2>2, <2>3, Nothing
  <2>7. /\ Ordered(ms, Begin(n)) /\ AllWhole(version, b, ms)
        /\ (node[n].bucket.last => End(n) = Count)
    BY <1>5 DEF Current
  <2>8. Received(n + 1)' + Len(m.bucket.meta) = Passed(n)'
    BY <1>8, <2>5, <2>6
  <2>9. /\ Ordered(m.bucket.meta, Received(n + 1)')
        /\ AllWhole(version', node'[n].buffers[m.buffer], m.bucket.meta)
    BY <1>1, <1>2, <2>5, <2>6, <2>7
  <2>10. m.bucket.last => Passed(n)' = Count
    BY <1>8, <2>6, <2>7
  <2>11. /\ node'[(n + 1) - 1].link # <<>>
         /\ Received(n + 1)' + Len(node'[(n + 1) - 1].link[1].bucket.meta)
               = Passed((n + 1) - 1)'
         /\ Ordered(node'[(n + 1) - 1].link[1].bucket.meta, Received(n + 1)')
         /\ AllWhole(version', node'[(n+1)-1].buffers[node'[(n+1)-1].link[1].buffer],
                     node'[(n + 1) - 1].link[1].bucket.meta)
         /\ node'[(n + 1) - 1].link[1].bucket.last => Passed((n + 1) - 1)' = Count
    BY <2>2, <2>6, <2>8, <2>9, <2>10
  <2>12. Count' = Count
    BY DEF Count
  <2> QED BY <2>11, <2>12 DEF Link
<1>15. \A k \in Receivers \ {n, n+1} : node'[k-1].link = node[k-1].link
  <2>1. \A k \in Receivers \ {n, n+1} : k - 1 \in Nodes \ {n}
    BY Constants
  <2> QED BY <1>1, <2>1
<1> QED BY <1>0, <1>1, <1>4, <1>9, <1>10, <1>11, <1>12, <1>13, <1>14, <1>15, Elsewhere

\* The next weight of a bucket is the next weight of the model.
LEMMA NextOfModel ==
    ASSUME DoubleBuffer, Data, NEW n \in Receivers, pc[n] = "yield",
           node[n].index \in 1..Len(node[n].bucket.meta)
    PROVE  /\ ~port[n].reply /\ port[n].request = <<>> /\ worker[n].pc # "clone"
           /\ Ordered(port[n].packed, Delivered(n))
           /\ NextMeta(n).weight = Delivered(n) + Len(port[n].packed) + 1
           /\ Whole(version, node[n].buffers[node[n].out], NextMeta(n))
<1>1. /\ Typed /\ Hand(n) /\ Current(n) /\ Consumer(n) /\ n \in Nodes /\ n # 0
  BY Constants DEF DoubleBuffer, Data
<1>2. ~port[n].reply /\ port[n].request = <<>> /\ worker[n].pc # "clone"
  BY <1>1 DEF Hand, Waits
<1>3. Ordered(port[n].packed, Delivered(n))
  BY <1>1, <1>2 DEF Consumer
<1> DEFINE i == node[n].index
           ms == node[n].bucket.meta
           p == Len(port[n].packed)
           d == Delivered(n)
<1>4. NextMeta(n) = ms[i]
  BY DEF NextMeta
<1>5. ms[i].weight = Begin(n) + i /\ Whole(version, node[n].buffers[node[n].out], ms[i])
  BY <1>1 DEF Current, Ordered, AllWhole, Partly
<1>6. Begin(n) = (d + p) - (i - 1)
  BY <1>1, <1>2 DEF Begin, Yielded
<1>7. d \in Nat /\ p \in Nat /\ i \in Nat
  BY <1>1, Counters
<1>8. ms[i].weight = d + p + 1
  <2> DEFINE w == ms[i].weight
  <2>1. w = Begin(n) + i
    BY <1>5
  <2> HIDE DEF w, d, p, i, ms
  <2>2. w = d + p + 1
    BY <1>6, <1>7, <2>1
  <2> QED BY <2>2 DEF w
<1> QED BY <1>2, <1>3, <1>4, <1>5, <1>8

LEMMA YieldData ==
    ASSUME DoubleBuffer, Data, Kept, NEW n \in Receivers, Yield(n)
    PROVE  Data'
<1> DEFINE st == node[n].stream
           p == port[n].packed
           to == port[n].offset
           w == NextMeta(n).weight
           from == NextMeta(n).offset
           m == Meta(w, to)
           c == [weight |-> w, buffer |-> node[n].out, from |-> from, to |-> to]
           b == node[n].buffers[node[n].out]
<1>0. /\ n \in Nodes /\ n - 1 \in Nodes /\ n - 1 # n /\ n # 0 /\ Typed
      /\ node[n].out \in {0, 1}
  BY Constants, Ranges DEF DoubleBuffer
<1>1. /\ Typed' /\ UNCHANGED <<version, pc, worker>> /\ pc[n] = "yield"
      /\ \A k \in Nodes \ {n} : node'[k] = node[k]
      /\ \A k \in Receivers : k # n => port'[k] = port[k]
      /\ port'[n].shared = port[n].shared /\ port'[n].request = port[n].request
      /\ port'[n].reply = port[n].reply
      /\ \A f \in {"buffers", "out", "incoming", "bucket", "offset", "post", "link",
                   "read"} : node'[n][f] = node[n][f]
      /\ NextMeta(n) \in Metas /\ node[n].index \in 1..Len(node[n].bucket.meta)
      /\ Fits(to, w) /\ m \in Metas
      /\ node'[n].stream = Queued(n, w, from, to)
      /\ node'[n].index = node[n].index + 1
      /\ port'[n].packed = Append(p, m)
      /\ port'[n].offset = to + Sizes[w]
  BY <1>0, YieldTyped DEF SameNode
<1>2. /\ node'[n].out = node[n].out /\ node'[n].bucket = node[n].bucket
      /\ node'[n].buffers = node[n].buffers /\ node'[n].link = node[n].link
      /\ node'[n].incoming = node[n].incoming /\ node'[n].read = node[n].read
  BY <1>1
<1>3. /\ ~port[n].reply /\ port[n].request = <<>> /\ worker[n].pc # "clone"
      /\ Ordered(p, Delivered(n)) /\ w = Delivered(n) + Len(p) + 1
      /\ Whole(version, b, NextMeta(n))
  BY <1>1, NextOfModel
<1>4. Alone(n) /\ Stays(n)
  BY <1>1 DEF Alone, Stays
<1>5. /\ Link(n) /\ Reading(n) /\ Current(n) /\ Consumer(n) /\ Task(n) /\ Meeting(n)
      /\ Got(n)
  BY DEF Data
<1>6. /\ m.weight = w /\ m.offset = to /\ p \in Seq(Metas) /\ Len(p) \in Nat
      /\ st \in Seq(QueuedCopies) /\ c \in QueuedCopies
      /\ Queued(n, w, from, to) = Append(st, c)
      /\ c.weight = w /\ c["to"] = to /\ c.from = from
  <2>1. /\ w \in Weights /\ from \in Bytes /\ Fits(from, w) /\ to \in Bytes
    <3>1. w \in Weights /\ from \in Bytes /\ Fits(from, w)
      BY <1>1 DEF Metas
    <3>2. to \in Bytes
      <4> HIDE DEF w, to
      <4> QED BY <1>1 DEF Metas, Meta
    <3> QED BY <3>1, <3>2
  <2>2. p \in Seq(Metas) /\ st \in Seq(QueuedCopies) /\ Len(p) \in Nat
    BY <1>0, Parts, Ranges
  <2> HIDE DEF w, from, to
  <2> QED BY <1>0, <1>1, <2>1, <2>2 DEF Queued, QueuedCopies, Meta
<1> HIDE DEF c, m
<1>7. /\ Queue(p, st, "to") /\ Partly(version, port[n].shared, p, Len(p) - Len(st))
      /\ Apart(p, to)
      /\ \A i \in 1..Len(st) : Whole(version, b, Meta(st[i].weight, st[i].from))
  BY <1>5 DEF Consumer
<1>8. /\ Queue(Append(p, m), Append(st, c), "to")
      /\ Len(Append(p, m)) - Len(Append(st, c)) = Len(p) - Len(st)
      /\ Len(p) - Len(st) \in 0..Len(p)
  <2>1. c.weight = m.weight /\ c["to"] = m.offset
    BY <1>6
  <2> HIDE DEF p, st, w, to
  <2> QED BY <1>1, <1>6, <1>7, <2>1, QueueNext
<1>9. /\ Len(Append(p, m)) = Len(p) + 1
      /\ Apart(Append(p, m), to + Sizes[w])
      /\ Ordered(Append(p, m), Delivered(n))
      /\ Partly(version, port[n].shared, Append(p, m), Len(p) - Len(st))
  <2> DEFINE k == Delivered(n)
             s == port[n].shared
             l == Len(p) - Len(st)
  <2>1. Apart(p, m.offset) /\ m.weight = k + Len(p) + 1 /\ Ordered(p, k) /\ k \in Int
    BY <1>0, <1>3, <1>6, <1>7, Counters
  <2>2. Partly(version, s, p, l) /\ l \in 0..Len(p)
    BY <1>7, <1>8
  <2> HIDE DEF k, s, l, p, w, to
  <2>3. /\ Len(Append(p, m)) = Len(p) + 1
        /\ Apart(Append(p, m), m.offset + Sizes[m.weight])
        /\ Ordered(Append(p, m), k)
        /\ Partly(version, s, Append(p, m), l)
    BY <1>1, <1>6, <2>1, <2>2, PackNext
  <2> QED BY <1>6, <2>3 DEF k, s, l
<1>10. /\ Delivered(n)' = Delivered(n)
       /\ Begin(n)' = Begin(n) /\ End(n)' = End(n)
       /\ Received(n)' = Received(n) /\ Passed(n)' = Passed(n)
       /\ Pending(n)' <=> Pending(n)
  <2>1. Delivered(n)' = Delivered(n)
    BY <1>1 DEF Delivered
  <2>2. Begin(n)' = Begin(n)
    <3> DEFINE d == Delivered(n)
               k == Len(p)
               i == node[n].index
    <3>1. Begin(n) = (d + k) - (i - 1)
      BY <1>0, <1>3 DEF Begin, Yielded
    <3>2. Begin(n)' = (d + (k + 1)) - ((i + 1) - 1)
      BY <1>0, <1>1, <1>3, <1>9, <2>1 DEF Begin, Yielded
    <3>3. d \in Nat /\ k \in Nat /\ i \in Nat
      BY <1>0, <1>6, Counters
    <3> HIDE DEF d, k, i
    <3> QED BY <3>1, <3>2, <3>3
  <2>3. End(n)' = End(n)
    BY <1>2, <2>2 DEF End
  <2>4. Pending(n)' <=> Pending(n)
    BY <1>1, <1>2 DEF Pending
  <2>5. Received(n)' = Received(n) /\ Passed(n)' = Passed(n)
    BY <1>1, <1>2, <2>2, <2>3, <2>4 DEF Received, Passed
  <2> QED BY <2>1, <2>2, <2>3, <2>4, <2>5
<1>11. Link(n)'
  <2>1. node'[n-1].link = node[n-1].link
    BY <1>0, <1>1
  <2> QED BY <1>4, <1>10, <2>1, NoMessage
<1>12. Reading(n)'
  <2>1. \A f \in {"buffers", "out", "incoming", "read"} : node'[n][f] = node[n][f]
    BY <1>1
  <2> QED BY <1>4, <1>10, <2>1, ReadsOn
<1>13. Current(n)'
  <2>1. node'[n].index <= Len(node[n].bucket.meta) + 1
    <3> DEFINE i == node[n].index
               k == Len(node[n].bucket.meta)
    <3>1. i \in 1..k /\ k \in Nat /\ node'[n].index = i + 1
      BY <1>0, <1>1, Counters
    <3> HIDE DEF i, k
    <3>2. node'[n].index <= k + 1
      BY <3>1
    <3> QED BY <3>2 DEF k
  <2>2. /\ Ordered(node[n].bucket.meta, Begin(n))
        /\ AllWhole(version, b, node[n].bucket.meta)
        /\ (node[n].bucket.last => End(n) = Count)
    BY <1>5 DEF Current
  <2>3. Count' = Count
    BY DEF Count
  <2> QED BY <1>1, <1>2, <1>10, <2>1, <2>2, <2>3 DEF Current
<1>14. Consumer(n)'
  <2>1. \A i \in 1..Len(Append(st, c)) :
            Whole(version, b, Meta(Append(st, c)[i].weight, Append(st, c)[i].from))
    <3>1. Whole(version, b, Meta(w, from))
      <4> HIDE DEF b
      <4> QED BY <1>3 DEF Whole, Meta
    <3>2. /\ Len(st) \in Nat
          /\ \A i \in 1..Len(Append(st, c)) : i \in 1..Len(st) \/ i = Len(st) + 1
          /\ \A i \in 1..Len(st) : Append(st, c)[i] = st[i]
          /\ Append(st, c)[Len(st) + 1] = c
      BY <1>6
    <3> HIDE DEF st, b, w, from
    <3> QED BY <1>6, <1>7, <3>1, <3>2
  <2> DEFINE l == Len(p) - Len(st)
  <2>2. /\ port'[n].packed = Append(p, m) /\ node'[n].stream = Append(st, c)
        /\ Len(port'[n].packed) - Len(node'[n].stream) = l
        /\ port'[n].offset = to + Sizes[w]
        /\ node'[n].buffers[node'[n].out] = b
    <3>1. port'[n].packed = Append(p, m) /\ node'[n].stream = Append(st, c)
      BY <1>1, <1>6
    <3>2. /\ port'[n].offset = to + Sizes[w]
          /\ node'[n].buffers[node'[n].out] = b
      BY <1>1, <1>2
    <3> HIDE DEF p, st, w, to, b
    <3> QED BY <1>8, <3>1, <3>2
  <2>3. Partly(version', port'[n].shared, port'[n].packed, l)
    BY <1>1, <1>9, <2>2
  <2>4. /\ Queue(port'[n].packed, node'[n].stream, "to")
        /\ Apart(port'[n].packed, port'[n].offset)
        /\ Ordered(port'[n].packed, Delivered(n)')
    <3> HIDE DEF p, st, w, to, b, l
    <3> QED BY <1>8, <1>9, <1>10, <2>2
  <2>5. \A i \in 1..Len(node'[n].stream) :
            Whole(version', node'[n].buffers[node'[n].out],
                  Meta(node'[n].stream[i].weight, node'[n].stream[i].from))
    <3> HIDE DEF p, st, w, to, b, l
    <3> QED BY <1>1, <2>1, <2>2
  <2>6. pc'[n] \notin {"start", "hello", "first", "first read", "future", "done"}
    BY <1>1
  <2> HIDE DEF l
  <2> QED BY <2>2, <2>3, <2>4, <2>5, <2>6 DEF Consumer
<1>15. Task(n)'
  <2>1. port'[n].request = <<>> /\ worker' = worker
    BY <1>1, <1>3
  <2> QED BY <1>3, <1>5, <1>10, <2>1, Nothing DEF Task, Count
<1>16. Meeting(n)' /\ Got(n)'
  BY <1>1, <1>4, <1>5, WorkerSame
<1>17. \A k \in Receivers \ {n, n+1} : node'[k-1].link = node[k-1].link
  BY <1>1, Constants
<1> QED BY <1>0, <1>1, <1>2, <1>4, <1>10, <1>11, <1>12, <1>13, <1>14, <1>15, <1>16,
           <1>17, Elsewhere

\* A step between a consumer and its inference worker leaves the positions alone.
LEMMA Outside ==
    ASSUME DoubleBuffer, Data, Kept, NEW n \in Receivers, UNCHANGED <<version, node>>,
           \A k \in Nodes \ {n} : pc'[k] = pc[k],
           \A k \in Receivers \ {n} : port'[k] = port[k] /\ Stays(k),
           \/ pc'[n] = pc[n]
           \/ pc[n] \in {"start", "hello"} /\ pc'[n] \in {"hello", "first"}
           \/ pc[n] \in {"yield", "flush"} /\ pc'[n] \in {"yield", "flush"}
           \/ /\ node[n].bucket.last /\ ~More(n)
              /\ pc[n] \in {"yield", "flush last", "future"}
              /\ pc'[n] \in {"flush last", "future", "done"},
           Yielded(n)' = Yielded(n),
           Consumer(n)', Task(n)', Meeting(n)', Got(n)'
    PROVE  Data'
<1>0. /\ n \in Nodes /\ n - 1 \in Nodes /\ n - 1 # n /\ n # 0
      /\ Current(n) /\ node' = node
  BY Constants DEF Data
<1>1. Alone(n)
  BY DEF Alone
<1>2. Begin(n)' = Begin(n) /\ End(n)' = End(n)
  BY <1>0, BeginSame
<1>3. Pending(n)' <=> Pending(n)
  BY <1>0 DEF Pending
<1>4. /\ Received(n)' = Received(n) /\ Passed(n)' = Passed(n)
  <2>1. pc'[n] = "forward" <=> pc[n] = "forward"
    OBVIOUS
  <2> QED BY <1>0, <1>2, <1>3, <2>1 DEF Received, Passed
<1>5. Link(n)'
  BY <1>0, <1>1, <1>4, NoMessage
<1>6. Reading(n)'
  BY <1>0, <1>1, <1>2, <1>3, <1>4, ReadsOn
<1>7. Current(n)'
  <2>1. Count' = Count /\ (More(n)' <=> More(n))
    BY <1>0 DEF Count, More
  <2>2. /\ pc'[n] \in {"start", "hello", "first", "first read"} =>
              pc[n] \in {"start", "hello", "first", "first read"}
        /\ pc'[n] = "metadata" => pc[n] = "metadata"
        /\ pc'[n] \in {"forward", "metadata"} => pc[n] \in {"forward", "metadata"}
        /\ pc'[n] \in {"flush last", "future", "done"} =>
              \/ pc[n] \in {"flush last", "future", "done"}
              \/ node[n].bucket.last /\ ~More(n)
    OBVIOUS
  <2> QED BY <1>0, <1>2, <2>1, <2>2 DEF Current
<1>8. pc'[n] = "start" => pc[n] = "start"
  OBVIOUS
<1>9. \A k \in Receivers \ {n, n+1} : node'[k-1].link = node[k-1].link
  BY <1>0
<1> QED BY <1>0, <1>1, <1>4, <1>5, <1>6, <1>7, <1>8, <1>9, Elsewhere

LEMMA FlushData ==
    ASSUME DoubleBuffer, Data, Kept, NEW n \in Receivers, Flush(n) \/ FlushLast(n)
    PROVE  Data'
<1>0. Typed /\ Hand(n) /\ Consumer(n) /\ Task(n) /\ Meeting(n) /\ Got(n)
      /\ Leader[n] \in Receivers /\ Receivers \subseteq Nodes
  BY TransferAssumption, Constants DEF DoubleBuffer, Data
<1>1. /\ UNCHANGED <<version, node, worker>>
      /\ pc[n] = "yield"
      /\ pc'[n] = "flush" \/ (pc'[n] = "flush last" /\ node[n].bucket.last /\ ~More(n))
      /\ \A m \in Nodes \ {n} : pc'[m] = pc[m]
      /\ \A m \in Receivers \ {n} : port'[m] = port[m]
      /\ port'[n].reply = port[n].reply /\ port'[n].shared = port[n].shared
      /\ port'[n].packed = port[n].packed /\ port'[n].offset = port[n].offset
      /\ port'[n].request = <<Bucket(port[n].packed, pc'[n] = "flush last")>>
  BY <1>0, FlushTyped
<1>2. \A m \in Receivers : Stays(m)
  BY <1>1 DEF Stays
<1>3. Delivered(n)' = Delivered(n) /\ Yielded(n)' = Yielded(n)
  BY <1>1 DEF Delivered, Yielded
<1>4. Consumer(n)'
  <2>1. pc'[n] \notin {"start", "hello", "first", "first read", "future", "done"}
    BY <1>1
  <2> QED BY <1>0, <1>1, <1>3, <2>1 DEF Consumer
<1>5. Task(n)'
  <2>1. worker[n].pc # "clone"
    BY <1>0, <1>1 DEF Hand, Waits
  <2>2. Len(port'[n].request) <= 1
        /\ port'[n].request[1] = Bucket(port'[n].packed, pc'[n] = "flush last")
    <3> DEFINE b == Bucket(port[n].packed, pc'[n] = "flush last")
    <3>1. port'[n].request = <<b>> /\ port'[n].packed = port[n].packed
      BY <1>1
    <3>2. b = Bucket(port'[n].packed, pc'[n] = "flush last")
      BY <3>1
    <3> HIDE DEF b
    <3>3. Len(port'[n].request) <= 1 /\ port'[n].request[1] = b
      BY <3>1
    <3> QED BY <3>2, <3>3
  <2>3. Count' = Count /\ worker' = worker
    BY <1>1 DEF Count
  <2> QED BY <1>0, <1>3, <2>1, <2>2, <2>3 DEF Task
<1>6. Meeting(n)' /\ Got(n)'
  <2>1. pc'[Leader[n]] = "start" => pc[Leader[n]] = "start"
    BY <1>0, <1>1
  <2>2. pc[n] \notin {"start", "hello"} /\ pc'[n] \notin {"start", "hello"}
    BY <1>1
  <2> QED BY <1>0, <1>1, <1>2, <2>1, <2>2, WorkerSame
<1> QED BY <1>1, <1>2, <1>3, <1>4, <1>5, <1>6, Outside

LEMMA AnsweredData ==
    ASSUME DoubleBuffer, Data, Kept, NEW n \in Receivers, Answered(n)
    PROVE  Data'
<1>0. /\ Typed /\ Hand(n) /\ Own(n) /\ Current(n) /\ Task(n) /\ Meeting(n) /\ Got(n)
      /\ Leader[n] \in Receivers /\ Receivers \subseteq Nodes
  BY TransferAssumption, Constants DEF DoubleBuffer, Data
<1>1. /\ UNCHANGED <<version, node, worker>>
      /\ \/ pc[n] = "hello" /\ pc'[n] = "first"
         \/ pc[n] = "flush" /\ pc'[n] = "yield"
         \/ pc[n] = "flush last" /\ pc'[n] = "future"
      /\ \A m \in Nodes \ {n} : pc'[m] = pc[m]
      /\ \A m \in Receivers \ {n} : port'[m] = port[m]
      /\ port[n].reply /\ ~port'[n].reply
      /\ port'[n].request = port[n].request
      /\ port'[n].packed = <<>>
  BY <1>0, AnsweredTyped
<1>2. \A m \in Receivers : Stays(m)
  BY <1>1 DEF Stays
<1>3. /\ port[n].request = <<>> /\ worker[n].pc # "clone" /\ node[n].stream = <<>>
  BY <1>0, <1>1 DEF Hand, Own
<1>4. Delivered(n)' = Delivered(n) /\ Yielded(n)' = Yielded(n)
  <2>1. Delivered(n)' = Delivered(n) /\ Delivered(n) \in Nat
    BY <1>0, <1>1, Counters DEF Delivered
  <2>2. Yielded(n)' = Delivered(n) + 0 /\ Yielded(n) = Delivered(n) + 0
    BY <1>1, <2>1, Nothing DEF Yielded
  <2> QED BY <2>1, <2>2
<1>5. Consumer(n)'
  <2>1. node'[n].stream = <<>> /\ \A i : i \notin 1..Len(<<>>)
    BY <1>1, <1>3, NothingIn
  <2> QED BY <1>1, <2>1, Nothing DEF Consumer
<1>6. Task(n)'
  <2>1. Count' = Count /\ worker' = worker /\ port'[n].request = <<>>
    BY <1>1, <1>3 DEF Count
  <2> QED BY <1>0, <1>3, <1>4, <2>1, Nothing DEF Task
<1>7. Meeting(n)'
  <2>1. worker[n].pc \notin {"idle", "hello"} /\ pc[Leader[n]] # "start"
    BY <1>0, <1>1 DEF Meeting
  <2>2. pc'[n] \notin {"start", "hello"} /\ pc'[Leader[n]] # "start"
    BY <1>0, <1>1, <2>1
  <2> QED BY <1>1, <2>1, <2>2 DEF Meeting
<1>8. Got(n)'
  BY <1>0, <1>1, <1>2, WorkerSame
<1>9. pc[n] = "flush last" => node[n].bucket.last /\ ~More(n)
  BY <1>0 DEF Current
<1> QED BY <1>1, <1>2, <1>4, <1>5, <1>6, <1>7, <1>8, <1>9, Outside

LEMMA StartData ==
    ASSUME DoubleBuffer, Data, Kept, NEW n \in Receivers, Start(n)
    PROVE  Data'
<1>0. /\ Typed /\ Hand(n) /\ Consumer(n) /\ Task(n) /\ Meeting(n) /\ Got(n)
      /\ \A m \in Receivers : Meeting(m) /\ Leader[m] \in Receivers
      /\ Receivers \subseteq Nodes
  BY TransferAssumption, Constants DEF DoubleBuffer, Data
<1>1. /\ UNCHANGED <<version, node>>
      /\ pc[n] = "start" /\ pc'[n] = "hello"
      /\ \A m \in Nodes \ {n} : pc'[m] = pc[m]
      /\ \A m \in Receivers \ {n} : port'[m] = port[m]
      /\ port'[n].shared = port[n].shared /\ port'[n].reply = port[n].reply
      /\ port'[n].packed = port[n].packed /\ port'[n].offset = port[n].offset
      /\ port'[n].request = <<NoBucket>>
      /\ \A m \in Receivers :
            worker'[m] = worker[m] \/ (worker'[m].pc = "hello" /\ n = Leader[m])
      /\ \A m \in Receivers : \A f \in {"task", "copy", "loaded"} :
            worker'[m][f] = worker[m][f]
  BY <1>0, StartTyped
<1>2. ASSUME NEW m \in Receivers PROVE Stays(m)
  <2>1. CASE worker'[m] = worker[m]
    BY <1>1, <2>1 DEF Stays
  <2>2. CASE worker'[m].pc = "hello" /\ n = Leader[m]
    <3>1. worker[m].pc = "idle"
      BY <1>0, <1>1, <2>2 DEF Meeting
    <3> QED BY <1>1, <2>2, <3>1 DEF Stays
  <2> QED BY <1>1, <2>1, <2>2
<1>3. /\ worker'[n].copy = worker[n].copy /\ worker'[n].loaded = worker[n].loaded
      /\ worker[n].pc \in {"idle", "hello"} /\ worker'[n].pc \in {"idle", "hello"}
      /\ ~port[n].reply
  BY <1>0, <1>1 DEF Meeting, Hand, Waits
<1>4. Delivered(n)' = Delivered(n) /\ Yielded(n)' = Yielded(n)
  BY <1>1, <1>3 DEF Delivered, Yielded
<1>5. Consumer(n)'
  BY <1>0, <1>1, <1>4 DEF Consumer
<1>6. Task(n)'
  <2>1. worker'[n].copy = <<>>
    BY <1>0, <1>3 DEF Task
  <2>2. Len(port'[n].request) <= 1
    BY <1>1
  <2> QED BY <1>3, <2>1, <2>2 DEF Task
<1>7. Meeting(n)'
  <2>1. ASSUME pc'[Leader[n]] = "start" PROVE worker'[n].pc = "idle"
    <3>1. Leader[n] # n /\ pc[Leader[n]] = "start"
      BY <1>0, <1>1, <2>1
    <3> QED BY <1>0, <1>1, <3>1 DEF Meeting
  <2> QED BY <1>1, <1>3, <2>1 DEF Meeting
<1>8. Got(n)'
  BY <1>0, <1>1, <1>2, WorkerSame
<1> QED BY <1>1, <1>2, <1>4, <1>5, <1>6, <1>7, <1>8, Outside

LEMMA FinishData ==
    ASSUME DoubleBuffer, Data, Kept, NEW n \in Receivers, Finish(n)
    PROVE  Data'
<1>0. /\ Typed /\ Current(n) /\ Consumer(n) /\ Task(n) /\ Meeting(n) /\ Got(n)
      /\ Leader[n] \in Receivers /\ Receivers \subseteq Nodes
      /\ pc \in [Nodes -> Sends \cup Receives]
  BY TransferAssumption, Constants DEF DoubleBuffer, Data, Typed
<1>1. /\ UNCHANGED <<version, node, port, worker>>
      /\ pc[n] = "future" /\ pc'[n] = "done"
      /\ \A m \in Nodes \ {n} : pc'[m] = pc[m]
  BY <1>0 DEF Finish, Goes
<1>2. \A m \in Receivers : Stays(m)
  BY <1>1 DEF Stays
<1>3. Delivered(n)' = Delivered(n) /\ Yielded(n)' = Yielded(n)
  BY <1>1 DEF Delivered, Yielded
<1>4. Consumer(n)'
  <2>1. port[n].packed = <<>>
    BY <1>0, <1>1 DEF Consumer
  <2> QED BY <1>0, <1>1, <1>3, <2>1 DEF Consumer
<1>5. Task(n)' /\ Meeting(n)' /\ Got(n)'
  <2>1. pc'[Leader[n]] = "start" => pc[Leader[n]] = "start"
    BY <1>0, <1>1
  <2>2. /\ pc'[n] = "flush last" <=> pc[n] = "flush last"
        /\ pc[n] \notin {"start", "hello"} /\ pc'[n] \notin {"start", "hello"}
    BY <1>1
  <2> QED BY <1>0, <1>1, <1>2, <2>1, <2>2, WorkerSame
<1>6. node[n].bucket.last /\ ~More(n)
  BY <1>0, <1>1 DEF Current
<1> QED BY <1>1, <1>2, <1>3, <1>4, <1>5, <1>6, Outside

\* A handed over buffer is what the inference worker clones: the weights that
\* follow what it has.
LEMMA ClonedHas ==
    ASSUME DoubleBuffer, Data, NEW n \in Receivers, Cloned(n)
    PROVE  /\ worker[n].copy = <<>> /\ Len(worker'[n].copy) = Len(port[n].packed)
           /\ ~port[n].reply /\ port[n].request = <<>> /\ pc[n] \in Waits
           /\ worker[n].task = Bucket(port[n].packed, pc[n] = "flush last")
           /\ Has(version, worker'[n].copy, Len(worker[n].loaded))
<1> DEFINE p == port[n].packed
           s == port[n].shared
           copy == worker'[n].copy
           k == Len(worker[n].loaded)
<1>0. /\ Typed /\ Hand(n) /\ Own(n) /\ Consumer(n) /\ Task(n) /\ n \in Nodes
  BY Constants DEF DoubleBuffer, Data
<1>1. worker[n].pc = "clone"
  BY DEF Cloned
<1>2. ~port[n].reply /\ port[n].request = <<>> /\ pc[n] \in Waits /\ node[n].stream = <<>>
  BY <1>0, <1>1 DEF Hand, Own, Waits
<1>3. worker[n].task = Bucket(p, pc[n] = "flush last") /\ worker[n].copy = <<>>
  BY <1>0, <1>1 DEF Task
<1>4. worker[n].task.meta = p
  <2> DEFINE last == pc[n] = "flush last"
  <2>1. worker[n].task = Bucket(p, last)
    BY <1>3
  <2> HIDE DEF last
  <2> QED BY <2>1 DEF Bucket
<1>5. /\ Len(copy) = Len(p)
      /\ \A i \in 1..Len(p) : /\ copy[i].weight = p[i].weight
                              /\ copy[i].cells = Cells(s, p[i].offset, p[i].weight)
  BY <1>4 DEF Cloned
<1>6. p \in Seq(Metas) /\ Len(p) \in Nat /\ s \in Buffer /\ k \in Nat
  BY <1>0, Parts
<1>7. \A i \in 1..Len(p) : p[i].weight = k + i
  <2>1. Delivered(n) = k + 0
    BY <1>3, Nothing DEF Delivered
  <2>2. Delivered(n) = k
    <3> HIDE DEF k
    <3> QED BY <1>6, <2>1
  <2>3. Ordered(p, Delivered(n))
    BY <1>0, <1>2 DEF Consumer
  <2> QED BY <2>2, <2>3 DEF Ordered
<1>8. \A i \in 1..Len(p) : Whole(version, s, p[i])
  <2>1. Partly(version, s, p, Len(p) - Len(<<>>))
    BY <1>0, <1>2 DEF Consumer
  <2>2. Len(p) - Len(<<>>) = Len(p)
    BY <1>6, Nothing
  <2> QED BY <2>1, <2>2 DEF Partly
<1>9. ASSUME NEW i \in 1..Len(p)
      PROVE  /\ copy[i].weight = k + i
             /\ \A j \in 1..Sizes[k + i] : copy[i].cells[j] = <<k + i, version>>
  <2> DEFINE w == p[i].weight
             o == p[i].offset
  <2>1. p[i] \in Metas
    BY <1>6
  <2>2. w \in Weights /\ o \in Bytes /\ Fits(o, w)
    BY <2>1 DEF Metas
  <2>3. \A j \in 1..Sizes[w] : s[o + j - 1] = <<w, version>>
    BY <1>8 DEF Whole
  <2>4. w = k + i /\ copy[i].weight = w /\ copy[i].cells = Cells(s, o, w)
    BY <1>5, <1>7
  <2> HIDE DEF w, o, s, k, p, copy
  <2>5. \A j \in 1..Sizes[w] : Cells(s, o, w)[j] = s[o + j - 1]
    BY <1>6, <2>2, CellsTyped
  <2> QED BY <2>3, <2>4, <2>5
<1>10. Has(version, copy, k)
  <2> HIDE DEF p, copy, k
  <2> QED BY <1>5, <1>9 DEF Has
<1> QED BY <1>2, <1>3, <1>5, <1>10

\* What is cloned joins what is loaded.
LEMMA HasBoth ==
    ASSUME NEW v, NEW l \in Seq(Clones), NEW c \in Seq(Clones),
           Has(v, l, 0), Has(v, c, Len(l))
    PROVE  Has(v, l \o c, 0) /\ Len(l \o c) = Len(l) + Len(c)
<1> DEFINE a == l \o c
           k == Len(l)
           h == Len(c)
<1>1. /\ k \in Nat /\ h \in Nat /\ Len(a) = k + h
      /\ \A i \in 1..k : a[i] = l[i]
      /\ \A i \in 1..k + h : i \in 1..k \/ i - k \in 1..h
      /\ \A i \in 1..k + h : i > k => a[i] = c[i - k]
  OBVIOUS
<1>2. /\ \A i \in 1..k : /\ l[i].weight = 0 + i
                         /\ \A j \in 1..Sizes[0 + i] : l[i].cells[j] = <<0 + i, v>>
      /\ \A i \in 1..h : /\ c[i].weight = k + i
                         /\ \A j \in 1..Sizes[k + i] : c[i].cells[j] = <<k + i, v>>
  BY DEF Has
<1> HIDE DEF a, k, h
<1>3. ASSUME NEW i \in 1..k + h
      PROVE  /\ a[i].weight = 0 + i
             /\ \A j \in 1..Sizes[0 + i] : a[i].cells[j] = <<0 + i, v>>
  <2>1. CASE i \in 1..k
    BY <1>1, <1>2, <2>1
  <2>2. CASE i - k \in 1..h
    <3>1. k + (i - k) = 0 + i /\ i > k
      BY <1>1, <2>2
    <3>2. a[i] = c[i - k]
      BY <1>1, <3>1
    <3>3. /\ c[i - k].weight = k + (i - k)
          /\ \A j \in 1..Sizes[k + (i - k)] : c[i - k].cells[j] = <<k + (i - k), v>>
      BY <1>2, <2>2
    <3> QED BY <3>1, <3>2, <3>3
  <2> QED BY <1>1, <2>1, <2>2
<1>4. Has(v, a, 0)
  BY <1>1, <1>3 DEF Has
<1> QED BY <1>1, <1>4 DEF a, k, h

LEMMA WorkerData ==
    ASSUME DoubleBuffer, Data, Kept, NEW n \in Receivers, InferenceWorker(n)
    PROVE  Data'
<1>0. /\ Typed /\ Hand(n) /\ Current(n) /\ Consumer(n) /\ Task(n) /\ Meeting(n) /\ Got(n)
      /\ n \in Nodes /\ n # 0
  BY Constants DEF DoubleBuffer, Data
<1>1. /\ Typed' /\ UNCHANGED <<version, pc, node>>
      /\ \A m \in Receivers \ {n} : port'[m] = port[m] /\ worker'[m] = worker[m]
      /\ \A f \in {"shared", "packed", "offset"} : port'[n][f] = port[n][f]
      /\ Connected(n) \/ Took(n) \/ Cloned(n) \/ Loaded(n)
  BY <1>0, WorkerTyped
<1>2. /\ port'[n].shared = port[n].shared /\ port'[n].packed = port[n].packed
      /\ port'[n].offset = port[n].offset
  BY <1>1
<1>3. \A m \in Receivers \ {n} : port'[m] = port[m] /\ Stays(m)
  BY <1>1 DEF Stays
<1>4. /\ Delivered(n) \in Nat /\ Len(port[n].packed) \in Nat
      /\ Len(worker[n].loaded) \in Nat /\ Len(worker[n].copy) \in Nat
  BY <1>0, Counters, Parts
<1>5. Count' = Count
  BY DEF Count
<1>6. SUFFICES /\ Yielded(n)' = Yielded(n)
               /\ ~port'[n].reply => ~port[n].reply /\ Delivered(n)' = Delivered(n)
               /\ Task(n)' /\ Meeting(n)' /\ Got(n)'
  <2>1. Consumer(n)'
    BY <1>0, <1>1, <1>2, <1>6 DEF Consumer
  <2> QED BY <1>1, <1>3, <1>6, <2>1, Outside
<1>7. CASE Connected(n)
  <2>1. /\ worker[n].pc = "hello" /\ worker'[n].pc = "receive"
        /\ port[n].request # <<>> /\ port'[n].request = <<>> /\ port'[n].reply
        /\ worker'[n].task = worker[n].task /\ worker'[n].copy = worker[n].copy
        /\ worker'[n].loaded = worker[n].loaded
    BY <1>7 DEF Connected
  <2>2. pc[n] = "hello" /\ ~port[n].reply /\ pc[Leader[n]] # "start"
    BY <1>0, <2>1 DEF Hand, Meeting, Waits
  <2>3. port[n].packed = <<>>
    BY <1>0, <2>2 DEF Consumer
  <2>4. Delivered(n)' = Delivered(n)
    BY <2>1 DEF Delivered
  <2>5. Yielded(n)' = Delivered(n) + 0 /\ Yielded(n) = Delivered(n) + 0
    BY <2>1, <2>2, <2>3, <2>4, Nothing DEF Yielded
  <2>6. Task(n)'
    BY <1>0, <2>1, Nothing DEF Task
  <2>7. Meeting(n)'
    BY <1>1, <2>1, <2>2 DEF Meeting
  <2>8. Got(n)'
    BY <1>0, <1>1, <2>1 DEF Got
  <2> QED BY <2>1, <2>5, <2>6, <2>7, <2>8
<1>8. CASE Took(n)
  <2>1. /\ worker[n].pc = "receive" /\ worker'[n].pc = "clone"
        /\ port[n].request # <<>> /\ port'[n].request = <<>>
        /\ port'[n].reply = port[n].reply
        /\ worker'[n].task = port[n].request[1]
        /\ worker'[n].copy = worker[n].copy /\ worker'[n].loaded = worker[n].loaded
    BY <1>8 DEF Took
  <2>2. Delivered(n)' = Delivered(n) /\ Yielded(n)' = Yielded(n)
    BY <1>2, <2>1 DEF Delivered, Yielded
  <2>3. Task(n)'
    <3>1. worker'[n].task = Bucket(port'[n].packed, pc'[n] = "flush last")
      BY <1>0, <1>1, <1>2, <2>1 DEF Task
    <3>2. worker'[n].copy = <<>>
      BY <1>0, <2>1 DEF Task
    <3>3. Len(port'[n].request) <= 1 /\ port'[n].request = <<>>
      BY <2>1, Nothing
    <3>4. worker'[n].pc \notin {"load", "done"}
      BY <2>1
    <3> QED BY <3>1, <3>2, <3>3, <3>4 DEF Task
  <2>4. Meeting(n)'
    BY <1>0, <1>1, <2>1 DEF Meeting
  <2>5. Got(n)'
    BY <1>0, <1>1, <2>1 DEF Got
  <2> QED BY <2>1, <2>2, <2>3, <2>4, <2>5
<1>9. CASE Cloned(n)
  <2>1. /\ worker[n].pc = "clone" /\ worker'[n].pc = "load"
        /\ port'[n].request = port[n].request /\ port'[n].reply
        /\ worker'[n].task = worker[n].task /\ worker'[n].loaded = worker[n].loaded
    BY <1>9 DEF Cloned
  <2>2. /\ worker[n].copy = <<>> /\ Len(worker'[n].copy) = Len(port[n].packed)
        /\ ~port[n].reply /\ port[n].request = <<>> /\ pc[n] \in Waits
        /\ worker[n].task = Bucket(port[n].packed, pc[n] = "flush last")
        /\ Has(version, worker'[n].copy, Len(worker[n].loaded))
    BY <1>9, ClonedHas
  <2> DEFINE l == Len(worker[n].loaded)
             p == Len(port[n].packed)
  <2>3. Delivered(n)' = l + p /\ Delivered(n) = l + 0
    BY <2>1, <2>2, Nothing DEF Delivered
  <2>4. Yielded(n)' = (l + p) + 0 /\ Yielded(n) = (l + 0) + p
    BY <2>1, <2>2, <2>3 DEF Yielded
  <2>5. Yielded(n)' = Yielded(n) /\ Delivered(n)' = Yielded(n)
    <3> HIDE DEF l, p
    <3>1. l \in Nat /\ p \in Nat
      BY <1>4 DEF l, p
    <3> QED BY <2>3, <2>4, <3>1
  <2>6. worker[n].task.last => Delivered(n)' = Count
    <3>1. SUFFICES ASSUME worker[n].task.last PROVE Delivered(n)' = Count
      OBVIOUS
    <3>2. pc[n] = "flush last"
      <4> DEFINE last == pc[n] = "flush last"
      <4>1. worker[n].task = Bucket(port[n].packed, last)
        BY <2>2
      <4> HIDE DEF last
      <4>2. last
        BY <3>1, <4>1 DEF Bucket
      <4> QED BY <4>2 DEF last
    <3> DEFINE i == node[n].index
               k == Len(node[n].bucket.meta)
               y == Yielded(n)
    <3>3. i <= k + 1 /\ ~(i <= k) /\ End(n) = Count /\ i \in Nat /\ k \in Nat /\ y \in Nat
      BY <1>0, <3>2, Counters DEF Current, More
    <3>4. End(n) = (y - (i - 1)) + k
      BY <1>0 DEF End, Begin
    <3> HIDE DEF i, k, y
    <3>5. y = Count
      BY <3>3, <3>4
    <3> QED BY <2>5, <3>5 DEF y
  <2>7. Task(n)'
    <3>1. port'[n].request = <<>>
      BY <2>1, <2>2
    <3> QED BY <1>5, <2>1, <2>6, <3>1, Nothing DEF Task
  <2>8. Meeting(n)'
    BY <1>0, <1>1, <2>1, <2>2 DEF Meeting, Waits
  <2>9. Got(n)'
    BY <1>0, <1>1, <2>1, <2>2 DEF Got
  <2> QED BY <2>1, <2>5, <2>7, <2>8, <2>9
<1>10. CASE Loaded(n)
  <2> DEFINE l == worker[n].loaded
             c == worker[n].copy
  <2>1. /\ worker[n].pc = "load" /\ port'[n] = port[n]
        /\ worker'[n].pc = IF worker[n].task.last THEN "done" ELSE "receive"
        /\ worker'[n].loaded = l \o c
        /\ worker'[n].copy = <<>> /\ worker'[n].task = worker[n].task
    BY <1>10 DEF Loaded
  <2>2. Has(version, l \o c, 0) /\ Len(l \o c) = Len(l) + Len(c)
    <3>1. l \in Seq(Clones) /\ c \in Seq(Clones)
      BY <1>0, Parts
    <3>2. Has(version, l, 0) /\ Has(version, c, Len(l))
      BY <1>0 DEF Got
    <3> HIDE DEF l, c
    <3> QED BY <3>1, <3>2, HasBoth
  <2>3. Delivered(n)' = Delivered(n) /\ Yielded(n)' = Yielded(n)
    <3> DEFINE x == Len(l)
               y == Len(c)
    <3>1. Delivered(n)' = (x + y) + 0 /\ Delivered(n) = x + y
      BY <2>1, <2>2, Nothing DEF Delivered
    <3>2. x \in Nat /\ y \in Nat
      BY <1>4
    <3>3. Delivered(n)' = Delivered(n)
      <4> HIDE DEF x, y
      <4> QED BY <3>1, <3>2
    <3> QED BY <2>1, <3>3 DEF Yielded
  <2>4. Task(n)'
    <3>1. /\ Len(port'[n].request) <= 1
          /\ port'[n].request # <<>> =>
                port'[n].request[1] = Bucket(port'[n].packed, pc'[n] = "flush last")
      BY <1>0, <1>1, <2>1 DEF Task
    <3>2. worker'[n].pc = "done" => Delivered(n)' = Count
      BY <1>0, <2>1, <2>3 DEF Task
    <3>3. worker'[n].pc \notin {"clone", "load"}
      BY <2>1
    <3> QED BY <1>5, <2>1, <3>1, <3>2, <3>3 DEF Task
  <2>5. Meeting(n)'
    <3>1. worker'[n].pc \notin {"idle", "hello"} /\ worker[n].pc \notin {"idle", "hello"}
      BY <2>1
    <3> QED BY <1>0, <1>1, <2>1, <3>1 DEF Meeting
  <2>6. Got(n)'
    BY <1>1, <2>1, <2>2, Nothing DEF Got
  <2> QED BY <2>1, <2>3, <2>4, <2>5, <2>6
<1> QED BY <1>1, <1>7, <1>8, <1>9, <1>10

-----------------------------------------------------------------------------
(* What the servers load *)

LEMMA FreshData == Fresh => Data
<1> SUFFICES ASSUME Fresh PROVE Data
  OBVIOUS
<1>1. /\ pc = Starts /\ 0 \in Nodes /\ Count \in Nat /\ BucketSize \in Nat
      /\ \A n \in Nodes : node[n] = NewNode
      /\ \A n \in Receivers : /\ port[n] = NewPort /\ worker[n] = NewWorker
                              /\ n \in Nodes /\ n - 1 \in Nodes /\ n # 0
                              /\ Leader[n] \in Receivers
  BY TransferAssumption, Constants DEF Fresh, Count
<1>2. /\ pc[0] = "send" /\ \A n \in Receivers : pc[n] = "start"
  BY <1>1, TypedInit
<1>3. \A n \in Nodes :
          /\ node[n].bucket.meta = <<>> /\ ~node[n].bucket.last /\ node[n].index = 1
          /\ node[n].stream = <<>> /\ node[n].link = <<>>
          /\ node[n].read.got = BucketSize
  BY <1>1 DEF NewNode, NoBucket, Bucket, NoRead
<1>4. \A n \in Receivers :
          /\ port[n].packed = <<>> /\ ~port[n].reply /\ port[n].request = <<>>
          /\ worker[n].pc = "idle" /\ worker[n].copy = <<>> /\ worker[n].loaded = <<>>
  BY <1>1 DEF NewPort, NewWorker
<1>5. \A n \in Receivers : Delivered(n) = 0 /\ Yielded(n) = 0
  <2>1. \A n \in Receivers : Delivered(n) = 0 + 0
    BY <1>4, Nothing DEF Delivered
  <2>2. \A n \in Receivers : Yielded(n) = Delivered(n) + 0
    BY <1>4, Nothing DEF Yielded
  <2> QED BY <2>1, <2>2
<1>6. \A n \in Nodes : Begin(n) = 0 /\ End(n) = 0
  <2>1. \A n \in Nodes : Begin(n) = 0
    <3>1. Begin(0) = 1 - 1 - 0
      BY <1>1, <1>3, Nothing DEF Begin
    <3>2. \A n \in Receivers : Begin(n) = 0 - (1 - 1)
      BY <1>1, <1>3, <1>5 DEF Begin
    <3> QED BY <3>1, <3>2, Constants
  <2>2. \A n \in Nodes : End(n) = 0 + 0
    BY <1>3, <2>1, Nothing DEF End
  <2> QED BY <2>1, <2>2
<1>7. \A n \in Nodes : Passed(n) = 0
  BY <1>6 DEF Passed
<1>8. ASSUME NEW n \in Receivers
      PROVE  /\ ~Pending(n) /\ ~Flying(n) /\ Received(n) = 0
  <2>1. ~Pending(n)
    BY <1>2 DEF Pending
  <2>2. ~Flying(n)
    BY <1>1, <1>3 DEF Flying
  <2>3. Received(n) = 0 + 0
    BY <1>1, <1>6, <2>1 DEF Received
  <2> QED BY <2>1, <2>2, <2>3
<1>9. Filling
  <2>1. node[0].index - 1 <= Count
    BY <1>1, <1>3
  <2>2. node[0].bucket.meta = <<>> /\ node[0].stream = <<>> /\ ~node[0].bucket.last
    BY <1>1, <1>3
  <2> QED BY <1>2, <2>1, <2>2, Nothing DEF Filling
<1>10. ASSUME NEW n \in Receivers
       PROVE  Link(n) /\ Reading(n) /\ Current(n) /\ Consumer(n) /\ Task(n) /\ Meeting(n)
              /\ Got(n)
  <2>1. Link(n) /\ Reading(n)
    BY <1>1, <1>3, <1>7, <1>8 DEF Link, Reading
  <2>2. Current(n)
    <3>1. node[n].index <= Len(node[n].bucket.meta) + 1
      <4>1. node[n].index = 1 /\ Len(node[n].bucket.meta) = 0
        BY <1>1, <1>3, Nothing
      <4> QED BY <4>1
    <3> QED BY <1>1, <1>2, <1>3, <3>1, Nothing DEF Current
  <2>3. Consumer(n)
    BY <1>1, <1>3, <1>4, Nothing, NothingIn DEF Consumer
  <2>4. Task(n)
    <3>1. Len(port[n].request) <= 1
      BY <1>4, Nothing
    <3> QED BY <1>4, <3>1 DEF Task
  <2>5. Meeting(n) /\ Got(n)
    BY <1>1, <1>2, <1>4, Nothing DEF Meeting, Got
  <2> QED BY <2>1, <2>2, <2>3, <2>4, <2>5
<1> QED BY <1>9, <1>10 DEF Data

\* The invariant is inductive next to the one of the buffers.
LEMMA DataStep == DoubleBuffer /\ Data /\ [Next]_vars => Data'
<1> SUFFICES ASSUME DoubleBuffer, Data, [Next]_vars PROVE Data'
  OBVIOUS
<1>0. Kept
  BY KeptStep
<1>1. CASE Sender
  BY <1>0, <1>1, PackData, PostsData, SentData DEF Sender
<1>2. CASE NextUpdate
  <2>1. Fresh'
    <3>1. version' \in 1..MaxUpdates
      BY <1>2, Constants DEF NextUpdate, DoubleBuffer, Typed
    <3> QED BY <1>2, <3>1 DEF NextUpdate, Fresh
  <2>2. Fresh' => Data'
    BY FreshData, PTL
  <2> QED BY <2>1, <2>2
<1>3. ASSUME NEW n \in Nodes, Copies(n) PROVE Data'
  <2>1. CASE n = 0
    BY <1>0, <1>3, <2>1, CopiesInData
  <2>2. CASE n \in Receivers
    BY <1>0, <1>3, <2>2, CopiesOutData
  <2> QED BY <2>1, <2>2, Constants
<1>4. ASSUME NEW n \in Receivers, Transfer(n) PROVE Data'
  BY <1>0, <1>4, TransferData
<1>5. ASSUME NEW n \in Receivers, Receiver(n) PROVE Data'
  <2>1. CASE Start(n)
    BY <1>0, <2>1, StartData
  <2>2. CASE Answered(n)
    BY <1>0, <2>2, AnsweredData
  <2>3. CASE BeginRead(n)
    BY <1>0, <2>3, BeginReadData
  <2>4. CASE FirstRead(n) \/ Swap(n)
    BY <1>0, <2>4, SwapsData
  <2>5. CASE Forward(n)
    BY <1>0, <2>5, ForwardData
  <2>6. CASE Yield(n)
    BY <1>0, <2>6, YieldData
  <2>7. CASE Flush(n) \/ FlushLast(n)
    BY <1>0, <2>7, FlushData
  <2>8. CASE Finish(n)
    BY <1>0, <2>8, FinishData
  <2> QED BY <1>5, <2>1, <2>2, <2>3, <2>4, <2>5, <2>6, <2>7, <2>8 DEF Receiver
<1>6. ASSUME NEW n \in Receivers, InferenceWorker(n) PROVE Data'
  BY <1>0, <1>6, WorkerData
<1>7. CASE UNCHANGED vars
  <2>1. UNCHANGED <<version, pc, node, port, worker>> /\ 0 \in Nodes /\ 0 \notin Receivers
    BY <1>7, Constants DEF vars
  <2>2. Alone(0)
    BY <2>1 DEF Alone, Stays
  <2>3. Filling'
    BY <2>1, FillingSame DEF Data
  <2>4. Passed(0)' = Passed(0)
    BY <2>1, CountsSame
  <2> QED BY <1>0, <2>1, <2>2, <2>3, <2>4, Elsewhere
<1> QED BY <1>1, <1>2, <1>3, <1>4, <1>5, <1>6, <1>7 DEF Next, Over

LEMMA Everywhere == Spec => [](DoubleBuffer /\ Data)
<1>1. Init => DoubleBuffer /\ Data
  <2>1. Init => Fresh
    BY Constants DEF Init, Fresh
  <2> QED BY <2>1, FreshData, Initially
<1>2. (DoubleBuffer /\ Data) /\ [Next]_vars => (DoubleBuffer /\ Data)'
  BY DoubleBufferStep, DataStep
<1> QED BY <1>1, <1>2, PTL DEF Spec

\* Every value has its type, and there is one message and one request at a time.
THEOREM TypeCorrect == Spec => []TypeOK
<1>1. ASSUME DoubleBuffer, Data PROVE TypeOK
  <2>1. Typed
    BY <1>1 DEF DoubleBuffer
  <2>2. ASSUME NEW n \in Nodes PROVE Len(node[n].link) <= 1
    <3>1. CASE n = Workers
      <4>1. node[n].link = <<>>
        BY <1>1, <3>1 DEF DoubleBuffer, Own
      <4> QED BY <4>1, Nothing
    <3>2. CASE n # Workers
      <4>1. n + 1 \in Receivers /\ (n + 1) - 1 = n
        BY <3>2, Constants DEF Nodes, Receivers
      <4> QED BY <1>1, <4>1 DEF DoubleBuffer, Edge
    <3> QED BY <3>1, <3>2
  <2>3. \A n \in Receivers : Len(port[n].request) <= 1
    BY <1>1 DEF Data, Task
  <2> QED BY <2>1, <2>2, <2>3 DEF Typed, TypeOK
<1> QED BY <1>1, Everywhere, PTL

\* What a server has loaded is the model, weight by weight in order, each whole
\* and of this version, however copies, reads and processes interleave.
THEOREM LoadedIntact == Spec => []Intact
<1>1. ASSUME Data PROVE Intact
  <2> SUFFICES ASSUME NEW n \in Receivers, NEW i \in 1..Len(worker[n].loaded)
               PROVE  LET l == worker[n].loaded[i]
                      IN  l.weight = i /\ \A j \in 1..Sizes[i] :
                              l.cells[j] = <<i, version>>
    BY DEF Intact
  <2>1. Has(version, worker[n].loaded, 0)
    BY <1>1 DEF Data, Got
  <2>2. 0 + i = i
    OBVIOUS
  <2> QED BY <2>1, <2>2 DEF Has
<1> QED BY <1>1, Everywhere, PTL

\* How many weights each server has.
Loads == [n \in Receivers |-> Len(worker[n].loaded)]

LEMMA LoadsSame ==
    ASSUME version' = version,
           \A n \in Receivers : worker'[n].loaded = worker[n].loaded
    PROVE  UNCHANGED Update!state
<1>1. Loads' = Loads
  BY DEF Loads
<1> QED BY <1>1 DEF Update!state, Loads

\* A load maps to a load or, of an empty buffer, to a stutter.
LEMMA LoadsMore ==
    ASSUME DoubleBuffer, Data, NEW n \in Receivers, InferenceWorker(n)
    PROVE  [Update!Next]_(Update!state)
<1> DEFINE k == Len(worker[n].loaded)
           h == Len(worker[n].copy)
<1>0. /\ Typed /\ Got(n) /\ Len(Sizes) \in Nat
      /\ k \in Nat /\ h \in Nat /\ worker[n].copy \in Seq(Clones)
      /\ worker[n].loaded \in Seq(Clones)
  BY Constants, Parts DEF DoubleBuffer, Data
<1>1. /\ version' = version
      /\ \A m \in Receivers \ {n} : worker'[m] = worker[m]
      /\ \/ worker'[n].loaded = worker[n].loaded
         \/ worker'[n].loaded = worker[n].loaded \o worker[n].copy
  <2>1. /\ version' = version
        /\ \A m \in Receivers \ {n} : worker'[m] = worker[m]
        /\ Connected(n) \/ Took(n) \/ Cloned(n) \/ Loaded(n)
    BY <1>0, WorkerTyped
  <2> QED BY <2>1 DEF Connected, Took, Cloned, Loaded
<1>2. CASE worker'[n].loaded = worker[n].loaded
  BY <1>1, <1>2, LoadsSame
<1>3. CASE worker'[n].loaded = worker[n].loaded \o worker[n].copy
  <2>1. Len(worker'[n].loaded) = k + h
    BY <1>0, <1>3
  <2>2. CASE h = 0
    <3>1. worker'[n].loaded = worker[n].loaded
      <4>1. \A l, c \in Seq(Clones) : Len(c) = 0 => l \o c = l
        OBVIOUS
      <4> QED BY <1>0, <1>3, <2>2, <4>1
    <3> QED BY <1>1, <3>1, LoadsSame
  <2>3. CASE h # 0
    <3>1. k + h \in k + 1..Len(Sizes)
      <4>1. h \in 1..h
        BY <1>0, <2>3
      <4>2. worker[n].copy[h].weight = k + h /\ worker[n].copy[h] \in Clones
        <5>1. worker[n].copy[h].weight = k + h
          BY <1>0, <4>1 DEF Got, Has
        <5>2. \A c \in Seq(Clones) : \A i \in 1..Len(c) : c[i] \in Clones
          OBVIOUS
        <5> QED BY <1>0, <4>1, <5>1, <5>2
      <4>3. k + h \in 1..Len(Sizes)
        BY <4>2 DEF Clones, Weights
      <4> HIDE DEF k, h
      <4> QED BY <1>0, <2>3, <4>3
    <3>2. Loads' = [Loads EXCEPT ![n] = k + h] /\ Loads[n] = k
      BY <1>1, <2>1 DEF Loads
    <3>3. Update!Load(n)
      BY <1>1, <3>1, <3>2 DEF Update!Load, Loads
    <3> QED BY <3>3 DEF Update!Next
  <2> QED BY <2>2, <2>3
<1> QED BY <1>1, <1>2, <1>3

\* At the end of an update every server has every weight.
LEMMA EndedLoads ==
    ASSUME DoubleBuffer, Data, Ended, NEW n \in Receivers
    PROVE  Len(worker[n].loaded) = Len(Sizes)
<1> DEFINE k == Len(worker[n].loaded)
<1>1. Typed /\ Hand(n) /\ Task(n) /\ pc[Leader[n]] = "done"
  BY TransferAssumption, Constants DEF DoubleBuffer, Data, Ended
<1>2. worker[n].pc = "done"
  BY <1>1 DEF Hand
<1>3. Delivered(n) = Len(Sizes) /\ worker[n].copy = <<>>
  BY <1>1, <1>2 DEF Task, Count
<1>4. Delivered(n) = k + 0 /\ k \in Nat
  BY <1>1, <1>3, Parts, Nothing DEF Delivered
<1> HIDE DEF k
<1>5. k = Len(Sizes)
  BY <1>3, <1>4
<1> QED BY <1>5 DEF k

LEMMA UpdateStep ==
    ASSUME DoubleBuffer, Data, [Next]_vars
    PROVE  [Update!Next]_(Update!state)
<1>1. CASE NextUpdate
  <2>1. \A n \in Receivers : Loads[n] = Len(Sizes)
    BY <1>1, EndedLoads DEF NextUpdate, Loads
  <2>2. version' = version + 1 /\ Loads' = [n \in Receivers |-> 0]
    BY <1>1, Nothing DEF NextUpdate, Loads, NewWorker
  <2>3. Update!End
    BY <2>1, <2>2 DEF Update!End, Loads
  <2> QED BY <2>3 DEF Update!Next
<1>2. ASSUME NEW n \in Receivers, InferenceWorker(n)
      PROVE  [Update!Next]_(Update!state)
  BY <1>2, LoadsMore
<1>3. ASSUME NEW n \in Receivers, Receiver(n) PROVE UNCHANGED Update!state
  <2>1. CASE Start(n)
    <3>1. /\ version' = version
          /\ \A m \in Receivers : worker'[m].loaded = worker[m].loaded
      BY <2>1, StartTyped DEF DoubleBuffer
    <3> QED BY <3>1, LoadsSame
  <2>2. CASE ~Start(n)
    <3>1. UNCHANGED <<version, worker>>
      BY <1>3, <2>2 DEF Receiver, Answered, BeginRead, FirstRead, Swaps, Forward, Yield,
                        Flush, Swap, FlushLast, Finish
    <3> QED BY <3>1, LoadsSame
  <2> QED BY <2>1, <2>2
<1>4. CASE UNCHANGED <<version, worker>>
  BY <1>4, LoadsSame
<1>5. CASE Sender \/ UNCHANGED vars \/ (\E n \in Nodes : Copies(n))
           \/ (\E n \in Receivers : Transfer(n))
  BY <1>4, <1>5 DEF Sender, Pack, PostFull, PostLast, Sent, Copies, Transfer, vars
<1> QED BY <1>1, <1>2, <1>3, <1>5 DEF Next, Over

\* Together: the servers get a version weight by weight and each weight once,
\* and the update ends when all of them have it all.
THEOREM Implements == Spec => UpdateSpec
<1>1. Init => Update!Init
  BY Nothing DEF Init, NewWorker, Update!Init
<1>2. DoubleBuffer /\ Data /\ [Next]_vars => [Update!Next]_(Update!state)
  BY UpdateStep
<1>3. UpdateSpec <=> Update!Init /\ [][Update!Next]_(Update!state)
  BY DEF UpdateSpec, Update!Spec
<1> QED BY <1>1, <1>2, <1>3, Everywhere, PTL DEF Spec

=============================================================================
