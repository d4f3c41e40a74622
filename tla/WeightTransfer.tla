---------------------------- MODULE WeightTransfer ----------------------------
(***************************************************************************)
(* A weight update over the NIXL checkpoint engine.  Node 0 is rank 0 of   *)
(* the trainer, the nodes behind it are the rollout workers, in a chain.   *)
(* The weights go down the chain in buckets: a node posts a bucket, the    *)
(* next one reads the memory and notifies the poster; two buffers that     *)
(* swap places let a node read a bucket while it passes the one before.    *)
(* A rollout worker copies what it receives into a buffer that it shares   *)
(* with its inference worker, which answers when it has its own copy.      *)
(*                                                                         *)
(* Non-blocking copies run on the stream of the device, behind the program *)
(* until it synchronizes.                                                  *)
(***************************************************************************)
EXTENDS Integers, Sequences

CONSTANTS
    Workers,     \* rollout_world_size: the number of rollout workers
    Sizes,       \* nbytes of each weight
    BucketSize,  \* bucket_size, of the engine and of the shared buffer
    Leader,      \* rank 0 of the replica of each rollout worker
    MaxUpdates   \* bound: updates

Nodes == 0..Workers
Receivers == 1..Workers
Weights == 1..Len(Sizes)

ASSUME TransferAssumption ==
    /\ Workers \in Nat \ {0} /\ BucketSize \in Nat \ {0} /\ MaxUpdates \in Nat \ {0}
    /\ Sizes \in Seq(1..BucketSize)
    /\ Leader \in [Receivers -> Receivers]
    /\ \A n \in Receivers : Leader[Leader[n]] = Leader[n]

VARIABLES
    version,  \* the version that is being transferred
    pc,       \* where send_weights() or update_weights() of a node is
    \* The engine of a node: its two buffers; out, which of them is send_buf;
    \* bucket, the one it fills or hands to the consumer; offset, where the one
    \* it fills ends; incoming, next_metadata; index, the next weight of the
    \* model or of bucket; post,
    \* readable_op: none, posted or read; link, messages to the next node; read,
    \* read_op: from which buffer to which, and how far; stream, copies the
    \* device has still to make.
    node,
    \* Between the consumer of a node and its inference worker: the shared
    \* buffer, the weights packed in it and where they end, the request and the
    \* reply.
    port,
    \* update_weights_from_ipc(): where it is; task, the bucket it received;
    \* copy, its clone of the bucket; loaded, the weights in the model, in order.
    worker

vars == <<version, pc, node, port, worker>>

-----------------------------------------------------------------------------
(* Buffers and buckets *)

Bytes == 0..BucketSize-1
Blank == [i \in Bytes |-> <<0, 0>>]

\* bucket_meta: the weights in a bucket, and where each begins.
Meta(w, offset) == [weight |-> w, offset |-> offset]

Bucket(metas, last) == [meta |-> metas, last |-> last]

Fits(offset, w) == offset + Sizes[w] <= BucketSize

\* The cells of weight w at offset i of a buffer.
Cells(b, i, w) == [j \in 1..Sizes[w] |-> b[i + j - 1]]

\* A buffer after cells were written at offset i.
Write(b, i, cells) ==
    [j \in Bytes |-> IF j - i + 1 \in 1..Len(cells) THEN cells[j - i + 1] ELSE b[j]]

NoBucket == Bucket(<<>>, FALSE)
NoRead == [from |-> 0, to |-> 0, got |-> BucketSize]

-----------------------------------------------------------------------------
(* prepare(): every update starts with new buffers *)

Starts == [n \in Nodes |-> IF n = 0 THEN "send" ELSE "start"]

NewNode ==
    [buffers |-> [b \in {0, 1} |-> Blank], out |-> 0, bucket |-> NoBucket,
     offset |-> 0, incoming |-> NoBucket, index |-> 1, post |-> "none", link |-> <<>>,
     read |-> NoRead, stream |-> <<>>]

NewPort == [shared |-> Blank, packed |-> <<>>, offset |-> 0, request |-> <<>>,
            reply |-> FALSE]

NewWorker == [pc |-> "idle", task |-> NoBucket, copy |-> <<>>, loaded |-> <<>>]

Init ==
    /\ version = 1
    /\ pc = Starts
    /\ node = [n \in Nodes |-> NewNode]
    /\ port = [n \in Receivers |-> NewPort]
    /\ worker = [n \in Receivers |-> NewWorker]

Idle(n) == node[n].stream = <<>>

Goes(n, place) == pc' = [pc EXCEPT ![n] = place]

-----------------------------------------------------------------------------
(* The device and the network *)

\* The next copy of the stream is made: from the model into a buffer at node 0,
\* from a buffer into the shared one elsewhere.
Copies(n) ==
    /\ ~Idle(n)
    /\ LET c == Head(node[n].stream)
           rest == Tail(node[n].stream)
       IN  IF n = 0
           THEN /\ node' = [node EXCEPT
                       ![n].stream = rest,
                       ![n].buffers[c.buffer] = Write(@, c.from,
                           [j \in 1..Sizes[c.weight] |-> <<c.weight, version>>])]
                /\ UNCHANGED port
           ELSE /\ node' = [node EXCEPT ![n].stream = rest]
                /\ port' = [port EXCEPT ![n].shared = Write(@, c.to,
                       Cells(node[n].buffers[c.buffer], c.from, c.weight))]
    /\ UNCHANGED <<version, pc, worker>>

\* A read goes on; with its last cell the node before is notified.
Transfer(n) ==
    /\ node[n].read.got < BucketSize
    /\ LET r == node[n].read
       IN  node' = [node EXCEPT
               ![n].buffers[r.to][r.got] = node[n-1].buffers[r.from][r.got],
               ![n].read.got = r.got + 1,
               ![n-1].post = IF r.got + 1 = BucketSize THEN "read" ELSE @]
    /\ UNCHANGED <<version, pc, port, worker>>

-----------------------------------------------------------------------------
(* send_weights() *)

\* Node n queues the copy of weight w, at offset from in send_buf and offset to
\* in the shared buffer.
Queued(n, w, from, to) ==
    Append(node[n].stream,
           [weight |-> w, buffer |-> node[n].out, from |-> from, to |-> to])

\* Mutant of Pack: the bucket may overflow.
PackAll ==
    /\ pc[0] = "send" /\ node[0].index <= Len(Sizes)
    /\ node' = [node EXCEPT
           ![0].stream = Queued(0, node[0].index, node[0].offset, 0),
           ![0].bucket.meta = Append(@, Meta(node[0].index, node[0].offset)),
           ![0].offset = @ + Sizes[node[0].index],
           ![0].index = @ + 1]
    /\ UNCHANGED <<version, pc, port, worker>>

Pack ==
    /\ pc[0] = "send" /\ node[0].index <= Len(Sizes)
    /\ Fits(node[0].offset, node[0].index)
    /\ node' = [node EXCEPT
           ![0].stream = Queued(0, node[0].index, node[0].offset, 0),
           ![0].bucket.meta = Append(@, Meta(node[0].index, node[0].offset)),
           ![0].offset = @ + Sizes[node[0].index],
           ![0].index = @ + 1]
    /\ UNCHANGED <<version, pc, port, worker>>

\* What a ReadableOperation of node n sends: bucket b, to be read in send_buf.
Message(n, b) == [bucket |-> b, buffer |-> node[n].out]

\* A full bucket is posted when the one before has been read.
PostFull ==
    /\ pc[0] = "send" /\ node[0].index <= Len(Sizes)
    /\ ~Fits(node[0].offset, node[0].index)
    /\ Idle(0) /\ node[0].post # "posted"
    /\ node' = [node EXCEPT
           ![0].post = "posted",
           ![0].link = Append(@, Message(0, node[0].bucket)),
           ![0].out = 1 - @,
           ![0].bucket = NoBucket,
           ![0].offset = 0]
    /\ UNCHANGED <<version, pc, port, worker>>

PostLast ==
    /\ pc[0] = "send" /\ node[0].index > Len(Sizes)
    /\ Idle(0) /\ node[0].post # "posted"
    /\ node' = [node EXCEPT
           ![0].post = "posted",
           ![0].link = Append(@, Message(0, Bucket(node[0].bucket.meta, TRUE)))]
    /\ Goes(0, "sent")
    /\ UNCHANGED <<version, port, worker>>

Sent ==
    /\ pc[0] = "sent" /\ node[0].post = "read"
    /\ Goes(0, "done")
    /\ UNCHANGED <<version, node, port, worker>>

Sender == Pack \/ PostFull \/ PostLast \/ Sent

-----------------------------------------------------------------------------
(* update_weights() of a rollout worker: the consumer of receive_weights() *)

\* Rank 0 of a replica starts the inference workers of the replica; each
\* consumer then offers its buffer and waits for an answer.
Start(n) ==
    /\ pc[n] = "start"
    /\ worker' = [m \in Receivers |->
           IF n = Leader[n] /\ Leader[m] = n THEN [worker[m] EXCEPT !.pc = "hello"]
                                             ELSE worker[m]]
    /\ port' = [port EXCEPT ![n].request = <<NoBucket>>]
    /\ Goes(n, "hello")
    /\ UNCHANGED <<version, node>>

Answered(n) ==
    /\ port[n].reply
    /\ port' = [port EXCEPT ![n].reply = FALSE,
                              ![n].packed = <<>>, ![n].offset = 0]
    /\ \/ pc[n] = "hello" /\ Goes(n, "first")
       \/ pc[n] = "flush" /\ Goes(n, "yield")
       \/ pc[n] = "flush last" /\ Goes(n, "future")
    /\ UNCHANGED <<version, node, worker>>

\* The message of the node before arrives, and a read into recv_buf begins.
BeginRead(n) ==
    /\ pc[n] \in {"first", "metadata"}
    /\ node[n-1].link # <<>>
    /\ LET m == Head(node[n-1].link)
       IN  node' = [node EXCEPT
               ![n-1].link = Tail(@),
               ![n].incoming = m.bucket,
               ![n].read = [from |-> m.buffer, to |-> 1 - node[n].out, got |-> 0]]
    /\ Goes(n, IF pc[n] = "first" THEN "first read" ELSE "yield")
    /\ UNCHANGED <<version, port, worker>>

\* The bucket that was read becomes the one to pass on.
Swaps(n) ==
    /\ node' = [node EXCEPT ![n].bucket = node[n].incoming,
                            ![n].out = 1 - @,
                            ![n].index = 1]
    /\ Goes(n, "forward")
    /\ UNCHANGED <<version, port, worker>>

FirstRead(n) ==
    /\ pc[n] = "first read" /\ node[n].read.got = BucketSize
    /\ Swaps(n)

\* Mutant of Forward: the last bucket is not passed on.
ForwardNotLast(n) ==
    /\ pc[n] = "forward"
    /\ node' = IF n < Workers /\ ~node[n].bucket.last
               THEN [node EXCEPT ![n].post = "posted",
                                 ![n].link = Append(@, Message(n, node[n].bucket))]
               ELSE [node EXCEPT ![n].post = "none"]
    /\ Goes(n, IF node[n].bucket.last THEN "yield" ELSE "metadata")
    /\ UNCHANGED <<version, port, worker>>

Forward(n) ==
    /\ pc[n] = "forward"
    /\ node' = IF n < Workers
               THEN [node EXCEPT ![n].post = "posted",
                                 ![n].link = Append(@, Message(n, node[n].bucket))]
               ELSE [node EXCEPT ![n].post = "none"]
    /\ Goes(n, IF node[n].bucket.last THEN "yield" ELSE "metadata")
    /\ UNCHANGED <<version, port, worker>>

\* The weights of the bucket that the consumer has not had yet, and the next.
More(n) == node[n].index <= Len(node[n].bucket.meta)
NextMeta(n) == node[n].bucket.meta[node[n].index]

\* The next weight of the bucket goes to the consumer.
Yield(n) ==
    /\ pc[n] = "yield" /\ More(n)
    /\ Fits(port[n].offset, NextMeta(n).weight)
    /\ node' = [node EXCEPT
           ![n].stream = Queued(n, NextMeta(n).weight, NextMeta(n).offset, port[n].offset),
           ![n].index = @ + 1]
    /\ port' = [port EXCEPT
           ![n].packed = Append(@, Meta(NextMeta(n).weight, port[n].offset)),
           ![n].offset = @ + Sizes[NextMeta(n).weight]]
    /\ UNCHANGED <<version, pc, worker>>

\* When it does not fit, the shared buffer is handed over first.
Flush(n) ==
    /\ pc[n] = "yield" /\ More(n)
    /\ ~Fits(port[n].offset, NextMeta(n).weight)
    /\ Idle(n)
    /\ port' = [port EXCEPT ![n].request = <<Bucket(port[n].packed, FALSE)>>]
    /\ Goes(n, "flush")
    /\ UNCHANGED <<version, node, worker>>

\* Mutant of Swap: the next node may still read the bucket.
SwapEarly(n) ==
    /\ pc[n] = "yield" /\ ~More(n) /\ ~node[n].bucket.last
    /\ node[n].read.got = BucketSize /\ Idle(n)
    /\ Swaps(n)

Swap(n) ==
    /\ pc[n] = "yield" /\ ~More(n) /\ ~node[n].bucket.last
    /\ node[n].post # "posted" /\ node[n].read.got = BucketSize /\ Idle(n)
    /\ Swaps(n)

\* After the last weight the consumer hands over what is left.
FlushLast(n) ==
    /\ pc[n] = "yield" /\ ~More(n) /\ node[n].bucket.last
    /\ node[n].post # "posted" /\ Idle(n)
    /\ port' = [port EXCEPT ![n].request = <<Bucket(port[n].packed, TRUE)>>]
    /\ Goes(n, "flush last")
    /\ UNCHANGED <<version, node, worker>>

\* Mutant of Finish: nobody waits for the inference workers.
FinishAtOnce(n) ==
    /\ pc[n] = "future"
    /\ Goes(n, "done")
    /\ UNCHANGED <<version, node, port, worker>>

\* Rank 0 of a replica waits until its inference workers are through.
Finish(n) ==
    /\ pc[n] = "future"
    /\ \A m \in Receivers : n = Leader[n] /\ Leader[m] = n => worker[m].pc = "done"
    /\ Goes(n, "done")
    /\ UNCHANGED <<version, node, port, worker>>

Receiver(n) ==
    \/ Start(n) \/ Answered(n) \/ BeginRead(n) \/ FirstRead(n) \/ Forward(n)
    \/ Yield(n) \/ Flush(n) \/ Swap(n) \/ FlushLast(n) \/ Finish(n)

-----------------------------------------------------------------------------
(* update_weights_from_ipc() of an inference worker *)

Connect(n) ==
    /\ worker[n].pc = "hello" /\ port[n].request # <<>>
    /\ port' = [port EXCEPT ![n].request = <<>>, ![n].reply = TRUE]
    /\ worker' = [worker EXCEPT ![n].pc = "receive"]
    /\ UNCHANGED <<version, pc, node>>

\* Mutant of Receive: it answers before it has its copy.
ReceiveAnswers(n) ==
    /\ worker[n].pc = "receive" /\ port[n].request # <<>>
    /\ worker' = [worker EXCEPT ![n].pc = "clone", ![n].task = Head(port[n].request)]
    /\ port' = [port EXCEPT ![n].request = <<>>, ![n].reply = TRUE]
    /\ UNCHANGED <<version, pc, node>>

Receive(n) ==
    /\ worker[n].pc = "receive" /\ port[n].request # <<>>
    /\ worker' = [worker EXCEPT ![n].pc = "clone", ![n].task = Head(port[n].request)]
    /\ port' = [port EXCEPT ![n].request = <<>>]
    /\ UNCHANGED <<version, pc, node>>

\* It clones the weights, synchronizes and answers.
Clone(n) ==
    /\ worker[n].pc = "clone"
    /\ LET metas == worker[n].task.meta
       IN  worker' = [worker EXCEPT
               ![n].pc = "load",
               ![n].copy = [i \in 1..Len(metas) |->
                   [weight |-> metas[i].weight,
                    cells |-> Cells(port[n].shared, metas[i].offset, metas[i].weight)]]]
    /\ port' = [port EXCEPT ![n].reply = TRUE]
    /\ UNCHANGED <<version, pc, node>>

Load(n) ==
    /\ worker[n].pc = "load"
    /\ worker' = [worker EXCEPT
           ![n].pc = IF worker[n].task.last THEN "done" ELSE "receive",
           ![n].loaded = @ \o worker[n].copy,
           ![n].copy = <<>>]
    /\ UNCHANGED <<version, pc, node, port>>

InferenceWorker(n) == Connect(n) \/ Receive(n) \/ Clone(n) \/ Load(n)

-----------------------------------------------------------------------------
(* update_weights() of the manager: all are through, and the next begins *)

Ended == \A n \in Nodes : pc[n] = "done"

NextUpdate ==
    /\ Ended /\ version < MaxUpdates
    /\ version' = version + 1
    /\ pc' = Starts
    /\ node' = [n \in Nodes |-> NewNode]
    /\ port' = [n \in Receivers |-> NewPort]
    /\ worker' = [n \in Receivers |-> NewWorker]

Over == Ended /\ version = MaxUpdates /\ UNCHANGED vars

Next ==
    \/ Sender \/ NextUpdate \/ Over
    \/ \E n \in Nodes : Copies(n)
    \/ \E n \in Receivers : Transfer(n) \/ Receiver(n) \/ InferenceWorker(n)

Spec == Init /\ [][Next]_vars

\* Every process runs, the device makes its copies and a read that has begun
\* comes to its end.
FairSpec ==
    /\ Spec
    /\ WF_vars(Sender) /\ WF_vars(NextUpdate)
    /\ \A n \in Nodes : WF_vars(Copies(n))
    /\ \A n \in Receivers :
          WF_vars(Transfer(n)) /\ WF_vars(Receiver(n)) /\ WF_vars(InferenceWorker(n))

-----------------------------------------------------------------------------
(* What it promises *)

Cell == {<<0, 0>>} \cup (Weights \X (1..MaxUpdates))
Buffer == [Bytes -> Cell]

\* What lies at an offset lies in the buffer.
Metas == {m \in [weight: Weights, offset: Bytes] : Fits(m.offset, m.weight)}
Buckets == [meta: Seq(Metas), last: BOOLEAN]
Messages == [bucket: Buckets, buffer: {0, 1}]
Reads == [from: {0, 1}, to: {0, 1}, got: 0..BucketSize]
QueuedCopies ==
    {c \in [weight: Weights, buffer: {0, 1}, from: Bytes, to: Bytes] :
        Fits(c.from, c.weight) /\ Fits(c.to, c.weight)}
Clones == {c \in [weight: Weights, cells: Seq(Cell)] : Len(c.cells) = Sizes[c.weight]}

NodeStates ==
    [buffers: [{0, 1} -> Buffer], out: {0, 1}, bucket: Buckets, offset: 0..BucketSize,
     incoming: Buckets, index: Nat \ {0}, post: {"none", "posted", "read"},
     link: Seq(Messages), read: Reads, stream: Seq(QueuedCopies)]

PortStates ==
    [shared: Buffer, packed: Seq(Metas), offset: 0..BucketSize, request: Seq(Buckets),
     reply: BOOLEAN]

WorkerStates ==
    [pc: {"idle", "hello", "receive", "clone", "load", "done"}, task: Buckets,
     copy: Seq(Clones), loaded: Seq(Clones)]

Sends == {"send", "sent", "done"}
Receives == {"start", "hello", "first", "first read", "forward", "metadata",
             "yield", "flush", "flush last", "future", "done"}

\* In particular nothing lies beyond the end of a buffer, and there is one
\* message and one request at a time.
TypeOK ==
    /\ version \in 1..MaxUpdates
    /\ pc \in [Nodes -> Sends \cup Receives]
    /\ pc[0] \in Sends /\ \A n \in Receivers : pc[n] \in Receives
    /\ node \in [Nodes -> NodeStates]
    /\ port \in [Receivers -> PortStates]
    /\ worker \in [Receivers -> WorkerStates]
    /\ \A n \in Nodes : Len(node[n].link) <= 1
    /\ \A n \in Receivers : Len(port[n].request) <= 1

\* However copies, reads and the two processes of a rollout worker interleave,
\* what a server loads is the weights in order, whole and of this version.
Intact ==
    \A n \in Receivers : \A i \in 1..Len(worker[n].loaded) :
        LET l == worker[n].loaded[i]
        IN  l.weight = i /\ \A j \in 1..Sizes[i] : l.cells[j] = <<i, version>>

\* Somebody has still to read buffer b of node n, or is reading it.
Wanted(n, b) ==
    \/ \E i \in 1..Len(node[n].link) : node[n].link[i].buffer = b
    \/ n < Workers /\ node[n+1].read.got < BucketSize /\ node[n+1].read.from = b
    \/ n > 0 /\ \E i \in 1..Len(node[n].stream) : node[n].stream[i].buffer = b

\* The shared buffer is handed over and not yet cloned.
Handed(n) == port[n].request # <<>> \/ worker[n].pc = "clone"

\* The double buffering: nobody writes a buffer that another process, the next
\* node or the device is still to read.
Untouched ==
    [][/\ \A n \in Nodes, b \in {0, 1} :
             Wanted(n, b) => node'[n].buffers[b] = node[n].buffers[b]
       /\ \A n \in Receivers :
             Handed(n) => port'[n].shared = port[n].shared]_vars

\* The servers get a version weight by weight, and the update ends for the
\* manager when every one of them has it all.
Update == INSTANCE WeightUpdate WITH
    Servers <- Receivers, Count <- Len(Sizes),
    loaded <- [n \in Receivers |-> Len(worker[n].loaded)]

UpdateSpec == Update!Spec

\* No node waits for ever for another one: every update ends.
UpdatesEnd == <>(version = MaxUpdates /\ Ended)

=============================================================================
