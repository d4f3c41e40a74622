----------------------------- MODULE SampleFlow -----------------------------
(***************************************************************************)
(* What the fully asynchronous trainer promises of its samples, without    *)
(* the coroutines that keep the promise: they leave the dataloader in      *)
(* order and once, they are rolled out in any order, each is handed to the *)
(* trainer at most once, through a bounded queue that gives up its oldest  *)
(* entry when it is full, and each is trained on at most once.  A sample   *)
(* that leaves the flow before it is handed over is lost.                  *)
(***************************************************************************)
EXTENDS Integers, Sequences, SequenceTheorems, TLAPS

CONSTANTS
    Total,     \* samples in the run
    Required,  \* samples in a training batch
    QueueSize  \* entries the queue holds

FlowAssumption ==
    Total \in Nat /\ Required \in Nat \ {0} /\ QueueSize \in Nat \ {0}

End == 0  \* the entry after the last sample

VARIABLES
    issued,   \* samples taken from the dataloader
    rolling,  \* samples being rolled out
    ready,    \* the queue to the trainer
    closed,   \* End has been put
    batch,    \* samples the trainer has collected
    trained   \* samples it has trained on

flow == <<issued, rolling, ready, closed, batch, trained>>

\* Drops the oldest entry of a full queue.
Bounded(q, x) == Append(IF Len(q) >= QueueSize THEN Tail(q) ELSE q, x)

\* The entries of a sequence.
Entries(q) == {q[i] : i \in 1..Len(q)}

Init ==
    /\ issued = 0 /\ rolling = {} /\ ready = <<>> /\ closed = FALSE
    /\ batch = <<>> /\ trained = {}

Issue ==
    /\ issued < Total
    /\ issued' = issued + 1
    /\ rolling' = rolling \cup {issued + 1}
    /\ UNCHANGED <<ready, closed, batch, trained>>

Lose ==
    /\ \E s \in rolling : rolling' = rolling \ {s}
    /\ UNCHANGED <<issued, ready, closed, batch, trained>>

HandOver ==
    /\ \E s \in rolling : rolling' = rolling \ {s} /\ ready' = Bounded(ready, s)
    /\ UNCHANGED <<issued, closed, batch, trained>>

Close ==
    /\ ~closed
    /\ closed' = TRUE
    /\ ready' = Bounded(ready, End)
    /\ UNCHANGED <<issued, rolling, batch, trained>>

\* Nothing is taken after End.
Take ==
    /\ ready # <<>> /\ Head(ready) # End
    /\ Len(batch) < Required
    /\ batch' = Append(batch, Head(ready))
    /\ ready' = Tail(ready)
    /\ UNCHANGED <<issued, rolling, closed, trained>>

TakeEnd ==
    /\ ready # <<>> /\ Head(ready) = End
    /\ Len(batch) < Required
    /\ ready' = Tail(ready)
    /\ batch' = <<>>
    /\ UNCHANGED <<issued, rolling, closed, trained>>

\* A batch is trained on once, and only when it is complete.
Train ==
    /\ Len(batch) = Required
    /\ trained' = trained \cup Entries(batch)
    /\ batch' = <<>>
    /\ UNCHANGED <<issued, rolling, ready, closed>>

Next == Issue \/ Lose \/ HandOver \/ Close \/ Take \/ TakeEnd \/ Train

Spec == Init /\ [][Next]_flow

\* The samples of r, q, b and t are in one of them each, and in b once.
Separate(r, q, b, t) ==
    /\ r \cap (Entries(q) \cup Entries(b) \cup t) = {}
    /\ Entries(q) \cap (Entries(b) \cup t) = {}
    /\ Entries(b) \cap t = {}
    /\ \A i, j \in 1..Len(b) : b[i] = b[j] => i = j

\* A sample is in one place at a time: it is never trained on twice, and never
\* handed over again once the trainer has seen it.
Once == Separate(rolling, ready, batch, trained)

-----------------------------------------------------------------------------
(* Proof *)

\* What makes Once inductive: only issued samples are anywhere, so a new one is
\* nowhere, and the queue does not hold a sample twice.
FlowInv ==
    /\ issued \in Nat
    /\ rolling \subseteq 1..issued
    /\ ready \in Seq(0..issued)
    /\ batch \in Seq(1..issued)
    /\ trained \subseteq 1..issued
    /\ \A i, j \in 1..Len(ready) : ready[i] = ready[j] /\ ready[i] # End => i = j
    /\ Once

LEMMA Queued ==
    ASSUME NEW S, NEW q \in Seq(S), NEW x \in S, FlowAssumption
    PROVE  /\ Bounded(q, x) \in Seq(S)
           /\ Len(Bounded(q, x)) >= 1
           /\ Bounded(q, x)[Len(Bounded(q, x))] = x
           /\ \E d \in {0, 1} : /\ Len(Bounded(q, x)) = Len(q) + 1 - d
                                /\ \A i \in 1..(Len(q) - d) :
                                     /\ Bounded(q, x)[i] = q[i + d]
                                     /\ i + d \in 1..Len(q)
<1>1. CASE Len(q) >= QueueSize
  <2>1. q # <<>> /\ Len(q) >= 1
    BY <1>1 DEF FlowAssumption
  <2>2. /\ Tail(q) \in Seq(S) /\ Len(Tail(q)) = Len(q) - 1
        /\ \A i \in 1..(Len(q) - 1) : Tail(q)[i] = q[i + 1]
    BY <2>1
  <2>3. Bounded(q, x) = Append(Tail(q), x)
    BY <1>1 DEF Bounded
  <2>4. /\ Len(Bounded(q, x)) = Len(q) + 1 - 1
        /\ \A i \in 1..(Len(q) - 1) :
             Bounded(q, x)[i] = q[i + 1] /\ i + 1 \in 1..Len(q)
        /\ Bounded(q, x) \in Seq(S)
        /\ Bounded(q, x)[Len(Bounded(q, x))] = x
    BY <2>1, <2>2, <2>3
  <2> QED BY <2>1, <2>4
<1>2. CASE ~(Len(q) >= QueueSize)
  <2>1. Bounded(q, x) = Append(q, x)
    BY <1>2 DEF Bounded
  <2>2. /\ Len(Bounded(q, x)) = Len(q) + 1 - 0
        /\ \A i \in 1..(Len(q) - 0) :
             Bounded(q, x)[i] = q[i + 0] /\ i + 0 \in 1..Len(q)
        /\ Bounded(q, x) \in Seq(S)
        /\ Bounded(q, x)[Len(Bounded(q, x))] = x
    BY <2>1
  <2> QED BY <2>2
<1> QED BY <1>1, <1>2

\* A step that puts an entry which is not there, or End, keeps the queue in
\* order.
LEMMA QueuedOnce ==
    ASSUME NEW S, NEW q \in Seq(S), NEW x \in S, FlowAssumption,
           \A i, j \in 1..Len(q) : q[i] = q[j] /\ q[i] # End => i = j,
           x = End \/ x \notin Entries(q)
    PROVE  LET b == Bounded(q, x)
           IN  /\ b \in Seq(S)
               /\ Entries(b) \subseteq Entries(q) \cup {x}
               /\ \A i, j \in 1..Len(b) : b[i] = b[j] /\ b[i] # End => i = j
<1> DEFINE b == Bounded(q, x)
<1>1. PICK d \in {0, 1} :
         /\ Len(b) = Len(q) + 1 - d
         /\ \A i \in 1..(Len(q) - d) : b[i] = q[i + d] /\ i + d \in 1..Len(q)
  BY Queued
<1>2. b \in Seq(S) /\ Len(b) >= 1 /\ b[Len(b)] = x
  BY Queued
<1>3. \A i \in 1..Len(b) : i = Len(b) \/ i \in 1..(Len(q) - d)
  BY <1>1, <1>2
<1>4. \A i \in 1..Len(b) : b[i] \in Entries(q) \cup {x}
  BY <1>1, <1>2, <1>3 DEF Entries
<1>5. ASSUME NEW i \in 1..Len(b), NEW j \in 1..Len(b), b[i] = b[j], b[i] # End
      PROVE  i = j
  <2>1. CASE i = Len(b) \/ j = Len(b)
    BY <1>1, <1>2, <1>3, <1>5, <2>1 DEF Entries
  <2>2. CASE i # Len(b) /\ j # Len(b)
    <3>1. i \in 1..(Len(q) - d) /\ j \in 1..(Len(q) - d)
      BY <1>3, <2>2
    <3>2. q[i + d] = q[j + d] /\ q[i + d] # End
          /\ i + d \in 1..Len(q) /\ j + d \in 1..Len(q)
      BY <1>1, <1>5, <3>1
    <3>3. i + d = j + d
      BY <3>2
    <3> QED BY <3>1, <3>3
  <2> QED BY <2>1, <2>2
<1>6. Entries(b) \subseteq Entries(q) \cup {x}
  BY <1>4 DEF Entries
<1> QED BY <1>2, <1>5, <1>6

LEMMA FlowTyped == ASSUME FlowAssumption, Init PROVE FlowInv
BY DEF Init, FlowInv, Once, Separate, Entries

\* A step that takes the head of the queue leaves the rest of it.
LEMMA Taken ==
    ASSUME NEW S, NEW q \in Seq(S), q # <<>>,
           \A i, j \in 1..Len(q) : q[i] = q[j] /\ q[i] # End => i = j
    PROVE  /\ Head(q) \in S /\ Head(q) \in Entries(q)
           /\ Tail(q) \in Seq(S)
           /\ Entries(Tail(q)) \subseteq Entries(q)
           /\ Head(q) # End => Head(q) \notin Entries(Tail(q))
           /\ \A i, j \in 1..Len(Tail(q)) :
                Tail(q)[i] = Tail(q)[j] /\ Tail(q)[i] # End => i = j
<1>1. Len(q) >= 1 /\ Head(q) = q[1] /\ 1 \in 1..Len(q)
  OBVIOUS
<1>2. /\ Tail(q) \in Seq(S) /\ Len(Tail(q)) = Len(q) - 1
      /\ \A i \in 1..Len(Tail(q)) :
           Tail(q)[i] = q[i + 1] /\ i + 1 \in 1..Len(q) /\ i + 1 # 1
  BY <1>1
<1>3. Head(q) \in S /\ Head(q) \in Entries(q)
  BY <1>1 DEF Entries
<1>4. Entries(Tail(q)) \subseteq Entries(q)
  BY <1>2 DEF Entries
<1>5. Head(q) # End => Head(q) \notin Entries(Tail(q))
  BY <1>1, <1>2 DEF Entries
<1>6. ASSUME NEW i \in 1..Len(Tail(q)), NEW j \in 1..Len(Tail(q)),
             Tail(q)[i] = Tail(q)[j], Tail(q)[i] # End
      PROVE  i = j
  <2>1. i + 1 = j + 1
    BY <1>2, <1>6
  <2> QED BY <1>2, <2>1
<1> QED BY <1>2, <1>3, <1>4, <1>5, <1>6

LEMMA FlowStep ==
    ASSUME FlowAssumption, FlowInv, [Next]_flow
    PROVE  FlowInv'
<1> DEFINE Apart(q) ==
      \A i, j \in 1..Len(q) : q[i] = q[j] /\ q[i] # End => i = j
<1>0. /\ issued \in Nat /\ rolling \subseteq 1..issued
      /\ ready \in Seq(0..issued) /\ batch \in Seq(1..issued)
      /\ trained \subseteq 1..issued /\ Apart(ready)
      /\ Entries(ready) \subseteq 0..issued /\ Entries(batch) \subseteq 1..issued
  BY DEF FlowInv, Entries
<1>1. CASE Issue
  <2>1. /\ issued' \in Nat /\ 1..issued \subseteq 1..issued'
        /\ 0..issued \subseteq 0..issued' /\ issued' \in 1..issued'
        /\ issued' \notin 0..issued /\ issued' \notin 1..issued
    BY <1>0, <1>1 DEF Issue
  <2>2. /\ ready' \in Seq(0..issued') /\ batch' \in Seq(1..issued')
    BY <1>0, <1>1, <2>1 DEF Issue
  <2>3. rolling' \subseteq 1..issued' /\ trained' \subseteq 1..issued'
    BY <1>0, <1>1, <2>1 DEF Issue
  <2>4. Once'
    BY <1>0, <1>1, <2>1 DEF Issue, FlowInv, Once, Separate
  <2>5. Apart(ready)'
    BY <1>0, <1>1 DEF Issue
  <2> QED BY <2>1, <2>2, <2>3, <2>4, <2>5 DEF FlowInv
<1>2. CASE Lose
  BY <1>0, <1>2 DEF Lose, FlowInv, Once, Separate
<1>3. CASE HandOver
  <2>1. PICK s \in rolling : rolling' = rolling \ {s} /\ ready' = Bounded(ready, s)
    BY <1>3 DEF HandOver
  <2>2. s \in 0..issued /\ s \notin Entries(ready)
    BY <1>0, <2>1 DEF FlowInv, Once, Separate
  <2>3. /\ ready' \in Seq(0..issued) /\ Apart(ready)'
        /\ Entries(ready') \subseteq Entries(ready) \cup {s}
    BY <1>0, <2>1, <2>2, QueuedOnce
  <2>4. Once'
    BY <1>0, <1>3, <2>1, <2>3 DEF HandOver, FlowInv, Once, Separate
  <2> QED BY <1>0, <1>3, <2>1, <2>3, <2>4 DEF HandOver, FlowInv
<1>4. CASE Close
  <2>1. End \in 0..issued
    BY <1>0 DEF End
  <2>2. /\ ready' \in Seq(0..issued) /\ Apart(ready)'
        /\ Entries(ready') \subseteq Entries(ready) \cup {End}
    BY <1>0, <1>4, <2>1, QueuedOnce DEF Close
  <2>3. End \notin rolling /\ End \notin Entries(batch) /\ End \notin trained
    BY <1>0 DEF End
  <2>4. Once'
    BY <1>0, <1>4, <2>2, <2>3 DEF Close, FlowInv, Once, Separate
  <2> QED BY <1>0, <1>4, <2>2, <2>4 DEF Close, FlowInv
<1>5. CASE Take
  <2> DEFINE x == Head(ready)
  <2>1. /\ x \in Entries(ready) /\ x \in 1..issued
        /\ ready' \in Seq(0..issued) /\ Apart(ready)'
        /\ Entries(ready') \subseteq Entries(ready) /\ x \notin Entries(ready')
    <3>1. ready # <<>> /\ x # End /\ ready' = Tail(ready)
      BY <1>5 DEF Take
    <3>2. x \in 0..issued
      BY <1>0, <3>1, Taken
    <3> QED BY <1>0, <3>1, <3>2, Taken DEF End
  <2>2. /\ batch' = Append(batch, x) /\ x \notin Entries(batch)
        /\ x \notin rolling /\ x \notin trained
    BY <1>5, <2>1 DEF Take, FlowInv, Once, Separate
  <2>3. /\ batch' \in Seq(1..issued)
        /\ Len(batch') = Len(batch) + 1 /\ batch'[Len(batch) + 1] = x
        /\ \A i \in 1..Len(batch) : batch'[i] = batch[i]
    BY <1>0, <2>1, <2>2
  <2>4. Entries(batch') \subseteq Entries(batch) \cup {x}
    <3>1. \A i \in 1..Len(batch') : i = Len(batch) + 1 \/ i \in 1..Len(batch)
      BY <1>0, <2>3
    <3> QED BY <2>3, <3>1 DEF Entries
  <2>5. \A i, j \in 1..Len(batch') : batch'[i] = batch'[j] => i = j
    <3>1. \A i, j \in 1..Len(batch) : batch[i] = batch[j] => i = j
      BY DEF FlowInv, Once, Separate
    <3>2. \A i \in 1..Len(batch) : batch[i] # x
      BY <2>2 DEF Entries
    <3>3. \A i \in 1..Len(batch') : i = Len(batch) + 1 \/ i \in 1..Len(batch)
      BY <1>0, <2>3
    <3> QED BY <2>3, <3>1, <3>2, <3>3
  <2>6. rolling' = rolling /\ trained' = trained /\ issued' = issued
    BY <1>5 DEF Take
  <2>7. Once'
    <3>1. /\ rolling \cap (Entries(ready) \cup Entries(batch) \cup trained) = {}
          /\ Entries(ready) \cap (Entries(batch) \cup trained) = {}
          /\ Entries(batch) \cap trained = {}
      BY DEF FlowInv, Once, Separate
    <3>2. /\ rolling' \cap (Entries(ready') \cup Entries(batch') \cup trained') = {}
          /\ Entries(ready') \cap (Entries(batch') \cup trained') = {}
          /\ Entries(batch') \cap trained' = {}
      BY <2>1, <2>2, <2>4, <2>6, <3>1
    <3> QED BY <2>5, <3>2 DEF Once, Separate
  <2> QED BY <1>0, <2>1, <2>3, <2>6, <2>7 DEF FlowInv
<1>6. CASE TakeEnd
  <2>1. /\ ready' \in Seq(0..issued) /\ Apart(ready)'
        /\ Entries(ready') \subseteq Entries(ready)
    <3>1. ready # <<>> /\ ready' = Tail(ready)
      BY <1>6 DEF TakeEnd
    <3> QED BY <1>0, <3>1, Taken
  <2>2. batch' \in Seq(1..issued) /\ Entries(batch') = {}
    BY <1>6 DEF TakeEnd, Entries
  <2>3. Once'
    BY <1>6, <2>1, <2>2 DEF TakeEnd, FlowInv, Once, Separate
  <2> QED BY <1>0, <1>6, <2>1, <2>2, <2>3 DEF TakeEnd, FlowInv
<1>7. CASE Train
  <2>1. batch' \in Seq(1..issued) /\ Entries(batch') = {} /\ batch' = <<>>
    BY <1>7 DEF Train, Entries
  <2>2. Once'
    BY <1>7, <2>1 DEF Train, FlowInv, Once, Separate
  <2>3. trained' \subseteq 1..issued
    BY <1>0, <1>7 DEF Train
  <2> QED BY <1>0, <1>7, <2>1, <2>2, <2>3 DEF Train, FlowInv
<1>8. CASE UNCHANGED flow
  BY <1>8 DEF flow, FlowInv, Once, Separate
<1> QED BY <1>1, <1>2, <1>3, <1>4, <1>5, <1>6, <1>7, <1>8 DEF Next

\* However samples are lost, dropped or cut off by the end, none is trained on
\* twice: whatever implements Spec inherits this.
THEOREM FlowOnce ==
    ASSUME FlowAssumption
    PROVE  Spec => []Once
<1>1. Init => FlowInv
  BY FlowTyped
<1>2. FlowInv /\ [Next]_flow => FlowInv'
  BY FlowStep
<1>3. FlowInv => Once
  BY DEF FlowInv
<1> QED BY <1>1, <1>2, <1>3, PTL DEF Spec

=============================================================================
