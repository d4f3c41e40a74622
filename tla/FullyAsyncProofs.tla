-------------------------- MODULE FullyAsyncProofs --------------------------
(***************************************************************************)
(* What holds of FullyAsync for any number of samples, any thresholds and  *)
(* queue sizes, with and without partial rollout, whatever raises.         *)
(***************************************************************************)
EXTENDS FullyAsync, FiniteSetTheorems, SequenceTheorems, TLAPS

-----------------------------------------------------------------------------
(* The processor between two points *)

\* What TypeOK needs to be inductive.  A sample is held from the moment it is
\* taken to its submission, through the waiting loop of the limit and no other
\* (or for ever when the processor dies in between).
Holding ==
    /\ pc \in {"check", "pausing", "get", "idle", "parked"} => held = None
    /\ pc \in {"submit", "parked with sample"} => held # None
    /\ pc \in {"round", "wait"} =>
          loop \in {"drain", "limit", "end"} /\ (held # None <=> loop = "limit")

TypeInv == TypeOK /\ Exclusive /\ Holding

Loops == {"drain", "limit", "end"}

\* Where the processor goes when the loop k is over.
After(k) == CASE k = "drain" -> "idle"
              [] k = "limit" -> "submit"
              [] k = "end" -> "over"

LEMMA TailOf ==
    ASSUME NEW S, NEW q \in Seq(S), q # <<>>
    PROVE  /\ Tail(q) \in Seq(S) /\ Len(Tail(q)) = Len(q) - 1
           /\ Head(q) \in S
OBVIOUS

LEMMA AsksFor ==
    ASSUME NEW l \in Seq(Coroutines), NEW place, Asks(l, place)
    PROVE  /\ pc' = place /\ busy' \in BOOLEAN
           /\ lock' \in Seq(Coroutines) /\ lock' # <<>>
           /\ l # <<>> => Head(lock') = Head(l)
BY DEF Asks, Coroutines

LEMMA OneRound ==
    ASSUME NEW k \in Loops, NEW n, NEW l \in Seq(Coroutines), While(k, n, l)
    PROVE  /\ \/ loop' = k /\ pc' = "round"
              \/ loop' = "none" /\ pc' = After(k)
           /\ busy' \in BOOLEAN
           /\ lock' \in Seq(Coroutines)
           /\ l # <<>> => lock' # <<>> /\ Head(lock') = Head(l)
<1>1. CASE loop' = k /\ Asks(l, "round")
  BY <1>1, AsksFor
<1>2. CASE k = "drain" /\ loop' = "none" /\ Asks(l, "idle")
  BY <1>2, AsksFor DEF After
<1>3. CASE k = "limit" /\ loop' = "none" /\ Asks(l, "submit")
  BY <1>3, AsksFor DEF After
<1>4. CASE k = "end" /\ loop' = "none" /\ pc' = "over" /\ lock' = l /\ busy' = FALSE
  BY <1>4 DEF After
<1> QED BY <1>1, <1>2, <1>3, <1>4 DEF While, Loops

LEMMA ActiveNat == ASSUME TypeOK PROVE Active \in Nat
<1>1. IsFiniteSet(Samples)
  BY RollouterAssumption, FS_Interval DEF Samples
<1>2. IsFiniteSet(running)
  BY <1>1, FS_Subset DEF TypeOK, TasksOK
<1> QED BY <1>2, FS_CardinalityType DEF TypeOK, TasksOK, Active

LEMMA QueuesFor ==
    ASSUME lock \in Seq(Coroutines), NEW c \in Coroutines, Queues(c)
    PROVE  /\ lock # <<>> /\ lock' # <<>> /\ Head(lock') = Head(lock)
           /\ lock' \in Seq(Coroutines)
BY DEF Queues

LEMMA ObtainsFor ==
    ASSUME lock \in Seq(Coroutines), NEW c \in Coroutines, Obtains(c)
    PROVE  /\ lock' # <<>> /\ Head(lock') = c
           /\ lock # <<>> => Head(lock) = c
           /\ lock' \in Seq(Coroutines)
<1>1. CASE lock = <<>> /\ lock' = <<c>>
  BY <1>1
<1>2. CASE Has(c) /\ lock' = lock
  BY <1>2 DEF Has
<1> QED BY <1>1, <1>2 DEF Obtains

LEMMA UsesFor ==
    ASSUME lock \in Seq(Coroutines), NEW c \in Coroutines, UsesAtOnce(c)
    PROVE  /\ lock # <<>> => Head(lock) = c
           /\ lock' \in Seq(Coroutines)
BY DEF UsesAtOnce, Has

LEMMA PutFits ==
    ASSUME QueueOK, NEW x \in Samples \cup {MQ!End}, MQ!PutSample(x)
    PROVE  QueueOK'
<1>1. CASE MQ!Full
  <2>1. queue # <<>>
    BY <1>1, RollouterAssumption DEF MQ!Full, QueueOK
  <2>2. /\ Tail(queue) \in Seq(Samples \cup {MQ!End})
        /\ Len(Tail(queue)) = Len(queue) - 1
    BY <2>1 DEF QueueOK
  <2>3. queue' = Append(Tail(queue), x)
    BY <1>1 DEF MQ!PutSample
  <2> QED BY <2>2, <2>3 DEF QueueOK
<1>2. CASE ~MQ!Full
  BY <1>2, RollouterAssumption DEF MQ!Full, MQ!PutSample, QueueOK
<1> QED BY <1>1, <1>2

LEMMA GetFits ==
    ASSUME QueueOK, NEW x, MQ!GetSample(x)
    PROVE  QueueOK'
<1>1. queue # <<>> /\ queue' = Tail(queue)
  BY DEF MQ!GetSample
<1>2. queue \in Seq(Samples \cup {MQ!End}) /\ Len(queue) <= MaxRequired
  BY DEF QueueOK
<1>3. /\ Tail(queue) \in Seq(Samples \cup {MQ!End})
      /\ Len(Tail(queue)) = Len(queue) - 1 /\ Len(queue) \in Nat
  BY <1>1, <1>2, TailOf
<1> QED BY <1>1, <1>2, <1>3, RollouterAssumption DEF QueueOK

LEMMA FeedTyped ==
    ASSUME TypeInv, Feed
    PROVE  /\ ProcessorOK' /\ TasksOK' /\ QueueOK' /\ SharedOK' /\ CallsOK'
           /\ Exclusive' /\ Holding'
<1>0. taken \in Nat /\ fed \in Nat /\ taken <= fed /\ fed <= Done /\ Done \in Nat
      /\ PendingSize \in Nat \ {0}
  <2>1. Total \in Nat /\ PendingSize \in Nat \ {0}
    BY RollouterAssumption
  <2>2. Done \in Nat
    BY <2>1 DEF Done
  <2>3. taken \in 0..Done /\ fed \in taken..Done
    BY DEF TypeInv, TypeOK, ProcessorOK
  <2> QED BY <2>1, <2>2, <2>3
<1>1. TasksOK' /\ QueueOK' /\ SharedOK' /\ CallsOK'
  BY DEF Feed, TypeInv, TypeOK, TasksOK, QueueOK, SharedOK, CallsOK, tasks, shared,
     calls
<1>2. Exclusive' /\ Holding'
  BY DEF Feed, TypeInv, Exclusive, Has, Holding, processor, shared, calls
<1>3. ProcessorOK'
  <2>1. fed' \in taken..Done
    BY <1>0 DEF Feed
  <2> QED BY <2>1 DEF Feed, TypeInv, TypeOK, ProcessorOK, processor
<1> QED BY <1>1, <1>2, <1>3

LEMMA PauseItselfTyped ==
    ASSUME TypeInv, PauseItself
    PROVE  /\ ProcessorOK' /\ TasksOK' /\ QueueOK' /\ SharedOK' /\ CallsOK'
           /\ Exclusive' /\ Holding'
<1>0. /\ pc = "check" /\ pc' = "pausing" /\ busy' \in BOOLEAN
      /\ lock' \in Seq(Coroutines)
      /\ lock # <<>> => lock' # <<>> /\ Head(lock') = Head(lock)
  BY AsksFor DEF PauseItself, TypeInv, TypeOK, SharedOK
<1>1. TasksOK' /\ QueueOK' /\ CallsOK'
  BY DEF PauseItself, TypeInv, TypeOK, TasksOK, QueueOK, CallsOK, tasks, calls
<1>2. ProcessorOK'
  BY <1>0 DEF PauseItself, TypeInv, TypeOK, ProcessorOK
<1>3. SharedOK'
  BY <1>0 DEF PauseItself, TypeInv, TypeOK, SharedOK
<1>4. Exclusive'
  BY <1>0 DEF PauseItself, TypeInv, Exclusive, Has, calls
<1>5. Holding'
  BY <1>0 DEF PauseItself, TypeInv, Holding
<1> QED BY <1>1, <1>2, <1>3, <1>4, <1>5

LEMMA PausingTyped ==
    ASSUME TypeInv, Pausing
    PROVE  /\ ProcessorOK' /\ TasksOK' /\ QueueOK' /\ SharedOK' /\ CallsOK'
           /\ Exclusive' /\ Holding'
<1>0. /\ \/ loop' = "drain" /\ pc' = "round"
         \/ loop' = "none" /\ pc' = "idle"
      /\ busy' \in BOOLEAN /\ lock' \in Seq(Coroutines)
      /\ lock # <<>> /\ Head(lock) = "processor"
  <2>1. lock \in Seq(Coroutines) /\ lock # <<>> /\ Head(lock) = "processor"
    BY DEF Pausing, Has, TypeInv, TypeOK, SharedOK
  <2>2. Tail(lock) \in Seq(Coroutines) /\ While("drain", Active, Tail(lock))
    BY <2>1, TailOf DEF Pausing
  <2> QED BY <2>1, <2>2, OneRound DEF Loops, After
<1>1. TasksOK' /\ QueueOK' /\ CallsOK'
  BY DEF Pausing, TypeInv, TypeOK, TasksOK, QueueOK, CallsOK, tasks, calls
<1>2. ProcessorOK'
  BY <1>0 DEF Pausing, TypeInv, TypeOK, ProcessorOK
<1>3. SharedOK'
  BY <1>0 DEF Pausing, TypeInv, TypeOK, SharedOK
<1>4. Exclusive'
  BY <1>0 DEF Pausing, TypeInv, Exclusive, Has, calls
<1>5. Holding'
  BY <1>0 DEF Pausing, TypeInv, Holding
<1> QED BY <1>1, <1>2, <1>3, <1>4, <1>5

LEMMA TakeCancelledTyped ==
    ASSUME TypeInv, TakeCancelled
    PROVE  /\ ProcessorOK' /\ TasksOK' /\ QueueOK' /\ SharedOK' /\ CallsOK'
           /\ Exclusive' /\ Holding'
<1>0. /\ \/ loop' = "limit" /\ pc' = "round"
         \/ loop' = "none" /\ pc' = "submit"
      /\ busy' \in BOOLEAN /\ lock' \in Seq(Coroutines)
      /\ lock # <<>> => lock' # <<>> /\ Head(lock') = Head(lock)
  <2>1. lock \in Seq(Coroutines) /\ While("limit", Active, lock)
    BY DEF TakeCancelled, TypeInv, TypeOK, SharedOK
  <2> QED BY <2>1, OneRound DEF Loops, After
<1>a. /\ cancel \in Seq(Samples) /\ cancel # <<>>
      /\ held' = Head(cancel) /\ cancel' = Tail(cancel)
  BY DEF TakeCancelled, TypeInv, TypeOK, TasksOK
<1>b. held' \in Samples /\ held' # None /\ cancel' \in Seq(Samples)
  <2>1. held' \in Samples /\ cancel' \in Seq(Samples)
    BY <1>a, TailOf
  <2> QED BY <2>1 DEF Samples, None
<1>1. TasksOK' /\ QueueOK' /\ CallsOK'
  BY DEF TakeCancelled, TypeInv, TypeOK, TasksOK, QueueOK, CallsOK, calls
<1>2. ProcessorOK'
  BY <1>0, <1>b DEF TakeCancelled, TypeInv, TypeOK, ProcessorOK
<1>3. SharedOK'
  BY <1>0 DEF TakeCancelled, TypeInv, TypeOK, SharedOK
<1>4. Exclusive'
  BY <1>0 DEF TakeCancelled, TypeInv, Exclusive, Has, calls
<1>5. Holding'
  BY <1>0, <1>b DEF TakeCancelled, TypeInv, Holding
<1> QED BY <1>1, <1>2, <1>3, <1>4, <1>5

LEMMA TurnsToPendingTyped ==
    ASSUME TypeInv, TurnsToPending
    PROVE  /\ ProcessorOK' /\ TasksOK' /\ QueueOK' /\ SharedOK' /\ CallsOK'
           /\ Exclusive' /\ Holding'
<1>1. /\ ProcessorOK' /\ TasksOK' /\ QueueOK' /\ SharedOK'
      /\ CallsOK' /\ Exclusive' /\ Holding'
  BY DEF TurnsToPending, TypeInv, TypeOK, ProcessorOK, TasksOK, QueueOK, SharedOK,
     CallsOK, Exclusive, Has, Holding, tasks, shared, calls
<1> QED BY <1>1

LEMMA TakePendingTyped ==
    ASSUME TypeInv, TakePending
    PROVE  /\ ProcessorOK' /\ TasksOK' /\ QueueOK' /\ SharedOK' /\ CallsOK'
           /\ Exclusive' /\ Holding'
<1>0. /\ taken \in Nat /\ fed \in Nat /\ fed <= Done /\ Total \in Nat
      /\ taken < fed /\ taken' = taken + 1
  BY RollouterAssumption DEF TakePending, TypeInv, TypeOK, ProcessorOK, Done
<1>a. /\ lock \in Seq(Coroutines) /\ pc = "get"
      /\ sync' = sync /\ bound' = bound /\ fed' = fed
  BY DEF TakePending, TypeInv, TypeOK, SharedOK, calls
<1>d. taken' \in 0..Done /\ fed' \in taken'..Done
  BY <1>0, <1>a DEF Done
<1>b. ASSUME taken' = Done
      PROVE  ProcessorOK' /\ SharedOK' /\ Exclusive' /\ Holding'
  <2>1. While("end", Active, lock) /\ held' = held
    BY <1>b DEF TakePending
  <2>2. /\ \/ loop' = "end" /\ pc' = "round"
           \/ loop' = "none" /\ pc' = "over"
        /\ busy' \in BOOLEAN /\ lock' \in Seq(Coroutines)
        /\ lock # <<>> => lock' # <<>> /\ Head(lock') = Head(lock)
    BY <1>a, <2>1, OneRound DEF Loops, After
  <2>3. held = None
    BY DEF TakePending, TypeInv, Holding
  <2>4. ProcessorOK'
    BY <1>a, <1>d, <2>1, <2>2 DEF TypeInv, TypeOK, ProcessorOK
  <2>5. SharedOK'
    BY <2>2 DEF TakePending, TypeInv, TypeOK, SharedOK
  <2>6. Exclusive' /\ Holding'
    BY <1>a, <2>1, <2>2, <2>3 DEF TypeInv, Exclusive, Holding, Has
  <2> QED BY <2>4, <2>5, <2>6
<1>c. ASSUME taken' # Done
      PROVE  ProcessorOK' /\ SharedOK' /\ Exclusive' /\ Holding'
  <2>1. While("limit", Active, lock) /\ held' = taken'
    BY <1>c DEF TakePending
  <2>2. /\ \/ loop' = "limit" /\ pc' = "round"
           \/ loop' = "none" /\ pc' = "submit"
        /\ busy' \in BOOLEAN /\ lock' \in Seq(Coroutines)
        /\ lock # <<>> => lock' # <<>> /\ Head(lock') = Head(lock)
    BY <1>a, <2>1, OneRound DEF Loops, After
  <2>3. held' \in Samples /\ held' # None
    BY <1>0, <1>c, <2>1 DEF Samples, None, Done
  <2>4. ProcessorOK'
    BY <1>a, <1>d, <2>2, <2>3 DEF TypeInv, TypeOK, ProcessorOK
  <2>5. SharedOK'
    BY <2>2 DEF TakePending, TypeInv, TypeOK, SharedOK
  <2>6. Exclusive' /\ Holding'
    BY <1>a, <2>2, <2>3 DEF TypeInv, Exclusive, Holding, Has
  <2> QED BY <2>4, <2>5, <2>6
<1>1. TasksOK' /\ QueueOK' /\ CallsOK'
  BY DEF TakePending, TypeInv, TypeOK, TasksOK, QueueOK, CallsOK, tasks, calls
<1>2. ProcessorOK'
  BY <1>b, <1>c
<1>3. SharedOK'
  BY <1>b, <1>c
<1>4. Exclusive'
  BY <1>b, <1>c
<1>5. Holding'
  BY <1>b, <1>c
<1> QED BY <1>1, <1>2, <1>3, <1>4, <1>5

LEMMA RoundTyped ==
    ASSUME TypeInv, Round
    PROVE  /\ ProcessorOK' /\ TasksOK' /\ QueueOK' /\ SharedOK' /\ CallsOK'
           /\ Exclusive' /\ Holding'
<1>0. /\ lock \in Seq(Coroutines) /\ lock # <<>> /\ Head(lock) = "processor"
      /\ Tail(lock) \in Seq(Coroutines)
      /\ loop \in Loops /\ (held # None <=> loop = "limit") /\ held' = held
  <2>1. /\ lock \in Seq(Coroutines) /\ lock # <<>> /\ Head(lock) = "processor"
        /\ loop \in Loops /\ (held # None <=> loop = "limit") /\ held' = held
    BY DEF Round, Has, TypeInv, TypeOK, SharedOK, Exclusive, Holding, Loops
  <2> QED BY <2>1, TailOf
<1>a. /\ \/ loop' = loop /\ pc' = "round" /\ lock' \in Seq(Coroutines)
         \/ loop' = loop /\ pc' = "wait" /\ lock' = lock
         \/ loop' = "none" /\ pc' = After(loop) /\ lock' \in Seq(Coroutines)
         \/ loop' = "none" /\ pc' = "over" /\ lock' = Tail(lock)
      /\ busy' \in BOOLEAN
  BY <1>0, OneRound DEF Round, Raises
<1>b. lock' \in Seq(Coroutines)
  BY <1>0, <1>a
<1>1. TasksOK' /\ QueueOK' /\ CallsOK'
  BY DEF Round, TypeInv, TypeOK, TasksOK, QueueOK, CallsOK, tasks, calls
<1>2. ProcessorOK'
  BY <1>a DEF Round, TypeInv, TypeOK, ProcessorOK, After, Holding
<1>3. SharedOK'
  BY <1>b DEF Round, TypeInv, TypeOK, SharedOK
<1>4. Exclusive'
  BY <1>a DEF Round, TypeInv, Exclusive, Has, calls, After, Holding
<1>5. Holding'
  BY <1>a DEF Round, TypeInv, Holding, After
<1> QED BY <1>1, <1>2, <1>3, <1>4, <1>5

LEMMA CollectTyped ==
    ASSUME TypeInv, Collect
    PROVE  /\ ProcessorOK' /\ TasksOK' /\ QueueOK' /\ SharedOK' /\ CallsOK'
           /\ Exclusive' /\ Holding'
<1>0. /\ lock \in Seq(Coroutines) /\ lock # <<>> /\ Head(lock) = "processor"
      /\ Tail(lock) \in Seq(Coroutines)
      /\ loop \in Loops /\ (held # None <=> loop = "limit") /\ held' = held
  <2>1. /\ lock \in Seq(Coroutines) /\ lock # <<>> /\ Head(lock) = "processor"
        /\ loop \in Loops /\ (held # None <=> loop = "limit") /\ held' = held
    BY DEF Collect, Has, TypeInv, TypeOK, SharedOK, Exclusive, Holding, Loops
  <2> QED BY <2>1, TailOf
<1>a. /\ \/ loop' = loop /\ pc' = "round" /\ lock' \in Seq(Coroutines)
         \/ loop' = loop /\ pc' = "wait" /\ lock' = lock
         \/ loop' = "none" /\ pc' = After(loop) /\ lock' \in Seq(Coroutines)
         \/ loop' = "none" /\ pc' = "over" /\ lock' = Tail(lock)
      /\ busy' \in BOOLEAN
  BY <1>0, OneRound DEF Collect, Raises
<1>b. lock' \in Seq(Coroutines)
  BY <1>0, <1>a
<1>1. TasksOK' /\ QueueOK' /\ CallsOK'
  BY DEF Collect, TypeInv, TypeOK, TasksOK, QueueOK, CallsOK, calls
<1>2. ProcessorOK'
  BY <1>a DEF Collect, TypeInv, TypeOK, ProcessorOK, After, Holding
<1>3. SharedOK'
  BY <1>b DEF Collect, TypeInv, TypeOK, SharedOK
<1>4. Exclusive'
  BY <1>a DEF Collect, TypeInv, Exclusive, Has, calls, After, Holding
<1>5. Holding'
  BY <1>a DEF Collect, TypeInv, Holding, After
<1> QED BY <1>1, <1>2, <1>3, <1>4, <1>5

LEMMA IdleTyped ==
    ASSUME TypeInv, Idle
    PROVE  /\ ProcessorOK' /\ TasksOK' /\ QueueOK' /\ SharedOK' /\ CallsOK'
           /\ Exclusive' /\ Holding'
<1>1. /\ ProcessorOK' /\ TasksOK' /\ QueueOK' /\ CallsOK'
      /\ Exclusive' /\ Holding'
  BY DEF Idle, TypeInv, TypeOK, ProcessorOK, TasksOK, QueueOK, CallsOK, Exclusive,
     Has, Holding, processor, tasks, calls
<1>2. SharedOK'
  BY DEF Idle, TypeInv, TypeOK, SharedOK, Has
<1> QED BY <1>1, <1>2

LEMMA SubmitTyped ==
    ASSUME TypeInv, Submit
    PROVE  /\ ProcessorOK' /\ TasksOK' /\ QueueOK' /\ SharedOK' /\ CallsOK'
           /\ Exclusive' /\ Holding'
<1>1. ProcessorOK' /\ QueueOK' /\ CallsOK' /\ Exclusive' /\ Holding'
  BY DEF Submit, TypeInv, TypeOK, ProcessorOK, QueueOK, CallsOK, Exclusive, Has,
     Holding, processor, calls
<1>2. TasksOK'
  <2>1. held \in Samples
    BY DEF Submit, TypeInv, TypeOK, ProcessorOK, Holding
  <2> QED BY <2>1 DEF Submit, TypeInv, TypeOK, TasksOK
<1>3. SharedOK'
  BY TailOf DEF Submit, TypeInv, TypeOK, SharedOK, Has
<1> QED BY <1>1, <1>2, <1>3

LEMMA WakeTyped ==
    ASSUME TypeInv, Wake
    PROVE  /\ ProcessorOK' /\ TasksOK' /\ QueueOK' /\ SharedOK' /\ CallsOK'
           /\ Exclusive' /\ Holding'
<1>1. TasksOK' /\ QueueOK' /\ CallsOK'
  BY DEF Wake, TypeInv, TypeOK, TasksOK, QueueOK, CallsOK, tasks, calls
<1>2. ProcessorOK'
  BY AsksFor DEF Wake, TypeInv, TypeOK, ProcessorOK, SharedOK
<1>3. SharedOK'
  BY AsksFor DEF Wake, TypeInv, TypeOK, SharedOK
<1>4. Exclusive'
  BY AsksFor DEF Wake, TypeInv, Exclusive, Has, calls, TypeOK, SharedOK
<1>5. Holding'
  BY AsksFor DEF Wake, TypeInv, Holding, TypeOK, SharedOK
<1> QED BY <1>1, <1>2, <1>3, <1>4, <1>5

LEMMA SendEndTyped ==
    ASSUME TypeInv, SendEnd
    PROVE  /\ ProcessorOK' /\ TasksOK' /\ QueueOK' /\ SharedOK' /\ CallsOK'
           /\ Exclusive' /\ Holding'
<1>1. /\ ProcessorOK' /\ TasksOK' /\ SharedOK' /\ CallsOK'
      /\ Exclusive' /\ Holding'
  BY DEF SendEnd, TypeInv, TypeOK, ProcessorOK, TasksOK, SharedOK, CallsOK,
     Exclusive, Has, Holding, tasks, shared, calls
<1>2. QueueOK'
  BY PutFits DEF SendEnd, TypeInv, TypeOK
<1> QED BY <1>1, <1>2

LEMMA MonitorWaitsTyped ==
    ASSUME TypeInv, MonitorWaits
    PROVE  /\ ProcessorOK' /\ TasksOK' /\ QueueOK' /\ SharedOK' /\ CallsOK'
           /\ Exclusive' /\ Holding'
<1>0. /\ lock # <<>> /\ lock' # <<>> /\ Head(lock') = Head(lock)
      /\ lock' \in Seq(Coroutines)
  BY QueuesFor DEF MonitorWaits, TypeInv, TypeOK, SharedOK, Coroutines
<1>1. ProcessorOK' /\ TasksOK' /\ QueueOK' /\ CallsOK'
  <2>1. UNCHANGED <<processor, fed, tasks, queue, calls>>
    BY DEF MonitorWaits
  <2>2. ProcessorOK'
    BY <2>1 DEF TypeInv, TypeOK, ProcessorOK, processor
  <2>3. TasksOK'
    BY <2>1 DEF TypeInv, TypeOK, TasksOK, tasks
  <2>4. QueueOK'
    BY <2>1 DEF TypeInv, TypeOK, QueueOK
  <2>5. CallsOK'
    BY <2>1 DEF TypeInv, TypeOK, CallsOK, calls
  <2> QED BY <2>2, <2>3, <2>4, <2>5
<1>2. Holding'
  BY DEF MonitorWaits, TypeInv, Holding, processor
<1>3. SharedOK'
  BY <1>0 DEF MonitorWaits, TypeInv, TypeOK, SharedOK
<1>4. Exclusive'
  BY <1>0 DEF MonitorWaits, TypeInv, Exclusive, Has, processor, calls
<1> QED BY <1>1, <1>2, <1>3, <1>4

LEMMA MonitorResumesTyped ==
    ASSUME TypeInv, MonitorResumes
    PROVE  /\ ProcessorOK' /\ TasksOK' /\ QueueOK' /\ SharedOK' /\ CallsOK'
           /\ Exclusive' /\ Holding'
<1>0. /\ lock # <<>> => Head(lock) = "monitor"
      /\ lock' \in Seq(Coroutines)
  BY UsesFor DEF MonitorResumes, TypeInv, TypeOK, SharedOK, Coroutines
<1>1. TasksOK' /\ QueueOK' /\ CallsOK'
  BY DEF MonitorResumes, TypeInv, TypeOK, TasksOK, QueueOK, CallsOK, tasks, calls
<1>2. ProcessorOK'
  BY DEF MonitorResumes, TypeInv, TypeOK, ProcessorOK, Notify
<1>3. SharedOK'
  BY <1>0 DEF MonitorResumes, TypeInv, TypeOK, SharedOK
<1>4. Exclusive'
  BY DEF MonitorResumes, TypeInv, Exclusive, Has, calls, Notify
<1>5. Holding'
  BY DEF MonitorResumes, TypeInv, Holding, Notify
<1> QED BY <1>1, <1>2, <1>3, <1>4, <1>5

LEMMA MonitorEndsTyped ==
    ASSUME TypeInv, MonitorEnds
    PROVE  /\ ProcessorOK' /\ TasksOK' /\ QueueOK' /\ SharedOK' /\ CallsOK'
           /\ Exclusive' /\ Holding'
<1>1. /\ ProcessorOK' /\ TasksOK' /\ QueueOK' /\ SharedOK'
      /\ CallsOK' /\ Exclusive' /\ Holding'
  BY DEF MonitorEnds, TypeInv, TypeOK, ProcessorOK, TasksOK, QueueOK, SharedOK,
     CallsOK, Exclusive, Has, Holding, processor, tasks, calls
<1> QED BY <1>1

LEMMA CallQueuesTyped ==
    ASSUME TypeInv, CallQueues
    PROVE  /\ ProcessorOK' /\ TasksOK' /\ QueueOK' /\ SharedOK' /\ CallsOK'
           /\ Exclusive' /\ Holding'
<1>0. /\ lock # <<>> /\ lock' # <<>> /\ Head(lock') = Head(lock)
      /\ lock' \in Seq(Coroutines)
  BY QueuesFor DEF CallQueues, TypeInv, TypeOK, SharedOK, Coroutines
<1>1. ProcessorOK' /\ TasksOK' /\ QueueOK' /\ CallsOK'
  <2>1. UNCHANGED <<processor, fed, tasks, queue, calls>>
    BY DEF CallQueues
  <2>2. ProcessorOK'
    BY <2>1 DEF TypeInv, TypeOK, ProcessorOK, processor
  <2>3. TasksOK'
    BY <2>1 DEF TypeInv, TypeOK, TasksOK, tasks
  <2>4. QueueOK'
    BY <2>1 DEF TypeInv, TypeOK, QueueOK
  <2>5. CallsOK'
    BY <2>1 DEF TypeInv, TypeOK, CallsOK, calls
  <2> QED BY <2>2, <2>3, <2>4, <2>5
<1>2. Holding'
  BY DEF CallQueues, TypeInv, Holding, processor
<1>3. SharedOK'
  BY <1>0 DEF CallQueues, TypeInv, TypeOK, SharedOK
<1>4. Exclusive'
  BY <1>0 DEF CallQueues, TypeInv, Exclusive, Has, processor, calls
<1> QED BY <1>1, <1>2, <1>3, <1>4

LEMMA PauseBeginsTyped ==
    ASSUME TypeInv, PauseBegins
    PROVE  /\ ProcessorOK' /\ TasksOK' /\ QueueOK' /\ SharedOK' /\ CallsOK'
           /\ Exclusive' /\ Holding'
<1>0. /\ lock' # <<>> /\ Head(lock') = "pause"
      /\ lock # <<>> => Head(lock) = "pause"
      /\ lock' \in Seq(Coroutines)
  BY ObtainsFor DEF PauseBegins, TypeInv, TypeOK, SharedOK, Coroutines
<1>1. ProcessorOK' /\ TasksOK' /\ QueueOK' /\ Holding'
  BY DEF PauseBegins, TypeInv, TypeOK, ProcessorOK, TasksOK, QueueOK, Holding,
     processor, tasks
<1>2. SharedOK'
  BY <1>0 DEF PauseBegins, TypeInv, TypeOK, SharedOK
<1>3. CallsOK'
  BY RollouterAssumption DEF PauseBegins, TypeInv, TypeOK, CallsOK
<1>4. Exclusive'
  BY <1>0 DEF PauseBegins, TypeInv, Exclusive, Has, processor
<1> QED BY <1>1, <1>2, <1>3, <1>4

LEMMA PauseEndsTyped ==
    ASSUME TypeInv, PauseEnds
    PROVE  /\ ProcessorOK' /\ TasksOK' /\ QueueOK' /\ SharedOK' /\ CallsOK'
           /\ Exclusive' /\ Holding'
<1>0. /\ lock # <<>> /\ Head(lock) = "pause"
      /\ lock' \in Seq(Coroutines)
  BY TailOf DEF PauseEnds, TypeInv, TypeOK, SharedOK, Exclusive, Has
<1>1. /\ ProcessorOK' /\ TasksOK' /\ QueueOK' /\ CallsOK'
      /\ Exclusive' /\ Holding'
  BY DEF PauseEnds, TypeInv, TypeOK, ProcessorOK, TasksOK, QueueOK, CallsOK,
     Exclusive, Has, Holding, processor
<1>2. SharedOK'
  BY <1>0 DEF PauseEnds, TypeInv, TypeOK, SharedOK
<1> QED BY <1>1, <1>2

LEMMA UpdateBeginsTyped ==
    ASSUME TypeInv, UpdateBegins
    PROVE  /\ ProcessorOK' /\ TasksOK' /\ QueueOK' /\ SharedOK' /\ CallsOK'
           /\ Exclusive' /\ Holding'
<1>0. /\ lock' # <<>> /\ Head(lock') = "update"
      /\ lock # <<>> => Head(lock) = "update"
      /\ lock' \in Seq(Coroutines)
  BY ObtainsFor DEF UpdateBegins, TypeInv, TypeOK, SharedOK, Coroutines
<1>a. Len(cancel) \in Nat
  BY DEF TypeInv, TypeOK, TasksOK
<1>b. counted' \in Nat
  BY <1>a, ActiveNat DEF UpdateBegins, TypeInv
<1>1. ProcessorOK' /\ TasksOK' /\ QueueOK' /\ Holding'
  BY DEF UpdateBegins, TypeInv, TypeOK, ProcessorOK, TasksOK, QueueOK, Holding,
     processor, tasks
<1>2. SharedOK'
  BY <1>0 DEF UpdateBegins, TypeInv, TypeOK, SharedOK
<1>3. CallsOK'
  BY <1>b DEF UpdateBegins, TypeInv, TypeOK, CallsOK
<1>4. Exclusive'
  BY <1>0 DEF UpdateBegins, TypeInv, Exclusive, Has, processor
<1> QED BY <1>1, <1>2, <1>3, <1>4

LEMMA UpdateEndsTyped ==
    ASSUME TypeInv, UpdateEnds
    PROVE  /\ ProcessorOK' /\ TasksOK' /\ QueueOK' /\ SharedOK' /\ CallsOK'
           /\ Exclusive' /\ Holding'
<1>0. /\ lock # <<>> /\ Head(lock) = "update"
      /\ lock' \in Seq(Coroutines)
  BY TailOf DEF UpdateEnds, TypeInv, TypeOK, SharedOK, Exclusive, Has
<1>a. stale' \in Nat
  <2>1. counted \in Nat /\ Len(queue) \in Nat
    BY DEF TypeInv, TypeOK, CallsOK, QueueOK
  <2> QED BY <2>1 DEF UpdateEnds
<1>1. /\ ProcessorOK' /\ TasksOK' /\ QueueOK' /\ CallsOK'
      /\ Exclusive' /\ Holding'
  BY DEF UpdateEnds, TypeInv, TypeOK, ProcessorOK, TasksOK, QueueOK, CallsOK,
     Exclusive, Has, Holding, processor, tasks
<1>2. SharedOK'
  BY <1>0, <1>a DEF UpdateEnds, TypeInv, TypeOK, SharedOK
<1> QED BY <1>1, <1>2

LEMMA ResumeTyped ==
    ASSUME TypeInv, Resume
    PROVE  /\ ProcessorOK' /\ TasksOK' /\ QueueOK' /\ SharedOK' /\ CallsOK'
           /\ Exclusive' /\ Holding'
<1>0. /\ lock # <<>> => Head(lock) = "resume"
      /\ lock' \in Seq(Coroutines)
  BY UsesFor DEF Resume, TypeInv, TypeOK, SharedOK, Coroutines
<1>1. TasksOK' /\ QueueOK' /\ CallsOK'
  BY DEF Resume, TypeInv, TypeOK, TasksOK, QueueOK, CallsOK, tasks
<1>2. ProcessorOK'
  BY DEF Resume, TypeInv, TypeOK, ProcessorOK, Notify
<1>3. SharedOK'
  BY <1>0 DEF Resume, TypeInv, TypeOK, SharedOK
<1>4. Exclusive'
  BY <1>0 DEF Resume, TypeInv, Exclusive, Has, Notify
<1>5. Holding'
  BY DEF Resume, TypeInv, Holding, Notify
<1> QED BY <1>1, <1>2, <1>3, <1>4, <1>5

LEMMA FinishTyped ==
    ASSUME TypeInv, NEW s \in Samples, Finish(s)
    PROVE  /\ ProcessorOK' /\ TasksOK' /\ QueueOK' /\ SharedOK' /\ CallsOK'
           /\ Exclusive' /\ Holding'
<1>1. ProcessorOK'
  BY DEF Finish, TypeInv, TypeOK, ProcessorOK, processor
<1>2. SharedOK'
  BY DEF Finish, TypeInv, TypeOK, SharedOK, shared
<1>3. CallsOK'
  BY DEF Finish, TypeInv, TypeOK, CallsOK, calls
<1>4. Exclusive'
  BY DEF Finish, TypeInv, Exclusive, Has, processor, shared, calls
<1>5. Holding'
  BY DEF Finish, TypeInv, Holding, processor
<1>6. TasksOK'
  <2>1. stamp' \in [Samples -> Nat]
    BY DEF Finish, TypeInv, TypeOK, TasksOK, CallsOK
  <2>2. running' \subseteq Samples /\ finished' \in Nat
    BY DEF Finish, TypeInv, TypeOK, TasksOK
  <2> QED BY <2>1, <2>2 DEF Finish, TypeInv, TypeOK, TasksOK
<1>7. QueueOK'
  BY PutFits DEF Finish, TypeInv, TypeOK, TasksOK
<1> QED BY <1>1, <1>2, <1>3, <1>4, <1>5, <1>6, <1>7

LEMMA CancelledTyped ==
    ASSUME TypeInv, NEW s \in Samples, Cancelled(s)
    PROVE  /\ ProcessorOK' /\ TasksOK' /\ QueueOK' /\ SharedOK' /\ CallsOK'
           /\ Exclusive' /\ Holding'
<1>0. cancel' \in Seq(Samples)
  BY DEF Cancelled, TypeInv, TypeOK, TasksOK
<1>1. ProcessorOK'
  BY DEF Cancelled, TypeInv, TypeOK, ProcessorOK, processor
<1>2. QueueOK'
  BY DEF Cancelled, TypeInv, TypeOK, QueueOK
<1>3. SharedOK'
  BY DEF Cancelled, TypeInv, TypeOK, SharedOK, shared
<1>4. CallsOK'
  BY DEF Cancelled, TypeInv, TypeOK, CallsOK, calls
<1>5. Exclusive'
  BY DEF Cancelled, TypeInv, Exclusive, Has, processor, shared, calls
<1>6. Holding'
  BY DEF Cancelled, TypeInv, Holding, processor
<1>7. TasksOK'
  <2>2. running' \subseteq Samples /\ finished' \in Nat
    BY DEF Cancelled, TypeInv, TypeOK, TasksOK
  <2> QED BY <1>0, <2>2 DEF Cancelled, TypeInv, TypeOK, TasksOK
<1> QED BY <1>1, <1>2, <1>3, <1>4, <1>5, <1>6, <1>7

LEMMA FailTyped ==
    ASSUME TypeInv, NEW s \in Samples, Fail(s)
    PROVE  /\ ProcessorOK' /\ TasksOK' /\ QueueOK' /\ SharedOK' /\ CallsOK'
           /\ Exclusive' /\ Holding'
<1>1. ProcessorOK'
  BY DEF Fail, TypeInv, TypeOK, ProcessorOK, processor
<1>2. QueueOK'
  BY DEF Fail, TypeInv, TypeOK, QueueOK
<1>3. SharedOK'
  BY DEF Fail, TypeInv, TypeOK, SharedOK, shared
<1>4. CallsOK'
  BY DEF Fail, TypeInv, TypeOK, CallsOK, calls
<1>5. Exclusive'
  BY DEF Fail, TypeInv, Exclusive, Has, processor, shared, calls
<1>6. Holding'
  BY DEF Fail, TypeInv, Holding, processor
<1>7. TasksOK'
  <2>1. broken' \subseteq Samples
    BY DEF Fail, TypeInv, TypeOK, TasksOK
  <2>2. running' \subseteq Samples /\ finished' \in Nat
    BY DEF Fail, TypeInv, TypeOK, TasksOK
  <2> QED BY <2>1, <2>2 DEF Fail, TypeInv, TypeOK, TasksOK
<1> QED BY <1>1, <1>2, <1>3, <1>4, <1>5, <1>6, <1>7

-----------------------------------------------------------------------------
(* The trainer *)

\* No step of the trainer moves the processor or the lock.
LEMMA TrainerApart ==
    ASSUME TypeInv, Trainer
    PROVE  /\ ProcessorOK' /\ TasksOK' /\ SharedOK' /\ Holding'
           /\ UNCHANGED <<pc, loop, lock>>
<1>1. UNCHANGED <<processor, fed, tasks, shared>>
  <2>1. CASE Get \/ GetEnd
    BY <2>1 DEF Get, GetEnd
  <2>2. CASE Train \/ Last \/ LastWait
    BY <2>2 DEF Train, Last, LastWait, rollouter
  <2>3. CASE Synchronize \/ Load
    BY <2>3 DEF Synchronize, Load
  <2> QED BY <2>1, <2>2, <2>3 DEF Trainer
<1>2. ProcessorOK' /\ UNCHANGED <<pc, loop, held, lock>>
  BY <1>1 DEF TypeInv, TypeOK, ProcessorOK, processor, shared
<1>3. TasksOK'
  BY <1>1 DEF TypeInv, TypeOK, TasksOK, tasks
<1>4. SharedOK'
  BY <1>1 DEF TypeInv, TypeOK, SharedOK, shared
<1>5. Holding'
  BY <1>2 DEF TypeInv, Holding
<1> QED BY <1>2, <1>3, <1>4, <1>5

LEMMA TrainerTyped ==
    ASSUME TypeInv, Trainer
    PROVE  QueueOK' /\ CallsOK' /\ TrainerOK' /\ Exclusive'
<1>0. /\ Required \in Nat \ {0} /\ Trigger \in Nat \ {0}
      /\ batch \in Seq(Samples) /\ Len(batch) \in Nat /\ Len(batch) <= Required
      /\ local \in 1..Trigger /\ current \in Nat
  <2>1. /\ batch \in Seq(Samples) /\ Len(batch) <= Required
        /\ local \in 1..Trigger /\ current \in Nat
    BY DEF TypeInv, TypeOK, TrainerOK
  <2>2. Len(batch) \in Nat
    BY <2>1
  <2>3. Required \in Nat \ {0} /\ Trigger \in Nat \ {0}
    BY TrainerAssumption
  <2> QED BY <2>1, <2>2, <2>3
<1>1. CASE Get
  <2>1. PICK s \in Samples : MQ!GetSample(s) /\ batch' = Append(batch, s)
    BY <1>1 DEF Get
  <2>2. QueueOK'
    BY <2>1, GetFits DEF TypeInv, TypeOK
  <2>3. batch' \in Seq(Samples) /\ Len(batch') = Len(batch) + 1
    BY <1>0, <2>1
  <2>4. TrainerOK'
    BY <1>0, <1>1, <2>3 DEF Get, TypeInv, TypeOK, TrainerOK
  <2>5. CallsOK' /\ Exclusive'
    BY <1>1, TrainerApart DEF Get, TypeInv, TypeOK, CallsOK, Exclusive, Has, calls
  <2> QED BY <2>2, <2>4, <2>5
<1>2. CASE GetEnd
  <2>1. QueueOK'
    BY <1>2, GetFits DEF GetEnd, TypeInv, TypeOK
  <2>2. TrainerOK'
    BY <1>0, <1>2 DEF GetEnd, TypeInv, TypeOK, TrainerOK
  <2>3. CallsOK' /\ Exclusive'
    BY <1>2, TrainerApart DEF GetEnd, TypeInv, TypeOK, CallsOK, Exclusive, Has, calls
  <2> QED BY <2>1, <2>2, <2>3
<1>3. CASE Train
  <2>1. \A i \in 1..Len(batch) : batch[i] \in Samples
    BY <1>0
  <2>2. trained' \subseteq Samples
    BY <1>3, <2>1 DEF Train, TypeInv, TypeOK, TrainerOK
  <2>3. /\ local' \in 1..Trigger /\ current' \in Nat
        /\ tpc' \in {"collect", "next sync"} /\ batch' = <<>>
    <3>1. CASE local < Trigger
      BY <1>0, <1>3, <3>1 DEF Train
    <3>2. CASE ~(local < Trigger)
      <4>1. local' = 1 /\ current' = current + 1 /\ tpc' = "next sync" /\ batch' = <<>>
        BY <1>3, <3>2 DEF Train
      <4>2. 1 \in 1..Trigger /\ current + 1 \in Nat
        BY <1>0
      <4> QED BY <4>1, <4>2
    <3> QED BY <3>1, <3>2
  <2>4. batch' \in Seq(Samples) /\ Len(batch') <= Required
    <3>1. batch' \in Seq(Samples) /\ Len(batch') = 0
      BY <2>3, EmptySeq
    <3> QED BY <1>0, <3>1
  <2>6. TrainerOK'
    BY <2>2, <2>3, <2>4 DEF TrainerOK
  <2>5. QueueOK' /\ CallsOK' /\ Exclusive'
    BY <1>3 DEF Train, TypeInv, TypeOK, QueueOK, CallsOK, Exclusive, Has,
       rollouter, processor, shared, calls
  <2> QED BY <2>5, <2>6
<1>4. CASE Last
  <2>1. local' \in 1..Trigger /\ current' \in Nat /\ tpc' \in {"last sync", "end"}
    <3>1. 1 \in 1..Trigger /\ current + 1 \in Nat
      BY <1>0
    <3> QED BY <1>0, <1>4, <3>1 DEF Last
  <2>2. TrainerOK'
    BY <1>4, <2>1 DEF Last, TypeInv, TypeOK, TrainerOK
  <2>3. QueueOK' /\ CallsOK' /\ Exclusive'
    BY <1>4 DEF Last, TypeInv, TypeOK, QueueOK, CallsOK, Exclusive, Has,
       rollouter, processor, shared, calls
  <2> QED BY <2>2, <2>3
<1>5. CASE Synchronize
  BY <1>5, TrainerApart DEF Synchronize, TypeInv, TypeOK, QueueOK, CallsOK, TrainerOK,
     Exclusive, Has
<1>6. CASE Load
  BY <1>0, <1>6, TrainerApart DEF Load, TypeInv, TypeOK, QueueOK, CallsOK, TrainerOK,
     Exclusive, Has
<1>7. CASE LastWait
  BY <1>7 DEF LastWait, TypeInv, TypeOK, QueueOK, CallsOK, TrainerOK, Exclusive, Has,
     rollouter, processor, shared, calls
<1> QED BY <1>1, <1>2, <1>3, <1>4, <1>5, <1>6, <1>7 DEF Trainer

-----------------------------------------------------------------------------
(* Types and the lock *)

LEMMA InitTyped == ASSUME TInit PROVE TypeInv
<1>1. /\ Total \in Nat \ {0} /\ Done \in Nat /\ None \notin Samples
      /\ MaxRequired \in Nat /\ Required \in Nat /\ Trigger \in Nat \ {0}
  BY RollouterAssumption, TrainerAssumption DEF Done, None, Samples
<1>2. 0 \in 0..Done /\ 1 \in 1..Trigger
  BY <1>1
<1>3. ProcessorOK
  BY <1>2 DEF TInit, Init, ProcessorOK
<1>4. TasksOK
  BY EmptySeq DEF TInit, Init, TasksOK
<1>5. QueueOK
  <2>1. queue \in Seq(Samples \cup {MQ!End}) /\ Len(queue) = 0
    BY EmptySeq DEF TInit, Init
  <2> QED BY <1>1, <2>1 DEF QueueOK
<1>6. SharedOK /\ CallsOK
  BY EmptySeq DEF TInit, Init, SharedOK, CallsOK
<1>7. TrainerOK
  <2>1. batch \in Seq(Samples) /\ Len(batch) = 0
    BY EmptySeq DEF TInit
  <2> QED BY <1>1, <1>2, <2>1 DEF TInit, TrainerOK
<1>8. Exclusive /\ Holding
  BY DEF TInit, Init, Exclusive, Holding
<1> QED BY <1>3, <1>4, <1>5, <1>6, <1>7, <1>8 DEF TypeInv, TypeOK

LEMMA StepTyped ==
    ASSUME TypeInv, [Next]_vars
    PROVE  TypeInv'
<1>1. ASSUME InRollouter, UNCHANGED trainer
      PROVE  TypeInv'
  <2>1. TrainerOK'
    BY <1>1 DEF TypeInv, TypeOK, TrainerOK, trainer
  <2>2. /\ ProcessorOK' /\ TasksOK' /\ QueueOK' /\ SharedOK' /\ CallsOK'
        /\ Exclusive' /\ Holding'
    <3>1. CASE Processor
      BY <3>1, PauseItselfTyped, PausingTyped, TakeCancelledTyped,
         TurnsToPendingTyped, TakePendingTyped, RoundTyped, CollectTyped, IdleTyped,
         SubmitTyped, WakeTyped, SendEndTyped DEF Processor
    <3>2. CASE Feed
      BY <3>2, FeedTyped
    <3>3. CASE Monitor
      BY <3>3, MonitorWaitsTyped, MonitorResumesTyped, MonitorEndsTyped DEF Monitor
    <3>4. CASE Call
      BY <3>4, CallQueuesTyped, PauseBeginsTyped, PauseEndsTyped, UpdateBeginsTyped,
         UpdateEndsTyped, ResumeTyped DEF Call
    <3>5. CASE \E s \in Samples : Finish(s) \/ Cancelled(s) \/ Fail(s)
      BY <3>5, FinishTyped, CancelledTyped, FailTyped
    <3> QED BY <1>1, <3>1, <3>2, <3>3, <3>4, <3>5 DEF InRollouter
  <2> QED BY <2>1, <2>2 DEF TypeInv, TypeOK
<1>2. CASE Trainer
  BY <1>2, TrainerApart, TrainerTyped DEF TypeInv, TypeOK
<1>3. CASE UNCHANGED vars
  <2>1. UNCHANGED <<processor, fed, tasks, queue, shared, calls, trainer>>
    BY <1>3 DEF vars, rollouter
  <2>2. ProcessorOK' /\ TasksOK' /\ QueueOK'
    BY <2>1 DEF TypeInv, TypeOK, ProcessorOK, TasksOK, QueueOK, processor, tasks
  <2>3. SharedOK' /\ CallsOK' /\ TrainerOK'
    BY <2>1 DEF TypeInv, TypeOK, SharedOK, CallsOK, TrainerOK, shared, calls, trainer
  <2>4. Exclusive' /\ Holding'
    BY <2>1 DEF TypeInv, Exclusive, Holding, Has, processor, shared, calls
  <2> QED BY <2>2, <2>3, <2>4 DEF TypeInv, TypeOK
<1> QED BY <1>1, <1>2, <1>3 DEF Next, Over

THEOREM TypeInvariant == Spec => []TypeInv
<1>1. TInit => TypeInv
  BY InitTyped
<1>2. TypeInv /\ [Next]_vars => TypeInv'
  BY StepTyped
<1> QED BY <1>1, <1>2, PTL DEF Spec

\* Every reachable state is well typed: in particular the message queue never
\* holds more than max_required_samples entries and a batch never more than
\* required_samples.
THEOREM TypeCorrect == Spec => []TypeOK
<1>1. TypeInv => TypeOK
  BY DEF TypeInv
<1> QED BY <1>1, TypeInvariant, PTL

\* However the coroutines interleave, the one that waits inside the lock, with
\* active_tasks half processed or half counted, has it.
THEOREM LockHeld == Spec => []Exclusive
<1>1. TypeInv => Exclusive
  BY DEF TypeInv
<1> QED BY <1>1, TypeInvariant, PTL

-----------------------------------------------------------------------------
(* The samples on their way, and the abstract flow *)

\* A sample under way was taken from the pending queue and is in one place: the
\* hands of the processor, generation or the cancelled samples.
Places ==
    /\ held <= taken
    /\ \A s \in running : s <= taken /\ s # held
    /\ \A i \in 1..Len(cancel) :
          cancel[i] <= taken /\ cancel[i] # held /\ cancel[i] \notin running
    /\ \A i, j \in 1..Len(cancel) : cancel[i] = cancel[j] => i = j

\* Nothing that the flow sees has changed.
Unseen ==
    /\ UNCHANGED <<held, taken, running, cancel, queue, batch, trained>>
    /\ pc' = "sent" <=> pc = "sent"

LEMMA RollingIs == Rolling = ({held} \ {None}) \cup running \cup Flow!Entries(cancel)
BY DEF Rolling, Flow!Entries

LEMMA UnseenStutters ==
    ASSUME Places, Unseen
    PROVE  Places' /\ UNCHANGED Flow!flow
BY DEF Places, Unseen, Flow!flow, Rolling

LEMMA EntriesOfTail ==
    ASSUME NEW S, NEW q \in Seq(S), q # <<>>
    PROVE  /\ Flow!Entries(q) = {Head(q)} \cup Flow!Entries(Tail(q))
           /\ Len(Tail(q)) = Len(q) - 1 /\ Len(q) \in Nat \ {0}
           /\ \A i \in 1..Len(Tail(q)) : Tail(q)[i] = q[i + 1] /\ i + 1 \in 1..Len(q)
           /\ Head(q) = q[1]
<1>1. /\ Len(Tail(q)) = Len(q) - 1 /\ Len(q) \in Nat \ {0} /\ Head(q) = q[1]
      /\ \A i \in 1..Len(Tail(q)) : Tail(q)[i] = q[i + 1] /\ i + 1 \in 1..Len(q)
  OBVIOUS
<1>2. \A i \in 1..Len(q) : i = 1 \/ (i - 1 \in 1..Len(Tail(q)) /\ q[i] = Tail(q)[i - 1])
  BY <1>1
<1>3. 1 \in 1..Len(q)
  BY <1>1
<1>4. Flow!Entries(q) \subseteq {Head(q)} \cup Flow!Entries(Tail(q))
  <2>1. SUFFICES ASSUME NEW i \in 1..Len(q)
                 PROVE  q[i] \in {Head(q)} \cup Flow!Entries(Tail(q))
    BY Zenon DEF Flow!Entries
  <2>2. i = 1 \/ (i - 1 \in 1..Len(Tail(q)) /\ q[i] = Tail(q)[i - 1])
    BY <1>2
  <2>3. CASE i = 1
    BY <1>1, <2>3
  <2>4. CASE i - 1 \in 1..Len(Tail(q)) /\ q[i] = Tail(q)[i - 1]
    BY <2>4, Zenon DEF Flow!Entries
  <2> QED BY <2>2, <2>3, <2>4
<1>5. {Head(q)} \cup Flow!Entries(Tail(q)) \subseteq Flow!Entries(q)
  <2>1. SUFFICES ASSUME NEW i \in 1..Len(Tail(q))
                 PROVE  Tail(q)[i] \in Flow!Entries(q)
    BY <1>1, <1>3, Zenon DEF Flow!Entries
  <2>2. Tail(q)[i] = q[i + 1] /\ i + 1 \in 1..Len(q)
    BY <1>1
  <2> QED BY <2>2, Zenon DEF Flow!Entries
<1> QED BY <1>1, <1>4, <1>5

LEMMA EntriesOfAppend ==
    ASSUME NEW S, NEW q \in Seq(S), NEW x \in S
    PROVE  /\ Flow!Entries(Append(q, x)) = Flow!Entries(q) \cup {x}
           /\ Len(Append(q, x)) = Len(q) + 1 /\ Len(q) \in Nat
           /\ \A i \in 1..Len(q) : Append(q, x)[i] = q[i]
           /\ Append(q, x)[Len(q) + 1] = x
           /\ \A i \in 1..Len(q) + 1 : i \in 1..Len(q) \/ i = Len(q) + 1
<1>1. /\ Len(Append(q, x)) = Len(q) + 1 /\ Len(q) \in Nat
      /\ \A i \in 1..Len(q) : Append(q, x)[i] = q[i]
      /\ Append(q, x)[Len(q) + 1] = x
      /\ \A i \in 1..Len(q) + 1 : i \in 1..Len(q) \/ i = Len(q) + 1
  OBVIOUS
<1>2. Len(q) + 1 \in 1..Len(q) + 1 /\ 1..Len(q) \subseteq 1..Len(q) + 1
  BY <1>1
<1> QED BY <1>1, <1>2 DEF Flow!Entries

LEMMA RoundsOn ==
    ASSUME NEW k \in Loops, NEW n, NEW l, While(k, n, l)
    PROVE  pc' # "sent"
BY DEF While, Asks, Loops

\* The actions of the processor that move no sample.
LEMMA ProcessorUnseen ==
    ASSUME TypeInv, UNCHANGED trainer,
           PauseItself \/ Pausing \/ TurnsToPending \/ Round \/ Collect \/ Idle \/ Wake
    PROVE  Unseen
<1>1. CASE PauseItself \/ TurnsToPending \/ Idle \/ Wake
  BY <1>1 DEF PauseItself, TurnsToPending, Idle, Wake, Asks, Unseen, processor,
     tasks, trainer
<1>2. CASE Pausing
  <2>1. pc = "pausing" /\ pc' # "sent"
    BY <1>2, RoundsOn DEF Pausing, Loops
  <2> QED BY <1>2, <2>1 DEF Pausing, Unseen, tasks, trainer
<1>3. CASE Round \/ Collect
  <2>1. pc \in {"round", "wait"} /\ loop \in Loops
    BY <1>3 DEF Round, Collect, TypeInv, Holding, Loops
  <2>2. pc' # "sent"
    BY <1>3, <2>1, RoundsOn DEF Round, Collect, Raises
  <2> QED BY <1>3, <2>1, <2>2 DEF Round, Collect, Unseen, tasks, trainer
<1> QED BY <1>1, <1>2, <1>3

\* Neither do the feeder, the monitor, the calls of the synchronizer ...
LEMMA CallsUnseen ==
    ASSUME TypeInv, UNCHANGED trainer, Feed \/ Monitor \/ Call
    PROVE  Unseen
<1>1. CASE Feed \/ MonitorWaits \/ MonitorEnds
  BY <1>1 DEF Feed, MonitorWaits, MonitorEnds, Unseen, processor, tasks, trainer
<1>2. CASE MonitorResumes \/ Resume
  BY <1>2 DEF MonitorResumes, Resume, Notify, Unseen, tasks, trainer
<1>3. CASE CallQueues \/ PauseBegins \/ UpdateBegins \/ UpdateEnds
  BY <1>3 DEF CallQueues, PauseBegins, UpdateBegins, UpdateEnds, Unseen, processor,
     tasks, trainer
<1>4. CASE PauseEnds
  BY <1>4 DEF PauseEnds, Unseen, processor, trainer
<1> QED BY <1>1, <1>2, <1>3, <1>4 DEF Monitor, Call

\* ... and the synchronizations of the trainer.
LEMMA TrainerUnseen ==
    ASSUME TypeInv, Last \/ Synchronize \/ Load \/ LastWait
    PROVE  Unseen
<1>1. CASE Last \/ LastWait
  BY <1>1 DEF Last, LastWait, Unseen, rollouter, processor, tasks
<1>2. CASE Synchronize \/ Load
  BY <1>2 DEF Synchronize, Load, Unseen, processor, tasks
<1> QED BY <1>1, <1>2

LEMMA TakePendingFlows ==
    ASSUME TypeInv, Places, TakePending, UNCHANGED trainer
    PROVE  Places' /\ (Flow!Issue \/ UNCHANGED Flow!flow)
<1>1. /\ pc = "get" /\ held = None /\ taken' = taken + 1
      /\ UNCHANGED <<running, cancel, queue, batch, trained>>
  BY DEF TakePending, TypeInv, Holding, tasks, trainer
<1>2. /\ Total \in Nat \ {0} /\ taken \in Nat /\ taken < Done
      /\ running \subseteq Samples /\ cancel \in Seq(Samples)
  BY RollouterAssumption DEF TakePending, TypeInv, TypeOK, ProcessorOK, TasksOK, Done
<1>3. \A i \in 1..Len(cancel) : cancel[i] \in Samples
  BY <1>2
<1>4. CASE taken' = Done
  <2>1. held' = held /\ pc' # "sent"
    BY <1>4, RoundsOn DEF TakePending, Loops
  <2>2. taken = Total /\ taken' = Total + 1
    BY <1>1, <1>2, <1>4 DEF Done
  <2>3. Places'
    BY <1>1, <1>2, <1>3, <2>1 DEF Places, Samples, None
  <2>4. UNCHANGED Flow!flow
    BY <1>1, <1>2, <2>1, <2>2 DEF Flow!flow, Rolling
  <2> QED BY <2>3, <2>4
<1>5. CASE taken' # Done
  <2>1. held' = taken' /\ pc' # "sent"
    BY <1>5, RoundsOn DEF TakePending, Loops
  <2>2. taken < Total /\ taken + 1 <= Total
    BY <1>1, <1>2, <1>5 DEF Done
  <2>3. Places'
    BY <1>1, <1>2, <1>3, <2>1 DEF Places, Samples
  <2>4. Rolling' = Rolling \cup {taken + 1}
    BY <1>1, <1>2, <2>1 DEF Rolling, None
  <2>5. Flow!Issue
    BY <1>1, <1>2, <2>1, <2>2, <2>4 DEF Flow!Issue
  <2> QED BY <2>3, <2>5
<1> QED BY <1>4, <1>5

LEMMA TakeCancelledFlows ==
    ASSUME TypeInv, Places, TakeCancelled, UNCHANGED trainer
    PROVE  Places' /\ UNCHANGED Flow!flow
<1>1. /\ pc = "check" /\ held = None /\ cancel # <<>>
      /\ held' = Head(cancel) /\ cancel' = Tail(cancel)
      /\ UNCHANGED <<taken, running, queue, batch, trained>>
  BY DEF TakeCancelled, TypeInv, Holding, trainer
<1>2. pc' # "sent"
  BY RoundsOn DEF TakeCancelled, Loops
<1>3. cancel \in Seq(Samples) /\ Head(cancel) # None
  <2>1. cancel \in Seq(Samples)
    BY DEF TypeInv, TypeOK, TasksOK
  <2>2. Head(cancel) \in Samples
    BY <1>1, <2>1, TailOf
  <2> QED BY <2>1, <2>2 DEF Samples, None
<1>4. /\ Flow!Entries(cancel) = {Head(cancel)} \cup Flow!Entries(cancel')
      /\ Len(cancel') = Len(cancel) - 1 /\ Len(cancel) \in Nat \ {0}
      /\ \A i \in 1..Len(cancel') :
            cancel'[i] = cancel[i + 1] /\ i + 1 \in 1..Len(cancel)
      /\ Head(cancel) = cancel[1] /\ 1 \in 1..Len(cancel)
  BY <1>1, <1>3, EntriesOfTail
<1>5. Places'
  BY <1>1, <1>4 DEF Places
<1>6. Rolling' = Rolling
  <2>1. Rolling' = ({held'} \ {None}) \cup running' \cup Flow!Entries(cancel')
    BY DEF Rolling, Flow!Entries
  <2> QED BY <1>1, <1>3, <1>4, <2>1, RollingIs
<1> QED BY <1>1, <1>2, <1>5, <1>6 DEF Flow!flow

LEMMA SubmitFlows ==
    ASSUME TypeInv, Places, Submit, UNCHANGED trainer
    PROVE  Places' /\ UNCHANGED Flow!flow
<1>1. /\ pc = "submit" /\ pc' # "sent" /\ held # None /\ held \in Samples
      /\ UNCHANGED <<taken, cancel, queue, batch, trained>>
  BY DEF Submit, TypeInv, TypeOK, ProcessorOK, Holding, trainer
<1>2. CASE paused
  BY <1>1, <1>2, UnseenStutters DEF Submit, Unseen
<1>3. CASE ~paused
  <2>1. running' = running \cup {held} /\ held' = None
    BY <1>3 DEF Submit
  <2>2. taken \in Nat /\ running \subseteq Samples /\ None \notin Samples
        /\ \A i \in 1..Len(cancel) : cancel[i] \in Samples
    <3>1. Done \in Nat
      BY RollouterAssumption DEF Done
    <3>2. taken \in 0..Done /\ running \subseteq Samples /\ cancel \in Seq(Samples)
      BY DEF TypeInv, TypeOK, ProcessorOK, TasksOK
    <3>3. \A i \in 1..Len(cancel) : cancel[i] \in Samples
      BY <3>2
    <3>4. None \notin Samples
      BY DEF None, Samples
    <3> QED BY <3>1, <3>2, <3>3, <3>4
  <2>3. Places'
    BY <1>1, <2>1, <2>2 DEF Places, None
  <2>4. Rolling' = Rolling
    BY <1>1, <2>1 DEF Rolling
  <2> QED BY <1>1, <2>3, <2>4 DEF Flow!flow
<1> QED BY <1>2, <1>3

LEMMA SendEndFlows ==
    ASSUME TypeInv, Places, SendEnd, UNCHANGED trainer
    PROVE  Places' /\ Flow!Close
<1>1. /\ pc = "over" /\ pc' = "sent" /\ MQ!PutSample(MQ!End)
      /\ UNCHANGED <<held, taken, running, cancel, batch, trained>>
  BY DEF SendEnd, tasks, trainer
<1>2. Places'
  BY <1>1 DEF Places
<1>3. queue' = Flow!Bounded(queue, Flow!End)
  BY <1>1 DEF MQ!PutSample, MQ!Full, MQ!End, Flow!Bounded, Flow!End
<1> QED BY <1>1, <1>2, <1>3 DEF Flow!Close, Rolling

LEMMA FinishFlows ==
    ASSUME TypeInv, Places, NEW s \in Samples, Finish(s), UNCHANGED trainer
    PROVE  Places' /\ Flow!HandOver
<1>1. /\ s \in running /\ running' = running \ {s} /\ MQ!PutSample(s)
      /\ UNCHANGED <<pc, held, taken, cancel, batch, trained>>
  BY DEF Finish, processor, trainer
<1>2. Places'
  BY <1>1 DEF Places
<1>3. s \in Rolling /\ Rolling' = Rolling \ {s}
  BY <1>1 DEF Rolling, Places
<1>4. queue' = Flow!Bounded(queue, s)
  BY <1>1 DEF MQ!PutSample, MQ!Full, Flow!Bounded
<1> QED BY <1>1, <1>2, <1>3, <1>4 DEF Flow!HandOver

LEMMA FailFlows ==
    ASSUME TypeInv, Places, NEW s \in Samples, Fail(s), UNCHANGED trainer
    PROVE  Places' /\ Flow!Lose
<1>1. /\ s \in running /\ running' = running \ {s}
      /\ UNCHANGED <<pc, held, taken, cancel, queue, batch, trained>>
  BY DEF Fail, processor, trainer
<1>2. Places'
  BY <1>1 DEF Places
<1>3. s \in Rolling /\ Rolling' = Rolling \ {s}
  BY <1>1 DEF Rolling, Places
<1> QED BY <1>1, <1>2, <1>3 DEF Flow!Lose

LEMMA CancelledFlows ==
    ASSUME TypeInv, Places, NEW s \in Samples, Cancelled(s), UNCHANGED trainer
    PROVE  Places' /\ UNCHANGED Flow!flow
<1>1. /\ s \in running /\ running' = running \ {s} /\ cancel' = Append(cancel, s)
      /\ UNCHANGED <<pc, held, taken, queue, batch, trained>>
  BY DEF Cancelled, processor, trainer
<1>2. cancel \in Seq(Samples)
  BY DEF TypeInv, TypeOK, TasksOK
<1>3. /\ Flow!Entries(cancel') = Flow!Entries(cancel) \cup {s}
      /\ Len(cancel') = Len(cancel) + 1 /\ Len(cancel) \in Nat
      /\ \A i \in 1..Len(cancel) : cancel'[i] = cancel[i]
      /\ cancel'[Len(cancel) + 1] = s
      /\ \A i \in 1..Len(cancel') : i \in 1..Len(cancel) \/ i = Len(cancel) + 1
  BY <1>1, <1>2, EntriesOfAppend
<1>4. s <= taken /\ s # held /\ \A i \in 1..Len(cancel) : cancel[i] # s
  BY <1>1 DEF Places
<1>5. Places'
  <2>1. \A i \in 1..Len(cancel') :
           cancel'[i] <= taken' /\ cancel'[i] # held' /\ cancel'[i] \notin running'
    BY <1>1, <1>3, <1>4 DEF Places
  <2>2. \A i, j \in 1..Len(cancel') : cancel'[i] = cancel'[j] => i = j
    BY <1>3, <1>4 DEF Places
  <2> QED BY <1>1, <2>1, <2>2 DEF Places
<1>6. Rolling' = Rolling
  <2>1. Rolling' = ({held'} \ {None}) \cup running' \cup Flow!Entries(cancel')
    BY DEF Rolling, Flow!Entries
  <2> QED BY <1>1, <1>3, <2>1, RollingIs
<1> QED BY <1>1, <1>5, <1>6 DEF Flow!flow

LEMMA GetFlows ==
    ASSUME TypeInv, Places, Get
    PROVE  Places' /\ Flow!Take
<1>1. PICK s \in Samples : MQ!GetSample(s) /\ batch' = Append(batch, s)
  BY DEF Get
<1>2. /\ UNCHANGED <<pc, held, taken, running, cancel, trained>>
      /\ Len(batch) < Required
  BY DEF Get, processor, tasks
<1>3. /\ queue # <<>> /\ Head(queue) = s /\ queue' = Tail(queue) /\ s # Flow!End
  BY <1>1 DEF MQ!GetSample, Flow!End, Samples
<1>4. Places'
  BY <1>2 DEF Places
<1> QED BY <1>1, <1>2, <1>3, <1>4 DEF Flow!Take, Rolling

LEMMA GetEndFlows ==
    ASSUME TypeInv, Places, GetEnd
    PROVE  Places' /\ Flow!TakeEnd
<1>1. /\ UNCHANGED <<pc, held, taken, running, cancel, trained>>
      /\ Len(batch) < Required /\ batch' = <<>>
  BY DEF GetEnd, processor, tasks
<1>2. /\ queue # <<>> /\ Head(queue) = Flow!End /\ queue' = Tail(queue)
  BY DEF GetEnd, MQ!GetSample, MQ!End, Flow!End
<1>3. Places'
  BY <1>1 DEF Places
<1> QED BY <1>1, <1>2, <1>3 DEF Flow!TakeEnd, Rolling

LEMMA TrainFlows ==
    ASSUME TypeInv, Places, Train
    PROVE  Places' /\ Flow!Train
<1>1. /\ UNCHANGED <<pc, held, taken, running, cancel, queue>>
      /\ Len(batch) = Required /\ batch' = <<>>
      /\ trained' = trained \cup Flow!Entries(batch)
  BY DEF Train, rollouter, processor, tasks, Flow!Entries
<1>2. Places'
  BY <1>1 DEF Places
<1> QED BY <1>1, <1>2 DEF Flow!Train, Rolling

LEMMA StepFlows ==
    ASSUME TypeInv, Places, [Next]_vars
    PROVE  Places' /\ [Flow!Next]_(Flow!flow)
<1>1. ASSUME InRollouter, UNCHANGED trainer
      PROVE  Places' /\ [Flow!Next]_(Flow!flow)
  <2>1. CASE TakePending
    BY <1>1, <2>1, TakePendingFlows DEF Flow!Next
  <2>2. CASE TakeCancelled \/ Submit
    BY <1>1, <2>2, TakeCancelledFlows, SubmitFlows
  <2>3. CASE SendEnd
    BY <1>1, <2>3, SendEndFlows DEF Flow!Next
  <2>4. CASE PauseItself \/ Pausing \/ TurnsToPending \/ Round \/ Collect \/ Idle \/ Wake
    BY <1>1, <2>4, ProcessorUnseen, UnseenStutters
  <2>5. CASE Feed \/ Monitor \/ Call
    BY <1>1, <2>5, CallsUnseen, UnseenStutters
  <2>6. CASE \E s \in Samples : Finish(s) \/ Cancelled(s) \/ Fail(s)
    BY <1>1, <2>6, FinishFlows, CancelledFlows, FailFlows DEF Flow!Next
  <2> QED BY <1>1, <2>1, <2>2, <2>3, <2>4, <2>5, <2>6 DEF InRollouter, Processor
<1>2. CASE Trainer
  <2>1. CASE Get \/ GetEnd \/ Train
    BY <2>1, GetFlows, GetEndFlows, TrainFlows DEF Flow!Next
  <2>2. CASE Last \/ Synchronize \/ Load \/ LastWait
    BY <2>2, TrainerUnseen, UnseenStutters
  <2> QED BY <1>2, <2>1, <2>2 DEF Trainer
<1>3. CASE UNCHANGED vars
  <2>1. Unseen
    BY <1>3 DEF vars, rollouter, trainer, processor, tasks, Unseen
  <2> QED BY <2>1, UnseenStutters
<1> QED BY <1>1, <1>2, <1>3 DEF Next, Over

LEMMA InitFlows == ASSUME TInit PROVE Places /\ Flow!Init
<1>1. Total \in Nat \ {0}
  BY RollouterAssumption
<1>2. Len(cancel) = 0
  BY EmptySeq DEF TInit, Init
<1>3. Places
  BY <1>2 DEF TInit, Init, Places, None
<1>4. Rolling = {}
  BY <1>2 DEF TInit, Init, Rolling
<1> QED BY <1>1, <1>3, <1>4 DEF TInit, Init, Flow!Init

\* Whatever the coroutines do, the samples follow the abstract flow.
THEOREM Implements == Spec => FlowSpec
<1>1. TInit => Places /\ Flow!Init
  BY InitFlows
<1>2. TypeInv /\ Places /\ [Next]_vars => Places' /\ [Flow!Next]_(Flow!flow)
  BY StepFlows
<1> QED BY <1>1, <1>2, TypeInvariant, PTL DEF Spec, FlowSpec, Flow!Spec

\* No sample is handed to the trainer twice, or trained on twice: this is proved
\* of the abstract flow and inherited.
THEOREM TrainedOnce == Spec => []Once
<1>1. Flow!FlowAssumption
  BY RollouterAssumption, TrainerAssumption DEF Flow!FlowAssumption
<1>2. Flow!Spec => []Flow!Once
  BY <1>1, Flow!FlowOnce
<1> QED BY <1>2, Implements, PTL DEF FlowSpec, Once

-----------------------------------------------------------------------------
(* Freshness control *)

\* Samples a parameter version is trained on.
PerVersion == Required * Trigger

\* Samples taken from the queue for the version in the making, and since v.
Turn == (local - 1) * Required + Len(batch)
Since(v) == (current - v) * PerVersion + Turn

\* Samples among the first i entries of a queue, which has one end.
Ahead(q, i) == IF \E e \in 1..i : q[e] = MQ!End THEN i - 1 ELSE i

OneEnd(q) == \A i, j \in 1..Len(q) : q[i] = MQ!End /\ q[j] = MQ!End => i = j

\* Samples between the pending queue and the trainer.
InHand == IF held = None THEN 0 ELSE 1
Rollouts == Cardinality(running) + Len(cancel)
UnderWay == Rollouts + InHand + Ahead(queue, Len(queue))

\* Those, and the ones taken since the version the rollouter stamps.
Burden == UnderWay + Since(version)
Capacity == PerVersion + MaxRequired + 1

\* Until the trainer takes the end.
Collecting == tpc \in {"collect", "next sync", "syncing"}

\* How far the versions of the trainer, the servers and the rollouter are apart.
Versions ==
    /\ sync = "update" => weights = version + 1
    /\ sync # "update" => weights = version
    /\ tpc = "collect" => current = weights
    /\ tpc # "collect" => current = weights + 1 /\ local = 1 /\ batch = <<>>
    /\ tpc = "syncing" <=> sync \in {"pause", "pausing", "load"}

Ended ==
    /\ \A i \in 1..Len(queue) : queue[i] = MQ!End => pc = "sent"
    /\ OneEnd(queue)

\* What is counted while the lock is held is what is there.
Counted == sync = "updating" => counted >= Rollouts

\* staleness_samples bounds the samples under way, but for the one that the
\* processor held at the last count, and for what the trainer took since the
\* weights of that count.
Limits ==
    /\ Burden <= stale + PerVersion + 1
    /\ pc = "get" => Burden < Capacity
    /\ Burden <= Capacity

\* So what a sample still has to wait is bounded by its version.
Dated ==
    /\ \A i \in 1..Len(queue) :
          queue[i] # MQ!End => Since(stamp[queue[i]]) + Ahead(queue, i) <= Capacity
    /\ \A i \in 1..Len(batch) :
          (current - stamp[batch[i]]) * PerVersion + (local - 1) * Required + i
             <= Capacity

FreshInv ==
    /\ Ended /\ Counted
    /\ Collecting => Versions /\ Limits /\ Dated
    /\ ~Collecting => batch = <<>>

LEMMA Rates ==
    /\ Required \in Nat \ {0} /\ Trigger \in Nat \ {0} /\ MaxRequired \in Nat \ {0}
    /\ PerVersion \in Nat \ {0} /\ Capacity \in Nat
    /\ \A l \in 1..Trigger : (l - 1) * Required + Required <= PerVersion
    /\ (Trigger - 1) * Required + Required = PerVersion
    /\ \A l \in Int : (l + 1 - 1) * Required = (l - 1) * Required + Required
    /\ \A l \in Int : (l - 1) * Required \in Int
    /\ \A d \in Int : d * PerVersion \in Int
    /\ \A c, v \in Int : (c + 1 - v) * PerVersion = (c - v) * PerVersion + PerVersion
<1>1. /\ Required \in Nat \ {0} /\ Trigger \in Nat \ {0} /\ MaxRequired \in Nat \ {0}
  BY RollouterAssumption, TrainerAssumption
<1>2. PerVersion \in Nat \ {0}
  BY <1>1 DEF PerVersion
<1>3. ASSUME NEW l \in 1..Trigger
      PROVE  (l - 1) * Required + Required <= PerVersion
  <2>1. (l - 1) * Required + Required = l * Required /\ l * Required \in Int
    BY <1>1
  <2>2. PerVersion - l * Required = Required * (Trigger - l)
    BY <1>1 DEF PerVersion
  <2>3. Required * (Trigger - l) >= 0
    BY <1>1
  <2> QED BY <1>2, <2>1, <2>2, <2>3
<1>4. (Trigger - 1) * Required + Required = PerVersion
  BY <1>1 DEF PerVersion
<1>5. \A l \in Int : (l + 1 - 1) * Required = (l - 1) * Required + Required
  BY <1>1
<1>6. \A c, v \in Int : (c + 1 - v) * PerVersion = (c - v) * PerVersion + PerVersion
  BY <1>2
<1>7. /\ \A l \in Int : (l - 1) * Required \in Int
      /\ \A d \in Int : d * PerVersion \in Int
  BY <1>1, <1>2
<1> QED BY <1>1, <1>2, <1>3, <1>4, <1>5, <1>6, <1>7 DEF Capacity

LEMMA AheadType ==
    ASSUME NEW q, NEW i \in Nat
    PROVE  Ahead(q, i) \in 0..i
BY DEF Ahead

LEMMA AheadOfTail ==
    ASSUME NEW S, NEW q \in Seq(S), q # <<>>, OneEnd(q)
    PROVE  /\ OneEnd(Tail(q))
           /\ \A i \in 0..Len(q) - 1 :
                 /\ Ahead(Tail(q), i) <= Ahead(q, i + 1)
                 /\ Head(q) # MQ!End => Ahead(Tail(q), i) = Ahead(q, i + 1) - 1
<1> DEFINE t == Tail(q)
<1>1. /\ Len(t) = Len(q) - 1 /\ Len(q) \in Nat \ {0} /\ Head(q) = q[1]
      /\ \A i \in 1..Len(t) : t[i] = q[i + 1] /\ i + 1 \in 1..Len(q)
  OBVIOUS
<1> HIDE DEF t
<1>2. OneEnd(t)
  BY <1>1 DEF OneEnd
<1>3. ASSUME NEW i \in 0..Len(q) - 1
      PROVE  /\ Ahead(t, i) <= Ahead(q, i + 1)
             /\ Head(q) # MQ!End => Ahead(t, i) = Ahead(q, i + 1) - 1
  <2>1. CASE q[1] = MQ!End
    <3>1. \A e \in 1..i : t[e] # MQ!End
      BY <1>1, <2>1 DEF OneEnd
    <3>2. Ahead(t, i) = i
      BY <3>1 DEF Ahead
    <3>3. Ahead(q, i + 1) = i
      BY <1>1, <2>1 DEF Ahead
    <3> QED BY <1>1, <2>1, <3>2, <3>3
  <2>2. CASE q[1] # MQ!End
    <3>1. (\E e \in 1..i : t[e] = MQ!End) <=> (\E e \in 1..(i + 1) : q[e] = MQ!End)
      <4>1. ASSUME NEW e \in 1..i, t[e] = MQ!End
            PROVE  \E f \in 1..(i + 1) : q[f] = MQ!End
        <5>1. e + 1 \in 1..(i + 1) /\ q[e + 1] = MQ!End
          BY <1>1, <4>1
        <5> QED BY <5>1
      <4>2. ASSUME NEW e \in 1..(i + 1), q[e] = MQ!End
            PROVE  \E f \in 1..i : t[f] = MQ!End
        <5>1. e # 1
          BY <2>2, <4>2
        <5>2. e - 1 \in 1..i /\ t[e - 1] = q[(e - 1) + 1] /\ (e - 1) + 1 = e
          BY <1>1, <5>1
        <5> QED BY <4>2, <5>2
      <4> QED BY <4>1, <4>2
    <3>2. Ahead(t, i) = Ahead(q, i + 1) - 1
      BY <3>1 DEF Ahead
    <3>3. Ahead(t, i) \in Int /\ Ahead(q, i + 1) \in Int
      BY DEF Ahead
    <3> QED BY <1>1, <2>2, <3>2, <3>3
  <2> QED BY <2>1, <2>2
<1> QED BY <1>2, <1>3 DEF t

LEMMA AheadOfAppend ==
    ASSUME NEW S, NEW q \in Seq(S), NEW x \in S, OneEnd(q),
           x = MQ!End => \A i \in 1..Len(q) : q[i] # MQ!End
    PROVE  /\ OneEnd(Append(q, x))
           /\ \A i \in 0..Len(q) : Ahead(Append(q, x), i) = Ahead(q, i)
           /\ Ahead(Append(q, x), Len(q) + 1)
                 = IF x = MQ!End THEN Ahead(q, Len(q)) ELSE Ahead(q, Len(q)) + 1
<1> DEFINE a == Append(q, x)
<1>1. /\ Len(a) = Len(q) + 1 /\ Len(q) \in Nat /\ a[Len(q) + 1] = x
      /\ \A i \in 1..Len(q) : a[i] = q[i]
      /\ \A i \in 1..Len(q) + 1 : i \in 1..Len(q) \/ i = Len(q) + 1
  BY EntriesOfAppend
<1> HIDE DEF a
<1>2. OneEnd(a)
  BY <1>1 DEF OneEnd
<1>3. ASSUME NEW i \in 0..Len(q)
      PROVE  Ahead(a, i) = Ahead(q, i)
  BY <1>1 DEF Ahead
<1>4. CASE x = MQ!End
  <2>1. Len(q) + 1 \in 1..(Len(q) + 1)
    BY <1>1
  <2>2. Ahead(a, Len(q) + 1) = Len(q)
    BY <1>1, <1>4, <2>1 DEF Ahead
  <2>3. Ahead(q, Len(q)) = Len(q)
    BY <1>4 DEF Ahead
  <2> QED BY <1>2, <1>3, <1>4, <2>2, <2>3 DEF a
<1>5. CASE x # MQ!End
  <2>1. (\E e \in 1..(Len(q) + 1) : a[e] = MQ!End)
           <=> (\E e \in 1..Len(q) : q[e] = MQ!End)
    BY <1>1, <1>5
  <2>2. Ahead(a, Len(q) + 1) = Ahead(q, Len(q)) + 1
    BY <1>1, <2>1 DEF Ahead
  <2> QED BY <1>2, <1>3, <1>5, <2>2 DEF a
<1> QED BY <1>4, <1>5

\* Putting an entry moves nobody back.
LEMMA PutAhead ==
    ASSUME QueueOK, Ended, NEW x \in Samples \cup {MQ!End}, MQ!PutSample(x),
           x = MQ!End => \A i \in 1..Len(queue) : queue[i] # MQ!End
    PROVE  /\ OneEnd(queue')
           /\ Ahead(queue', Len(queue'))
                 <= Ahead(queue, Len(queue)) + (IF x = MQ!End THEN 0 ELSE 1)
           /\ \A i \in 1..Len(queue') :
                 \/ i = Len(queue') /\ queue'[i] = x
                 \/ \E j \in 1..Len(queue) :
                       queue'[i] = queue[j] /\ Ahead(queue', i) <= Ahead(queue, j)
<1> DEFINE S == Samples \cup {MQ!End}
           kept == IF MQ!Full THEN Tail(queue) ELSE queue
<1>1. queue \in Seq(S) /\ OneEnd(queue) /\ Len(queue) \in Nat
  BY DEF QueueOK, Ended
<1>2. /\ kept \in Seq(S) /\ OneEnd(kept) /\ Len(kept) \in Nat
      /\ Ahead(kept, Len(kept)) <= Ahead(queue, Len(queue))
      /\ \A i \in 1..Len(kept) : \E j \in 1..Len(queue) :
            kept[i] = queue[j] /\ Ahead(kept, i) <= Ahead(queue, j)
  <2>1. CASE MQ!Full
    <3>1. queue # <<>>
      BY <2>1, RollouterAssumption DEF MQ!Full
    <3>2. /\ kept = Tail(queue) /\ kept \in Seq(S) /\ Len(kept) = Len(queue) - 1
          /\ \A i \in 1..Len(kept) : kept[i] = queue[i + 1] /\ i + 1 \in 1..Len(queue)
      BY <1>1, <2>1, <3>1, EntriesOfTail
    <3>3. /\ OneEnd(kept)
          /\ \A i \in 0..Len(queue) - 1 : Ahead(kept, i) <= Ahead(queue, i + 1)
      BY <1>1, <3>1, <3>2, AheadOfTail
    <3>4. Len(kept) \in 0..Len(queue) - 1
      BY <3>2, LenProperties
    <3> HIDE DEF kept, S
    <3>5. Ahead(kept, Len(kept)) <= Ahead(queue, Len(queue))
      BY <1>1, <3>2, <3>3, <3>4
    <3>6. ASSUME NEW i \in 1..Len(kept)
          PROVE  \E j \in 1..Len(queue) :
                    kept[i] = queue[j] /\ Ahead(kept, i) <= Ahead(queue, j)
      <4>1. i \in 0..Len(queue) - 1
        BY <1>1, <3>2
      <4> QED BY <3>2, <3>3, <4>1
    <3> QED BY <3>2, <3>3, <3>4, <3>5, <3>6
  <2>2. CASE ~MQ!Full
    <3>1. kept = queue
      BY <2>2
    <3>2. \A i \in 0..Len(queue) : Ahead(queue, i) \in Int
      BY <1>1, AheadType
    <3> HIDE DEF kept, S
    <3> QED BY <1>1, <3>1, <3>2
  <2> QED BY <2>1, <2>2
<1>3. queue' = Append(kept, x)
  BY DEF MQ!PutSample
<1>4. x = MQ!End => \A i \in 1..Len(kept) : kept[i] # MQ!End
  BY <1>2
<1> HIDE DEF kept
<1>5. /\ OneEnd(queue')
      /\ \A i \in 0..Len(kept) : Ahead(queue', i) = Ahead(kept, i)
      /\ Ahead(queue', Len(kept) + 1)
            = IF x = MQ!End THEN Ahead(kept, Len(kept)) ELSE Ahead(kept, Len(kept)) + 1
  BY <1>2, <1>3, <1>4, AheadOfAppend
<1>6. /\ Len(queue') = Len(kept) + 1 /\ queue'[Len(kept) + 1] = x
      /\ \A i \in 1..Len(kept) : queue'[i] = kept[i]
      /\ \A i \in 1..Len(queue') : i \in 1..Len(kept) \/ i = Len(queue')
  BY <1>2, <1>3, EntriesOfAppend
<1>7. Ahead(kept, Len(kept)) \in Int /\ Ahead(queue, Len(queue)) \in Int
  BY <1>1, <1>2, AheadType
<1>8. Ahead(queue', Len(queue'))
         <= Ahead(queue, Len(queue)) + (IF x = MQ!End THEN 0 ELSE 1)
  BY <1>2, <1>5, <1>6, <1>7
<1>9. ASSUME NEW i \in 1..Len(queue')
      PROVE  \/ i = Len(queue') /\ queue'[i] = x
             \/ \E j \in 1..Len(queue) :
                   queue'[i] = queue[j] /\ Ahead(queue', i) <= Ahead(queue, j)
  <2>1. CASE i \in 1..Len(kept)
    <3>1. i \in 0..Len(kept)
      BY <1>2, <2>1
    <3> QED BY <1>2, <1>5, <1>6, <2>1, <3>1
  <2>2. CASE i = Len(queue')
    BY <1>6, <2>2
  <2> QED BY <1>6, <2>1, <2>2
<1> QED BY <1>5, <1>8, <1>9

LEMMA GetAhead ==
    ASSUME QueueOK, Ended, NEW x, MQ!GetSample(x)
    PROVE  /\ OneEnd(queue') /\ Len(queue) \in Nat \ {0} /\ x = queue[1]
           /\ Len(queue') = Len(queue) - 1
           /\ \A i \in 1..Len(queue') : queue'[i] = queue[i + 1] /\ i + 1 \in 1..Len(queue)
           /\ x # MQ!End =>
                 \A i \in 0..Len(queue) - 1 : Ahead(queue', i) = Ahead(queue, i + 1) - 1
<1>1. /\ queue \in Seq(Samples \cup {MQ!End}) /\ queue # <<>> /\ OneEnd(queue)
      /\ x = Head(queue) /\ queue' = Tail(queue)
  BY DEF QueueOK, Ended, MQ!GetSample
<1> QED BY <1>1, AheadOfTail, EntriesOfTail

\* The numbers involved, and the versions of the samples.
Amounts ==
    /\ Rollouts \in Nat /\ InHand \in 0..1 /\ UnderWay \in Int
    /\ Len(queue) \in Nat /\ Ahead(queue, Len(queue)) \in Nat
    /\ Turn \in Int /\ Turn <= PerVersion /\ Burden \in Int
    /\ stale \in Nat /\ counted \in Nat
    /\ version \in Nat /\ weights \in Nat /\ current \in Nat

Stamps ==
    /\ \A i \in 1..Len(queue) :
          queue[i] # MQ!End => queue[i] \in Samples /\ stamp[queue[i]] \in Nat
    /\ \A i \in 1..Len(queue) : Ahead(queue, i) \in Int
    /\ \A i \in 1..Len(batch) : batch[i] \in Samples /\ stamp[batch[i]] \in Nat
    /\ \A v \in Nat : Since(v) \in Int /\ (current - v) * PerVersion \in Int
    /\ Len(batch) \in Nat /\ Len(batch) <= Required
    /\ local \in 1..Trigger /\ (local - 1) * Required \in Int

LEMMA Running ==
    ASSUME TypeInv
    PROVE  /\ IsFiniteSet(running) /\ Cardinality(running) \in Nat
           /\ Len(cancel) \in Nat
<1>1. IsFiniteSet(Samples)
  BY RollouterAssumption, FS_Interval DEF Samples
<1>2. IsFiniteSet(running)
  BY <1>1, FS_Subset DEF TypeInv, TypeOK, TasksOK
<1>3. Len(cancel) \in Nat
  BY DEF TypeInv, TypeOK, TasksOK
<1> QED BY <1>2, <1>3, FS_CardinalityType

LEMMA FreshTypes == TypeInv => Amounts /\ Stamps
<1> SUFFICES ASSUME TypeInv PROVE Amounts /\ Stamps
  OBVIOUS
<1>2. InHand \in 0..1
  BY DEF InHand
<1>3. Rollouts \in Nat
  BY Running DEF Rollouts
<1>4. /\ queue \in Seq(Samples \cup {MQ!End}) /\ Len(queue) \in Nat
      /\ batch \in Seq(Samples) /\ Len(batch) \in Nat /\ Len(batch) <= Required
      /\ stamp \in [Samples -> Nat]
  <2>1. /\ queue \in Seq(Samples \cup {MQ!End}) /\ batch \in Seq(Samples)
        /\ Len(batch) <= Required /\ stamp \in [Samples -> Nat]
    BY DEF TypeInv, TypeOK, QueueOK, TrainerOK, TasksOK
  <2> QED BY <2>1
<1>5. /\ \A i \in 1..Len(queue) :
            queue[i] # MQ!End => queue[i] \in Samples /\ stamp[queue[i]] \in Nat
      /\ \A i \in 1..Len(batch) : batch[i] \in Samples /\ stamp[batch[i]] \in Nat
  BY <1>4
<1>6. /\ Ahead(queue, Len(queue)) \in Nat /\ Ahead(queue, Len(queue)) <= Len(queue)
      /\ \A i \in 1..Len(queue) : Ahead(queue, i) \in Int
  BY <1>4, AheadType
<1>7. /\ local \in 1..Trigger /\ current \in Nat /\ stale \in Nat /\ counted \in Nat
      /\ version \in Nat /\ weights \in Nat
  BY DEF TypeInv, TypeOK, TrainerOK, SharedOK, CallsOK
<1>8. /\ (local - 1) * Required \in Int
      /\ (local - 1) * Required + Required <= PerVersion
  BY <1>7, Rates
<1>9. Turn \in Int /\ Turn <= PerVersion
  BY <1>4, <1>8, Rates DEF Turn
<1>10. \A v \in Nat : Since(v) \in Int /\ (current - v) * PerVersion \in Int
  BY <1>7, <1>9, Rates DEF Since
<1>11. UnderWay \in Int
  BY <1>2, <1>3, <1>6 DEF UnderWay
<1>12. Burden \in Int
  BY <1>7, <1>10, <1>11 DEF Burden
<1>13. Amounts
  BY <1>2, <1>3, <1>4, <1>6, <1>7, <1>9, <1>11, <1>12 DEF Amounts
<1>14. Stamps
  BY <1>4, <1>5, <1>6, <1>7, <1>8, <1>10 DEF Stamps
<1> QED BY <1>13, <1>14

LEMMA FreshTypesNext == TypeInv' => Amounts' /\ Stamps'
BY FreshTypes, PTL

\* The parts that do not see a step.
LEMMA SameEnded ==
    ASSUME Ended, UNCHANGED queue, pc = "sent" => pc' = "sent"
    PROVE  Ended'
BY DEF Ended, OneEnd

LEMMA SameDated ==
    ASSUME Dated, UNCHANGED <<queue, batch, local, current, stamp>>
    PROVE  Dated'
BY DEF Dated, Since, Turn

LEMMA SameVersions ==
    ASSUME UNCHANGED <<sync, weights, version, trainer>>
    PROVE  /\ Versions' <=> Versions
           /\ Collecting' <=> Collecting
           /\ UNCHANGED <<batch, local, current>>
BY DEF trainer, Versions, Collecting

\* A step that brings no sample keeps the limits.
LEMMA NoMore ==
    ASSUME TypeInv, TypeInv', Limits, UNCHANGED <<stale, version, current, Turn>>,
           UnderWay' <= UnderWay, pc' = "get" => pc = "get" \/ Burden < Capacity
    PROVE  Limits'
<1>0. Since(version)' = Since(version) /\ Since(version) \in Int
  BY FreshTypes DEF Since, Amounts, Stamps
<1>1. Burden' <= Burden
  BY <1>0, FreshTypes, FreshTypesNext, SMTT(30) DEF Burden, Amounts
<1>2. Burden \in Int /\ Burden' \in Int /\ stale \in Nat
  BY FreshTypes, FreshTypesNext DEF Amounts
<1> QED BY <1>1, <1>2, Rates DEF Limits

\* What most steps of the rollouter have in common.
LEMMA Aside ==
    ASSUME TypeInv, TypeInv', FreshInv, UnderWay' <= UnderWay,
           UNCHANGED <<queue, stamp, stale, version, batch, local, current>>,
           Collecting' <=> Collecting, pc = "sent" => pc' = "sent",
           Collecting /\ pc' = "get" => pc = "get" \/ Burden < Capacity,
           Counted', Collecting => Versions'
    PROVE  FreshInv'
<1>1. Ended'
  BY SameEnded DEF FreshInv
<1>2. UNCHANGED Turn
  BY DEF Turn
<1>4. CASE Collecting
  BY <1>1, <1>2, <1>4, NoMore, SameDated DEF FreshInv
<1>5. CASE ~Collecting
  BY <1>1, <1>2, <1>5 DEF FreshInv
<1> QED BY <1>4, <1>5

\* ... when the synchronization and the counts are not touched.
LEMMA Unmoved ==
    ASSUME TypeInv, TypeInv', FreshInv,
           UNCHANGED <<running, cancel, held, queue, stamp, stale, calls, trainer>>,
           pc = "sent" => pc' = "sent",
           Collecting /\ pc' = "get" => pc = "get" \/ Burden < Capacity
    PROVE  FreshInv'
<1>1. UNCHANGED <<Rollouts, InHand, sync, counted, weights, version>>
  BY DEF Rollouts, InHand, calls
<1>2. Counted'
  BY <1>1 DEF FreshInv, Counted
<1>3. UnderWay' = UnderWay /\ UnderWay \in Int
  BY <1>1, FreshTypes DEF UnderWay, Amounts
<1>4. /\ Versions' <=> Versions
      /\ Collecting' <=> Collecting
      /\ UNCHANGED <<batch, local, current>>
  BY <1>1, SameVersions
<1> QED BY <1>1, <1>2, <1>3, <1>4, Aside DEF FreshInv

LEMMA NotInGet ==
    ASSUME NEW k \in Loops, NEW n, NEW l, While(k, n, l)
    PROVE  pc' # "get"
BY DEF While, Asks, Loops

LEMMA ProcessorFresh ==
    ASSUME TypeInv, TypeInv', FreshInv, UNCHANGED trainer,
           PauseItself \/ Pausing \/ TurnsToPending \/ Round \/ Collect \/ Idle \/ Wake
    PROVE  FreshInv'
<1>1. /\ UNCHANGED <<running, cancel, held, queue, stamp, stale, calls>>
      /\ pc # "sent"
  BY DEF PauseItself, Pausing, TurnsToPending, Round, Collect, Idle, Wake, tasks,
     shared
<1>2. CASE PauseItself \/ Idle \/ Wake
  <2>1. pc' # "get"
    BY <1>2 DEF PauseItself, Idle, Wake, Asks
  <2> QED BY <1>1, <2>1, Unmoved
<1>3. CASE Pausing \/ Round \/ Collect
  <2>1. pc \in {"round", "wait"} => loop \in Loops
    BY DEF TypeInv, Holding, Loops
  <2>2. "drain" \in Loops
    BY DEF Loops
  <2>3. pc' # "get"
    BY <1>3, <2>1, <2>2, NotInGet DEF Pausing, Round, Collect, Raises
  <2> QED BY <1>1, <2>3, Unmoved
<1>4. CASE TurnsToPending
  <2>1. stale < MaxRequired
    BY <1>4, FreshTypes, RollouterAssumption DEF TurnsToPending, ShouldPause, Amounts
  <2>2. Collecting => Burden < Capacity
    BY <2>1, FreshTypes, Rates DEF FreshInv, Limits, Capacity, Amounts
  <2> QED BY <1>1, <2>2, Unmoved
<1> QED BY <1>2, <1>3, <1>4

LEMMA TakeCancelledFresh ==
    ASSUME TypeInv, TypeInv', FreshInv, UNCHANGED trainer, TakeCancelled
    PROVE  FreshInv'
<1>1. /\ held = None /\ cancel # <<>> /\ cancel' = Tail(cancel) /\ pc = "check"
      /\ UNCHANGED <<running, queue, stamp, stale, calls>>
  BY DEF TakeCancelled, TypeInv, Holding
<1>2. pc' # "get"
  BY NotInGet DEF TakeCancelled, Loops
<1>3. Len(cancel') = Len(cancel) - 1
  <2>1. cancel \in Seq(Samples)
    BY DEF TypeInv, TypeOK, TasksOK
  <2> QED BY <1>1, <2>1, TailOf
<1>4. Rollouts' = Rollouts - 1 /\ InHand = 0
  BY <1>1, <1>3, Running DEF Rollouts, InHand
<1>5. UnderWay' <= UnderWay
  BY <1>1, <1>4, FreshTypes DEF Amounts, UnderWay, InHand
<1>6. UNCHANGED <<sync, counted, weights, version>>
  BY <1>1 DEF calls
<1>7. Counted'
  BY <1>4, <1>6, FreshTypes DEF FreshInv, Counted, Amounts
<1>8. /\ Versions' <=> Versions
      /\ Collecting' <=> Collecting
      /\ UNCHANGED <<batch, local, current>>
  BY <1>6, SameVersions
<1> QED BY <1>1, <1>2, <1>5, <1>6, <1>7, <1>8, Aside DEF FreshInv

\* One more under way, one fewer in hand.
LEMMA OneMoved ==
    ASSUME NEW f \in Nat, NEW g \in Nat, g <= f + 1, NEW c \in Nat, NEW w \in Nat
    PROVE  g + c + 0 + w <= f + c + 1 + w
OBVIOUS

LEMMA SubmitFresh ==
    ASSUME TypeInv, TypeInv', FreshInv, UNCHANGED trainer, Submit
    PROVE  FreshInv'
<1>1. /\ pc = "submit" /\ pc' # "get" /\ held # None /\ Has("processor")
      /\ UNCHANGED <<cancel, queue, stamp, stale, calls>>
  BY DEF Submit, TypeInv, Holding
<1>2. CASE paused
  <2>1. UNCHANGED <<held, running>>
    BY <1>2 DEF Submit
  <2> QED BY <1>1, <2>1, Unmoved
<1>3. CASE ~paused
  <2>1. running' = running \cup {held} /\ held' = None
    BY <1>3 DEF Submit
  <2>2. /\ Cardinality(running') \in Nat
        /\ Cardinality(running') <= Cardinality(running) + 1
    <3>1. IsFiniteSet(running) /\ Cardinality(running) \in Nat
      BY Running
    <3>2. \/ Cardinality(running') = Cardinality(running)
          \/ Cardinality(running') = Cardinality(running) + 1
      BY <2>1, <3>1, FS_AddElement
    <3> QED BY <3>1, <3>2
  <2>3. UnderWay' <= UnderWay
    <3>1. InHand = 1 /\ InHand' = 0
      BY <1>1, <2>1 DEF InHand
    <3> DEFINE flying == Cardinality(running)
               cancelled == Len(cancel)
               waiting == Ahead(queue, Len(queue))
    <3>2. cancelled' = cancelled /\ waiting' = waiting
      BY <1>1
    <3>3. flying \in Nat /\ flying' \in Nat /\ cancelled \in Nat /\ waiting \in Nat
      BY <2>2, Running, FreshTypes DEF Amounts
    <3>4. /\ UnderWay = flying + cancelled + InHand + waiting
          /\ UnderWay' = flying' + cancelled' + InHand' + waiting'
      BY DEF UnderWay, Rollouts
    <3>5. flying' <= flying + 1
      BY <2>2
    <3> HIDE DEF flying, cancelled, waiting
    <3>6. flying' + cancelled + 0 + waiting <= flying + cancelled + 1 + waiting
      BY <3>3, <3>5, OneMoved
    <3>7. /\ UnderWay = flying + cancelled + 1 + waiting
          /\ UnderWay' = flying' + cancelled + 0 + waiting
      BY <3>1, <3>2, <3>4
    <3> QED BY <3>6, <3>7
  <2>4. UNCHANGED <<sync, counted, weights, version>>
    BY <1>1 DEF calls
  <2>5. sync # "updating"
    BY <1>1 DEF TypeInv, Exclusive, Has
  <2>6. Counted'
    BY <2>4, <2>5 DEF Counted
  <2>7. /\ Versions' <=> Versions
        /\ Collecting' <=> Collecting
        /\ UNCHANGED <<batch, local, current>>
    BY <2>4, SameVersions
  <2> QED BY <1>1, <2>3, <2>4, <2>6, <2>7, Aside DEF FreshInv
<1> QED BY <1>2, <1>3

LEMMA TakePendingFresh ==
    ASSUME TypeInv, TypeInv', FreshInv, UNCHANGED trainer, TakePending
    PROVE  FreshInv'
<1>1. /\ pc = "get" /\ held = None /\ stale' = stale + 1
      /\ UNCHANGED <<running, cancel, queue, stamp, calls>>
  BY DEF TakePending, TypeInv, Holding, tasks
<1>2. pc' # "get"
  BY NotInGet DEF TakePending, Loops
<1>3. UNCHANGED <<Rollouts, sync, counted, weights, version, batch, local, current>>
  BY <1>1 DEF Rollouts, calls, trainer
<1>4. Ended' /\ Counted'
  BY <1>1, <1>3, SameEnded DEF FreshInv, Counted
<1>5. (Versions' <=> Versions) /\ (Collecting' <=> Collecting)
  BY <1>3, SameVersions
<1>6. CASE Collecting
  <2>1. UNCHANGED Turn
    BY <1>3 DEF Turn
  <2>2. /\ Since(version)' = Since(version) /\ Since(version) \in Int
        /\ Ahead(queue, Len(queue))' = Ahead(queue, Len(queue))
    BY <1>1, <1>3, <2>1, FreshTypes DEF Since, Amounts, Stamps
  <2>3. InHand = 0 /\ InHand' \in 0..1
    BY <1>1 DEF InHand
  <2>4. Rollouts \in Nat /\ Ahead(queue, Len(queue)) \in Nat /\ stale \in Nat
    BY FreshTypes DEF Amounts
  <2>5. Burden' <= Burden + 1 /\ Burden \in Int /\ Burden' \in Int
    BY <1>3, <2>2, <2>3, <2>4 DEF Burden, UnderWay
  <2>6. Limits'
    BY <1>1, <1>2, <1>6, <2>4, <2>5, Rates DEF FreshInv, Limits
  <2>7. Dated'
    BY <1>1, <1>3, <1>6, SameDated DEF FreshInv
  <2> QED BY <1>4, <1>5, <1>6, <2>6, <2>7 DEF FreshInv
<1>7. CASE ~Collecting
  BY <1>3, <1>4, <1>5, <1>7 DEF FreshInv
<1> QED BY <1>6, <1>7

LEMMA SendEndFresh ==
    ASSUME TypeInv, TypeInv', FreshInv, UNCHANGED trainer, SendEnd
    PROVE  FreshInv'
<1>1. /\ pc = "over" /\ pc' = "sent" /\ MQ!PutSample(MQ!End)
      /\ UNCHANGED <<running, cancel, held, stamp, stale, calls>>
  BY DEF SendEnd, tasks, shared
<1>2. /\ OneEnd(queue')
      /\ Ahead(queue', Len(queue')) <= Ahead(queue, Len(queue))
      /\ \A i \in 1..Len(queue') : queue'[i] # MQ!End =>
            \E j \in 1..Len(queue) :
               queue'[i] = queue[j] /\ Ahead(queue', i) <= Ahead(queue, j)
  <2>1. QueueOK /\ Ended /\ \A i \in 1..Len(queue) : queue[i] # MQ!End
    BY <1>1 DEF TypeInv, TypeOK, FreshInv, Ended
  <2>2. MQ!End \in Samples \cup {MQ!End}
    OBVIOUS
  <2>3. Ahead(queue, Len(queue)) + 0 = Ahead(queue, Len(queue))
    BY FreshTypes DEF Amounts
  <2> QED BY <1>1, <2>1, <2>2, <2>3, PutAhead
<1>3. UNCHANGED <<Rollouts, InHand, sync, counted, weights, version>>
  BY <1>1 DEF Rollouts, InHand, calls
<1>4. Ended' /\ Counted'
  BY <1>1, <1>2, <1>3 DEF FreshInv, Ended, Counted
<1>5. /\ Versions' <=> Versions
      /\ Collecting' <=> Collecting
      /\ UNCHANGED <<batch, local, current>>
  BY <1>3, SameVersions
<1>6. CASE Collecting
  <2>1. UNCHANGED Turn /\ \A v : Since(v)' = Since(v)
    BY <1>5 DEF Turn, Since
  <2>2. UnderWay' <= UnderWay
    <3>1. Ahead(queue', Len(queue')) \in Nat
      BY FreshTypesNext DEF Amounts
    <3>2. /\ Rollouts \in Nat /\ InHand \in 0..1 /\ Ahead(queue, Len(queue)) \in Nat
      BY FreshTypes DEF Amounts
    <3> QED BY <1>2, <1>3, <3>1, <3>2 DEF UnderWay
  <2>3. Limits'
    BY <1>1, <1>3, <1>5, <1>6, <2>1, <2>2, NoMore DEF FreshInv
  <2>4. Dated'
    <3>1. ASSUME NEW i \in 1..Len(queue'), queue'[i] # MQ!End
          PROVE  Since(stamp[queue'[i]]) + Ahead(queue', i) <= Capacity
      <4>1. PICK j \in 1..Len(queue) :
               queue'[i] = queue[j] /\ Ahead(queue', i) <= Ahead(queue, j)
        BY <1>2, <3>1
      <4>2. /\ Since(stamp[queue[j]]) + Ahead(queue, j) <= Capacity
            /\ Since(stamp[queue[j]]) \in Int /\ Ahead(queue, j) \in Int
        BY <1>6, <3>1, <4>1, FreshTypes DEF FreshInv, Dated, Stamps
      <4>3. Ahead(queue', i) \in Int /\ Capacity \in Int
        BY <3>1, FreshTypesNext, Rates DEF Stamps
      <4>4. Since(stamp[queue'[i]]) = Since(stamp[queue[j]])
        BY <4>1
      <4> QED BY <4>1, <4>2, <4>3, <4>4
    <3> QED BY <1>1, <1>5, <1>6, <2>1, <3>1 DEF FreshInv, Dated
  <2> QED BY <1>4, <1>5, <1>6, <2>3, <2>4 DEF FreshInv
<1>7. CASE ~Collecting
  BY <1>4, <1>5, <1>7 DEF FreshInv
<1> QED BY <1>6, <1>7

LEMMA AroundFresh ==
    ASSUME TypeInv, TypeInv', FreshInv, UNCHANGED trainer, Feed \/ Monitor \/ CallQueues
    PROVE  FreshInv'
<1>1. CASE Feed \/ MonitorWaits \/ MonitorEnds \/ CallQueues
  <2>1. UNCHANGED <<pc, running, cancel, held, queue, stamp, stale, calls>>
    BY <1>1 DEF Feed, MonitorWaits, MonitorEnds, CallQueues, processor, tasks, shared
  <2> QED BY <2>1, Unmoved
<1>2. CASE MonitorResumes
  <2>1. /\ UNCHANGED <<running, cancel, held, queue, stamp, stale, calls>>
        /\ pc = "sent" => pc' = "sent"
        /\ pc' = "get" => pc = "get"
    BY <1>2 DEF MonitorResumes, Notify, tasks
  <2> QED BY <2>1, Unmoved
<1> QED BY <1>1, <1>2 DEF Monitor

LEMMA PausesFresh ==
    ASSUME TypeInv, TypeInv', FreshInv, UNCHANGED trainer,
           PauseBegins \/ PauseEnds \/ Resume
    PROVE  FreshInv'
<1>1. /\ UNCHANGED <<running, cancel, held, queue, stamp, stale, version, weights>>
      /\ pc = "sent" => pc' = "sent"
      /\ pc' = "get" => pc = "get"
      /\ \/ sync = "pause" /\ sync' = "pausing"
         \/ sync = "pausing" /\ sync' = "load"
         \/ sync = "resume" /\ sync' = "none"
  BY DEF PauseBegins, PauseEnds, Resume, Notify, processor, tasks
<1>2. /\ UNCHANGED <<tpc, batch, local, current>>
      /\ Collecting' <=> Collecting
  BY DEF trainer, Collecting
<1>3. Counted'
  BY <1>1 DEF Counted
<1>4. Collecting => Versions'
  BY <1>1, <1>2 DEF FreshInv, Versions
<1>5. UnderWay' = UnderWay /\ UnderWay \in Int
  BY <1>1, FreshTypes DEF UnderWay, Rollouts, InHand, Amounts
<1> QED BY <1>1, <1>2, <1>3, <1>4, <1>5, Aside

\* The rollouter stamps the new version: less has been taken since.
LEMMA UpdateBeginsFresh ==
    ASSUME TypeInv, TypeInv', FreshInv, UNCHANGED trainer, UpdateBegins
    PROVE  FreshInv'
<1>1. /\ sync = "update" /\ sync' = "updating" /\ version' = weights
      /\ counted' = Active + Len(cancel)
      /\ UNCHANGED <<pc, running, cancel, held, queue, stamp, stale, weights>>
  BY DEF UpdateBegins, processor, tasks, shared
<1>2. /\ UNCHANGED <<tpc, batch, local, current, Turn, Rollouts, UnderWay>>
      /\ Collecting' <=> Collecting
  BY <1>1 DEF trainer, Collecting, Turn, Rollouts, UnderWay, InHand
<1>3. Counted'
  <2>1. finished \in Nat
    BY DEF TypeInv, TypeOK, TasksOK
  <2> QED BY <1>1, <1>2, <2>1, Running DEF Counted, Active, Rollouts
<1>4. Ended'
  BY <1>1, SameEnded DEF FreshInv
<1>5. CASE Collecting
  <2>1. weights = version + 1 /\ Versions'
    BY <1>1, <1>2, <1>5 DEF FreshInv, Versions
  <2>2. /\ current \in Int /\ version \in Int /\ weights \in Int /\ Turn \in Int
        /\ UnderWay \in Int /\ stale \in Int /\ Burden \in Int
    BY FreshTypes DEF Amounts
  <2>3. (current + 1 - weights) * PerVersion
           = (current - weights) * PerVersion + PerVersion
    BY <2>2, Rates
  <2>4. current + 1 - weights = current - version
    BY <2>1, <2>2
  <2>5. (current - weights) * PerVersion \in Int
    BY <2>2, Rates
  <2>6. Since(weights) = Since(version) - PerVersion /\ Since(version) \in Int
    BY <2>2, <2>3, <2>4, <2>5, Rates DEF Since
  <2>7. Burden' = Burden - PerVersion
    BY <1>1, <1>2, <2>2, <2>6, Rates DEF Burden, Since
  <2>8. Limits'
    BY <1>1, <1>2, <1>5, <2>2, <2>7, Rates DEF FreshInv, Limits
  <2>9. Dated'
    BY <1>1, <1>2, <1>5, SameDated DEF FreshInv
  <2> QED BY <1>2, <1>3, <1>4, <1>5, <2>1, <2>8, <2>9 DEF FreshInv
<1>6. CASE ~Collecting
  BY <1>2, <1>3, <1>4, <1>6 DEF FreshInv
<1> QED BY <1>5, <1>6

\* The new count is short of the sample the processor holds, and of what the
\* trainer has taken since it has the weights of the version.
LEMMA UpdateEndsFresh ==
    ASSUME TypeInv, TypeInv', FreshInv, UNCHANGED trainer, UpdateEnds
    PROVE  FreshInv'
<1>1. /\ sync = "updating" /\ sync' = "resume" /\ stale' = counted + Len(queue)
      /\ UNCHANGED <<pc, running, cancel, held, queue, stamp, version, weights>>
  BY DEF UpdateEnds, processor, tasks
<1>2. /\ UNCHANGED <<tpc, batch, local, current, Turn, Rollouts, UnderWay>>
      /\ Collecting' <=> Collecting
  BY <1>1 DEF trainer, Collecting, Turn, Rollouts, UnderWay, InHand
<1>3. Counted' /\ Ended'
  BY <1>1, SameEnded DEF FreshInv, Counted
<1>4. CASE Collecting
  <2>1. Versions'
    BY <1>1, <1>2, <1>4 DEF FreshInv, Versions
  <2>2. Since(version) <= PerVersion /\ Since(version) \in Int
    <3>1. /\ weights = version
          /\ \/ current = version
             \/ current = version + 1 /\ local = 1 /\ batch = <<>>
      BY <1>1, <1>4 DEF FreshInv, Versions
    <3>2. CASE current = version
      <4>1. (current - version) * PerVersion = 0
        BY <3>2, FreshTypes, Rates DEF Amounts
      <4> QED BY <4>1, FreshTypes DEF Since, Amounts
    <3>3. CASE current = version + 1 /\ local = 1 /\ batch = <<>>
      <4>1. (current - version) * PerVersion = PerVersion
        BY <3>3, FreshTypes, Rates DEF Amounts
      <4>2. Turn = 0
        BY <3>3, Rates DEF Turn
      <4> QED BY <4>1, <4>2, Rates DEF Since
    <3> QED BY <3>1, <3>2, <3>3
  <2>3. /\ Rollouts <= counted /\ InHand <= 1 /\ Ahead(queue, Len(queue)) <= Len(queue)
    BY <1>1, FreshTypes, AheadType DEF FreshInv, Counted, Amounts
  <2>4. /\ Rollouts \in Nat /\ InHand \in Int /\ Ahead(queue, Len(queue)) \in Nat
        /\ Len(queue) \in Nat /\ counted \in Nat /\ Burden \in Int
    BY FreshTypes DEF Amounts
  <2>5. Burden <= counted + Len(queue) + PerVersion + 1
    BY <2>2, <2>3, <2>4, Rates DEF Burden, UnderWay
  <2>6. Burden' = Burden
    BY <1>1, <1>2 DEF Burden, Since
  <2>7. Limits'
    BY <1>1, <1>4, <2>5, <2>6 DEF FreshInv, Limits
  <2>8. Dated'
    BY <1>1, <1>2, <1>4, SameDated DEF FreshInv
  <2> QED BY <1>2, <1>3, <1>4, <2>1, <2>7, <2>8 DEF FreshInv
<1>5. CASE ~Collecting
  BY <1>2, <1>3, <1>5 DEF FreshInv
<1> QED BY <1>4, <1>5

LEMMA OneLess ==
    ASSUME TypeInv, NEW s \in running, running' = running \ {s}
    PROVE  /\ Cardinality(running') \in Nat
           /\ Cardinality(running') = Cardinality(running) - 1
<1>1. IsFiniteSet(running) /\ Cardinality(running) \in Nat
  BY Running
<1>2. Cardinality(running') = Cardinality(running) - 1
  BY <1>1, FS_RemoveElement
<1>3. IsFiniteSet(running')
  BY <1>1, FS_Subset
<1> QED BY <1>2, <1>3, FS_CardinalityType

LEMMA StoppedFresh ==
    ASSUME TypeInv, TypeInv', FreshInv, UNCHANGED trainer,
           NEW s \in Samples, Cancelled(s) \/ Fail(s)
    PROVE  FreshInv'
<1>1. /\ s \in running /\ running' = running \ {s}
      /\ cancel' = cancel \/ cancel' = Append(cancel, s)
      /\ UNCHANGED <<pc, held, queue, stamp, stale, sync, counted, weights, version>>
  BY DEF Cancelled, Fail, processor, shared, calls
<1>2. Len(cancel') \in Nat /\ Len(cancel) \in Nat /\ Len(cancel') <= Len(cancel) + 1
  <2>1. cancel \in Seq(Samples)
    BY DEF TypeInv, TypeOK, TasksOK
  <2> QED BY <1>1, <2>1
<1>3. Rollouts' <= Rollouts /\ Rollouts \in Nat /\ Rollouts' \in Nat
  <2>1. /\ Cardinality(running') \in Nat
        /\ Cardinality(running') = Cardinality(running) - 1
    BY <1>1, OneLess
  <2>2. Cardinality(running) \in Nat
    BY Running
  <2> QED BY <1>2, <2>1, <2>2 DEF Rollouts
<1>4. UnderWay' <= UnderWay
  BY <1>1, <1>3, FreshTypes, SMTT(30) DEF UnderWay, InHand, Amounts
<1>5. Counted'
  BY <1>1, <1>3, FreshTypes DEF FreshInv, Counted, Amounts
<1>6. /\ Versions' <=> Versions
      /\ Collecting' <=> Collecting
      /\ UNCHANGED <<batch, local, current>>
  BY <1>1, SameVersions
<1> QED BY <1>1, <1>4, <1>5, <1>6, Aside DEF FreshInv

\* A sample that is done: it is one of those under way, so that the limits say
\* how many are ahead of it.
LEMMA FinishFresh ==
    ASSUME TypeInv, TypeInv', Once, FreshInv, UNCHANGED trainer,
           NEW s \in Samples, Finish(s)
    PROVE  FreshInv'
<1>1. /\ s \in running /\ running' = running \ {s} /\ MQ!PutSample(s)
      /\ stamp' = [stamp EXCEPT ![s] = version]
      /\ UNCHANGED <<pc, held, cancel, stale, sync, counted, weights, version>>
  BY DEF Finish, processor, shared, calls
<1>2. s # MQ!End
  BY DEF Samples, MQ!End
<1>3. /\ OneEnd(queue')
      /\ Ahead(queue', Len(queue')) <= Ahead(queue, Len(queue)) + 1
      /\ \A i \in 1..Len(queue') :
            \/ i = Len(queue') /\ queue'[i] = s
            \/ \E j \in 1..Len(queue) :
                  queue'[i] = queue[j] /\ Ahead(queue', i) <= Ahead(queue, j)
  BY <1>1, <1>2, PutAhead DEF TypeInv, TypeOK, FreshInv
<1>4. Ended'
  BY <1>1, <1>2, <1>3 DEF FreshInv, Ended
<1>5. /\ stamp \in [Samples -> Nat] /\ stamp'[s] = version
      /\ \A x \in Samples : x # s => stamp'[x] = stamp[x]
  <2>1. stamp \in [Samples -> Nat]
    BY DEF TypeInv, TypeOK, TasksOK
  <2> QED BY <1>1, <2>1
<1>6. /\ \A i \in 1..Len(queue) : queue[i] # s
      /\ \A i \in 1..Len(batch) : batch[i] # s
  <2>1. s \in Rolling
    BY <1>1 DEF Rolling
  <2> QED BY <2>1 DEF Once, Flow!Once, Flow!Separate, Flow!Entries
<1>7. /\ Versions' <=> Versions
      /\ Collecting' <=> Collecting
      /\ UNCHANGED <<batch, local, current>>
  BY <1>1, SameVersions
<1>8. Rollouts' = Rollouts - 1 /\ Rollouts \in Nat /\ Rollouts - 1 \in Nat
  <2>1. /\ Cardinality(running') \in Nat
        /\ Cardinality(running') = Cardinality(running) - 1
    BY <1>1, OneLess
  <2>2. Cardinality(running) \in Nat /\ Len(cancel) \in Nat
    BY Running
  <2> QED BY <1>1, <2>1, <2>2 DEF Rollouts
<1>9. Counted'
  BY <1>1, <1>8, FreshTypes DEF FreshInv, Counted, Amounts
<1>10. Ahead(queue', Len(queue')) \in Nat
  BY FreshTypesNext DEF Amounts
<1>11. UnderWay' <= UnderWay /\ Ahead(queue', Len(queue')) <= UnderWay'
  <2>1. InHand \in Nat /\ Ahead(queue, Len(queue)) \in Nat /\ InHand' = InHand
    BY <1>1, FreshTypes DEF Amounts, InHand
  <2> QED BY <1>3, <1>8, <1>10, <2>1 DEF UnderWay
<1>12. CASE Collecting
  <2>1. UNCHANGED Turn /\ \A v : Since(v)' = Since(v)
    BY <1>7 DEF Turn, Since
  <2>2. Limits'
    BY <1>1, <1>7, <1>11, <1>12, <2>1, NoMore DEF FreshInv
  <2>3. ASSUME NEW i \in 1..Len(queue'), queue'[i] # MQ!End
        PROVE  Since(stamp'[queue'[i]]) + Ahead(queue', i) <= Capacity
    <3>1. CASE i = Len(queue') /\ queue'[i] = s
      <4>1. Since(stamp'[queue'[i]]) = Since(version)
        BY <1>5, <3>1
      <4>2. Since(version) \in Int /\ UnderWay' \in Int /\ Capacity \in Int
        <5>1. version \in Nat
          BY FreshTypes DEF Amounts
        <5>2. Since(version) \in Int
          BY <5>1, FreshTypes DEF Stamps
        <5>3. UnderWay' \in Int
          BY FreshTypesNext DEF Amounts
        <5> QED BY <5>2, <5>3, Rates
      <4>3. UnderWay' + Since(version) <= Capacity
        BY <1>1, <2>1, <2>2 DEF Limits, Burden
      <4> QED BY <1>10, <1>11, <3>1, <4>1, <4>2, <4>3
    <3>2. CASE \E j \in 1..Len(queue) :
                  queue'[i] = queue[j] /\ Ahead(queue', i) <= Ahead(queue, j)
      <4>1. PICK j \in 1..Len(queue) :
               queue'[i] = queue[j] /\ Ahead(queue', i) <= Ahead(queue, j)
        BY <3>2
      <4>2. queue[j] \in Samples
        BY <2>3, <4>1, FreshTypes DEF Stamps
      <4>3. Since(stamp'[queue'[i]]) = Since(stamp[queue[j]])
        BY <1>5, <1>6, <4>1, <4>2
      <4>4. /\ Since(stamp[queue[j]]) + Ahead(queue, j) <= Capacity
            /\ Since(stamp[queue[j]]) \in Int /\ Ahead(queue, j) \in Int
        BY <1>12, <2>3, <4>1, FreshTypes DEF FreshInv, Dated, Stamps
      <4>5. Ahead(queue', i) \in Int /\ Capacity \in Int
        BY <2>3, FreshTypesNext, Rates DEF Stamps
      <4> QED BY <4>1, <4>3, <4>4, <4>5
    <3> QED BY <1>3, <3>1, <3>2
  <2>4. \A i \in 1..Len(batch) : stamp'[batch[i]] = stamp[batch[i]]
    BY <1>5, <1>6, FreshTypes DEF Stamps
  <2>5. Dated'
    BY <1>7, <1>12, <2>1, <2>3, <2>4 DEF FreshInv, Dated
  <2> QED BY <1>4, <1>7, <1>9, <1>12, <2>2, <2>5 DEF FreshInv
<1>13. CASE ~Collecting
  BY <1>4, <1>7, <1>9, <1>13 DEF FreshInv
<1> QED BY <1>12, <1>13

LEMMA InRollouterFresh ==
    ASSUME TypeInv, TypeInv', Once, FreshInv, InRollouter, UNCHANGED trainer
    PROVE  FreshInv'
<1>1. CASE Processor
  BY <1>1, ProcessorFresh, TakeCancelledFresh, SubmitFresh, TakePendingFresh,
     SendEndFresh DEF Processor
<1>2. CASE Feed \/ Monitor \/ Call
  BY <1>2, AroundFresh, PausesFresh, UpdateBeginsFresh, UpdateEndsFresh DEF Call
<1>3. CASE \E s \in Samples : Finish(s) \/ Cancelled(s) \/ Fail(s)
  BY <1>3, FinishFresh, StoppedFresh
<1> QED BY <1>1, <1>2, <1>3 DEF InRollouter

-----------------------------------------------------------------------------
(* Freshness, the trainer *)

\* A sample moves from the queue to the batch: one less to wait for, one more
\* taken.
LEMMA GetFresh ==
    ASSUME TypeInv, TypeInv', FreshInv, Get
    PROVE  FreshInv'
<1>1. PICK s \in Samples : MQ!GetSample(s) /\ batch' = Append(batch, s)
  BY DEF Get
<1>2. /\ tpc = "collect"
      /\ UNCHANGED <<pc, running, cancel, held, stamp, stale, sync, counted, weights,
                     version, tpc, local, current>>
  BY DEF Get, processor, tasks, shared, calls
<1>3. s # MQ!End
  BY DEF Samples, MQ!End
<1>4. /\ OneEnd(queue') /\ Len(queue) \in Nat \ {0} /\ s = queue[1]
      /\ Len(queue') = Len(queue) - 1
      /\ \A i \in 1..Len(queue') : queue'[i] = queue[i + 1] /\ i + 1 \in 1..Len(queue)
      /\ \A i \in 0..Len(queue) - 1 : Ahead(queue', i) = Ahead(queue, i + 1) - 1
  BY <1>1, <1>3, GetAhead DEF TypeInv, TypeOK, FreshInv
<1>5. /\ Len(batch') = Len(batch) + 1 /\ Len(batch) \in Nat
      /\ \A i \in 1..Len(batch) : batch'[i] = batch[i]
      /\ batch'[Len(batch) + 1] = s
      /\ \A i \in 1..Len(batch') : i \in 1..Len(batch) \/ i = Len(batch) + 1
  <2>1. batch \in Seq(Samples)
    BY DEF TypeInv, TypeOK, TrainerOK
  <2> QED BY <1>1, <2>1, EntriesOfAppend
<1>6. Ended' /\ Counted'
  BY <1>2, <1>4 DEF FreshInv, Ended, Counted, Rollouts
<1>7. Collecting /\ Collecting' /\ Versions'
  BY <1>2 DEF FreshInv, Collecting, Versions
<1>8. Turn' = Turn + 1 /\ Turn \in Int
  BY <1>2, <1>5, FreshTypes DEF Turn, Stamps, Amounts
<1>9. \A v \in Nat : Since(v)' = Since(v) + 1 /\ Since(v) \in Int
  <2>1. SUFFICES ASSUME NEW v \in Nat
                 PROVE  Since(v)' = Since(v) + 1 /\ Since(v) \in Int
    OBVIOUS
  <2>2. (current - v) * PerVersion \in Int /\ Since(v) \in Int
    BY FreshTypes DEF Stamps
  <2>3. Since(v)' = (current - v) * PerVersion + Turn'
    BY <1>2 DEF Since
  <2> QED BY <1>8, <2>2, <2>3 DEF Since
<1>10. Limits'
  <2>1. Len(queue') \in 0..Len(queue) - 1 /\ Len(queue') + 1 = Len(queue)
    BY <1>4
  <2>2. Ahead(queue', Len(queue')) = Ahead(queue, Len(queue)) - 1
    BY <1>4, <2>1
  <2>3. UnderWay' = UnderWay - 1 /\ UnderWay \in Int
    BY <1>2, <2>2, FreshTypes, SMTT(30) DEF UnderWay, Rollouts, InHand, Amounts
  <2>4. Since(version)' = Since(version) + 1 /\ Since(version) \in Int
    <3>1. version \in Nat
      BY FreshTypes DEF Amounts
    <3> DEFINE past == (current - version) * PerVersion
    <3>2. past \in Int /\ Turn \in Int /\ Turn' = Turn + 1
      BY <1>8, <3>1, FreshTypes DEF Stamps
    <3>3. past' = past
      BY <1>2
    <3>4. Since(version) = past + Turn /\ Since(version)' = past' + Turn'
      BY DEF Since
    <3> HIDE DEF past
    <3> QED BY <3>2, <3>3, <3>4
  <2>5. Burden' = Burden
    BY <1>2, <2>3, <2>4 DEF Burden
  <2> QED BY <1>2, <1>7, <2>5 DEF FreshInv, Limits
<1>11. Dated'
  <2>1. ASSUME NEW i \in 1..Len(queue'), queue'[i] # MQ!End
        PROVE  Since(stamp[queue[i]])' + Ahead(queue', i) <= Capacity
    <3>1. /\ i + 1 \in 1..Len(queue) /\ i \in 0..Len(queue) - 1
          /\ queue'[i] = queue[i + 1]
      BY <1>4, <2>1
    <3>2. /\ Since(stamp[queue[i + 1]]) + Ahead(queue, i + 1) <= Capacity
          /\ stamp[queue[i + 1]] \in Nat /\ Ahead(queue, i + 1) \in Int
      BY <1>7, <2>1, <3>1, FreshTypes DEF FreshInv, Dated, Stamps
    <3>3. Ahead(queue', i) = Ahead(queue, i + 1) - 1
      BY <1>4, <3>1
    <3>4. Since(stamp[queue[i]])' = Since(stamp[queue[i + 1]]) + 1
      <4>1. Since(stamp[queue[i]])' = (current - stamp[queue[i + 1]]) * PerVersion + Turn'
        BY <1>2, <3>1 DEF Since
      <4>2. (current - stamp[queue[i + 1]]) * PerVersion \in Int
        BY <3>2, FreshTypes DEF Stamps
      <4> QED BY <1>8, <4>1, <4>2, SMTT(30) DEF Since
    <3>5. Since(stamp[queue[i + 1]]) \in Int
      BY <1>9, <3>2
    <3>6. Capacity \in Int
      BY Rates
    <3> QED BY <3>2, <3>3, <3>4, <3>5, <3>6
  <2>2. ASSUME NEW i \in 1..Len(batch')
        PROVE  (current - stamp[batch'[i]]) * PerVersion + (local - 1) * Required + i
                  <= Capacity
    <3>1. CASE i \in 1..Len(batch)
      BY <1>5, <1>7, <3>1 DEF FreshInv, Dated
    <3>2. CASE i = Len(batch) + 1
      <4>1. /\ 1 \in 1..Len(queue) /\ queue[1] # MQ!End /\ queue[1] = s /\ batch'[i] = s
        BY <1>3, <1>4, <1>5, <3>2
      <4>2. Since(stamp[s]) + Ahead(queue, 1) <= Capacity /\ stamp[s] \in Nat
        BY <1>7, <4>1, FreshTypes DEF FreshInv, Dated, Stamps
      <4>3. Ahead(queue, 1) = 1
        BY <1>3, <4>1 DEF Ahead
      <4>4. /\ (current - stamp[s]) * PerVersion \in Int
            /\ (local - 1) * Required \in Int /\ Len(batch) \in Nat
        BY <4>2, FreshTypes DEF Stamps
      <4>5. Since(stamp[s]) + 1
               = (current - stamp[s]) * PerVersion + (local - 1) * Required + i
        BY <3>2, <4>4 DEF Since, Turn
      <4> QED BY <4>1, <4>2, <4>3, <4>5
    <3> QED BY <1>5, <2>2, <3>1, <3>2
  <2> QED BY <1>2, <2>1, <2>2 DEF Dated
<1> QED BY <1>6, <1>7, <1>10, <1>11 DEF FreshInv

\* A batch is complete: what was taken is taken, in this version or the next.
LEMMA TrainFresh ==
    ASSUME TypeInv, TypeInv', FreshInv, Train
    PROVE  FreshInv'
<1>1. /\ tpc = "collect" /\ Len(batch) = Required /\ batch' = <<>>
      /\ UNCHANGED <<pc, running, cancel, held, queue, stamp, stale, sync, counted,
                     weights, version>>
  BY DEF Train, rollouter, processor, tasks, shared, calls
<1>2. Ended' /\ Counted'
  BY <1>1, SameEnded DEF FreshInv, Counted, Rollouts
<1>3. /\ Collecting /\ current \in Nat /\ version \in Nat /\ local \in 1..Trigger
      /\ (local - 1) * Required \in Int
  BY <1>1, FreshTypes DEF Collecting, Amounts, Stamps
<1>4. Turn = (local - 1) * Required + Required
  BY <1>1 DEF Turn
<1>5. Collecting' /\ Versions' /\ \A v \in Nat : Since(v)' = Since(v)
  <2>1. CASE local < Trigger
    <3>1. local' = local + 1 /\ UNCHANGED <<tpc, current>>
      BY <2>1 DEF Train
    <3>2. Turn' = (local + 1 - 1) * Required
      BY <1>1, <1>3, <3>1, Rates DEF Turn
    <3>3. Turn' = Turn
      BY <1>3, <1>4, <3>2, Rates
    <3>4. \A v \in Nat : Since(v)' = Since(v)
      BY <3>1, <3>3 DEF Since
    <3>5. Collecting' /\ Versions'
      BY <1>1, <1>3, <3>1 DEF FreshInv, Collecting, Versions
    <3> QED BY <3>4, <3>5
  <2>2. CASE ~(local < Trigger)
    <3>1. local' = 1 /\ current' = current + 1 /\ tpc' = "next sync"
      BY <2>2 DEF Train
    <3>2. Turn' = 0
      <4>1. Turn' = (1 - 1) * Required + Len(batch')
        BY <3>1 DEF Turn
      <4>2. (1 - 1) * Required = 0 /\ Len(batch') = 0
        BY <1>1, Rates
      <4> QED BY <4>1, <4>2
    <3>3. local = Trigger
      BY <1>3, <2>2, Rates
    <3>4. Turn = PerVersion
      BY <1>4, <3>3, Rates
    <3>5. ASSUME NEW v \in Nat
          PROVE  Since(v)' = Since(v)
      <4>1. (current + 1 - v) * PerVersion = (current - v) * PerVersion + PerVersion
        BY <1>3, Rates
      <4>2. (current - v) * PerVersion \in Int /\ PerVersion \in Int
        BY <1>3, Rates
      <4>3. Since(v)' = (current + 1 - v) * PerVersion + Turn'
        <5>1. Since(v)' = (current' - v) * PerVersion + Turn'
          BY DEF Since
        <5>2. current' - v = current + 1 - v
          <6>1. current \in Nat
            BY <1>3
          <6>2. current' = current + 1
            BY <3>1
          <6> QED BY <6>1, <6>2
        <5> QED BY <5>1, <5>2
      <4> QED BY <3>2, <3>4, <4>1, <4>2, <4>3 DEF Since
    <3>6. Collecting' /\ Versions'
      BY <1>1, <1>3, <3>1 DEF FreshInv, Collecting, Versions
    <3> QED BY <3>5, <3>6
  <2> QED BY <2>1, <2>2
<1>6. Limits'
  <2>1. Burden' = Burden
    BY <1>1, <1>3, <1>5 DEF Burden, UnderWay, Rollouts, InHand
  <2> QED BY <1>1, <1>3, <2>1 DEF FreshInv, Limits
<1>7. Dated'
  <2>1. Len(batch') = 0
    BY <1>1
  <2>2. ASSUME NEW i \in 1..Len(queue), queue[i] # MQ!End
        PROVE  Since(stamp[queue[i]])' + Ahead(queue, i) <= Capacity
    <3>1. Since(stamp[queue[i]]) + Ahead(queue, i) <= Capacity /\ stamp[queue[i]] \in Nat
      BY <1>3, <2>2, FreshTypes DEF FreshInv, Dated, Stamps
    <3>2. Since(stamp[queue[i]])' = Since(stamp[queue[i]])
      BY <1>1, <1>5, <3>1
    <3> QED BY <3>1, <3>2
  <2> QED BY <1>1, <2>1, <2>2 DEF Dated
<1> QED BY <1>2, <1>5, <1>6, <1>7 DEF FreshInv

\* The synchronizations, and the end.
LEMMA SyncFresh ==
    ASSUME TypeInv, TypeInv', FreshInv, Synchronize \/ Load
    PROVE  FreshInv'
<1>1. UNCHANGED <<pc, running, cancel, held, queue, stamp, stale, version, batch, local,
                  current, counted>>
  BY DEF Synchronize, Load, processor, tasks, shared
<1>2. sync' # "updating" /\ Counted'
  BY DEF Synchronize, Load, Counted
<1>3. UnderWay' = UnderWay /\ UnderWay \in Int
  BY <1>1, FreshTypes DEF UnderWay, Rollouts, InHand, Amounts
<1>4. CASE Collecting
  <2>1. Versions' /\ Collecting'
    <3>1. CASE Synchronize
      BY <1>4, <3>1 DEF Synchronize, FreshInv, Collecting, Versions
    <3>2. CASE Load
      BY <1>4, <3>2 DEF Load, FreshInv, Collecting, Versions
    <3> QED BY <3>1, <3>2
  <2> QED BY <1>1, <1>2, <1>3, <1>4, <2>1, Aside
<1>5. CASE ~Collecting
  <2>1. ~Collecting'
    BY <1>5 DEF Synchronize, Load, Collecting
  <2> QED BY <1>1, <1>2, <1>3, <1>5, <2>1, Aside
<1> QED BY <1>4, <1>5

LEMMA EndsFresh ==
    ASSUME TypeInv, TypeInv', FreshInv, GetEnd \/ Last \/ LastWait
    PROVE  FreshInv'
<1>1. /\ ~Collecting' /\ batch' = <<>>
      /\ UNCHANGED <<pc, running, cancel, sync, counted>>
  <2>1. CASE GetEnd
    BY <2>1 DEF GetEnd, Collecting, processor, tasks, calls
  <2>2. CASE Last \/ LastWait
    BY <2>2 DEF Last, LastWait, FreshInv, Collecting, rollouter, processor, tasks, calls
  <2> QED BY <2>1, <2>2
<1>2. Counted'
  BY <1>1 DEF FreshInv, Counted, Rollouts
<1>3. Ended'
  <2>1. CASE GetEnd
    <3>1. /\ OneEnd(queue')
          /\ \A i \in 1..Len(queue') : queue'[i] = queue[i + 1] /\ i + 1 \in 1..Len(queue)
      BY <2>1, GetAhead DEF GetEnd, TypeInv, TypeOK, FreshInv
    <3> QED BY <1>1, <3>1 DEF FreshInv, Ended
  <2>2. CASE Last \/ LastWait
    BY <1>1, <2>2, SameEnded DEF Last, LastWait, FreshInv, rollouter
  <2> QED BY <2>1, <2>2
<1> QED BY <1>1, <1>2, <1>3 DEF FreshInv

LEMMA StepFresh ==
    ASSUME TypeInv, TypeInv', Once, FreshInv, [Next]_vars
    PROVE  FreshInv'
<1>1. CASE InRollouter /\ UNCHANGED trainer
  BY <1>1, InRollouterFresh
<1>2. CASE Trainer
  BY <1>2, GetFresh, TrainFresh, SyncFresh, EndsFresh DEF Trainer
<1>3. CASE UNCHANGED vars
  <2>1. /\ UNCHANGED <<pc, running, cancel, held, queue, stamp, stale, calls, trainer>>
    BY <1>3 DEF vars, rollouter, processor, tasks, shared
  <2> QED BY <2>1, Unmoved
<1> QED BY <1>1, <1>2, <1>3 DEF Next, Over

LEMMA InitFresh == ASSUME TInit PROVE FreshInv
<1>1. /\ tpc = "collect" /\ pc = "check" /\ sync = "none" /\ held = None /\ stale = 0
      /\ running = {} /\ cancel = <<>> /\ queue = <<>> /\ batch = <<>>
      /\ local = 1 /\ current = 0 /\ version = 0 /\ weights = 0
  BY DEF TInit, Init
<1>2. Len(queue) = 0 /\ Len(batch) = 0 /\ Len(cancel) = 0 /\ Cardinality(running) = 0
  BY <1>1, FS_EmptySet
<1>3. Ended /\ Counted
  BY <1>1, <1>2 DEF Ended, OneEnd, Counted
<1>4. Collecting /\ Versions /\ Dated
  BY <1>1, <1>2 DEF Collecting, Versions, Dated
<1>5. Burden = 0
  <2>1. Ahead(queue, Len(queue)) = 0
    BY <1>2 DEF Ahead
  <2>2. (local - 1) * Required = 0 /\ (current - version) * PerVersion = 0
    BY <1>1, Rates
  <2> QED BY <1>1, <1>2, <2>1, <2>2 DEF Burden, UnderWay, Rollouts, InHand, Since, Turn
<1>6. Limits
  BY <1>1, <1>5, Rates DEF Limits, Capacity
<1> QED BY <1>3, <1>4, <1>6 DEF FreshInv

LEMMA Quotient ==
    ASSUME NEW g \in Nat \ {0}, NEW m \in Nat, NEW d \in Int, d * g <= g + m
    PROVE  d <= 1 + m \div g
<1> DEFINE q == m \div g
           r == m % g
<1>1. q \in Int /\ r \in 0..(g - 1) /\ m = g * q + r
  OBVIOUS
<1> HIDE DEF q, r
<1>2. SUFFICES ASSUME d >= 2 + q PROVE FALSE
  BY <1>1 DEF q
<1>3. (d - 2 - q) * g >= 0
  BY <1>1, <1>2
<1>4. (d - 2 - q) * g = d * g - 2 * g - g * q
  BY <1>1
<1> QED BY <1>1, <1>3, <1>4

\* Freshness control, for every threshold, batch size and trigger: a sample in a
\* batch is at most one version older than the queue can hold, and one more.
THEOREM SamplesAreFresh == Spec => []Fresh
<1>1. TInit => FreshInv
  BY InitFresh
<1>2. TypeInv /\ TypeInv' /\ Once /\ FreshInv /\ [Next]_vars => FreshInv'
  BY StepFresh
<1>3. TypeInv /\ FreshInv => Fresh
  <2>1. SUFFICES ASSUME TypeInv, FreshInv, NEW i \in 1..Len(batch)
                 PROVE  current - stamp[batch[i]] <= Staleness
    BY DEF Fresh
  <2> DEFINE d == current - stamp[batch[i]]
  <2>2. /\ d \in Int /\ d * PerVersion \in Int /\ (local - 1) * Required \in Int
        /\ local \in 1..Trigger
    <3>1. current \in Nat
      BY <2>1, FreshTypes DEF Amounts
    <3>2. /\ stamp[batch[i]] \in Nat /\ local \in 1..Trigger
          /\ (local - 1) * Required \in Int
      BY <2>1, FreshTypes DEF Stamps
    <3>3. d \in Int
      BY <3>1, <3>2
    <3> HIDE DEF d
    <3>4. d * PerVersion \in Int
      BY <3>3, Rates
    <3> QED BY <3>2, <3>3, <3>4
  <2>3. d * PerVersion + (local - 1) * Required + i <= Capacity
    <3>1. Collecting
      BY <2>1 DEF FreshInv
    <3>2. Dated
      BY <2>1, <3>1 DEF FreshInv
    <3> QED BY <3>2 DEF Dated
  <2>4. (local - 1) * Required >= 0
    BY <2>2, Rates
  <2> HIDE DEF d
  <2>5. d * PerVersion <= PerVersion + MaxRequired
    BY <2>2, <2>3, <2>4, Rates DEF Capacity
  <2>6. d <= 1 + MaxRequired \div PerVersion
    BY <2>2, <2>5, Quotient, Rates
  <2> QED BY <2>6 DEF d, Staleness, PerVersion
<1> QED BY <1>1, <1>2, <1>3, TypeInvariant, TrainedOnce, PTL DEF Spec

=============================================================================
