------------------------------ MODULE Rollouter ------------------------------
(***************************************************************************)
(* The rollouter of the fully asynchronous trainer: one event loop shared  *)
(* by the feeder of the pending queue, the processor, one task for each    *)
(* sample in generation, the monitor, and the calls pause(),               *)
(* update_param_version() and resume() that come from the parameter        *)
(* synchronizer.  Only an await that really waits gives up the loop: busy  *)
(* says that the processor is between two of those, and nobody else runs.  *)
(* The other coroutines run from one such await to the next in one action. *)
(*                                                                         *)
(* asyncio.Lock is first come, first served: the head of lock owns it, and *)
(* acquiring a free lock does not wait.                                    *)
(***************************************************************************)
EXTENDS Integers, Sequences, FiniteSets

CONSTANTS
    Total,          \* total_rollout_steps
    MaxRequired,    \* max_required_samples, also the size of the queue
    MaxConcurrent,  \* max_concurrent_samples
    PendingSize,    \* size of pending_queue
    Partial,        \* partial_rollout
    MaxFailures     \* bound: generations that raise

ASSUME RollouterAssumption ==
    /\ Total \in Nat \ {0}
    /\ MaxRequired \in Nat \ {0}
    /\ MaxConcurrent \in 1..MaxRequired
    /\ PendingSize \in Nat \ {0}
    /\ Partial \in BOOLEAN
    /\ MaxFailures \in Nat

Samples == 1..Total
None == 0        \* no sample
Done == Total+1  \* the entry that ends the pending queue

VARIABLES
    \* the processor
    pc,         \* where it is
    loop,       \* which of its three waiting loops it is in
    busy,       \* it has not given up the event loop
    held,       \* the sample it is about to submit
    taken,      \* entries it took from the pending queue
    fed,        \* entries the feeder put there
    bound,      \* done_tasks has a value
    \* the samples
    running,    \* in generation
    finished,   \* finished tasks still in active_tasks
    failed,     \* one of them raised
    broken,     \* every sample whose generation raised
    cancel,     \* cancel_queue
    stamp,      \* param_version of each sample
    queue,      \* the message queue
    \* shared by the coroutines
    lock,       \* its owner, then those who wait for it
    paused,
    trigger,    \* monitor_loop_trigger
    stale,      \* staleness_samples
    monitor,    \* the monitor sleeps or waits for the lock
    \* the synchronization
    cancelling, \* the servers and the agent loops return at once
    version,    \* current_param_version of the rollouter
    counted,    \* what update_param_version() has counted so far
    weights,    \* the version of the weights in the servers
    sync        \* where the synchronization is

processor == <<pc, loop, busy, held, taken, bound>>
tasks == <<running, finished, failed, broken, cancel, stamp>>
shared == <<lock, paused, trigger, stale, monitor>>
calls == <<cancelling, version, counted, weights, sync>>
rollouter == <<processor, fed, tasks, queue, shared, calls>>

MQ == INSTANCE MessageQueue WITH MaxQueueSize <- MaxRequired

Active == Cardinality(running) + finished

-----------------------------------------------------------------------------
(* The lock *)

Has(c) == lock # <<>> /\ Head(lock) = c

\* c holds the lock from here on, at once or after the others.
Obtains(c) ==
    \/ lock = <<>> /\ lock' = <<c>>
    \/ Has(c) /\ UNCHANGED lock

\* c releases the lock before it waits again, and nobody else uses it.
UsesAtOnce(c) ==
    \/ lock = <<>> /\ UNCHANGED lock
    \/ Has(c) /\ lock' = Tail(lock)

\* c asks for the lock while others have it.
Queues(c) ==
    /\ lock # <<>>
    /\ \A i \in 1..Len(lock) : lock[i] # c
    /\ lock' = Append(lock, c)

\* The processor asks for a lock whose owner and waiters are l, and goes on at
\* once when there are none.
Asks(l, place) ==
    /\ pc' = place
    /\ lock' = Append(l, "processor")
    /\ busy' = (l = <<>>)

-----------------------------------------------------------------------------
(* The processor and the feeder *)

Init ==
    /\ pc = "check" /\ loop = "none" /\ busy = FALSE
    /\ held = None /\ taken = 0 /\ fed = 0 /\ bound = FALSE
    /\ running = {} /\ finished = 0 /\ failed = FALSE /\ broken = {}
    /\ cancel = <<>> /\ stamp = [s \in Samples |-> 0] /\ queue = <<>>
    /\ lock = <<>> /\ paused = FALSE /\ trigger = TRUE /\ stale = 0
    /\ monitor = "asleep"
    /\ cancelling = FALSE /\ version = 0 /\ counted = 0 /\ weights = 0
    /\ sync = "none"

ShouldPause == MQ!Full \/ stale >= MaxRequired

\* The feeder fills the pending queue up.
Feed ==
    /\ ~busy
    /\ fed < Done /\ fed < taken + PendingSize
    /\ fed' = IF Done < taken + PendingSize THEN Done ELSE taken + PendingSize
    /\ UNCHANGED <<processor, tasks, queue, shared, calls>>

\* The condition of the waiting loop k, when n tasks are active and l has or
\* awaits the lock: one more round, or what comes after the loop.
While(k, n, l) ==
    IF n >= (IF k = "limit" THEN MaxConcurrent ELSE 1)
    THEN loop' = k /\ Asks(l, "round")
    ELSE /\ loop' = "none"
         /\ CASE k = "drain" -> Asks(l, "idle")
              [] k = "limit" -> Asks(l, "submit")
              [] k = "end" -> pc' = "over" /\ lock' = l /\ busy' = FALSE

\* An exception ends the processor; its with statement releases the lock.
Raises == pc' = "over" /\ loop' = "none" /\ busy' = FALSE /\ lock' = Tail(lock)

PauseItself ==
    /\ pc = "check"
    /\ paused \/ ShouldPause
    /\ Asks(lock, "pausing")
    /\ UNCHANGED <<loop, held, taken, bound, fed, tasks, queue, paused, trigger,
                   stale, monitor, calls>>

Pausing ==
    /\ pc = "pausing" /\ Has("processor")
    /\ paused' = TRUE
    /\ While("drain", Active, Tail(lock))
    /\ UNCHANGED <<held, taken, bound, fed, tasks, queue, trigger, stale, monitor,
                   calls>>

\* Mutant of TakeCancelled: the sample is read and not removed.
TakeCancelledPeeks ==
    /\ pc = "check"
    /\ ~paused /\ ~ShouldPause
    /\ cancel # <<>>
    /\ held' = Head(cancel)
    /\ While("limit", Active, lock)
    /\ UNCHANGED <<taken, bound, fed, tasks, queue, paused, trigger, stale,
                   monitor, calls>>

\* A cancelled sample goes first and is not counted again.
TakeCancelled ==
    /\ pc = "check"
    /\ ~paused /\ ~ShouldPause
    /\ cancel # <<>>
    /\ held' = Head(cancel) /\ cancel' = Tail(cancel)
    /\ While("limit", Active, lock)
    /\ UNCHANGED <<taken, bound, fed, running, finished, failed, broken, stamp,
                   queue, paused, trigger, stale, monitor, calls>>

TurnsToPending ==
    /\ pc = "check"
    /\ ~paused /\ ~ShouldPause
    /\ cancel = <<>>
    /\ pc' = "get" /\ busy' = (taken < fed)
    /\ UNCHANGED <<loop, held, taken, bound, fed, tasks, queue, shared, calls>>

\* The entry that ends the pending queue is counted like a sample.
TakePending ==
    /\ pc = "get"
    /\ taken < fed
    /\ taken' = taken + 1
    /\ stale' = stale + 1
    /\ IF taken' = Done
       THEN While("end", Active, lock) /\ UNCHANGED held
       ELSE While("limit", Active, lock) /\ held' = taken'
    /\ UNCHANGED <<bound, fed, tasks, queue, paused, trigger, monitor, calls>>

\* Mutant of Round: the tasks are awaited after the lock is released.
RoundReleases ==
    /\ pc = "round" /\ Has("processor")
    /\ IF Active > 0
       THEN /\ pc' = "wait" /\ busy' = FALSE /\ lock' = Tail(lock)
            /\ UNCHANGED loop
       ELSE IF bound THEN While(loop, 0, Tail(lock)) ELSE Raises
    /\ UNCHANGED <<held, taken, bound, fed, tasks, queue, paused, trigger, stale,
                   monitor, calls>>

\* One round of a waiting loop starts when it has the lock.  pause() may have
\* emptied active_tasks: then done_tasks is what an earlier round left, and
\* reading it raises if there was none.
Round ==
    /\ pc = "round" /\ Has("processor")
    /\ IF Active > 0
       THEN pc' = "wait" /\ busy' = FALSE /\ UNCHANGED <<loop, lock>>
       ELSE IF bound THEN While(loop, 0, Tail(lock)) ELSE Raises
    /\ UNCHANGED <<held, taken, bound, fed, tasks, queue, paused, trigger, stale,
                   monitor, calls>>

\* asyncio.wait returns, with the lock held all the while.
Collect ==
    /\ pc = "wait" /\ ~busy
    /\ finished > 0
    /\ finished' = 0 /\ failed' = FALSE /\ bound' = TRUE
    /\ IF failed THEN Raises ELSE While(loop, Cardinality(running), Tail(lock))
    /\ UNCHANGED <<held, taken, fed, running, broken, cancel, stamp, queue,
                   paused, trigger, stale, monitor, calls>>

Idle ==
    /\ pc = "idle" /\ Has("processor")
    /\ pc' = IF paused THEN "parked" ELSE "check"
    /\ busy' = ~paused
    /\ lock' = Tail(lock)
    /\ UNCHANGED <<loop, held, taken, bound, fed, tasks, queue, paused, trigger,
                   stale, monitor, calls>>

Submit ==
    /\ pc = "submit" /\ Has("processor")
    /\ lock' = Tail(lock)
    /\ busy' = ~paused
    /\ IF paused
       THEN pc' = "parked with sample" /\ UNCHANGED <<held, running>>
       ELSE pc' = "check" /\ running' = running \cup {held} /\ held' = None
    /\ UNCHANGED <<loop, taken, bound, fed, finished, failed, broken, cancel,
                   stamp, queue, paused, trigger, stale, monitor, calls>>

\* notify_all() wakes the processor, which then asks for the lock again.
Notify ==
    pc' = CASE pc = "parked" -> "idle"
            [] pc = "parked with sample" -> "submit"
            [] OTHER -> pc

Wake ==
    /\ pc \in {"idle", "submit"} /\ ~busy
    /\ \A i \in 1..Len(lock) : lock[i] # "processor"
    /\ Asks(lock, pc)
    /\ UNCHANGED <<loop, held, taken, bound, fed, tasks, queue, paused, trigger,
                   stale, monitor, calls>>

\* _streaming_generation_main() after the processor.
SendEnd ==
    /\ pc = "over" /\ ~busy
    /\ pc' = "sent"
    /\ MQ!PutSample(MQ!End)
    /\ UNCHANGED <<loop, busy, held, taken, bound, fed, tasks, shared, calls>>

Processor ==
    \/ PauseItself \/ Pausing \/ TakeCancelled \/ TurnsToPending \/ TakePending
    \/ Round \/ Collect \/ Idle \/ Submit \/ Wake \/ SendEnd

-----------------------------------------------------------------------------
(* The tasks and the monitor *)

\* The sample gets the version of the moment and goes to the message queue.
Finish(s) ==
    /\ ~busy
    /\ s \in running
    /\ running' = running \ {s}
    /\ finished' = finished + 1
    /\ stamp' = [stamp EXCEPT ![s] = version]
    /\ MQ!PutSample(s)
    /\ UNCHANGED <<processor, fed, failed, broken, cancel, shared, calls>>

Cancelled(s) ==
    /\ ~busy
    /\ cancelling /\ s \in running
    /\ running' = running \ {s}
    /\ finished' = finished + 1
    /\ cancel' = Append(cancel, s)
    /\ UNCHANGED <<processor, fed, failed, broken, stamp, queue, shared, calls>>

Fail(s) ==
    /\ ~busy
    /\ s \in running /\ Cardinality(broken) < MaxFailures
    /\ running' = running \ {s}
    /\ finished' = finished + 1
    /\ failed' = TRUE /\ broken' = broken \cup {s}
    /\ UNCHANGED <<processor, fed, cancel, stamp, queue, shared, calls>>

\* The monitor tests without the lock and then waits for it.
MonitorWaits ==
    /\ ~busy
    /\ monitor = "asleep" /\ trigger /\ ~ShouldPause
    /\ Queues("monitor")
    /\ monitor' = "waiting"
    /\ UNCHANGED <<processor, fed, tasks, queue, paused, trigger, stale, calls>>

MonitorResumes ==
    /\ ~busy
    /\ \/ monitor = "asleep" /\ trigger /\ ~ShouldPause /\ lock = <<>>
       \/ monitor = "waiting" /\ Has("monitor")
    /\ UsesAtOnce("monitor")
    /\ monitor' = "asleep"
    /\ paused' = FALSE
    /\ Notify
    /\ UNCHANGED <<loop, busy, held, taken, bound, fed, tasks, queue, trigger,
                   stale, calls>>

MonitorEnds ==
    /\ ~busy
    /\ monitor = "asleep" /\ pc = "sent"
    /\ monitor' = "gone"
    /\ UNCHANGED <<processor, fed, tasks, queue, lock, paused, trigger, stale, calls>>

Monitor == MonitorWaits \/ MonitorResumes \/ MonitorEnds

-----------------------------------------------------------------------------
(* The calls of the synchronizer *)

CallQueues ==
    /\ ~busy
    /\ \/ sync = "pause" /\ Queues("pause")
       \/ sync = "update" /\ Queues("update")
       \/ sync = "resume" /\ Queues("resume")
    /\ UNCHANGED <<processor, fed, tasks, queue, paused, trigger, stale, monitor, calls>>

PauseBegins ==
    /\ ~busy
    /\ sync = "pause" /\ Obtains("pause")
    /\ sync' = "pausing"
    /\ paused' = TRUE
    /\ cancelling' = Partial
    /\ UNCHANGED <<processor, fed, tasks, queue, trigger, stale, monitor, version,
                   counted, weights>>

\* What a task raised is a result of gather, and is dropped.
PauseEnds ==
    /\ ~busy
    /\ sync = "pausing" /\ running = {}
    /\ finished' = 0 /\ failed' = FALSE
    /\ trigger' = FALSE
    /\ lock' = Tail(lock)
    /\ sync' = "load"
    /\ UNCHANGED <<processor, fed, running, broken, cancel, stamp, queue, paused,
                   stale, monitor, cancelling, version, counted, weights>>

\* The samples in flight are counted, those of the message queue last, after
\* an await.
UpdateBegins ==
    /\ ~busy
    /\ sync = "update" /\ Obtains("update")
    /\ sync' = "updating"
    /\ version' = weights
    /\ counted' = Active + Len(cancel)
    /\ UNCHANGED <<processor, fed, tasks, queue, paused, trigger, stale, monitor,
                   cancelling, weights>>

\* Mutant of UpdateEnds: the count is not reset.
UpdateEndsKeeps ==
    /\ ~busy
    /\ sync = "updating"
    /\ counted' = 0
    /\ lock' = Tail(lock)
    /\ sync' = "resume"
    /\ UNCHANGED <<processor, fed, tasks, queue, paused, trigger, stale, monitor,
                   cancelling, version, weights>>

UpdateEnds ==
    /\ ~busy
    /\ sync = "updating"
    /\ stale' = counted + Len(queue)
    /\ counted' = 0
    /\ lock' = Tail(lock)
    /\ sync' = "resume"
    /\ UNCHANGED <<processor, fed, tasks, queue, paused, trigger, monitor,
                   cancelling, version, weights>>

Resume ==
    /\ ~busy
    /\ sync = "resume" /\ UsesAtOnce("resume")
    /\ sync' = "none"
    /\ cancelling' = FALSE /\ paused' = FALSE /\ trigger' = TRUE
    /\ Notify
    /\ UNCHANGED <<loop, busy, held, taken, bound, fed, tasks, queue, stale,
                   monitor, version, counted, weights>>

Call == CallQueues \/ PauseBegins \/ PauseEnds \/ UpdateBegins \/ UpdateEnds \/ Resume

=============================================================================
