----------------------------- MODULE FullyAsync -----------------------------
(***************************************************************************)
(* The rollouter, the message queue, the trainer and the parameter         *)
(* synchronizer together.  The trainer collects Required samples, trains   *)
(* on them, and after Trigger such steps hands its weights to the          *)
(* rollouter: pause, load, and then, while it goes on, update_param_version *)
(* and resume.                                                             *)
(***************************************************************************)
EXTENDS Rollouter

CONSTANTS
    Required,  \* required_samples
    Trigger,   \* trigger_parameter_sync_step
    TestFreq   \* rollout.test_freq

ASSUME TrainerAssumption ==
    /\ Required \in Nat \ {0} /\ Trigger \in Nat \ {0} /\ TestFreq \in Nat \ {0}
    /\ MaxRequired >= Required * Trigger

VARIABLES
    tpc,      \* where fit() of the trainer is
    batch,    \* queue_samples
    trained,  \* samples trained on
    local,    \* local_trigger_step
    current   \* current_param_version of the trainer and the synchronizer

trainer == <<tpc, batch, trained, local, current>>
vars == <<rollouter, trainer>>

TInit ==
    /\ Init
    /\ tpc = "collect" /\ batch = <<>> /\ trained = {} /\ local = 1 /\ current = 0

-----------------------------------------------------------------------------
(* The trainer *)

Get ==
    /\ tpc = "collect" /\ Len(batch) < Required
    /\ \E s \in Samples :
          /\ MQ!GetSample(s)
          /\ batch' = Append(batch, s)
    /\ UNCHANGED <<processor, fed, tasks, shared, calls, tpc, trained, local, current>>

\* An incomplete batch is not trained on.
GetEnd ==
    /\ tpc = "collect" /\ Len(batch) < Required
    /\ MQ!GetSample(MQ!End)
    /\ batch' = <<>>
    /\ tpc' = "last"
    /\ UNCHANGED <<processor, fed, tasks, shared, calls, trained, local, current>>

Train ==
    /\ tpc = "collect" /\ Len(batch) = Required
    /\ trained' = trained \cup {batch[i] : i \in 1..Len(batch)}
    /\ batch' = <<>>
    /\ IF local < Trigger
       THEN local' = local + 1 /\ UNCHANGED <<tpc, current>>
       ELSE local' = 1 /\ current' = current + 1 /\ tpc' = "next sync"
    /\ UNCHANGED rollouter

\* The last synchronization, when something is not synchronized or validated.
Last ==
    /\ tpc = "last" /\ sync = "none"
    /\ IF current % TestFreq # 0 \/ local > 1
       THEN local' = 1 /\ current' = current + 1 /\ tpc' = "last sync"
       ELSE tpc' = "end" /\ UNCHANGED <<local, current>>
    /\ UNCHANGED <<rollouter, batch, trained>>

\* wait_last_valid(), then sync_weights(), which starts with pause().
Synchronize ==
    /\ tpc \in {"next sync", "last sync"} /\ sync = "none"
    /\ sync' = "pause"
    /\ tpc' = IF tpc = "next sync" THEN "syncing" ELSE "last syncing"
    /\ UNCHANGED <<processor, fed, tasks, queue, shared, cancelling, version,
                   counted, weights, batch, trained, local, current>>

\* The trainer goes on when the weights are loaded; the last synchronization
\* waits for update_param_version() and resume() too.
Load ==
    /\ sync = "load"
    /\ weights' = current
    /\ sync' = "update"
    /\ tpc' = IF tpc = "syncing" THEN "collect" ELSE "last wait"
    /\ UNCHANGED <<processor, fed, tasks, queue, shared, cancelling, version,
                   counted, batch, trained, local, current>>

LastWait ==
    /\ tpc = "last wait" /\ sync = "none"
    /\ tpc' = "end"
    /\ UNCHANGED <<rollouter, batch, trained, local, current>>

Trainer == Get \/ GetEnd \/ Train \/ Last \/ Synchronize \/ Load \/ LastWait

-----------------------------------------------------------------------------

InRollouter ==
    \/ Processor \/ Feed \/ Monitor \/ Call
    \/ \E s \in Samples : Finish(s) \/ Cancelled(s) \/ Fail(s)

\* Both sides are through, and the queue is cleared.
Over ==
    /\ tpc = "end" /\ pc = "sent"
    /\ UNCHANGED vars

Next ==
    \/ InRollouter /\ UNCHANGED trainer
    \/ Trainer
    \/ Over

Spec == TInit /\ [][Next]_vars

\* An event loop runs every coroutine that can run, the monitor's sleep ends,
\* generation comes to an end, and the trainer is a process of its own.
FairSpec ==
    /\ Spec
    /\ WF_vars(Processor /\ UNCHANGED trainer)
    /\ WF_vars(Feed /\ UNCHANGED trainer)
    /\ WF_vars(Monitor /\ UNCHANGED trainer)
    /\ SF_vars(Call /\ UNCHANGED trainer)
    /\ \A s \in Samples :
          WF_vars((Finish(s) \/ Cancelled(s) \/ Fail(s)) /\ UNCHANGED trainer)
    /\ WF_vars(Trainer)

-----------------------------------------------------------------------------
(* What it promises *)

Rolling ==
    ({held} \ {None}) \cup running \cup {cancel[i] : i \in 1..Len(cancel)}

Flow == INSTANCE SampleFlow WITH
    issued <- IF taken < Total THEN taken ELSE Total,
    rolling <- Rolling,
    ready <- queue,
    closed <- (pc = "sent"),
    QueueSize <- MaxRequired

Coroutines == {"processor", "monitor", "pause", "update", "resume"}

ProcessorOK ==
    /\ pc \in {"check", "pausing", "get", "round", "wait", "idle", "parked",
               "submit", "parked with sample", "over", "sent"}
    /\ loop \in {"none", "drain", "limit", "end"}
    /\ busy \in BOOLEAN /\ bound \in BOOLEAN
    /\ held \in Samples \cup {None}
    /\ taken \in 0..Done /\ fed \in taken..Done

TasksOK ==
    /\ running \subseteq Samples /\ broken \subseteq Samples
    /\ finished \in Nat /\ failed \in BOOLEAN
    /\ cancel \in Seq(Samples)
    /\ stamp \in [Samples -> Nat]

QueueOK == queue \in Seq(Samples \cup {MQ!End}) /\ Len(queue) <= MaxRequired

SharedOK ==
    /\ lock \in Seq(Coroutines)
    /\ paused \in BOOLEAN /\ trigger \in BOOLEAN /\ stale \in Nat
    /\ monitor \in {"asleep", "waiting", "gone"}

CallsOK ==
    /\ cancelling \in BOOLEAN
    /\ version \in Nat /\ counted \in Nat /\ weights \in Nat
    /\ sync \in {"none", "pause", "pausing", "load", "update", "updating", "resume"}

TrainerOK ==
    /\ tpc \in {"collect", "next sync", "syncing", "last", "last sync",
                "last syncing", "last wait", "end"}
    /\ batch \in Seq(Samples) /\ Len(batch) <= Required
    /\ trained \subseteq Samples
    /\ local \in 1..Trigger /\ current \in Nat

TypeOK == ProcessorOK /\ TasksOK /\ QueueOK /\ SharedOK /\ CallsOK /\ TrainerOK

\* Generation, cancellation, a full queue and a crash of the processor never
\* give the trainer a sample twice: each is in one place.
Once == Flow!Once

\* Rollouter, queue and trainer together are a SampleFlow: samples leave the
\* dataloader in order, and whatever pause() interrupts, the trainer gets what
\* the queue holds in its order and only complete batches.
FlowSpec == Flow!Spec

\* Coroutines that wait for tasks or for the message queue inside the lock,
\* with active_tasks half processed, are alone there.
Exclusive ==
    /\ pc = "wait" => Has("processor")
    /\ sync = "pausing" => Has("pause")
    /\ sync = "updating" => Has("update")

\* Freshness control: the policy updates between the generation of a sample and
\* its use.  Two more than the threshold plans: the sample the processor holds
\* is not counted, and one that the monitor let in while the weights were loaded
\* has the version before them.
Staleness == 1 + MaxRequired \div (Required * Trigger)
Fresh == \A i \in 1..Len(batch) : current - stamp[batch[i]] <= Staleness

\* Between pause() and the end of resume() nothing is generated.
Quiet == sync \in {"load", "update", "updating", "resume"} => Active = 0

\* If pause() keeps its promise, training comes to its end, whatever raises and
\* whenever the rollouter pauses itself: it never waits for a trainer that waits
\* for its samples.
QuietEnds == []Quiet => <>(tpc = "end")

\* The monitor's docstring: it triggers the recovery of a paused rollouter, so
\* that the trainer always gets on.
TrainerEnds == <>(tpc = "end")

=============================================================================
