# A TLA+ model of RESD

RESD (`selfevolve/resd`, on top of `verl`) trains a language model on a stream of
batches. A *student* answers the prompts of a batch; a *context updater* reflects
on the failures and curates a *playbook* of short lessons ("bullets"); a
self-distillation step trains the student towards what it answers when it can see
the lessons. This directory holds TLA+ modules for the parts of that program
whose correctness depends on state that lives across steps, files and threads,
the TLC configurations that check them on small instances, and TLAPS proofs of
the main results for every value of the constants.

Paths below are relative to the repository. Line numbers are in `PROJECT.json`.

## 1. Inventory

| component | code | state it keeps | operations | hard behaviour |
|---|---|---|---|---|
| playbook context updater | `selfevolve/resd/context_updater/` | per key: text of the bullets with counts, `next_global_id`, `update_count`, `bullet_last_used`; a snapshot per key for the student; the solution buffer | `update` (concise, reflect, tag, curate, concise, count), `sync_student_playbooks`, `state_dict`, `load_state_dict` | outputs of a language model are arbitrary; several keys share one batch; state restored from an older save |
| streaming trainer | `trainer/ppo/stream_trainer.py` | `global_steps`, dataloader position, past-batch buffer, best validation | `fit`: outer batches, inner updates, early stop, validation, forgetting evaluation, save | one batch object reordered and extended by many parts; resumes |
| checkpointing | `stream_trainer.py`, `verl/utils/checkpoint/` | directories `global_step_<s>`, the tracker file, `previous_saved_paths` in memory | save, rotate, register, load | several processes and files, crashes between any two of them |
| teacher client | `resd/teacher/client.py`, `stream_trainer.py` | a task queue, a mutex, one REQ socket per thread, futures | `submit`, `bg_task`, `_submit_teacher_feedback`, `_resolve_teacher_feedback` | threads, timeouts, late answers, a blocked driver |
| teacher server | `resd/teacher/worker.py`, `proxy.py` | messages underway | serve, answer with an error, die | lost requests |
| actor workers, losses | `resd/workers/`, `core_algos.py` | tensors | numerical training | floating point |
| other reward and feedback functions | `resd/feedback/` | none across calls | one answer in, score and feedback out | parsing, sandboxes |
| Manufactoria parser and machine | `resd/feedback/manufactoria/verifier/`, `manufactoria.py` | nodes of the program; a robot's tape and place | parse and validate, run a robot, judge a test | programs that loop, a limit that is per robot, names the parser lets through |
| fully asynchronous training | `verl/experimental/fully_async_policy/` | message queue, rollouter's pending, active and cancelled samples, parameter version, staleness counter | feed, process, pause, resume, put, get, sync weights | coroutines that test before a lock and act behind it, cancellation, drop-oldest |
| weight transfer | `verl/checkpoint_engine/`, `verl/workers/rollout/vllm_rollout/` | two device buffers per node, messages and RDMA reads between nodes, a buffer shared with the inference worker | fill a bucket, forward it, hand it to the server, load | a chain of processes, copies still pending on the device, buffers that change places |
| agent loops, reward loop, controller | `verl/experimental/agent_loop`, `reward_loop`, `verl/single_controller` | server loads, rate limits | choose a server, call a tool, limit calls | concurrency over Ray |

**How they interact.** `fit` calls `context_updater.update` once per gradient step,
after reward and teacher feedback of that step are known and before the loss is
computed, and `sync_student_playbooks` right after it when the counter says so. The
snapshot is put into the prompts of later outer batches. The teacher gets the
failed samples through futures and the driver blocks on them. At the end of an
outer batch `fit` may save: every rank writes its shards, then the driver writes
the dataloader state, the updater's `state_dict` and the tracker, in this order.
A new process reads them back in `_load_checkpoint`.

In the fully asynchronous trainer the rollouter and the trainer are processes of
their own with the message queue between them; every few steps the trainer's
synchronizer pauses the rollouter, loads the weights into its servers and lets it go
on. Weights reach servers that are not colocated through the checkpoint engine: a
chain of nodes, each handing what it receives to its inference worker and to the next
node.

**What makes each part correct.**

* Updater: ids of bullets are unique for good; each bullet has a last use that is
  true; the cap on bullets holds where the prompts read them; a concise removes
  what the method says and no more; a lesson goes into the playbook of the example it
  is about, whatever rows share its batch; the student's snapshot is the playbook of the last sync boundary, also after a resume.
* Checkpointing: the tracker names a complete save of one process at every instant;
  a resume takes everything from one save; retention neither exceeds its limit nor
  removes the last whole checkpoint; published weights are never lost; an uninterrupted
  save ends.
* Teacher: no future is lost or resolved twice; a sample gets its own feedback or
  none; the driver is not blocked for good.
* Trainer: everything is generated with the weights the trainer has; a sample is
  shown a successful answer to its own example; every batch is trained in order with
  its number of updates, across resumes too; scores compared between inner iterations
  belong to the same prompts; the forgetting baseline is from before the batch was
  trained on; no step is logged twice or skipped.
* Manufactoria: a test is passed exactly when the program deserves it, whatever robots
  went before; a validated program does not run into names it does not have; no
  program exceeds the limit.
* Fully asynchronous training: a sample is in one place and trained on at most once,
  whatever is cancelled, raised or dropped; staleness is bounded; the processor and the
  calls that wait inside the lock are alone there; training comes to its end.
* Weight transfer: a server loads whole weights, all of them, of one version; no buffer
  is written while somebody reads it; the update ends, and not before all have loaded.

`PROJECT.json` lists every component, the ones left out with the reason, and the
hazards at their lines.

## 2. Modules

| module | what it is |
|---|---|
| `LessonBook.tla` | what the context updater promises of the lessons |
| `Playbook.tla` | the context updater, in global and per-example mode |
| `MCPlaybook.tla`, 1 configuration | its instance |
| `PlaybookRows.tla` | the same updater row by row: the lists within an update |
| `MCPlaybookRows.tla`, 1 configuration | its instance |
| `PlaybookProofs.tla` | theorems about both, with the refinements of `LessonBook` and of `Playbook` |
| `Checkpoint.tla` | save, rotate, crash, resume |
| `MCCheckpoint.tla`, 2 configurations | its instances |
| `CheckpointProofs.tla` | theorems about it |
| `TeacherClient.tla` | trainer, client threads, sockets and server |
| `TeacherClientProofs.tla` | proofs about it |
| `MCTeacherClient.tla`, 2 configurations | its instances |
| `StreamTrainer.tla` | `fit()`: outer batches, inner updates, evaluation, logging, resume |
| `MCStreamTrainer.tla`, 2 configurations | its instances |
| `StreamTrainerProofs.tla` | theorems about it |
| `SampleFlow.tla` | what the fully asynchronous trainer promises of its samples, with its theorem |
| `MessageQueue.tla` | the queue between rollouter and trainer |
| `Rollouter.tla` | feeder, processor, tasks, monitor and calls on one event loop |
| `FullyAsync.tla` | rollouter, queue, trainer and synchronizer composed |
| `MCFullyAsync.tla`, 2 configurations | its instances |
| `FullyAsyncProofs.tla` | theorems about it, with the refinement of `SampleFlow` |
| `WeightUpdate.tla` | what a weight update promises the servers |
| `WeightTransfer.tla` | the chain of nodes that carries it out |
| `WeightTransferProofs.tla` | theorems about it |
| `MCWeightTransfer.tla`, 1 configuration | its instance |
| `Manufactoria.tla` | parser, robots and verdicts |
| `MCManufactoria.tla`, 1 configuration | its instance |
| `ManufactoriaProofs.tla` | theorems about it |

Operators named `...Late`, `...Early`, `...OneMore`, `...NoBarrier` and so on,
commented "Mutant of", are the plausible bugs each property is tested against;
nothing in a specification uses them.

### 2.1 Playbook

State and code. `playbooks[k]` is `_playbooks[k]`: `live` are the ids of the
bullets in the text, `counts` their helpful and harmful counts, `last_used` the
dictionary `bullet_last_used` (it may hold ids that name no bullet), and
`next_global_id` and `update_count` are as in the code. `first` is the key
inserted first, which `should_sync_student` reads. `student` is
`_student_playbooks`. `pc` and `batch` are where `update()` is and its locals.
`saved` is the `context_updater.json` of the checkpoint the tracker names.

Bullets have no text here: what the code decides depends on ids, counts and steps
only. Slugs are left out as well: ids are unique by their number, whatever the
section, and an id that is written in the wrong section by the model is one more
made-up id. The model's outputs are inputs taken with `\E`: `Tally` is what the
tag lists of one phase say of one id, decisive tags and mere uses apart, and it
ranges over ids that name no bullet too; the curator adds any number of bullets,
or fails to parse for any subset of the keys. `_concise_playbook` draws at random
in two methods: `Drops` is every set of the right size.

| action | code |
|---|---|
| `BeginUpdate` | `update()` up to the first call of the model, with `_maybe_concise` of every key |
| `Reflect`, `TagCorrect`, `SkipTagging` | the tags of reflector and success reflector |
| `Curate` | `apply_curator_operations` and the recording of creation steps |
| `Trim` | the concise after curation |
| `FinishUpdate`, `SyncStudent` | the counters; the trainer's call of `sync_student_playbooks` |
| `Save`, `Restart` | `state_dict`, and a crash in any phase with `load_state_dict` |

An update is one sequence of phases on the driver; cutting it into actions
matters because the process may die between any two and because the properties
speak about what the prompts of each phase read.

`LessonBook` is what all this promises, with neither tags nor counts nor methods: books
of lessons that have numbers. An update opens some books (`Begin`), each of which then
forgets lessons or learns the next numbers (`Revise`), and ends (`End`), when the student
is shown all books or sees what it saw; books are cut to the cap when they are opened,
and under `CapsAtEnd` also before the end. What is saved is saved while no book is open,
and `Resume` brings exactly that back. `BookSpec` maps `live` to the lessons,
`next_global_id` to one more than the last number given, and the active keys of the batch
to the open books.

`PlaybookRows` extends `Playbook` by what an update does before it has a set of keys. A
batch is a list of rows, each with its example and whether it is right; `incorrect` and
`correct` are `incorrect_indices` and `correct_indices`, `IncKeys` is `inc_playbook_keys`.
Every phase makes a list of prompts from such a list, pads it to the number of agent
workers, gets the replies in that order, and regroups them by key. A reply is known by the
prompt it answers: the rows that prompt was about and the playbook it showed; a curation is
about the row of its sample and the rows of the reflection it quotes. `applied` is a
history of the replies the last phase put into each playbook, `returned` the
`reflection_texts` that go back to the trainer. Tags are taken list by list here and
counted, where `Playbook` takes the counts. `Save` and `Restart` are not repeated: they come
between updates or end one, when the lists are gone, and what they do to the playbooks is
in `Playbook`. Each action of `PlaybookRows` is one of `Playbook` for the keys of its rows;
that is a theorem (`RowsImplement`).

| action | code |
|---|---|
| `BeginRows` | rows split by `acc`, and `BeginUpdate` of their keys |
| `ReflectRows`, `TagCorrectRows` | one call each: prompts, padding, replies, `tags_by_key` |
| `CurateRows` | `curator_j_indices`, the call, `ops_by_key` |
| `FinishRows` | "Reconstruct full-batch reflection_texts" |

### 2.2 Checkpoint

`disk[s]` is the directory `global_step_s`: the life of the process that wrote each
shard, `data.pt` and `context_updater.json`, or `None` or `Torn`. `tracker` is
`latest_checkpointed_iteration.txt`, `paths` is `previous_saved_paths` of rank 0.
`step` and `position` are `global_steps` and the dataloader's batches, which are
not the same number since an outer batch makes up to `MaxUpdates` steps. `origin`
is a history variable: the lives whose files this process resumed from.

A save is cut at every file: `EnsureCapacity` (rank 0, before anything is written),
`SaveShard(r)` for each rank in any order, `Register` behind the barrier, then
`SaveData`, `SaveLessons` and `WriteTracker` by the driver. `Crash` may come at
any of them and leaves the file in progress as it was or torn; several ranks may
leave torn shards at once. `LoadFrom` and `LoadFails` are `_load_checkpoint`,
including that a missing `data.pt` or `context_updater.json` is a warning and that
the tracker is parsed before the resume mode is looked at. The ESI expiry that
forces a save may come at any batch.

### 2.3 TeacherClient

`futures` are those of the current batch with the samples each asked for. `queue`,
`mutex`, `pc[t]`, `held[t]` and `sock[t]` are the client: `sock` is the alternation
a REQ socket enforces. `requests`, `serving` and `inbox` are requests underway,
the one each worker works on, and answers that reached a socket. A sample is
`<<batch, index>>`, an answer is the list of samples it was generated from, so
that feedback given to the wrong sample shows.

`Submit` and `Resolve` are the trainer. A thread runs `Lock`, `Collect` (once per
future, with the mutex held while the queue is empty), `Send`, then `Recv` or
`Timeout`; `SendFails` is the REQ socket refusing a second send. Collecting and
sending are separate actions because other threads run between them. The server
serves, answers with a result or an error, or dies with its request and any subset
of those queued for it. `zmq.Again` may come at any moment at which no answer has
arrived.

### 2.4 StreamTrainer

State and code. `pc` is the place in `fit()`. `position` counts the batches taken from
the dataloader, so it is `batch_idx + 1` within a batch; `iter` is `update_iter` and
`step` is `global_steps`. Of the actor's weights the model keeps, for each gradient
step in them, the batch it was made on. `replicas` says how many of these steps the
rollout replicas hold, or that they sleep, and `sampled` what the last generation
used. `batch[i]` is the prompt of row `i`, and `won` the rows that succeeded. `prev`
is `prev_scores`, beside what the same scores are when taken by prompt; the second
half is a history the property needs. `past` is `past_batch_buffer`, each entry with
the weights its baseline was generated with. `solutions` is `_solution_buffer` of the
updater. `logs` are the steps this process committed, `saved` the last checkpoint.

The lengths of the responses decide how `_balance_batch` reorders the rows, and they
are arbitrary, so `Balance` takes any reordering. A reward is a success or a
failure: the demonstrations depend on it alone, and the early stop compares sums.
The setting modelled is that of the scripts: replicas colocated with the trainer
(asleep while it computes), validation before training, synchronous rewards.

| action | code |
|---|---|
| `Start` | `_load_checkpoint`'s end, the first `update_weights`, `val_before_train` |
| `TakeBatch`, `Exhausted` | the outer loop's head, with the resets of the inner loop |
| `Generate`, `Balance`, `Reward` | rollouts, `_balance_batch`, rewards |
| `Distill` | `_maybe_build_self_distillation_batch`: the updater's generations, stored solutions |
| `Train` | `update_actor`, the buffer of past batches, the early stop |
| `Push`, `Count` | `update_weights`, the step counter and the logging of inner steps |
| `Evaluate`, `Log`, `Save` | validation, forgetting evaluation, the outer logging, `_save_checkpoint` |
| `Restart` | the process dies at any of these, or has ended, and another resumes |

A save is one step here; `Checkpoint` cuts it into files, and `Playbook` says what the
updater does within `Distill`. The three are to be composed (section 6).

### 2.5 SampleFlow, MessageQueue, Rollouter, FullyAsync

The rollouter is one process with one event loop. A coroutine gives the loop up only at
an `await` that really waits, so every coroutine but the processor runs from one such
place to the next in one action. The processor's code has more places where it may or may
not wait (a lock that is free is acquired at once): it is cut at each of them, and `busy`
says that it has not given up the loop in between, so that nobody else runs. `lock` is
`asyncio.Lock`: the owner, then those who wait, first come first served. `pc` is where the
processor is, `loop` which of its three waiting loops it is in ("drain" while paused,
"limit" before a submission, "end"), `bound` whether `done_tasks` has been assigned: the
loops test `active_tasks` outside the lock and read `done_tasks` inside it after the test
may have become false, and with nothing assigned that raises.

`running` and `finished` are `active_tasks`, those in generation and those that are done
but still in the set. `cancel` is `cancel_queue`, `queue` the message queue, `stale` is
`staleness_samples`. The pending queue holds the samples `taken+1 .. fed`. `sync` and
`tpc` are where the synchronizer and the trainer are; `current` is their version,
`weights` that of the servers, `version` that of the rollouter, `stamp[s]` the version a
sample is marked with. `cancelling` stands for the servers and agent loops that answer at
once between `cancel()` and `resume()`.

| action | code |
|---|---|
| `Feed` | `_feed_samples` |
| `PauseItself`, `Pausing`, `Idle` | the processor pauses itself, drains and waits to be resumed |
| `TakeCancelled`, `TurnsToPending`, `TakePending` | the next sample, and the limit of concurrent ones |
| `Round`, `Collect` | one round of a waiting loop, before and after `asyncio.wait` |
| `Submit`, `Wake`, `SendEnd` | a task is created; the condition variable; after the processor |
| `Finish`, `Cancelled`, `Fail` | `_process_single_sample_streaming` |
| `MonitorWaits`, `MonitorResumes`, `MonitorEnds` | `_async_monitor_loop` |
| `PauseBegins` ... `Resume` | `pause()`, `update_param_version()`, `resume()` |
| `Get`, `GetEnd`, `Train`, `Last`, `LastWait` | the trainer |
| `Synchronize`, `Load` | `sync_weights` |

`SampleFlow` is the abstract specification: samples leave the dataloader in order, are
under way, in the queue, in the batch or trained on, and may be lost. `FullyAsync`
implements it (`FlowSpec`): a sample in the hands of the processor, in generation or
cancelled is under way, and everything about locks, pauses and versions is a stutter.

### 2.6 WeightUpdate and WeightTransfer

`node[n]` is the NIXL engine of a node, node 0 the trainer's rank 0: two buffers of
`BucketSize` cells, which of them is `send_buf` (`out`), the bucket it works on (its
weights, and where each begins), what it posted, the messages on the way to the next node,
the RDMA read it carries out and the copies its device has still to make. A cell holds the
weight and the version it was copied from, so a mixture shows. `port[n]` is the shared
buffer between the consumer (`vllm_rollout.py`) and its inference worker (`utils.py`), with
the request and the reply of the socket; `worker[n]` is the latter. A read moves one cell
per step (`Transfer`), a non-blocking copy one weight (`Copies`), at any time before the
next synchronization. A worker's clone of a bucket is one step: its process waits for it
before it answers, and `Untouched` says that nobody writes meanwhile.

The producer is `Pack`, `PostFull`, `PostLast`, `Sent`; a rollout worker `Start`,
`Answered`, `BeginRead`, `FirstRead`, `Forward`, `Yield`, `Flush`, `Swap`, `FlushLast`,
`Finish`; an inference worker `Connect`, `Receive`, `Clone`, `Load`. Only rank 0 of a
replica holds the future of the replica's inference workers (`Leader`).
`WeightUpdate` is what this promises: each server loads the weights of a version in order,
and the update ends for the manager when all have them all.

### 2.7 Manufactoria

The parser reads one node after the other (`ParseNode`, `ParseError`) into `nodes`, and
the end of the text comes at any point (`Accept`, `Invalid`); a node is what the regular
expressions take from its lines. Each robot then runs from `Enters` by `Start`, `Pull`,
`PassBy` and `Paint` until it is not `Running`, and `Record` judges it. The value of
`Tests` gives for every robot the set of tapes its expected output matches. A target is
looked up in the whole program only after the last node, as in `_validate_program`, and
the word `END` is let through. `Verdicts` states the score a second time and without the
machine: a program is a set of rules that replace a word at the front of a tape by one at
its back (`Rules`, `Rewrites`), and a test is passed when `Run` with the test's own tape is
at `end`, with a right tape, after one node less than the limit.

## 3. Runs

| run | constants | checks |
|---|---|---|
| `playbook_staleness` | 1 key, cap 2, 3 ids, 4 updates, staleness every 2 updates, a sync every 2, one crash in any phase | `TypeOK`, `UseRecorded`, `MaxEntries`, `NoLingering`, `IdsIssued`, `StudentInSync`, `FairEviction`, `BookSpec` |
| `playbook_per_example` | batches of up to 3 rows of 2 examples, 2 workers, cap 1, prioritized, deduplicated rollouts, no concise after curation | `PromptBounded`, `LessonsOwn` |
| `checkpoint_auto` | 2 ranks, 4 batches of up to 2 steps, limit 2, 3 processes | `TypeOK`, `TrackedComplete`, `OneOrigin` |
| `checkpoint_keep_one` | 2 ranks, 3 batches, limit 1, 3 processes, resume from any directory, fair saving | `DiskBounded`, `WeightsSurvive`, `SafetyBuffer`, `SavePublished` |
| `teacher_trainer` | 2 threads, 2 workers, 2 batches of 2 or 3 samples, single-future requests, 1 death | `TypeOK`, `NothingLost`, `FeedbackOwn`, `RoundEnds` |
| `stream_fit` | 3 batches of 2 prompts over 3 examples, 2 responses each, 2 or 3 updates per batch, a test every 2 batches, forgetting after each with a buffer of 2, a save every 2, one crash | `TypeOK`, `OnPolicy`, `DemonstrationOwn`, `BatchesInOrder`, `BaselineFirst`, `LoggedOnce` |
| `fully_async_flow` | 6 samples, a queue of 2, 1 concurrent, pending queue of 2, partial rollout, 1 failing generation, a batch of 1, a synchronization after each, a validation every 4 versions | `TypeOK`, `Exclusive`, `Fresh`, `FlowSpec`, `QuietEnds` |
| `weight_transfer` | 3 rollout workers in 2 replicas, 4 weights of 1, 1, 2 and 1 cells in buckets of 2, 2 updates | `TypeOK`, `Intact`, `Untouched`, `UpdateSpec`, `UpdatesEnd` |
| `manufactoria` | programs of up to 2 nodes besides START and END, 3 robots, a limit of 4 | `TypeOK`, `KnownNodes`, `Verdicts` |

Three more runs end in a violation: each states what a comment or docstring says
and shows a behaviour of the code against it.

| run | says | what happens |
|---|---|---|
| `teacher_stuck_socket` | "None indicates generation failed for that sample" | after one timeout a thread fails every future it takes without sending it |
| `stream_early_stop` | "early stop: fraction of prompts that improved vs previous inner iteration" | the scores are cut into prompts by position, after `_balance_batch` moved the rows |
| `fully_async_stall` | the monitor: "Function 2: Trigger rollout recovery" | it tests outside the lock, waits there behind `pause()`, and resumes the rollouter while the weights are loaded; the count of stale samples fills, the rollouter parks with cancelled samples it does not look at, and the trainer waits for ever |

`stream_early_stop` needs a threshold above the default of 0, which never stops a
batch; `training/improved_frac` is wrong at any threshold. Without `balance_batch` the
decision is right (`StopsAsScored` in section 4). As for `fully_async_stall`,
`QuietEnds` shows in the larger instance, with a failing generation, that nothing else
stops training: as long as nothing is generated between `pause()` and the end of
`resume()`, it comes to its end.

More differences and pitfalls are on record here without a run.

* The README's "To ensure a maximum number of entries, the playbook is concised before the
  curation" caps what the prompts read (`PromptBounded`), not what `update()` leaves
  behind, unless the concise after curation is on.
* "Record creation step for any newly added bullets" (`playbook_context_updater.py:875`):
  a tag on an id that does not exist yet is recorded as a use, and the bullet issued under
  that id later keeps the old step. Each concise forgets such entries, so under
  the staleness method the inherited age stays within the window (`NoLingering`).
* The student's snapshot is "synced at concise boundaries", "every N updates", but
  `should_sync_student` reads the counter of the key inserted first: with one global key,
  which `StudentInSync` is checked for, that is the boundary; with keys per example the
  counters differ and it is that key's boundary only.
* "Rotates old checkpoints, keeping at most `max_ckpt_to_keep`" holds per process: the list
  of saved paths starts empty after a restart and earlier processes' actor checkpoints stay.
  What is left is `DiskBounded`: the buffer and one more for every process there was, a
  bound that the runs attain.
* With a limit of 1 the existing checkpoint is kept "until the new save completes
  successfully" (`checkpoint_manager.py:148`), but its actor is deleted before `data.pt`,
  the lessons and the tracker of the new save are written. A crash in between leaves the
  tracker on a directory without an actor (`TrackedComplete` fails with that limit), and
  the resume by tracker fails with it. The new actor is whole by then and can be
  loaded with `resume_path` (`WeightsSurvive`).
* The tracker is written "for atomic usage" (`stream_trainer.py:2039`) by truncating it in
  place: a crash leaves an empty file, which fails every later start.
* The futures of a batch are "one per worker" only when the samples divide evenly; floor
  division makes more pieces otherwise.
* `forget_eval.eval_freq` is to "eval every N global steps" (`ppo_trainer.yaml`) while
  `fit()` counts outer batches, as `Due` does.
* `launch_reward_fn_async` (off in the scripts) reads the reward infos before the future
  is resolved; an exception between two operations of a curator's answer ends the run with
  the playbook half changed in memory only.
* The processor's waiting loops read `done_tasks` without a value when `pause()` emptied
  `active_tasks` before the first round (`Raises` in `Round`): the generation ends early,
  with its end marker, and the samples left are not trained on.
* A sample in the hands of the processor is in none of the sets that
  `update_param_version()` counts, so one more than `max_required_samples` may be under
  way (`Fresh` allows for it).
* A Manufactoria route is "Node ID or 'NONE' or 'END'" (`manufactoria_parser.py:31`), and
  the parser lets `END` through, but `process_robot` knows only `end`: the robot is
  rejected there. A robot that needs more than 1000 nodes is rejected as looping, while the
  description of the language rejects infinite loops only.

**Bounds and why they are enough.** *Playbook*: three ids with a cap of two let a
concise choose among survivors and remove some; four updates pass two concise
boundaries of frequency two, the second with bullets from before the first. One tag
list per phase (`Samples = 1`) already makes an id helpful, harmful or only used, also
one that names no bullet. Three rows give every order of two rows of one example and one of
another, right or wrong, with a list that is shorter after deduplication; two workers
pad a list of one or three; two keys are enough to tell the right one. One crash in any phase, after any number of saves, covers the resume; a second
resume restores a state of the same kind.
*Checkpoint*: with limit 2 and four batches the rotation deletes in two saves of
one process; two crashes allow a resume from a save that was itself made by a
resumed process, and a directory written partly by two processes. Two ranks allow
one to be ahead of the other. *TeacherClient*: two threads and two batches let a
late answer meet a later batch; three samples and two threads give a piece that is
shorter than the rest; one worker death loses a request and leaves another one.
*StreamTrainer*: two prompts with two responses give rows that move between prompts,
and prompts solved by none, one or both of their rows. Two to three updates make
room for a comparison of scores, a stop and a forced last iteration. Three batches
fill a buffer of two and push an entry out of it, put a save and a test on the second
batch and on the last, and bring every example back at another place. One crash at
any step resumes from the beginning, from batch two or from the end.
*FullyAsync*: a queue of two is filled, dropped from and passed over by a
synchronization; six samples pass several of these and reach the end marker with the
last synchronization both due and not due. With one concurrent sample the limit, the
drain and the end loops all wait; a second one only adds samples of the same kind, which
the proofs cover. One failure ends the processor or is swallowed by `pause()`.
*WeightTransfer*: three nodes behind the sender give one that is first, one in the middle
and one that passes nothing on, and two ranks that share a replica; three buckets use both
buffers twice, one is cut because the next weight does not fit, and the last is half
empty, so the shared buffer is packed across buckets. The second update starts from the
end of the first. *Manufactoria*: two nodes give chains, self-loops and loops of two, with
targets that are missing, defined later, or the word END; a limit of 4
lets robots halt below it, cuts others off that are at `end` already or would get there
later, and ends loops.
Counters (`MaxUpdates`, `MaxId`, `MaxCount`, `MaxRestarts`, `MaxLives`,
`MaxRounds`, `MaxCrashes`, `MaxFailures`) are bounds of the model and appear in guards
only. Deadlock is not checked where training ends: after the last batch, update or
round the models stop, as the program does when `fit()` returns, and `FullyAsync` may
stop as `fully_async_stall` shows. It is checked for `WeightTransfer` and
`Manufactoria`: no text leaves the parser or a robot stuck before the score, since a robot
takes no more than the limit (`TypeOK`).

**Fairness.** `Checkpoint!FairSpec` is weak fairness of `Saving`: each rank writes
its files and the driver goes on, which is what processes that are scheduled and
do not crash do; a crash may end a save, and `SavePublished` allows for it.
`TeacherClient!FairSpec` is weak fairness of the driver's `Resolve` and of the
steps of each thread. `Timeout` is one of these steps: `RCVTIMEO` bounds the
receive, so a thread does not stay in it. Nothing is assumed of the server. A thread
that waits for the mutex needs no more than weak fairness there: a holder either
lets go, or keeps it only while the queue is empty, and then what is left to
collect is its own. Fairness is not assumed for `Submit`, so that the property
does not rest on the trainer asking again. The trainer's requests hold one future
each (`num_microbatches` is 1). With requests of two futures `RoundEnds` still holds on
the instance with even batches, but then it rests on the mutex: two threads that
each held half of a request would wait for each other.

`FullyAsync!FairSpec`: the event loop runs every coroutine that stays ready, generation
of each sample comes to an end of some kind, the monitor's sleep ends, and the trainer is
a process of its own: weak fairness of each. The calls of the synchronizer have strong
fairness: they are disabled for a moment whenever another coroutine runs or takes the
lock, and the ready queue of the loop and the waiters of the lock are both first in, first
out, so a call is not passed over for ever. `WeightTransfer!FairSpec` is weak
fairness of each process, of each device's stream and of each read that has begun; none
of them can fail in the model.

## 4. Proofs

TLAPS proves the following for every value of the constants that meets the
modules' assumptions, and for every bound.

`PlaybookProofs`. `TypeCorrect` is an induction over the actions, resting on one
lemma per operator (`WithoutBook`, `ApplyTagsBook`, `AddBulletsBook`, ...) that says
it maps a book to a book. `IdsAreIssued`, `UsesAreRecorded` and `IdsNeverReused`
follow from `SoundInv`. Neither property is inductive alone: a resume brings back
`saved`, so the invariant must hold of `saved` as well, and a snapshot taken at
one time is compared to the `next_global_id` of a later one, so the invariant
needs that steps only move the counters forward (`ForwardStep`).
No run checks `NoIdReuse` by itself: `Learns` of `LessonBook` asks the same of the ids a
step adds, and `playbook_staleness` checks `BookSpec`.
`PromptsAreBounded` and `EntriesAreCapped` follow from `CapInv`, which adds what
each phase may assume of the active playbooks, over cardinality lemmas: the
purge and the drops of any method leave at most `MaxBullets` (`RemovalsMeetCap`).
`EntriesAreCapped` assumes `ConciseAfterCuration`, and must: the option is off by
default, the concise at the start of `update()` comes before the curator adds, and
TLC finds `MaxEntries` violated as soon as the constant is `FALSE`.
`EvictionIsFair` (`FairEviction`) is a counting: an eviction drops as many
as are too many and takes the least recently used first, so if it reaches a bullet worth
keeping, what is left is exactly the cap. `StudentIsInSync` (`StudentInSync`) is for a
single key, since `should_sync_student` looks at one playbook; with several the theorem
would be false, see section 3. `NoneLingers` (`NoLingering`) has the longest invariant
(`LingerInv`, split into what holds during an update and between two). It has to speak of
ids that have a recorded use and no bullet, since the reflector may tag a bullet that does
not exist, and of the checkpoint, since a resume brings an older age back. What it says is
about bullets never tagged helpful or harmful: helpful ones stay however old they are.
`ImplementsBook` is the refinement of `LessonBook`. Most of it was there: `KeyStep` says what
a step does to one playbook, `CapInv` that the cap is met where an update ends. What it
adds is that each of these is a `Forgets`, a `Learns` or neither (`BookMoves`), and that a
batch has active keys exactly while an update is running (`IdleInv`), on whose keys alone
its phases work (`BatchInv`).

`RepliesAreOwn` (`LessonsOwn`) is for any number of rows and workers, any grouping of
examples under playbooks, with and without deduplication. A list of positions is ascending
and names each once (`ListingIn`, `ListingOnto`), deduplication keeps one position of each
example (`KeptOnce`), and padding puts nothing before the prompts it repeats
(`AnswersInOrder`); the invariant (`ListsInv`) says of `incorrect`, `correct` and
`reflections` which rows they are about at each phase, and that the keys of these rows are
those of the batch. `RowsImplement` says that each step is one of `Playbook`: tag lists
grouped by key give a tally that `Playbook` allows (`TalliedIsTally`, `GroupedTags`), and
curations that parse are `curated` keys.

`CheckpointProofs`. `TypeCorrect` rests on `TypeInv`: without knowing that `step`
is a step while a save is running, the directory a save writes need not exist.
`BufferKept` proves `SafetyBuffer` for every limit and every resume mode; it
needs `PathInv`, that the list of saved paths is ascending and names whole
checkpoints of this process, since what the rotation deletes is counted by the
list and what it leaves by the disk. `TrackedIsComplete` and `OriginIsOne` follow from
`TrackInv` under two assumptions: the limit is not 1, when the tracked save loses its
actor before the new one is complete (section 3), and directories are not picked by
hand, which the code leaves to the operator. The heart of `TrackInv` is that the tracked
step is either not in the list of this process or its last entry, while the
rotation only takes entries before the last.
`DiskIsBounded` proves `DiskBounded`, for every limit and resume mode. One invariant
(`KeepInv`) says that no file is younger than the process, that every whole actor checkpoint
of this process is on its list or is the one about to be registered, and that the list
is within the limit; a crash begins a new life, of which there is no file. The other
(`DiskInv`) counts the directories with an actor that the process does not know of, that are
neither on its list nor the one it is writing (`Foreign`): no step adds to them but a crash,
which hands over all that the process knew, the buffer and one more.
`WeightsAreKept` proves `WeightsSurvive`. It needs that the actor which survives is not the
one being written (`WeightsInv`): at first it is the one the process resumed from, which is
older than the next save and on no list, then the last on the list.

`TeacherClientProofs`. Everything is proved for any number of threads, workers, batches
and deaths under `NumMicrobatches = 1`, which is how the trainer constructs the client:
then a thread holds one future (`Hands`) and no group is cut. `NoneIsLost` is
`NothingLost`, an equation on cardinalities; its inductive form `Placed` says which place
excludes which, and a new batch finds them all empty because the trainer resolves every
future of the last one first (`Resolved`). `FeedbackIsOwn` is `FeedbackOwn`. That an answer
is about the future the thread holds (`Matching`) needs `Single`: a thread has one message
in the system, as request, at a worker or as answer, and only while its socket refuses to
send. That is what the state of the REQ socket is worth: after a timeout the late answer may
still come, but the thread can send no second request it could be taken for.

`StreamTrainerProofs`. `TypeCorrect` needs what may be read where (`TypeInv`):
for instance that a batch was taken while one is worked on.
`CheckpointNamed` (`SavedStep`, a part of `BatchesInOrder`) and `StepsLogged` are countings
(`CountInv`, `LogInv`) that tie
`global_steps` to the gradient steps made, at every place and in the checkpoint.
`AlwaysOnPolicy` is `PolicyInv`: at each place what the replicas hold, which is what the
next generation will use. `BatchesTrainedInOrder` is the one that crosses restarts:
the weights of the checkpoint must be whole batches in order for the resumed process
to continue them, so `OrderInv` says the same of `saved` as of the weights, and of the
running batch that it has `iter` or `iter + 1` updates, depending on the place.
`BaselinesFirst` needs `PastInv`, that each baseline splits the weights into those
before and those from its batch on. `DemonstrationsOwn` needs that every stored
solution is a success of the example it is stored for (`SolutionInv`), whatever the
reordering. `StopsAsScored` proves `StopByPrompt` for every threshold, size and number
of updates under `~BalanceBatch`: without the reordering the rows of a prompt are
where position says (`InPlace`). The run `stream_early_stop` shows that assumption
needed.

`SampleFlow`. `FlowOnce`: whatever the order of its steps, the abstract flow has each
sample in one place and trains on it at most once. The invariant adds that no sample
beyond `issued` is anywhere and that a queue and a batch hold a sample once; the lemmas
`Queued` and `QueuedOnce` say it of a bounded queue that drops its oldest entry.

`FullyAsyncProofs`. `TypeCorrect` and `LockHeld` come from one invariant, `TypeInv`: the
types need to know where the processor holds a sample (`Holding`: the sample is there from
the moment it is taken to its submission, and in the waiting loop of the limit only), and
the coroutine that waits inside the lock must be its owner (`Exclusive`), or `Tail(lock)`
need not be defined. There is one lemma per action of the rollouter, and one per way of
using the lock. `Implements` is the refinement of `SampleFlow`: with `Places`, that a
sample under way is in the hands of the processor, in generation or cancelled, and in one
of them only, each action is a step of one sample or a stutter (`Unseen`). `TrainedOnce`, that
no sample is in two places or trained on twice (`Once`), is then inherited from
`FlowOnce`; nothing about locks, cancellation or versions is needed for it.
`SamplesAreFresh` proves `Fresh`, for which `FreshInv` ties together counts that are kept
in different processes. `Limits` says what `staleness_samples` is worth: it bounds the
samples under way, but for the one in the processor's hands at the last count, and for
those the trainer took since it made the weights of that count (`Since`). The limit of the
processor then bounds both together, so that a sample, which has all those under way ahead
of it at most when it enters the queue, is taken before too many others are: `Dated` says
that of each entry by its place in the queue. `Counted` is needed since the tasks that
`update_param_version()` counts may end before it writes the count; `Versions`, that
trainer, servers and rollouter are at most one version apart each. The marker of the end
is an entry of the queue and no sample (`Ahead`), and it can be dropped like one.

`ManufactoriaProofs`. `TypeCorrect`, and `ValidatedRuns`, which proves `KnownNodes` for
every text, test and limit. `KnownNodes` is not inductive: that the robot's next node is
known follows from the routes of the node it is at, so the invariant (`InProgram`) says
of all routes of a validated program what the parser checked. `ScoredByProgram` proves
`Verdicts`. `StepRewrites` shows for each kind of node that the step of the robot is the
one rewriting its rules allow, and `Played`, the invariant, that a robot is where `Run` has
it after as many nodes, that no node before let it stop, and that the tests before are
judged rightly. Where the limit ends a robot the run has not stopped one node earlier;
otherwise it has and stays where it is (`RunStays`), so `Record` sees what `Run` gives. The
equations of `Run`, a recursive function, hold for every number of nodes by induction
(`TraceExists`, `TracesAgree`, `RunSteps`). `Induction` is that rule for sets of natural
numbers: one that lacks a number lacks a smallest one, as the naturals are well-founded.

`WeightTransferProofs`. `BuffersUntouched` proves `Untouched` for every chain, model, bucket
size and grouping of the workers into replicas, without any arithmetic of sizes: it needs
only which buffer is in whose hands. The invariant (`DoubleBuffer`) has a part for each pair
of neighbours. `Edge`: between two nodes there is one message or one read at a time, of the
buffer posted, into the one that is not sent. `Own`: the device copies from or to the
current buffer, and a node about to post has nothing posted. `Hand`: the buffer shared
with the inference worker is with one of the two. A new update starts with nothing under way
because a leader's `done` waits for all its workers.

`LoadedIntact` proves `Intact` under the same generality, from a second invariant (`Data`)
that says what lies in each buffer. Positions in the model are not kept anywhere; they are
counted from the far end: what a server has cloned, then what its node has yielded, and from
there where the bucket in hand begins (`Begin`) and ends, up to the end of the one being
read (`Received`). `Link` says that this is where the node before stands, or one message
behind it, so buckets follow each other down the chain without a gap. `Filling`, `Link`,
`Reading`, `Current` and `Consumer` then say of the buffer a node fills, has posted, reads
into, passes on and shares that the weights of those positions are whole in it, as far as
the device, the read or the network has come: a `Queue` of copies not yet made is the last
part of the bucket's metadata. `Kept`, which `BuffersUntouched` rests on, carries these
over the steps of the others, so each lemma is about the node that moves and
the message it sends (`Elsewhere`). `Task` and `Meeting` say what an inference worker was
asked for and that the last task completes the model. `Implements` is the
refinement of `WeightUpdate` by the same invariant: loading a bucket is a load or, when the
bucket is empty, a stutter, and where an update ends every server has all the weights.
`TypeCorrect` needs both invariants for its bounds on messages and requests.

**Model-checked only.** `SavePublished`, `RoundEnds`, `QuietEnds` and
`UpdatesEnd` are liveness properties under fairness, which the proof system does not
reach, as it does not reach `ENABLED`, the induction theorems that take a predicate as a
parameter, or operators declared recursive; none of these is used in a module with a proof.
Every invariant and every other action property of the passing runs is proved for all
values of the constants.

## 5. Not modelled, and why

* Updater: the wording of bullets, sections and prompts; loading a `state_dict` of another
  `playbook_mode` or an older format; an exception in the middle of the
  operations of a batch, which ends the run.
* Checkpointing: I/O errors that are not a crash, a removal that stops half-way,
  writes the operating system loses after the process has returned from them,
  HDFS, `async_save`, another world size on resume. `resume_path` is modelled, but
  `OneOrigin` is stated for the resume by tracker only: an operator may pick any
  directory, and saving over a later one is then the operator's decision.
* Teacher: requests of several futures are in the module, but no run and no proof uses
  them, since the trainer makes none; malformed requests and answers; serialization; what a teacher says.
* Trainer: profiling, timing and metrics other than those that decide; the numbers of
  rewards, advantages and the KL term; reward models and `launch_reward_fn_async`,
  which the scripts leave off; `val_only`; a rollout engine on devices of its own;
  which text of the playbook a prompt holds (with the composition in section 6).
* Fully asynchronous training: validation on the servers or by the trainer,
  `save_checkpoint` (it documents that samples in flight are lost), the statistics, the
  continuation of a partial answer's tokens.
* Weight transfer: the NCCL and HCCL engines, which double-buffer over one broadcast;
  the colocated transfer; ranks of the trainer other than 0, which only consume the
  generator; the shared-memory variant of the buffer; a weight larger than the bucket,
  which is an assertion; a read that fails, which ends the process; replicas that come and
  go.
* Manufactoria: the text of the lines and the regular expressions, the rendering of the
  feedback, the mean over the records, `visualize`.
* The numerical parts (losses, advantages, simulation), the other reward functions, the
  inference engines, third-party code and the back ends inherited from verl that
  the RESD scripts do not use. `PROJECT.json` gives the reason for each.

## 6. Plan

Done: `LessonBook`, `Playbook`, `PlaybookRows`, `Checkpoint`, `TeacherClient`,
`StreamTrainer`, `SampleFlow`, `MessageQueue`, `Rollouter`, `FullyAsync`, `WeightUpdate`, `WeightTransfer`,
`Manufactoria`, with the proofs above. Next, in this order:

1. `Training`: `StreamTrainer`, `Playbook` and `Checkpoint` composed, so that a resume
   restores batch position, lessons and weights of the same instant. Property: what a
   resumed run does next is what the saved run would have done.
2. `RewardLimiter` and `ServerChoice`: limits of the reward loop, least-loaded sticky
   choice of a server; one-step-off-policy training.
3. Pure algorithms against reference definitions: the partition of sequence lengths,
   the small games.
