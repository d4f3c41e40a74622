------------------------------ MODULE Checkpoint ------------------------------
(***************************************************************************)
(* Checkpointing of the stream trainer: fit() saves at the end of an outer *)
(* batch, _save_checkpoint writes the actor shards of every rank, the      *)
(* dataloader state, the lessons of the context updater and last the       *)
(* tracker file that names the checkpoint; _load_checkpoint reads them     *)
(* back.  The checkpoint manager of rank 0 deletes old actor directories.  *)
(*                                                                         *)
(* A save is cut at every file it writes: the process may die at any of    *)
(* them, and the file then in progress is left as it was or torn.  Writes  *)
(* and rmtree do not fail otherwise, and what was written stays written.   *)
(***************************************************************************)
EXTENDS Integers, FiniteSets, Sequences

CONSTANTS
    Ranks,         \* FSDP ranks, each with a shard of the actor
    Batches,       \* len(train_dataloader)
    MaxUpdates,    \* max_updates_per_batch
    SaveFreq,      \* trainer.save_freq, in outer batches; 0 is "not positive"
    MaxKeep,       \* max_actor_ckpt_to_keep; 0 is None
    ResumeByPath,  \* a restart may also set resume_mode to "resume_path"
    MaxLives       \* bound: processes that run the training, one at a time

ASSUME RanksAssumption == IsFiniteSet(Ranks) /\ Ranks # {}
ASSUME ConfigAssumption ==
    /\ Batches \in Nat \ {0} /\ MaxUpdates \in Nat \ {0}
    /\ SaveFreq \in Nat /\ MaxKeep \in Nat
    /\ ResumeByPath \in BOOLEAN
    /\ MaxLives \in Nat \ {0}

MaxStep == Batches * MaxUpdates
Steps == 1..MaxStep
Lives == 1..MaxLives

\* A file is missing, torn, or the one a process wrote: the number of its life.
None == 0
Torn == -1
Files == {None, Torn} \cup Lives

VARIABLES
    disk,     \* what each directory global_step_<s> holds
    tracker,  \* latest_checkpointed_iteration.txt: a step, None or Torn
    paths,    \* previous_saved_paths of rank 0's checkpoint manager
    step,     \* global_steps of the last gradient step
    position, \* batches taken from the dataloader
    origin,   \* the lives whose files this process resumed from, None if it
              \* started something from scratch
    life,     \* the process, counted from 1
    pc        \* where the process is

vars == <<disk, tracker, paths, step, position, origin, life, pc>>

-----------------------------------------------------------------------------

EmptyDir == [shard |-> [r \in Ranks |-> None], data |-> None,
             lessons |-> None, position |-> 0]

Dirs == [shard: [Ranks -> Files], data: Files, lessons: Files,
         position: 0..Batches]

Init ==
    /\ disk = [s \in Steps |-> EmptyDir]
    /\ tracker = None
    /\ paths = << >>
    /\ step = 0
    /\ position = 0
    /\ origin = {None}
    /\ life = 1
    /\ pc = "load"

\* Every rank's shard is there as life l wrote it.
ActorOf(s, l) == \A r \in Ranks : disk[s].shard[r] = l

\* Mutant of AfterBatch: the last batch is not seen to be the last.
AfterBatchLate(p) == IF p > Batches THEN "done" ELSE "train"

\* fit() returns when the dataloader is exhausted.
AfterBatch(p) == IF p = Batches THEN "done" ELSE "train"

-----------------------------------------------------------------------------
(* Loading *)

LoadScratch ==
    /\ pc = "load"
    /\ tracker = None
    /\ step' = 0
    /\ position' = 0
    /\ origin' = {None}
    /\ pc' = "train"
    /\ UNCHANGED <<disk, tracker, paths, life>>

Exists(s) == disk[s] # EmptyDir

\* The directories a resume may read: the one the tracker names or, with
\* resume_path, any.
Resumable == {s \in Steps : s = tracker \/ (ResumeByPath /\ Exists(s))}

\* A missing or torn shard raises, and so does a torn data.pt or
\* context_updater.json; if these two are missing there is only a warning.
Loads(s) ==
    /\ \A r \in Ranks : disk[s].shard[r] \in Lives
    /\ disk[s].data # Torn
    /\ disk[s].lessons # Torn

LoadFrom(s) ==
    /\ pc = "load"
    /\ tracker # Torn
    /\ s \in Resumable
    /\ Loads(s)
    /\ step' = s
    /\ position' = IF disk[s].data = None THEN 0 ELSE disk[s].position
    /\ origin' = {disk[s].shard[r] : r \in Ranks}
                    \cup {disk[s].data, disk[s].lessons}
    /\ pc' = AfterBatch(position')
    /\ UNCHANGED <<disk, tracker, paths, life>>

\* int("") of find_latest_ckpt_path raises in every resume mode.
LoadFails ==
    /\ pc = "load"
    /\ tracker = Torn \/ \E s \in Resumable : ~Loads(s)
    /\ pc' = "failed"
    /\ UNCHANGED <<disk, tracker, paths, step, position, origin, life>>

-----------------------------------------------------------------------------
(* Training and saving *)

\* One outer batch: one or more gradient steps, then perhaps a save.  The
\* instance expiry (ESI) that forces a save may come at any batch.
TrainBatch ==
    /\ pc = "train"
    /\ \E k \in 1..MaxUpdates, esi \in BOOLEAN :
          /\ step + k <= MaxStep
          /\ step' = step + k
          /\ position' = position + 1
          /\ pc' = IF /\ SaveFreq > 0
                      /\ \/ position' = Batches
                         \/ position' % SaveFreq = 0
                         \/ esi
                   THEN "capacity" ELSE AfterBatch(position')
    /\ UNCHANGED <<disk, tracker, paths, origin, life>>

\* remove_previous_save_local_path on the n oldest paths: the actor
\* directories go, data.pt and context_updater.json beside them stay.
RemoveOldest(saved, n) ==
    /\ disk' = [s \in Steps |->
                   IF \E i \in 1..n : saved[i] = s
                   THEN [disk[s] EXCEPT !.shard = EmptyDir.shard]
                   ELSE disk[s]]
    /\ paths' = SubSeq(saved, n + 1, Len(saved))

\* Mutant of EnsureCapacity: one checkpoint too many goes.
EnsureCapacityOneMore ==
    /\ pc = "capacity"
    /\ IF MaxKeep > 1 /\ Len(paths) >= MaxKeep
       THEN RemoveOldest(paths, Len(paths) - MaxKeep + 2)
       ELSE UNCHANGED <<disk, paths>>
    /\ pc' = "shards"
    /\ UNCHANGED <<tracker, step, position, origin, life>>

\* ensure_checkpoint_capacity, by rank 0 before anything is written.
EnsureCapacity ==
    /\ pc = "capacity"
    /\ IF MaxKeep > 1 /\ Len(paths) >= MaxKeep
       THEN RemoveOldest(paths, Len(paths) - MaxKeep + 1)
       ELSE UNCHANGED <<disk, paths>>
    /\ pc' = "shards"
    /\ UNCHANGED <<tracker, step, position, origin, life>>

\* One rank finishes its model, optimizer and extra files.
SaveShard(r) ==
    /\ pc = "shards"
    /\ disk[step].shard[r] # life
    /\ disk' = [disk EXCEPT ![step].shard[r] = life]
    /\ UNCHANGED <<tracker, paths, step, position, origin, life, pc>>

\* register_checkpoint on the list with the new path.
Registered(saved) ==
    IF MaxKeep > 0 /\ Len(saved) > MaxKeep
    THEN RemoveOldest(saved, Len(saved) - MaxKeep)
    ELSE disk' = disk /\ paths' = saved

\* Mutants of Register: without the barrier; without the removal; and with a
\* wait for a file the driver writes only after the actor is saved.
RegisterNoBarrier ==
    /\ pc = "shards"
    /\ \E r \in Ranks : disk[step].shard[r] = life
    /\ Registered(Append(paths, step))
    /\ pc' = "data"
    /\ UNCHANGED <<tracker, step, position, origin, life>>
RegisterOnly ==
    /\ pc = "shards"
    /\ ActorOf(step, life)
    /\ paths' = Append(paths, step)
    /\ pc' = "data"
    /\ UNCHANGED <<disk, tracker, step, position, origin, life>>
RegisterAfterData ==
    /\ pc = "shards"
    /\ ActorOf(step, life) /\ disk[step].data = life
    /\ Registered(Append(paths, step))
    /\ pc' = "data"
    /\ UNCHANGED <<tracker, step, position, origin, life>>

\* Behind the barrier, when every rank is done, rank 0 registers the path.
Register ==
    /\ pc = "shards"
    /\ ActorOf(step, life)
    /\ Registered(Append(paths, step))
    /\ pc' = "data"
    /\ UNCHANGED <<tracker, step, position, origin, life>>

\* Mutant of SaveData: the tracker is written before the lessons.
SaveDataThenTracker ==
    /\ pc = "data"
    /\ disk' = [disk EXCEPT ![step].data = life, ![step].position = position]
    /\ pc' = "tracker"
    /\ UNCHANGED <<tracker, paths, step, position, origin, life>>

SaveData ==
    /\ pc = "data"
    /\ disk' = [disk EXCEPT ![step].data = life, ![step].position = position]
    /\ pc' = "lessons"
    /\ UNCHANGED <<tracker, paths, step, position, origin, life>>

SaveLessons ==
    /\ pc = "lessons"
    /\ disk' = [disk EXCEPT ![step].lessons = life]
    /\ pc' = "tracker"
    /\ UNCHANGED <<tracker, paths, step, position, origin, life>>

WriteTracker ==
    /\ pc = "tracker"
    /\ tracker' = step
    /\ pc' = AfterBatch(position)
    /\ UNCHANGED <<disk, paths, step, position, origin, life>>

-----------------------------------------------------------------------------
(* Crashes *)

\* What the unfinished write of a process that dies leaves behind.
TornOr(file) == {file, Torn}

TornShards == {f \in [Ranks -> Files] :
    \A r \in Ranks : f[r] \in
        IF disk[step].shard[r] = life THEN {life}
        ELSE TornOr(disk[step].shard[r])}

\* What a crash leaves of the file or the shards in progress.
CrashDisk ==
    CASE pc = "shards" -> {[disk EXCEPT ![step].shard = f] : f \in TornShards}
      [] pc = "data" -> {[disk EXCEPT ![step].data = f] :
                            f \in TornOr(disk[step].data)}
      [] pc = "lessons" -> {[disk EXCEPT ![step].lessons = f] :
                               f \in TornOr(disk[step].lessons)}
      [] OTHER -> {disk}

\* The process dies and another one starts; paths is memory only.
Crash ==
    /\ pc \notin {"done", "failed"}
    /\ life < MaxLives
    /\ disk' \in CrashDisk
    /\ tracker' \in IF pc = "tracker" THEN TornOr(tracker) ELSE {tracker}
    /\ paths' = << >>
    /\ life' = life + 1
    /\ pc' = "load"
    /\ UNCHANGED <<step, position, origin>>

Saving ==
    \/ EnsureCapacity
    \/ \E r \in Ranks : SaveShard(r)
    \/ Register
    \/ SaveData
    \/ SaveLessons
    \/ WriteTracker

Next ==
    \/ LoadScratch
    \/ \E s \in Steps : LoadFrom(s)
    \/ LoadFails
    \/ TrainBatch
    \/ Saving
    \/ Crash

Spec == Init /\ [][Next]_vars

\* A rank or the driver that can go on with a save does so.
FairSpec == Spec /\ WF_vars(Saving)

-----------------------------------------------------------------------------
(* Properties *)

TypeOK ==
    /\ disk \in [Steps -> Dirs]
    /\ tracker \in {None, Torn} \cup Steps
    /\ paths \in Seq(Steps)
    /\ step \in 0..MaxStep
    /\ position \in 0..Batches
    /\ origin \subseteq {None} \cup Lives
    /\ life \in Lives
    /\ pc \in {"load", "train", "capacity", "shards", "data", "lessons",
               "tracker", "done", "failed"}

\* "latest checkpointed iteration tracker (for atomic usage)": whatever the
\* moment of a crash, the checkpoint the tracker names has every shard, the
\* dataloader state and the lessons, all written by one process.
TrackedComplete ==
    tracker \in Steps =>
        \E l \in Lives : /\ ActorOf(tracker, l)
                         /\ disk[tracker].data = l
                         /\ disk[tracker].lessons = l

\* A process resumes the model, the dataloader and the lessons of one save,
\* or starts all of them from scratch: never trained weights with an empty
\* playbook or with batches already seen.
OneOrigin ==
    pc \notin {"load", "failed"} => Cardinality(origin) = 1

\* The actor checkpoints this process has written and not deleted.
Whole == {s \in Steps : ActorOf(s, life)}

\* "keeping a safety buffer": with a limit of 1 the existing checkpoint stays
\* until the new one is complete on every rank, with a higher limit all but
\* one stay.  Once a process has written so many, no step of it leaves fewer.
Buffer == IF MaxKeep > 1 THEN MaxKeep - 1 ELSE 1

SafetyBuffer ==
    [][life' = life /\ Cardinality(Whole) >= Buffer =>
            Cardinality(Whole') >= Buffer]_vars

\* The directories with an actor in them, whole or not.
OnDisk == {s \in Steps : disk[s].shard # EmptyDir.shard}

\* "keeping at most max_ckpt_to_keep": when no save is running, a process has
\* left no more actor checkpoints than that.  It does not know the directories
\* of the processes before it and leaves them, so that a run with crashes
\* holds more; but never more than the buffer and the one being written for
\* every process there was (previous_saved_paths starts empty).
DiskBounded ==
    MaxKeep > 0 =>
        /\ pc \in {"train", "done"} => Cardinality(Whole) <= MaxKeep
        /\ Cardinality(OnDisk) <= life * (Buffer + 1)

\* Once a checkpoint has been published, some directory holds an actor that
\* can be loaded on every rank, at every instant, with a limit of 1 and when
\* an operator picks the directory too: the window in which the tracker names
\* an actor that is deleted costs the resume, never the weights.
WeightsSurvive ==
    tracker # None => \E s \in Steps : \A r \in Ranks : disk[s].shard[r] \in Lives

\* A save that is not interrupted is published by the tracker: the ranks do
\* not wait for each other or for the driver forever.
SavePublished ==
    \A s \in Steps :
        pc = "capacity" /\ step = s ~> tracker = s \/ pc = "load"

=============================================================================
