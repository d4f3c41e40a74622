--------------------------- MODULE CheckpointProofs ---------------------------
(***************************************************************************)
(* What holds of Checkpoint for every number of ranks, batches, updates    *)
(* and crashes, and every setting of the trainer and the checkpoint        *)
(* manager that a theorem does not exclude.                                *)
(***************************************************************************)
EXTENDS Checkpoint, FiniteSetTheorems, SequenceTheorems, TLAPS

-----------------------------------------------------------------------------
(* The effect of the steps on the directories *)

LEMMA MaxStepNat == MaxStep \in Nat
BY ConfigAssumption DEF MaxStep

LEMMA EmptyDirType == EmptyDir \in Dirs
BY ConfigAssumption DEF EmptyDir, Dirs, Files

\* The n oldest entries of saved are gone from paths and their shards from
\* the disk, nothing else has changed.
Kept(saved, n) ==
    /\ paths' \in Seq(Steps)
    /\ Len(paths') = Len(saved) - n
    /\ \A i \in 1..Len(paths') : paths'[i] = saved[i + n]
    /\ disk' \in [Steps -> Dirs]
    /\ \A s \in Steps : /\ disk'[s].data = disk[s].data
                        /\ disk'[s].lessons = disk[s].lessons
    /\ \A s \in Steps : (\A i \in 1..n : saved[i] # s) => disk'[s] = disk[s]
    /\ \A s \in Steps : (\E i \in 1..n : saved[i] = s) =>
          \A r \in Ranks : disk'[s].shard[r] = None

LEMMA Removed ==
    ASSUME disk \in [Steps -> Dirs], NEW saved \in Seq(Steps),
           NEW n \in 0..Len(saved), RemoveOldest(saved, n)
    PROVE  Kept(saved, n)
<1>1. /\ paths' \in Seq(Steps)
      /\ Len(paths') = Len(saved) - n
      /\ \A i \in 1..Len(paths') : paths'[i] = saved[i + n]
  <2>1. /\ Len(saved) \in Nat
        /\ n + 1 \in 1..(Len(saved) + 1)
        /\ Len(saved) \in n..Len(saved)
    OBVIOUS
  <2>2. paths' = SubSeq(saved, n + 1, Len(saved))
    BY DEF RemoveOldest
  <2> QED BY <2>1, <2>2, SubSeqProperties
<1>2. \A s \in Steps : [disk[s] EXCEPT !.shard = EmptyDir.shard] \in Dirs
  BY EmptyDirType DEF Dirs
<1>3. disk' \in [Steps -> Dirs]
  BY <1>2 DEF RemoveOldest
<1>4. \A s \in Steps :
          /\ disk'[s].data = disk[s].data
          /\ disk'[s].lessons = disk[s].lessons
          /\ (\A i \in 1..n : saved[i] # s) => disk'[s] = disk[s]
  BY DEF RemoveOldest, Dirs
<1>5. ASSUME NEW s \in Steps, \E i \in 1..n : saved[i] = s, NEW r \in Ranks
      PROVE  disk'[s].shard[r] = None
  BY <1>5 DEF RemoveOldest, Dirs, EmptyDir
<1> QED BY <1>1, <1>3, <1>4, <1>5 DEF Kept

LEMMA NothingRemoved ==
    ASSUME disk \in [Steps -> Dirs], NEW saved \in Seq(Steps),
           disk' = disk, paths' = saved
    PROVE  Kept(saved, 0)
BY DEF Kept

\* ensure_checkpoint_capacity leaves at most max_ckpt_to_keep - 1 paths, and
\* that many if it removes any.
LEMMA CapacityKeeps ==
    ASSUME TypeOK, EnsureCapacity
    PROVE  \E n \in 0..Len(paths) :
              /\ Kept(paths, n)
              /\ n > 0 => MaxKeep > 1 /\ Len(paths) - n >= MaxKeep - 1
              /\ MaxKeep > 1 => Len(paths) - n <= MaxKeep - 1
<1>1. CASE MaxKeep > 1 /\ Len(paths) >= MaxKeep
  <2> DEFINE n == Len(paths) - MaxKeep + 1
  <2>1. n \in 0..Len(paths) /\ Len(paths) - n = MaxKeep - 1
    BY <1>1, ConfigAssumption DEF TypeOK
  <2>2. RemoveOldest(paths, n)
    BY <1>1 DEF EnsureCapacity
  <2>3. Kept(paths, n)
    BY <2>1, <2>2, Removed DEF TypeOK
  <2>4. MaxKeep - 1 >= MaxKeep - 1 /\ MaxKeep - 1 <= MaxKeep - 1
    BY ConfigAssumption
  <2> QED BY <1>1, <2>1, <2>3, <2>4
<1>2. CASE ~(MaxKeep > 1 /\ Len(paths) >= MaxKeep)
  <2>1. Kept(paths, 0)
    BY <1>2, NothingRemoved DEF EnsureCapacity, TypeOK
  <2>2. 0 \in 0..Len(paths) /\ (MaxKeep > 1 => Len(paths) - 0 <= MaxKeep - 1)
    BY <1>2, ConfigAssumption DEF TypeOK
  <2> QED BY <2>1, <2>2
<1> QED BY <1>1, <1>2

\* register_checkpoint leaves at most max_ckpt_to_keep paths, and that many
\* if it removes any.
LEMMA RegisterKeeps ==
    ASSUME TypeOK, step \in Steps, Register
    PROVE  \E n \in 0..Len(paths) :
              /\ Kept(Append(paths, step), n)
              /\ n > 0 => MaxKeep > 0 /\ Len(paths) + 1 - n = MaxKeep
              /\ MaxKeep > 0 => Len(paths) + 1 - n <= MaxKeep
<1> DEFINE saved == Append(paths, step)
<1>1. saved \in Seq(Steps) /\ Len(saved) = Len(paths) + 1
  BY DEF TypeOK
<1>2. CASE MaxKeep > 0 /\ Len(saved) > MaxKeep
  <2> DEFINE n == Len(saved) - MaxKeep
  <2>1. n \in 0..Len(paths) /\ n \in 0..Len(saved)
    BY <1>1, <1>2, ConfigAssumption DEF TypeOK
  <2>2. RemoveOldest(saved, n)
    BY <1>2 DEF Register, Registered
  <2>3. Kept(saved, n)
    BY <1>1, <2>1, <2>2, Removed DEF TypeOK
  <2>4. Len(paths) + 1 - n = MaxKeep
    BY <1>1, ConfigAssumption DEF TypeOK
  <2> QED BY <1>2, <2>1, <2>3, <2>4
<1>3. CASE ~(MaxKeep > 0 /\ Len(saved) > MaxKeep)
  <2>1. disk' = disk /\ paths' = saved
    BY <1>3 DEF Register, Registered
  <2>2. Kept(saved, 0)
    BY <1>1, <2>1, NothingRemoved DEF TypeOK
  <2>3. 0 \in 0..Len(paths)
    BY DEF TypeOK
  <2>4. MaxKeep > 0 => Len(paths) + 1 - 0 <= MaxKeep
    BY <1>1, <1>3, ConfigAssumption DEF TypeOK
  <2> QED BY <2>2, <2>3, <2>4
<1> QED BY <1>2, <1>3

\* A rank's shard is all that SaveShard changes.
LEMMA ShardSaved ==
    ASSUME TypeOK, step \in Steps, NEW r \in Ranks, SaveShard(r)
    PROVE  /\ disk' \in [Steps -> Dirs]
           /\ \A s \in Steps :
                 /\ disk'[s].data = disk[s].data
                 /\ disk'[s].lessons = disk[s].lessons
                 /\ s # step => disk'[s] = disk[s]
                 /\ \A q \in Ranks :
                       disk'[s].shard[q] = IF s = step /\ q = r THEN life
                                           ELSE disk[s].shard[q]
<1>1. disk[step] \in Dirs /\ life \in Files
  BY DEF TypeOK, Files
<1>2. [disk[step] EXCEPT !.shard[r] = life] \in Dirs
  BY <1>1 DEF Dirs
<1>3. disk' = [disk EXCEPT ![step] = [disk[step] EXCEPT !.shard[r] = life]]
  BY DEF SaveShard, TypeOK
<1> QED BY <1>1, <1>2, <1>3 DEF TypeOK, Dirs

\* SaveData and SaveLessons touch no shard.
LEMMA DataSaved ==
    ASSUME TypeOK, step \in Steps, SaveData
    PROVE  /\ disk' \in [Steps -> Dirs]
           /\ disk'[step].data = life
           /\ \A s \in Steps : disk'[s].shard = disk[s].shard
           /\ \A s \in Steps : s # step => disk'[s] = disk[s]
<1>1. disk[step] \in Dirs /\ life \in Files /\ position \in 0..Batches
  BY DEF TypeOK, Files
<1>2. [disk[step] EXCEPT !.data = life, !.position = position] \in Dirs
  BY <1>1 DEF Dirs
<1>3. disk' = [disk EXCEPT ![step] =
                  [disk[step] EXCEPT !.data = life, !.position = position]]
  BY DEF SaveData, TypeOK
<1> QED BY <1>1, <1>2, <1>3 DEF TypeOK, Dirs

LEMMA LessonsSaved ==
    ASSUME TypeOK, step \in Steps, SaveLessons
    PROVE  /\ disk' \in [Steps -> Dirs]
           /\ disk'[step].lessons = life
           /\ disk'[step].data = disk[step].data
           /\ \A s \in Steps : disk'[s].shard = disk[s].shard
           /\ \A s \in Steps : s # step => disk'[s] = disk[s]
<1>1. disk[step] \in Dirs /\ life \in Files
  BY DEF TypeOK, Files
<1>2. [disk[step] EXCEPT !.lessons = life] \in Dirs
  BY <1>1 DEF Dirs
<1>3. disk' = [disk EXCEPT ![step] = [disk[step] EXCEPT !.lessons = life]]
  BY DEF SaveLessons, TypeOK
<1> QED BY <1>1, <1>2, <1>3 DEF TypeOK, Dirs

\* A crash tears files of the current step only, and only during a save.
Writing == pc \in {"capacity", "shards", "data", "lessons", "tracker"}

LEMMA CrashTears ==
    ASSUME TypeOK, Writing => step \in Steps, Crash
    PROVE  /\ disk' \in [Steps -> Dirs]
           /\ \A s \in Steps : disk'[s] = disk[s] \/ (Writing /\ s = step)
<1>1. CASE pc = "shards"
  <2>1. PICK f \in TornShards : disk' = [disk EXCEPT ![step].shard = f]
    BY <1>1 DEF Crash, CrashDisk
  <2>2. step \in Steps /\ f \in [Ranks -> Files]
    BY <1>1, <2>1 DEF Writing, TornShards
  <2>3. [disk[step] EXCEPT !.shard = f] \in Dirs
    BY <2>2 DEF TypeOK, Dirs
  <2>4. disk' = [disk EXCEPT ![step] = [disk[step] EXCEPT !.shard = f]]
    BY <2>1
  <2> QED BY <1>1, <2>2, <2>3, <2>4 DEF TypeOK, Writing
<1>2. CASE pc = "data"
  <2>1. PICK f \in TornOr(disk[step].data) :
            disk' = [disk EXCEPT ![step].data = f]
    BY <1>2 DEF Crash, CrashDisk
  <2>2. step \in Steps
    BY <1>2 DEF Writing
  <2>3. disk[step] \in Dirs /\ f \in Files
    BY <2>1, <2>2 DEF TornOr, TypeOK, Dirs, Files
  <2>4. [disk[step] EXCEPT !.data = f] \in Dirs
    BY <2>3 DEF Dirs
  <2>5. disk' = [disk EXCEPT ![step] = [disk[step] EXCEPT !.data = f]]
    BY <2>1
  <2> QED BY <1>2, <2>2, <2>4, <2>5 DEF TypeOK, Writing
<1>3. CASE pc = "lessons"
  <2>1. PICK f \in TornOr(disk[step].lessons) :
            disk' = [disk EXCEPT ![step].lessons = f]
    BY <1>3 DEF Crash, CrashDisk
  <2>2. step \in Steps
    BY <1>3 DEF Writing
  <2>3. disk[step] \in Dirs /\ f \in Files
    BY <2>1, <2>2 DEF TornOr, TypeOK, Dirs, Files
  <2>4. [disk[step] EXCEPT !.lessons = f] \in Dirs
    BY <2>3 DEF Dirs
  <2>5. disk' = [disk EXCEPT ![step] = [disk[step] EXCEPT !.lessons = f]]
    BY <2>1
  <2> QED BY <1>3, <2>2, <2>4, <2>5 DEF TypeOK, Writing
<1>4. CASE pc \notin {"shards", "data", "lessons"}
  BY <1>4 DEF Crash, CrashDisk, TypeOK
<1> QED BY <1>1, <1>2, <1>3, <1>4

-----------------------------------------------------------------------------
(* Type correctness *)

\* A save always has a step to write: fit() saves after a gradient step only.
\* And a batch is left whenever the loop goes on.
TypeInv ==
    /\ TypeOK
    /\ Writing => step \in Steps
    /\ pc = "train" => position < Batches

LEMMA TypeInit == Init => TypeInv
<1>1. EmptyDir \in Dirs /\ MaxStep \in Nat
  BY EmptyDirType, MaxStepNat
<1> QED BY <1>1, ConfigAssumption
      DEF Init, TypeInv, TypeOK, Writing, Steps, Lives, None, Torn

LEMMA TypeStep == TypeInv /\ [Next]_vars => TypeInv'
<1> SUFFICES ASSUME TypeInv, [Next]_vars PROVE TypeInv'
  OBVIOUS
<1> USE DEF TypeInv
<1>0. MaxStep \in Nat /\ Batches \in Nat
  BY MaxStepNat, ConfigAssumption
<1>1. CASE LoadScratch
  BY <1>0, <1>1, ConfigAssumption DEF LoadScratch, TypeOK, Writing
<1>2. ASSUME NEW s \in Steps, LoadFrom(s) PROVE TypeInv'
  <2>1. disk[s] \in Dirs
    BY DEF TypeOK
  <2>2. origin' \subseteq {None} \cup Lives
    BY <1>2, <2>1 DEF LoadFrom, Loads, Dirs, Files
  <2>3. position' \in 0..Batches /\ (pc' = "train" => position' < Batches)
    BY <1>0, <1>2, <2>1 DEF LoadFrom, Dirs, AfterBatch
  <2>4. step' \in 0..MaxStep
    BY <1>0, <1>2 DEF LoadFrom, Steps
  <2> QED BY <1>2, <2>2, <2>3, <2>4
        DEF LoadFrom, AfterBatch, TypeOK, Writing
<1>3. CASE LoadFails
  BY <1>3 DEF LoadFails, TypeOK, Writing
<1>4. CASE TrainBatch
  <2>1. PICK k \in 1..MaxUpdates, esi \in BOOLEAN :
            /\ step + k <= MaxStep
            /\ step' = step + k
            /\ position' = position + 1
            /\ pc' = IF /\ SaveFreq > 0
                        /\ \/ position' = Batches
                           \/ position' % SaveFreq = 0
                           \/ esi
                     THEN "capacity" ELSE AfterBatch(position')
    BY <1>4 DEF TrainBatch
  <2>2. step' \in Steps /\ step' \in 0..MaxStep
    BY <1>0, <2>1, ConfigAssumption DEF TypeOK, Steps
  <2>3. /\ pc' \in {"capacity", "done", "train"}
        /\ pc' = "train" => position' # Batches
    BY <2>1 DEF AfterBatch
  <2>4. position' \in 0..Batches /\ (pc' = "train" => position' < Batches)
    BY <1>0, <1>4, <2>1, <2>3 DEF TrainBatch, TypeOK
  <2> QED BY <1>4, <2>2, <2>3, <2>4 DEF TrainBatch, TypeOK
<1>5. CASE EnsureCapacity
  <2>1. PICK n \in 0..Len(paths) : Kept(paths, n)
    BY <1>5, CapacityKeeps
  <2> QED BY <1>5, <2>1 DEF EnsureCapacity, Kept, TypeOK, Writing
<1>6. ASSUME NEW r \in Ranks, SaveShard(r) PROVE TypeInv'
  <2>1. step \in Steps
    BY <1>6 DEF SaveShard, Writing
  <2> QED BY <1>6, <2>1, ShardSaved DEF SaveShard, TypeOK, Writing
<1>7. CASE Register
  <2>1. step \in Steps
    BY <1>7 DEF Register, Writing
  <2>2. PICK n \in 0..Len(paths) : Kept(Append(paths, step), n)
    BY <1>7, <2>1, RegisterKeeps
  <2> QED BY <1>7, <2>1, <2>2 DEF Register, Kept, TypeOK, Writing
<1>8. CASE SaveData
  <2>1. step \in Steps
    BY <1>8 DEF SaveData, Writing
  <2> QED BY <1>8, <2>1, DataSaved DEF SaveData, TypeOK, Writing
<1>9. CASE SaveLessons
  <2>1. step \in Steps
    BY <1>9 DEF SaveLessons, Writing
  <2> QED BY <1>9, <2>1, LessonsSaved DEF SaveLessons, TypeOK, Writing
<1>10. CASE WriteTracker
  <2>1. step \in Steps
    BY <1>10 DEF WriteTracker, Writing
  <2>2. pc' = "train" => position < Batches
    BY <1>0, <1>10 DEF WriteTracker, AfterBatch, TypeOK
  <2>3. pc' \in {"train", "done"}
    BY <1>10 DEF WriteTracker, AfterBatch
  <2> QED BY <1>10, <2>1, <2>2, <2>3 DEF WriteTracker, TypeOK, Writing
<1>11. CASE Crash
  <2>1. disk' \in [Steps -> Dirs]
    BY <1>11, CrashTears
  <2>2. life' \in Lives
    BY <1>11, ConfigAssumption DEF Crash, TypeOK, Lives
  <2>3. tracker' \in {None, Torn} \cup Steps
    BY <1>11 DEF Crash, TornOr, TypeOK
  <2> QED BY <1>11, <2>1, <2>2, <2>3 DEF Crash, TypeOK, Writing
<1>12. CASE UNCHANGED vars
  BY <1>12 DEF vars, TypeOK, Writing
<1> QED BY <1>1, <1>2, <1>3, <1>4, <1>5, <1>6, <1>7, <1>8, <1>9, <1>10,
           <1>11, <1>12 DEF Next, Saving

\* Every reachable state is well typed, whatever crashes and however the
\* training is resumed.
THEOREM TypeCorrect == Spec => []TypeOK
<1>1. TypeInv => TypeOK
  BY DEF TypeInv
<1> QED BY <1>1, TypeInit, TypeStep, PTL DEF Spec

-----------------------------------------------------------------------------
(* The paths of the checkpoint manager *)

\* The list grows with the steps, and every path on it is a whole actor
\* checkpoint of this process.  A new process starts with the empty list.
Ascending(p) == \A i, j \in 1..Len(p) : i < j => p[i] < p[j]

PathInv ==
    /\ pc \in {"load", "failed"} => paths = << >>
    /\ Ascending(paths)
    /\ \A i \in 1..Len(paths) :
          /\ ActorOf(paths[i], life)
          /\ paths[i] <= step
          /\ pc \in {"capacity", "shards"} => paths[i] < step
    /\ pc \in {"data", "lessons", "tracker"} => ActorOf(step, life)

LEMMA PathInit == Init => PathInv
BY DEF Init, PathInv, Ascending

\* What is removed is older than what stays, which is left as it was.
LEMMA KeptAscending ==
    ASSUME NEW saved \in Seq(Steps), Ascending(saved),
           NEW n \in 0..Len(saved), Kept(saved, n)
    PROVE  /\ Ascending(paths')
           /\ \A i \in 1..Len(paths') :
                 /\ i + n \in 1..Len(saved)
                 /\ paths'[i] = saved[i + n]
                 /\ disk'[paths'[i]] = disk[paths'[i]]
           /\ \A s \in Steps :
                 (\A i \in 1..n : saved[i] # s) => disk'[s] = disk[s]
<1>0. Len(saved) \in Nat /\ Len(paths') = Len(saved) - n
  BY DEF Kept
<1>1. \A i \in 1..Len(paths') :
          i + n \in 1..Len(saved) /\ paths'[i] = saved[i + n]
  BY <1>0 DEF Kept
<1>2. \A i \in 1..Len(saved) : saved[i] \in Steps /\ saved[i] \in Int
  BY MaxStepNat DEF Steps
<1>3. Ascending(paths')
  BY <1>0, <1>1 DEF Ascending
<1>4. ASSUME NEW i \in 1..Len(paths')
      PROVE  disk'[paths'[i]] = disk[paths'[i]]
  <2>1. ASSUME NEW j \in 1..n PROVE saved[j] # saved[i + n]
    <3>1. j \in 1..Len(saved) /\ i + n \in 1..Len(saved) /\ j < i + n
      BY <1>0, <1>1
    <3>2. saved[j] < saved[i + n]
      BY <3>1 DEF Ascending
    <3> QED BY <1>2, <3>1, <3>2
  <2> QED BY <1>1, <1>2, <2>1 DEF Kept
<1> QED BY <1>1, <1>3, <1>4 DEF Kept

LEMMA AppendAscending ==
    ASSUME TypeOK, step \in Steps, Ascending(paths),
           \A i \in 1..Len(paths) : paths[i] < step
    PROVE  LET saved == Append(paths, step)
           IN  /\ saved \in Seq(Steps) /\ Len(saved) = Len(paths) + 1
               /\ Ascending(saved)
               /\ \A i \in 1..Len(paths) : saved[i] = paths[i]
               /\ saved[Len(saved)] = step
<1> DEFINE saved == Append(paths, step)
<1>1. /\ saved \in Seq(Steps) /\ Len(saved) = Len(paths) + 1
      /\ \A i \in 1..Len(paths) : saved[i] = paths[i]
      /\ saved[Len(saved)] = step
      /\ Len(paths) \in Nat
  BY DEF TypeOK
<1>2. Ascending(saved)
  BY <1>1 DEF Ascending
<1> QED BY <1>1, <1>2

LEMMA PathStep == TypeInv /\ PathInv /\ [Next]_vars => PathInv'
<1> SUFFICES ASSUME TypeInv, PathInv, [Next]_vars PROVE PathInv'
  OBVIOUS
<1>0. TypeOK /\ MaxStep \in Nat /\ (Writing => step \in Steps)
  BY MaxStepNat DEF TypeInv
<1>00. /\ Len(paths) \in Nat
       /\ \A i \in 1..Len(paths) : paths[i] \in Steps /\ paths[i] \in Int
       /\ step \in Int
  BY <1>0 DEF TypeOK, Steps
<1>1. CASE LoadScratch \/ LoadFails \/ \E s \in Steps : LoadFrom(s)
  <2>1. paths = << >> /\ paths' = << >>
    BY <1>1 DEF LoadScratch, LoadFails, LoadFrom, PathInv
  <2>2. pc' \notin {"data", "lessons", "tracker"}
    BY <1>1 DEF LoadScratch, LoadFails, LoadFrom, AfterBatch
  <2> QED BY <2>1, <2>2 DEF PathInv, Ascending
<1>2. CASE TrainBatch
  <2>1. step' \in Int /\ step < step'
    BY <1>00, <1>2 DEF TrainBatch
  <2>2. pc' \in {"train", "capacity", "done"}
    BY <1>2 DEF TrainBatch, AfterBatch
  <2>3. \A i \in 1..Len(paths) : paths[i] < step'
    BY <1>00, <2>1 DEF PathInv
  <2>4. paths' = paths /\ disk' = disk /\ life' = life
    BY <1>2 DEF TrainBatch
  <2> QED BY <1>00, <2>1, <2>2, <2>3, <2>4 DEF PathInv, Ascending, ActorOf
<1>3. CASE EnsureCapacity
  <2>1. PICK n \in 0..Len(paths) : Kept(paths, n)
    BY <1>0, <1>3, CapacityKeeps
  <2>2. /\ Ascending(paths')
        /\ \A i \in 1..Len(paths') :
              /\ i + n \in 1..Len(paths)
              /\ paths'[i] = paths[i + n]
              /\ disk'[paths'[i]] = disk[paths'[i]]
    BY <1>0, <2>1, KeptAscending DEF PathInv, TypeOK
  <2>3. /\ step' = step /\ life' = life /\ pc = "capacity"
        /\ pc' = "shards"
    BY <1>3 DEF EnsureCapacity
  <2>4. ASSUME NEW i \in 1..Len(paths')
        PROVE  /\ \A r \in Ranks : disk'[paths'[i]].shard[r] = life'
               /\ paths'[i] < step'
    <3>1. ActorOf(paths[i + n], life) /\ paths[i + n] < step
      BY <2>2, <2>3 DEF PathInv
    <3> QED BY <2>2, <2>3, <3>1 DEF ActorOf
  <2>5. \A i \in 1..Len(paths') : paths'[i] \in Int
    BY <1>00, <2>2
  <2>6. \A i \in 1..Len(paths') : paths'[i] <= step'
    BY <1>00, <2>3, <2>4, <2>5
  <2> QED BY <2>2, <2>3, <2>4, <2>6 DEF PathInv, ActorOf
<1>4. ASSUME NEW r \in Ranks, SaveShard(r) PROVE PathInv'
  <2>1. step \in Steps
    BY <1>0, <1>4 DEF SaveShard, Writing
  <2>2. paths' = paths /\ step' = step /\ life' = life /\ pc' = pc
        /\ pc = "shards"
    BY <1>4 DEF SaveShard
  <2>3. \A s \in Steps : ActorOf(s, life) => ActorOf(s, life)'
    BY <1>0, <1>4, <2>1, <2>2, ShardSaved DEF ActorOf
  <2> QED BY <1>00, <2>2, <2>3 DEF PathInv, Ascending
<1>5. CASE Register
  <2> DEFINE saved == Append(paths, step)
  <2>1. pc = "shards" /\ pc' = "data" /\ step \in Steps /\ step' = step
        /\ life' = life /\ ActorOf(step, life)
    BY <1>0, <1>5 DEF Register, Writing
  <2>2. \A i \in 1..Len(paths) : paths[i] < step
    BY <2>1 DEF PathInv
  <2>3. /\ saved \in Seq(Steps) /\ Len(saved) = Len(paths) + 1
        /\ Ascending(saved)
        /\ \A i \in 1..Len(paths) : saved[i] = paths[i]
        /\ saved[Len(saved)] = step
    BY <1>0, <2>1, <2>2, AppendAscending DEF PathInv
  <2>4. PICK n \in 0..Len(paths) : Kept(saved, n)
    BY <1>0, <1>5, <2>1, RegisterKeeps
  <2>5. n \in 0..Len(saved) /\ n < Len(saved)
    BY <1>00, <2>3
  <2>6. /\ Ascending(paths')
        /\ \A i \in 1..Len(paths') :
              /\ i + n \in 1..Len(saved)
              /\ paths'[i] = saved[i + n]
              /\ disk'[paths'[i]] = disk[paths'[i]]
        /\ \A s \in Steps :
              (\A i \in 1..n : saved[i] # s) => disk'[s] = disk[s]
    BY <2>3, <2>4, <2>5, KeptAscending
  <2>7. ASSUME NEW i \in 1..Len(saved)
        PROVE  saved[i] <= step /\ ActorOf(saved[i], life)
    <3>1. CASE i = Len(saved)
      BY <1>00, <2>1, <2>3, <3>1
    <3>2. CASE i # Len(saved)
      <4>1. i \in 1..Len(paths)
        BY <1>00, <2>3, <3>2
      <4>2. saved[i] = paths[i]
        BY <2>3, <4>1
      <4>3. paths[i] <= step /\ ActorOf(paths[i], life)
        BY <4>1 DEF PathInv
      <4> QED BY <4>2, <4>3
    <3> QED BY <3>1, <3>2
  <2>8. ASSUME NEW i \in 1..Len(paths')
        PROVE  /\ \A r \in Ranks : disk'[paths'[i]].shard[r] = life'
               /\ paths'[i] <= step'
    <3>1. i + n \in 1..Len(saved) /\ paths'[i] = saved[i + n]
      BY <2>6
    <3>2. saved[i + n] <= step /\ ActorOf(saved[i + n], life)
      BY <2>7, <3>1
    <3>3. \A r \in Ranks : disk[paths'[i]].shard[r] = life
      BY <3>1, <3>2 DEF ActorOf
    <3>4. disk'[paths'[i]] = disk[paths'[i]]
      BY <2>6
    <3> QED BY <2>1, <3>1, <3>2, <3>3, <3>4
  <2>9. \A i \in 1..n : saved[i] # step
    <3>1. ASSUME NEW i \in 1..n PROVE i \in 1..Len(paths)
      BY <1>00
    <3> QED BY <1>00, <2>2, <2>3, <3>1
  <2>10. \A r \in Ranks : disk'[step].shard[r] = life'
    BY <2>1, <2>6, <2>9 DEF ActorOf
  <2> QED BY <2>1, <2>6, <2>8, <2>10 DEF PathInv, ActorOf
<1>6. CASE SaveData \/ SaveLessons \/ WriteTracker
  <2>1. paths' = paths /\ step' = step /\ life' = life /\ step \in Steps
        /\ pc \in {"data", "lessons", "tracker"}
        /\ pc' \in {"lessons", "tracker", "train", "done"}
    BY <1>0, <1>6
       DEF SaveData, SaveLessons, WriteTracker, AfterBatch, Writing
  <2>2. \A s \in Steps : disk'[s].shard = disk[s].shard
    BY <1>0, <1>6, <2>1, DataSaved, LessonsSaved DEF WriteTracker
  <2> QED BY <1>00, <2>1, <2>2 DEF PathInv, Ascending, ActorOf
<1>7. CASE Crash
  BY <1>7 DEF Crash, PathInv, Ascending
<1>8. CASE UNCHANGED vars
  BY <1>8 DEF vars, PathInv, Ascending, ActorOf
<1> QED BY <1>1, <1>2, <1>3, <1>4, <1>5, <1>6, <1>7, <1>8 DEF Next, Saving

-----------------------------------------------------------------------------
(* The safety buffer *)

\* As many different paths as the list has entries are whole checkpoints.
LEMMA PathsAreWhole ==
    ASSUME NEW p \in Seq(Steps), Ascending(p), NEW W, IsFiniteSet(W),
           \A i \in 1..Len(p) : p[i] \in W
    PROVE  Cardinality(W) >= Len(p)
<1>1. Len(p) \in Nat
  OBVIOUS
<1>2. IsFiniteSet(1..Len(p)) /\ Cardinality(1..Len(p)) = Len(p)
  <2>1. /\ IsFiniteSet(1..Len(p))
        /\ Cardinality(1..Len(p)) = IF 1 > Len(p) THEN 0 ELSE Len(p) - 1 + 1
    BY <1>1, FS_Interval, 1 \in Int, Len(p) \in Int
  <2>2. (IF 1 > Len(p) THEN 0 ELSE Len(p) - 1 + 1) = Len(p)
    BY <1>1
  <2> QED BY <2>1, <2>2
<1>3. p \in [1..Len(p) -> W]
  OBVIOUS
<1>4. ASSUME NEW i \in 1..Len(p), NEW j \in 1..Len(p), p[i] = p[j]
      PROVE  i = j
  <2>1. p[i] \in Int /\ p[j] \in Int
    BY MaxStepNat DEF Steps
  <2> QED BY <1>1, <1>4, <2>1 DEF Ascending
<1>5. p \in Injection(1..Len(p), W)
  BY <1>3, <1>4 DEF Injection, IsInjective
<1>6. Cardinality(1..Len(p)) <= Cardinality(W)
  BY <1>5, FS_Injection
<1> QED BY <1>2, <1>6

LEMMA StepsFinite == IsFiniteSet(Steps)
BY MaxStepNat, FS_Interval DEF Steps

\* Once a process has a buffer of whole actor checkpoints, no step of it
\* deletes one of them before the next is complete on every rank
\* (ensure_checkpoint_capacity, register_checkpoint).
LEMMA BufferStep ==
    ASSUME TypeInv, PathInv, [Next]_vars, life' = life,
           TypeInv', PathInv',
           Cardinality(Whole) >= Buffer
    PROVE  Cardinality(Whole') >= Buffer
<1>0. /\ TypeOK /\ (Writing => step \in Steps)
      /\ IsFiniteSet(Whole) /\ IsFiniteSet(Whole')
      /\ Cardinality(Whole) \in Nat /\ Cardinality(Whole') \in Nat
      /\ Buffer \in Nat
  <2>1. Whole \in SUBSET Steps /\ Whole' \in SUBSET Steps
    BY DEF Whole
  <2>2. Buffer \in Nat
    BY ConfigAssumption DEF Buffer
  <2> QED BY <2>1, <2>2, StepsFinite, FS_Subset, FS_CardinalityType DEF TypeInv
<1>1. ASSUME Whole \subseteq Whole' PROVE Cardinality(Whole') >= Buffer
  <2>1. Cardinality(Whole) <= Cardinality(Whole')
    BY <1>0, <1>1, FS_Subset
  <2> QED BY <1>0, <2>1
<1>2. Cardinality(Whole') >= Len(paths') /\ Len(paths') \in Nat
  <2>1. \A i \in 1..Len(paths') : paths'[i] \in Whole'
    BY DEF PathInv, TypeInv, TypeOK, Whole
  <2> QED BY <1>0, <2>1, PathsAreWhole DEF PathInv, TypeInv, TypeOK
<1>3. CASE EnsureCapacity
  <2>1. PICK n \in 0..Len(paths) :
            /\ Kept(paths, n)
            /\ n > 0 => MaxKeep > 1 /\ Len(paths) - n >= MaxKeep - 1
    BY <1>0, <1>3, CapacityKeeps
  <2>2. CASE n = 0
    <3>1. \A s \in Steps : disk'[s] = disk[s]
      BY <2>1, <2>2 DEF Kept
    <3> QED BY <1>1, <3>1 DEF Whole, ActorOf
  <2>3. CASE n > 0
    <3>1. Len(paths') >= MaxKeep - 1 /\ Buffer = MaxKeep - 1
      BY <2>1, <2>3 DEF Kept, Buffer
    <3> QED BY <1>0, <1>2, <3>1, ConfigAssumption
  <2>4. n \in Nat
    OBVIOUS
  <2> QED BY <2>2, <2>3, <2>4
<1>4. ASSUME NEW r \in Ranks, SaveShard(r)
      PROVE  Cardinality(Whole') >= Buffer
  <2>1. step \in Steps
    BY <1>0, <1>4 DEF SaveShard, Writing
  <2>2. Whole \subseteq Whole'
    BY <1>0, <1>4, <2>1, ShardSaved DEF Whole, ActorOf
  <2> QED BY <1>1, <2>2
<1>5. CASE Register
  <2>1. step \in Steps
    BY <1>0, <1>5 DEF Register, Writing
  <2>2. PICK n \in 0..Len(paths) :
            /\ Kept(Append(paths, step), n)
            /\ n > 0 => MaxKeep > 0 /\ Len(paths) + 1 - n = MaxKeep
    BY <1>0, <1>5, <2>1, RegisterKeeps
  <2>3. CASE n = 0
    <3>1. \A s \in Steps : disk'[s] = disk[s]
      BY <2>2, <2>3 DEF Kept
    <3> QED BY <1>1, <3>1 DEF Whole, ActorOf
  <2>4. CASE n > 0
    <3>1. Len(Append(paths, step)) = Len(paths) + 1
      BY <1>0, <2>1 DEF TypeOK
    <3>2. Len(paths') = MaxKeep
      BY <2>2, <2>4, <3>1 DEF Kept
    <3>3. MaxKeep >= Buffer
      BY <2>2, <2>4, ConfigAssumption DEF Buffer
    <3> QED BY <1>0, <1>2, <3>2, <3>3, ConfigAssumption
  <2>5. n \in Nat
    OBVIOUS
  <2> QED BY <2>3, <2>4, <2>5
<1>6. CASE SaveData \/ SaveLessons
  <2>1. step \in Steps
    BY <1>0, <1>6 DEF SaveData, SaveLessons, Writing
  <2>2. \A s \in Steps : disk'[s].shard = disk[s].shard
    BY <1>0, <1>6, <2>1, DataSaved, LessonsSaved
  <2> QED BY <1>1, <2>2 DEF Whole, ActorOf
<1>7. CASE disk' = disk
  BY <1>1, <1>7 DEF Whole, ActorOf
<1>8. CASE Crash
  <2>1. life' = life + 1 /\ life \in Int
    BY <1>0, <1>8 DEF Crash, TypeOK, Lives
  <2> QED BY <2>1
<1> QED BY <1>3, <1>4, <1>5, <1>6, <1>7, <1>8
      DEF Next, Saving, LoadScratch, LoadFails, LoadFrom, TrainBatch,
          WriteTracker, vars

\* The safety buffer, for every limit and in every resume mode.
THEOREM BufferKept == Spec => SafetyBuffer
<1>1. TypeInv /\ PathInv /\ [Next]_vars => TypeInv' /\ PathInv'
  BY TypeStep, PathStep
<1>2. TypeInv /\ PathInv /\ [Next]_vars =>
         [life' = life /\ Cardinality(Whole) >= Buffer =>
              Cardinality(Whole') >= Buffer]_vars
  BY <1>1, BufferStep
<1>3. Init => TypeInv /\ PathInv
  BY TypeInit, PathInit
<1> QED BY <1>1, <1>2, <1>3, PTL DEF Spec, SafetyBuffer

-----------------------------------------------------------------------------
(* Rotation *)

\* A crash outside the writing of the shards touches none of them.
LEMMA CrashSpares ==
    ASSUME TypeOK, Writing => step \in Steps, pc # "shards", Crash
    PROVE  \A s \in Steps : disk'[s].shard = disk[s].shard
<1>1. CASE pc = "data"
  <2>1. PICK f \in TornOr(disk[step].data) :
            disk' = [disk EXCEPT ![step].data = f]
    BY <1>1 DEF Crash, CrashDisk
  <2> QED BY <2>1 DEF TypeOK, Dirs
<1>2. CASE pc = "lessons"
  <2>1. PICK f \in TornOr(disk[step].lessons) :
            disk' = [disk EXCEPT ![step].lessons = f]
    BY <1>2 DEF Crash, CrashDisk
  <2> QED BY <2>1 DEF TypeOK, Dirs
<1>3. CASE pc \notin {"data", "lessons"}
  BY <1>3 DEF Crash, CrashDisk
<1> QED BY <1>1, <1>2, <1>3

\* A crash leaves of a shard what was there, what this process wrote, or a
\* torn file.
LEMMA CrashShards ==
    ASSUME TypeOK, Writing => step \in Steps, Crash
    PROVE  \A s \in Steps, r \in Ranks :
              disk'[s].shard[r] \in {disk[s].shard[r], life, Torn}
<1>1. CASE pc = "shards"
  <2>1. PICK f \in TornShards : disk' = [disk EXCEPT ![step].shard = f]
    BY <1>1 DEF Crash, CrashDisk
  <2>2. \A r \in Ranks : f[r] \in {disk[step].shard[r], life, Torn}
    BY DEF TornShards, TornOr
  <2>3. step \in Steps
    BY <1>1 DEF Writing
  <2> QED BY <2>1, <2>2, <2>3 DEF TypeOK, Dirs
<1>2. CASE pc # "shards"
  <2>1. \A s \in Steps : disk'[s].shard = disk[s].shard
    BY <1>2, CrashSpares
  <2> QED BY <2>1
<1> QED BY <1>1, <1>2

\* No file is younger than the process; the whole actor checkpoints of this
\* process are on the list, but for the one it is about to register; and the
\* list is within the limit.
Listed(s, list) == \E i \in 1..Len(list) : list[i] = s

KeepInv ==
    /\ \A s \in Steps, r \in Ranks : disk[s].shard[r] <= life
    /\ \A s \in Steps : ActorOf(s, life) =>
          Listed(s, paths) \/ (pc = "shards" /\ s = step)
    /\ MaxKeep > 0 => Len(paths) <= MaxKeep

LEMMA KeepInit == Init => KeepInv
<1> SUFFICES ASSUME Init PROVE KeepInv
  OBVIOUS
<1>1. \A s \in Steps, r \in Ranks : disk[s].shard[r] = None
  BY DEF Init, EmptyDir
<1>2. life = 1 /\ paths = << >>
  BY DEF Init
<1>3. \A s \in Steps : ~ActorOf(s, life)
  BY <1>1, <1>2, RanksAssumption DEF ActorOf, None
<1> QED BY <1>1, <1>2, <1>3, ConfigAssumption DEF KeepInv, None

\* What a removal leaves whole is what it leaves on the list.
LEMMA KeptListed ==
    ASSUME TypeOK, NEW saved \in Seq(Steps), NEW n \in 0..Len(saved),
           Kept(saved, n), \A s \in Steps, r \in Ranks : disk[s].shard[r] <= life,
           \A s \in Steps : ActorOf(s, life) => Listed(s, saved)
    PROVE  /\ \A s \in Steps, r \in Ranks : disk'[s].shard[r] <= life
           /\ \A s \in Steps :
                 (\A r \in Ranks : disk'[s].shard[r] = life) => Listed(s, paths')
<1>0. life \in Nat /\ life # None /\ None <= life /\ None = 0
  BY ConfigAssumption DEF TypeOK, Lives, None
<1>1. ASSUME NEW s \in Steps, NEW r \in Ranks PROVE disk'[s].shard[r] <= life
  <2>1. CASE \E i \in 1..n : saved[i] = s
    BY <1>0, <2>1 DEF Kept
  <2>2. CASE \A i \in 1..n : saved[i] # s
    BY <2>2 DEF Kept
  <2> QED BY <2>1, <2>2
<1>2. ASSUME NEW s \in Steps, \A r \in Ranks : disk'[s].shard[r] = life
      PROVE  Listed(s, paths')
  <2>1. \A i \in 1..n : saved[i] # s
    BY <1>0, <1>2, RanksAssumption DEF Kept
  <2>2. ActorOf(s, life)
    BY <1>2, <2>1 DEF Kept, ActorOf
  <2>3. PICK i \in 1..Len(saved) : saved[i] = s
    BY <2>2 DEF Listed
  <2>4. Len(saved) \in Nat /\ Len(paths') = Len(saved) - n
    BY DEF Kept
  <2>5. i - n \in 1..Len(paths') /\ (i - n) + n = i
    <3>1. i \notin 1..n
      BY <2>1, <2>3
    <3>2. i \in Int /\ n \in Int /\ 1 <= i /\ i <= Len(saved)
      BY <2>3, <2>4
    <3> QED BY <2>4, <3>1, <3>2
  <2>6. paths'[i - n] = s
    BY <2>3, <2>5 DEF Kept
  <2> QED BY <2>5, <2>6 DEF Listed
<1> QED BY <1>1, <1>2

LEMMA KeepStep == TypeInv /\ KeepInv /\ [Next]_vars => KeepInv'
<1> SUFFICES ASSUME TypeInv, KeepInv, [Next]_vars PROVE KeepInv'
  OBVIOUS
<1>0. /\ TypeOK /\ (Writing => step \in Steps)
      /\ Len(paths) \in Nat /\ life \in Nat
      /\ \A s \in Steps, r \in Ranks : disk[s].shard[r] \in Int
  BY ConfigAssumption DEF TypeInv, TypeOK, Lives, Dirs, Files, None, Torn
<1>1. ASSUME disk' = disk, paths' = paths, life' = life, pc # "shards"
      PROVE  KeepInv'
  BY <1>1 DEF KeepInv, ActorOf, Listed
<1>2. CASE EnsureCapacity
  <2>1. PICK n \in 0..Len(paths) : Kept(paths, n)
    BY <1>0, <1>2, CapacityKeeps
  <2>2. life' = life /\ pc = "capacity"
    BY <1>2 DEF EnsureCapacity
  <2>3. /\ \A s \in Steps, r \in Ranks : disk'[s].shard[r] <= life
        /\ \A s \in Steps :
              (\A r \in Ranks : disk'[s].shard[r] = life) => Listed(s, paths')
    BY <1>0, <2>1, <2>2, KeptListed DEF KeepInv, TypeOK
  <2>4. Len(paths') <= Len(paths) /\ Len(paths') \in Nat
    BY <1>0, <2>1 DEF Kept
  <2> QED BY <1>0, <2>2, <2>3, <2>4, ConfigAssumption
        DEF KeepInv, ActorOf
<1>3. ASSUME NEW r \in Ranks, SaveShard(r) PROVE KeepInv'
  <2>1. step \in Steps /\ pc = "shards"
    BY <1>0, <1>3 DEF SaveShard, Writing
  <2>2. paths' = paths /\ life' = life /\ pc' = pc /\ step' = step
    BY <1>3 DEF SaveShard
  <2>3. \A s \in Steps : /\ s # step => disk'[s] = disk[s]
                         /\ \A q \in Ranks :
                               disk'[s].shard[q] = IF s = step /\ q = r THEN life
                                                   ELSE disk[s].shard[q]
    BY <1>0, <1>3, <2>1, ShardSaved
  <2> QED BY <1>0, <2>1, <2>2, <2>3 DEF KeepInv, ActorOf, Listed
<1>4. CASE Register
  <2> DEFINE saved == Append(paths, step)
  <2>1. step \in Steps /\ life' = life /\ pc = "shards" /\ pc' = "data"
    BY <1>0, <1>4 DEF Register, Writing
  <2>2. PICK n \in 0..Len(paths) :
            /\ Kept(saved, n)
            /\ MaxKeep > 0 => Len(paths) + 1 - n <= MaxKeep
    BY <1>0, <1>4, <2>1, RegisterKeeps
  <2>3. /\ saved \in Seq(Steps) /\ Len(saved) = Len(paths) + 1
        /\ saved[Len(saved)] = step
        /\ \A i \in 1..Len(paths) : saved[i] = paths[i]
    BY <1>0, <2>1 DEF TypeOK
  <2>4. n \in 0..Len(saved)
    BY <1>0, <2>3
  <2>5. ASSUME NEW s \in Steps, ActorOf(s, life) PROVE Listed(s, saved)
    <3>1. Listed(s, paths) \/ s = step
      BY <2>5 DEF KeepInv
    <3>2. Len(saved) \in 1..Len(saved)
      BY <1>0, <2>3
    <3>3. \A i \in 1..Len(paths) : i \in 1..Len(saved)
      BY <1>0, <2>3
    <3> HIDE DEF saved
    <3> QED BY <2>3, <3>1, <3>2, <3>3 DEF Listed
  <2>6. /\ \A s \in Steps, r \in Ranks : disk'[s].shard[r] <= life
        /\ \A s \in Steps :
              (\A r \in Ranks : disk'[s].shard[r] = life) => Listed(s, paths')
    <3> HIDE DEF saved
    <3> QED BY <1>0, <2>2, <2>3, <2>4, <2>5, KeptListed DEF KeepInv
  <2>7. Len(paths') = Len(paths) + 1 - n
    BY <2>2, <2>3 DEF Kept
  <2> QED BY <2>1, <2>2, <2>6, <2>7 DEF KeepInv, ActorOf
<1>5. CASE SaveData \/ SaveLessons
  <2>1. step \in Steps /\ pc \in {"data", "lessons"}
    BY <1>0, <1>5 DEF SaveData, SaveLessons, Writing
  <2>2. \A s \in Steps : disk'[s].shard = disk[s].shard
    BY <1>0, <1>5, <2>1, DataSaved, LessonsSaved
  <2>3. paths' = paths /\ life' = life
    BY <1>5 DEF SaveData, SaveLessons
  <2> QED BY <2>1, <2>2, <2>3 DEF KeepInv, ActorOf, Listed
<1>6. CASE Crash
  <2>1. paths' = << >> /\ life' = life + 1
    BY <1>6 DEF Crash
  <2>2. \A s \in Steps, r \in Ranks :
            disk'[s].shard[r] \in {disk[s].shard[r], life, Torn}
    BY <1>0, <1>6, CrashShards
  <2>3. ASSUME NEW s \in Steps, NEW r \in Ranks PROVE disk'[s].shard[r] <= life
    <3>1. disk[s].shard[r] <= life /\ Torn <= life
      BY <1>0 DEF KeepInv, Torn
    <3> QED BY <1>0, <2>2, <3>1
  <2>4. \A s \in Steps, r \in Ranks :
            /\ disk'[s].shard[r] \in Int
            /\ disk'[s].shard[r] <= life'
            /\ disk'[s].shard[r] # life'
    BY <1>0, <2>1, <2>2, <2>3 DEF Torn
  <2>5. \A s \in Steps : ~ActorOf(s, life)'
    BY <2>4, RanksAssumption DEF ActorOf
  <2> QED BY <2>1, <2>4, <2>5, ConfigAssumption DEF KeepInv
<1>7. CASE LoadScratch \/ LoadFails \/ TrainBatch \/ WriteTracker
  BY <1>1, <1>7 DEF LoadScratch, LoadFails, TrainBatch, WriteTracker
<1>8. ASSUME NEW s \in Steps, LoadFrom(s) PROVE KeepInv'
  BY <1>1, <1>8 DEF LoadFrom
<1>9. CASE UNCHANGED vars
  BY <1>9 DEF vars, KeepInv, ActorOf, Listed
<1> QED BY <1>2, <1>3, <1>4, <1>5, <1>6, <1>7, <1>8, <1>9 DEF Next, Saving

LEMMA UnionCounted ==
    ASSUME NEW A, NEW B, NEW C, IsFiniteSet(A), IsFiniteSet(B), C \subseteq A \cup B
    PROVE  Cardinality(C) <= Cardinality(A) + Cardinality(B)
<1>1. /\ IsFiniteSet(A \cup B) /\ IsFiniteSet(A \cap B)
      /\ Cardinality(A \cup B) =
            Cardinality(A) + Cardinality(B) - Cardinality(A \cap B)
  BY FS_Union, FS_Intersection
<1>2. IsFiniteSet(C) /\ Cardinality(C) <= Cardinality(A \cup B)
  BY <1>1, FS_Subset
<1>3. /\ Cardinality(A) \in Nat /\ Cardinality(B) \in Nat
      /\ Cardinality(C) \in Nat /\ Cardinality(A \cap B) \in Nat
  BY <1>1, <1>2, FS_CardinalityType
<1> QED BY <1>1, <1>2, <1>3

\* The directories the process knows of: the paths on its list and, while the
\* shards are written, the one they go to.
Names == {paths[i] : i \in 1..Len(paths)}
Own == Names \cup IF pc = "shards" THEN {step} ELSE {}

\* Those it does not know of were left by the processes before it: no more
\* than the buffer and the one being written for each.
Foreign == OnDisk \ Own

DiskInv ==
    /\ pc = "shards" => Len(paths) <= Buffer
    /\ Cardinality(Foreign) <= (life - 1) * (Buffer + 1)

LEMMA DirsFinite ==
    /\ IsFiniteSet(OnDisk) /\ IsFiniteSet(Foreign)
    /\ Cardinality(OnDisk) \in Nat /\ Cardinality(Foreign) \in Nat
    /\ IsFiniteSet(OnDisk') /\ IsFiniteSet(Foreign')
    /\ Cardinality(OnDisk') \in Nat /\ Cardinality(Foreign') \in Nat
<1>1. /\ OnDisk \in SUBSET Steps /\ Foreign \in SUBSET Steps
      /\ OnDisk' \in SUBSET Steps /\ Foreign' \in SUBSET Steps
  BY DEF OnDisk, Foreign
<1> QED BY <1>1, StepsFinite, FS_Subset, FS_CardinalityType

LEMMA NamesCounted ==
    ASSUME TypeOK
    PROVE  /\ IsFiniteSet(Names) /\ Cardinality(Names) \in Nat
           /\ Cardinality(Names) <= Len(paths)
<1>1. Len(paths) \in Nat
  BY DEF TypeOK
<1>2. IsFiniteSet(1..Len(paths)) /\ Cardinality(1..Len(paths)) = Len(paths)
  <2>1. /\ IsFiniteSet(1..Len(paths))
        /\ Cardinality(1..Len(paths)) =
              IF 1 > Len(paths) THEN 0 ELSE Len(paths) - 1 + 1
    BY <1>1, FS_Interval, 1 \in Int, Len(paths) \in Int
  <2>2. (IF 1 > Len(paths) THEN 0 ELSE Len(paths) - 1 + 1) = Len(paths)
    BY <1>1
  <2> QED BY <2>1, <2>2
<1>3. paths \in Surjection(1..Len(paths), Names)
  BY DEF Surjection, Names, TypeOK
<1>4. IsFiniteSet(Names) /\ Cardinality(Names) <= Cardinality(1..Len(paths))
  BY <1>2, <1>3, FS_Surjection
<1> QED BY <1>2, <1>4, FS_CardinalityType

\* The process knows of the buffer and one more directory, at most.
LEMMA OwnCounted ==
    ASSUME TypeInv, KeepInv, DiskInv, MaxKeep > 0
    PROVE  IsFiniteSet(Own) /\ Cardinality(Own) \in Nat
              /\ Cardinality(Own) <= Buffer + 1
<1>1. /\ IsFiniteSet(Names) /\ Cardinality(Names) \in Nat
      /\ Cardinality(Names) <= Len(paths)
      /\ Len(paths) \in Nat /\ Len(paths) <= MaxKeep
      /\ Buffer \in Nat /\ MaxKeep <= Buffer + 1 /\ MaxKeep \in Nat
  BY NamesCounted, ConfigAssumption DEF TypeInv, TypeOK, KeepInv, Buffer
<1>2. CASE pc = "shards"
  <2>1. Own = Names \cup {step}
    BY <1>2 DEF Own
  <2>2. /\ IsFiniteSet(Names \cup {step})
        /\ Cardinality(Names \cup {step}) =
              IF step \in Names THEN Cardinality(Names)
              ELSE Cardinality(Names) + 1
    BY <1>1, FS_AddElement
  <2>3. Len(paths) <= Buffer
    BY <1>2 DEF DiskInv
  <2>4. /\ Cardinality(Own) \in {Cardinality(Names), Cardinality(Names) + 1}
        /\ IsFiniteSet(Own)
    BY <2>1, <2>2
  <2> QED BY <1>1, <2>3, <2>4
<1>3. CASE pc # "shards"
  <2>1. Own = Names
    BY <1>3 DEF Own
  <2> QED BY <1>1, <2>1
<1> QED BY <1>2, <1>3

\* A directory that survives a removal was there before and, if it was on the
\* list, still is.
LEMMA KeptOnDisk ==
    ASSUME TypeOK, NEW saved \in Seq(Steps), NEW n \in 0..Len(saved),
           Kept(saved, n), NEW s \in OnDisk'
    PROVE  s \in OnDisk /\ (Listed(s, saved) => Listed(s, paths'))
<1>1. s \in Steps /\ disk'[s].shard # EmptyDir.shard
  BY DEF OnDisk
<1>2. ASSUME NEW i \in 1..n, saved[i] = s PROVE FALSE
  <2>1. \A r \in Ranks : disk'[s].shard[r] = None
    BY <1>1, <1>2 DEF Kept
  <2>2. disk'[s].shard \in [Ranks -> Files]
    BY <1>1 DEF Kept, Dirs
  <2>3. disk'[s].shard = [r \in Ranks |-> None]
    BY <2>1, <2>2
  <2> QED BY <1>1, <2>3 DEF EmptyDir
<1>3. disk'[s] = disk[s]
  BY <1>1, <1>2 DEF Kept
<1>4. ASSUME Listed(s, saved) PROVE Listed(s, paths')
  <2>1. PICK i \in 1..Len(saved) : saved[i] = s
    BY <1>4 DEF Listed
  <2>2. Len(saved) \in Nat /\ Len(paths') = Len(saved) - n
    BY DEF Kept
  <2>3. i - n \in 1..Len(paths') /\ (i - n) + n = i
    <3>1. i \notin 1..n
      BY <1>2, <2>1
    <3>2. i \in Int /\ n \in Int /\ 1 <= i /\ i <= Len(saved)
      BY <2>1, <2>2
    <3> QED BY <2>2, <3>1, <3>2
  <2>4. paths'[i - n] = s
    BY <2>1, <2>3 DEF Kept
  <2> QED BY <2>3, <2>4 DEF Listed
<1> QED BY <1>1, <1>3, <1>4 DEF OnDisk

LEMMA DiskInit == Init => DiskInv
<1> SUFFICES ASSUME Init PROVE DiskInv
  OBVIOUS
<1>1. OnDisk = {}
  BY DEF Init, OnDisk, EmptyDir
<1>2. Cardinality(Foreign) = 0
  BY <1>1, FS_EmptySet DEF Foreign
<1>3. life = 1 /\ pc = "load" /\ Buffer \in Nat
  BY ConfigAssumption DEF Init, Buffer
<1>4. (life - 1) * (Buffer + 1) = 0
  BY <1>3
<1> QED BY <1>2, <1>3, <1>4 DEF DiskInv

LEMMA DiskStep ==
    ASSUME MaxKeep > 0, TypeInv, KeepInv, DiskInv, [Next]_vars
    PROVE  DiskInv'
<1>0. /\ TypeOK /\ (Writing => step \in Steps)
      /\ paths \in Seq(Steps) /\ Len(paths) \in Nat
      /\ life \in Nat \ {0} /\ Buffer \in Nat /\ MaxKeep \in Nat
  BY ConfigAssumption DEF TypeInv, TypeOK, Lives, Buffer
<1>1. ASSUME Foreign' \subseteq Foreign, life' = life,
             pc' = "shards" => Len(paths') <= Buffer
      PROVE  DiskInv'
  <2>1. Cardinality(Foreign') <= Cardinality(Foreign)
    BY <1>1, DirsFinite, FS_Subset
  <2>2. (life - 1) * (Buffer + 1) \in Int
    BY <1>0
  <2>3. Cardinality(Foreign) <= (life - 1) * (Buffer + 1)
    BY DEF DiskInv
  <2>4. Cardinality(Foreign') <= (life - 1) * (Buffer + 1)
    BY <2>1, <2>2, <2>3, DirsFinite
  <2>5. Buffer' = Buffer
    BY DEF Buffer
  <2> QED BY <1>1, <2>4, <2>5 DEF DiskInv
<1>2. ASSUME \A s \in Steps : disk'[s].shard = disk[s].shard,
             paths' = paths, life' = life, pc # "shards", pc' # "shards"
      PROVE  DiskInv'
  <2>1. OnDisk' = OnDisk /\ Own' = Own
    BY <1>2 DEF OnDisk, Own, Names, EmptyDir
  <2> QED BY <1>1, <1>2, <2>1 DEF Foreign
<1>3. CASE EnsureCapacity
  <2>1. PICK n \in 0..Len(paths) :
            /\ Kept(paths, n)
            /\ MaxKeep > 1 => Len(paths) - n <= MaxKeep - 1
    BY <1>0, <1>3, CapacityKeeps
  <2>2. pc = "capacity" /\ pc' = "shards" /\ life' = life
    BY <1>3 DEF EnsureCapacity
  <2>3. Len(paths') <= Buffer
    <3>1. Len(paths') = Len(paths) - n /\ Len(paths) <= MaxKeep
      BY <2>1 DEF Kept, KeepInv
    <3> QED BY <1>0, <2>1, <3>1 DEF Buffer
  <2>4. ASSUME NEW s \in Foreign' PROVE s \in Foreign
    <3>1. s \in OnDisk' /\ ~Listed(s, paths')
      BY <2>4 DEF Foreign, Own, Names, Listed
    <3>2. s \in OnDisk /\ ~Listed(s, paths)
      BY <1>0, <2>1, <3>1, KeptOnDisk
    <3> QED BY <2>2, <3>2 DEF Foreign, Own, Names, Listed
  <2> QED BY <1>1, <2>2, <2>3, <2>4
<1>4. ASSUME NEW r \in Ranks, SaveShard(r) PROVE DiskInv'
  <2>1. /\ pc = "shards" /\ pc' = pc /\ life' = life
        /\ paths' = paths /\ step' = step /\ step \in Steps
    BY <1>0, <1>4 DEF SaveShard, Writing
  <2>2. \A s \in Steps : s # step => disk'[s] = disk[s]
    BY <1>0, <1>4, <2>1, ShardSaved
  <2>3. Own' = Own /\ step \in Own
    BY <2>1 DEF Own, Names
  <2>4. ASSUME NEW s \in Foreign' PROVE s \in Foreign
    <3>1. s \in Steps /\ s # step /\ s \notin Own
      BY <2>3, <2>4 DEF Foreign, OnDisk
    <3>2. disk'[s].shard # EmptyDir'.shard
      BY <2>4 DEF Foreign, OnDisk
    <3> QED BY <2>2, <3>1, <3>2 DEF Foreign, OnDisk, EmptyDir
  <2>5. Len(paths') <= Buffer
    BY <2>1 DEF DiskInv
  <2> QED BY <1>1, <2>1, <2>4, <2>5
<1>5. CASE Register
  <2> DEFINE saved == Append(paths, step)
  <2>1. step \in Steps /\ life' = life /\ pc = "shards" /\ pc' = "data"
    BY <1>0, <1>5 DEF Register, Writing
  <2>2. PICK n \in 0..Len(paths) : Kept(saved, n)
    BY <1>0, <1>5, <2>1, RegisterKeeps
  <2>3. saved \in Seq(Steps) /\ n \in 0..Len(saved)
    BY <1>0, <2>1
  <2>4. ASSUME NEW s \in Steps, ~Listed(s, saved)
        PROVE  ~Listed(s, paths) /\ s # step
    <3>1. /\ Len(saved) = Len(paths) + 1 /\ saved[Len(saved)] = step
          /\ Len(saved) \in 1..Len(saved)
          /\ \A i \in 1..Len(paths) :
                i \in 1..Len(saved) /\ saved[i] = paths[i]
      BY <1>0, <2>1
    <3> HIDE DEF saved
    <3> QED BY <2>4, <3>1 DEF Listed
  <2>5. ASSUME NEW s \in Foreign' PROVE s \in Foreign
    <3>1. s \in OnDisk' /\ ~Listed(s, paths') /\ s \in Steps
      BY <2>5 DEF Foreign, Own, Names, Listed, OnDisk
    <3>2. s \in OnDisk /\ ~Listed(s, saved)
      <4> HIDE DEF saved
      <4> QED BY <1>0, <2>2, <2>3, <3>1, KeptOnDisk
    <3>3. ~Listed(s, paths) /\ s # step
      BY <2>4, <3>1, <3>2
    <3> QED BY <3>2, <3>3 DEF Foreign, Own, Names, Listed
  <2> QED BY <1>1, <2>1, <2>5
<1>6. CASE SaveData \/ SaveLessons
  <2>1. step \in Steps
    BY <1>0, <1>6 DEF SaveData, SaveLessons, Writing
  <2>2. \A s \in Steps : disk'[s].shard = disk[s].shard
    BY <1>0, <1>6, <2>1, DataSaved, LessonsSaved
  <2> QED BY <1>2, <1>6, <2>2 DEF SaveData, SaveLessons
<1>7. CASE Crash
  <2>1. /\ paths' = << >> /\ life' = life + 1 /\ pc' = "load"
    BY <1>7 DEF Crash
  <2>2. Foreign' = OnDisk'
    BY <2>1 DEF Foreign, Own, Names
  <2>3. OnDisk' \subseteq Foreign \cup Own
    <3>1. ASSUME NEW s \in OnDisk', s \notin Own PROVE s \in OnDisk
      <4>1. CASE pc = "shards"
        <5>1. s # step
          BY <3>1, <4>1 DEF Own
        <5>2. s \in Steps /\ disk'[s] = disk[s]
          BY <1>0, <1>7, <5>1, CrashTears DEF OnDisk
        <5> QED BY <3>1, <5>2 DEF OnDisk, EmptyDir
      <4>2. CASE pc # "shards"
        <5>1. \A q \in Steps : disk'[q].shard = disk[q].shard
          BY <1>0, <1>7, <4>2, CrashSpares
        <5> QED BY <3>1, <5>1 DEF OnDisk, EmptyDir
      <4> QED BY <4>1, <4>2
    <3> QED BY <3>1 DEF Foreign
  <2>4. /\ IsFiniteSet(Own) /\ Cardinality(Own) \in Nat
        /\ Cardinality(Own) <= Buffer + 1
    BY OwnCounted
  <2>5. Cardinality(OnDisk') <= Cardinality(Foreign) + Cardinality(Own)
    BY <2>3, <2>4, DirsFinite, UnionCounted
  <2>6. (life - 1) * (Buffer + 1) + (Buffer + 1) = life * (Buffer + 1)
    BY <1>0
  <2>7. Cardinality(Foreign) <= (life - 1) * (Buffer + 1)
    BY DEF DiskInv
  <2>8. life' - 1 = life /\ Buffer' = Buffer
    BY <1>0, <2>1 DEF Buffer
  <2>9. Cardinality(OnDisk') <= life * (Buffer + 1)
    BY <1>0, <2>4, <2>5, <2>6, <2>7, DirsFinite
  <2> QED BY <2>1, <2>2, <2>8, <2>9 DEF DiskInv
<1>8. CASE LoadScratch \/ LoadFails \/ TrainBatch \/ WriteTracker
  BY <1>2, <1>8 DEF LoadScratch, LoadFails, TrainBatch, WriteTracker, AfterBatch
<1>9. ASSUME NEW s \in Steps, LoadFrom(s) PROVE DiskInv'
  BY <1>2, <1>9 DEF LoadFrom, AfterBatch
<1>10. CASE UNCHANGED vars
  <2>1. Foreign' = Foreign /\ life' = life /\ paths' = paths /\ pc' = pc
    BY <1>10 DEF vars, Foreign, OnDisk, Own, Names, EmptyDir
  <2> QED BY <1>1, <2>1 DEF DiskInv
<1> QED BY <1>3, <1>4, <1>5, <1>6, <1>7, <1>8, <1>9, <1>10 DEF Next, Saving

\* What a process has left whole is on its list when no save is running.
LEMMA WholeCounted ==
    ASSUME TypeInv, KeepInv, pc \in {"train", "done"}, MaxKeep > 0
    PROVE  Cardinality(Whole) <= MaxKeep
<1>1. Len(paths) \in Nat /\ Len(paths) <= MaxKeep
  BY DEF TypeInv, TypeOK, KeepInv
<1>2. Whole \subseteq Names
  BY DEF Whole, KeepInv, Listed, Names
<1>3. /\ IsFiniteSet(Names) /\ Cardinality(Names) \in Nat
      /\ Cardinality(Names) <= Len(paths)
  BY NamesCounted DEF TypeInv
<1>4. Cardinality(Whole) <= Cardinality(Names) /\ Cardinality(Whole) \in Nat
  BY <1>2, <1>3, FS_Subset, FS_CardinalityType
<1> QED BY <1>1, <1>3, <1>4, ConfigAssumption

\* Between saves a process has left no more than max_actor_ckpt_to_keep actor
\* checkpoints of its own, and the directory of the checkpoints never holds
\* more actors than the buffer and one more for every process there was.
THEOREM DiskIsBounded == Spec => []DiskBounded
<1>1. TypeInv /\ KeepInv /\ (MaxKeep > 0 => DiskInv) => DiskBounded
  <2> SUFFICES ASSUME TypeInv, KeepInv, DiskInv, MaxKeep > 0
               PROVE  /\ pc \in {"train", "done"} => Cardinality(Whole) <= MaxKeep
                      /\ Cardinality(OnDisk) <= life * (Buffer + 1)
    BY DEF DiskBounded
  <2>1. /\ IsFiniteSet(Own) /\ Cardinality(Own) \in Nat
        /\ Cardinality(Own) <= Buffer + 1
    BY OwnCounted
  <2>2. life \in Nat /\ Buffer \in Nat
    BY ConfigAssumption DEF TypeInv, TypeOK, Lives, Buffer
  <2>3. OnDisk \subseteq Foreign \cup Own
    BY DEF Foreign
  <2>4. Cardinality(OnDisk) <= Cardinality(Foreign) + Cardinality(Own)
    BY <2>1, <2>3, DirsFinite, UnionCounted
  <2>5. (life - 1) * (Buffer + 1) + (Buffer + 1) = life * (Buffer + 1)
    BY <2>2
  <2>6. Cardinality(Foreign) <= (life - 1) * (Buffer + 1)
    BY DEF DiskInv
  <2>7. Cardinality(OnDisk) <= life * (Buffer + 1)
    BY <2>1, <2>2, <2>4, <2>5, <2>6, DirsFinite
  <2> QED BY <2>7, WholeCounted
<1>2. Init => TypeInv /\ KeepInv /\ (MaxKeep > 0 => DiskInv)
  BY TypeInit, KeepInit, DiskInit
<1>3. TypeInv /\ KeepInv /\ (MaxKeep > 0 => DiskInv) /\ [Next]_vars =>
          TypeInv' /\ KeepInv' /\ (MaxKeep > 0 => DiskInv)'
  BY TypeStep, KeepStep, DiskStep
<1> QED BY <1>1, <1>2, <1>3, PTL DEF Spec

-----------------------------------------------------------------------------
(* The weights *)

\* The actor of a published checkpoint that a rotation cannot reach: it is not
\* the one being written, and if the process holds a list it was resumed from
\* that actor or keeps it.
Loadable(s) == \A r \in Ranks : disk[s].shard[r] \in Lives

WeightsInv ==
    tracker # None =>
        \E s \in Steps : /\ Loadable(s)
                         /\ pc \notin {"load", "failed"} => s <= step
                         /\ pc \in {"capacity", "shards"} => s < step

LEMMA WeightsStep ==
    ASSUME TypeInv, PathInv, WeightsInv, [Next]_vars, TypeInv', PathInv'
    PROVE  WeightsInv'
<1>0. /\ TypeOK /\ (Writing => step \in Steps) /\ TypeOK'
      /\ \A s \in Steps : s \in Int
      /\ step \in Int /\ life \in Lives /\ life' \in Lives
  BY MaxStepNat, ConfigAssumption DEF TypeInv, TypeOK, Lives, Steps
<1>1. ASSUME tracker' = tracker,
             \A s \in Steps : disk'[s].shard = disk[s].shard,
             step' = step,
             pc' \in {"load", "failed"} \/ (pc' = pc)
                 \/ (pc = "capacity" /\ pc' = "shards")
      PROVE  WeightsInv'
  BY <1>0, <1>1 DEF WeightsInv, Loadable
<1>2. ASSUME step' \in Steps, Writing',
             pc' \in {"data", "lessons", "tracker"}
      PROVE  WeightsInv'
  <2>1. ActorOf(step, life)'
    BY <1>2 DEF PathInv
  <2>2. Loadable(step)'
    BY <1>0, <2>1 DEF ActorOf, Loadable
  <2> QED BY <1>0, <1>2, <2>2 DEF WeightsInv
<1>3. CASE LoadScratch
  BY <1>3 DEF LoadScratch, WeightsInv
<1>4. ASSUME NEW s \in Steps, LoadFrom(s) PROVE WeightsInv'
  <2>1. Loadable(s)' /\ step' = s /\ pc' \in {"train", "done"}
    BY <1>4 DEF LoadFrom, Loads, Loadable, AfterBatch
  <2> QED BY <1>0, <2>1 DEF WeightsInv
<1>5. CASE LoadFails
  BY <1>1, <1>5 DEF LoadFails
<1>6. CASE TrainBatch
  <2>1. /\ step' > step /\ step' \in Int
        /\ tracker' = tracker /\ disk' = disk
        /\ pc = "train"
    BY <1>0, <1>6, ConfigAssumption DEF TrainBatch
  <2>2. ASSUME tracker' # None
        PROVE  \E s \in Steps : Loadable(s)' /\ s < step'
    <3>1. PICK s \in Steps : Loadable(s) /\ s <= step
      BY <2>1, <2>2 DEF WeightsInv
    <3> QED BY <1>0, <2>1, <3>1 DEF Loadable
  <2> QED BY <1>0, <2>1, <2>2 DEF WeightsInv
<1>7. CASE EnsureCapacity
  <2>1. PICK n \in 0..Len(paths) :
            /\ Kept(paths, n)
            /\ n > 0 => MaxKeep > 1 /\ Len(paths) - n >= MaxKeep - 1
    BY <1>0, <1>7, CapacityKeeps
  <2>2. /\ pc = "capacity" /\ pc' = "shards"
        /\ tracker' = tracker /\ step' = step
    BY <1>7 DEF EnsureCapacity
  <2>3. CASE n = 0
    <3>1. \A s \in Steps : disk'[s] = disk[s]
      BY <2>1, <2>3 DEF Kept
    <3> QED BY <1>1, <2>2, <3>1
  <2>4. CASE n > 0
    <3>1. 1 \in 1..Len(paths')
      BY <1>0, <2>1, <2>4, ConfigAssumption DEF Kept
    <3>2. /\ paths'[1] \in Steps /\ paths'[1] < step'
          /\ ActorOf(paths[1], life)'
      BY <1>0, <2>2, <3>1 DEF PathInv, TypeOK
    <3>3. Loadable(paths[1])'
      BY <1>0, <3>2 DEF ActorOf, Loadable
    <3> QED BY <1>0, <2>2, <3>2, <3>3 DEF WeightsInv
  <2> QED BY <2>3, <2>4
<1>8. ASSUME NEW r \in Ranks, SaveShard(r) PROVE WeightsInv'
  <2>1. /\ pc = "shards" /\ pc' = pc /\ tracker' = tracker
        /\ step' = step /\ step \in Steps
    BY <1>0, <1>8 DEF SaveShard, Writing
  <2>2. \A s \in Steps : s # step => disk'[s] = disk[s]
    BY <1>0, <1>8, <2>1, ShardSaved
  <2>3. ASSUME tracker # None
        PROVE  \E s \in Steps : Loadable(s)' /\ s < step
    <3>1. PICK s \in Steps : Loadable(s) /\ s < step
      BY <2>1, <2>3 DEF WeightsInv
    <3> QED BY <1>0, <2>2, <3>1 DEF Loadable
  <2> QED BY <1>0, <2>1, <2>3 DEF WeightsInv
<1>9. CASE Register \/ SaveData \/ SaveLessons
  <2>1. /\ step' = step /\ step \in Steps
        /\ pc' \in {"data", "lessons", "tracker"}
    BY <1>0, <1>9 DEF Register, SaveData, SaveLessons, Writing
  <2> QED BY <1>2, <2>1 DEF Writing
<1>10. CASE WriteTracker
  <2>1. /\ disk' = disk /\ step' = step /\ step \in Steps
        /\ pc' \in {"train", "done"} /\ ActorOf(step, life)
    BY <1>0, <1>10 DEF WriteTracker, AfterBatch, Writing, PathInv
  <2>2. Loadable(step)'
    BY <1>0, <2>1 DEF ActorOf, Loadable
  <2> QED BY <1>0, <2>1, <2>2 DEF WeightsInv
<1>11. CASE Crash
  <2>1. pc' = "load" /\ step' = step
    BY <1>11 DEF Crash
  <2>2. CASE pc = "shards"
    <3>1. tracker' = tracker /\ step \in Steps
      BY <1>0, <1>11, <2>2 DEF Crash, Writing
    <3>2. \A s \in Steps : s # step => disk'[s] = disk[s]
      BY <1>0, <1>11, CrashTears
    <3>3. ASSUME tracker # None PROVE \E s \in Steps : Loadable(s)'
      <4>1. PICK s \in Steps : Loadable(s) /\ s < step
        BY <2>2, <3>3 DEF WeightsInv
      <4> QED BY <1>0, <3>2, <4>1 DEF Loadable
    <3> QED BY <2>1, <3>1, <3>3 DEF WeightsInv
  <2>3. CASE pc # "shards"
    <3>1. \A s \in Steps : disk'[s].shard = disk[s].shard
      BY <1>0, <1>11, <2>3, CrashSpares
    <3>2. CASE pc = "tracker"
      <4>1. step \in Steps /\ ActorOf(step, life)
        BY <1>0, <3>2 DEF Writing, PathInv
      <4>2. Loadable(step)'
        BY <1>0, <2>1, <3>1, <4>1 DEF ActorOf, Loadable
      <4> QED BY <2>1, <4>1, <4>2 DEF WeightsInv
    <3>3. CASE pc # "tracker"
      <4>1. tracker' = tracker
        BY <1>11, <3>3 DEF Crash
      <4> QED BY <1>1, <2>1, <3>1, <4>1
    <3> QED BY <3>2, <3>3
  <2> QED BY <2>2, <2>3
<1>12. CASE UNCHANGED vars
  BY <1>1, <1>12 DEF vars
<1> QED BY <1>3, <1>4, <1>5, <1>6, <1>7, <1>8, <1>9, <1>10, <1>11, <1>12
      DEF Next, Saving

\* Once a checkpoint was published, weights that can be loaded are on the disk
\* at every instant, for every limit and in every resume mode.
THEOREM WeightsAreKept == Spec => []WeightsSurvive
<1>1. WeightsInv => WeightsSurvive
  BY DEF WeightsInv, WeightsSurvive, Loadable
<1>2. Init => TypeInv /\ PathInv /\ WeightsInv
  BY TypeInit, PathInit DEF Init, WeightsInv
<1>3. TypeInv /\ PathInv /\ WeightsInv /\ [Next]_vars =>
          TypeInv' /\ PathInv' /\ WeightsInv'
  BY TypeStep, PathStep, WeightsStep
<1> QED BY <1>1, <1>2, <1>3, PTL DEF Spec

-----------------------------------------------------------------------------
(* The tracker *)

\* A save writes a step the tracker does not name yet, and of the registered
\* paths only the one being written is newer than the tracker.
TrackInv ==
    /\ TrackedComplete
    /\ pc \in {"train", "done"} =>
          tracker <= step /\ \A i \in 1..Len(paths) : paths[i] <= tracker
    /\ Writing =>
          /\ tracker < step
          /\ \A i \in 1..Len(paths) : paths[i] = step \/ paths[i] <= tracker
    /\ pc \in {"lessons", "tracker"} => disk[step].data = life
    /\ pc = "tracker" => disk[step].lessons = life
    /\ pc \notin {"load", "failed"} => \E l \in {None} \cup Lives : origin = {l}

LEMMA TrackInit == Init => TrackInv
<1>1. None \notin Steps
  BY MaxStepNat DEF None, Steps
<1> QED BY <1>1 DEF Init, TrackInv, TrackedComplete, Writing

LEMMA CompleteKept ==
    ASSUME TrackedComplete, tracker' \in Steps => tracker' = tracker,
           tracker \in Steps => disk'[tracker] = disk[tracker]
    PROVE  TrackedComplete'
BY DEF TrackedComplete, ActorOf

\* The paths that go are older than the last one, and so than the tracker.
LEMMA OldestBehindTracker ==
    ASSUME TypeOK, PathInv, TrackInv, Writing,
           \A i \in 1..Len(paths) : paths[i] < step,
           NEW n \in Nat, n > 0 => n + 1 <= Len(paths)
    PROVE  \A i \in 1..n : paths[i] < tracker
<1> SUFFICES ASSUME NEW i \in 1..n PROVE paths[i] < tracker
  OBVIOUS
<1>1. /\ Len(paths) \in Nat /\ i \in 1..Len(paths)
      /\ Len(paths) \in 1..Len(paths) /\ i < Len(paths)
  BY DEF TypeOK
<1>2. /\ paths[i] \in Int /\ paths[Len(paths)] \in Int
      /\ step \in Int /\ tracker \in Int
  BY <1>1, MaxStepNat DEF TypeOK, Steps, None, Torn
<1>3. paths[i] < paths[Len(paths)]
  BY <1>1 DEF PathInv, Ascending
<1>4. paths[Len(paths)] <= tracker
  BY <1>1, <1>2 DEF TrackInv
<1> QED BY <1>2, <1>3, <1>4

LEMMA TrackStep ==
    ASSUME MaxKeep # 1, ~ResumeByPath,
           TypeInv, PathInv, TrackInv, [Next]_vars
    PROVE  TrackInv'
<1>0. /\ TypeOK /\ TrackedComplete /\ MaxStep \in Nat
      /\ Writing => step \in Steps
  BY MaxStepNat DEF TypeInv, TrackInv
<1>00. /\ Len(paths) \in Nat
       /\ \A i \in 1..Len(paths) : paths[i] \in Steps /\ paths[i] \in Int
       /\ step \in Int /\ tracker \in Int
       /\ \A s \in Steps : s \in Int /\ s # Torn /\ s # None
  BY <1>0 DEF TypeOK, Steps, None, Torn
<1>1. CASE LoadScratch
  <2>1. paths' = << >> /\ tracker' = tracker /\ disk' = disk
    BY <1>1 DEF LoadScratch, PathInv
  <2>2. TrackedComplete'
    BY <1>0, <2>1, CompleteKept
  <2>3. tracker' <= step'
    BY <1>1 DEF LoadScratch, None
  <2> QED BY <1>1, <2>1, <2>2, <2>3 DEF LoadScratch, TrackInv, Writing
<1>2. ASSUME NEW s \in Steps, LoadFrom(s) PROVE TrackInv'
  <2>1. /\ paths' = << >> /\ tracker' = tracker /\ disk' = disk
        /\ s = tracker /\ step' = s
    BY <1>2 DEF LoadFrom, Resumable, PathInv
  <2>2. TrackedComplete'
    BY <1>0, <2>1, CompleteKept
  <2>3. PICK l \in Lives : /\ ActorOf(s, l)
                           /\ disk[s].data = l
                           /\ disk[s].lessons = l
    BY <1>0, <2>1 DEF TrackedComplete
  <2>4. {disk[s].shard[r] : r \in Ranks} = {l}
    BY <2>3, RanksAssumption DEF ActorOf
  <2>5. origin' = {l}
    BY <1>2, <2>3, <2>4 DEF LoadFrom
  <2>6. pc' \in {"train", "done"}
    BY <1>2 DEF LoadFrom, AfterBatch
  <2>7. tracker' <= step'
    BY <1>00, <2>1
  <2> QED BY <2>1, <2>2, <2>5, <2>6, <2>7 DEF TrackInv, Writing
<1>3. CASE LoadFails
  <2>1. /\ paths' = << >> /\ tracker' = tracker /\ disk' = disk
        /\ pc' = "failed"
    BY <1>3 DEF LoadFails, PathInv
  <2>2. TrackedComplete'
    BY <1>0, <2>1, CompleteKept
  <2> QED BY <2>1, <2>2 DEF TrackInv, Writing
<1>4. CASE TrainBatch
  <2>1. /\ step' \in Int /\ step < step' /\ pc = "train"
        /\ disk' = disk /\ tracker' = tracker /\ paths' = paths
        /\ origin' = origin
    BY <1>00, <1>4 DEF TrainBatch
  <2>2. pc' \in {"train", "capacity", "done"}
    BY <1>4 DEF TrainBatch, AfterBatch
  <2>3. TrackedComplete'
    BY <1>0, <2>1, CompleteKept
  <2>4. tracker' < step' /\ tracker' <= step'
    BY <1>00, <2>1 DEF TrackInv
  <2> QED BY <2>1, <2>2, <2>3, <2>4 DEF TrackInv, Writing
<1>5. CASE EnsureCapacity
  <2>1. PICK n \in 0..Len(paths) :
            /\ Kept(paths, n)
            /\ n > 0 => MaxKeep > 1 /\ Len(paths) - n >= MaxKeep - 1
    BY <1>0, <1>5, CapacityKeeps
  <2>2. /\ pc = "capacity" /\ pc' = "shards" /\ Writing
        /\ step' = step /\ tracker' = tracker /\ origin' = origin
    BY <1>5 DEF EnsureCapacity, Writing
  <2>3. n \in Nat /\ (n > 0 => n + 1 <= Len(paths))
    BY <1>00, <2>1, ConfigAssumption
  <2>4. \A i \in 1..n : paths[i] < tracker
    BY <1>0, <2>2, <2>3, OldestBehindTracker DEF PathInv
  <2>5. ASSUME tracker \in Steps PROVE disk'[tracker] = disk[tracker]
    <3>1. ASSUME NEW i \in 1..n PROVE paths[i] # tracker
      BY <1>00, <2>4
    <3> QED BY <2>1, <2>5, <3>1 DEF Kept
  <2>6. TrackedComplete'
    BY <1>0, <2>2, <2>5, CompleteKept
  <2>7. ASSUME NEW i \in 1..Len(paths')
        PROVE  paths'[i] = step' \/ paths'[i] <= tracker'
    <3>1. i + n \in 1..Len(paths) /\ paths'[i] = paths[i + n]
      BY <1>00, <2>1 DEF Kept
    <3> QED BY <2>2, <3>1 DEF TrackInv
  <2> QED BY <2>2, <2>6, <2>7 DEF TrackInv, Writing
<1>6. ASSUME NEW r \in Ranks, SaveShard(r) PROVE TrackInv'
  <2>1. /\ pc = "shards" /\ pc' = pc /\ Writing /\ step \in Steps
        /\ paths' = paths /\ tracker' = tracker /\ origin' = origin
        /\ step' = step
    BY <1>0, <1>6 DEF SaveShard, Writing
  <2>2. tracker \in Steps => disk'[tracker] = disk[tracker]
    BY <1>0, <1>00, <1>6, <2>1, ShardSaved DEF TrackInv
  <2>3. TrackedComplete'
    BY <1>0, <2>1, <2>2, CompleteKept
  <2> QED BY <2>1, <2>3 DEF TrackInv, Writing
<1>7. CASE Register
  <2> DEFINE saved == Append(paths, step)
  <2>1. /\ pc = "shards" /\ pc' = "data" /\ Writing /\ step \in Steps
        /\ step' = step /\ tracker' = tracker /\ origin' = origin
    BY <1>0, <1>7 DEF Register, Writing
  <2>2. PICK n \in 0..Len(paths) :
            /\ Kept(saved, n)
            /\ n > 0 => MaxKeep > 0 /\ Len(paths) + 1 - n = MaxKeep
    BY <1>0, <1>7, <2>1, RegisterKeeps
  <2>3. n \in Nat /\ (n > 0 => n + 1 <= Len(paths))
    BY <1>00, <2>2, ConfigAssumption
  <2>4. \A i \in 1..Len(paths) : paths[i] < step
    BY <2>1 DEF PathInv
  <2>5. \A i \in 1..n : paths[i] < tracker
    BY <1>0, <2>1, <2>3, <2>4, OldestBehindTracker
  <2>6. /\ Len(saved) = Len(paths) + 1 /\ saved[Len(saved)] = step
        /\ \A i \in 1..Len(paths) : saved[i] = paths[i]
    BY <1>0, <2>1 DEF TypeOK
  <2>7. ASSUME tracker \in Steps PROVE disk'[tracker] = disk[tracker]
    <3>1. ASSUME NEW i \in 1..n PROVE saved[i] # tracker
      <4>1. i \in 1..Len(paths)
        BY <1>00
      <4> QED BY <1>00, <2>5, <2>6, <4>1
    <3> QED BY <2>2, <2>7, <3>1 DEF Kept
  <2>8. TrackedComplete'
    BY <1>0, <2>1, <2>7, CompleteKept
  <2>9. ASSUME NEW i \in 1..Len(paths')
        PROVE  paths'[i] = step' \/ paths'[i] <= tracker'
    <3>0. /\ Len(paths') = Len(saved) - n
          /\ paths'[i] = saved[i + n]
      BY <2>2 DEF Kept
    <3>1. i + n \in 1..Len(saved) /\ paths'[i] = saved[i + n]
      <4> HIDE DEF saved
      <4> QED BY <1>00, <2>3, <2>6, <3>0
    <3>2. i + n = Len(saved) \/ i + n \in 1..Len(paths)
      BY <1>00, <2>6, <3>1
    <3> QED BY <2>1, <2>6, <3>1, <3>2 DEF TrackInv
  <2> QED BY <2>1, <2>8, <2>9 DEF TrackInv, Writing
<1>8. CASE SaveData
  <2>1. /\ pc = "data" /\ pc' = "lessons" /\ Writing /\ step \in Steps
        /\ paths' = paths /\ tracker' = tracker /\ origin' = origin
        /\ step' = step /\ life' = life
    BY <1>0, <1>8 DEF SaveData, Writing
  <2>2. tracker \in Steps => disk'[tracker] = disk[tracker]
    BY <1>0, <1>00, <1>8, <2>1, DataSaved DEF TrackInv
  <2>3. TrackedComplete' /\ disk'[step].data = life
    BY <1>0, <1>8, <2>1, <2>2, CompleteKept, DataSaved
  <2> QED BY <2>1, <2>3 DEF TrackInv, Writing
<1>9. CASE SaveLessons
  <2>1. /\ pc = "lessons" /\ pc' = "tracker" /\ Writing /\ step \in Steps
        /\ paths' = paths /\ tracker' = tracker /\ origin' = origin
        /\ step' = step /\ life' = life
    BY <1>0, <1>9 DEF SaveLessons, Writing
  <2>2. tracker \in Steps => disk'[tracker] = disk[tracker]
    BY <1>0, <1>00, <1>9, <2>1, LessonsSaved DEF TrackInv
  <2>3. TrackedComplete'
    BY <1>0, <2>1, <2>2, CompleteKept
  <2>4. disk'[step].lessons = life /\ disk'[step].data = life
    BY <1>0, <1>9, <2>1, LessonsSaved DEF TrackInv
  <2> QED BY <2>1, <2>3, <2>4 DEF TrackInv, Writing
<1>10. CASE WriteTracker
  <2>1. /\ pc = "tracker" /\ step \in Steps /\ tracker' = step
        /\ paths' = paths /\ origin' = origin /\ disk' = disk
        /\ step' = step /\ life \in Lives
    BY <1>0, <1>10 DEF WriteTracker, Writing, TypeOK
  <2>2. ActorOf(step, life) /\ disk[step].data = life
        /\ disk[step].lessons = life
    BY <2>1 DEF PathInv, TrackInv
  <2>3. TrackedComplete'
    BY <2>1, <2>2 DEF TrackedComplete, ActorOf
  <2>4. pc' \in {"train", "done"}
    BY <1>10 DEF WriteTracker, AfterBatch
  <2>5. tracker' <= step' /\ \A i \in 1..Len(paths) : paths[i] <= tracker'
    BY <1>00, <2>1 DEF PathInv
  <2> QED BY <2>1, <2>3, <2>4, <2>5 DEF TrackInv, Writing
<1>11. CASE Crash
  <2>1. /\ pc' = "load" /\ (tracker' = tracker \/ tracker' = Torn)
        /\ disk' \in [Steps -> Dirs]
        /\ \A s \in Steps : disk'[s] = disk[s] \/ (Writing /\ s = step)
    BY <1>0, <1>11, CrashTears DEF Crash, TornOr
  <2>2. tracker \in Steps => disk'[tracker] = disk[tracker]
    BY <1>00, <2>1 DEF TrackInv
  <2>3. TrackedComplete'
    BY <1>0, <1>00, <2>1, <2>2, CompleteKept
  <2> QED BY <2>1, <2>3 DEF TrackInv, Writing
<1>12. CASE UNCHANGED vars
  BY <1>12 DEF vars, TrackInv, TrackedComplete, ActorOf, Writing
<1> QED BY <1>1, <1>2, <1>3, <1>4, <1>5, <1>6, <1>7, <1>8, <1>9, <1>10,
           <1>11, <1>12 DEF Next, Saving

\* Unless max_actor_ckpt_to_keep is 1 or the operator picks a directory, the
\* tracker names a complete checkpoint of one process at every instant.
THEOREM TrackedIsComplete ==
    ASSUME MaxKeep # 1, ~ResumeByPath
    PROVE  Spec => []TrackedComplete
<1>1. TypeInv /\ PathInv /\ TrackInv /\ [Next]_vars =>
         TypeInv' /\ PathInv' /\ TrackInv'
  BY TypeStep, PathStep, TrackStep
<1>2. Init => TypeInv /\ PathInv /\ TrackInv
  BY TypeInit, PathInit, TrackInit
<1>3. TrackInv => TrackedComplete
  BY DEF TrackInv
<1> QED BY <1>1, <1>2, <1>3, PTL DEF Spec

\* Under the same conditions a process never mixes the model, the dataloader
\* and the lessons of different saves.
THEOREM OriginIsOne ==
    ASSUME MaxKeep # 1, ~ResumeByPath
    PROVE  Spec => []OneOrigin
<1>1. TypeInv /\ PathInv /\ TrackInv /\ [Next]_vars =>
         TypeInv' /\ PathInv' /\ TrackInv'
  BY TypeStep, PathStep, TrackStep
<1>2. Init => TypeInv /\ PathInv /\ TrackInv
  BY TypeInit, PathInit, TrackInit
<1>3. TrackInv => OneOrigin
  BY FS_Singleton DEF TrackInv, OneOrigin
<1> QED BY <1>1, <1>2, <1>3, PTL DEF Spec

===============================================================================
