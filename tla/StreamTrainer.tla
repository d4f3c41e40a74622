---------------------------- MODULE StreamTrainer ----------------------------
(***************************************************************************)
(* fit() of the stream trainer: outer batches, and for each of them up to  *)
(* MaxK gradient steps on fresh rollouts of the same prompts.  A batch is  *)
(* a list of rows read by position; _balance_batch reorders it after the   *)
(* generation.  The rollout replicas share the devices with the trainer:   *)
(* they sleep while it computes and are woken with its current weights.    *)
(*                                                                         *)
(* A reward is a success or a failure here.  Of the weights the model      *)
(* keeps the batches whose gradient steps they hold.  The process may die  *)
(* at any step and resume from its last checkpoint, whose files Checkpoint *)
(* models; here a save is one step.                                        *)
(***************************************************************************)
EXTENDS Integers, FiniteSets, Sequences

CONSTANTS
    Prompts,           \* prompts in a batch
    RolloutN,          \* rollout.n, responses to each prompt
    Examples,          \* training examples
    None,              \* no solution, no demonstration, no scores
    Data,              \* the dataloader: the examples of each outer batch
    MaxK,              \* max_updates_per_batch
    MinK,              \* min_updates_per_batch
    StopBelow,         \* early_stop_improvement_threshold, in prompts
    BalanceBatch,      \* trainer.balance_batch
    UseUpdater,        \* self-distillation with the context updater
    UseSolutionBuffer, \* keep successful responses across steps
    DontReprompt,      \* dont_reprompt_on_self_success
    TestFreq,          \* validate every so many batches, 0 is never
    ForgetFreq,        \* forgetting evaluation, likewise
    BufferSize,        \* past batches kept for it
    SaveFreq,          \* checkpoints, likewise
    MaxRestarts        \* bound: crashes of the process

Rows == 1..(Prompts * RolloutN)
Batches == Len(Data)

ASSUME SizeAssumption ==
    /\ Prompts \in Nat \ {0} /\ RolloutN \in Nat \ {0}
    /\ MaxK \in Nat \ {0} /\ MinK \in 1..MaxK /\ StopBelow \in 0..Prompts
    /\ TestFreq \in Nat /\ ForgetFreq \in Nat /\ SaveFreq \in Nat
    /\ BufferSize \in Nat \ {0} /\ MaxRestarts \in Nat
ASSUME ModeAssumption ==
    /\ {BalanceBatch, UseUpdater, UseSolutionBuffer, DontReprompt} \subseteq BOOLEAN
ASSUME DataAssumption ==
    /\ None \notin Examples /\ None \notin [of: Examples, ok: BOOLEAN]
    /\ Data \in Seq([1..Prompts -> Examples])
    /\ \A b \in 1..Len(Data) : \A p, q \in 1..Prompts :
          Data[b][p] = Data[b][q] => p = q

VARIABLES
    pc,        \* where fit() is
    position,  \* batches taken from the dataloader; batch_idx + 1 in a batch
    iter,      \* update_iter
    step,      \* global_steps
    weights,   \* the actor: for each gradient step in it, its batch
    replicas,  \* gradient steps in the weights the replicas hold, or Asleep
    sampled,   \* the same of the weights that generated last
    batch,     \* the prompt of each row
    won,       \* the rows whose response succeeded
    prev,      \* prev_scores, and what they would be by prompt
    stopped,   \* inner_stopped_early
    past,      \* past_batch_buffer
    solutions, \* _solution_buffer of the context updater
    logs,      \* steps committed to the logger by this process
    saved,     \* the last checkpoint
    restarts   \* crashes so far

actor == <<weights, replicas, sampled>>
rollout == <<batch, won>>
keeps == <<prev, stopped, past, solutions>>
vars == <<pc, position, iter, step, actor, rollout, keeps, logs, saved, restarts>>

-----------------------------------------------------------------------------
(* A batch, its rows and its scores *)

\* repeat(interleave=True): the rows of a prompt are adjacent.
PromptOfRow(i) == (i - 1) \div RolloutN + 1
Repeated == [i \in Rows |-> PromptOfRow(i)]

\* Whatever the lengths of the responses, what _balance_batch may make of it.
Reordered == {b \in [Rows -> 1..Prompts] :
                 \A p \in 1..Prompts :
                     Cardinality({i \in Rows : b[i] = p}) = RolloutN}

\* scores.reshape(n_prompts, rollout_n): by position.  ByPrompt is what the
\* rows of one prompt scored.
ByPosition == [p \in 1..Prompts |->
                  Cardinality({i \in won : PromptOfRow(i) = p})]
ByPrompt == [p \in 1..Prompts |-> Cardinality({i \in won : batch[i] = p})]

Improved(scores, before) ==
    Cardinality({p \in 1..Prompts : scores[p] > before[p]})

\* The early stop on given scores of this and of the last iteration.
StopsOn(scores, before) ==
    before # None /\ iter + 1 >= MinK /\ Improved(scores, before) < StopBelow

\* The example of a row, and the response in it.
ExampleOf(i) == Data[position][batch[i]]
Response(i) == [of |-> ExampleOf(i), ok |-> i \in won]
Responses == [of: Examples, ok: BOOLEAN]

\* success_by_uid, and the first row in it.
Winners(p) == {i \in won : batch[i] = p}
First(S) == CHOOSE i \in S : \A j \in S : i <= j

\* Mutant of Stored: rows are taken to be where they were before balancing.
StoredByPosition ==
    [e \in Examples |->
        LET mine == {i \in won : Data[position][PromptOfRow(i)] = e}
        IN  IF UseSolutionBuffer /\ mine # {} THEN Response(First(mine))
                                              ELSE solutions[e]]

\* store_solution for every prompt some row solved.
Stored ==
    [e \in Examples |->
        LET mine == {i \in won : ExampleOf(i) = e}
        IN  IF UseSolutionBuffer /\ mine # {} THEN Response(First(mine))
                                              ELSE solutions[e]]

\* _get_solution: the demonstration in the teacher's prompt of a row.
Demonstration(i) ==
    CASE i \in won /\ DontReprompt -> None
      [] i \in won /\ ~DontReprompt -> Response(i)
      [] i \notin won /\ Winners(batch[i]) # {} ->
            Response(First(Winners(batch[i])))
      [] OTHER -> IF UseUpdater THEN solutions[ExampleOf(i)] ELSE None

-----------------------------------------------------------------------------

Asleep == -1
Version == Len(weights)

\* "if freq > 0 and (is_last_batch or (batch_idx + 1) % freq == 0)"
Due(freq) == freq > 0 /\ (position = Batches \/ position % freq = 0)

LastInner == iter + 1 >= MaxK \/ stopped

FreshSave == [step |-> 0, position |-> 0, weights |-> << >>,
              solutions |-> [e \in Examples |-> None]]

Init ==
    /\ pc = "start"
    /\ position = 0 /\ iter = 0 /\ step = 0
    /\ weights = << >> /\ replicas = Asleep /\ sampled = 0
    /\ batch = << >> /\ won = {}
    /\ prev = [rows |-> None, prompts |-> None]
    /\ stopped = FALSE /\ past = << >>
    /\ solutions = FreshSave.solutions
    /\ logs = << >>
    /\ saved = FreshSave
    /\ restarts = 0

\* Checkpoint loaded, replicas woken, val_before_train, global_steps += 1.
Start ==
    /\ pc = "start"
    /\ replicas' = Version
    /\ sampled' = Version
    /\ logs' = <<step>>
    /\ step' = step + 1
    /\ pc' = "batch"
    /\ UNCHANGED <<position, iter, weights, rollout, keeps, saved, restarts>>

\* A step of fit() from one place to the next.
Go(from, to) == pc = from /\ pc' = to

TakeBatch ==
    /\ Go("batch", "generate")
    /\ position < Batches
    /\ position' = position + 1
    /\ iter' = 0
    /\ prev' = [rows |-> None, prompts |-> None]
    /\ stopped' = FALSE
    /\ UNCHANGED <<step, actor, rollout, past, solutions, logs, saved, restarts>>

\* generate_sequences, then sleep_replicas.
Generate ==
    /\ Go("generate", "balance")
    /\ batch' = Repeated
    /\ sampled' = replicas
    /\ replicas' = Asleep
    /\ UNCHANGED <<position, iter, step, weights, won, keeps, logs, saved,
                   restarts>>

Balance ==
    /\ Go("balance", "reward")
    /\ IF BalanceBatch THEN batch' \in Reordered ELSE batch' = batch
    /\ UNCHANGED <<position, iter, step, actor, won, keeps, logs, saved,
                   restarts>>

Reward ==
    /\ Go("reward", "distill")
    /\ won' \in SUBSET Rows
    /\ UNCHANGED <<position, iter, step, actor, batch, keeps, logs, saved,
                   restarts>>

\* _maybe_build_self_distillation_batch: the context updater generates its
\* reflections with the current weights, then solutions are stored.
Distill ==
    /\ Go("distill", "train")
    /\ IF UseUpdater
       THEN sampled' = Version /\ replicas' = Asleep /\ solutions' = Stored
       ELSE UNCHANGED <<sampled, replicas, solutions>>
    /\ UNCHANGED <<position, iter, step, weights, rollout, prev, stopped, past,
                   logs, saved, restarts>>

\* Mutant of Remember: the condition update_iter == 0 is dropped.
RememberEach(entries) ==
    LET all == Append(entries, [batch |-> position, by |-> Version])
    IN  SubSeq(all, IF Len(all) > BufferSize THEN 2 ELSE 1, Len(all))

\* deque(maxlen=buffer_size): the batch with the baseline of its first
\* rollouts, named here by the weights that generated them.
Remember(entries) ==
    LET all == Append(entries, [batch |-> position, by |-> Version])
    IN  IF iter = 0
        THEN SubSeq(all, IF Len(all) > BufferSize THEN 2 ELSE 1, Len(all))
        ELSE entries

\* update_actor, the buffer of past batches and the early stop.
Train ==
    /\ Go("train", "push")
    /\ weights' = Append(weights, position)
    /\ past' = IF ForgetFreq > 0 THEN Remember(past) ELSE past
    /\ stopped' = StopsOn(ByPosition, prev.rows)
    /\ prev' = [rows |-> ByPosition, prompts |-> ByPrompt]
    /\ UNCHANGED <<position, iter, step, replicas, sampled, rollout, solutions,
                   logs, saved, restarts>>

\* Mutant of Push: weights are pushed once, after the last inner iteration.
PushLate ==
    /\ Go("push", "count")
    /\ replicas' = IF LastInner THEN Version ELSE replicas
    /\ batch' = << >> /\ won' = {}
    /\ UNCHANGED <<position, iter, step, weights, sampled, keeps, logs, saved,
                   restarts>>

\* update_weights at the end of the iteration.  The rollouts are done with.
Push ==
    /\ Go("push", "count")
    /\ replicas' = Version
    /\ batch' = << >> /\ won' = {}
    /\ UNCHANGED <<position, iter, step, weights, sampled, keeps, logs, saved,
                   restarts>>

\* Mutants of Count: every iteration is logged here; and the last iteration
\* is recognised one too late.
CountLogged ==
    /\ pc = "count"
    /\ logs' = Append(logs, step)
    /\ step' = step + 1
    /\ IF LastInner THEN pc' = "evaluate" /\ iter' = iter
                    ELSE pc' = "generate" /\ iter' = iter + 1
    /\ UNCHANGED <<position, actor, rollout, keeps, saved, restarts>>
CountOneMore ==
    /\ pc = "count"
    /\ logs' = IF LastInner THEN logs ELSE Append(logs, step)
    /\ step' = step + 1
    /\ IF iter >= MaxK \/ stopped THEN pc' = "evaluate" /\ iter' = iter
                                  ELSE pc' = "generate" /\ iter' = iter + 1
    /\ UNCHANGED <<position, actor, rollout, keeps, saved, restarts>>

\* Metrics of the last inner iteration wait for those of the outer loop.
Count ==
    /\ pc = "count"
    /\ logs' = IF LastInner THEN logs ELSE Append(logs, step)
    /\ step' = step + 1
    /\ IF LastInner THEN pc' = "evaluate" /\ iter' = iter
                    ELSE pc' = "generate" /\ iter' = iter + 1
    /\ UNCHANGED <<position, actor, rollout, keeps, saved, restarts>>

Forgets == Due(ForgetFreq) /\ past # << >>

\* _validate and _eval_on_past_batches generate with what the replicas hold;
\* the latter puts them to sleep and wakes them for every past batch.
Evaluate ==
    /\ Go("evaluate", "log")
    /\ sampled' = IF Due(TestFreq) \/ Forgets THEN replicas ELSE sampled
    /\ replicas' = IF Forgets THEN Version ELSE replicas
    /\ UNCHANGED <<position, iter, step, weights, rollout, keeps, logs, saved,
                   restarts>>

Log ==
    /\ Go("log", "save")
    /\ logs' = Append(logs, step - 1)
    /\ UNCHANGED <<position, iter, step, actor, rollout, keeps, saved, restarts>>

NextBatch == IF position = Batches THEN "done" ELSE "batch"

\* Mutant of Save: the dataloader's state from before the batch.
SaveEarlier ==
    /\ Go("save", NextBatch)
    /\ IF Due(SaveFreq)
       THEN saved' = [step |-> step - 1, position |-> position - 1,
                      weights |-> weights, solutions |-> solutions]
       ELSE UNCHANGED saved
    /\ UNCHANGED <<position, iter, step, actor, rollout, keeps, logs, restarts>>

\* _save_checkpoint(step=last_inner_step) if it is due or the instance is
\* about to expire, and the end of the batch.
Save ==
    /\ Go("save", NextBatch)
    /\ \E esi \in BOOLEAN :
          IF SaveFreq > 0 /\ (Due(SaveFreq) \/ esi)
          THEN saved' = [step |-> step - 1, position |-> position,
                         weights |-> weights, solutions |-> solutions]
          ELSE UNCHANGED saved
    /\ UNCHANGED <<position, iter, step, actor, rollout, keeps, logs, restarts>>

\* The dataloader had nothing left for a process that resumed at its end.
Exhausted ==
    /\ Go("batch", "done")
    /\ position = Batches
    /\ UNCHANGED <<position, iter, step, actor, rollout, keeps, logs, saved,
                   restarts>>

\* The process dies, or has ended; another one loads the last checkpoint.
Restart ==
    /\ restarts < MaxRestarts
    /\ pc' = "start"
    /\ position' = saved.position
    /\ iter' = 0
    /\ step' = saved.step
    /\ weights' = saved.weights
    /\ replicas' = Asleep
    /\ sampled' = Len(saved.weights)
    /\ batch' = << >> /\ won' = {}
    /\ prev' = [rows |-> None, prompts |-> None]
    /\ stopped' = FALSE
    /\ past' = << >>
    /\ solutions' = saved.solutions
    /\ logs' = << >>
    /\ restarts' = restarts + 1
    /\ UNCHANGED saved

Next ==
    \/ Start
    \/ TakeBatch
    \/ Generate
    \/ Balance
    \/ Reward
    \/ Distill
    \/ Train
    \/ Push
    \/ Count
    \/ Evaluate
    \/ Log
    \/ Save
    \/ Exhausted
    \/ Restart

Spec == Init /\ [][Next]_vars

-----------------------------------------------------------------------------
(* Properties *)

Scores == [1..Prompts -> 0..(Prompts * RolloutN)] \cup {None}
Solutions == [Examples -> Responses \cup {None}]

TypeOK ==
    /\ pc \in {"start", "batch", "generate", "balance", "reward", "distill",
               "train", "push", "count", "evaluate", "log", "save", "done"}
    /\ position \in 0..Batches
    /\ iter \in 0..(MaxK - 1)
    /\ step \in Nat
    /\ weights \in Seq(1..Batches)
    /\ replicas \in {Asleep} \cup Nat
    /\ sampled \in {Asleep} \cup Nat
    /\ batch \in Reordered \cup {<< >>}
    /\ won \subseteq Rows
    /\ prev \in [rows: Scores, prompts: Scores]
    /\ stopped \in BOOLEAN
    /\ past \in Seq([batch: 1..Batches, by: Nat])
    /\ solutions \in Solutions
    /\ logs \in Seq(Nat)
    /\ saved \in [step: Nat, position: 0..Batches, weights: Seq(1..Batches),
                  solutions: Solutions]
    /\ restarts \in 0..MaxRestarts

\* "so next iteration generates with the freshly updated policy": rollouts,
\* reflections, validation and forgetting evaluation are generated with the
\* weights the trainer has, never with older ones or by sleeping replicas.
OnPolicy ==
    \/ pc \in {"balance", "reward", "distill", "train"}
    \/ pc \in {"log", "save"} /\ (Due(TestFreq) \/ Forgets)
    => sampled = Version

\* The demonstration a row gets is a successful response to its own example,
\* although responses, examples, uids and scores are lists that the balancing
\* reorders; a failed row gets one whenever any row of its prompt succeeded.
DemonstrationOwn ==
    pc = "train" =>
        \A i \in Rows :
            LET d == Demonstration(i)
            IN  /\ d # None => d = [of |-> ExampleOf(i), ok |-> TRUE]
                /\ i \notin won /\ Winners(batch[i]) # {} => d # None

\* How often a batch is in given weights.
Updates(w, b) == Cardinality({j \in 1..Len(w) : w[j] = b})

\* The name of a checkpoint is the number of gradient steps in it.
SavedStep == saved.step = Len(saved.weights)

\* "Checkpoint saving is always here so it is never mid-batch": the weights,
\* across resumes too, hold every batch before the current one in order, each
\* with min_updates_per_batch to max_updates_per_batch steps, and a checkpoint
\* is named after the steps it holds.
BatchesInOrder ==
    /\ \A i, j \in 1..Len(weights) : i < j => weights[i] <= weights[j]
    /\ \A b \in 1..(IF pc \in {"batch", "done"} THEN position ELSE position - 1) :
          Updates(weights, b) \in MinK..MaxK
    /\ SavedStep

\* "(baseline = scores from the first inner update)": the past batches are the
\* last ones of this process, and the baseline of each was generated before
\* its own first update, with the updates of the batches before it.
BaselineFirst ==
    \A k \in 1..Len(past) :
        /\ \A j \in 1..Len(weights) :
              IF j <= past[k].by THEN weights[j] < past[k].batch
                                 ELSE weights[j] >= past[k].batch
        /\ k > 1 => past[k].batch = past[k - 1].batch + 1

\* "wandb silently drops data logged at an already-committed step": steps are
\* committed in order, each once, and none is left out.
LoggedOnce ==
    /\ \A k \in 2..Len(logs) : logs[k] = logs[k - 1] + 1
    /\ pc \in {"batch", "done"} => logs[Len(logs)] = step - 1

\* "early stop: fraction of prompts that improved vs previous inner
\* iteration": the decision is the one the scores by prompt call for.
StopByPrompt ==
    [][pc = "train" /\ pc' = "push" =>
            stopped' = StopsOn(ByPrompt, prev.prompts)]_vars

=============================================================================
