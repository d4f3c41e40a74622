------------------------- MODULE StreamTrainerProofs -------------------------
(***************************************************************************)
(* What holds of StreamTrainer for every size of a batch, every dataset,   *)
(* every setting of the trainer a theorem does not exclude, and any number *)
(* of crashes.                                                             *)
(***************************************************************************)
EXTENDS StreamTrainer, FiniteSetTheorems, SequenceTheorems, WellFoundedInduction,
        TLAPS

-----------------------------------------------------------------------------
(* Rows and scores *)

\* Row i is a response to prompt q + 1 exactly when it is among the RolloutN
\* rows that follow those of the first q prompts.
LEMMA RowsOfPrompt ==
    ASSUME NEW q \in Nat, NEW i \in Nat \ {0}
    PROVE  (i - 1) \div RolloutN = q
               <=> i \in (q * RolloutN + 1)..(q * RolloutN + RolloutN)
<1> DEFINE p == (i - 1) \div RolloutN
<1>1. /\ p \in Int
      /\ (i - 1) % RolloutN \in 0..(RolloutN - 1)
      /\ i - 1 = RolloutN * p + ((i - 1) % RolloutN)
  BY SizeAssumption
<1> HIDE DEF p
<1>2. ASSUME p = q
      PROVE  i \in (q * RolloutN + 1)..(q * RolloutN + RolloutN)
  BY <1>1, <1>2, SizeAssumption
<1>3. ASSUME i \in (q * RolloutN + 1)..(q * RolloutN + RolloutN)
      PROVE  p = q
  <2>1. ASSUME p >= q + 1
        PROVE  FALSE
    <3>1. RolloutN * p >= RolloutN * (q + 1)
      BY <1>1, <2>1, SizeAssumption
    <3>2. RolloutN * (q + 1) = q * RolloutN + RolloutN
      BY SizeAssumption
    <3> QED BY <1>1, <1>3, <3>1, <3>2, SizeAssumption
  <2>2. ASSUME p <= q - 1
        PROVE  FALSE
    <3>1. RolloutN * p <= RolloutN * (q - 1)
      BY <1>1, <2>2, SizeAssumption
    <3>2. RolloutN * (q - 1) = q * RolloutN - RolloutN
      BY SizeAssumption
    <3> QED BY <1>1, <1>3, <3>1, <3>2, SizeAssumption
  <2> QED BY <1>1, <2>1, <2>2
<1> QED BY <1>2, <1>3 DEF p

LEMMA PromptOfRowType ==
    ASSUME NEW i \in Rows
    PROVE  PromptOfRow(i) \in 1..Prompts
<1> DEFINE q == (i - 1) \div RolloutN
<1>1. /\ i \in 1..(Prompts * RolloutN)
      /\ q \in Int
      /\ (i - 1) % RolloutN \in 0..(RolloutN - 1)
      /\ i - 1 = RolloutN * q + ((i - 1) % RolloutN)
  BY SizeAssumption DEF Rows
<1> HIDE DEF q
<1>2. ASSUME q <= -1
      PROVE  FALSE
  <2>1. RolloutN * q <= RolloutN * (-1)
    BY <1>1, <1>2, SizeAssumption
  <2> QED BY <1>1, <2>1, SizeAssumption
<1>3. ASSUME q >= Prompts
      PROVE  FALSE
  <2>1. RolloutN * q >= RolloutN * Prompts
    BY <1>1, <1>3, SizeAssumption
  <2> QED BY <1>1, <2>1, SizeAssumption
<1> QED BY <1>1, <1>2, <1>3, SizeAssumption DEF q, PromptOfRow

\* The batch as it is repeated is one _balance_batch may leave as it is:
\* RolloutN rows of every prompt.
LEMMA RepeatedReordered == Repeated \in Reordered
<1>1. Repeated \in [Rows -> 1..Prompts]
  BY PromptOfRowType DEF Repeated
<1>2. ASSUME NEW p \in 1..Prompts
      PROVE  Cardinality({i \in Rows : Repeated[i] = p}) = RolloutN
  <2> DEFINE before == (p - 1) * RolloutN
  <2>1. before \in Nat /\ before + RolloutN <= Prompts * RolloutN
    <3>1. p - 1 \in Nat /\ Prompts - p \in Nat
      BY SizeAssumption
    <3>2. (p - 1) * RolloutN \in Nat /\ (Prompts - p) * RolloutN \in Nat
      BY <3>1, SizeAssumption
    <3>3. Prompts * RolloutN = (p - 1) * RolloutN + RolloutN + (Prompts - p) * RolloutN
      BY SizeAssumption
    <3> QED BY <3>2, <3>3, SizeAssumption
  <2>2. \A i \in Rows :
            PromptOfRow(i) = p <=> i \in (before + 1)..(before + RolloutN)
    <3> TAKE i \in Rows
    <3>1. i \in Nat \ {0} /\ p - 1 \in Nat
      BY SizeAssumption DEF Rows
    <3>2. (i - 1) \div RolloutN \in Int
      BY <3>1, SizeAssumption
    <3> QED BY <3>1, <3>2, RowsOfPrompt DEF PromptOfRow
  <2> HIDE DEF before
  <2>3. {i \in Rows : Repeated[i] = p} = (before + 1)..(before + RolloutN)
    BY <2>1, <2>2, SizeAssumption DEF Repeated, Rows
  <2>4. Cardinality((before + 1)..(before + RolloutN)) = RolloutN
    <3>1. before + 1 \in Int /\ before + RolloutN \in Int
      BY <2>1, SizeAssumption
    <3> QED BY <2>1, <3>1, FS_Interval, SizeAssumption
  <2> QED BY <2>3, <2>4
<1> QED BY <1>1, <1>2 DEF Reordered

LEMMA RowsFinite ==
    /\ IsFiniteSet(Rows)
    /\ Cardinality(Rows) = Prompts * RolloutN
<1>1. Prompts * RolloutN \in Nat
  BY SizeAssumption
<1> QED BY <1>1, FS_Interval DEF Rows

\* However the rows are read, a prompt's score counts rows of the batch.
LEMMA ScoresType ==
    ASSUME won \subseteq Rows
    PROVE  ByPosition \in Scores /\ ByPrompt \in Scores
<1>1. ASSUME NEW S, S \subseteq Rows
      PROVE  Cardinality(S) \in 0..(Prompts * RolloutN)
  <2>1. IsFiniteSet(S) /\ Cardinality(S) <= Cardinality(Rows)
    BY <1>1, RowsFinite, FS_Subset
  <2>2. Cardinality(S) \in Nat
    BY <2>1, FS_CardinalityType
  <2>3. Prompts * RolloutN \in Nat
    BY SizeAssumption
  <2> QED BY <2>1, <2>2, <2>3, RowsFinite
<1>2. \A p \in 1..Prompts :
          /\ {i \in won : PromptOfRow(i) = p} \subseteq Rows
          /\ {i \in won : batch[i] = p} \subseteq Rows
  OBVIOUS
<1> QED BY <1>1, <1>2 DEF ByPosition, ByPrompt, Scores

\* First picks an element, the least, of any set of rows that has one.
LEMMA FirstOf ==
    ASSUME NEW S, S \subseteq Rows, S # {}
    PROVE  First(S) \in S
<1>1. S \subseteq Nat
  BY DEF Rows
<1>2. OpToRel(<, Nat) = {ss \in Nat \X Nat : ss[1] < ss[2]}
  BY DEF OpToRel
<1> DEFINE Less == OpToRel(<, Nat)
<1>3. IsWellFoundedOn(Less, Nat) /\ Less = {ss \in Nat \X Nat : ss[1] < ss[2]}
  BY <1>2, NatLessThanWellFounded
<1> HIDE DEF Less
<1>4. \E i \in S : \A j \in S : ~ (<<j, i>> \in Less)
  BY <1>1, <1>3, WFMin
<1>5. \E i \in S : \A j \in S : i <= j
  <2>1. PICK i \in S : \A j \in S : ~ (<<j, i>> \in Less)
    BY <1>4
  <2>2. ASSUME NEW j \in S
        PROVE  ~ (j < i)
    <3>1. <<j, i>> \in Nat \X Nat
      BY <1>1
    <3> QED BY <1>3, <2>1, <3>1
  <2>3. \A j \in S : i <= j
    BY <1>1, <2>2
  <2> QED BY <2>3
<1> QED BY <1>5 DEF First

-----------------------------------------------------------------------------
(* Types *)

InBatch == pc \notin {"start", "batch", "done"}
HasRows == pc \in {"balance", "reward", "distill", "train", "push"}

\* TypeOK needs to know where fit() is: a batch is being worked on only after
\* one was taken, and its rows are there from the generation to the push.
TypeInv ==
    /\ TypeOK
    /\ InBatch => position >= 1
    /\ HasRows => batch \in Reordered
    /\ pc # "start" => step >= 1

LEMMA NoScores == None \in Scores
BY DEF Scores

\* The initial state is well typed.
LEMMA TypeInit == Init => TypeInv
<1> SUFFICES ASSUME Init PROVE TypeInv
  OBVIOUS
<1>1. Batches \in Nat
  BY DataAssumption DEF Batches
<1>2. FreshSave \in [step: Nat, position: 0..Batches, weights: Seq(1..Batches),
                     solutions: Solutions]
  BY <1>1 DEF FreshSave, Solutions
<1>3. /\ saved \in [step: Nat, position: 0..Batches, weights: Seq(1..Batches),
                     solutions: Solutions]
      /\ solutions \in Solutions
  BY <1>2 DEF Init
<1>4. /\ weights \in Seq(1..Batches)
      /\ past \in Seq([batch: 1..Batches, by: Nat])
      /\ logs \in Seq(Nat)
  BY DEF Init
<1>5. prev \in [rows: Scores, prompts: Scores]
  BY NoScores DEF Init
<1>6. iter \in 0..(MaxK - 1) /\ restarts \in 0..MaxRestarts
  BY SizeAssumption DEF Init
<1>7. pc = "start" /\ batch = << >> /\ won = {}
  BY DEF Init
<1>8. position \in 0..Batches /\ step \in Nat
  BY <1>1 DEF Init
<1>9. stopped \in BOOLEAN
  BY DEF Init
<1>10. replicas \in {Asleep} \cup Nat /\ sampled \in {Asleep} \cup Nat
  BY DEF Init
<1>11. TypeOK
  BY <1>3, <1>4, <1>5, <1>6, <1>7, <1>8, <1>9, <1>10 DEF TypeOK
<1> QED BY <1>7, <1>11 DEF Init, TypeInv, InBatch, HasRows

\* The example and the response of a row are what they should be while the
\* batch has its rows.
LEMMA ResponseType ==
    ASSUME TypeInv, HasRows, NEW i \in Rows
    PROVE  ExampleOf(i) \in Examples /\ Response(i) \in Responses
<1>1. position \in 1..Len(Data)
  BY DEF TypeInv, TypeOK, InBatch, HasRows, Batches
<1>2. batch[i] \in 1..Prompts
  BY DEF TypeInv, Reordered
<1>3. Data[position] \in [1..Prompts -> Examples]
  BY <1>1, DataAssumption
<1>4. ExampleOf(i) \in Examples
  BY <1>2, <1>3 DEF ExampleOf
<1>5. (i \in won) \in BOOLEAN
  OBVIOUS
<1> QED BY <1>4, <1>5 DEF Response, Responses

LEMMA StoredType ==
    ASSUME TypeInv, HasRows
    PROVE  Stored \in Solutions
<1>1. ASSUME NEW e \in Examples
      PROVE  Stored[e] \in Responses \cup {None}
  <2> DEFINE mine == {i \in won : ExampleOf(i) = e}
  <2>1. mine # {} => First(mine) \in Rows
    <3>1. mine \subseteq Rows
      BY DEF TypeInv, TypeOK
    <3> QED BY <3>1, FirstOf
  <2>2. mine # {} => Response(First(mine)) \in Responses
    BY <2>1, ResponseType
  <2>3. solutions[e] \in Responses \cup {None}
    BY DEF TypeInv, TypeOK, Solutions
  <2>4. Stored[e] = IF UseSolutionBuffer /\ mine # {}
                    THEN Response(First(mine)) ELSE solutions[e]
    BY DEF Stored
  <2> QED BY <2>2, <2>3, <2>4
<1> QED BY <1>1 DEF Solutions, Stored

\* A suffix of a sequence has its elements.
LEMMA SuffixType ==
    ASSUME NEW S, NEW s \in Seq(S), NEW m \in 1..(Len(s) + 1)
    PROVE  SubSeq(s, m, Len(s)) \in Seq(S)
<1>1. Len(s) \in Nat /\ m \in Int
  OBVIOUS
<1>2. \A j \in m..Len(s) : s[j] \in S
  BY <1>1
<1> QED BY <1>1, <1>2, SubSeqProperties

LEMMA RememberType ==
    ASSUME TypeInv, InBatch
    PROVE  Remember(past) \in Seq([batch: 1..Batches, by: Nat])
<1> DEFINE all == Append(past, [batch |-> position, by |-> Version])
           first == IF Len(all) > BufferSize THEN 2 ELSE 1
<1>1. /\ past \in Seq([batch: 1..Batches, by: Nat])
      /\ [batch |-> position, by |-> Version] \in [batch: 1..Batches, by: Nat]
  BY DEF TypeInv, TypeOK, Version
<1>2. all \in Seq([batch: 1..Batches, by: Nat])
  BY <1>1
<1>3. Len(all) \in Nat /\ Len(all) >= 1
  BY <1>1
<1> HIDE DEF all
<1>4. first \in 1..(Len(all) + 1)
  BY <1>3, SizeAssumption
<1> HIDE DEF first
<1>5. SubSeq(all, first, Len(all)) \in Seq([batch: 1..Batches, by: Nat])
  BY <1>2, <1>4, SuffixType
<1> QED BY <1>1, <1>5 DEF Remember, all, first

\* Every step keeps the types.
LEMMA TypeStep == TypeInv /\ [Next]_vars => TypeInv'
<1> SUFFICES ASSUME TypeInv, [Next]_vars
             PROVE  TypeInv'
  OBVIOUS
<1>0. /\ Batches \in Nat
      /\ Version \in Nat
      /\ Len(saved.weights) \in Nat
  BY DataAssumption DEF Batches, Version, TypeInv, TypeOK
<1> USE <1>0 DEF TypeInv, InBatch, HasRows
<1>1. CASE Start
  BY <1>1 DEF Start, TypeOK, rollout, keeps
<1>2. CASE TakeBatch
  <2>1. (prev \in [rows: Scores, prompts: Scores])'
    BY <1>2, NoScores DEF TakeBatch
  <2>2. position' \in 0..Batches /\ position' >= 1 /\ iter' \in 0..(MaxK - 1)
    BY <1>2, SizeAssumption DEF TakeBatch, TypeOK
  <2>3. stopped' \in BOOLEAN /\ pc = "batch" /\ pc' = "generate"
    BY <1>2 DEF TakeBatch, Go
  <2>4. UNCHANGED <<step, weights, replicas, sampled, batch, won, past,
                    solutions, logs, saved, restarts>>
    BY <1>2 DEF TakeBatch, actor, rollout
  <2> QED BY <2>1, <2>2, <2>3, <2>4 DEF TypeOK
<1>3. CASE Generate
  BY <1>3, RepeatedReordered DEF Generate, Go, TypeOK, Asleep, keeps
<1>4. CASE Balance
  BY <1>4 DEF Balance, Go, TypeOK, actor, keeps
<1>5. CASE Reward
  BY <1>5 DEF Reward, Go, TypeOK, actor, keeps
<1>6. CASE Distill
  BY <1>6, StoredType DEF Distill, Go, TypeOK, Asleep, rollout
<1>7. CASE Train
  <2>1. stopped' \in BOOLEAN
    BY <1>7 DEF Train, StopsOn
  <2>2. prev' \in [rows: Scores, prompts: Scores]
    BY <1>7, ScoresType DEF Train, TypeOK
  <2>3. past' \in Seq([batch: 1..Batches, by: Nat])
    BY <1>7, RememberType DEF Train, Go, TypeOK
  <2>4. weights' \in Seq(1..Batches)
    BY <1>7 DEF Train, Go, TypeOK
  <2> QED BY <1>7, <2>1, <2>2, <2>3, <2>4 DEF Train, Go, TypeOK, rollout
<1>8. CASE Push
  BY <1>8 DEF Push, Go, TypeOK, keeps
<1>9. CASE Count
  BY <1>9, SizeAssumption, SMTT(30) DEF Count, LastInner, TypeOK, actor, rollout, keeps
<1>10. CASE Evaluate
  BY <1>10 DEF Evaluate, Go, TypeOK, rollout, keeps
<1>11. CASE Log
  BY <1>11 DEF Log, Go, TypeOK, actor, rollout, keeps
<1>12. CASE Save
  BY <1>12 DEF Save, Go, NextBatch, TypeOK, actor, rollout, keeps
<1>13. CASE Exhausted
  BY <1>13 DEF Exhausted, Go, TypeOK, actor, rollout, keeps
<1>14. CASE Restart
  <2>1. /\ << >> \in Seq([batch: 1..Batches, by: Nat])
        /\ << >> \in Seq(Nat)
    OBVIOUS
  <2>2. (prev \in [rows: Scores, prompts: Scores])'
    BY <1>14, NoScores DEF Restart
  <2>3. iter' \in 0..(MaxK - 1) /\ restarts' \in 0..MaxRestarts
    BY <1>14, SizeAssumption DEF Restart, TypeOK
  <2>4. /\ saved' = saved /\ position' = saved.position /\ step' = saved.step
        /\ weights' = saved.weights /\ solutions' = saved.solutions
        /\ pc' = "start" /\ replicas' = -1 /\ sampled' \in Nat
        /\ batch' = << >> /\ won' = {} /\ stopped' = FALSE
        /\ past' = << >> /\ logs' = << >>
    BY <1>14 DEF Restart, Asleep
  <2> QED BY <2>1, <2>2, <2>3, <2>4 DEF TypeOK, Asleep
<1>15. CASE UNCHANGED vars
  BY <1>15 DEF vars, actor, rollout, keeps, TypeOK, Reordered
<1> QED BY <1>1, <1>2, <1>3, <1>4, <1>5, <1>6, <1>7, <1>8, <1>9, <1>10, <1>11,
           <1>12, <1>13, <1>14, <1>15 DEF Next

LEMMA TypeInvariant == Spec => []TypeInv
BY TypeInit, TypeStep, PTL DEF Spec

\* Type correctness of fit() with its crashes and resumes.
THEOREM TypeCorrect == Spec => []TypeOK
BY TypeInvariant, PTL DEF TypeInv

-----------------------------------------------------------------------------
(* Steps: global_steps, the checkpoint's name and the logged steps *)

\* global_steps is ahead of the gradient steps by one, except between an
\* update and the counting of it.
CountInv ==
    /\ step = IF pc \in {"start", "push", "count"} THEN Version ELSE Version + 1
    /\ SavedStep

LEMMA CountStep == TypeInv /\ CountInv /\ [Next]_vars => CountInv'
<1> SUFFICES ASSUME TypeInv, CountInv, [Next]_vars
             PROVE  CountInv'
  OBVIOUS
<1>0. weights \in Seq(1..Batches) /\ saved.weights \in Seq(1..Batches) /\ step \in Nat
  BY DEF TypeInv, TypeOK
<1> USE <1>0 DEF CountInv, SavedStep, Version, Go
<1>1. CASE Start
  BY <1>1 DEF Start
<1>2. CASE TakeBatch
  BY <1>2 DEF TakeBatch, actor
<1>3. CASE Generate \/ Balance \/ Reward \/ Distill
  BY <1>3 DEF Generate, Balance, Reward, Distill, actor
<1>4. CASE Train
  BY <1>4 DEF Train
<1>5. CASE Push
  BY <1>5 DEF Push
<1>6. CASE Count
  BY <1>6 DEF Count, actor
<1>7. CASE Evaluate \/ Log \/ Exhausted
  BY <1>7 DEF Evaluate, Log, Exhausted, actor
<1>8. CASE Save
  <2>1. step' = Version + 1 /\ weights' = weights /\ pc' \in {"batch", "done"}
    BY <1>8 DEF Save, NextBatch, actor
  <2>2. SavedStep'
    BY <1>8 DEF Save
  <2> QED BY <2>1, <2>2
<1>9. CASE Restart
  BY <1>9 DEF Restart
<1>10. CASE UNCHANGED vars
  BY <1>10 DEF vars, actor
<1> QED BY <1>1, <1>2, <1>3, <1>4, <1>5, <1>6, <1>7, <1>8, <1>9, <1>10 DEF Next

LEMMA CountInvariant == Spec => []CountInv
<1>1. Init => CountInv
  BY DEF Init, CountInv, SavedStep, Version, FreshSave
<1> QED BY <1>1, CountStep, TypeInvariant, PTL DEF Spec

\* A checkpoint is named after the gradient steps in it, whatever early stops
\* and resumes came before.
THEOREM CheckpointNamed == Spec => []SavedStep
BY CountInvariant, PTL DEF CountInv

\* The steps committed so far, and the next one: the metrics of the last inner
\* iteration are not committed while those of the outer loop are collected.
LogInv ==
    /\ \A k \in 2..Len(logs) : logs[k] = logs[k - 1] + 1
    /\ pc # "start" =>
          /\ Len(logs) >= 1
          /\ logs[Len(logs)] = IF pc \in {"evaluate", "log"} THEN step - 2
                                                            ELSE step - 1

LEMMA LogStep == TypeInv /\ LogInv /\ [Next]_vars => LogInv'
<1> SUFFICES ASSUME TypeInv, LogInv, [Next]_vars
             PROVE  LogInv'
  OBVIOUS
<1>0. logs \in Seq(Nat) /\ step \in Nat
  BY DEF TypeInv, TypeOK
<1>a. ASSUME Len(logs) >= 1, NEW n \in Nat, logs' = Append(logs, n),
             n = logs[Len(logs)] + 1
      PROVE  /\ \A k \in 2..Len(logs') : logs'[k] = logs'[k - 1] + 1
             /\ Len(logs') >= 1 /\ logs'[Len(logs')] = n
  BY <1>0, <1>a DEF LogInv
<1>b. ASSUME UNCHANGED <<logs, step>>, pc # "start", pc' # "start",
             pc \in {"evaluate", "log"} <=> pc' \in {"evaluate", "log"}
      PROVE  LogInv'
  BY <1>b DEF LogInv
<1>1. CASE Start
  BY <1>1, <1>0 DEF Start, LogInv
<1>2. CASE TakeBatch \/ Generate \/ Balance \/ Reward \/ Distill \/ Train \/ Push
  BY <1>2, <1>b
     DEF TakeBatch, Generate, Balance, Reward, Distill, Train, Push, Go, keeps
<1>3. CASE Count
  <2>1. CASE LastInner
    BY <1>3, <2>1, <1>0 DEF Count, LogInv
  <2>2. CASE ~ LastInner
    BY <1>3, <2>2, <1>0, <1>a DEF Count, LogInv
  <2> QED BY <2>1, <2>2
<1>4. CASE Evaluate \/ Save \/ Exhausted
  BY <1>4, <1>b DEF Evaluate, Save, Exhausted, Go, NextBatch
<1>5. CASE Log
  <2>1. /\ pc = "log" /\ pc' = "save" /\ step' = step
        /\ logs' = Append(logs, step - 1)
    BY <1>5 DEF Log, Go
  <2>2. step - 1 \in Nat /\ step - 1 = logs[Len(logs)] + 1
    BY <1>0, <2>1 DEF LogInv, TypeInv
  <2> QED BY <1>a, <2>1, <2>2 DEF LogInv
<1>6. CASE Restart
  BY <1>6 DEF Restart, LogInv
<1>7. CASE UNCHANGED vars
  BY <1>7 DEF vars, LogInv
<1> QED BY <1>1, <1>2, <1>3, <1>4, <1>5, <1>6, <1>7 DEF Next

\* Every step is committed once and in order, with none left out, by every
\* process, whatever iterations stop early.
THEOREM StepsLogged == Spec => []LoggedOnce
<1>1. Init => LogInv
  BY DEF Init, LogInv
<1>2. LogInv => LoggedOnce
  BY DEF LogInv, LoggedOnce
<1> QED BY <1>1, <1>2, LogStep, TypeInvariant, PTL DEF Spec

-----------------------------------------------------------------------------
(* Which weights generate *)

\* The replicas hold the trainer's weights wherever fit() may generate next.
PolicyInv ==
    /\ pc \in {"batch", "generate", "count", "evaluate", "log", "save", "done"}
           => replicas = Version
    /\ OnPolicy

LEMMA PolicyStep == TypeInv /\ PolicyInv /\ [Next]_vars => PolicyInv'
<1> SUFFICES ASSUME TypeInv, PolicyInv, [Next]_vars
             PROVE  PolicyInv'
  OBVIOUS
<1> USE DEF PolicyInv, OnPolicy, Version, Go
<1>1. CASE Start
  BY <1>1 DEF Start
<1>2. CASE TakeBatch
  BY <1>2 DEF TakeBatch, actor
<1>3. CASE Generate
  BY <1>3 DEF Generate
<1>4. CASE Balance \/ Reward
  BY <1>4 DEF Balance, Reward, actor
<1>5. CASE Distill
  BY <1>5 DEF Distill
<1>6. CASE Train
  BY <1>6 DEF Train
<1>7. CASE Push
  BY <1>7 DEF Push
<1>8. CASE Count
  BY <1>8 DEF Count, actor
<1>9. CASE Evaluate
  <2>1. /\ replicas = Version
        /\ weights' = weights /\ position' = position /\ past' = past
    BY <1>9 DEF Evaluate, keeps
  <2>2. /\ Due(TestFreq)' <=> Due(TestFreq)
        /\ Forgets' <=> Forgets
    BY <2>1 DEF Due, Forgets
  <2> QED BY <1>9, <2>1, <2>2 DEF Evaluate
<1>10. CASE Log
  <2>1. /\ Due(TestFreq)' <=> Due(TestFreq)
        /\ Forgets' <=> Forgets
    BY <1>10 DEF Log, Due, Forgets, keeps
  <2> QED BY <1>10, <2>1 DEF Log, actor
<1>11. CASE Save \/ Exhausted
  BY <1>11 DEF Save, Exhausted, NextBatch, actor
<1>12. CASE Restart
  BY <1>12 DEF Restart
<1>13. CASE UNCHANGED vars
  BY <1>13 DEF vars, actor, keeps, Due, Forgets
<1> QED BY <1>1, <1>2, <1>3, <1>4, <1>5, <1>6, <1>7, <1>8, <1>9, <1>10, <1>11,
           <1>12, <1>13 DEF Next

\* Every rollout, reflection, validation and forgetting evaluation is
\* generated with the weights the trainer has.
THEOREM AlwaysOnPolicy == Spec => []OnPolicy
<1>1. Init => PolicyInv
  BY DEF Init, PolicyInv, OnPolicy
<1>2. PolicyInv => OnPolicy
  BY DEF PolicyInv
<1> QED BY <1>1, <1>2, PolicyStep, TypeInvariant, PTL DEF Spec

-----------------------------------------------------------------------------
(* The early stop, when batches are not balanced *)

\* The rows are where the repeat put them, now and in the last iteration.
InPlace ==
    /\ pc \in {"balance", "reward", "distill", "train"} => batch = Repeated
    /\ prev.rows = prev.prompts

\* Then a score by position is the score of that prompt.
LEMMA ScoresAgree ==
    ASSUME won \subseteq Rows, batch = Repeated
    PROVE  ByPosition = ByPrompt
<1>1. \A p \in 1..Prompts : {i \in won : PromptOfRow(i) = p} = {i \in won : batch[i] = p}
  BY DEF Repeated
<1> QED BY <1>1 DEF ByPosition, ByPrompt

LEMMA InPlaceStep == ~BalanceBatch /\ TypeInv /\ InPlace /\ [Next]_vars => InPlace'
<1> SUFFICES ASSUME ~BalanceBatch, TypeInv, InPlace, [Next]_vars
             PROVE  InPlace'
  OBVIOUS
<1> USE DEF InPlace, Go, Repeated
<1>1. CASE TakeBatch \/ Restart
  BY <1>1 DEF TakeBatch, Restart
<1>2. CASE Generate
  BY <1>2 DEF Generate, keeps
<1>3. CASE Balance
  BY <1>3 DEF Balance, keeps
<1>4. CASE Reward \/ Distill
  BY <1>4 DEF Reward, Distill, keeps, rollout
<1>5. CASE Train
  <2>1. ByPosition = ByPrompt
    BY <1>5, ScoresAgree DEF Train, TypeInv, TypeOK
  <2> QED BY <1>5, <2>1 DEF Train
<1>6. CASE Start \/ Push \/ Count \/ Evaluate \/ Log \/ Save \/ Exhausted
  <2>1. prev' = prev /\ pc' \notin {"balance", "reward", "distill", "train"}
    BY <1>6 DEF Start, Push, Count, Evaluate, Log, Save, Exhausted, NextBatch, keeps
  <2> QED BY <2>1
<1>7. CASE UNCHANGED vars
  BY <1>7 DEF vars, keeps, rollout
<1> QED BY <1>1, <1>2, <1>3, <1>4, <1>5, <1>6, <1>7 DEF Next

\* Without balance_batch the early stop compares what the scores of the
\* prompts call for: reading the rows by position is harmless there, and the
\* reordering alone is what breaks it.
THEOREM StopsAsScored ==
    ASSUME ~BalanceBatch
    PROVE  Spec => StopByPrompt
<1> DEFINE Stop == pc = "train" /\ pc' = "push" =>
                       stopped' = StopsOn(ByPrompt, prev.prompts)
<1>1. Init => InPlace
  BY DEF Init, InPlace
<1>2. TypeInv /\ InPlace /\ [Next]_vars => InPlace'
  BY InPlaceStep
<1>3. TypeInv /\ InPlace /\ [Next]_vars => [Stop]_vars
  <2> SUFFICES ASSUME TypeInv, InPlace, [Next]_vars, pc = "train", pc' = "push"
               PROVE  stopped' = StopsOn(ByPrompt, prev.prompts)
    OBVIOUS
  <2>1. Train
    BY DEF Next, Start, TakeBatch, Generate, Balance, Reward, Distill, Push, Count,
           Evaluate, Log, Save, NextBatch, Exhausted, Restart, Go, vars
  <2>2. ByPosition = ByPrompt
    BY ScoresAgree DEF TypeInv, TypeOK, InPlace
  <2> QED BY <2>1, <2>2 DEF Train, InPlace
<1> QED BY <1>1, <1>2, <1>3, TypeInvariant, PTL DEF Spec, StopByPrompt

-----------------------------------------------------------------------------
(* Demonstrations *)

\* What is stored for an example is a successful response to it.
OwnSolutions(sol) ==
    \A e \in Examples : sol[e] # None => sol[e] = [of |-> e, ok |-> TRUE]
SolutionInv == OwnSolutions(solutions) /\ OwnSolutions(saved.solutions)

LEMMA StoredOwn ==
    ASSUME TypeInv, HasRows, OwnSolutions(solutions)
    PROVE  OwnSolutions(Stored)
<1> SUFFICES ASSUME NEW e \in Examples, Stored[e] # None
             PROVE  Stored[e] = [of |-> e, ok |-> TRUE]
  BY DEF OwnSolutions
<1> DEFINE mine == {i \in won : ExampleOf(i) = e}
<1>1. Stored[e] = IF UseSolutionBuffer /\ mine # {}
                  THEN Response(First(mine)) ELSE solutions[e]
  BY DEF Stored
<1>2. CASE UseSolutionBuffer /\ mine # {}
  <2>1. mine \subseteq Rows
    BY DEF TypeInv, TypeOK
  <2>2. First(mine) \in mine
    BY <1>2, <2>1, FirstOf
  <2> QED BY <1>1, <1>2, <2>2 DEF Response
<1>3. CASE ~ (UseSolutionBuffer /\ mine # {})
  BY <1>1, <1>3 DEF OwnSolutions
<1> QED BY <1>2, <1>3

LEMMA SolutionStep == TypeInv /\ SolutionInv /\ [Next]_vars => SolutionInv'
<1> SUFFICES ASSUME TypeInv, SolutionInv, [Next]_vars
             PROVE  SolutionInv'
  OBVIOUS
<1> USE DEF SolutionInv
<1>1. CASE Distill
  <2>1. saved' = saved /\ solutions' \in {Stored, solutions}
    BY <1>1 DEF Distill
  <2>2. OwnSolutions(Stored)
    BY <1>1, StoredOwn DEF Distill, Go, HasRows
  <2> QED BY <2>1, <2>2 DEF OwnSolutions
<1>2. CASE Save
  BY <1>2 DEF Save, keeps, OwnSolutions
<1>3. CASE Restart
  BY <1>3 DEF Restart, OwnSolutions
<1>4. CASE UNCHANGED <<solutions, saved>>
  BY <1>4 DEF OwnSolutions
<1>5. CASE UNCHANGED vars
  BY <1>4, <1>5 DEF vars, keeps
<1> QED BY <1>1, <1>2, <1>3, <1>4, <1>5
        DEF Next, Start, TakeBatch, Generate, Balance, Reward, Train, Push, Count,
            Evaluate, Log, Exhausted, keeps

\* The teacher's prompt of a row shows a successful response to the row's own
\* example, however the batch was reordered and whichever process stored it,
\* and shows one whenever a response to the same prompt succeeded.
THEOREM DemonstrationsOwn == Spec => []DemonstrationOwn
<1>1. Init => SolutionInv
  BY DEF Init, SolutionInv, OwnSolutions, FreshSave
<1>2. TypeInv /\ SolutionInv => DemonstrationOwn
  <2> SUFFICES ASSUME TypeInv, SolutionInv, pc = "train", NEW i \in Rows
               PROVE  /\ Demonstration(i) # None
                             => Demonstration(i) = [of |-> ExampleOf(i), ok |-> TRUE]
                      /\ i \notin won /\ Winners(batch[i]) # {}
                             => Demonstration(i) # None
    BY DEF DemonstrationOwn
  <2>1. ExampleOf(i) \in Examples
    BY ResponseType DEF HasRows
  <2>2. CASE i \in won
    BY <2>2 DEF Demonstration, Response
  <2>3. CASE i \notin won /\ Winners(batch[i]) # {}
    <3> DEFINE j == First(Winners(batch[i]))
    <3>1. Winners(batch[i]) \subseteq Rows
      BY DEF Winners, TypeInv, TypeOK
    <3>2. j \in won /\ batch[j] = batch[i]
      BY <2>3, <3>1, FirstOf DEF Winners
    <3>3. Response(j) = [of |-> ExampleOf(i), ok |-> TRUE]
      BY <3>2 DEF Response, ExampleOf
    <3>4. Demonstration(i) = Response(j)
      BY <2>3 DEF Demonstration
    <3>5. Response(j) # None
      <4>1. Response(j) \in Responses
        BY <3>1, <3>2, ResponseType DEF HasRows, TypeInv, TypeOK
      <4>2. None \notin Responses
        BY DataAssumption DEF Responses
      <4> QED BY <4>1, <4>2
    <3> QED BY <3>3, <3>4, <3>5
  <2>4. CASE i \notin won /\ Winners(batch[i]) = {}
    BY <2>1, <2>4 DEF Demonstration, SolutionInv, OwnSolutions
  <2> QED BY <2>2, <2>3, <2>4
<1> QED BY <1>1, <1>2, SolutionStep, TypeInvariant, PTL DEF Spec

-----------------------------------------------------------------------------
(* The batches in the weights *)

\* One more gradient step on batch p.
LEMMA UpdatesAppend ==
    ASSUME NEW w \in Seq(1..Batches), NEW p \in 1..Batches, NEW b \in Nat
    PROVE  /\ Updates(w, b) \in Nat
           /\ Updates(Append(w, p), b) = IF p = b THEN Updates(w, b) + 1
                                                  ELSE Updates(w, b)
<1> DEFINE old == {j \in 1..Len(w) : w[j] = b}
           new == {j \in 1..Len(Append(w, p)) : Append(w, p)[j] = b}
<1>1. Len(w) \in Nat /\ Len(w) + 1 \notin old
  OBVIOUS
<1>2. IsFiniteSet(old)
  <2>1. IsFiniteSet(1..Len(w))
    BY <1>1, FS_Interval
  <2> QED BY <2>1, FS_Subset
<1>3. new = IF p = b THEN old \cup {Len(w) + 1} ELSE old
  OBVIOUS
<1>4. Cardinality(old) \in Nat /\ Cardinality(old \cup {Len(w) + 1}) = Cardinality(old) + 1
  BY <1>1, <1>2, FS_CardinalityType, FS_AddElement
<1>5. Updates(w, b) = Cardinality(old) /\ Updates(Append(w, p), b) = Cardinality(new)
  BY DEF Updates
<1> HIDE DEF old, new
<1> QED BY <1>3, <1>4, <1>5

\* A batch that is in none of them.
LEMMA UpdatesNone ==
    ASSUME NEW w \in Seq(1..Batches), NEW b
    PROVE  (\A j \in 1..Len(w) : w[j] # b) <=> Updates(w, b) = 0
<1> DEFINE S == {j \in 1..Len(w) : w[j] = b}
<1>1. IsFiniteSet(S)
  <2>1. Len(w) \in Nat
    OBVIOUS
  <2>2. IsFiniteSet(1..Len(w))
    BY <2>1, FS_Interval
  <2> QED BY <2>2, FS_Subset
<1>2. S = {} <=> Cardinality(S) = 0
  BY <1>1, FS_EmptySet
<1> QED BY <1>2 DEF Updates

\* Batches come in order, none after n, and the first m are finished.
Ordered(w, n, m) ==
    /\ \A i, j \in 1..Len(w) : i < j => w[i] <= w[j]
    /\ \A j \in 1..Len(w) : w[j] <= n
    /\ \A b \in 1..m : Updates(w, b) \in MinK..MaxK

Pushed == pc \in {"push", "count", "evaluate", "log", "save"}

\* The weights at hand and the saved ones are those of whole batches, and the
\* current batch is in them once for each iteration it had.
OrderInv ==
    /\ Ordered(weights, position, IF InBatch THEN position - 1 ELSE position)
    /\ InBatch => Updates(weights, position) = IF Pushed THEN iter + 1 ELSE iter
    /\ stopped => iter + 1 >= MinK
    /\ pc \in {"evaluate", "log", "save"} => LastInner
    /\ Ordered(saved.weights, saved.position, saved.position)

LEMMA OrderStep == TypeInv /\ OrderInv /\ [Next]_vars => OrderInv'
<1> SUFFICES ASSUME TypeInv, OrderInv, [Next]_vars
             PROVE  OrderInv'
  OBVIOUS
<1>0. /\ weights \in Seq(1..Batches) /\ saved.weights \in Seq(1..Batches)
      /\ position \in 0..Batches /\ iter \in 0..(MaxK - 1) /\ Batches \in Nat
      /\ stopped \in BOOLEAN
  BY DataAssumption DEF TypeInv, TypeOK, Batches
<1>a. ASSUME UNCHANGED <<position, iter, weights, stopped, saved>>,
             InBatch <=> InBatch', Pushed <=> Pushed',
             pc' \in {"evaluate", "log", "save"} => LastInner
      PROVE  OrderInv'
  BY <1>a DEF OrderInv, LastInner
<1>1. CASE Start
  BY <1>1 DEF Start, Go, OrderInv, InBatch, Pushed, actor, keeps, LastInner
<1>2. CASE TakeBatch
  <2>1. /\ position' = position + 1 /\ iter' = 0 /\ stopped' = FALSE
        /\ UNCHANGED <<weights, saved>> /\ ~InBatch /\ InBatch' /\ ~Pushed'
        /\ pc' = "generate"
    BY <1>2 DEF TakeBatch, Go, actor, InBatch, Pushed
  <2>2. Updates(weights, position + 1) = 0
    <3>1. \A j \in 1..Len(weights) : weights[j] # position + 1
      BY <1>0, <2>1 DEF OrderInv, Ordered
    <3> QED BY <1>0, <3>1, UpdatesNone
  <2>3. Ordered(weights, position + 1, position)
    BY <1>0, <2>1 DEF OrderInv, Ordered
  <2>4. (position + 1) - 1 = position
    BY <1>0
  <2> QED BY <2>1, <2>2, <2>3, <2>4 DEF OrderInv
<1>3. CASE Generate \/ Balance \/ Reward \/ Distill
  BY <1>3, <1>a
     DEF Generate, Balance, Reward, Distill, Go, InBatch, Pushed, actor, keeps
<1>4. CASE Train
  <2>1. /\ weights' = Append(weights, position)
        /\ UNCHANGED <<position, iter, saved>>
        /\ InBatch /\ InBatch' /\ ~Pushed /\ Pushed' /\ pc' = "push"
        /\ position \in 1..Batches
    BY <1>0, <1>4 DEF Train, Go, InBatch, Pushed, TypeInv
  <2>2. Ordered(weights', position, position - 1)
    <3>1. \A b \in 1..(position - 1) : Updates(weights', b) = Updates(weights, b)
      <4> TAKE b \in 1..(position - 1)
      <4>1. b \in Nat /\ b # position
        BY <1>0
      <4> QED BY <1>0, <2>1, <4>1, UpdatesAppend
    <3>2. \A j \in 1..Len(weights') :
              weights'[j] = IF j \in 1..Len(weights) THEN weights[j] ELSE position
      BY <1>0, <2>1
    <3>3. \A j \in 1..Len(weights') : weights'[j] \in Int /\ weights'[j] <= position
      <4>1. \A j \in 1..Len(weights) : weights[j] \in Int /\ weights[j] <= position
        BY <1>0 DEF OrderInv, Ordered
      <4> QED BY <2>1, <3>2, <4>1
    <3>4. ASSUME NEW i \in 1..Len(weights'), NEW j \in 1..Len(weights'), i < j
          PROVE  weights'[i] <= weights'[j]
      <4>1. CASE j \in 1..Len(weights)
        <5>1. i \in 1..Len(weights)
          BY <3>4, <4>1
        <5>2. weights[i] <= weights[j]
          BY <3>4, <4>1, <5>1 DEF OrderInv, Ordered
        <5> QED BY <3>2, <4>1, <5>1, <5>2
      <4>2. CASE j \notin 1..Len(weights)
        BY <3>2, <3>3, <4>2
      <4> QED BY <4>1, <4>2
    <3> QED BY <2>1, <3>1, <3>3, <3>4 DEF OrderInv, Ordered
  <2>3. Updates(weights', position) = iter + 1
    BY <1>0, <2>1, UpdatesAppend DEF OrderInv
  <2>4. stopped' => iter + 1 >= MinK
    BY <1>4 DEF Train, StopsOn
  <2> QED BY <2>1, <2>2, <2>3, <2>4 DEF OrderInv
<1>5. CASE Push
  BY <1>5, <1>a DEF Push, Go, InBatch, Pushed, keeps
<1>6. CASE Count
  <2>1. /\ UNCHANGED <<position, weights, stopped, saved>>
        /\ InBatch /\ InBatch' /\ Pushed
    BY <1>6 DEF Count, InBatch, Pushed, actor, keeps
  <2>2. CASE LastInner
    BY <1>6, <2>1, <2>2 DEF Count, OrderInv, Pushed, LastInner
  <2>3. CASE ~LastInner
    <3>1. ~stopped /\ pc' = "generate" /\ iter' = iter + 1 /\ ~Pushed'
      BY <1>6, <2>3 DEF Count, LastInner, Pushed
    <3> QED BY <2>1, <3>1 DEF OrderInv
  <2> QED BY <2>2, <2>3
<1>7. CASE Evaluate \/ Log
  BY <1>7, <1>a DEF Evaluate, Log, Go, InBatch, Pushed, actor, keeps, OrderInv
<1>8. CASE Save
  <2>1. /\ UNCHANGED <<position, iter, weights, stopped>>
        /\ InBatch /\ ~InBatch' /\ Pushed /\ pc = "save"
        /\ pc' \notin {"evaluate", "log", "save"}
    BY <1>8 DEF Save, Go, NextBatch, InBatch, Pushed, actor, keeps
  <2>2. Ordered(weights, position, position)
    <3>1. Updates(weights, position) \in MinK..MaxK
      <4>1. iter + 1 <= MaxK /\ iter + 1 >= MinK
        BY <1>0, <2>1, SizeAssumption DEF OrderInv, LastInner
      <4>2. Updates(weights, position) = iter + 1
        BY <2>1 DEF OrderInv
      <4> QED BY <1>0, <4>1, <4>2, SizeAssumption
    <3>2. \A b \in 1..position : b = position \/ b \in 1..(position - 1)
      BY <1>0
    <3> QED BY <2>1, <3>1, <3>2 DEF OrderInv, Ordered
  <2>3. \/ UNCHANGED saved
        \/ saved'.weights = weights /\ saved'.position = position
    BY <1>8 DEF Save
  <2> QED BY <2>1, <2>2, <2>3 DEF OrderInv
<1>9. CASE Exhausted
  BY <1>9, <1>a DEF Exhausted, Go, InBatch, Pushed, actor, keeps
<1>10. CASE Restart
  <2>1. /\ pc' = "start" /\ weights' = saved.weights
        /\ position' = saved.position /\ saved' = saved /\ stopped' = FALSE
    BY <1>10 DEF Restart
  <2> QED BY <2>1 DEF OrderInv, InBatch
<1>11. CASE UNCHANGED vars
  BY <1>11, <1>a DEF vars, actor, keeps, InBatch, Pushed, OrderInv
<1> QED BY <1>1, <1>2, <1>3, <1>4, <1>5, <1>6, <1>7, <1>8, <1>9, <1>10, <1>11 DEF Next

LEMMA OrderInvariant == Spec => []OrderInv
<1>1. Init => OrderInv
  BY DEF Init, OrderInv, Ordered, FreshSave, InBatch, Batches
<1> QED BY <1>1, OrderStep, TypeInvariant, PTL DEF Spec

\* Whatever stops early and however often the process resumes, the weights
\* hold every finished batch in order, each with min_updates_per_batch to
\* max_updates_per_batch gradient steps: none is skipped, repeated or cut; and
\* every checkpoint is named after the steps it holds.
THEOREM BatchesTrainedInOrder == Spec => []BatchesInOrder
<1>1. TypeInv /\ CountInv /\ OrderInv => BatchesInOrder
  BY DEF CountInv, OrderInv, Ordered, BatchesInOrder, InBatch, TypeInv, TypeOK
<1> QED BY <1>1, CountInvariant, OrderInvariant, TypeInvariant, PTL

-----------------------------------------------------------------------------
(* Baselines of the forgetting evaluation *)

\* The weights w that came to entry e before its baseline and after it.
Splits(e, w) ==
    /\ e.by <= Len(w)
    /\ \A j \in 1..Len(w) : IF j <= e.by THEN w[j] < e.batch ELSE w[j] >= e.batch

\* A row of entries for w, up to the batch last.
Baselines(entries, w, last) ==
    /\ \A k \in 1..Len(entries) :
          /\ Splits(entries[k], w)
          /\ entries[k].batch <= last
          /\ k > 1 => entries[k].batch = entries[k - 1].batch + 1
    /\ Len(entries) > 0 => entries[Len(entries)].batch = last

\* The buffer ends with the current batch once its first update is done.
PastInv ==
    /\ Baselines(past, weights,
                 IF InBatch /\ ~Pushed /\ iter = 0 THEN position - 1 ELSE position)
    /\ pc = "start" \/ ForgetFreq = 0 => past = << >>

Entries == [batch: 1..Batches, by: Nat]

\* A gradient step on the batch at hand splits no entry.
LEMMA SplitsStep ==
    ASSUME NEW e \in Entries, NEW w \in Seq(1..Batches), NEW p \in 1..Batches,
           Splits(e, w), e.batch <= p
    PROVE  Splits(e, Append(w, p))
<1>1. \A j \in 1..Len(Append(w, p)) :
          Append(w, p)[j] = IF j \in 1..Len(w) THEN w[j] ELSE p
  OBVIOUS
<1>2. /\ Len(Append(w, p)) = Len(w) + 1 /\ Len(w) \in Nat
      /\ e.by \in Nat /\ e.batch \in 1..Batches
  BY DEF Entries
<1> QED BY <1>1, <1>2 DEF Splits

\* The entry of the batch at hand, in its first iteration.
LEMMA SplitsNew ==
    ASSUME NEW w \in Seq(1..Batches), NEW p \in 1..Batches,
           \A j \in 1..Len(w) : w[j] < p
    PROVE  Splits([batch |-> p, by |-> Len(w)], Append(w, p))
<1>1. \A j \in 1..Len(Append(w, p)) :
          Append(w, p)[j] = IF j \in 1..Len(w) THEN w[j] ELSE p
  OBVIOUS
<1>2. /\ Len(Append(w, p)) = Len(w) + 1 /\ Len(w) \in Nat /\ p \in Int
  BY DataAssumption DEF Batches
<1> QED BY <1>1, <1>2 DEF Splits

\* The oldest entries may go.
LEMMA BaselinesSuffix ==
    ASSUME NEW s \in Seq(Entries), NEW w, NEW last, NEW m \in 1..Len(s),
           Baselines(s, w, last)
    PROVE  Baselines(SubSeq(s, m, Len(s)), w, last)
<1> DEFINE t == SubSeq(s, m, Len(s))
<1>1. Len(s) \in Nat /\ m \in Int
  OBVIOUS
<1>2. \A j \in m..Len(s) : s[j] \in Entries
  BY <1>1
<1>3. Len(t) = Len(s) - m + 1 /\ \A k \in 1..(Len(s) - m + 1) : t[k] = s[m + k - 1]
  BY <1>1, <1>2, SubSeqProperties
<1> HIDE DEF t
<1>4. ASSUME NEW k \in 1..Len(t)
      PROVE  /\ Splits(t[k], w) /\ t[k].batch <= last
             /\ k > 1 => t[k].batch = t[k - 1].batch + 1
  <2>1. m + k - 1 \in 1..Len(s) /\ t[k] = s[m + k - 1]
    BY <1>1, <1>3
  <2>2. k > 1 => /\ t[k - 1] = s[(m + k - 1) - 1]
                 /\ m + k - 1 > 1
    BY <1>1, <1>3
  <2> QED BY <2>1, <2>2 DEF Baselines
<1>5. Len(t) > 0 /\ t[Len(t)] = s[Len(s)] /\ Len(s) > 0
  BY <1>1, <1>3
<1> QED BY <1>4, <1>5 DEF Baselines, t

LEMMA PastTrain ==
    ASSUME TypeInv, OrderInv, PastInv, Train
    PROVE  PastInv'
<1>1. /\ past \in Seq(Entries) /\ weights \in Seq(1..Batches)
      /\ position \in 1..Batches /\ iter \in Nat /\ Batches \in Nat
      /\ ForgetFreq \in Nat
  BY SizeAssumption, DataAssumption
     DEF TypeInv, TypeOK, Train, Go, InBatch, Entries, Batches
<1>2. /\ weights' = Append(weights, position)
      /\ past' = IF ForgetFreq > 0 THEN Remember(past) ELSE past
      /\ UNCHANGED <<position, iter>>
      /\ InBatch /\ InBatch' /\ ~Pushed /\ Pushed' /\ pc' = "push"
  BY DEF Train, Go, InBatch, Pushed
<1>3. \A k \in 1..Len(past) :
          /\ Splits(past[k], weights')
          /\ past[k].batch <= position
  <2> TAKE k \in 1..Len(past)
  <2>1. past[k] \in Entries /\ Splits(past[k], weights)
    BY <1>1 DEF PastInv, Baselines
  <2>2. past[k].batch <= position
    BY <1>1, <2>1 DEF PastInv, Baselines, Entries
  <2> QED BY <1>1, <1>2, <2>1, <2>2, SplitsStep
<1>4. CASE iter # 0 \/ ForgetFreq = 0
  <2>1. past' = past /\ Baselines(past, weights, position)
    BY <1>1, <1>2, <1>4 DEF Remember, PastInv, Baselines
  <2>2. Baselines(past, weights', position)
    BY <1>3, <2>1 DEF Baselines
  <2> QED BY <1>2, <2>1, <2>2 DEF PastInv
<1>5. CASE iter = 0 /\ ForgetFreq # 0
  <2> DEFINE new == [batch |-> position, by |-> Version]
             all == Append(past, new)
             m == IF Len(all) > BufferSize THEN 2 ELSE 1
  <2>1. past' = SubSeq(all, m, Len(all))
    BY <1>1, <1>2, <1>5 DEF Remember
  <2>2. Splits(new, weights')
    <3>1. \A j \in 1..Len(weights) : weights[j] # position
      BY <1>1, <1>2, <1>5, UpdatesNone DEF OrderInv
    <3>2. \A j \in 1..Len(weights) : weights[j] < position
      BY <1>1, <3>1 DEF OrderInv, Ordered
    <3> QED BY <1>1, <1>2, <3>2, SplitsNew DEF Version
  <2>3. /\ new \in Entries /\ new.batch = position
        /\ Len(past) \in Nat
    BY <1>1 DEF Entries, Version
  <2> HIDE DEF new
  <2>4. /\ all \in Seq(Entries) /\ Len(all) = Len(past) + 1
        /\ \A k \in 1..Len(all) :
              all[k] = IF k \in 1..Len(past) THEN past[k] ELSE new
    BY <1>1, <2>3
  <2> HIDE DEF all
  <2>5. Baselines(all, weights', position)
    <3>1. ASSUME NEW k \in 1..Len(all)
          PROVE  /\ Splits(all[k], weights') /\ all[k].batch <= position
                 /\ k > 1 => all[k].batch = all[k - 1].batch + 1
      <4>1. CASE k \in 1..Len(past)
        <5>1. all[k] = past[k] /\ (k > 1 => all[k - 1] = past[k - 1])
          BY <2>3, <2>4, <4>1
        <5> QED BY <1>3, <4>1, <5>1 DEF PastInv, Baselines
      <4>2. CASE k \notin 1..Len(past)
        <5>1. k = Len(past) + 1 /\ all[k] = new
          BY <2>3, <2>4, <4>2
        <5>2. k > 1 => /\ all[k - 1] = past[Len(past)]
                       /\ past[Len(past)].batch = position - 1
          BY <1>2, <1>5, <2>3, <2>4, <5>1 DEF PastInv, Baselines
        <5> QED BY <1>1, <2>2, <2>3, <5>1, <5>2
      <4> QED BY <4>1, <4>2
    <3>2. all[Len(all)].batch = position
      BY <2>3, <2>4
    <3> QED BY <3>1, <3>2 DEF Baselines
  <2>6. m \in 1..Len(all)
    BY <2>3, <2>4, SizeAssumption
  <2> QED BY <1>2, <1>5, <2>1, <2>4, <2>5, <2>6, BaselinesSuffix DEF PastInv
<1> QED BY <1>4, <1>5

LEMMA PastStep == TypeInv /\ OrderInv /\ PastInv /\ [Next]_vars => PastInv'
<1> SUFFICES ASSUME TypeInv, OrderInv, PastInv, [Next]_vars
             PROVE  PastInv'
  OBVIOUS
<1>0. position \in Nat /\ iter \in Nat
  BY DataAssumption, SizeAssumption DEF TypeInv, TypeOK, Batches
<1>a. ASSUME UNCHANGED <<position, iter, weights, past>>, pc' # "start",
             InBatch <=> InBatch', Pushed <=> Pushed'
      PROVE  PastInv'
  BY <1>a DEF PastInv
<1>1. CASE Start
  BY <1>1 DEF Start, PastInv, keeps, Baselines
<1>2. CASE TakeBatch
  <2>1. /\ UNCHANGED <<weights, past>> /\ position' = position + 1 /\ iter' = 0
        /\ ~InBatch /\ InBatch' /\ ~Pushed' /\ pc' = "generate"
    BY <1>2 DEF TakeBatch, Go, InBatch, Pushed, actor
  <2>2. position' - 1 = position
    BY <1>0, <2>1
  <2> QED BY <2>1, <2>2 DEF PastInv
<1>3. CASE Generate \/ Balance \/ Reward \/ Distill \/ Push \/ Evaluate \/ Log
  BY <1>3, <1>a DEF Generate, Balance, Reward, Distill, Push, Evaluate, Log, Go,
                    InBatch, Pushed, actor, keeps
<1>4. CASE Train
  BY <1>4, PastTrain
<1>5. CASE Count
  <2>1. /\ UNCHANGED <<position, weights, past>> /\ InBatch /\ InBatch' /\ Pushed
        /\ pc' # "start" /\ (Pushed' \/ iter' # 0)
    BY <1>0, <1>5 DEF Count, InBatch, Pushed, actor, keeps
  <2> QED BY <2>1 DEF PastInv
<1>6. CASE Save \/ Exhausted
  <2>1. /\ UNCHANGED <<position, weights, past>> /\ ~InBatch'
        /\ pc' # "start" /\ (Pushed \/ ~InBatch)
    BY <1>6 DEF Save, Exhausted, Go, NextBatch, InBatch, Pushed, actor, keeps
  <2> QED BY <2>1 DEF PastInv
<1>7. CASE Restart
  BY <1>7 DEF Restart, PastInv, Baselines
<1>8. CASE UNCHANGED vars
  BY <1>8 DEF vars, actor, keeps, PastInv, InBatch, Pushed
<1> QED BY <1>1, <1>2, <1>3, <1>4, <1>5, <1>6, <1>7, <1>8 DEF Next

\* Forgetting is measured against the rollouts made before the first update of
\* the batch with all updates of the batches before it, and the buffer never
\* skips a batch of this process.
THEOREM BaselinesFirst == Spec => []BaselineFirst
<1>1. Init => PastInv
  BY DEF Init, PastInv, Baselines
<1>2. PastInv => BaselineFirst
  BY DEF PastInv, Baselines, Splits, BaselineFirst
<1> QED BY <1>1, <1>2, PastStep, OrderInvariant, TypeInvariant, PTL DEF Spec

=============================================================================
