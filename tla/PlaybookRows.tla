---------------------------- MODULE PlaybookRows ----------------------------
(***************************************************************************)
(* One update() of the context updater row by row.  Playbook says what an  *)
(* update does to the playbook of each key; here are the parallel lists it *)
(* does that with: the rows of the batch, the positions of the incorrect   *)
(* and of the correct ones, a prompt and a reply per position, padded to   *)
(* the number of agent workers, and the regrouping of the replies by key.  *)
(*                                                                         *)
(* A reply is known by the prompt it answers: the rows of the batch that   *)
(* the prompt is about, and the key whose playbook it shows.               *)
(***************************************************************************)
EXTENDS Playbook, Sequences

CONSTANTS
    Examples,             \* example_ids, from extra_info["index"]
    KeyOf,                \* get_playbook_key
    DeduplicateRollouts,  \* one curation and one success tagging per example
    NumWorkers,           \* agent workers that share a call of the model
    MaxTagged             \* bound: ids that one reply tags

ASSUME RowsAssumption ==
    /\ KeyOf \in [Examples -> Keys]
    /\ DeduplicateRollouts \in BOOLEAN
    /\ NumWorkers \in Nat \ {0}
    /\ MaxTagged \in Nat

VARIABLES
    rows,         \* the batch: the example of each row, and whether acc >= 1
    incorrect,    \* incorrect_indices
    correct,      \* correct_indices
    reflections,  \* inc_reflection_texts, by position in incorrect
    applied,      \* history: the replies the last phase put into each playbook
    returned      \* reflection_texts: the rows each row's reflection is about

rowVars == <<rows, incorrect, correct, reflections, applied, returned>>

-----------------------------------------------------------------------------
(* Lists *)

\* The list of the numbers of S in ascending order.
Listings(S) ==
    {list \in [1..Cardinality(S) -> S] :
        \A g, h \in 1..Cardinality(S) : g < h => list[g] < list[h]}

\* playbook_keys
Key(i) == KeyOf[rows[i].example]

\* Mutant of IncKeys: the keys of the whole batch, by position of the filtered.
IncKeysUnfiltered == [j \in DOMAIN incorrect |-> Key(j)]

\* inc_playbook_keys
IncKeys == [j \in DOMAIN incorrect |-> Key(incorrect[j])]

\* The positions of list kept by deduplicate_rollouts: the first of each example.
Deduplicated(list) ==
    {j \in DOMAIN list :
        DeduplicateRollouts =>
            \A h \in 1..(j - 1) : rows[list[h]].example # rows[list[j]].example}

-----------------------------------------------------------------------------
(* Calls of the model *)

Prompt(role, about, key) == [role |-> role, about |-> about, book |-> key]

\* pad_dataproto_to_divisor repeats the prompts from the first one on.
PadSize(n) == IF n % NumWorkers = 0 THEN 0 ELSE NumWorkers - (n % NumWorkers)

Padded(prompts) ==
    [p \in 1..(Len(prompts) + PadSize(Len(prompts))) |->
        prompts[((p - 1) % Len(prompts)) + 1]]

\* generate_sequences cuts the padded prompts into one piece per worker and
\* puts the answers together in that order; unpad_dataproto cuts the padding.
Answers(prompts) == SubSeq(Padded(prompts), 1, Len(prompts))

\* The last tag of each id in one list: none or a neutral one, a neutral one
\* after a use was recorded, "helpful" or "harmful".
TagLists ==
    {list \in [Ids -> {"none", "used", "helpful", "harmful"}] :
        Cardinality({i \in Ids : list[i] # "none"}) <= MaxTagged}

\* What the lists at the positions P say of one id.
Count(lists, P, i, tag) == Cardinality({j \in P : lists[j][i] = tag})

Tallied(lists, P) ==
    [i \in Ids |-> [helpful |-> Count(lists, P, i, "helpful"),
                    harmful |-> Count(lists, P, i, "harmful"),
                    used |-> \E j \in P : lists[j][i] # "none"]]

\* The positions whose lists go into the playbook of each key.
TagsByKey(keys, lists) ==
    [k \in Keys |-> {j \in DOMAIN lists :
                        keys[j] = k /\ \E i \in Ids : lists[j][i] # "none"}]

\* The replies are parsed, their tags grouped by keys[j] and applied.
TagsApplied(keys, replies) ==
    \E lists \in [DOMAIN replies -> TagLists] :
        LET tags_by_key == TagsByKey(keys, lists)
        IN  /\ \A k \in Keys :
                  WithinCounts(playbooks[k], Tallied(lists, tags_by_key[k]))
            /\ playbooks' = [k \in Keys |->
                  ApplyTags(playbooks[k], Tallied(lists, tags_by_key[k]))]
            /\ applied' = [k \in Keys |->
                  {replies[j] : j \in tags_by_key[k]}]

-----------------------------------------------------------------------------
(* The phases of update() *)

NoReplies == [k \in Keys |-> {}]

RowsInit ==
    /\ Init
    /\ rows = << >> /\ incorrect = << >> /\ correct = << >>
    /\ reflections = << >> /\ applied = NoReplies /\ returned = << >>

\* The batches of at most Samples rows.
RowBatches ==
    UNION {[1..n -> [example: Examples, right: BOOLEAN]] : n \in 1..Samples}

RowsWith(b, right) == {i \in DOMAIN b : b[i].right = right}

KeysWith(b, right) == {KeyOf[b[i].example] : i \in RowsWith(b, right)}

BeginRows(b) ==
    /\ BeginUpdate(KeysWith(b, FALSE), KeysWith(b, TRUE))
    /\ rows' = b
    /\ incorrect' \in Listings(RowsWith(b, FALSE))
    /\ correct' \in Listings(RowsWith(b, TRUE))
    /\ UNCHANGED <<reflections, applied, returned>>

ReflectRows ==
    LET prompts == [j \in DOMAIN incorrect |->
                       Prompt("reflector", {incorrect[j]}, IncKeys[j])]
    IN  /\ pc = "reflect"
        /\ TagsApplied(IncKeys, Answers(prompts))
        /\ reflections' = Answers(prompts)
        /\ pc' = "tag_correct"
        /\ UNCHANGED <<first, student, batch, saved, restarts,
                       rows, incorrect, correct, returned>>

\* _run_success_tagging, with indices the correct_indices it keeps.
TagCorrectRows ==
    /\ pc = "tag_correct"
    /\ TagCorrectSamples /\ correct # << >>
    /\ \E js \in Listings(Deduplicated(correct)) :
          LET cor_keys == [j \in DOMAIN js |-> Key(correct[js[j]])]
              prompts == [j \in DOMAIN js |->
                             Prompt("success", {correct[js[j]]}, cor_keys[j])]
          IN  TagsApplied(cor_keys, Answers(prompts))
    /\ pc' = AfterTagging
    /\ UNCHANGED <<first, student, batch, saved, restarts,
                   rows, incorrect, correct, reflections, returned>>

\* A phase that applies no replies.
RowsKept ==
    /\ applied' = NoReplies
    /\ UNCHANGED <<rows, incorrect, correct, reflections, returned>>

SkipTaggingRows == SkipTagging /\ RowsKept

\* Mutant of CurationKey: the position of the reply instead of the sample.
CurationKeyByReply(js, c) == IncKeys[c]

\* The key whose ops_by_key gets the operations of the c-th curation.
CurationKey(js, c) == IncKeys[js[c]]

\* js is curator_j_indices; the curations that parse are applied.
CurateRows ==
    /\ Curate
    /\ \E js \in Listings(Deduplicated(incorrect)) :
          LET prompts == [c \in DOMAIN js |->
                  Prompt("curator",
                         {incorrect[js[c]]} \cup reflections[js[c]].about,
                         IncKeys[js[c]])]
          IN  \E parsed \in SUBSET DOMAIN js :
                  /\ batch'.curated = {CurationKey(js, c) : c \in parsed}
                  /\ applied' = [k \in Keys |->
                        {Answers(prompts)[c] :
                            c \in {d \in parsed : CurationKey(js, d) = k}}]
    /\ UNCHANGED <<rows, incorrect, correct, reflections, returned>>

TrimRows == Trim /\ RowsKept

\* The reflections go back to the rows they are about.
FinishRows ==
    /\ FinishUpdate
    /\ returned' = [i \in DOMAIN rows |->
          UNION {reflections[j].about :
                    j \in {h \in DOMAIN incorrect : incorrect[h] = i}}]
    /\ applied' = NoReplies
    /\ UNCHANGED <<rows, incorrect, correct, reflections>>

\* update() has returned, and the trainer is done with what it returned.
SyncRows ==
    /\ SyncStudent
    /\ rows' = << >> /\ incorrect' = << >> /\ correct' = << >>
    /\ reflections' = << >> /\ applied' = NoReplies /\ returned' = << >>

\* Save and Restart are not here: neither sees the lists of an update.
RowsNext ==
    \/ \E b \in RowBatches : BeginRows(b)
    \/ ReflectRows
    \/ TagCorrectRows
    \/ SkipTaggingRows
    \/ CurateRows
    \/ TrimRows
    \/ FinishRows
    \/ SyncRows

RowsSpec == RowsInit /\ [][RowsNext]_<<vars, rowVars>>

-----------------------------------------------------------------------------
(* Properties *)

\* "each example's playbook is updated independently", within a batch too:
\* whatever goes into a playbook comes from a reply about one row of an example
\* with that playbook, to a prompt that showed that playbook
\* (tags_by_key, ops_by_key).
OwnReplies ==
    \A k \in Keys : \A r \in applied[k] :
        /\ r.book = k
        /\ \E i \in DOMAIN rows : r.about = {i} /\ Key(i) = k

\* "one sample per unique example_id": with deduplicate_rollouts the rollouts
\* of an example together bring one curation and one success tagging at most.
OncePerExample ==
    DeduplicateRollouts =>
        \A k \in Keys : \A r, s \in applied[k] :
            /\ r.role = s.role /\ r.role # "reflector"
            /\ \E g \in r.about, h \in s.about : rows[g].example = rows[h].example
            => r = s

\* update() gives each incorrect row the reflection on that row, and the others
\* none ("Reconstruct full-batch reflection_texts").
ReflectionsReturned ==
    pc = "sync" =>
        \A i \in DOMAIN rows : returned[i] = IF rows[i].right THEN {} ELSE {i}

\* The lists of one update, indexed by row, by incorrect row, by correct row and
\* by curation, never lead to the row or the playbook of another example.
LessonsOwn == OwnReplies /\ OncePerExample /\ ReflectionsReturned

=============================================================================
