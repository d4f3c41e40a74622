------------------------------ MODULE Playbook ------------------------------
(***************************************************************************)
(* PlaybookContextUpdater: the store of lessons ("bullets") that RESD      *)
(* distils from failed rollouts.  Every playbook key owns one playbook;    *)
(* playbook_mode "global" is a singleton Keys, "per_example" has one key   *)
(* per training example.  The trainer calls update() once per gradient     *)
(* step, copies the playbooks for the student at sync boundaries, and      *)
(* saves and restores the whole store with its checkpoints.                *)
(*                                                                         *)
(* update() is cut where it calls the language model (reflector, success   *)
(* reflector, curator) and where it touches a different part of the state, *)
(* so that the process may die between any two of its phases.              *)
(***************************************************************************)
EXTENDS Integers, FiniteSets

CONSTANTS
    Keys,                 \* playbook keys; a singleton in "global" mode
    NoKey,                \* "the dict _playbooks is empty"
    ConciseMethod,        \* "reset", "prioritized" or "staleness"
    ConciseFrequency,     \* concise every so many updates; 0 is None
    MaxBullets,           \* the cap on the bullets of a playbook; 0 is None
    ConciseAfterCuration, \* run a second concise after the curator
    TagCorrectSamples,    \* run the success reflector on correct samples
    SyncFrequency,        \* _student_sync_frequency
    Samples,              \* bound: tag lists one phase applies to one key
    MaxId,                \* bound: bullets the curator ever adds to one key
    MaxCount,             \* bound: helpful or harmful count of a bullet
    MaxUpdates,           \* bound: updates of one key
    MaxRestarts           \* bound: crashes of the training process

ASSUME KeysAssumption == IsFiniteSet(Keys) /\ NoKey \notin Keys

\* ContextUpdaterConfig.__post_init__ admits exactly these settings.
ASSUME ConfigAssumption ==
    /\ ConciseMethod \in {"reset", "prioritized", "staleness"}
    /\ ConciseFrequency \in Nat
    /\ MaxBullets \in Nat
    /\ ConciseAfterCuration \in BOOLEAN
    /\ TagCorrectSamples \in BOOLEAN
    /\ SyncFrequency \in Nat \ {0}

ASSUME BoundAssumption ==
    /\ Samples \in Nat /\ MaxId \in Nat /\ MaxCount \in Nat
    /\ MaxUpdates \in Nat /\ MaxRestarts \in Nat

VARIABLES
    playbooks,  \* _playbooks: the state dict of every key
    first,      \* the key inserted first into _playbooks
    student,    \* _student_playbooks: the bullets each student prompt shows
    pc,         \* the next phase of update(), "idle" between updates
    batch,      \* what update() holds in locals about the current batch
    saved,      \* context_updater.json of the checkpoint the tracker names
    restarts    \* crashes so far

vars == <<playbooks, first, student, pc, batch, saved, restarts>>

-----------------------------------------------------------------------------
(* Bullets *)

Ids == 1..MaxId
Unrecorded == -1
Zero == [helpful |-> 0, harmful |-> 0]

Book == [live: SUBSET Ids,
         counts: [Ids -> [helpful: Nat, harmful: Nat]],
         next_global_id: 1..(MaxId + 1),
         update_count: Nat,
         last_used: [Ids -> Nat \cup {Unrecorded}]]

\* _make_fresh_state
FreshState == [live |-> {},
               counts |-> [i \in Ids |-> Zero],
               next_global_id |-> 1,
               update_count |-> 0,
               last_used |-> [i \in Ids |-> Unrecorded]]

\* The classes _concise_playbook sorts the bullets of a playbook into.
Unused(b)  == {i \in b.live : b.counts[i].helpful + b.counts[i].harmful = 0}
Harmful(b) == {i \in b.live : /\ b.counts[i].harmful >= b.counts[i].helpful
                              /\ b.counts[i].harmful > 0}
Helpful(b) == b.live \ (Unused(b) \cup Harmful(b))

\* last_used.get(bid, 0)
LastUsed(b, i) == IF b.last_used[i] = Unrecorded THEN 0 ELSE b.last_used[i]

\* Mutant of Stale: the threshold off by one.
StaleLate(b) == {i \in Unused(b) : b.update_count - LastUsed(b, i) > 2}

Stale(b) == {i \in Unused(b) : b.update_count - LastUsed(b, i) > 1}

-----------------------------------------------------------------------------
(* Concising *)

\* How many of the candidates S must go to meet the cap, if it applies.
Excess(S, capped) ==
    IF capped /\ Cardinality(S) > MaxBullets THEN Cardinality(S) - MaxBullets
                                             ELSE 0

\* random.sample / a shuffle before a stable sort: any choice of that size.
Drops(S, capped) == {D \in SUBSET S : Cardinality(D) = Excess(S, capped)}

\* No dropped candidate was used more recently than one that stays.
LeastRecentlyUsed(b, D, S) ==
    \A d \in D, s \in S \ D : LastUsed(b, d) <= LastUsed(b, s)

\* Mutant of Removals: the sort by staleness is lost, any victim will do.
RemovalsUnsorted(b, capped) ==
    CASE ConciseMethod = "reset" -> {b.live}
      [] ConciseMethod = "prioritized" -> {Unused(b) \cup Harmful(b)}
      [] ConciseMethod = "staleness" ->
            LET purge == Harmful(b) \cup Stale(b)
            IN  {purge \cup D : D \in Drops(b.live \ purge, capped)}

\* The sets of bullets _concise_playbook may remove.
Removals(b, capped) ==
    CASE ConciseMethod = "reset" -> {b.live}
      [] ConciseMethod = "prioritized" ->
            LET purge == Unused(b) \cup Harmful(b)
            IN  {purge \cup D : D \in Drops(Helpful(b), capped)}
      [] ConciseMethod = "staleness" ->
            LET purge == Harmful(b) \cup Stale(b)
                rest == b.live \ purge
            IN  {purge \cup D :
                    D \in {E \in Drops(rest, capped) :
                              LeastRecentlyUsed(b, E, rest)}}

\* The playbook without the bullets of cut; their last-used entries, and the
\* entries of ids that name no bullet, are forgotten with them.
Without(b, cut) ==
    [b EXCEPT
        !.live = b.live \ cut,
        !.counts = [i \in Ids |-> IF i \in b.live \ cut THEN b.counts[i]
                                                        ELSE Zero],
        !.last_used = [i \in Ids |-> IF i \in b.live \ cut THEN b.last_used[i]
                                                           ELSE Unrecorded]]

OverLimit(b) == MaxBullets > 0 /\ Cardinality(b.live) > MaxBullets

FrequencyTrigger(b) ==
    /\ ConciseFrequency > 0
    /\ b.update_count > 0
    /\ b.update_count % ConciseFrequency = 0

\* Mutant of MaybeConcise: the bullet count alone does not trigger it.
MaybeConciseByFrequency(b) ==
    IF FrequencyTrigger(b)
    THEN {Without(b, cut) : cut \in Removals(b, OverLimit(b))}
    ELSE {b}

\* _maybe_concise: the playbooks it may leave behind.
MaybeConcise(b) ==
    IF FrequencyTrigger(b) \/ OverLimit(b)
    THEN {Without(b, cut) : cut \in Removals(b, OverLimit(b))}
    ELSE {b}

-----------------------------------------------------------------------------
(* Tags *)

\* What the tag lists of one phase say of one id.  In each list the last tag
\* of an id decides its count, and any "helpful" or "harmful" tag of it,
\* decisive or not, records a use.
Tally == {t \in [helpful: 0..Samples, harmful: 0..Samples, used: BOOLEAN] :
             /\ t.helpful + t.harmful <= Samples
             /\ t.helpful + t.harmful > 0 => t.used}

\* _update_bullet_counts_and_staleness for all tag lists of one key.  Counts
\* change only for bullets of the playbook; uses are recorded for every
\* tagged id, also for ids the model made up.
ApplyTags(b, tags) ==
    [b EXCEPT
        !.counts = [i \in Ids |->
            IF i \in b.live
            THEN [helpful |-> b.counts[i].helpful + tags[i].helpful,
                  harmful |-> b.counts[i].harmful + tags[i].harmful]
            ELSE b.counts[i]],
        !.last_used = [i \in Ids |->
            IF tags[i].used THEN b.update_count ELSE b.last_used[i]]]

\* The bound MaxCount as a guard on the tags of live bullets.
WithinCounts(b, tags) ==
    \A i \in b.live : /\ b.counts[i].helpful + tags[i].helpful <= MaxCount
                      /\ b.counts[i].harmful + tags[i].harmful <= MaxCount

\* Every way to tag the playbooks of the keys in K.
Tagged(K) ==
    \E tags \in [K -> [Ids -> Tally]] :
        /\ \A k \in K : WithinCounts(playbooks[k], tags[k])
        /\ playbooks' = [k \in Keys |->
                            IF k \in K THEN ApplyTags(playbooks[k], tags[k])
                                       ELSE playbooks[k]]

-----------------------------------------------------------------------------
(* Curation *)

\* Mutants of NewIds: one id too many; and ids taken from the playbook text
\* as get_next_global_id does.
NewIdsOneMore(b, n) == b.next_global_id..(b.next_global_id + n)
NewIdsFromText(b, n) ==
    LET top == Cardinality({m \in Ids : \E i \in b.live : m <= i})
    IN  (top + 1)..(top + n)

NewIds(b, n) == b.next_global_id..(b.next_global_id + n - 1)

\* Mutant of AddBullets: the creation step is not recorded.
AddBulletsUnrecorded(b, n) ==
    [b EXCEPT !.live = b.live \cup NewIds(b, n),
              !.next_global_id = b.next_global_id + n]

\* apply_curator_operations with n ADD operations, and the recording of the
\* creation step that follows it.
AddBullets(b, n) ==
    LET live == b.live \cup NewIds(b, n)
    IN  [b EXCEPT
            !.live = live,
            !.counts = [i \in Ids |->
                IF i \in NewIds(b, n) THEN Zero ELSE b.counts[i]],
            !.next_global_id = b.next_global_id + n,
            !.last_used = [i \in Ids |->
                IF i \in live /\ b.last_used[i] = Unrecorded
                THEN b.update_count ELSE b.last_used[i]]]

\* Mutant of MaybeTrim: the cap is not passed on.
MaybeTrimUncapped(b) ==
    IF ConciseAfterCuration /\ OverLimit(b)
    THEN {Without(b, cut) : cut \in Removals(b, FALSE)}
    ELSE {b}

\* The post-curation concise of one playbook.
MaybeTrim(b) ==
    IF ConciseAfterCuration /\ OverLimit(b)
    THEN {Without(b, cut) : cut \in Removals(b, TRUE)}
    ELSE {b}

-----------------------------------------------------------------------------
(* The phases of update() and the trainer's calls around it *)

NoBatch == [active |-> {}, wrong |-> {}, right |-> {}, curated |-> {}]

Batches == [active: SUBSET Keys, wrong: SUBSET Keys, right: SUBSET Keys,
            curated: SUBSET Keys]

FreshStore == [playbooks |-> [k \in Keys |-> FreshState],
               first |-> NoKey,
               student |-> [k \in Keys |-> {}]]

Init ==
    /\ playbooks = FreshStore.playbooks
    /\ first = FreshStore.first
    /\ student = FreshStore.student
    /\ pc = "idle"
    /\ batch = NoBatch
    /\ saved = FreshStore
    /\ restarts = 0

\* A batch arrives: wrong and right are the keys with an incorrect and with a
\* correct sample.  Missing states are created, every active playbook is
\* concised if a trigger fires.
BeginUpdate(wrong, right) ==
    LET active == wrong \cup right IN
    /\ pc = "idle"
    /\ active # {}
    /\ \A k \in active : playbooks[k].update_count < MaxUpdates
    /\ first' \in IF first = NoKey THEN active ELSE {first}
    /\ \E concised \in [active -> UNION {MaybeConcise(playbooks[k]) : k \in active}] :
          /\ \A k \in active : concised[k] \in MaybeConcise(playbooks[k])
          /\ playbooks' = [k \in Keys |-> IF k \in active THEN concised[k]
                                                          ELSE playbooks[k]]
    /\ pc' = IF wrong = {} THEN "tag_correct" ELSE "reflect"
    /\ batch' = [active |-> active, wrong |-> wrong, right |-> right,
                 curated |-> {}]
    /\ UNCHANGED <<student, saved, restarts>>

\* The reflector's tags on the incorrect samples are applied.
Reflect ==
    /\ pc = "reflect"
    /\ Tagged(batch.wrong)
    /\ pc' = "tag_correct"
    /\ UNCHANGED <<first, student, batch, saved, restarts>>

AfterTagging == IF batch.wrong = {} THEN "count" ELSE "curate"

\* _run_success_tagging on the correct samples.
TagCorrect ==
    /\ pc = "tag_correct"
    /\ TagCorrectSamples /\ batch.right # {}
    /\ Tagged(batch.right)
    /\ pc' = AfterTagging
    /\ UNCHANGED <<first, student, batch, saved, restarts>>

SkipTagging ==
    /\ pc = "tag_correct"
    /\ ~TagCorrectSamples \/ batch.right = {}
    /\ pc' = AfterTagging
    /\ UNCHANGED <<playbooks, first, student, batch, saved, restarts>>

\* The curator's operations are applied to the keys whose response parsed;
\* the others are skipped.
Curate ==
    /\ pc = "curate"
    /\ \E curated \in SUBSET batch.wrong : \E adds \in [curated -> 0..MaxId] :
          /\ \A k \in curated :
                playbooks[k].next_global_id + adds[k] <= MaxId + 1
          /\ playbooks' = [k \in Keys |->
                IF k \in curated THEN AddBullets(playbooks[k], adds[k])
                                 ELSE playbooks[k]]
          /\ batch' = [batch EXCEPT !.curated = curated]
    /\ pc' = "trim"
    /\ UNCHANGED <<first, student, saved, restarts>>

\* Post-curation concise of the keys that received operations.
Trim ==
    /\ pc = "trim"
    /\ \E trimmed \in [batch.curated ->
                          UNION {MaybeTrim(playbooks[k]) : k \in batch.curated}] :
          /\ \A k \in batch.curated : trimmed[k] \in MaybeTrim(playbooks[k])
          /\ playbooks' = [k \in Keys |->
                IF k \in batch.curated THEN trimmed[k] ELSE playbooks[k]]
    /\ pc' = "count"
    /\ UNCHANGED <<first, student, batch, saved, restarts>>

Counted(b) == [b EXCEPT !.update_count = b.update_count + 1]

\* update() counts the update for every active key and returns.
FinishUpdate ==
    /\ pc = "count"
    /\ playbooks' = [k \in Keys |->
            IF k \in batch.active THEN Counted(playbooks[k]) ELSE playbooks[k]]
    /\ pc' = "sync"
    /\ UNCHANGED <<first, student, batch, saved, restarts>>

\* Mutant of ShouldSyncStudent: the counter is read before the increment.
ShouldSyncStudentEarly ==
    /\ first # NoKey
    /\ playbooks[first].update_count > 0
    /\ (playbooks[first].update_count - 1) % SyncFrequency = 0

\* should_sync_student: the first key's counter stands for all of them.
ShouldSyncStudent ==
    /\ first # NoKey
    /\ playbooks[first].update_count > 0
    /\ playbooks[first].update_count % SyncFrequency = 0

\* The trainer's step after update(): sync_student_playbooks if it is time.
SyncStudent ==
    /\ pc = "sync"
    /\ student' = IF ShouldSyncStudent
                  THEN [k \in Keys |-> playbooks[k].live] ELSE student
    /\ pc' = "idle"
    /\ batch' = NoBatch
    /\ UNCHANGED <<playbooks, first, saved, restarts>>

\* _save_checkpoint writes state_dict() at the end of a training step.
Save ==
    /\ pc = "idle"
    /\ restarts < MaxRestarts
    /\ saved' = [playbooks |-> playbooks, first |-> first, student |-> student]
    /\ UNCHANGED <<playbooks, first, student, pc, batch, restarts>>

\* Mutant of Restart: next_global_id is not part of the checkpoint.
RestartIdsAnew ==
    /\ restarts < MaxRestarts
    /\ playbooks' = [k \in Keys |->
            [saved.playbooks[k] EXCEPT !.next_global_id = 1]]
    /\ first' = saved.first
    /\ student' = saved.student
    /\ pc' = "idle"
    /\ batch' = NoBatch
    /\ restarts' = restarts + 1
    /\ UNCHANGED saved

\* The process dies in any phase and the next one resumes: load_state_dict of
\* the last checkpoint, or the fresh store when there is none.
Restart ==
    /\ restarts < MaxRestarts
    /\ playbooks' = saved.playbooks
    /\ first' = saved.first
    /\ student' = saved.student
    /\ pc' = "idle"
    /\ batch' = NoBatch
    /\ restarts' = restarts + 1
    /\ UNCHANGED saved

Next ==
    \/ \E wrong, right \in SUBSET Keys : BeginUpdate(wrong, right)
    \/ Reflect
    \/ TagCorrect
    \/ SkipTagging
    \/ Curate
    \/ Trim
    \/ FinishUpdate
    \/ SyncStudent
    \/ Save
    \/ Restart

Spec == Init /\ [][Next]_vars

-----------------------------------------------------------------------------
(* Properties *)

\* Every variable keeps to the values the code can store in it, the bounds of
\* a run included.
TypeOK ==
    /\ playbooks \in [Keys -> Book]
    /\ first \in Keys \cup {NoKey}
    /\ student \in [Keys -> SUBSET Ids]
    /\ pc \in {"idle", "reflect", "tag_correct", "curate", "trim", "count",
               "sync"}
    /\ batch \in Batches
    /\ saved \in [playbooks: [Keys -> Book], first: Keys \cup {NoKey},
                  student: [Keys -> SUBSET Ids]]
    /\ restarts \in 0..MaxRestarts

\* Steps of one process: everything but a crash and resume.
SameProcess == restarts' = restarts

\* Ids are handed out by next_global_id, which the checkpoint carries: no
\* bullet of a playbook or of a student prompt has an id that is still to be
\* issued, also after a resume (apply_curator_operations, load_state_dict).
IdsIssued ==
    \A k \in Keys : \A i \in playbooks[k].live \cup student[k] :
        i < playbooks[k].next_global_id

\* A bullet that was concised away never comes back under its old id, whose
\* tags and uses it would inherit: a bullet appears only under an id never
\* issued before (format "slug-next_id" in apply_curator_operations).
NoIdReuse ==
    [][SameProcess =>
        \A k \in Keys : \A i \in playbooks'[k].live \ playbooks[k].live :
            i >= playbooks[k].next_global_id]_vars

\* The staleness order is total: every bullet has a recorded use, not later
\* than the current update, in every phase and after a resume, so that the
\* default 0 of last_used.get(bid, 0) is never taken for a bullet.
UseRecorded ==
    \A k \in Keys : \A i \in playbooks[k].live :
        playbooks[k].last_used[i] \in 0..playbooks[k].update_count

\* The reflector, the success reflector and the curator read at most
\* max_bullets bullets, with and without the post-curation concise
\* (_maybe_concise runs before the prompts are built).
PromptBounded ==
    pc \in {"reflect", "tag_correct", "curate"} /\ MaxBullets > 0 =>
        \A k \in batch.active : Cardinality(playbooks[k].live) <= MaxBullets

\* With concise_after_curation, no playbook that update() leaves behind and no
\* snapshot shown to the student has more than max_bullets bullets.
MaxEntries ==
    MaxBullets > 0 =>
        \A k \in Keys :
            /\ pc \in {"idle", "count", "sync"} =>
                  Cardinality(playbooks[k].live) <= MaxBullets
            /\ Cardinality(student[k]) <= MaxBullets

\* The bullets a concise by utility ("prioritized") or by utility and age
\* ("staleness") has no reason to remove.
Worthy(b) == IF ConciseMethod = "staleness"
             THEN b.live \ (Harmful(b) \cup Stale(b)) ELSE Helpful(b)

\* Worthy bullets are dropped only to meet the cap, which then is met
\* exactly; by staleness, the least recently used go first.
FairEviction ==
    [][SameProcess /\ ConciseMethod # "reset" =>
        \A k \in Keys :
            LET b == playbooks[k]
                kept == playbooks'[k].live
            IN  Worthy(b) \ kept # {} =>
                    /\ Cardinality(kept) = MaxBullets
                    /\ ConciseMethod = "staleness" =>
                          LeastRecentlyUsed(b, Worthy(b) \ kept, Worthy(b))]_vars

\* By staleness, a bullet nobody ever found helpful or harmful lives through
\* at most one concise period and the update that follows: hallucinated tags,
\* all-correct batches and the cap cannot keep it longer.
NoLingering ==
    ConciseMethod = "staleness" /\ ConciseFrequency > 0 =>
        \A k \in Keys : \A i \in Unused(playbooks[k]) :
            playbooks[k].update_count - LastUsed(playbooks[k], i)
                <= ConciseFrequency + 1

\* "sync every N updates": between updates, a key whose counter is at a
\* multiple of N shows the student its current bullets, until the next update
\* begins and also after a resume.  should_sync_student looks at one key
\* only, so this is what "global" mode promises.
StudentInSync ==
    \A k \in Keys :
        /\ pc = "idle"
        /\ playbooks[k].update_count > 0
        /\ playbooks[k].update_count % SyncFrequency = 0
        => student[k] = playbooks[k].live

\* What the updater promises, whatever it tags and counts: in every phase the
\* playbooks of the batch lose bullets or get new ones under the next ids, no
\* update opens or (with the post-curation concise) leaves one over the cap, the
\* student is shown all playbooks as an update leaves them, and a crash in any
\* phase falls back on a store saved between two updates (update(),
\* sync_student_playbooks, state_dict, load_state_dict).
Lives(books) == [k \in Keys |-> books[k].live]

Issued(books) == [k \in Keys |-> books[k].next_global_id - 1]

Lessons == INSTANCE LessonBook WITH
    Books <- Keys, Cap <- MaxBullets, CapsAtEnd <- ConciseAfterCuration,
    lessons <- Lives(playbooks), given <- Issued(playbooks),
    shown <- student, open <- batch.active,
    kept <- [lessons |-> Lives(saved.playbooks), given |-> Issued(saved.playbooks),
             shown |-> saved.student]

BookSpec == Lessons!Spec

=============================================================================
