--------------------------- MODULE PlaybookProofs ---------------------------
(***************************************************************************)
(* What holds of Playbook for every set of keys, every setting of the      *)
(* context updater and every value of the bounds; and of the lists of      *)
(* PlaybookRows for every batch and every way to share playbooks.          *)
(***************************************************************************)
EXTENDS PlaybookRows, FiniteSetTheorems, SequenceTheorems, TLAPS

-----------------------------------------------------------------------------
(* The operators on one playbook keep it a playbook. *)

\* Concising returns a playbook (_concise_playbook and the clean-up of
\* bullet_last_used after it).
LEMMA WithoutBook ==
    ASSUME NEW b \in Book, NEW cut
    PROVE  Without(b, cut) \in Book
BY DEF Without, Book, Zero

LEMMA MaybeConciseBook ==
    ASSUME NEW b \in Book
    PROVE  MaybeConcise(b) \subseteq Book
BY WithoutBook DEF MaybeConcise

LEMMA MaybeTrimBook ==
    ASSUME NEW b \in Book
    PROVE  MaybeTrim(b) \subseteq Book
BY WithoutBook DEF MaybeTrim

\* Tagging returns a playbook (_update_bullet_counts_and_staleness).
LEMMA ApplyTagsBook ==
    ASSUME NEW b \in Book, NEW tags \in [Ids -> Tally]
    PROVE  ApplyTags(b, tags) \in Book
<1>1. ASSUME NEW i \in Ids
      PROVE  /\ tags[i].helpful \in Nat /\ tags[i].harmful \in Nat
             /\ b.counts[i].helpful \in Nat /\ b.counts[i].harmful \in Nat
  BY BoundAssumption DEF Tally, Book
<1>2. [i \in Ids |->
          IF i \in b.live
          THEN [helpful |-> b.counts[i].helpful + tags[i].helpful,
                harmful |-> b.counts[i].harmful + tags[i].harmful]
          ELSE b.counts[i]] \in [Ids -> [helpful: Nat, harmful: Nat]]
  BY <1>1 DEF Book
<1>3. [i \in Ids |-> IF tags[i].used THEN b.update_count ELSE b.last_used[i]]
          \in [Ids -> Nat \cup {Unrecorded}]
  BY DEF Book
<1> QED BY <1>2, <1>3 DEF ApplyTags, Book

\* Applying the curator's operations returns a playbook
\* (apply_curator_operations and the recording after it).
LEMMA AddBulletsBook ==
    ASSUME NEW b \in Book, NEW n \in Nat, b.next_global_id + n <= MaxId + 1
    PROVE  AddBullets(b, n) \in Book
<1>0. b.next_global_id \in 1..(MaxId + 1)
  BY DEF Book
<1>1. NewIds(b, n) \subseteq Ids
  BY <1>0, BoundAssumption DEF NewIds, Ids
<1>2. b.next_global_id + n \in 1..(MaxId + 1)
  BY <1>0, BoundAssumption
<1> QED BY <1>1, <1>2 DEF AddBullets, Book, Zero

LEMMA CountedBook ==
    ASSUME NEW b \in Book
    PROVE  Counted(b) \in Book
<1>1. b.update_count + 1 \in Nat
  BY DEF Book
<1> QED BY <1>1 DEF Counted, Book

LEMMA FreshBook == FreshState \in Book
BY BoundAssumption DEF FreshState, Book, Ids, Zero, Unrecorded

-----------------------------------------------------------------------------
(* Type correctness *)

\* No step of the updater leaves the types, whatever the model answers and
\* wherever the process dies.
LEMMA TypeStep == TypeOK /\ [Next]_vars => TypeOK'
<1> SUFFICES ASSUME TypeOK, [Next]_vars PROVE TypeOK'
  OBVIOUS
<1>1. ASSUME NEW wrong \in SUBSET Keys, NEW right \in SUBSET Keys,
             BeginUpdate(wrong, right)
      PROVE  TypeOK'
  <2> DEFINE active == wrong \cup right
  <2>1. PICK concised \in
             [active -> UNION {MaybeConcise(playbooks[k]) : k \in active}] :
          /\ \A k \in active : concised[k] \in MaybeConcise(playbooks[k])
          /\ playbooks' = [k \in Keys |-> IF k \in active THEN concised[k]
                                                          ELSE playbooks[k]]
    BY <1>1 DEF BeginUpdate
  <2>2. \A k \in active : concised[k] \in Book
    BY <2>1, MaybeConciseBook DEF TypeOK
  <2>3. playbooks' \in [Keys -> Book]
    BY <2>1, <2>2 DEF TypeOK
  <2> QED BY <1>1, <2>3 DEF BeginUpdate, TypeOK, Batches
<1>2. ASSUME NEW K \in SUBSET Keys, Tagged(K)
      PROVE  playbooks' \in [Keys -> Book]
  <2>1. PICK tags \in [K -> [Ids -> Tally]] :
          playbooks' = [k \in Keys |->
              IF k \in K THEN ApplyTags(playbooks[k], tags[k])
                         ELSE playbooks[k]]
    BY <1>2 DEF Tagged
  <2>2. \A k \in K : ApplyTags(playbooks[k], tags[k]) \in Book
    BY ApplyTagsBook DEF TypeOK
  <2> QED BY <2>1, <2>2 DEF TypeOK
<1>3. CASE Reflect
  BY <1>2, <1>3 DEF Reflect, TypeOK, Batches
<1>4. CASE TagCorrect
  BY <1>2, <1>4 DEF TagCorrect, TypeOK, Batches, AfterTagging
<1>5. CASE SkipTagging
  BY <1>5 DEF SkipTagging, TypeOK, AfterTagging
<1>6. CASE Curate
  <2>0. PICK curated \in SUBSET batch.wrong :
          \E adds \in [curated -> 0..MaxId] :
            /\ \A k \in curated :
                  playbooks[k].next_global_id + adds[k] <= MaxId + 1
            /\ playbooks' = [k \in Keys |->
                  IF k \in curated THEN AddBullets(playbooks[k], adds[k])
                                   ELSE playbooks[k]]
            /\ batch' = [batch EXCEPT !.curated = curated]
    BY <1>6 DEF Curate
  <2>1. PICK adds \in [curated -> 0..MaxId] :
          /\ \A k \in curated :
                playbooks[k].next_global_id + adds[k] <= MaxId + 1
          /\ playbooks' = [k \in Keys |->
                IF k \in curated THEN AddBullets(playbooks[k], adds[k])
                                 ELSE playbooks[k]]
          /\ batch' = [batch EXCEPT !.curated = curated]
    BY <2>0
  <2>2. curated \subseteq Keys
    BY <2>1 DEF TypeOK, Batches
  <2>3. \A k \in curated : AddBullets(playbooks[k], adds[k]) \in Book
    BY <2>1, <2>2, AddBulletsBook, BoundAssumption DEF TypeOK
  <2>4. playbooks' \in [Keys -> Book]
    BY <2>1, <2>3 DEF TypeOK
  <2>5. batch' \in Batches
    BY <2>1, <2>2 DEF TypeOK, Batches
  <2> QED BY <1>6, <2>4, <2>5 DEF Curate, TypeOK
<1>7. CASE Trim
  <2>1. PICK trimmed \in [batch.curated ->
                UNION {MaybeTrim(playbooks[k]) : k \in batch.curated}] :
          /\ \A k \in batch.curated : trimmed[k] \in MaybeTrim(playbooks[k])
          /\ playbooks' = [k \in Keys |->
                IF k \in batch.curated THEN trimmed[k] ELSE playbooks[k]]
    BY <1>7 DEF Trim
  <2>2. \A k \in batch.curated : trimmed[k] \in Book
    BY <2>1, MaybeTrimBook DEF TypeOK, Batches
  <2>3. playbooks' \in [Keys -> Book]
    BY <2>1, <2>2 DEF TypeOK
  <2> QED BY <1>7, <2>3 DEF Trim, TypeOK
<1>8. CASE FinishUpdate
  <2>1. \A k \in Keys : Counted(playbooks[k]) \in Book
    BY CountedBook DEF TypeOK
  <2> QED BY <1>8, <2>1 DEF FinishUpdate, TypeOK
<1>9. CASE SyncStudent
  BY <1>9 DEF SyncStudent, TypeOK, Batches, NoBatch, Book
<1>10. CASE Save
  BY <1>10 DEF Save, TypeOK
<1>11. CASE Restart
  BY <1>11, BoundAssumption DEF Restart, TypeOK, Batches, NoBatch
<1>12. CASE UNCHANGED vars
  BY <1>12 DEF vars, TypeOK
<1> QED BY <1>1, <1>3, <1>4, <1>5, <1>6, <1>7, <1>8, <1>9, <1>10, <1>11,
           <1>12 DEF Next

\* The updater starts in a well-typed state.
LEMMA TypeInit == Init => TypeOK
BY FreshBook, BoundAssumption
   DEF Init, TypeOK, FreshStore, NoBatch, Batches

\* Type correctness of the context updater, for every configuration.
THEOREM TypeCorrect == Spec => []TypeOK
BY TypeInit, TypeStep, PTL DEF Spec

-----------------------------------------------------------------------------
(* Ids and recorded uses *)

\* What concising, tagging and curation preserve of one playbook: issued ids
\* only, every bullet with a recorded use, no use in the future.  The last
\* part speaks of all ids: a tag on an id that names no bullet is recorded
\* too, and becomes the use of the bullet that gets the id later.
SoundBook(b) ==
    /\ \A i \in b.live : i < b.next_global_id /\ b.last_used[i] # Unrecorded
    /\ \A i \in Ids : b.last_used[i] <= b.update_count

LEMMA FreshSound == SoundBook(FreshState)
BY DEF SoundBook, FreshState, Unrecorded, Ids

LEMMA WithoutSound ==
    ASSUME NEW b \in Book, SoundBook(b), NEW cut
    PROVE  /\ SoundBook(Without(b, cut))
           /\ Without(b, cut).live \subseteq b.live
           /\ Without(b, cut).next_global_id = b.next_global_id
           /\ Without(b, cut).update_count = b.update_count
<1> DEFINE c == Without(b, cut)
<1>1. /\ c.live = b.live \ cut
      /\ c.next_global_id = b.next_global_id
      /\ c.update_count = b.update_count
      /\ c.last_used = [i \in Ids |-> IF i \in b.live \ cut
                                      THEN b.last_used[i] ELSE Unrecorded]
  BY DEF Without, Book
<1>2. b.live \subseteq Ids /\ b.update_count \in Nat
  BY DEF Book
<1> QED BY <1>1, <1>2 DEF SoundBook, Unrecorded

LEMMA ApplyTagsSound ==
    ASSUME NEW b \in Book, SoundBook(b), NEW tags \in [Ids -> Tally]
    PROVE  /\ SoundBook(ApplyTags(b, tags))
           /\ ApplyTags(b, tags).live = b.live
           /\ ApplyTags(b, tags).next_global_id = b.next_global_id
<1> DEFINE c == ApplyTags(b, tags)
<1>1. /\ c.live = b.live
      /\ c.next_global_id = b.next_global_id
      /\ c.update_count = b.update_count
      /\ c.last_used = [i \in Ids |-> IF tags[i].used THEN b.update_count
                                                      ELSE b.last_used[i]]
  BY DEF ApplyTags, Book
<1>2. b.live \subseteq Ids /\ b.update_count \in Nat
  BY DEF Book
<1> QED BY <1>1, <1>2 DEF SoundBook, Unrecorded

LEMMA AddBulletsSound ==
    ASSUME NEW b \in Book, SoundBook(b), NEW n \in Nat,
           b.next_global_id + n <= MaxId + 1
    PROVE  /\ SoundBook(AddBullets(b, n))
           /\ b.next_global_id <= AddBullets(b, n).next_global_id
           /\ \A i \in AddBullets(b, n).live \ b.live : i >= b.next_global_id
<1> DEFINE c == AddBullets(b, n)
<1>1. /\ c.live = b.live \cup NewIds(b, n)
      /\ c.next_global_id = b.next_global_id + n
      /\ c.update_count = b.update_count
      /\ c.last_used = [i \in Ids |->
              IF i \in b.live \cup NewIds(b, n) /\ b.last_used[i] = Unrecorded
              THEN b.update_count ELSE b.last_used[i]]
  BY DEF AddBullets, Book
<1>2. /\ b.live \subseteq Ids /\ b.update_count \in Nat
      /\ b.next_global_id \in Nat /\ b.next_global_id >= 1
  BY BoundAssumption DEF Book
<1>3. ASSUME NEW i \in NewIds(b, n)
      PROVE  i >= b.next_global_id /\ i < b.next_global_id + n /\ i \in Ids
  BY <1>2, BoundAssumption DEF NewIds, Ids
<1>4. SoundBook(c)
  <2>1. ASSUME NEW i \in c.live
        PROVE  i < c.next_global_id /\ c.last_used[i] # Unrecorded
    <3>1. i \in Ids /\ (i \in b.live \/ i \in NewIds(b, n))
      BY <1>1, <1>2, <1>3
    <3>2. c.last_used[i] # Unrecorded
      BY <3>1, <1>1, <1>2 DEF Unrecorded
    <3>3. CASE i \in b.live
      <4>1. i < b.next_global_id /\ i \in Int
        BY <3>1, <3>3 DEF SoundBook, Ids
      <4> QED BY <4>1, <3>2, <1>1, <1>2
    <3>4. CASE i \in NewIds(b, n)
      BY <3>4, <3>2, <1>1, <1>3
    <3> QED BY <3>1, <3>3, <3>4
  <2>2. ASSUME NEW i \in Ids
        PROVE  c.last_used[i] <= c.update_count
    BY <1>1, <1>2 DEF SoundBook
  <2> QED BY <2>1, <2>2 DEF SoundBook
<1> QED BY <1>1, <1>2, <1>3, <1>4

LEMMA CountedSound ==
    ASSUME NEW b \in Book, SoundBook(b)
    PROVE  /\ SoundBook(Counted(b))
           /\ Counted(b).live = b.live
           /\ Counted(b).next_global_id = b.next_global_id
<1>1. /\ Counted(b).live = b.live
      /\ Counted(b).next_global_id = b.next_global_id
      /\ Counted(b).last_used = b.last_used
      /\ Counted(b).update_count = b.update_count + 1
  BY DEF Counted, Book
<1>2. /\ b.update_count \in Nat
      /\ \A i \in Ids : b.last_used[i] \in Nat \cup {Unrecorded}
  BY DEF Book
<1> QED BY <1>1, <1>2 DEF SoundBook, Unrecorded

\* A store as the process holds it and as a checkpoint holds it.
SoundStore(books, shown) ==
    \A k \in Keys :
        /\ SoundBook(books[k])
        /\ \A i \in shown[k] : i < books[k].next_global_id

\* The inductive invariant: what is restored must be as sound as what is
\* lost, so it speaks of the checkpoint as well.
SoundInv ==
    /\ TypeOK
    /\ SoundStore(playbooks, student)
    /\ SoundStore(saved.playbooks, saved.student)

\* What a step may do to one playbook without losing soundness: it keeps
\* next_global_id or moves it forward, and new bullets get new ids.
Forward(b, c) ==
    /\ SoundBook(c)
    /\ b.next_global_id <= c.next_global_id
    /\ \A i \in c.live \ b.live : i >= b.next_global_id

LEMMA SameForward ==
    ASSUME NEW b \in Book, SoundBook(b)
    PROVE  Forward(b, b)
<1>1. b.next_global_id \in Int
  BY DEF Book
<1> QED BY <1>1 DEF Forward

LEMMA ConciseForward ==
    ASSUME NEW b \in Book, SoundBook(b),
           NEW c \in MaybeConcise(b) \cup MaybeTrim(b)
    PROVE  Forward(b, c)
<1>1. b.next_global_id \in Int
  BY DEF Book
<1>2. c = b \/ \E cut : c = Without(b, cut)
  BY DEF MaybeConcise, MaybeTrim
<1> QED BY <1>1, <1>2, WithoutSound, SameForward DEF Forward

LEMMA TagsForward ==
    ASSUME NEW b \in Book, SoundBook(b), NEW tags \in [Ids -> Tally]
    PROVE  Forward(b, ApplyTags(b, tags))
<1>1. b.next_global_id \in Int
  BY DEF Book
<1> QED BY <1>1, ApplyTagsSound DEF Forward

\* Every step of one process moves every playbook forward.
LEMMA ForwardStep ==
    ASSUME SoundInv, [Next]_vars, ~Restart
    PROVE  \A k \in Keys : Forward(playbooks[k], playbooks'[k])
<1> USE DEF SoundInv, SoundStore
<1>1. ASSUME NEW k \in Keys
      PROVE  /\ playbooks[k] \in Book
             /\ SoundBook(playbooks[k])
             /\ Forward(playbooks[k], playbooks[k])
  BY SameForward DEF TypeOK
<1>2. ASSUME NEW wrong \in SUBSET Keys, NEW right \in SUBSET Keys,
             BeginUpdate(wrong, right), NEW k \in Keys
      PROVE  Forward(playbooks[k], playbooks'[k])
  <2>1. playbooks'[k] \in MaybeConcise(playbooks[k])
          \/ playbooks'[k] = playbooks[k]
    BY <1>2 DEF BeginUpdate
  <2> QED BY <1>1, <2>1, ConciseForward
<1>3. ASSUME NEW K \in SUBSET Keys, Tagged(K), NEW k \in Keys
      PROVE  Forward(playbooks[k], playbooks'[k])
  <2>1. PICK tags \in [K -> [Ids -> Tally]] :
          playbooks' = [j \in Keys |->
              IF j \in K THEN ApplyTags(playbooks[j], tags[j])
                         ELSE playbooks[j]]
    BY <1>3 DEF Tagged
  <2> QED BY <1>1, <2>1, TagsForward
<1>4. CASE Reflect
  BY <1>3, <1>4 DEF Reflect, TypeOK, Batches
<1>5. CASE TagCorrect
  BY <1>3, <1>5 DEF TagCorrect, TypeOK, Batches
<1>6. ASSUME Curate, NEW k \in Keys
      PROVE  Forward(playbooks[k], playbooks'[k])
  <2>1. \/ \E n \in 0..MaxId :
              /\ playbooks[k].next_global_id + n <= MaxId + 1
              /\ playbooks'[k] = AddBullets(playbooks[k], n)
        \/ playbooks'[k] = playbooks[k]
    BY <1>6 DEF Curate
  <2>2. 0..MaxId \subseteq Nat
    BY BoundAssumption
  <2> QED BY <1>1, <2>1, <2>2, AddBulletsSound DEF Forward
<1>7. ASSUME Trim, NEW k \in Keys
      PROVE  Forward(playbooks[k], playbooks'[k])
  <2>1. playbooks'[k] \in MaybeTrim(playbooks[k])
          \/ playbooks'[k] = playbooks[k]
    BY <1>7 DEF Trim
  <2> QED BY <1>1, <2>1, ConciseForward
<1>8. ASSUME FinishUpdate, NEW k \in Keys
      PROVE  Forward(playbooks[k], playbooks'[k])
  <2>1. playbooks'[k] \in {playbooks[k], Counted(playbooks[k])}
    BY <1>8 DEF FinishUpdate
  <2>2. playbooks[k].next_global_id \in Int
    BY <1>1 DEF Book
  <2> QED BY <1>1, <2>1, <2>2, CountedSound DEF Forward
<1>9. CASE SkipTagging \/ SyncStudent \/ Save \/ UNCHANGED vars
  BY <1>1, <1>9 DEF SkipTagging, SyncStudent, Save, vars
<1> QED BY <1>2, <1>4, <1>5, <1>6, <1>7, <1>8, <1>9 DEF Next
\* Ids stay issued and uses stay recorded, in every phase, and also when a
\* process resumes from the checkpoint another one left.
LEMMA SoundStep == SoundInv /\ [Next]_vars => SoundInv'
<1> SUFFICES ASSUME SoundInv, [Next]_vars PROVE SoundInv'
  OBVIOUS
<1>1. TypeOK'
  BY TypeStep DEF SoundInv
<1>2. CASE Restart
  BY <1>1, <1>2 DEF Restart, SoundInv, SoundStore
<1>3. CASE ~Restart
  <2>1. ASSUME NEW k \in Keys
        PROVE  /\ Forward(playbooks[k], playbooks'[k])
               /\ playbooks[k].next_global_id \in Int
               /\ playbooks'[k].next_global_id \in Int
    BY <1>1, <1>3, ForwardStep, BoundAssumption DEF SoundInv, TypeOK, Book
  <2>2. \/ student' = student
        \/ /\ student' = [k \in Keys |-> playbooks[k].live]
           /\ playbooks' = playbooks
    BY <1>3 DEF Next, BeginUpdate, Reflect, TagCorrect, SkipTagging, Curate,
                Trim, FinishUpdate, SyncStudent, Save, vars
  <2>3. ASSUME NEW k \in Keys, NEW i \in student'[k]
        PROVE  i < playbooks'[k].next_global_id
    <3>1. i \in Int
      BY <1>1 DEF TypeOK, Ids
    <3>2. CASE student' = student
      <4>1. i < playbooks[k].next_global_id
        BY <3>2, <2>3 DEF SoundInv, SoundStore
      <4> QED BY <4>1, <3>1, <2>1 DEF Forward
    <3>3. CASE /\ student' = [j \in Keys |-> playbooks[j].live]
               /\ playbooks' = playbooks
      BY <3>3, <2>3 DEF SoundInv, SoundStore, SoundBook
    <3> QED BY <2>2, <3>2, <3>3
  <2>4. SoundStore(playbooks', student')
    BY <2>1, <2>3 DEF SoundStore, Forward
  <2>5. \/ saved' = saved
        \/ saved' = [playbooks |-> playbooks, first |-> first,
                     student |-> student]
    BY <1>3 DEF Next, BeginUpdate, Reflect, TagCorrect, SkipTagging, Curate,
                Trim, FinishUpdate, SyncStudent, Save, vars
  <2>6. SoundStore(saved'.playbooks, saved'.student)
    BY <2>5 DEF SoundInv, SoundStore
  <2> QED BY <1>1, <2>4, <2>6 DEF SoundInv
<1> QED BY <1>2, <1>3

LEMMA SoundInit == Init => SoundInv
BY TypeInit, FreshSound DEF Init, FreshStore, SoundInv, SoundStore

THEOREM Sound == Spec => []SoundInv
BY SoundInit, SoundStep, PTL DEF Spec

\* No playbook and no student prompt holds an id still to be issued.
THEOREM IdsAreIssued == Spec => []IdsIssued
<1>1. SoundInv => IdsIssued
  BY DEF SoundInv, SoundStore, SoundBook, IdsIssued
<1> QED BY <1>1, Sound, PTL

\* Every bullet has a recorded use that is not in the future.
THEOREM UsesAreRecorded == Spec => []UseRecorded
<1>1. SoundInv => UseRecorded
  <2> SUFFICES ASSUME SoundInv, NEW k \in Keys,
                      NEW i \in playbooks[k].live
               PROVE  playbooks[k].last_used[i]
                          \in 0..playbooks[k].update_count
    BY DEF UseRecorded
  <2>1. playbooks[k] \in Book /\ SoundBook(playbooks[k])
    BY DEF SoundInv, SoundStore, TypeOK
  <2>2. i \in Ids /\ playbooks[k].update_count \in Nat
    BY <2>1 DEF Book
  <2>3. playbooks[k].last_used[i] \in Nat
    BY <2>1, <2>2 DEF Book, SoundBook
  <2>4. playbooks[k].last_used[i] <= playbooks[k].update_count
    BY <2>1, <2>2 DEF SoundBook
  <2> QED BY <2>2, <2>3, <2>4
<1> QED BY <1>1, Sound, PTL

\* A bullet never enters a playbook under an id that was issued before.
THEOREM IdsNeverReused == Spec => NoIdReuse
<1>1. SoundInv /\ [Next]_vars =>
        [SameProcess =>
            \A k \in Keys : \A i \in playbooks'[k].live \ playbooks[k].live :
                i >= playbooks[k].next_global_id]_vars
  <2> SUFFICES ASSUME SoundInv, [Next]_vars, SameProcess
               PROVE  \A k \in Keys :
                        \A i \in playbooks'[k].live \ playbooks[k].live :
                            i >= playbooks[k].next_global_id
    OBVIOUS
  <2>1. ~Restart
    BY DEF SameProcess, Restart, SoundInv, TypeOK
  <2> QED BY <2>1, ForwardStep DEF Forward
<1> QED BY <1>1, Sound, PTL DEF Spec, NoIdReuse
-----------------------------------------------------------------------------
(* The cap on the number of bullets *)

Capped(b) == Cardinality(b.live) <= MaxBullets

LEMMA LiveFinite ==
    ASSUME NEW b \in Book
    PROVE  IsFiniteSet(b.live)
<1>1. b.live \subseteq 1..MaxId
  BY DEF Book, Ids
<1>2. IsFiniteSet(1..MaxId)
  BY FS_Interval, BoundAssumption
<1> QED BY <1>1, <1>2, FS_Subset

\* Dropping the excess of a set of candidates meets the cap.
LEMMA DropsMeetCap ==
    ASSUME NEW S, IsFiniteSet(S), NEW D \in Drops(S, TRUE)
    PROVE  Cardinality(S \ D) <= MaxBullets
<1>1. D \subseteq S /\ Cardinality(D) = Excess(S, TRUE)
  BY DEF Drops
<1>2. Cardinality(S) \in Nat
  BY FS_CardinalityType
<1>3. S \cap D = D
  BY <1>1
<1>4. Cardinality(S \ D) = Cardinality(S) - Cardinality(D)
  BY <1>3, FS_Difference
<1> QED BY <1>1, <1>2, <1>4, ConfigAssumption DEF Excess

\* Every method meets the cap when it is told to (_concise_playbook).
LEMMA RemovalsMeetCap ==
    ASSUME NEW b \in Book, NEW cut \in Removals(b, TRUE)
    PROVE  Cardinality(b.live \ cut) <= MaxBullets
<1>1. CASE ConciseMethod = "reset"
  <2>1. b.live \ cut = {}
    BY <1>1 DEF Removals
  <2> QED BY <2>1, FS_EmptySet, ConfigAssumption
<1>2. CASE ConciseMethod = "prioritized"
  <2>1. PICK D \in Drops(Helpful(b), TRUE) :
          cut = Unused(b) \cup Harmful(b) \cup D
    BY <1>2 DEF Removals
  <2>2. b.live \ cut = Helpful(b) \ D
    BY <2>1 DEF Helpful
  <2>3. IsFiniteSet(Helpful(b))
    BY LiveFinite, FS_Subset DEF Helpful
  <2> QED BY <2>2, <2>3, DropsMeetCap
<1>3. CASE ConciseMethod = "staleness"
  <2> DEFINE purge == Harmful(b) \cup Stale(b)
             rest == b.live \ purge
  <2>1. PICK D \in Drops(rest, TRUE) : cut = purge \cup D
    BY <1>3 DEF Removals
  <2>2. b.live \ cut = rest \ D
    BY <2>1
  <2>3. IsFiniteSet(rest)
    BY LiveFinite, FS_Subset
  <2> QED BY <2>2, <2>3, DropsMeetCap
<1> QED BY <1>1, <1>2, <1>3, ConfigAssumption

LEMMA MaybeConciseCaps ==
    ASSUME NEW b \in Book, NEW c \in MaybeConcise(b), MaxBullets > 0
    PROVE  Capped(c)
<1>1. Cardinality(b.live) \in Nat
  BY LiveFinite, FS_CardinalityType
<1>2. CASE OverLimit(b)
  <2>1. PICK cut \in Removals(b, TRUE) : c = Without(b, cut)
    BY <1>2 DEF MaybeConcise
  <2>2. c.live = b.live \ cut
    BY <2>1 DEF Without, Book
  <2> QED BY <2>2, RemovalsMeetCap DEF Capped
<1>3. CASE ~OverLimit(b)
  <2>1. Cardinality(b.live) <= MaxBullets
    BY <1>1, <1>3, ConfigAssumption DEF OverLimit
  <2>2. c.live \subseteq b.live
    <3>1. c = b \/ \E cut : c = Without(b, cut)
      BY DEF MaybeConcise
    <3>2. \A cut : Without(b, cut).live \subseteq b.live
      BY DEF Without, Book
    <3> QED BY <3>1, <3>2
  <2>3. Cardinality(c.live) <= Cardinality(b.live)
    BY <2>2, LiveFinite, FS_Subset
  <2>4. Cardinality(c.live) \in Nat
    BY <2>2, LiveFinite, FS_Subset, FS_CardinalityType
  <2> QED BY <1>1, <2>1, <2>3, <2>4, ConfigAssumption DEF Capped
<1> QED BY <1>2, <1>3

LEMMA MaybeTrimCaps ==
    ASSUME NEW b \in Book, NEW c \in MaybeTrim(b), MaxBullets > 0,
           ConciseAfterCuration
    PROVE  Capped(c)
<1>1. CASE OverLimit(b)
  <2>1. PICK cut \in Removals(b, TRUE) : c = Without(b, cut)
    BY <1>1 DEF MaybeTrim
  <2>2. c.live = b.live \ cut
    BY <2>1 DEF Without, Book
  <2> QED BY <2>2, RemovalsMeetCap DEF Capped
<1>2. CASE ~OverLimit(b)
  <2>1. c = b
    BY <1>2 DEF MaybeTrim
  <2>2. Cardinality(b.live) \in Nat
    BY LiveFinite, FS_CardinalityType
  <2> QED BY <1>2, <2>1, <2>2, ConfigAssumption DEF OverLimit, Capped
<1> QED BY <1>1, <1>2
\* The inductive invariant behind the cap.  What a prompt reads is capped by
\* the concise that opens the update; with the post-curation concise, only a
\* playbook that has just been curated may be over the cap, and neither the
\* student nor the checkpoint ever sees it.
CapInv ==
    /\ pc \in {"reflect", "tag_correct", "curate"} =>
          \A k \in batch.active : Capped(playbooks[k])
    /\ ConciseAfterCuration =>
          \A k \in Keys :
              /\ ~(pc = "trim" /\ k \in batch.curated) => Capped(playbooks[k])
              /\ Cardinality(student[k]) <= MaxBullets
              /\ Capped(saved.playbooks[k])
              /\ Cardinality(saved.student[k]) <= MaxBullets

LEMMA CapInit == Init /\ MaxBullets > 0 => CapInv
<1>1. Cardinality({}) = 0 /\ 0 <= MaxBullets
  BY FS_EmptySet, ConfigAssumption
<1>2. FreshState.live = {}
  BY DEF FreshState
<1>3. Capped(FreshState)
  BY <1>1, <1>2 DEF Capped
<1> SUFFICES ASSUME Init PROVE CapInv
  OBVIOUS
<1>4. \A k \in Keys :
        /\ playbooks[k] = FreshState /\ saved.playbooks[k] = FreshState
        /\ student[k] = {} /\ saved.student[k] = {}
  BY DEF Init, FreshStore
<1> QED BY <1>1, <1>3, <1>4 DEF Init, CapInv

\* The cap survives every step: the bullets of a playbook change only in the
\* concise steps and in the curation.
LEMMA CapStep ==
    ASSUME TypeOK, CapInv, [Next]_vars, MaxBullets > 0
    PROVE  CapInv'
<1>1. ASSUME NEW wrong \in SUBSET Keys, NEW right \in SUBSET Keys,
             BeginUpdate(wrong, right)
      PROVE  CapInv'
  <2> DEFINE active == wrong \cup right
  <2>1. ASSUME NEW k \in active
        PROVE  Capped(playbooks'[k])
    <3>1. playbooks'[k] \in MaybeConcise(playbooks[k])
      BY <1>1, <2>1 DEF BeginUpdate
    <3> QED BY <3>1, MaybeConciseCaps DEF TypeOK
  <2>2. \A k \in Keys \ active : playbooks'[k] = playbooks[k]
    BY <1>1 DEF BeginUpdate
  <2>3. /\ batch'.active = active /\ pc' # "trim" /\ pc = "idle"
        /\ student' = student /\ saved' = saved
    BY <1>1 DEF BeginUpdate
  <2> QED BY <2>1, <2>2, <2>3 DEF CapInv, Capped
<1>2. ASSUME NEW K \in SUBSET Keys, Tagged(K), NEW k \in Keys
      PROVE  playbooks'[k].live = playbooks[k].live
  <2>1. PICK tags \in [K -> [Ids -> Tally]] :
          playbooks' = [j \in Keys |->
              IF j \in K THEN ApplyTags(playbooks[j], tags[j])
                         ELSE playbooks[j]]
    BY <1>2 DEF Tagged
  <2>2. ASSUME NEW b \in Book, NEW t
        PROVE  ApplyTags(b, t).live = b.live
    BY DEF ApplyTags, Book
  <2> QED BY <2>1, <2>2 DEF TypeOK
<1>3. CASE Reflect
  <2>1. \A k \in Keys : playbooks'[k].live = playbooks[k].live
    BY <1>2, <1>3 DEF Reflect, TypeOK, Batches
  <2> QED BY <1>3, <2>1 DEF Reflect, CapInv, Capped, TypeOK, Batches
<1>4. CASE TagCorrect
  <2>1. \A k \in Keys : playbooks'[k].live = playbooks[k].live
    BY <1>2, <1>4 DEF TagCorrect, TypeOK, Batches
  <2> QED BY <1>4, <2>1
          DEF TagCorrect, AfterTagging, CapInv, Capped, TypeOK, Batches
<1>5. CASE SkipTagging
  BY <1>5 DEF SkipTagging, AfterTagging, CapInv, Capped
<1>6. CASE Curate
  <2>1. /\ pc = "curate" /\ pc' = "trim"
        /\ student' = student /\ saved' = saved
    BY <1>6 DEF Curate
  <2>2. \A k \in Keys \ batch'.curated : playbooks'[k] = playbooks[k]
    BY <1>6 DEF Curate, TypeOK, Batches
  <2> QED BY <2>1, <2>2 DEF CapInv, Capped
<1>7. CASE Trim
  <2>1. /\ pc = "trim" /\ pc' = "count" /\ batch' = batch
        /\ student' = student /\ saved' = saved
    BY <1>7 DEF Trim
  <2>2. ASSUME ConciseAfterCuration, NEW k \in Keys
        PROVE  Capped(playbooks'[k])
    <3>1. CASE k \in batch.curated
      <4>1. playbooks'[k] \in MaybeTrim(playbooks[k])
        BY <1>7, <3>1 DEF Trim
      <4> QED BY <4>1, <2>2, MaybeTrimCaps DEF TypeOK
    <3>2. CASE k \notin batch.curated
      BY <1>7, <2>2, <3>2 DEF Trim, CapInv
    <3> QED BY <3>1, <3>2
  <2> QED BY <2>1, <2>2 DEF CapInv
<1>8. CASE FinishUpdate
  <2>1. \A k \in Keys : Counted(playbooks[k]).live = playbooks[k].live
    BY DEF Counted, TypeOK, Book
  <2>2. \A k \in Keys : playbooks'[k].live = playbooks[k].live
    BY <1>8, <2>1 DEF FinishUpdate
  <2> QED BY <1>8, <2>2 DEF FinishUpdate, CapInv, Capped
<1>9. CASE SyncStudent
  BY <1>9 DEF SyncStudent, CapInv, Capped
<1>10. CASE Save
  BY <1>10 DEF Save, CapInv, Capped
<1>11. CASE Restart
  BY <1>11 DEF Restart, CapInv, Capped
<1>12. CASE UNCHANGED vars
  BY <1>12 DEF vars, CapInv, Capped
<1> QED BY <1>1, <1>3, <1>4, <1>5, <1>6, <1>7, <1>8, <1>9, <1>10, <1>11,
           <1>12 DEF Next

\* What the language model is asked to read never exceeds max_bullets.
THEOREM PromptsAreBounded == Spec => []PromptBounded
<1>1. CASE MaxBullets > 0
  <2>1. CapInv => PromptBounded
    BY DEF CapInv, Capped, PromptBounded
  <2>2. Init => CapInv
    BY <1>1, CapInit
  <2>3. TypeOK /\ CapInv /\ [Next]_vars => CapInv'
    BY <1>1, CapStep
  <2> QED BY <2>1, <2>2, <2>3, TypeCorrect, PTL DEF Spec
<1>2. CASE ~(MaxBullets > 0)
  <2>1. PromptBounded
    BY <1>2 DEF PromptBounded
  <2> QED BY <2>1, PTL
<1> QED BY <1>1, <1>2

\* With the post-curation concise no update ends, and nothing is shown to the
\* student, above max_bullets.
THEOREM EntriesAreCapped ==
    ASSUME ConciseAfterCuration
    PROVE  Spec => []MaxEntries
<1>1. CASE MaxBullets > 0
  <2>1. CapInv => MaxEntries
    BY DEF CapInv, Capped, MaxEntries
  <2>2. Init => CapInv
    BY <1>1, CapInit
  <2>3. TypeOK /\ CapInv /\ [Next]_vars => CapInv'
    BY <1>1, CapStep
  <2> QED BY <2>1, <2>2, <2>3, TypeCorrect, PTL DEF Spec
<1>2. CASE ~(MaxBullets > 0)
  <2>1. MaxEntries
    BY <1>2 DEF MaxEntries
  <2> QED BY <2>1, PTL
<1> QED BY <1>1, <1>2

-----------------------------------------------------------------------------
(* One key at a time *)

\* The keys a phase works on are keys of the batch.
BatchInv == batch.wrong \cup batch.right \cup batch.curated \subseteq batch.active

LEMMA BatchInit == Init => BatchInv
BY DEF Init, NoBatch, BatchInv

LEMMA BatchStep == ASSUME TypeOK, BatchInv, [Next]_vars PROVE BatchInv'
<1>1. CASE Curate
  <2>1. PICK curated \in SUBSET batch.wrong : batch' = [batch EXCEPT !.curated = curated]
    BY <1>1 DEF Curate
  <2>2. /\ batch'.wrong = batch.wrong /\ batch'.right = batch.right
        /\ batch'.active = batch.active /\ batch'.curated = curated
    BY <2>1 DEF TypeOK, Batches
  <2> QED BY <2>2 DEF BatchInv
<1>2. ASSUME NEW wrong \in SUBSET Keys, NEW right \in SUBSET Keys,
             BeginUpdate(wrong, right)
      PROVE  BatchInv'
  <2>1. batch' = [active |-> wrong \cup right, wrong |-> wrong, right |-> right,
                  curated |-> {}]
    BY <1>2 DEF BeginUpdate
  <2> QED BY <2>1 DEF BatchInv
<1>3. CASE SyncStudent \/ Restart
  BY <1>3 DEF SyncStudent, Restart, NoBatch, BatchInv
<1>4. CASE \/ Reflect \/ TagCorrect \/ SkipTagging \/ Trim \/ FinishUpdate \/ Save
           \/ UNCHANGED vars
  <2>1. batch' = batch
    BY <1>4 DEF Reflect, TagCorrect, SkipTagging, Trim, FinishUpdate, Save, vars
  <2> QED BY <2>1 DEF BatchInv
<1> QED BY <1>1, <1>2, <1>3, <1>4 DEF Next

\* The playbook of a key is worked on by the update that is running.
Open(k) ==
    pc \in {"reflect", "tag_correct", "curate", "trim", "count"} /\ k \in batch.active

\* What a step of one process may do to the playbook b of a key, and c is what
\* becomes of it.
Opens(k, b, c) == ~Open(k) /\ Open(k)' /\ c \in MaybeConcise(b)
Tags(k, b, c) ==
    Open(k) /\ Open(k)' /\ \E tags \in [Ids -> Tally] : c = ApplyTags(b, tags)
Curates(k, b, c) ==
    /\ Open(k) /\ Open(k)'
    /\ \E n \in Nat : b.next_global_id + n <= MaxId + 1 /\ c = AddBullets(b, n)
Trims(k, b, c) == Open(k) /\ Open(k)' /\ c \in MaybeTrim(b)
Closes(k, b, c) == Open(k) /\ ~Open(k)' /\ c = Counted(b)
Leaves(k, b, c) == (Open(k) <=> Open(k)') /\ c = b

KeyStep(k, b, c) ==
    \/ Opens(k, b, c) \/ Tags(k, b, c) \/ Curates(k, b, c)
    \/ Trims(k, b, c) \/ Closes(k, b, c) \/ Leaves(k, b, c)

LEMMA TaggedKeys ==
    ASSUME TypeOK, NEW K \in SUBSET batch.active, Tagged(K), NEW k \in Keys,
           batch' = batch, pc \in {"reflect", "tag_correct"},
           pc' \in {"tag_correct", "curate", "count"}
    PROVE  KeyStep(k, playbooks[k], playbooks'[k])
<1>1. PICK tags \in [K -> [Ids -> Tally]] :
        playbooks' = [j \in Keys |-> IF j \in K THEN ApplyTags(playbooks[j], tags[j])
                                                ELSE playbooks[j]]
  BY DEF Tagged
<1>2. CASE k \in K
  BY <1>1, <1>2 DEF Open, Tags, KeyStep
<1>3. CASE k \notin K
  BY <1>1, <1>3 DEF Open, Leaves, KeyStep
<1> QED BY <1>2, <1>3

LEMMA EveryKey ==
    ASSUME TypeOK, BatchInv, [Next]_vars, ~Restart, NEW k \in Keys
    PROVE  KeyStep(k, playbooks[k], playbooks'[k])
<1>1. ASSUME NEW wrong \in SUBSET Keys, NEW right \in SUBSET Keys,
             BeginUpdate(wrong, right)
      PROVE  KeyStep(k, playbooks[k], playbooks'[k])
  <2>1. /\ pc = "idle" /\ pc' \in {"reflect", "tag_correct"}
        /\ batch'.active = wrong \cup right
    BY <1>1 DEF BeginUpdate
  <2>2. CASE k \in wrong \cup right
    <3>1. playbooks'[k] \in MaybeConcise(playbooks[k])
      BY <1>1, <2>2 DEF BeginUpdate
    <3> QED BY <2>1, <2>2, <3>1 DEF Open, Opens, KeyStep
  <2>3. CASE k \notin wrong \cup right
    <3>1. playbooks'[k] = playbooks[k]
      BY <1>1, <2>3 DEF BeginUpdate
    <3> QED BY <2>1, <2>3, <3>1 DEF Open, Leaves, KeyStep
  <2> QED BY <2>2, <2>3
<1>2. CASE Reflect
  BY <1>2, TaggedKeys DEF Reflect, BatchInv
<1>3. CASE TagCorrect
  BY <1>3, TaggedKeys DEF TagCorrect, AfterTagging, BatchInv
<1>4. CASE SkipTagging
  <2>1. /\ pc = "tag_correct" /\ pc' \in {"curate", "count"}
        /\ batch' = batch /\ playbooks' = playbooks
    BY <1>4 DEF SkipTagging, AfterTagging
  <2> QED BY <2>1 DEF Open, Leaves, KeyStep
<1>5. CASE Curate
  <2>0. PICK curated \in SUBSET batch.wrong : \E adds \in [curated -> 0..MaxId] :
          /\ \A j \in curated : playbooks[j].next_global_id + adds[j] <= MaxId + 1
          /\ playbooks' = [j \in Keys |->
                IF j \in curated THEN AddBullets(playbooks[j], adds[j]) ELSE playbooks[j]]
          /\ batch' = [batch EXCEPT !.curated = curated]
    BY <1>5 DEF Curate
  <2>1. PICK adds \in [curated -> 0..MaxId] :
          /\ \A j \in curated : playbooks[j].next_global_id + adds[j] <= MaxId + 1
          /\ playbooks' = [j \in Keys |->
                IF j \in curated THEN AddBullets(playbooks[j], adds[j]) ELSE playbooks[j]]
          /\ batch' = [batch EXCEPT !.curated = curated]
    BY <2>0
  <2>2. pc = "curate" /\ pc' = "trim" /\ batch'.active = batch.active
    BY <1>5, <2>1 DEF Curate, TypeOK, Batches
  <2>3. CASE k \in curated
    <3>1. /\ adds[k] \in Nat /\ playbooks[k].next_global_id + adds[k] <= MaxId + 1
          /\ playbooks'[k] = AddBullets(playbooks[k], adds[k])
      BY <2>1, <2>3, BoundAssumption
    <3>2. k \in batch.active
      BY <2>3 DEF BatchInv
    <3> QED BY <2>2, <3>1, <3>2 DEF Open, Curates, KeyStep
  <2>4. CASE k \notin curated
    BY <2>1, <2>2, <2>4 DEF Open, Leaves, KeyStep
  <2> QED BY <2>3, <2>4
<1>6. CASE Trim
  <2>1. pc = "trim" /\ pc' = "count" /\ batch' = batch
    BY <1>6 DEF Trim
  <2>2. CASE k \in batch.curated
    <3>1. playbooks'[k] \in MaybeTrim(playbooks[k]) /\ k \in batch.active
      BY <1>6, <2>2 DEF Trim, BatchInv
    <3> QED BY <2>1, <3>1 DEF Open, Trims, KeyStep
  <2>3. CASE k \notin batch.curated
    <3>1. playbooks'[k] = playbooks[k]
      BY <1>6, <2>3 DEF Trim
    <3> QED BY <2>1, <3>1 DEF Open, Leaves, KeyStep
  <2> QED BY <2>2, <2>3
<1>7. CASE FinishUpdate
  BY <1>7 DEF FinishUpdate, Open, Closes, Leaves, KeyStep
<1>8. CASE SyncStudent \/ Save \/ UNCHANGED vars
  BY <1>8 DEF SyncStudent, Save, vars, Open, Leaves, KeyStep
<1> QED BY <1>1, <1>2, <1>3, <1>4, <1>5, <1>6, <1>7, <1>8 DEF Next

LEMMA Batched == Spec => [](TypeOK /\ BatchInv)
<1>1. Init => TypeOK /\ BatchInv
  BY TypeInit, BatchInit
<1>2. TypeOK /\ BatchInv /\ [Next]_vars => TypeOK' /\ BatchInv'
  BY TypeStep, BatchStep
<1> QED BY <1>1, <1>2, PTL DEF Spec

\* Only a resume restarts.
LEMMA OneProcess == ASSUME TypeOK, SameProcess PROVE ~Restart
BY DEF SameProcess, Restart, TypeOK

-----------------------------------------------------------------------------
(* Eviction *)

\* A concise takes worthy bullets only in the number that meets the cap, and
\* by staleness the oldest of them.
LEMMA RemovalsFair ==
    ASSUME NEW b \in Book, NEW capped \in BOOLEAN, NEW cut \in Removals(b, capped),
           ConciseMethod # "reset", Worthy(b) \ (b.live \ cut) # {}
    PROVE  /\ Cardinality(b.live \ cut) = MaxBullets
           /\ ConciseMethod = "staleness" =>
                 LeastRecentlyUsed(b, Worthy(b) \ (b.live \ cut), Worthy(b))
<1>1. PICK D \in Drops(Worthy(b), capped) :
        /\ b.live \ cut = Worthy(b) \ D
        /\ ConciseMethod = "staleness" => LeastRecentlyUsed(b, D, Worthy(b))
  <2>1. CASE ConciseMethod = "prioritized"
    <3>1. Worthy(b) = Helpful(b)
      BY <2>1 DEF Worthy
    <3>2. PICK D \in Drops(Helpful(b), capped) : cut = Unused(b) \cup Harmful(b) \cup D
      BY <2>1 DEF Removals
    <3>3. b.live \ cut = Helpful(b) \ D
      BY <3>2 DEF Helpful
    <3> QED BY <2>1, <3>1, <3>2, <3>3
  <2>2. CASE ConciseMethod = "staleness"
    <3> DEFINE rest == b.live \ (Harmful(b) \cup Stale(b))
    <3>1. Worthy(b) = rest
      BY <2>2 DEF Worthy
    <3>2. PICK D \in Drops(rest, capped) :
            cut = Harmful(b) \cup Stale(b) \cup D /\ LeastRecentlyUsed(b, D, rest)
      BY <2>2 DEF Removals
    <3>3. b.live \ cut = rest \ D
      BY <3>2
    <3> QED BY <3>1, <3>2, <3>3
  <2> QED BY <2>1, <2>2, ConfigAssumption
<1>2. D \subseteq Worthy(b) /\ Cardinality(D) = Excess(Worthy(b), capped)
  BY DEF Drops
<1>3. Worthy(b) \ (b.live \ cut) = D /\ D # {}
  BY <1>1, <1>2
<1>4. IsFiniteSet(Worthy(b))
  <2>1. Worthy(b) \subseteq b.live
    BY DEF Worthy, Helpful
  <2> QED BY <2>1, LiveFinite, FS_Subset
<1>5. /\ Cardinality(Worthy(b)) \in Nat /\ IsFiniteSet(D)
      /\ Cardinality(D) \in Nat /\ Cardinality(D) # 0
  BY <1>2, <1>3, <1>4, FS_CardinalityType, FS_Subset, FS_EmptySet
<1>6. Cardinality(D) = Cardinality(Worthy(b)) - MaxBullets
  BY <1>2, <1>5 DEF Excess
<1>7. Cardinality(Worthy(b) \ D) = Cardinality(Worthy(b)) - Cardinality(D)
  <2>1. Worthy(b) \cap D = D
    BY <1>2
  <2>2. Cardinality(Worthy(b) \ D)
          = Cardinality(Worthy(b)) - Cardinality(Worthy(b) \cap D)
    BY <1>4, FS_Difference
  <2> QED BY <2>1, <2>2
<1>8. Cardinality(Worthy(b) \ D) = MaxBullets
  BY <1>5, <1>6, <1>7, ConfigAssumption
<1> QED BY <1>1, <1>3, <1>8

\* Nothing worth keeping is removed but to meet the cap, and then the least
\* recently used goes first.
THEOREM EvictionIsFair == Spec => FairEviction
<1> DEFINE Fair(b, c) ==
        Worthy(b) \ c.live # {} =>
            /\ Cardinality(c.live) = MaxBullets
            /\ ConciseMethod = "staleness" =>
                  LeastRecentlyUsed(b, Worthy(b) \ c.live, Worthy(b))
<1>1. ASSUME NEW b \in Book, NEW c, ConciseMethod # "reset",
             c \in MaybeConcise(b) \cup MaybeTrim(b)
      PROVE  Fair(b, c)
  <2>1. CASE c = b
    BY <2>1 DEF Worthy, Helpful
  <2>2. CASE c # b
    <3>1. PICK capped \in BOOLEAN : \E cut \in Removals(b, capped) : c = Without(b, cut)
      BY <1>1, <2>2 DEF MaybeConcise, MaybeTrim, OverLimit
    <3>2. PICK cut \in Removals(b, capped) : c = Without(b, cut)
      BY <3>1
    <3>3. c.live = b.live \ cut
      BY <3>2 DEF Without, Book
    <3> QED BY <1>1, <3>2, <3>3, RemovalsFair
  <2> QED BY <2>1, <2>2
<1>2. ASSUME NEW b \in Book, NEW c, b.live \subseteq c.live
      PROVE  Fair(b, c)
  <2>1. Worthy(b) \ c.live = {}
    BY <1>2 DEF Worthy, Helpful
  <2> QED BY <2>1
<1> HIDE DEF Fair
<1>3. TypeOK /\ BatchInv /\ [Next]_vars =>
        [SameProcess /\ ConciseMethod # "reset" =>
            \A k \in Keys : Fair(playbooks[k], playbooks'[k])]_vars
  <2> SUFFICES ASSUME TypeOK, BatchInv, [Next]_vars, SameProcess,
                      ConciseMethod # "reset", NEW k \in Keys
               PROVE  Fair(playbooks[k], playbooks'[k])
    OBVIOUS
  <2> DEFINE b == playbooks[k]
             c == playbooks'[k]
  <2>1. KeyStep(k, b, c) /\ b \in Book
    BY EveryKey, OneProcess DEF TypeOK
  <2>2. CASE Opens(k, b, c) \/ Trims(k, b, c)
    BY <1>1, <2>1, <2>2 DEF Opens, Trims
  <2>3. CASE Tags(k, b, c) \/ Curates(k, b, c) \/ Closes(k, b, c) \/ Leaves(k, b, c)
    <3>1. \A tags, n : /\ ApplyTags(b, tags).live = b.live
                       /\ b.live \subseteq AddBullets(b, n).live
                       /\ Counted(b).live = b.live
      BY <2>1 DEF ApplyTags, AddBullets, Counted, Book
    <3>2. b.live \subseteq c.live
      BY <2>3, <3>1 DEF Tags, Curates, Closes, Leaves
    <3> QED BY <1>2, <2>1, <3>2
  <2> QED BY <2>1, <2>2, <2>3 DEF KeyStep
<1> QED BY <1>3, Batched, PTL DEF Spec, FairEviction, Fair

-----------------------------------------------------------------------------
(* The student's copy *)

\* At a boundary the student is shown the current bullets.
Boundary(b) == b.update_count > 0 /\ b.update_count % SyncFrequency = 0

Shown(books, shown) == \A k \in Keys : Boundary(books[k]) => shown[k] = books[k].live

\* What StudentInSync needs of a running update and of the checkpoint.
SyncInv ==
    /\ pc = "idle" => Shown(playbooks, student)
    /\ pc # "idle" => first # NoKey
    /\ Shown(saved.playbooks, saved.student)

\* In global mode, where should_sync_student looks at the only playbook.
THEOREM StudentIsInSync ==
    ASSUME NEW g, Keys = {g}
    PROVE  Spec => []StudentInSync
<1>1. Init => SyncInv
  <2> SUFFICES ASSUME Init PROVE SyncInv
    OBVIOUS
  <2>1. \A k \in Keys : /\ playbooks[k].update_count = 0
                        /\ saved.playbooks[k].update_count = 0
    BY DEF Init, FreshStore, FreshState
  <2> QED BY <2>1 DEF Init, SyncInv, Shown, Boundary
<1>2. TypeOK /\ SyncInv /\ [Next]_vars => SyncInv'
  <2> SUFFICES ASSUME TypeOK, SyncInv, [Next]_vars PROVE SyncInv'
    OBVIOUS
  <2>1. ASSUME NEW wrong \in SUBSET Keys, NEW right \in SUBSET Keys,
               BeginUpdate(wrong, right)
        PROVE  SyncInv'
    <3>1. first' # NoKey
      BY <2>1, KeysAssumption DEF BeginUpdate
    <3> QED BY <2>1, <3>1 DEF BeginUpdate, SyncInv, Shown, Boundary
  <2>2. CASE Reflect \/ TagCorrect \/ SkipTagging \/ Curate \/ Trim \/ FinishUpdate
    <3>1. /\ pc # "idle" /\ pc' # "idle" /\ first' = first /\ saved' = saved
      BY <2>2 DEF Reflect, TagCorrect, SkipTagging, AfterTagging, Curate, Trim,
                  FinishUpdate
    <3> QED BY <3>1 DEF SyncInv, Shown, Boundary
  <2>3. CASE SyncStudent
    <3>1. first = g /\ g \in Keys
      BY <2>3 DEF SyncStudent, SyncInv, TypeOK
    <3>2. ShouldSyncStudent <=> Boundary(playbooks[g])
      BY <2>3, <3>1 DEF SyncStudent, SyncInv, ShouldSyncStudent, Boundary
    <3>3. Boundary(playbooks[g]) => student'[g] = playbooks[g].live
      BY <2>3, <3>1, <3>2 DEF SyncStudent
    <3>4. playbooks' = playbooks /\ saved' = saved /\ pc' = "idle"
      BY <2>3 DEF SyncStudent
    <3> QED BY <3>3, <3>4 DEF SyncInv, Shown, Boundary
  <2>4. CASE Save
    BY <2>4 DEF Save, SyncInv, Shown, Boundary
  <2>5. CASE Restart
    BY <2>5 DEF Restart, SyncInv, Shown, Boundary
  <2>6. CASE UNCHANGED vars
    BY <2>6 DEF vars, SyncInv, Shown, Boundary
  <2> QED BY <2>1, <2>2, <2>3, <2>4, <2>5, <2>6 DEF Next
<1>3. SyncInv => StudentInSync
  BY DEF SyncInv, Shown, Boundary, StudentInSync
<1> QED BY <1>1, <1>2, <1>3, TypeCorrect, PTL DEF Spec

-----------------------------------------------------------------------------
(* Unused bullets *)

LEMMA NextRemainder ==
    ASSUME NEW f \in Nat \ {0}, NEW c \in Nat
    PROVE  /\ c % f \in 0..(f - 1)
           /\ (c + 1) % f = 0 \/ (c + 1) % f = (c % f) + 1
<1> DEFINE q == c \div f
           r == c % f
           p == (c + 1) \div f
           s == (c + 1) % f
<1>1. q \in Int /\ r \in 0..(f - 1) /\ c = f * q + r
  OBVIOUS
<1>2. p \in Int /\ s \in 0..(f - 1) /\ c + 1 = f * p + s
  <2>1. c + 1 \in Nat
    OBVIOUS
  <2> QED BY <2>1
<1> HIDE DEF q, r, p, s
<1>3. f * p - f * q = r + 1 - s
  BY <1>1, <1>2
<1>4. CASE p = q
  BY <1>1, <1>2, <1>3, <1>4
<1>5. CASE p >= q + 1
  <2>1. f * p >= f * (q + 1)
    BY <1>1, <1>2, <1>5
  <2>2. f * (q + 1) = f * q + f
    BY <1>1
  <2>3. f * p \in Int /\ f * q \in Int
    BY <1>1, <1>2
  <2>4. r + 1 - s >= f
    BY <1>1, <1>2, <1>3, <2>1, <2>2, <2>3
  <2> QED BY <1>1, <1>2, <2>4
<1>6. CASE p <= q - 1
  <2>1. f * p <= f * (q - 1)
    BY <1>1, <1>2, <1>6
  <2>2. f * (q - 1) = f * q - f
    BY <1>1
  <2>3. f * p \in Int /\ f * q \in Int
    BY <1>1, <1>2
  <2>4. r + 1 - s <= -f
    BY <1>1, <1>2, <1>3, <2>1, <2>2, <2>3
  <2> QED BY <1>1, <1>2, <2>4
<1>7. p = q \/ p >= q + 1 \/ p <= q - 1
  BY <1>1, <1>2
<1> QED BY <1>1, <1>4, <1>5, <1>6, <1>7 DEF r, s

\* The ids whose last use the next concise may have to judge: unused bullets,
\* and ids made up in a tag, whose use a later bullet inherits.
Judged(b) == {i \in Ids : IF i \in b.live THEN i \in Unused(b)
                                          ELSE b.last_used[i] # Unrecorded}

Age(b, i) == b.update_count - LastUsed(b, i)

\* They are no older than the updates since the last concise plus one: in an
\* update, and between updates, when the next concise may be due.
Opened(b) == (b.update_count % ConciseFrequency) + 1
Closed(b) == IF b.update_count % ConciseFrequency = 0 THEN ConciseFrequency + 1
             ELSE (b.update_count % ConciseFrequency) + 1

During(b) == \A i \in Judged(b) : Age(b, i) <= Opened(b)
Between(b) == \A i \in Judged(b) : Age(b, i) <= Closed(b)

LingerInv ==
    \A k \in Keys : /\ Open(k) => During(playbooks[k])
                    /\ ~Open(k) => Between(playbooks[k])
                    /\ Between(saved.playbooks[k])

LEMMA AgeType ==
    ASSUME ConciseFrequency > 0, NEW b \in Book
    PROVE  /\ b.update_count \in Nat /\ ConciseFrequency \in Nat \ {0}
           /\ b.update_count % ConciseFrequency \in 0..(ConciseFrequency - 1)
           /\ Opened(b) \in 1..ConciseFrequency
           /\ Closed(b) \in 1..(ConciseFrequency + 1)
           /\ Judged(b) \subseteq Ids
           /\ \A i \in Ids : LastUsed(b, i) \in Nat /\ Age(b, i) \in Int
                             /\ Age(b, i) <= b.update_count
<1>1. /\ b.update_count \in Nat
      /\ \A i \in Ids : b.last_used[i] \in Nat \cup {Unrecorded}
  BY DEF Book
<1>2. ConciseFrequency \in Nat \ {0}
  BY ConfigAssumption
<1>3. b.update_count % ConciseFrequency \in 0..(ConciseFrequency - 1)
  BY <1>1, <1>2, NextRemainder
<1>4. \A i \in Ids : LastUsed(b, i) \in Nat
  BY <1>1 DEF LastUsed
<1>5. Opened(b) \in 1..ConciseFrequency /\ Closed(b) \in 1..(ConciseFrequency + 1)
  BY <1>2, <1>3 DEF Opened, Closed
<1>6. \A i \in Ids : Age(b, i) \in Int /\ Age(b, i) <= b.update_count
  BY <1>1, <1>4 DEF Age
<1> QED BY <1>1, <1>2, <1>3, <1>4, <1>5, <1>6 DEF Judged

LEMMA UnusedIds == ASSUME NEW b \in Book PROVE Unused(b) \subseteq b.live /\ b.live \subseteq Ids
BY DEF Unused, Book

\* What is removed is forgotten, what stays keeps its counts and its last use.
LEMMA WithoutAge ==
    ASSUME NEW b \in Book, NEW cut
    PROVE  /\ Judged(Without(b, cut)) \subseteq Unused(b) \ cut
           /\ Judged(Without(b, cut)) \subseteq Judged(b)
           /\ Opened(Without(b, cut)) = Opened(b)
           /\ Closed(Without(b, cut)) = Closed(b)
           /\ \A i \in Unused(b) \ cut : Age(Without(b, cut), i) = Age(b, i)
<1> DEFINE c == Without(b, cut)
<1>1. /\ c.live = b.live \ cut /\ c.update_count = b.update_count
      /\ \A i \in Ids : IF i \in b.live \ cut
                        THEN c.counts[i] = b.counts[i] /\ c.last_used[i] = b.last_used[i]
                        ELSE c.last_used[i] = Unrecorded
  BY DEF Without, Book
<1> HIDE DEF c
<1>2. Judged(c) \subseteq Unused(b) \ cut
  BY <1>1, UnusedIds DEF Judged, Unused
<1>3. \A i \in Unused(b) \ cut : Age(c, i) = Age(b, i)
  BY <1>1, UnusedIds DEF LastUsed, Age
<1>4. Unused(b) \subseteq Judged(b)
  BY UnusedIds DEF Judged
<1>5. Opened(c) = Opened(b) /\ Closed(c) = Closed(b)
  BY <1>1 DEF Opened, Closed
<1> QED BY <1>2, <1>3, <1>4, <1>5 DEF c

LEMMA WithoutDuring ==
    ASSUME NEW b \in Book, NEW cut, During(b)
    PROVE  During(Without(b, cut))
BY WithoutAge DEF During

\* The concise that opens an update leaves unused bullets of the last update
\* only, if the count says it is time.
LEMMA OpensDuring ==
    ASSUME ConciseMethod = "staleness", ConciseFrequency > 0, NEW b \in Book,
           Between(b), NEW c \in MaybeConcise(b)
    PROVE  During(c)
<1>1. CASE FrequencyTrigger(b)
  <2>1. PICK capped \in BOOLEAN : \E cut \in Removals(b, capped) : c = Without(b, cut)
    BY <1>1 DEF MaybeConcise, OverLimit
  <2>2. PICK cut \in Removals(b, capped) : c = Without(b, cut)
    BY <2>1
  <2>3. Stale(b) \subseteq cut
    BY <2>2 DEF Removals
  <2>4. ASSUME NEW i \in Judged(c)
        PROVE  Age(c, i) <= Opened(c)
    <3>1. i \in Unused(b) \ cut /\ i \in Ids
      BY <2>2, WithoutAge, UnusedIds
    <3>2. ~(Age(b, i) > 1)
      BY <2>3, <3>1 DEF Stale, Age
    <3>3. Age(c, i) = Age(b, i) /\ Opened(c) = Opened(b)
      BY <2>2, <3>1, WithoutAge
    <3>4. Age(b, i) \in Int /\ Opened(b) \in Int /\ Opened(b) >= 1
      BY <3>1, AgeType
    <3> QED BY <3>2, <3>3, <3>4
  <2> QED BY <2>4 DEF During
<1>2. CASE ~FrequencyTrigger(b)
  <2>1. During(b)
    <3>1. CASE b.update_count % ConciseFrequency # 0
      BY <3>1 DEF During, Between, Opened, Closed
    <3>2. CASE b.update_count % ConciseFrequency = 0
      <4>1. b.update_count = 0
        BY <1>2, <3>2, AgeType DEF FrequencyTrigger
      <4>2. ASSUME NEW i \in Judged(b) PROVE Age(b, i) <= Opened(b)
        <5>1. i \in Ids /\ Opened(b) \in Int /\ Opened(b) >= 1
          BY AgeType
        <5>2. Age(b, i) \in Int /\ Age(b, i) <= 0
          BY <4>1, <5>1, AgeType
        <5> QED BY <5>1, <5>2
      <4> QED BY <4>2 DEF During
    <3> QED BY <3>1, <3>2
  <2>2. c = b \/ \E cut : c = Without(b, cut)
    BY DEF MaybeConcise
  <2> QED BY <2>1, <2>2, WithoutDuring
<1> QED BY <1>1, <1>2

\* Tags use ids now or leave their last use alone, and counts only grow.
LEMMA TagsDuring ==
    ASSUME ConciseFrequency > 0, NEW b \in Book, During(b), NEW tags \in [Ids -> Tally]
    PROVE  During(ApplyTags(b, tags))
<1> DEFINE c == ApplyTags(b, tags)
<1>1. /\ c.live = b.live /\ c.update_count = b.update_count
      /\ \A i \in Ids : c.last_used[i] = IF tags[i].used THEN b.update_count
                                         ELSE b.last_used[i]
      /\ \A i \in b.live : /\ c.counts[i].helpful = b.counts[i].helpful + tags[i].helpful
                           /\ c.counts[i].harmful = b.counts[i].harmful + tags[i].harmful
  BY DEF ApplyTags, Book
<1> HIDE DEF c
<1>2. Unused(c) \subseteq Unused(b)
  <2> SUFFICES ASSUME NEW i \in Unused(c) PROVE i \in Unused(b)
    OBVIOUS
  <2>1. i \in b.live /\ i \in Ids /\ c.counts[i].helpful + c.counts[i].harmful = 0
    BY <1>1 DEF Unused, Book
  <2>2. tags[i].helpful \in Nat /\ tags[i].harmful \in Nat
    <3>1. tags[i] \in Tally
      BY <2>1
    <3> QED BY <3>1, BoundAssumption DEF Tally
  <2>3. b.counts[i].helpful \in Nat /\ b.counts[i].harmful \in Nat
    <3>1. b.counts[i] \in [helpful: Nat, harmful: Nat]
      BY <2>1 DEF Book
    <3> QED BY <3>1
  <2>4. b.counts[i].helpful + tags[i].helpful + (b.counts[i].harmful + tags[i].harmful) = 0
    BY <1>1, <2>1
  <2>5. b.counts[i].helpful + b.counts[i].harmful = 0
    BY <2>2, <2>3, <2>4
  <2> QED BY <2>1, <2>5 DEF Unused
<1>3. ASSUME NEW i \in Judged(c)
      PROVE  Age(c, i) <= Opened(b)
  <2>1. i \in Ids /\ b.update_count \in Nat /\ Opened(b) \in 1..ConciseFrequency
        /\ ConciseFrequency \in Nat
    BY AgeType DEF Judged
  <2>2. CASE tags[i].used
    <3>1. LastUsed(c, i) = b.update_count
      BY <1>1, <2>1, <2>2 DEF LastUsed, Unrecorded
    <3> QED BY <1>1, <2>1, <3>1 DEF Age
  <2>3. CASE ~tags[i].used
    <3>1. Age(c, i) = Age(b, i) /\ c.last_used[i] = b.last_used[i]
      BY <1>1, <2>1, <2>3 DEF LastUsed, Age
    <3>2. i \in Judged(b)
      BY <1>1, <1>2, <2>1, <3>1 DEF Judged
    <3> QED BY <3>1, <3>2 DEF During
  <2> QED BY <2>2, <2>3
<1>4. Opened(c) = Opened(b)
  BY <1>1 DEF Opened
<1> QED BY <1>3, <1>4 DEF During, c

\* A new bullet is used now, or takes over the use recorded for its id.
LEMMA AddsDuring ==
    ASSUME ConciseFrequency > 0, NEW b \in Book, SoundBook(b), During(b),
           NEW n \in Nat, b.next_global_id + n <= MaxId + 1
    PROVE  During(AddBullets(b, n))
<1> DEFINE c == AddBullets(b, n)
           new == NewIds(b, n)
<1>0. \A i \in new : i \in Int /\ i >= b.next_global_id /\ i \in Ids
  <2>1. b.next_global_id \in 1..(MaxId + 1)
    BY DEF Book
  <2> QED BY <2>1, BoundAssumption DEF NewIds, Ids
<1>1. /\ c.live = b.live \cup new /\ c.update_count = b.update_count
      /\ \A i \in Ids : c.counts[i] = IF i \in new THEN Zero ELSE b.counts[i]
      /\ \A i \in Ids : c.last_used[i] =
            IF i \in b.live \cup new /\ b.last_used[i] = Unrecorded
            THEN b.update_count ELSE b.last_used[i]
  BY DEF AddBullets, Book
<1>2. \A i \in new : i \notin b.live
  <2>1. b.next_global_id \in Int /\ \A i \in b.live : i < b.next_global_id /\ i \in Int
    BY DEF SoundBook, Book, Ids
  <2> QED BY <1>0, <2>1
<1> HIDE DEF c, new
<1>3. ASSUME NEW i \in Judged(c)
      PROVE  Age(c, i) <= Opened(b)
  <2>1. i \in Ids /\ b.update_count \in Nat /\ Opened(b) \in 1..ConciseFrequency
        /\ ConciseFrequency \in Nat
    BY AgeType DEF Judged
  <2>2. CASE i \in b.live \cup new /\ b.last_used[i] = Unrecorded
    <3>1. LastUsed(c, i) = b.update_count
      BY <1>1, <2>1, <2>2 DEF LastUsed, Unrecorded
    <3> QED BY <1>1, <2>1, <3>1 DEF Age
  <2>3. CASE ~(i \in b.live \cup new /\ b.last_used[i] = Unrecorded)
    <3>1. Age(c, i) = Age(b, i) /\ c.last_used[i] = b.last_used[i]
      BY <1>1, <2>1, <2>3 DEF LastUsed, Age
    <3>2. i \in Judged(b)
      <4>1. CASE i \in b.live
        <5>1. i \in Unused(c) /\ i \notin new
          BY <1>1, <1>2, <4>1 DEF Judged
        <5>2. i \in Unused(b)
          BY <1>1, <2>1, <4>1, <5>1 DEF Unused
        <5> QED BY <2>1, <4>1, <5>2 DEF Judged
      <4>2. CASE i \notin b.live
        <5>1. b.last_used[i] # Unrecorded
          BY <1>1, <2>3, <3>1, <4>2 DEF Judged
        <5> QED BY <2>1, <4>2, <5>1 DEF Judged
      <4> QED BY <4>1, <4>2
    <3> QED BY <3>1, <3>2 DEF During
  <2> QED BY <2>2, <2>3
<1>4. Opened(c) = Opened(b)
  BY <1>1 DEF Opened
<1> QED BY <1>3, <1>4 DEF During, c

\* One more update, one more of age.
LEMMA ClosesBetween ==
    ASSUME ConciseFrequency > 0, NEW b \in Book, During(b)
    PROVE  Between(Counted(b))
<1> DEFINE c == Counted(b)
<1>1. /\ c.live = b.live /\ c.counts = b.counts /\ c.last_used = b.last_used
      /\ c.update_count = b.update_count + 1 /\ b.update_count \in Nat
  BY DEF Counted, Book
<1> HIDE DEF c
<1>2. Judged(c) = Judged(b)
  BY <1>1 DEF Judged, Unused
<1>3. \A i \in Judged(b) : Age(c, i) = Age(b, i) + 1 /\ Age(b, i) \in Int
  <2> SUFFICES ASSUME NEW i \in Judged(b)
               PROVE  Age(c, i) = Age(b, i) + 1 /\ Age(b, i) \in Int
    OBVIOUS
  <2>1. LastUsed(c, i) = LastUsed(b, i) /\ LastUsed(b, i) \in Nat
    BY <1>1, AgeType DEF LastUsed
  <2> QED BY <1>1, <2>1 DEF Age
<1>4. Opened(b) + 1 <= Closed(c) /\ Opened(b) \in Int /\ Closed(c) \in Int
  <2>1. /\ b.update_count % ConciseFrequency \in 0..(ConciseFrequency - 1)
        /\ ConciseFrequency \in Nat \ {0}
        /\ \/ c.update_count % ConciseFrequency = 0
           \/ c.update_count % ConciseFrequency = (b.update_count % ConciseFrequency) + 1
    BY <1>1, AgeType, NextRemainder
  <2> QED BY <2>1 DEF Opened, Closed
<1>5. ASSUME NEW i \in Judged(c)
      PROVE  Age(c, i) <= Closed(c)
  <2>1. Age(b, i) <= Opened(b)
    BY <1>2 DEF During
  <2> QED BY <1>2, <1>3, <1>4, <2>1
<1> QED BY <1>5 DEF Between, c

LEMMA LingerStep ==
    ASSUME SoundInv, BatchInv, LingerInv, [Next]_vars,
           ConciseMethod = "staleness", ConciseFrequency > 0
    PROVE  LingerInv'
<1>0. TypeOK
  BY DEF SoundInv
<1>1. CASE Restart
  <2>1. playbooks' = saved.playbooks /\ saved' = saved
    BY <1>1 DEF Restart
  <2>2. \A k \in Keys : ~Open(k)'
    BY <1>1 DEF Restart, Open
  <2>3. \A k \in Keys : Between(saved.playbooks[k])
    BY DEF LingerInv
  <2> QED BY <2>1, <2>2, <2>3 DEF LingerInv, Between, Judged, Age, Closed, LastUsed, Unused
<1>2. ASSUME ~Restart, NEW k \in Keys
      PROVE  /\ Open(k)' => During(playbooks'[k])
             /\ ~Open(k)' => Between(playbooks'[k])
  <2>1. /\ KeyStep(k, playbooks[k], playbooks'[k])
        /\ playbooks[k] \in Book /\ SoundBook(playbooks[k])
        /\ Open(k) => During(playbooks[k])
        /\ ~Open(k) => Between(playbooks[k])
    BY <1>0, <1>2, EveryKey DEF TypeOK, SoundInv, SoundStore, LingerInv
  <2> DEFINE b == playbooks[k]
             c == playbooks'[k]
  <2> HIDE DEF b, c
  <2>2. /\ KeyStep(k, b, c) /\ b \in Book /\ SoundBook(b)
        /\ Open(k) => During(b)
        /\ ~Open(k) => Between(b)
    BY <2>1 DEF b, c
  <2>3. CASE Opens(k, b, c)
    BY <2>2, <2>3, OpensDuring DEF Opens, c
  <2>4. CASE Tags(k, b, c)
    BY <2>2, <2>4, TagsDuring DEF Tags, c
  <2>5. CASE Curates(k, b, c)
    BY <2>2, <2>5, AddsDuring DEF Curates, c
  <2>6. CASE Trims(k, b, c)
    <3>1. c = b \/ \E cut : c = Without(b, cut)
      BY <2>6 DEF Trims, MaybeTrim
    <3>2. During(c)
      BY <2>2, <2>6, <3>1, WithoutDuring DEF Trims
    <3> QED BY <2>6, <3>2 DEF Trims, c
  <2>7. CASE Closes(k, b, c)
    BY <2>2, <2>7, ClosesBetween DEF Closes, c
  <2>8. CASE Leaves(k, b, c)
    BY <2>2, <2>8 DEF Leaves, c
  <2> QED BY <2>2, <2>3, <2>4, <2>5, <2>6, <2>7, <2>8 DEF KeyStep
<1>3. ASSUME ~Restart, NEW k \in Keys
      PROVE  Between(saved'.playbooks[k])
  <2>1. CASE Save
    <3>1. saved'.playbooks = playbooks /\ ~Open(k)
      BY <2>1 DEF Save, Open
    <3> QED BY <3>1 DEF LingerInv
  <2>2. CASE ~Save
    <3>1. saved' = saved
      BY <1>3, <2>2 DEF Next, BeginUpdate, Reflect, TagCorrect, SkipTagging, Curate, Trim,
                        FinishUpdate, SyncStudent, vars
    <3> QED BY <3>1 DEF LingerInv
  <2> QED BY <2>1, <2>2
<1>4. CASE ~Restart
  BY <1>2, <1>3, <1>4 DEF LingerInv, During, Between, Judged, Age, Opened, Closed,
                          LastUsed, Unused
<1> QED BY <1>1, <1>4

\* By staleness an unused bullet outlives one concise at most.
THEOREM NoneLingers == Spec => []NoLingering
<1>1. CASE ConciseMethod = "staleness" /\ ConciseFrequency > 0
  <2>1. Init => LingerInv
    <3> SUFFICES ASSUME Init, NEW k \in Keys
                 PROVE  During(playbooks[k]) /\ Between(playbooks[k])
                        /\ Between(saved.playbooks[k])
      BY DEF LingerInv
    <3>1. playbooks[k] = FreshState /\ saved.playbooks[k] = FreshState
      BY DEF Init, FreshStore
    <3>2. Judged(FreshState) = {}
      BY DEF Judged, FreshState
    <3> QED BY <3>1, <3>2 DEF During, Between
  <2>2. SoundInv /\ BatchInv /\ LingerInv /\ [Next]_vars => LingerInv'
    BY <1>1, LingerStep
  <2>3. TypeOK /\ LingerInv => NoLingering
    <3> SUFFICES ASSUME TypeOK, LingerInv, NEW k \in Keys, NEW i \in Unused(playbooks[k])
                 PROVE  playbooks[k].update_count - LastUsed(playbooks[k], i)
                           <= ConciseFrequency + 1
      BY DEF NoLingering
    <3> DEFINE b == playbooks[k]
    <3>1. b \in Book /\ (During(b) \/ Between(b))
      BY DEF TypeOK, LingerInv
    <3>2. i \in Judged(b) /\ i \in Ids
      BY <3>1, UnusedIds DEF Judged
    <3>3. Age(b, i) <= Opened(b) \/ Age(b, i) <= Closed(b)
      BY <3>1, <3>2 DEF During, Between
    <3>4. /\ Age(b, i) \in Int /\ Opened(b) \in 1..ConciseFrequency
          /\ Closed(b) \in 1..(ConciseFrequency + 1) /\ ConciseFrequency \in Nat
      BY <1>1, <3>1, <3>2, AgeType
    <3>5. Age(b, i) <= ConciseFrequency + 1
      BY <3>3, <3>4
    <3> QED BY <3>5 DEF Age
  <2> QED BY <2>1, <2>2, <2>3, Sound, Batched, PTL DEF Spec
<1>2. CASE ~(ConciseMethod = "staleness" /\ ConciseFrequency > 0)
  <2>1. NoLingering
    BY <1>2 DEF NoLingering
  <2> QED BY <2>1, PTL
<1> QED BY <1>1, <1>2

-----------------------------------------------------------------------------
(* What the updater promises *)

\* A book that becomes b, then c, as LessonBook allows.
Kept(b, c) == c.live \subseteq b.live /\ c.next_global_id = b.next_global_id

Grows(b, c) ==
    /\ c.next_global_id >= b.next_global_id
    /\ c.live = b.live \cup b.next_global_id..(c.next_global_id - 1)

LEMMA ConciseKeeps ==
    ASSUME NEW b \in Book, NEW c \in MaybeConcise(b) \cup MaybeTrim(b)
    PROVE  Kept(b, c)
<1>1. c = b \/ \E cut : c = Without(b, cut)
  BY DEF MaybeConcise, MaybeTrim
<1>2. ASSUME NEW cut PROVE Kept(b, Without(b, cut))
  BY DEF Without, Book, Kept
<1> QED BY <1>1, <1>2 DEF Kept

LEMMA TagsAndCountsKeep ==
    ASSUME NEW b \in Book
    PROVE  Kept(b, Counted(b)) /\ \A tags : Kept(b, ApplyTags(b, tags))
BY DEF Counted, ApplyTags, Book, Kept

LEMMA AddsGrow ==
    ASSUME NEW b \in Book, NEW n \in Nat
    PROVE  Grows(b, AddBullets(b, n))
<1>1. b.next_global_id \in Nat
  BY BoundAssumption DEF Book
<1>2. /\ AddBullets(b, n).live = b.live \cup b.next_global_id..(b.next_global_id + n - 1)
      /\ AddBullets(b, n).next_global_id = b.next_global_id + n
  BY DEF AddBullets, NewIds, Book
<1>3. /\ b.next_global_id + n >= b.next_global_id
      /\ b.next_global_id + n - 1 = (b.next_global_id + n) - 1
  BY <1>1
<1> QED BY <1>1, <1>2, <1>3 DEF Grows

\* Between updates no playbook is open.
IdleInv == pc = "idle" <=> batch.active = {}

LEMMA IdleStep == ASSUME TypeOK, IdleInv, [Next]_vars PROVE IdleInv'
<1>1. CASE Curate
  <2>1. batch'.active = batch.active /\ pc = "curate" /\ pc' = "trim"
    BY <1>1 DEF Curate, TypeOK, Batches
  <2> QED BY <2>1 DEF IdleInv
<1>2. ASSUME NEW wrong \in SUBSET Keys, NEW right \in SUBSET Keys,
             BeginUpdate(wrong, right)
      PROVE  IdleInv'
  <2>1. batch'.active = wrong \cup right /\ wrong \cup right # {} /\ pc' # "idle"
    BY <1>2 DEF BeginUpdate
  <2> QED BY <2>1 DEF IdleInv
<1>3. CASE SyncStudent \/ Restart
  BY <1>3 DEF SyncStudent, Restart, NoBatch, IdleInv
<1>4. CASE \/ Reflect \/ TagCorrect \/ SkipTagging \/ Trim \/ FinishUpdate \/ Save
           \/ UNCHANGED vars
  <2>1. batch' = batch /\ (pc' = "idle" <=> pc = "idle")
    BY <1>4 DEF Reflect, TagCorrect, SkipTagging, AfterTagging, Trim, FinishUpdate,
                Save, vars
  <2> QED BY <2>1 DEF IdleInv
<1> QED BY <1>1, <1>2, <1>3, <1>4 DEF Next

\* The invariants a step is shown to implement LessonBook from.
BookInv == TypeOK /\ BatchInv /\ IdleInv /\ (MaxBullets > 0 => CapInv)

LEMMA BookInvHolds == Spec => []BookInv
<1>1. Init => BookInv
  <2>1. Init => IdleInv
    BY DEF Init, NoBatch, IdleInv
  <2> QED BY <2>1, TypeInit, BatchInit, CapInit DEF BookInv
<1>2. BookInv /\ [Next]_vars => BookInv'
  BY TypeStep, BatchStep, IdleStep, CapStep DEF BookInv
<1> QED BY <1>1, <1>2, PTL DEF Spec

\* The lessons as the playbooks have them.
LEMMA BookOf ==
    ASSUME TypeOK, NEW k \in Keys
    PROVE  /\ Lives(playbooks)[k] = playbooks[k].live
           /\ Issued(playbooks)[k] = playbooks[k].next_global_id - 1
           /\ Lives(playbooks)[k] \in SUBSET Nat
           /\ Issued(playbooks)[k] \in Nat
           /\ playbooks[k].next_global_id \in Nat
<1>1. playbooks[k] \in Book
  BY DEF TypeOK
<1>2. playbooks[k].next_global_id \in Nat /\ playbooks[k].next_global_id >= 1
  BY <1>1, BoundAssumption DEF Book
<1>3. playbooks[k].live \subseteq Nat
  BY <1>1, BoundAssumption DEF Book, Ids
<1> QED BY <1>2, <1>3 DEF Lives, Issued

LEMMA BookOfNext ==
    ASSUME TypeOK', NEW k \in Keys
    PROVE  /\ Lives(playbooks')[k] = playbooks'[k].live
           /\ Issued(playbooks')[k] = playbooks'[k].next_global_id - 1
           /\ Lives(playbooks')[k] \in SUBSET Nat
           /\ Issued(playbooks')[k] \in Nat
           /\ playbooks'[k].next_global_id \in Nat
<1>1. playbooks'[k] \in Book
  BY DEF TypeOK
<1>2. playbooks'[k].next_global_id \in Nat /\ playbooks'[k].next_global_id >= 1
  BY <1>1, BoundAssumption DEF Book
<1>3. playbooks'[k].live \subseteq Nat
  BY <1>1, BoundAssumption DEF Book, Ids
<1> QED BY <1>2, <1>3 DEF Lives, Issued

LEMMA BookStored ==
    ASSUME TypeOK' PROVE Lessons!Stored'
<1>1. /\ Lives(playbooks') \in [Keys -> SUBSET Nat]
      /\ Issued(playbooks') \in [Keys -> Nat]
  <2>1. /\ Lives(playbooks') = [k \in Keys |-> Lives(playbooks')[k]]
        /\ Issued(playbooks') = [k \in Keys |-> Issued(playbooks')[k]]
    BY DEF Lives, Issued
  <2> QED BY <2>1, BookOfNext
<1> QED BY <1>1 DEF Lessons!Stored

\* A playbook that stays, loses bullets or gets new ones is a book that does.
LEMMA BookMoves ==
    ASSUME TypeOK, TypeOK', NEW k \in Keys
    PROVE  /\ playbooks'[k] = playbooks[k] => Lessons!Same(k)
           /\ Kept(playbooks[k], playbooks'[k]) => Lessons!Forgets(k)
           /\ Grows(playbooks[k], playbooks'[k]) => Lessons!Learns(k)
<1> DEFINE n == playbooks[k].next_global_id
           m == playbooks'[k].next_global_id
<1>0. n \in Nat /\ m \in Nat
  BY BookOf, BookOfNext
<1>1. playbooks'[k] = playbooks[k] => Lessons!Same(k)
  BY BookOf, BookOfNext DEF Lessons!Same
<1>2. Kept(playbooks[k], playbooks'[k]) => Lessons!Forgets(k)
  BY BookOf, BookOfNext DEF Lessons!Forgets, Kept
<1>3. ASSUME Grows(playbooks[k], playbooks'[k]) PROVE Lessons!Learns(k)
  <2>1. m >= n /\ playbooks'[k].live = playbooks[k].live \cup n..(m - 1)
    BY <1>3 DEF Grows
  <2>2. m - 1 >= n - 1 /\ (n - 1) + 1 = n
    BY <1>0, <2>1
  <2> HIDE DEF n, m
  <2>3. /\ Lives(playbooks')[k] = Lives(playbooks)[k] \cup ((n - 1) + 1)..(m - 1)
        /\ Issued(playbooks)[k] = n - 1 /\ Issued(playbooks')[k] = m - 1
    BY <2>1, <2>2, BookOf, BookOfNext DEF n, m
  <2> QED BY <2>2, <2>3 DEF Lessons!Learns
<1> QED BY <1>1, <1>2, <1>3

\* What a step does to each playbook of the batch, and to the others.
LEMMA EveryBook ==
    ASSUME BookInv, TypeOK', [Next]_vars, ~Restart, NEW k \in Keys
    PROVE  /\ Lessons!Forgets(k) \/ Lessons!Learns(k)
           /\ k \notin batch.active \cup batch'.active => Lessons!Same(k)
<1> DEFINE b == playbooks[k]
           c == playbooks'[k]
<1>0. b \in Book
  BY DEF BookInv, TypeOK
<1>1. KeyStep(k, b, c)
  BY EveryKey DEF BookInv
<1>2. Kept(b, b)
  BY DEF Kept
<1>3. Kept(b, c) \/ Grows(b, c)
  BY <1>0, <1>1, <1>2, ConciseKeeps, TagsAndCountsKeep, AddsGrow
     DEF KeyStep, Opens, Tags, Curates, Trims, Closes, Leaves
<1>4. k \notin batch.active \cup batch'.active => c = b
  BY <1>1 DEF KeyStep, Opens, Tags, Curates, Trims, Closes, Leaves, Open
<1> QED BY <1>3, <1>4, BookMoves DEF BookInv

\* The cap of LessonBook is over the same cardinalities.
LEMMA SameSize == \A S : Lessons!Cardinality(S) = Cardinality(S)
BY DEF Cardinality, Lessons!Cardinality

LEMMA BookBegins ==
    ASSUME BookInv, TypeOK', NEW wrong \in SUBSET Keys, NEW right \in SUBSET Keys,
           BeginUpdate(wrong, right)
    PROVE  Lessons!Begin(wrong \cup right)
<1> DEFINE active == wrong \cup right
<1>1. /\ batch.active = {} /\ active # {} /\ batch'.active = active
      /\ student' = student /\ saved' = saved
  BY DEF BeginUpdate, BookInv, IdleInv
<1>2. \A k \in active : playbooks'[k] \in MaybeConcise(playbooks[k])
  BY DEF BeginUpdate
<1>3. \A k \in Keys \ active : playbooks'[k] = playbooks[k]
  BY DEF BeginUpdate
<1>4. ASSUME NEW k \in active PROVE Lessons!Forgets(k) /\ Lessons!Fits(k)'
  <2>1. Kept(playbooks[k], playbooks'[k])
    BY <1>2, ConciseKeeps DEF BookInv, TypeOK
  <2>2. MaxBullets > 0 => Capped(playbooks'[k])
    BY <1>2, MaybeConciseCaps DEF BookInv, TypeOK
  <2>3. MaxBullets > 0 => Cardinality(Lives(playbooks')[k]) <= MaxBullets
    BY <2>2, BookOfNext DEF Capped
  <2>4. Lessons!Fits(k)'
    BY <2>3, SameSize DEF Lessons!Fits
  <2> QED BY <2>1, <2>4, BookMoves DEF BookInv
<1>5. \A k \in Keys \ active : Lessons!Same(k)
  BY <1>3, BookMoves DEF BookInv
<1> QED BY <1>1, <1>4, <1>5, BookStored DEF Lessons!Begin

LEMMA BookRevised ==
    ASSUME BookInv, TypeOK', Reflect \/ TagCorrect \/ SkipTagging \/ Curate \/ Trim
                             \/ FinishUpdate
    PROVE  Lessons!Revise
<1>1. /\ pc # "idle" /\ batch'.active = batch.active
      /\ student' = student /\ saved' = saved /\ pc' # "idle"
  BY DEF Reflect, TagCorrect, SkipTagging, AfterTagging, Curate, Trim, FinishUpdate,
         BookInv, TypeOK, Batches
<1>2. batch.active # {} /\ batch.active \subseteq Keys
  BY <1>1 DEF BookInv, IdleInv, TypeOK, Batches
<1>3. [Next]_vars
  BY DEF Next
<1>4. ~Restart
  BY DEF Reflect, TagCorrect, SkipTagging, Curate, Trim, FinishUpdate, Restart,
         BookInv, TypeOK
<1>5. \A k \in Keys : /\ Lessons!Forgets(k) \/ Lessons!Learns(k)
                      /\ k \notin batch.active => Lessons!Same(k)
  BY <1>1, <1>3, <1>4, EveryBook
<1> QED BY <1>1, <1>2, <1>5, BookStored DEF Lessons!Revise

LEMMA BookEnds ==
    ASSUME BookInv, TypeOK', SyncStudent
    PROVE  Lessons!End
<1>1. /\ pc = "sync" /\ batch'.active = {} /\ playbooks' = playbooks /\ saved' = saved
  BY DEF SyncStudent, NoBatch
<1>2. batch.active # {}
  BY <1>1 DEF BookInv, IdleInv
<1>3. student' \in {student, Lives(playbooks)}
  BY DEF SyncStudent, Lives
<1>4. ASSUME ConciseAfterCuration, NEW k \in Keys PROVE Lessons!Fits(k)
  <2>1. MaxBullets > 0 => Capped(playbooks[k])
    BY <1>1, <1>4 DEF BookInv, CapInv
  <2>2. MaxBullets > 0 => Cardinality(Lives(playbooks)[k]) <= MaxBullets
    BY <2>1, BookOf DEF BookInv, Capped
  <2> QED BY <2>2, SameSize DEF Lessons!Fits
<1> QED BY <1>1, <1>2, <1>3, <1>4 DEF Lessons!End

LEMMA BookStep == ASSUME BookInv, TypeOK', [Next]_vars PROVE [Lessons!Next]_Lessons!state
<1>1. ASSUME NEW wrong \in SUBSET Keys, NEW right \in SUBSET Keys,
             BeginUpdate(wrong, right)
      PROVE  Lessons!Next
  <2>1. wrong \cup right \in SUBSET Keys /\ Lessons!Begin(wrong \cup right)
    BY <1>1, BookBegins
  <2> QED BY <2>1 DEF Lessons!Next
<1>2. CASE Reflect \/ TagCorrect \/ SkipTagging \/ Curate \/ Trim \/ FinishUpdate
  BY <1>2, BookRevised DEF Lessons!Next
<1>3. CASE SyncStudent
  BY <1>3, BookEnds DEF Lessons!Next
<1>4. CASE Save
  <2>1. Lessons!Save
    BY <1>4 DEF Save, BookInv, IdleInv, Lessons!Save
  <2> QED BY <2>1 DEF Lessons!Next
<1>5. CASE Restart
  <2>1. Lessons!Resume
    BY <1>5 DEF Restart, NoBatch, Lessons!Resume
  <2> QED BY <2>1 DEF Lessons!Next
<1>6. CASE UNCHANGED vars
  BY <1>6 DEF vars, Lessons!state
<1> QED BY <1>1, <1>2, <1>3, <1>4, <1>5, <1>6 DEF Next

\* The updater implements LessonBook for any number of playbooks and under
\* every method of concising.
THEOREM ImplementsBook == Spec => BookSpec
<1>1. Init => Lessons!Init
  BY DEF Init, FreshStore, FreshState, NoBatch, Lives, Issued, Lessons!Init
<1>2. BookInv /\ BookInv' /\ [Next]_vars => [Lessons!Next]_Lessons!state
  BY BookStep DEF BookInv
<1> QED BY <1>1, <1>2, BookInvHolds, PTL DEF Spec, BookSpec, Lessons!Spec

-----------------------------------------------------------------------------
(* The lists of one update *)

\* A list of positions has no other entries than theirs, each of them once.
LEMMA ListingIn ==
    ASSUME NEW S, NEW list \in Listings(S)
    PROVE  /\ DOMAIN list = 1..Cardinality(S)
           /\ \A j \in DOMAIN list : list[j] \in S
BY DEF Listings

LEMMA ListingOnto ==
    ASSUME NEW S, IsFiniteSet(S), S \subseteq Nat, NEW list \in Listings(S), NEW i \in S
    PROVE  \E j \in DOMAIN list : list[j] = i
<1> DEFINE N == 1..Cardinality(S)
<1>1. Cardinality(S) \in Nat
  BY FS_CardinalityType
<1>2. list \in [N -> S] /\ \A g, h \in N : g < h => list[g] < list[h]
  BY DEF Listings
<1>3. \A g, h \in N : list[g] = list[h] => g = h
  <2> SUFFICES ASSUME NEW g \in N, NEW h \in N, g # h PROVE list[g] # list[h]
    OBVIOUS
  <2>1. g < h \/ h < g
    BY <1>1
  <2>2. list[g] \in Nat /\ list[h] \in Nat
    BY <1>2
  <2> QED BY <1>2, <2>1, <2>2
<1>4. list \in Injection(N, S)
  BY <1>2, <1>3 DEF Injection, IsInjective
<1>5. Cardinality(N) = Cardinality(S)
  BY <1>1, FS_Interval
<1>6. list \in Surjection(N, S)
  BY <1>4, <1>5, FS_Injection
<1> QED BY <1>6, <1>2 DEF Surjection

\* Cutting the padding off leaves an answer to every prompt, in the same order
\* (pad_dataproto_to_divisor, unpad_dataproto).
LEMMA PadSizeType == ASSUME NEW n \in Nat PROVE PadSize(n) \in Nat
<1>1. n % NumWorkers \in 0..(NumWorkers - 1)
  BY RowsAssumption
<1>2. NumWorkers \in Nat \ {0}
  BY RowsAssumption
<1>3. NumWorkers - (n % NumWorkers) \in Nat
  BY <1>1, <1>2
<1> QED BY <1>3 DEF PadSize

LEMMA AnswersInOrder ==
    ASSUME NEW n \in Nat, NEW prompts, prompts = [p \in 1..n |-> prompts[p]]
    PROVE  Answers(prompts) = prompts
<1> DEFINE T == {prompts[p] : p \in 1..n}
<1>0. prompts \in [1..n -> T]
  OBVIOUS
<1> HIDE DEF T
<1>1. prompts \in Seq(T) /\ Len(prompts) = n
  BY <1>0, SeqDef
<1>2. PadSize(n) \in Nat
  BY PadSizeType
<1>3. ASSUME NEW p \in 1..n
      PROVE  Padded(prompts)[p] = prompts[p]
  <2>1. p - 1 \in 0..(n - 1) /\ n > 0
    OBVIOUS
  <2>2. (p - 1) % n = p - 1
    BY <2>1
  <2>3. p \in 1..(n + PadSize(n))
    BY <1>2
  <2> QED BY <1>1, <2>2, <2>3 DEF Padded
<1>4. \A p \in 1..n : Padded(prompts)[p] \in T
  BY <1>0, <1>3
<1> DEFINE cut == SubSeq(Padded(prompts), 1, n)
<1>5. /\ cut \in Seq(T)
      /\ Len(cut) = IF 1 <= n THEN n - 1 + 1 ELSE 0
      /\ \A p \in 1..(n - 1 + 1) : cut[p] = Padded(prompts)[1 + p - 1]
  <2>1. 1 \in Int /\ n \in Int
    OBVIOUS
  <2> QED BY <2>1, <1>4, SubSeqProperties
<1>6. Len(cut) = n /\ \A p \in 1..n : cut[p] = Padded(prompts)[p]
  BY <1>5
<1>7. cut = [p \in 1..n |-> cut[p]]
  BY <1>5, <1>6, LenProperties
<1>8. cut = prompts
  BY <1>0, <1>3, <1>6, <1>7
<1> QED BY <1>1, <1>8 DEF Answers

-----------------------------------------------------------------------------
(* Tags row by row *)

\* The tags of at most Samples lists are tallied as a phase of Playbook has it.
LEMMA TalliedIsTally ==
    ASSUME NEW n \in Nat, n <= Samples, NEW lists \in [1..n -> TagLists],
           NEW P \in SUBSET (1..n)
    PROVE  Tallied(lists, P) \in [Ids -> Tally]
<1> SUFFICES ASSUME NEW i \in Ids
             PROVE  [helpful |-> Count(lists, P, i, "helpful"),
                     harmful |-> Count(lists, P, i, "harmful"),
                     used |-> \E j \in P : lists[j][i] # "none"] \in Tally
  BY DEF Tallied
<1> DEFINE H == {j \in P : lists[j][i] = "helpful"}
           M == {j \in P : lists[j][i] = "harmful"}
<1>1. IsFiniteSet(1..n) /\ Cardinality(1..n) = n
  BY FS_Interval
<1>2. /\ H \in SUBSET (1..n) /\ M \in SUBSET (1..n) /\ H \cap M = {}
      /\ H # {} \/ M # {} => \E j \in P : lists[j][i] # "none"
  OBVIOUS
<1> HIDE DEF H, M
<1>3. /\ IsFiniteSet(H) /\ IsFiniteSet(M)
      /\ Cardinality(H) \in Nat /\ Cardinality(M) \in Nat
  BY <1>1, <1>2, FS_Subset, FS_CardinalityType
<1>4. Cardinality(H \cup M) = Cardinality(H) + Cardinality(M)
  <2>1. Cardinality(H \cap M) = 0
    BY <1>2, FS_EmptySet
  <2>2. Cardinality(H \cup M) = Cardinality(H) + Cardinality(M) - Cardinality(H \cap M)
    BY <1>3, FS_Union
  <2> QED BY <1>3, <2>1, <2>2
<1>5. Cardinality(H \cup M) <= n
  <2>1. H \cup M \in SUBSET (1..n)
    BY <1>2
  <2> QED BY <1>1, <2>1, FS_Subset
<1>6. Cardinality(H) + Cardinality(M) > 0 => \E j \in P : lists[j][i] # "none"
  <2>1. (Cardinality(H) = 0 <=> H = {}) /\ (Cardinality(M) = 0 <=> M = {})
    BY <1>3, FS_EmptySet
  <2> QED BY <1>2, <1>3, <2>1
<1>7. /\ Cardinality(H) \in 0..Samples /\ Cardinality(M) \in 0..Samples
      /\ Cardinality(H) + Cardinality(M) <= Samples
  BY <1>3, <1>4, <1>5, BoundAssumption
<1>8. [helpful |-> Cardinality(H), harmful |-> Cardinality(M),
       used |-> \E j \in P : lists[j][i] # "none"] \in Tally
  BY <1>6, <1>7 DEF Tally
<1> QED BY <1>8 DEF Count, H, M

\* A playbook that no list is for stays as it is.
LEMMA NoTags ==
    ASSUME NEW b \in Book, NEW lists
    PROVE  ApplyTags(b, Tallied(lists, {})) = b
<1> DEFINE t == Tallied(lists, {})
<1>1. \A i \in Ids : t[i].helpful = 0 /\ t[i].harmful = 0 /\ ~t[i].used
  BY FS_EmptySet DEF Tallied, Count
<1> HIDE DEF t
<1>2. [i \in Ids |-> IF t[i].used THEN b.update_count ELSE b.last_used[i]] = b.last_used
  BY <1>1 DEF Book
<1>3. [i \in Ids |->
            IF i \in b.live
            THEN [helpful |-> b.counts[i].helpful + t[i].helpful,
                  harmful |-> b.counts[i].harmful + t[i].harmful]
            ELSE b.counts[i]] = b.counts
  <2>1. \A i \in Ids : b.counts[i] \in [helpful: Nat, harmful: Nat]
    BY DEF Book
  <2>2. \A i \in Ids : [helpful |-> b.counts[i].helpful + t[i].helpful,
                        harmful |-> b.counts[i].harmful + t[i].harmful] = b.counts[i]
    BY <1>1, <2>1
  <2>3. b.counts \in [Ids -> [helpful: Nat, harmful: Nat]]
    BY DEF Book
  <2> QED BY <2>2, <2>3
<1>4. ApplyTags(b, t) = b
  BY <1>2, <1>3 DEF ApplyTags, Book
<1> QED BY <1>4 DEF t

\* The tags grouped by key are tags of the keys they are grouped by.
LEMMA GroupedTags ==
    ASSUME TypeOK, NEW K \in SUBSET Keys, NEW n \in Nat, n <= Samples,
           NEW keys \in [1..n -> K], NEW replies, DOMAIN replies = 1..n,
           TagsApplied(keys, replies)
    PROVE  Tagged(K)
<1>1. PICK lists \in [1..n -> TagLists] :
        /\ \A k \in Keys :
              WithinCounts(playbooks[k], Tallied(lists, TagsByKey(keys, lists)[k]))
        /\ playbooks' = [k \in Keys |->
              ApplyTags(playbooks[k], Tallied(lists, TagsByKey(keys, lists)[k]))]
  BY DEF TagsApplied
<1> DEFINE group(k) == TagsByKey(keys, lists)[k]
           tags == [k \in K |-> Tallied(lists, group(k))]
<1>0. \A k \in Keys : /\ group(k) \in SUBSET (1..n)
                     /\ \A j \in group(k) : keys[j] = k
  BY DEF TagsByKey
<1>2. \A k \in Keys : WithinCounts(playbooks[k], Tallied(lists, group(k)))
  BY <1>1
<1>3. playbooks' = [k \in Keys |-> ApplyTags(playbooks[k], Tallied(lists, group(k)))]
  BY <1>1
<1>4. \A k \in Keys : Tallied(lists, group(k)) \in [Ids -> Tally]
  <2> HIDE DEF group
  <2> QED BY <1>0, TalliedIsTally
<1>5. ASSUME NEW k \in Keys \ K
      PROVE  ApplyTags(playbooks[k], Tallied(lists, group(k))) = playbooks[k]
  <2>1. group(k) = {} /\ playbooks[k] \in Book
    BY <1>0, <1>5 DEF TypeOK
  <2> QED BY <2>1, NoTags
<1>6. tags \in [K -> [Ids -> Tally]]
  BY <1>4
<1>7. \A k \in K : tags[k] = Tallied(lists, group(k))
  OBVIOUS
<1> HIDE DEF tags, group
<1>8. \A k \in K : WithinCounts(playbooks[k], tags[k])
  BY <1>2, <1>7
<1>9. playbooks' = [k \in Keys |-> IF k \in K THEN ApplyTags(playbooks[k], tags[k])
                                              ELSE playbooks[k]]
  BY <1>3, <1>5, <1>7
<1> QED BY <1>6, <1>8, <1>9 DEF Tagged

\* What a phase puts into a playbook are replies at positions of its key.
LEMMA AppliedByKey ==
    ASSUME NEW keys, NEW replies, TagsApplied(keys, replies),
           NEW k \in Keys, NEW r \in applied'[k]
    PROVE  \E j \in DOMAIN replies : keys[j] = k /\ r = replies[j]
<1>1. PICK lists \in [DOMAIN replies -> TagLists] :
        applied' = [g \in Keys |-> {replies[j] : j \in TagsByKey(keys, lists)[g]}]
  BY DEF TagsApplied
<1>2. TagsByKey(keys, lists)[k] \subseteq {j \in DOMAIN replies : keys[j] = k}
  BY DEF TagsByKey
<1> QED BY <1>1, <1>2

-----------------------------------------------------------------------------
(* One update row by row *)

\* While an update runs its lists are those of its rows; from the reflector's
\* answers on, every incorrect position has the reflection on its own row.
ListsInv ==
    /\ pc = "idle" => reflections = << >> /\ applied = NoReplies
    /\ pc # "idle" =>
          /\ rows \in RowBatches
          /\ incorrect \in Listings(RowsWith(rows, FALSE))
          /\ correct \in Listings(RowsWith(rows, TRUE))
          /\ batch.wrong = KeysWith(rows, FALSE)
          /\ batch.right = KeysWith(rows, TRUE)
    /\ pc \notin {"idle", "reflect"} =>
          /\ DOMAIN reflections = DOMAIN incorrect
          /\ \A j \in DOMAIN incorrect :
                reflections[j] = Prompt("reflector", {incorrect[j]}, IncKeys[j])

LEMMA BatchRows ==
    ASSUME NEW b \in RowBatches, NEW right \in BOOLEAN
    PROVE  /\ KeysWith(b, right) \in SUBSET Keys
           /\ \E n \in 1..Samples : DOMAIN b = 1..n
           /\ RowsWith(b, right) \subseteq Nat
           /\ IsFiniteSet(RowsWith(b, right))
           /\ Cardinality(RowsWith(b, right)) \in 0..Samples
<1>1. PICK n \in 1..Samples : b \in [1..n -> [example: Examples, right: BOOLEAN]]
  BY DEF RowBatches
<1>2. n \in Nat /\ n <= Samples /\ Samples \in Nat
  BY BoundAssumption
<1>3. IsFiniteSet(1..n) /\ Cardinality(1..n) = n
  BY <1>2, FS_Interval
<1>4. RowsWith(b, right) \in SUBSET (1..n)
  BY <1>1 DEF RowsWith
<1>5. /\ IsFiniteSet(RowsWith(b, right))
      /\ Cardinality(RowsWith(b, right)) <= n
      /\ Cardinality(RowsWith(b, right)) \in Nat
  BY <1>3, <1>4, FS_Subset, FS_CardinalityType
<1>6. KeysWith(b, right) \in SUBSET Keys
  BY <1>1, RowsAssumption DEF KeysWith, RowsWith
<1> QED BY <1>1, <1>2, <1>4, <1>5, <1>6

\* The rows at the positions of a list of rows of a batch.
LEMMA ListedRows ==
    ASSUME rows \in RowBatches, NEW right \in BOOLEAN,
           NEW list \in Listings(RowsWith(rows, right))
    PROVE  /\ \E n \in Nat : n <= Samples /\ DOMAIN list = 1..n
           /\ \A j \in DOMAIN list :
                 /\ list[j] \in DOMAIN rows /\ rows[list[j]].right = right
                 /\ Key(list[j]) \in KeysWith(rows, right)
<1>1. /\ DOMAIN list = 1..Cardinality(RowsWith(rows, right))
      /\ \A j \in DOMAIN list : list[j] \in RowsWith(rows, right)
  BY ListingIn
<1>2. Cardinality(RowsWith(rows, right)) \in 0..Samples
  BY BatchRows
<1>3. Cardinality(RowsWith(rows, right)) \in Nat /\ Cardinality(RowsWith(rows, right)) <= Samples
  BY <1>2, BoundAssumption
<1> QED BY <1>1, <1>3 DEF RowsWith, KeysWith, Key

\* A list of the positions deduplicate_rollouts keeps.
LEMMA KeptPositions ==
    ASSUME NEW n \in Nat, n <= Samples, NEW list, DOMAIN list = 1..n,
           NEW js \in Listings(Deduplicated(list))
    PROVE  /\ \E m \in Nat : m <= Samples /\ DOMAIN js = 1..m
           /\ \A c \in DOMAIN js : js[c] \in Deduplicated(list) /\ js[c] \in 1..n
<1>1. Deduplicated(list) \in SUBSET (1..n)
  BY DEF Deduplicated
<1>2. IsFiniteSet(1..n) /\ Cardinality(1..n) = n
  BY FS_Interval
<1>3. Cardinality(Deduplicated(list)) \in Nat /\ Cardinality(Deduplicated(list)) <= n
  BY <1>1, <1>2, FS_Subset, FS_CardinalityType
<1>4. Cardinality(Deduplicated(list)) <= Samples
  BY <1>3, BoundAssumption
<1> QED BY <1>1, <1>3, <1>4, ListingIn

\* Two positions it keeps are of different examples.
LEMMA KeptOnce ==
    ASSUME NEW n \in Nat, NEW list, DOMAIN list = 1..n, DeduplicateRollouts,
           NEW g \in Deduplicated(list), NEW h \in Deduplicated(list),
           rows[list[g]].example = rows[list[h]].example
    PROVE  g = h
<1>1. g \in 1..n /\ h \in 1..n
  BY DEF Deduplicated
<1>2. ~(g < h) /\ ~(h < g)
  <2>1. ASSUME g < h PROVE FALSE
    BY <1>1, <2>1 DEF Deduplicated
  <2>2. ASSUME h < g PROVE FALSE
    BY <1>1, <2>2 DEF Deduplicated
  <2> QED BY <2>1, <2>2
<1> QED BY <1>1, <1>2

\* Every phase on the lists is the phase of Playbook on the playbooks.
LEMMA ReflectsRows ==
    ASSUME TypeOK, ListsInv, ReflectRows
    PROVE  /\ Reflect
           /\ \A k \in Keys : \A r \in applied'[k] : \E j \in DOMAIN incorrect :
                 r = Prompt("reflector", {incorrect[j]}, IncKeys[j]) /\ IncKeys[j] = k
           /\ DOMAIN reflections' = DOMAIN incorrect
           /\ \A j \in DOMAIN incorrect :
                 reflections'[j] = Prompt("reflector", {incorrect[j]}, IncKeys[j])
<1> DEFINE prompts == [j \in DOMAIN incorrect |->
                          Prompt("reflector", {incorrect[j]}, IncKeys[j])]
<1>1. /\ pc = "reflect" /\ pc' = "tag_correct"
      /\ TagsApplied(IncKeys, Answers(prompts)) /\ reflections' = Answers(prompts)
      /\ UNCHANGED <<first, student, batch, saved, restarts>>
  BY DEF ReflectRows
<1>2. /\ rows \in RowBatches /\ incorrect \in Listings(RowsWith(rows, FALSE))
      /\ batch.wrong = KeysWith(rows, FALSE)
  BY <1>1 DEF ListsInv
<1>3. PICK n \in Nat : n <= Samples /\ DOMAIN incorrect = 1..n
  BY <1>2, ListedRows
<1>4. \A j \in 1..n : Key(incorrect[j]) \in batch.wrong
  <2>1. \A j \in DOMAIN incorrect : Key(incorrect[j]) \in KeysWith(rows, FALSE)
    BY <1>2, ListedRows
  <2> QED BY <1>2, <1>3, <2>1
<1>5. IncKeys \in [1..n -> batch.wrong]
  BY <1>3, <1>4 DEF IncKeys
<1>6. DOMAIN prompts = 1..n /\ prompts = [j \in 1..n |-> prompts[j]]
  BY <1>3
<1>7. \A j \in DOMAIN incorrect :
        prompts[j] = Prompt("reflector", {incorrect[j]}, IncKeys[j])
  OBVIOUS
<1> HIDE DEF prompts
<1>8. Answers(prompts) = prompts
  BY <1>6, AnswersInOrder
<1>9. batch.wrong \in SUBSET Keys
  BY <1>2, BatchRows
<1>10. Tagged(batch.wrong)
  BY <1>1, <1>3, <1>5, <1>6, <1>8, <1>9, GroupedTags
<1>11. ASSUME NEW k \in Keys, NEW r \in applied'[k]
       PROVE  \E j \in DOMAIN incorrect :
                 r = Prompt("reflector", {incorrect[j]}, IncKeys[j]) /\ IncKeys[j] = k
  <2>1. PICK j \in DOMAIN prompts : IncKeys[j] = k /\ r = prompts[j]
    BY <1>1, <1>8, <1>11, AppliedByKey
  <2> QED BY <1>3, <1>6, <1>7, <2>1
<1> QED BY <1>1, <1>3, <1>6, <1>7, <1>8, <1>10, <1>11 DEF Reflect

LEMMA TagsCorrectRows ==
    ASSUME TypeOK, ListsInv, TagCorrectRows
    PROVE  /\ TagCorrect
           /\ \E js \in Listings(Deduplicated(correct)) :
                 \A k \in Keys : \A r \in applied'[k] : \E j \in DOMAIN js :
                    /\ r = Prompt("success", {correct[js[j]]}, k)
                    /\ Key(correct[js[j]]) = k
<1>1. /\ pc = "tag_correct" /\ pc' = AfterTagging
      /\ TagCorrectSamples /\ correct # << >>
      /\ UNCHANGED <<first, student, batch, saved, restarts>>
  BY DEF TagCorrectRows
<1>2. /\ rows \in RowBatches /\ correct \in Listings(RowsWith(rows, TRUE))
      /\ batch.right = KeysWith(rows, TRUE)
  BY <1>1 DEF ListsInv
<1>3. PICK n \in Nat : n <= Samples /\ DOMAIN correct = 1..n
  BY <1>2, ListedRows
<1>4. \A j \in 1..n : Key(correct[j]) \in batch.right
  <2>1. \A j \in DOMAIN correct : Key(correct[j]) \in KeysWith(rows, TRUE)
    BY <1>2, ListedRows
  <2> QED BY <1>2, <1>3, <2>1
<1>5. batch.right # {}
  <2>1. CASE n = 0
    <3>1. DOMAIN correct = {} /\ correct \in [1..0 -> RowsWith(rows, TRUE)]
      BY <1>2, <1>3, <2>1, ListingIn DEF Listings
    <3>2. correct = << >>
      BY <3>1
    <3> QED BY <1>1, <3>2
  <2>2. CASE n # 0
    <3>1. 1 \in 1..n
      BY <2>2
    <3> QED BY <1>4, <3>1
  <2> QED BY <2>1, <2>2
<1>6. batch.right \in SUBSET Keys
  BY <1>2, BatchRows
<1>7. PICK js \in Listings(Deduplicated(correct)) :
        TagsApplied([j \in DOMAIN js |-> Key(correct[js[j]])],
                    Answers([j \in DOMAIN js |->
                        Prompt("success", {correct[js[j]]},
                               [h \in DOMAIN js |-> Key(correct[js[h]])][j])]))
  BY DEF TagCorrectRows
<1> DEFINE keys == [j \in DOMAIN js |-> Key(correct[js[j]])]
           prompts == [j \in DOMAIN js |-> Prompt("success", {correct[js[j]]}, keys[j])]
<1>8. PICK m \in Nat : m <= Samples /\ DOMAIN js = 1..m
  BY <1>3, KeptPositions
<1>9. \A j \in 1..m : js[j] \in 1..n
  BY <1>3, <1>8, KeptPositions
<1>10. keys \in [1..m -> batch.right]
  BY <1>4, <1>8, <1>9
<1>11. DOMAIN prompts = 1..m /\ prompts = [j \in 1..m |-> prompts[j]]
  BY <1>8
<1>12. \A j \in 1..m : prompts[j] = Prompt("success", {correct[js[j]]}, keys[j])
                         /\ keys[j] = Key(correct[js[j]])
  BY <1>8
<1>13. TagsApplied(keys, Answers(prompts))
  BY <1>7
<1> HIDE DEF prompts, keys
<1>14. Answers(prompts) = prompts
  BY <1>11, AnswersInOrder
<1>15. Tagged(batch.right)
  BY <1>6, <1>8, <1>10, <1>11, <1>13, <1>14, GroupedTags
<1>16. TagCorrect
  BY <1>1, <1>5, <1>15 DEF TagCorrect
<1>17. ASSUME NEW k \in Keys, NEW r \in applied'[k]
       PROVE  \E j \in DOMAIN js : /\ r = Prompt("success", {correct[js[j]]}, k)
                                   /\ Key(correct[js[j]]) = k
  <2>1. PICK j \in DOMAIN prompts : keys[j] = k /\ r = prompts[j]
    BY <1>13, <1>14, <1>17, AppliedByKey
  <2> QED BY <1>8, <1>11, <1>12, <2>1
<1> QED BY <1>16, <1>17

LEMMA RowStep ==
    ASSUME TypeOK, ListsInv, [RowsNext]_<<vars, rowVars>>
    PROVE  [Next]_vars
<1>1. ASSUME NEW b \in RowBatches, BeginRows(b) PROVE Next
  <2>1. KeysWith(b, FALSE) \in SUBSET Keys /\ KeysWith(b, TRUE) \in SUBSET Keys
    BY BatchRows
  <2> QED BY <1>1, <2>1 DEF BeginRows, Next
<1>2. CASE ReflectRows
  BY <1>2, ReflectsRows DEF Next
<1>3. CASE TagCorrectRows
  BY <1>3, TagsCorrectRows DEF Next
<1>4. CASE SkipTaggingRows \/ CurateRows \/ TrimRows \/ FinishRows \/ SyncRows
  BY <1>4 DEF SkipTaggingRows, CurateRows, TrimRows, FinishRows, SyncRows, Next
<1>5. CASE UNCHANGED <<vars, rowVars>>
  BY <1>5
<1> QED BY <1>1, <1>2, <1>3, <1>4, <1>5 DEF RowsNext

LEMMA ListsInit == RowsInit => ListsInv
BY DEF RowsInit, Init, ListsInv

LEMMA ListsStep ==
    ASSUME TypeOK, ListsInv, [RowsNext]_<<vars, rowVars>>
    PROVE  ListsInv'
<1>1. ASSUME NEW b \in RowBatches, BeginRows(b) PROVE ListsInv'
  <2>1. /\ pc = "idle" /\ pc' = IF KeysWith(b, FALSE) = {} THEN "tag_correct" ELSE "reflect"
        /\ batch'.wrong = KeysWith(b, FALSE) /\ batch'.right = KeysWith(b, TRUE)
        /\ rows' = b
        /\ incorrect' \in Listings(RowsWith(b, FALSE))
        /\ correct' \in Listings(RowsWith(b, TRUE))
        /\ reflections' = reflections
    BY <1>1 DEF BeginRows, BeginUpdate
  <2>2. reflections = << >>
    BY <2>1 DEF ListsInv
  <2>3. ASSUME pc' # "reflect" PROVE DOMAIN incorrect' = {}
    <3>0. KeysWith(b, FALSE) = {}
      BY <2>1, <2>3
    <3>1. RowsWith(b, FALSE) = {}
      BY <3>0 DEF KeysWith
    <3>2. DOMAIN incorrect' = 1..0
      BY <2>1, <3>1, FS_EmptySet, ListingIn
    <3> QED BY <3>2
  <2>4. pc' # "reflect" => /\ DOMAIN reflections' = DOMAIN incorrect'
                           /\ DOMAIN incorrect' = {}
    <3>1. << >> \in Seq({}) /\ Len(<< >>) = 0
      BY EmptySeq
    <3>2. DOMAIN << >> = 1..0
      BY <3>1, LenProperties
    <3>3. 1..0 = {}
      OBVIOUS
    <3>4. reflections' = << >>
      BY <2>1, <2>2
    <3>5. DOMAIN reflections' = {}
      BY <3>2, <3>3, <3>4
    <3> QED BY <2>3, <3>5
  <2> QED BY <2>1, <2>4 DEF ListsInv
<1>2. CASE ReflectRows
  <2>1. /\ pc = "reflect" /\ pc' = "tag_correct" /\ batch' = batch
        /\ rows' = rows /\ incorrect' = incorrect /\ correct' = correct
    BY <1>2 DEF ReflectRows
  <2>2. IncKeys' = IncKeys
    BY <2>1 DEF IncKeys, Key
  <2> QED BY <1>2, <2>1, <2>2, ReflectsRows DEF ListsInv
<1>3. CASE TagCorrectRows \/ SkipTaggingRows \/ CurateRows \/ TrimRows \/ FinishRows
  <2>1. /\ rows' = rows /\ incorrect' = incorrect /\ correct' = correct
        /\ reflections' = reflections
        /\ pc \notin {"idle", "reflect"} /\ pc' \notin {"idle", "reflect"}
    BY <1>3 DEF TagCorrectRows, SkipTaggingRows, SkipTagging, AfterTagging, CurateRows,
                Curate, TrimRows, Trim, FinishRows, FinishUpdate, RowsKept
  <2>2. batch'.wrong = batch.wrong /\ batch'.right = batch.right
    BY <1>3 DEF TagCorrectRows, SkipTaggingRows, SkipTagging, CurateRows, Curate,
                TrimRows, Trim, FinishRows, FinishUpdate, TypeOK, Batches
  <2>3. IncKeys' = IncKeys
    BY <2>1 DEF IncKeys, Key
  <2> QED BY <2>1, <2>2, <2>3 DEF ListsInv
<1>4. CASE SyncRows
  BY <1>4 DEF SyncRows, SyncStudent, ListsInv, NoReplies
<1>5. CASE UNCHANGED <<vars, rowVars>>
  BY <1>5 DEF vars, rowVars, ListsInv, IncKeys, Key, NoReplies
<1> QED BY <1>1, <1>2, <1>3, <1>4, <1>5 DEF RowsNext

\* A phase that applies nothing mixes nothing up.
LEMMA NothingApplied ==
    ASSUME applied' = NoReplies
    PROVE  OwnReplies' /\ OncePerExample'
BY DEF NoReplies, OwnReplies, OncePerExample

\* The operations of a curation go to the key of its sample, whose reflection
\* was in its prompt, and an example with several samples gets one curation.
LEMMA CuratesRows ==
    ASSUME ListsInv, CurateRows
    PROVE  OwnReplies' /\ OncePerExample'
<1>1. /\ pc = "curate" /\ rows' = rows
  BY DEF CurateRows, Curate
<1>2. rows \in RowBatches /\ incorrect \in Listings(RowsWith(rows, FALSE))
  BY <1>1 DEF ListsInv
<1>3. PICK n \in Nat : n <= Samples /\ DOMAIN incorrect = 1..n
  BY <1>2, ListedRows
<1>4. PICK js \in Listings(Deduplicated(incorrect)) : \E parsed \in SUBSET DOMAIN js :
        applied' = [k \in Keys |->
            {Answers([e \in DOMAIN js |->
                Prompt("curator", {incorrect[js[e]]} \cup reflections[js[e]].about,
                       IncKeys[js[e]])])[c] :
               c \in {d \in parsed : CurationKey(js, d) = k}}]
  BY DEF CurateRows
<1> DEFINE prompts == [c \in DOMAIN js |->
               Prompt("curator", {incorrect[js[c]]} \cup reflections[js[c]].about,
                      IncKeys[js[c]])]
<1>5. PICK parsed \in SUBSET DOMAIN js :
        applied' = [k \in Keys |->
            {Answers(prompts)[c] : c \in {d \in parsed : CurationKey(js, d) = k}}]
  BY <1>4
<1>6. PICK m \in Nat : DOMAIN js = 1..m
  BY <1>3, KeptPositions
<1>7. \A c \in 1..m : js[c] \in Deduplicated(incorrect) /\ js[c] \in 1..n
  BY <1>3, <1>6, KeptPositions
<1>8. prompts = [c \in 1..m |-> prompts[c]]
  BY <1>6
<1>9. \A c \in 1..m : prompts[c] = Prompt("curator", {incorrect[js[c]]}, IncKeys[js[c]])
  <2> SUFFICES ASSUME NEW c \in 1..m
               PROVE  {incorrect[js[c]]} \cup reflections[js[c]].about = {incorrect[js[c]]}
    BY <1>6
  <2>1. reflections[js[c]] = Prompt("reflector", {incorrect[js[c]]}, IncKeys[js[c]])
    BY <1>1, <1>3, <1>7 DEF ListsInv
  <2> QED BY <2>1 DEF Prompt
<1> HIDE DEF prompts
<1>10. Answers(prompts) = prompts
  BY <1>8, AnswersInOrder
<1>11. ASSUME NEW k \in Keys, NEW r \in applied'[k]
       PROVE  \E c \in 1..m : /\ r = Prompt("curator", {incorrect[js[c]]}, k)
                             /\ Key(incorrect[js[c]]) = k
  <2>1. PICK c \in parsed : CurationKey(js, c) = k /\ r = prompts[c]
    BY <1>5, <1>10, <1>11
  <2>2. c \in 1..m /\ IncKeys[js[c]] = k
    BY <1>5, <1>6, <2>1 DEF CurationKey
  <2>3. IncKeys[js[c]] = Key(incorrect[js[c]])
    BY <1>3, <1>7, <2>2 DEF IncKeys
  <2> QED BY <1>9, <2>1, <2>2, <2>3
<1>12. \A c \in 1..m : incorrect[js[c]] \in DOMAIN rows
  <2>1. \A j \in DOMAIN incorrect : incorrect[j] \in DOMAIN rows
    BY <1>2, ListedRows
  <2> QED BY <1>3, <1>7, <2>1
<1>13. OwnReplies'
  <2> SUFFICES ASSUME NEW k \in Keys, NEW r \in applied'[k]
               PROVE  r.book = k /\ \E i \in DOMAIN rows : r.about = {i} /\ Key(i) = k
    BY <1>1 DEF OwnReplies, Key
  <2> QED BY <1>11, <1>12 DEF Prompt
<1>14. OncePerExample'
  <2> SUFFICES ASSUME DeduplicateRollouts, NEW k \in Keys,
                      NEW r \in applied'[k], NEW s \in applied'[k],
                      \E g \in r.about, h \in s.about : rows[g].example = rows[h].example
               PROVE  r = s
    BY <1>1 DEF OncePerExample
  <2>1. PICK c \in 1..m : r = Prompt("curator", {incorrect[js[c]]}, k)
    BY <1>11
  <2>2. PICK d \in 1..m : s = Prompt("curator", {incorrect[js[d]]}, k)
    BY <1>11
  <2>3. rows[incorrect[js[c]]].example = rows[incorrect[js[d]]].example
    BY <2>1, <2>2 DEF Prompt
  <2>4. js[c] = js[d]
    BY <1>3, <1>7, <2>3, KeptOnce
  <2> QED BY <2>1, <2>2, <2>4
<1> QED BY <1>13, <1>14

\* The tags of a success reflection go to the key of its row.
LEMMA SuccessOwn ==
    ASSUME TypeOK, ListsInv, TagCorrectRows
    PROVE  OwnReplies' /\ OncePerExample'
<1>1. pc = "tag_correct" /\ rows' = rows
  BY DEF TagCorrectRows
<1>2. rows \in RowBatches /\ correct \in Listings(RowsWith(rows, TRUE))
  BY <1>1 DEF ListsInv
<1>3. PICK n \in Nat : n <= Samples /\ DOMAIN correct = 1..n
  BY <1>2, ListedRows
<1>4. PICK js \in Listings(Deduplicated(correct)) :
        \A k \in Keys : \A r \in applied'[k] : \E j \in DOMAIN js :
            /\ r = Prompt("success", {correct[js[j]]}, k)
            /\ Key(correct[js[j]]) = k
  BY TagsCorrectRows
<1>5. \A c \in DOMAIN js : js[c] \in Deduplicated(correct) /\ js[c] \in 1..n
  BY <1>3, KeptPositions
<1>6. \A c \in DOMAIN js : correct[js[c]] \in DOMAIN rows
  <2>1. \A j \in DOMAIN correct : correct[j] \in DOMAIN rows
    BY <1>2, ListedRows
  <2> QED BY <1>3, <1>5, <2>1
<1>7. OwnReplies'
  <2> SUFFICES ASSUME NEW k \in Keys, NEW r \in applied'[k]
               PROVE  r.book = k /\ \E i \in DOMAIN rows : r.about = {i} /\ Key(i) = k
    BY <1>1 DEF OwnReplies, Key
  <2> QED BY <1>4, <1>6 DEF Prompt
<1>8. OncePerExample'
  <2> SUFFICES ASSUME DeduplicateRollouts, NEW k \in Keys,
                      NEW r \in applied'[k], NEW s \in applied'[k],
                      \E g \in r.about, h \in s.about : rows[g].example = rows[h].example
               PROVE  r = s
    BY <1>1 DEF OncePerExample
  <2>1. PICK c \in DOMAIN js : r = Prompt("success", {correct[js[c]]}, k)
    BY <1>4
  <2>2. PICK d \in DOMAIN js : s = Prompt("success", {correct[js[d]]}, k)
    BY <1>4
  <2>3. rows[correct[js[c]]].example = rows[correct[js[d]]].example
    BY <2>1, <2>2 DEF Prompt
  <2>4. js[c] = js[d]
    BY <1>3, <1>5, <2>3, KeptOnce
  <2> QED BY <2>1, <2>2, <2>4
<1> QED BY <1>7, <1>8

\* The tags of a reflection go to the key of its row.
LEMMA ReflectionsOwn ==
    ASSUME TypeOK, ListsInv, ReflectRows
    PROVE  OwnReplies' /\ OncePerExample'
<1>1. pc = "reflect" /\ rows' = rows
  BY DEF ReflectRows
<1>2. rows \in RowBatches /\ incorrect \in Listings(RowsWith(rows, FALSE))
  BY <1>1 DEF ListsInv
<1>3. \A k \in Keys : \A r \in applied'[k] : \E j \in DOMAIN incorrect :
        r = Prompt("reflector", {incorrect[j]}, IncKeys[j]) /\ IncKeys[j] = k
  BY ReflectsRows
<1>4. \A j \in DOMAIN incorrect : incorrect[j] \in DOMAIN rows
  BY <1>2, ListedRows
<1>5. OwnReplies'
  <2> SUFFICES ASSUME NEW k \in Keys, NEW r \in applied'[k]
               PROVE  r.book = k /\ \E i \in DOMAIN rows : r.about = {i} /\ Key(i) = k
    BY <1>1 DEF OwnReplies, Key
  <2>1. PICK j \in DOMAIN incorrect :
          r = Prompt("reflector", {incorrect[j]}, IncKeys[j]) /\ IncKeys[j] = k
    BY <1>3
  <2> QED BY <1>4, <2>1 DEF Prompt, IncKeys
<1>6. OncePerExample'
  BY <1>3 DEF OncePerExample, Prompt
<1> QED BY <1>5, <1>6

\* Every incorrect row gets its own reflection back, the others none.
LEMMA ReflectionsBack ==
    ASSUME ListsInv, FinishRows
    PROVE  ReflectionsReturned'
<1>1. /\ pc = "count" /\ rows' = rows
      /\ returned' = [i \in DOMAIN rows |->
            UNION {reflections[j].about :
                      j \in {h \in DOMAIN incorrect : incorrect[h] = i}}]
  BY DEF FinishRows, FinishUpdate
<1>2. rows \in RowBatches /\ incorrect \in Listings(RowsWith(rows, FALSE))
  BY <1>1 DEF ListsInv
<1>3. \A j \in DOMAIN incorrect : reflections[j].about = {incorrect[j]}
  BY <1>1 DEF ListsInv, Prompt
<1>4. ASSUME NEW i \in DOMAIN rows
      PROVE  returned'[i] = IF rows[i].right THEN {} ELSE {i}
  <2>1. \A j \in {h \in DOMAIN incorrect : incorrect[h] = i} : reflections[j].about = {i}
    BY <1>3
  <2>2. CASE rows[i].right
    <3>1. {h \in DOMAIN incorrect : incorrect[h] = i} = {}
      BY <1>2, <2>2, ListedRows
    <3> QED BY <1>1, <2>2, <3>1
  <2>3. CASE ~rows[i].right
    <3>1. rows[i].right = FALSE
      <4>1. PICK n \in 1..Samples : rows \in [1..n -> [example: Examples, right: BOOLEAN]]
        BY <1>2 DEF RowBatches
      <4> QED BY <2>3, <4>1
    <3>2. i \in RowsWith(rows, FALSE)
      BY <3>1 DEF RowsWith
    <3>3. IsFiniteSet(RowsWith(rows, FALSE)) /\ RowsWith(rows, FALSE) \subseteq Nat
      BY <1>2, BatchRows
    <3>4. PICK j \in DOMAIN incorrect : incorrect[j] = i
      BY <1>2, <3>2, <3>3, ListingOnto
    <3>5. returned'[i] = {i}
      BY <1>1, <2>1, <3>4
    <3> QED BY <2>3, <3>5
  <2> QED BY <2>2, <2>3
<1> QED BY <1>1, <1>4 DEF ReflectionsReturned

LEMMA LessonsStep ==
    ASSUME TypeOK, ListsInv, LessonsOwn, [RowsNext]_<<vars, rowVars>>
    PROVE  LessonsOwn'
<1>1. ASSUME NEW b \in RowBatches, BeginRows(b) PROVE LessonsOwn'
  <2>1. applied' = NoReplies /\ pc' # "sync"
    BY <1>1 DEF BeginRows, BeginUpdate, ListsInv
  <2> QED BY <2>1, NothingApplied DEF LessonsOwn, ReflectionsReturned
<1>2. CASE ReflectRows
  <2>1. pc' # "sync"
    BY <1>2 DEF ReflectRows
  <2> QED BY <1>2, <2>1, ReflectionsOwn DEF LessonsOwn, ReflectionsReturned
<1>3. CASE TagCorrectRows
  <2>1. pc' # "sync"
    BY <1>3 DEF TagCorrectRows, AfterTagging
  <2> QED BY <1>3, <2>1, SuccessOwn DEF LessonsOwn, ReflectionsReturned
<1>4. CASE CurateRows
  <2>1. pc' # "sync"
    BY <1>4 DEF CurateRows, Curate
  <2> QED BY <1>4, <2>1, CuratesRows DEF LessonsOwn, ReflectionsReturned
<1>5. CASE SkipTaggingRows \/ TrimRows \/ SyncRows
  <2>1. applied' = NoReplies /\ pc' # "sync"
    BY <1>5 DEF SkipTaggingRows, SkipTagging, AfterTagging, TrimRows, Trim, SyncRows,
                SyncStudent, RowsKept
  <2> QED BY <2>1, NothingApplied DEF LessonsOwn, ReflectionsReturned
<1>6. CASE FinishRows
  <2>1. applied' = NoReplies
    BY <1>6 DEF FinishRows
  <2> QED BY <1>6, <2>1, NothingApplied, ReflectionsBack DEF LessonsOwn
<1>7. CASE UNCHANGED <<vars, rowVars>>
  BY <1>7 DEF vars, rowVars, LessonsOwn, OwnReplies, OncePerExample, ReflectionsReturned, Key
<1> QED BY <1>1, <1>2, <1>3, <1>4, <1>5, <1>6, <1>7 DEF RowsNext

LEMMA RowsHold == RowsSpec => [](TypeOK /\ ListsInv /\ LessonsOwn)
<1>1. RowsInit => TypeOK /\ ListsInv /\ LessonsOwn
  <2>1. RowsInit => LessonsOwn
    BY DEF RowsInit, Init, NoReplies, LessonsOwn, OwnReplies, OncePerExample,
           ReflectionsReturned
  <2>2. RowsInit => Init
    BY DEF RowsInit
  <2> QED BY <2>1, <2>2, TypeInit, ListsInit
<1>2. TypeOK /\ ListsInv /\ LessonsOwn /\ [RowsNext]_<<vars, rowVars>>
        => TypeOK' /\ ListsInv' /\ LessonsOwn'
  BY RowStep, TypeStep, ListsStep, LessonsStep
<1> QED BY <1>1, <1>2, PTL DEF RowsSpec

\* What an update puts into the playbook of a key, and returns for a row, is
\* about rows of that key and about that row: for any batch, any examples that
\* share playbooks or not, and any number of agent workers.
THEOREM RepliesAreOwn == RowsSpec => []LessonsOwn
BY RowsHold, PTL

\* The lists do to the playbooks what the phases of Playbook do to them.
THEOREM RowsImplement == RowsSpec => Spec
<1>1. RowsInit => Init
  BY DEF RowsInit
<1>2. TypeOK /\ ListsInv /\ [RowsNext]_<<vars, rowVars>> => [Next]_vars
  BY RowStep
<1> QED BY <1>1, <1>2, RowsHold, PTL DEF RowsSpec, Spec

=============================================================================
