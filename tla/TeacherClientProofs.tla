------------------------- MODULE TeacherClientProofs -------------------------
(***************************************************************************)
(* What holds of TeacherClient for any number of threads, workers, batches *)
(* and samples, when a request holds one future, as the trainer's do.      *)
(***************************************************************************)
EXTENDS TeacherClient, FiniteSetTheorems, TLAPS

Answers == [ok: BOOLEAN, samples: Seq(Samples)]

\* TypeOK with the domains it leaves open.
Typed ==
    /\ round \in 0..MaxRounds /\ crashes \in 0..MaxCrashes
    /\ futures \in Seq(Futures)
    /\ cursor \in 0..Len(futures)
    /\ feedback \in Seq(Samples \cup {NoFeedback})
    /\ queue \in Seq(DOMAIN futures)
    /\ mutex \in Threads \cup {Nobody}
    /\ sock \in [Threads -> {"send", "recv"}]
    /\ requests \in SUBSET Requests
    /\ serving \in [Servers -> SUBSET Requests]
    /\ inbox \in [Threads -> SUBSET Answers]

\* A thread holds one future from Collect to Finish, and none otherwise.
Hands ==
    /\ pc \in [Threads -> {"lock", "collect", "send", "recv"}]
    /\ held \in [Threads -> {<< >>} \cup {<<f>> : f \in DOMAIN futures}]
    /\ \A t \in Threads : held[t] = << >> <=> pc[t] \in {"lock", "collect"}

\* Where a future that is not resolved is.
Placed ==
    /\ \A i, j \in 1..Len(queue) : queue[i] = queue[j] => i = j
    /\ \A t \in Threads : \A i \in 1..Len(queue) : held[t] # <<queue[i]>>
    /\ \A t, u \in Threads : held[t] = held[u] /\ held[t] # << >> => t = u
    /\ \A f \in DOMAIN futures :
          futures[f].state = "pending" <=>
             \/ \E i \in 1..Len(queue) : queue[i] = f
             \/ \E t \in Threads : held[t] = <<f>>

\* What the trainer has resolved, is; between batches that is everything.
Resolved ==
    \A f \in DOMAIN futures : cursor = 0 \/ f < cursor => futures[f].state # "pending"

\* A message of a thread: a request that is underway or being served.
Message(q) == q \in requests \/ \E w \in Servers : q \in serving[w]

\* A thread has one message or answer at most, in one place, and only while its
\* socket waits for it.
Single ==
    /\ \A q \in Requests : Message(q) => sock[q.thread] = "recv" /\ inbox[q.thread] = {}
    /\ \A q, r \in Requests :
          Message(q) /\ Message(r) /\ q.thread = r.thread => q = r
    /\ \A w \in Servers : \A q \in serving[w] : q \notin requests
    /\ \A v, w \in Servers : \A q \in serving[v] : q \in serving[w] => v = w
    /\ \A w \in Servers : \A q, r \in serving[w] : q = r
    /\ \A t \in Threads : inbox[t] # {} => sock[t] = "recv"
    /\ \A t \in Threads : \A a, b \in inbox[t] : a = b

\* While the thread waits too, they are about the future it holds.
Matching ==
    \A t \in Threads : pc[t] = "recv" =>
        /\ sock[t] = "recv"
        /\ \A f \in DOMAIN futures : held[t] = <<f>> =>
              /\ \A q \in Requests :
                    Message(q) /\ q.thread = t => q.samples = futures[f].asked
              /\ \A a \in inbox[t] : a.samples = futures[f].asked

\* A future asks for consecutive samples of this batch, and is answered for all
\* of them or for none.
Own ==
    /\ \A f \in DOMAIN futures :
          /\ futures[f].asked # << >>
          /\ \E s \in Nat : \A i \in 1..Len(futures[f].asked) :
                futures[f].asked[i] = <<round, s + i>>
          /\ futures[f].answer \in {<< >>, futures[f].asked}
    /\ FeedbackOwn

Inv == Typed /\ Hands /\ Placed /\ Resolved /\ Single /\ Matching /\ Own

-----------------------------------------------------------------------------
LEMMA Flat == ASSUME NEW x PROVE FlattenSeq(<<x>>) = x
<1> DEFINE s == <<x>>
           Q(g) == g = [i \in 1..Len(s) |-> IF i = 1 THEN s[i] ELSE g[i-1] \o s[i]]
           g0 == [i \in {1} |-> x]
<1>1. Len(s) = 1 /\ 1..Len(s) = {1} /\ s[1] = x
  OBVIOUS
<1>2. Q(g0)
  BY <1>1
<1>3. Q(CHOOSE g : Q(g))
  BY <1>2
<1>4. (CHOOSE g : Q(g))[1] = x
  BY <1>1, <1>3
<1> QED BY <1>1, <1>4 DEF FlattenSeq

LEMMA Cut ==
    ASSUME NEW n \in Nat \ {0}, NEW m \in Nat \ {0}
    PROVE  LET p == (n + m - 1) \div m IN p \in Nat \ {0} /\ n - (p - 1) * m >= 1
<1> DEFINE a == n + m - 1
           p == a \div m
           r == a % m
<1>1. a \in Nat /\ a >= m
  OBVIOUS
<1>2. a = p * m + r /\ r \in 0..(m-1) /\ p \in Int
  BY <1>1
<1> HIDE DEF p, r
<1>3. (p - 1) * m = p * m - m
  BY <1>2
<1>4. n - (p - 1) * m >= 1
  BY <1>2, <1>3
<1>5. p >= 1
  <2>1. SUFFICES ASSUME p <= 0 PROVE FALSE
    BY <1>2
  <2>2. p * m <= 0
    BY <1>2, <2>1
  <2> QED BY <1>1, <1>2, <2>2
<1> QED BY <1>2, <1>4, <1>5 DEF p

LEMMA PiecesOf ==
    ASSUME NEW n \in SampleCounts
    PROVE  /\ n \in Nat \ {0} /\ Mbs(n) \in Nat \ {0} /\ Pieces(n) \in Nat \ {0}
           /\ n - (Pieces(n) - 1) * Mbs(n) >= 1
<1>1. n \in Nat \ {0}
  BY GroupsAssumption
<1>2. Cardinality(Threads) \in Nat \ {0}
  BY ThreadsAssumption, FS_CardinalityType, FS_EmptySet
<1>3. Mbs(n) \in Nat \ {0}
  BY <1>1, <1>2 DEF Mbs
<1> HIDE DEF Mbs
<1> QED BY <1>1, <1>3, Cut DEF Pieces
-----------------------------------------------------------------------------
(* Operators *)

\* One future in a group: the group's samples are its own.
LEMMA BatchOfOne ==
    ASSUME NEW f
    PROVE  Batch(<<f>>) = futures[f].asked
<1>1. [i \in 1..Len(<<f>>) |-> futures[<<f>>[i]].asked] = <<futures[f].asked>>
  OBVIOUS
<1> QED BY <1>1, Flat DEF Batch

LEMMA SliceOfOne ==
    ASSUME NumMicrobatches = 1, NEW S, NEW samples \in Seq(S)
    PROVE  Slices(samples)[1] = samples /\ Len(samples) % NumMicrobatches = 0
<1>1. Len(samples) \in Nat /\ Len(samples) \div 1 = Len(samples) /\ Len(samples) % 1 = 0
  OBVIOUS
<1>2. Slices(samples)[1] = SubSeq(samples, 1, Len(samples))
  BY <1>1 DEF Slices
<1>3. SubSeq(samples, 1, Len(samples)) = samples
  OBVIOUS
<1> QED BY <1>1, <1>2, <1>3

-----------------------------------------------------------------------------
(* The trainer *)

LEMMA SingleKept ==
    ASSUME Inv, UNCHANGED <<sock, requests, serving, inbox>>
    PROVE  Single'
BY DEF Inv, Single, Message, Requests, Samples

\* No new message, and nobody starts to wait.
LEMMA MatchingKept ==
    ASSUME Inv, DOMAIN futures' = DOMAIN futures,
           \A f \in DOMAIN futures : futures'[f].asked = futures[f].asked,
           \A q \in Requests : Message(q)' => Message(q),
           \A t \in Threads : pc'[t] = "recv" =>
              /\ pc[t] = "recv" /\ held'[t] = held[t]
              /\ sock'[t] = sock[t] /\ inbox'[t] \subseteq inbox[t]
    PROVE  Matching'
<1>1. Requests' = Requests
  BY DEF Requests, Samples
<1>2. Matching
  BY DEF Inv
<1> QED BY <1>1, <1>2 DEF Matching

LEMMA InitInv == ASSUME Init PROVE Inv
<1>1. /\ futures \in Seq(Futures) /\ feedback \in Seq(Samples \cup {NoFeedback})
      /\ queue \in Seq(DOMAIN futures) /\ Len(futures) = 0 /\ DOMAIN futures = {}
      /\ Len(queue) = 0 /\ DOMAIN feedback = {}
  BY DEF Init
<1>2. Typed
  BY <1>1, BoundAssumption DEF Init, Typed
<1>3. Hands
  BY DEF Init, Hands
<1>4. Placed
  BY <1>1 DEF Init, Placed
<1>5. Resolved
  BY <1>1 DEF Resolved
<1>6. Single /\ Matching
  BY DEF Init, Single, Matching, Message
<1>7. Own
  BY <1>1 DEF Own, FeedbackOwn
<1> QED BY <1>2, <1>3, <1>4, <1>5, <1>6, <1>7 DEF Inv

\* Between batches nobody has a future: all of them are resolved.
LEMMA NoneLeft ==
    ASSUME Inv, cursor = 0
    PROVE  /\ queue = << >> /\ \A t \in Threads : held[t] = << >>
<1>1. \A f \in DOMAIN futures : futures[f].state # "pending"
  BY DEF Inv, Resolved
<1>2. \A t \in Threads : held[t] = << >>
  BY <1>1 DEF Inv, Hands, Placed
<1>3. queue \in Seq(DOMAIN futures)
  BY DEF Inv, Typed
<1>4. queue = << >>
  <2>1. SUFFICES ASSUME queue # << >> PROVE FALSE
    OBVIOUS
  <2>2. 1 \in 1..Len(queue) /\ queue[1] \in DOMAIN futures
    BY <1>3, <2>1
  <2> QED BY <1>1, <2>2 DEF Inv, Placed
<1> QED BY <1>2, <1>4

LEMMA SubmitInv == ASSUME Inv, NEW n \in SampleCounts, Submit(n) PROVE Inv'
<1> DEFINE size(c) == IF c = Pieces(n) THEN n - (c - 1) * Mbs(n) ELSE Mbs(n)
           asked(c) == [i \in 1..size(c) |-> <<round + 1, (c - 1) * Mbs(n) + i>>]
<1>1. /\ n \in Nat \ {0} /\ Mbs(n) \in Nat \ {0} /\ Pieces(n) \in Nat \ {0}
      /\ n - (Pieces(n) - 1) * Mbs(n) >= 1
  BY PiecesOf
<1>2. /\ cursor = 0 /\ queue = << >> /\ \A t \in Threads : held[t] = << >>
      /\ round \in Nat /\ round' = round + 1 /\ round' \in 1..MaxRounds
      /\ cursor' = 1
      /\ feedback' = [i \in 1..n |-> NoFeedback]
      /\ UNCHANGED <<mutex, pc, held, sock, requests, serving, inbox, crashes>>
  BY NoneLeft, BoundAssumption DEF Submit, server, Inv, Typed
<1>3. queue' = [c \in 1..Pieces(n) |-> c]
  BY <1>1, <1>2 DEF Submit
<1>4. futures' = [c \in 1..Pieces(n) |->
                    [asked |-> asked(c), state |-> "pending", answer |-> << >>]]
  BY <1>2 DEF Submit
<1>5. \A c \in 1..Pieces(n) : (c - 1) * Mbs(n) \in Nat /\ size(c) \in Nat \ {0}
  <2>1. ASSUME NEW c \in 1..Pieces(n) PROVE (c - 1) * Mbs(n) \in Nat
    BY <1>1
  <2> QED BY <1>1, <2>1
<1>6. \A c \in 1..Pieces(n) :
        /\ asked(c) \in Seq(Samples') /\ asked(c) # << >> /\ Len(asked(c)) = size(c)
        /\ \A i \in 1..size(c) : asked(c)[i] = <<round', (c - 1) * Mbs(n) + i>>
  <2> SUFFICES ASSUME NEW c \in 1..Pieces(n)
               PROVE  /\ asked(c) \in Seq(Samples') /\ asked(c) # << >>
                      /\ Len(asked(c)) = size(c)
                      /\ \A i \in 1..size(c) :
                            asked(c)[i] = <<round', (c - 1) * Mbs(n) + i>>
    OBVIOUS
  <2>1. \A i \in 1..size(c) : <<round + 1, (c - 1) * Mbs(n) + i>> \in Samples'
    BY <1>2, <1>5 DEF Samples
  <2> HIDE DEF size
  <2> QED BY <1>2, <1>5, <2>1
<1> HIDE DEF asked, size
<1>7. /\ futures' \in Seq(Futures') /\ Len(futures') = Pieces(n)
      /\ DOMAIN futures' = 1..Pieces(n)
  <2>1. \A c \in 1..Pieces(n) :
          [asked |-> asked(c), state |-> "pending", answer |-> << >>] \in Futures'
    BY <1>6 DEF Futures
  <2> QED BY <1>1, <1>4, <2>1
<1>8. /\ queue' \in Seq(DOMAIN futures') /\ Len(queue') = Pieces(n)
  BY <1>1, <1>3, <1>7
<1>9. Typed'
  <2>1. feedback' \in Seq(Samples' \cup {NoFeedback'})
    BY <1>1, <1>2 DEF NoFeedback
  <2>2. cursor' \in 0..Len(futures')
    BY <1>1, <1>2, <1>7
  <2>3. Requests' = Requests /\ Answers' = Answers
    BY DEF Requests, Answers, Samples
  <2>4. /\ mutex' \in Threads \cup {Nobody} /\ crashes' \in 0..MaxCrashes
        /\ sock' \in [Threads -> {"send", "recv"}] /\ requests' \in SUBSET Requests
        /\ serving' \in [Servers -> SUBSET Requests]
        /\ inbox' \in [Threads -> SUBSET Answers] /\ round' \in 0..MaxRounds
    BY <1>2 DEF Inv, Typed
  <2> QED BY <1>7, <1>8, <2>1, <2>2, <2>3, <2>4 DEF Typed
<1>10. Hands'
  BY <1>2 DEF Inv, Hands
<1>11. Placed'
  <2>1. \A i \in 1..Pieces(n) : queue'[i] = i
    BY <1>3
  <2>2. \A f \in 1..Pieces(n) : futures'[f].state = "pending"
    BY <1>4
  <2>3. \A t \in Threads : held'[t] = << >>
    BY <1>2
  <2>4. /\ \A i, j \in 1..Len(queue') : queue'[i] = queue'[j] => i = j
        /\ \A f \in DOMAIN futures' : \E i \in 1..Len(queue') : queue'[i] = f
    BY <1>7, <1>8, <2>1
  <2>5. \A t \in Threads : \A i \in 1..Len(queue') : held'[t] # <<queue'[i]>>
    BY <2>3
  <2> QED BY <1>7, <2>2, <2>3, <2>4, <2>5 DEF Placed
<1>12. Resolved'
  BY <1>1, <1>2, <1>7 DEF Resolved
<1>13. Single' /\ Matching'
  <2>1. \A t \in Threads : pc'[t] # "recv"
    BY <1>2 DEF Inv, Hands
  <2>2. Matching'
    BY <2>1 DEF Matching
  <2> QED BY <1>2, <2>2, SingleKept
<1>14. Own'
  <2>1. \A f \in 1..Pieces(n) : futures'[f].asked = asked(f) /\ futures'[f].answer = << >>
    BY <1>4
  <2>2. FeedbackOwn'
    BY <1>1, <1>2 DEF FeedbackOwn, NoFeedback
  <2>3. ASSUME NEW f \in DOMAIN futures'
        PROVE  /\ futures'[f].asked # << >>
               /\ \E s \in Nat : \A i \in 1..Len(futures'[f].asked) :
                     futures'[f].asked[i] = <<round', s + i>>
               /\ futures'[f].answer \in {<< >>, futures'[f].asked}
    <3>1. f \in 1..Pieces(n) /\ (f - 1) * Mbs(n) \in Nat
      BY <1>5, <1>7
    <3> QED BY <1>6, <2>1, <3>1
  <2> QED BY <2>2, <2>3 DEF Own
<1> QED BY <1>9, <1>10, <1>11, <1>12, <1>13, <1>14 DEF Inv

\* The answer of a future goes to the samples it asked for.
LEMMA ResolveInv == ASSUME Inv, Resolve PROVE Inv'
<1>1. /\ cursor \in 1..Len(futures) /\ cursor \in DOMAIN futures
      /\ futures \in Seq(Futures) /\ Len(futures) \in Nat
      /\ futures[cursor] \in Futures
      /\ UNCHANGED <<round, futures, queue, mutex, pc, held, sock, requests, serving,
                     inbox, crashes>>
  BY DEF Resolve, Inv, Typed, client, server
<1> DEFINE start == futures[cursor].asked[1][2]
           answer == futures[cursor].answer
<1>2. feedback' = [i \in DOMAIN feedback |->
                      IF i \in start..(start + Len(answer) - 1)
                      THEN answer[i - start + 1] ELSE feedback[i]]
  BY DEF Resolve
<1>3. /\ answer \in Seq(Samples) /\ Len(answer) \in Nat
      /\ start \in Nat \ {0}
      /\ \A k \in 1..Len(answer) : answer[k] = <<round, start + k - 1>>
  <2>1. futures[cursor].asked \in Seq(Samples) /\ answer \in Seq(Samples)
    BY <1>1 DEF Futures
  <2>2. 1 \in 1..Len(futures[cursor].asked) /\ Len(answer) \in Nat
    BY <1>1, <2>1 DEF Inv, Own
  <2>3. PICK s \in Nat : \A i \in 1..Len(futures[cursor].asked) :
           futures[cursor].asked[i] = <<round, s + i>>
    BY <1>1 DEF Inv, Own
  <2>4. start = s + 1
    BY <2>2, <2>3
  <2>5. answer \in {<< >>, futures[cursor].asked}
    BY <1>1 DEF Inv, Own
  <2>6. \A k \in 1..Len(answer) : answer[k] = <<round, start + k - 1>>
    <3> SUFFICES ASSUME NEW k \in 1..Len(answer)
                 PROVE  answer[k] = <<round, start + k - 1>>
      OBVIOUS
    <3>1. answer = futures[cursor].asked
      BY <2>5
    <3>2. start + k - 1 = s + k
      BY <2>4
    <3> HIDE DEF start, answer
    <3> QED BY <2>3, <3>1, <3>2
  <2> HIDE DEF start, answer
  <2> QED BY <2>1, <2>2, <2>4, <2>6
<1> HIDE DEF start, answer
<1>4. ASSUME NEW i \in DOMAIN feedback
      PROVE  feedback'[i] \in Samples \cup {NoFeedback}
             /\ feedback'[i] \in {NoFeedback, <<round, i>>}
  <2>1. CASE i \in start..(start + Len(answer) - 1)
    <3>1. /\ i - start + 1 \in 1..Len(answer) /\ start + (i - start + 1) - 1 = i
      BY <1>3, <2>1
    <3>2. feedback'[i] = answer[i - start + 1]
      BY <1>2, <2>1
    <3>3. feedback'[i] = <<round, i>>
      BY <1>3, <3>1, <3>2
    <3>4. answer[i - start + 1] \in Samples
      BY <1>3, <3>1
    <3> QED BY <3>2, <3>3, <3>4
  <2>2. CASE i \notin start..(start + Len(answer) - 1)
    <3>1. feedback'[i] = feedback[i]
      BY <1>2, <2>2
    <3> QED BY <3>1 DEF Inv, Typed, Own, FeedbackOwn
  <2> QED BY <2>1, <2>2
<1>5. /\ feedback' \in Seq(Samples \cup {NoFeedback}) /\ FeedbackOwn'
  <2>1. feedback \in Seq(Samples \cup {NoFeedback}) /\ DOMAIN feedback = 1..Len(feedback)
        /\ Len(feedback) \in Nat
    BY DEF Inv, Typed
  <2>2. DOMAIN feedback' = DOMAIN feedback
    BY <1>2
  <2>3. feedback' \in [1..Len(feedback) -> Samples \cup {NoFeedback}]
    BY <1>2, <1>4, <2>1, <2>2
  <2>4. FeedbackOwn'
    BY <1>1, <1>4, <2>2 DEF FeedbackOwn, NoFeedback
  <2> QED BY <2>1, <2>3, <2>4
<1>6. /\ cursor' \in 0..Len(futures)
      /\ cursor' = 0 => cursor = Len(futures)
      /\ cursor' # 0 => cursor' = cursor + 1
      /\ futures[cursor].state # "pending"
  BY <1>1 DEF Resolve
<1>7. Typed'
  <2>1. Samples' = Samples /\ Futures' = Futures /\ Requests' = Requests
        /\ Answers' = Answers /\ NoFeedback' = NoFeedback
    BY DEF Samples, Futures, Requests, Answers, NoFeedback
  <2> QED BY <1>1, <1>5, <1>6, <2>1 DEF Inv, Typed
<1>8. Hands' /\ Placed'
  BY <1>1 DEF Inv, Hands, Placed
<1>9. Resolved'
  <2>1. \A f \in DOMAIN futures : f < cursor => futures[f].state # "pending"
    BY <1>1 DEF Inv, Resolved
  <2>2. \A f \in DOMAIN futures : f \in 1..Len(futures)
    BY <1>1
  <2>3. \A f \in DOMAIN futures : cursor' = 0 \/ f < cursor' => f < cursor \/ f = cursor
    BY <1>1, <1>6, <2>2
  <2> QED BY <1>1, <1>6, <2>1, <2>3 DEF Resolved
<1>10. Single' /\ Matching'
  BY <1>1, SingleKept, MatchingKept DEF Message
<1>11. Own'
  BY <1>1, <1>5 DEF Inv, Own
<1> QED BY <1>7, <1>8, <1>9, <1>10, <1>11 DEF Inv

-----------------------------------------------------------------------------
(* The threads *)

LEMMA LockInv == ASSUME Inv, NEW t \in Threads, Lock(t) PROVE Inv'
<1>1. /\ pc[t] = "lock" /\ pc' = [pc EXCEPT ![t] = "collect"] /\ mutex' = t
      /\ UNCHANGED <<round, cursor, feedback, futures, queue, held, sock, requests,
                     serving, crashes, inbox>>
  BY DEF Lock, trainer, server
<1>2. Typed'
  BY <1>1 DEF Inv, Typed, Samples, Futures, Requests, Answers, NoFeedback
<1>3. Hands'
  BY <1>1 DEF Inv, Hands
<1>4. Placed' /\ Resolved' /\ Own'
  BY <1>1 DEF Inv, Placed, Resolved, Own, FeedbackOwn, NoFeedback
<1>5. Single' /\ Matching'
  <2>1. \A u \in Threads : pc'[u] = "recv" => pc[u] = "recv"
    BY <1>1 DEF Inv, Hands
  <2> QED BY <1>1, <2>1, SingleKept, MatchingKept DEF Message
<1> QED BY <1>2, <1>3, <1>4, <1>5 DEF Inv

LEMMA CollectInv ==
    ASSUME NumMicrobatches = 1, Inv, NEW t \in Threads, Collect(t)
    PROVE  Inv'
<1>1. /\ pc[t] = "collect" /\ held[t] = << >> /\ queue # << >>
      /\ queue' = Tail(queue)
      /\ UNCHANGED <<round, cursor, feedback, futures, sock, requests, serving,
                     crashes, inbox>>
  BY DEF Collect, trainer, server, Inv, Hands
<1>2. /\ queue \in Seq(DOMAIN futures) /\ Len(queue) \in Nat \ {0}
      /\ Head(queue) \in DOMAIN futures /\ Head(queue) = queue[1] /\ 1 \in 1..Len(queue)
      /\ queue' \in Seq(DOMAIN futures) /\ Len(queue') = Len(queue) - 1
      /\ \A i \in 1..Len(queue') : queue'[i] = queue[i + 1] /\ i + 1 \in 1..Len(queue)
  <2>1. queue \in Seq(DOMAIN futures)
    BY DEF Inv, Typed
  <2> QED BY <1>1, <2>1
<1>3. held' = [held EXCEPT ![t] = <<Head(queue)>>]
  <2>1. Append(held[t], Head(queue)) = <<Head(queue)>>
    BY <1>1
  <2> QED BY <2>1 DEF Collect
<1>4. mutex' = Nobody /\ pc' = [pc EXCEPT ![t] = "send"]
  <2>1. held'[t] = <<Head(queue)>>
    BY <1>3 DEF Inv, Hands
  <2>2. Len(held'[t]) = 1
    BY <2>1
  <2> QED BY <2>2 DEF Collect
<1>5. Typed'
  BY <1>1, <1>2, <1>4 DEF Inv, Typed, Samples, Futures, Requests, Answers, NoFeedback
<1>6. Hands'
  <2>1. \A u \in Threads : /\ held'[u] = IF u = t THEN <<Head(queue)>> ELSE held[u]
                           /\ pc'[u] = IF u = t THEN "send" ELSE pc[u]
    BY <1>3, <1>4 DEF Inv, Hands
  <2>2. <<Head(queue)>> \in {<<f>> : f \in DOMAIN futures'} /\ <<Head(queue)>> # << >>
    BY <1>1, <1>2
  <2>3. /\ pc' \in [Threads -> {"lock", "collect", "send", "recv"}]
        /\ held' \in [Threads -> {<< >>} \cup {<<f>> : f \in DOMAIN futures'}]
    BY <1>1, <1>3, <1>4, <2>2 DEF Inv, Hands
  <2>4. \A u \in Threads : held'[u] = << >> <=> pc'[u] \in {"lock", "collect"}
    BY <2>1, <2>2 DEF Inv, Hands
  <2> QED BY <2>3, <2>4 DEF Hands
<1>7. Placed'
  <2>1. \A u \in Threads : held'[u] = IF u = t THEN <<Head(queue)>> ELSE held[u]
    BY <1>3 DEF Inv, Hands
  <2>2. \A i \in 1..Len(queue') : queue'[i] # Head(queue)
    BY <1>2 DEF Inv, Placed
  <2>3. \A i, j \in 1..Len(queue') : queue'[i] = queue'[j] => i = j
    BY <1>2 DEF Inv, Placed
  <2>4. \A u \in Threads : \A i \in 1..Len(queue') : held'[u] # <<queue'[i]>>
    BY <1>2, <2>1, <2>2 DEF Inv, Placed
  <2>5. \A u, v \in Threads : held'[u] = held'[v] /\ held'[u] # << >> => u = v
    BY <1>2, <2>1 DEF Inv, Placed
  <2>6. ASSUME NEW f \in DOMAIN futures
        PROVE  (\E i \in 1..Len(queue) : queue[i] = f) \/ (\E u \in Threads : held[u] = <<f>>)
               <=> (\E i \in 1..Len(queue') : queue'[i] = f)
                   \/ (\E u \in Threads : held'[u] = <<f>>)
    <3>1. \A i \in 1..Len(queue) : i = 1 \/ i - 1 \in 1..Len(queue')
      BY <1>2
    <3>2. \A i \in 1..Len(queue) : i = 1 \/ queue'[i - 1] = queue[i]
      BY <1>2, <3>1
    <3>3. <<f>> # << >>
      OBVIOUS
    <3>4. (\E u \in Threads : held'[u] = <<f>>) <=>
             f = Head(queue) \/ \E u \in Threads : held[u] = <<f>>
      <4>1. <<Head(queue)>> = <<f>> <=> f = Head(queue)
        OBVIOUS
      <4> QED BY <1>1, <2>1, <3>3, <4>1
    <3>5. (\E i \in 1..Len(queue) : queue[i] = f) <=>
             f = Head(queue) \/ \E i \in 1..Len(queue') : queue'[i] = f
      BY <1>2, <3>1, <3>2
    <3> QED BY <3>4, <3>5
  <2>7. \A f \in DOMAIN futures : futures[f].state = "pending" <=>
           (\E i \in 1..Len(queue) : queue[i] = f) \/ (\E u \in Threads : held[u] = <<f>>)
    BY DEF Inv, Placed
  <2> QED BY <1>1, <2>3, <2>4, <2>5, <2>6, <2>7 DEF Placed
<1>8. Resolved' /\ Own'
  BY <1>1 DEF Inv, Resolved, Own, FeedbackOwn, NoFeedback
<1>9. Single' /\ Matching'
  <2>1. \A u \in Threads : pc'[u] = "recv" => pc[u] = "recv" /\ held'[u] = held[u]
    BY <1>3, <1>4 DEF Inv, Hands
  <2> QED BY <1>1, <2>1, SingleKept, MatchingKept DEF Message
<1> QED BY <1>5, <1>6, <1>7, <1>8, <1>9 DEF Inv

\* A free socket has no message of its thread on the way.
LEMMA SendInv == ASSUME Inv, NEW t \in Threads, Send(t) PROVE Inv'
<1> DEFINE new == [thread |-> t, samples |-> Batch(held[t])]
<1>1. /\ pc[t] = "send" /\ sock[t] = "send"
      /\ requests' = requests \cup {new}
      /\ sock' = [sock EXCEPT ![t] = "recv"] /\ pc' = [pc EXCEPT ![t] = "recv"]
      /\ UNCHANGED <<round, cursor, feedback, futures, queue, mutex, held, serving,
                     crashes, inbox>>
  BY DEF Send, trainer
<1>2. PICK f \in DOMAIN futures : held[t] = <<f>>
  BY <1>1 DEF Inv, Hands
<1>3. Batch(held[t]) = futures[f].asked
  BY <1>2, BatchOfOne
<1>4. new \in Requests /\ new.thread = t /\ new.samples = futures[f].asked
  <2>1. futures[f] \in Futures
    BY <1>2 DEF Inv, Typed
  <2> QED BY <1>3, <2>1 DEF Futures, Requests
<1> HIDE DEF new
<1>5. \A q \in Requests : Message(q) => q.thread # t
  BY <1>1 DEF Inv, Single
<1>6. inbox[t] = {}
  BY <1>1 DEF Inv, Single
<1>7. \A q : Message(q)' <=> Message(q) \/ q = new
  BY <1>1 DEF Message
<1>8. \A u \in Threads : /\ sock'[u] = IF u = t THEN "recv" ELSE sock[u]
                         /\ pc'[u] = IF u = t THEN "recv" ELSE pc[u]
  BY <1>1 DEF Inv, Typed, Hands
<1>9. Requests' = Requests /\ Answers' = Answers
  BY DEF Requests, Answers, Samples
<1>10. Typed'
  BY <1>1, <1>4, <1>9 DEF Inv, Typed, Samples, Futures, NoFeedback
<1>11. Hands'
  BY <1>1 DEF Inv, Hands
<1>12. Placed' /\ Resolved' /\ Own'
  BY <1>1 DEF Inv, Placed, Resolved, Own, FeedbackOwn, NoFeedback
<1>13. Single'
  <2>1. \A q \in Requests : q.thread \in Threads
    BY DEF Requests
  <2>2. \A q \in Requests : Message(q)' => sock'[q.thread] = "recv" /\ inbox'[q.thread] = {}
    BY <1>1, <1>4, <1>6, <1>7, <1>8, <2>1 DEF Inv, Single
  <2>3. \A q, r \in Requests : Message(q)' /\ Message(r)' /\ q.thread = r.thread => q = r
    BY <1>4, <1>5, <1>7 DEF Inv, Single
  <2>4. \A w \in Servers : \A q \in serving'[w] : q \notin requests'
    <3>1. \A w \in Servers : \A q \in serving[w] : q \in Requests /\ Message(q)
      BY DEF Inv, Typed, Message
    <3> QED BY <1>1, <1>4, <1>5, <3>1 DEF Inv, Single
  <2>5. /\ \A v, w \in Servers : \A q \in serving'[v] : q \in serving'[w] => v = w
        /\ \A w \in Servers : \A q, r \in serving'[w] : q = r
        /\ \A u \in Threads : \A a, b \in inbox'[u] : a = b
        /\ \A u \in Threads : inbox'[u] # {} => sock'[u] = "recv"
    BY <1>1, <1>8 DEF Inv, Single
  <2> QED BY <1>9, <2>2, <2>3, <2>4, <2>5 DEF Single
<1>14. Matching'
  <2>1. ASSUME NEW u \in Threads, pc'[u] = "recv"
        PROVE  /\ sock'[u] = "recv"
               /\ \A g \in DOMAIN futures : held[u] = <<g>> =>
                    /\ \A q \in Requests : Message(q)' /\ q.thread = u =>
                          q.samples = futures[g].asked
                    /\ \A a \in inbox[u] : a.samples = futures[g].asked
    <3>1. CASE u = t
      BY <1>2, <1>4, <1>5, <1>6, <1>7, <1>8, <3>1
    <3>2. CASE u # t
      BY <1>4, <1>7, <1>8, <2>1, <3>2 DEF Inv, Matching
    <3> QED BY <3>1, <3>2
  <2> QED BY <1>1, <1>9, <2>1 DEF Matching
<1> QED BY <1>10, <1>11, <1>12, <1>13, <1>14 DEF Inv

\* What Finish does to the futures, to their place and to what they were asked.
LEMMA FinishInv ==
    ASSUME NumMicrobatches = 1, Inv, NEW t \in Threads, pc[t] \in {"send", "recv"},
           NEW state \in {"ok", "error"}, NEW answers,
           \A f \in DOMAIN futures : held[t] = <<f>> =>
              answers[1] \in {<< >>, futures[f].asked},
           Finish(t, state, answers),
           UNCHANGED <<round, cursor, feedback, queue, mutex, requests, serving, crashes>>
    PROVE  /\ futures' \in Seq(Futures) /\ Len(futures') = Len(futures)
           /\ DOMAIN futures' = DOMAIN futures
           /\ \A f \in DOMAIN futures : futures'[f].asked = futures[f].asked
           /\ \A u \in Threads : pc'[u] = "recv" => pc[u] = "recv" /\ held'[u] = held[u]
                                                    /\ u # t
           /\ Hands' /\ Placed' /\ Resolved' /\ Own'
<1>1. PICK f \in DOMAIN futures : held[t] = <<f>>
  BY DEF Inv, Hands
<1>2. answers[1] \in {<< >>, futures[f].asked}
  BY <1>1
<1>3. futures' = [g \in DOMAIN futures |->
                     IF g = f THEN [futures[g] EXCEPT !.state = state, !.answer = answers[1]]
                     ELSE futures[g]]
  <2>1. Len(held[t]) = 1 /\ held[t][1] = f /\ 1..Len(held[t]) = {1}
    BY <1>1
  <2> DEFINE new == [g \in DOMAIN futures |->
                        IF g = f
                        THEN [futures[g] EXCEPT !.state = state, !.answer = answers[1]]
                        ELSE futures[g]]
  <2>2. ASSUME NEW g \in DOMAIN futures
        PROVE  futures'[g] = new[g]
    <3>1. CASE g = f
      <4>1. (CHOOSE i \in 1..Len(held[t]) : held[t][i] = g) = 1
        BY <2>1, <3>1
      <4>2. \E i \in 1..Len(held[t]) : held[t][i] = g
        BY <2>1, <3>1
      <4>3. futures'[g] = [futures[g] EXCEPT !.state = state, !.answer = answers[1]]
        BY <4>1, <4>2 DEF Finish
      <4> QED BY <3>1, <4>3
    <3>2. CASE g # f
      <4>1. ~ \E i \in 1..Len(held[t]) : held[t][i] = g
        BY <2>1, <3>2
      <4> QED BY <3>2, <4>1 DEF Finish
    <3> QED BY <3>1, <3>2
  <2>3. futures' = [g \in DOMAIN futures |-> futures'[g]]
    BY DEF Finish
  <2> HIDE DEF new
  <2>4. futures' = [g \in DOMAIN futures |-> new[g]]
    BY <2>2, <2>3
  <2> QED BY <2>4 DEF new
<1>4. futures \in Seq(Futures) /\ Len(futures) \in Nat /\ DOMAIN futures = 1..Len(futures)
  BY DEF Inv, Typed
<1>5. ASSUME NEW g \in DOMAIN futures
      PROVE  /\ futures'[g] \in Futures /\ futures'[g].asked = futures[g].asked
             /\ g # f => futures'[g] = futures[g]
             /\ g = f => futures'[g].state = state /\ futures'[g].answer = answers[1]
  <2>1. futures[g] \in Futures
    BY <1>4
  <2>2. CASE g = f
    <3>1. futures[f].asked \in Seq(Samples) /\ << >> \in Seq(Samples)
      BY <2>1, <2>2 DEF Futures
    <3>2. answers[1] \in Seq(Samples)
      BY <1>2, <3>1
    <3>3. futures'[g] = [futures[g] EXCEPT !.state = state, !.answer = answers[1]]
      BY <1>3, <2>2
    <3> QED BY <2>1, <2>2, <3>2, <3>3 DEF Futures
  <2>3. CASE g # f
    BY <1>3, <2>1, <2>3
  <2> QED BY <2>2, <2>3
<1>6. /\ DOMAIN futures' = DOMAIN futures /\ futures' \in Seq(Futures)
      /\ Len(futures') = Len(futures)
  <2>1. DOMAIN futures' = 1..Len(futures)
    BY <1>3, <1>4
  <2>2. futures' \in [1..Len(futures) -> Futures]
    BY <1>3, <1>4, <1>5, <2>1
  <2> QED BY <1>4, <2>1, <2>2
<1>7. \A u \in Threads : /\ held'[u] = IF u = t THEN << >> ELSE held[u]
                         /\ pc'[u] = IF u = t THEN "lock" ELSE pc[u]
  BY DEF Finish, Inv, Hands
<1>8. Hands'
  <2>1. /\ pc' \in [Threads -> {"lock", "collect", "send", "recv"}]
        /\ held' \in [Threads -> {<< >>} \cup {<<g>> : g \in DOMAIN futures'}]
    BY <1>6 DEF Finish, Inv, Hands
  <2> QED BY <1>7, <2>1 DEF Inv, Hands
<1>9. Placed'
  <2>1. /\ \A i, j \in 1..Len(queue') : queue'[i] = queue'[j] => i = j
        /\ \A u \in Threads : \A i \in 1..Len(queue') : held'[u] # <<queue'[i]>>
        /\ \A u, v \in Threads : held'[u] = held'[v] /\ held'[u] # << >> => u = v
    BY <1>7 DEF Inv, Placed
  <2>2. ASSUME NEW g \in DOMAIN futures, g # f
        PROVE  futures'[g].state = "pending" <=>
                  \/ \E i \in 1..Len(queue') : queue'[i] = g
                  \/ \E u \in Threads : held'[u] = <<g>>
    <3>1. <<g>> # <<f>> /\ <<g>> # << >>
      BY <2>2
    <3>2. (\E u \in Threads : held'[u] = <<g>>) <=> (\E u \in Threads : held[u] = <<g>>)
      BY <1>1, <1>7, <3>1
    <3> QED BY <1>5, <2>2, <3>2 DEF Inv, Placed
  <2>3. /\ futures'[f].state # "pending"
        /\ \A i \in 1..Len(queue') : queue'[i] # f
        /\ \A u \in Threads : held'[u] # <<f>>
    <3>1. \A u \in Threads : held[u] = <<f>> => u = t
      BY <1>1 DEF Inv, Placed
    <3>2. <<f>> # << >>
      OBVIOUS
    <3>3. \A u \in Threads : held'[u] # <<f>>
      BY <1>7, <3>1, <3>2
    <3> QED BY <1>1, <1>5, <3>3 DEF Inv, Placed
  <2> QED BY <1>6, <2>1, <2>2, <2>3 DEF Placed
<1>10. Resolved'
  BY <1>5, <1>6 DEF Inv, Resolved
<1>11. Own'
  <2>1. ASSUME NEW g \in DOMAIN futures
        PROVE  /\ futures'[g].asked # << >>
               /\ \E s \in Nat : \A i \in 1..Len(futures'[g].asked) :
                     futures'[g].asked[i] = <<round', s + i>>
               /\ futures'[g].answer \in {<< >>, futures'[g].asked}
    <3>1. futures'[g].asked = futures[g].asked
      BY <1>5
    <3>2. futures'[g].answer \in {<< >>, futures[g].asked}
      BY <1>2, <1>5 DEF Inv, Own
    <3>3. /\ futures[g].asked # << >>
          /\ \E s \in Nat : \A i \in 1..Len(futures[g].asked) :
                futures[g].asked[i] = <<round, s + i>>
      BY DEF Inv, Own
    <3>4. round' = round
      OBVIOUS
    <3> QED BY <3>1, <3>2, <3>3, <3>4
  <2>2. FeedbackOwn'
    BY DEF Inv, Own, FeedbackOwn, NoFeedback
  <2>3. DOMAIN futures' = DOMAIN futures
    BY <1>6
  <2>4. \A g \in DOMAIN futures' :
           /\ futures'[g].asked # << >>
           /\ \E s \in Nat : \A i \in 1..Len(futures'[g].asked) :
                 futures'[g].asked[i] = <<round', s + i>>
           /\ futures'[g].answer \in {<< >>, futures'[g].asked}
    BY <2>1, <2>3
  <2> QED BY <2>2, <2>4 DEF Own
<1> QED BY <1>5, <1>6, <1>7, <1>8, <1>9, <1>10, <1>11

LEMMA TypedKept ==
    ASSUME Inv, futures' \in Seq(Futures), Len(futures') = Len(futures),
           DOMAIN futures' = DOMAIN futures,
           UNCHANGED <<round, cursor, feedback, queue, mutex, requests, serving, crashes>>,
           sock' \in [Threads -> {"send", "recv"}],
           inbox' \in [Threads -> SUBSET Answers]
    PROVE  Typed'
BY DEF Inv, Typed, Samples, Futures, Requests, Answers, NoFeedback

LEMMA FailInv ==
    ASSUME NumMicrobatches = 1, Inv, NEW t \in Threads, pc[t] \in {"send", "recv"},
           Fail(t),
           UNCHANGED <<round, cursor, feedback, queue, mutex, sock, requests, serving,
                       crashes, inbox>>
    PROVE  Inv'
<1> DEFINE answers == [i \in 1..NumMicrobatches |-> << >>]
<1>1. answers[1] = << >> /\ Finish(t, "error", answers)
  BY DEF Fail
<1> HIDE DEF answers
<1>2. /\ futures' \in Seq(Futures) /\ Len(futures') = Len(futures)
      /\ DOMAIN futures' = DOMAIN futures
      /\ \A f \in DOMAIN futures : futures'[f].asked = futures[f].asked
      /\ \A u \in Threads : pc'[u] = "recv" => pc[u] = "recv" /\ held'[u] = held[u]
      /\ Hands' /\ Placed' /\ Resolved' /\ Own'
  BY <1>1, FinishInv
<1>3. Typed'
  <2>1. sock' \in [Threads -> {"send", "recv"}] /\ inbox' \in [Threads -> SUBSET Answers]
    BY DEF Inv, Typed
  <2> QED BY <1>2, <2>1, TypedKept
<1>4. Single' /\ Matching'
  BY <1>2, SingleKept, MatchingKept DEF Message
<1> QED BY <1>2, <1>3, <1>4 DEF Inv

\* Only the answer to the thread's own request is left to be received.
LEMMA RecvInv ==
    ASSUME NumMicrobatches = 1, Inv, NEW t \in Threads, Recv(t)
    PROVE  Inv'
<1>1. PICK a \in inbox[t] :
        /\ IF a.ok /\ Len(a.samples) % NumMicrobatches = 0
           THEN Finish(t, "ok", Slices(a.samples)) ELSE Fail(t)
        /\ inbox' = [inbox EXCEPT ![t] = inbox[t] \ {a}]
  BY DEF Recv
<1>2. /\ pc[t] = "recv" /\ sock' = [sock EXCEPT ![t] = "send"]
      /\ UNCHANGED <<round, cursor, feedback, queue, mutex, requests, serving, crashes>>
  BY DEF Recv, trainer, server
<1>3. inbox[t] = {a} /\ inbox'[t] = {} /\ \A u \in Threads : u # t => inbox'[u] = inbox[u]
  BY <1>1 DEF Inv, Typed, Single
<1>4. a.samples \in Seq(Samples) /\ \A f \in DOMAIN futures :
         held[t] = <<f>> => a.samples = futures[f].asked
  <2>1. a \in Answers
    BY <1>1 DEF Inv, Typed
  <2> QED BY <1>1, <1>2, <2>1 DEF Inv, Matching, Answers
<1>5. \E state \in {"ok", "error"}, answers \in {Slices(a.samples), [i \in 1..1 |-> << >>]} :
        /\ Finish(t, state, answers)
        /\ answers[1] \in {<< >>, a.samples}
  <2>1. Slices(a.samples)[1] = a.samples
    BY <1>4, SliceOfOne
  <2>2. [i \in 1..1 |-> << >>][1] = << >>
    OBVIOUS
  <2> QED BY <1>1, <2>1, <2>2 DEF Fail
<1>6. /\ futures' \in Seq(Futures) /\ Len(futures') = Len(futures)
      /\ DOMAIN futures' = DOMAIN futures
      /\ \A f \in DOMAIN futures : futures'[f].asked = futures[f].asked
      /\ \A u \in Threads : pc'[u] = "recv" => pc[u] = "recv" /\ held'[u] = held[u]
                                               /\ u # t
      /\ Hands' /\ Placed' /\ Resolved' /\ Own'
  <2>1. PICK state \in {"ok", "error"},
             answers \in {Slices(a.samples), [i \in 1..1 |-> << >>]} :
               Finish(t, state, answers) /\ answers[1] \in {<< >>, a.samples}
    BY <1>5
  <2> QED BY <1>2, <1>4, <2>1, FinishInv
<1>7. Typed'
  <2>1. sock' \in [Threads -> {"send", "recv"}] /\ inbox' \in [Threads -> SUBSET Answers]
    BY <1>1, <1>2 DEF Inv, Typed
  <2> QED BY <1>2, <1>6, <2>1, TypedKept
<1>8. \A q \in Requests : Message(q) => q.thread # t
  BY <1>3 DEF Inv, Single
<1>9. \A u \in Threads : sock'[u] = IF u = t THEN "send" ELSE sock[u]
  BY <1>2 DEF Inv, Typed
<1>10. Single'
  <2>1. \A q \in Requests : q.thread \in Threads
    BY DEF Requests
  <2>2. \A q : Message(q)' <=> Message(q)
    BY <1>2 DEF Message
  <2>3. Requests' = Requests
    BY DEF Requests, Samples
  <2> QED BY <1>2, <1>3, <1>8, <1>9, <2>1, <2>2, <2>3 DEF Inv, Single
<1>11. Matching'
  <2>1. \A u \in Threads : pc'[u] = "recv" =>
           /\ pc[u] = "recv" /\ held'[u] = held[u]
           /\ sock'[u] = sock[u] /\ inbox'[u] \subseteq inbox[u]
    BY <1>3, <1>6, <1>9
  <2> QED BY <1>2, <1>6, <2>1, MatchingKept DEF Message
<1> QED BY <1>6, <1>7, <1>10, <1>11 DEF Inv

-----------------------------------------------------------------------------
(* The teacher server *)

\* What the server's steps leave alone.
LEMMA ServerKept ==
    ASSUME Inv, UNCHANGED <<trainer, futures, client>>
    PROVE  /\ Hands' /\ Placed' /\ Resolved' /\ Own'
           /\ Requests' = Requests /\ Answers' = Answers
           /\ sock' = sock /\ pc' = pc /\ held' = held /\ futures' = futures
           /\ (/\ crashes' \in 0..MaxCrashes /\ requests' \in SUBSET Requests
               /\ serving' \in [Servers -> SUBSET Requests]
               /\ inbox' \in [Threads -> SUBSET Answers]) => Typed'
<1>1. UNCHANGED <<round, cursor, feedback, futures, queue, mutex, pc, held, sock>>
  BY DEF trainer, client
<1>2. Hands' /\ Placed' /\ Resolved' /\ Own'
  <2>1. Hands'
    BY <1>1 DEF Inv, Hands
  <2>2. Placed'
    BY <1>1 DEF Inv, Placed
  <2>3. Resolved'
    BY <1>1 DEF Inv, Resolved
  <2>4. Own'
    BY <1>1 DEF Inv, Own, FeedbackOwn, NoFeedback
  <2> QED BY <2>1, <2>2, <2>3, <2>4
<1>3. Requests' = Requests /\ Answers' = Answers
  BY DEF Requests, Answers, Samples
<1>4. ASSUME crashes' \in 0..MaxCrashes, requests' \in SUBSET Requests,
             serving' \in [Servers -> SUBSET Requests],
             inbox' \in [Threads -> SUBSET Answers]
      PROVE  Typed'
  BY <1>1, <1>3, <1>4 DEF Inv, Typed, Samples, Futures, NoFeedback
<1> QED BY <1>1, <1>2, <1>3, <1>4

\* A request moves from the proxy to a worker that is free.
LEMMA ServeInv == ASSUME Inv, NEW w \in Servers, Serve(w) PROVE Inv'
<1>1. PICK q \in requests : /\ requests' = requests \ {q}
                            /\ serving' = [serving EXCEPT ![w] = {q}]
  BY DEF Serve
<1>2. /\ serving[w] = {} /\ UNCHANGED <<trainer, futures, client>>
      /\ crashes' = crashes /\ inbox' = inbox
  BY DEF Serve
<1>3. /\ Hands' /\ Placed' /\ Resolved' /\ Own' /\ Requests' = Requests
      /\ sock' = sock /\ pc' = pc /\ held' = held /\ futures' = futures
  BY <1>2, ServerKept
<1>4. \A v \in Servers : serving'[v] = IF v = w THEN {q} ELSE serving[v]
  BY <1>1 DEF Inv, Typed
<1>5. Typed'
  <2>1. requests' \in SUBSET Requests /\ serving' \in [Servers -> SUBSET Requests]
    BY <1>1 DEF Inv, Typed
  <2>2. crashes' \in 0..MaxCrashes /\ inbox' \in [Threads -> SUBSET Answers]
    BY <1>2 DEF Inv, Typed
  <2> QED BY <1>2, <2>1, <2>2, ServerKept
<1>6. \A r : Message(r)' <=> Message(r)
  BY <1>1, <1>2, <1>4 DEF Message
<1>7. Single'
  <2>1. /\ \A r \in Requests : Message(r)' => sock'[r.thread] = "recv" /\ inbox'[r.thread] = {}
        /\ \A r, s \in Requests : Message(r)' /\ Message(s)' /\ r.thread = s.thread => r = s
        /\ \A t \in Threads : inbox'[t] # {} => sock'[t] = "recv"
        /\ \A t \in Threads : \A a, b \in inbox'[t] : a = b
    BY <1>2, <1>3, <1>6 DEF Inv, Single
  <2>2. /\ \A v \in Servers : \A r \in serving'[v] : r \notin requests'
        /\ \A v \in Servers : \A r, s \in serving'[v] : r = s
        /\ \A u, v \in Servers : \A r \in serving'[u] : r \in serving'[v] => u = v
    BY <1>1, <1>4 DEF Inv, Single
  <2> QED BY <1>3, <2>1, <2>2 DEF Single
<1>8. Matching'
  BY <1>2, <1>3, <1>6, MatchingKept
<1> QED BY <1>3, <1>5, <1>7, <1>8 DEF Inv

\* The answer takes the place of the request it answers.
LEMMA AnswerInv == ASSUME Inv, NEW w \in Servers, Answer(w) PROVE Inv'
<1>1. PICK q \in serving[w], ok \in BOOLEAN :
        /\ inbox' = [inbox EXCEPT ![q.thread] =
                        @ \cup {[ok |-> ok, samples |-> q.samples]}]
        /\ serving' = [serving EXCEPT ![w] = {}]
        /\ UNCHANGED <<trainer, futures, client, requests, crashes>>
  BY DEF Answer
<1>2. /\ Hands' /\ Placed' /\ Resolved' /\ Own' /\ Requests' = Requests
      /\ sock' = sock /\ pc' = pc /\ held' = held /\ futures' = futures
  BY <1>1, ServerKept
<1> DEFINE answer == [ok |-> ok, samples |-> q.samples]
<1>3. /\ q \in Requests /\ Message(q) /\ q.thread \in Threads
      /\ answer \in Answers /\ answer.samples = q.samples
  <2>1. q \in Requests /\ Message(q)
    BY DEF Inv, Typed, Message
  <2>2. q.thread \in Threads /\ q.samples \in Seq(Samples)
    BY <2>1 DEF Requests
  <2> QED BY <2>1, <2>2 DEF Answers
<1> HIDE DEF answer
<1>4. sock[q.thread] = "recv" /\ inbox[q.thread] = {}
  BY <1>3 DEF Inv, Single
<1>5. /\ \A v \in Servers : serving'[v] = IF v = w THEN {} ELSE serving[v]
      /\ \A t \in Threads : inbox'[t] = IF t = q.thread THEN {answer} ELSE inbox[t]
  <2>1. inbox' = [inbox EXCEPT ![q.thread] = @ \cup {answer}]
    BY <1>1 DEF answer
  <2> QED BY <1>1, <1>3, <1>4, <2>1 DEF Inv, Typed
<1>6. Typed'
  <2>1. serving' \in [Servers -> SUBSET Requests] /\ requests' \in SUBSET Requests
        /\ crashes' \in 0..MaxCrashes
    BY <1>1 DEF Inv, Typed
  <2>2. inbox' \in [Threads -> SUBSET Answers]
    BY <1>1, <1>3, <1>5 DEF Inv, Typed
  <2> QED BY <1>1, <2>1, <2>2, ServerKept
<1>7. \A r \in Requests : Message(r)' => Message(r) /\ r.thread # q.thread
  <2>1. ASSUME NEW r \in Requests, Message(r)' PROVE Message(r) /\ r # q
    <3>1. q \notin requests /\ \A v \in Servers : q \in serving[v] => v = w
      BY DEF Inv, Single
    <3>2. CASE r \in requests
      BY <3>1, <3>2 DEF Message
    <3>3. CASE r \notin requests
      <4>1. PICK v \in Servers : r \in serving'[v]
        BY <1>1, <2>1, <3>3 DEF Message
      <4>2. v # w /\ r \in serving[v]
        BY <1>5, <4>1
      <4> QED BY <3>1, <4>2 DEF Message
    <3> QED BY <3>2, <3>3
  <2> QED BY <1>3, <2>1 DEF Inv, Single
<1>8. Single'
  <2>1. /\ \A r \in Requests : Message(r)' => sock'[r.thread] = "recv" /\ inbox'[r.thread] = {}
        /\ \A r, s \in Requests : Message(r)' /\ Message(s)' /\ r.thread = s.thread => r = s
    <3>1. \A r \in Requests : r.thread \in Threads
      BY DEF Requests
    <3> QED BY <1>2, <1>5, <1>7, <3>1 DEF Inv, Single
  <2>2. /\ \A t \in Threads : inbox'[t] # {} => sock'[t] = "recv"
        /\ \A t \in Threads : \A a, b \in inbox'[t] : a = b
    BY <1>2, <1>4, <1>5 DEF Inv, Single
  <2>3. /\ \A v \in Servers : \A r \in serving'[v] : r \notin requests'
        /\ \A v \in Servers : \A r, s \in serving'[v] : r = s
        /\ \A u, v \in Servers : \A r \in serving'[u] : r \in serving'[v] => u = v
    BY <1>1, <1>5 DEF Inv, Single
  <2> QED BY <1>2, <2>1, <2>2, <2>3 DEF Single
<1>9. Matching'
  <2>1. ASSUME NEW t \in Threads, pc[t] = "recv", NEW f \in DOMAIN futures,
               held[t] = <<f>>
        PROVE  /\ sock[t] = "recv"
               /\ \A r \in Requests : Message(r)' /\ r.thread = t =>
                     r.samples = futures[f].asked
               /\ \A a \in inbox'[t] : a.samples = futures[f].asked
    <3>1. /\ sock[t] = "recv"
          /\ \A r \in Requests : Message(r) /\ r.thread = t => r.samples = futures[f].asked
          /\ \A a \in inbox[t] : a.samples = futures[f].asked
      BY <2>1 DEF Inv, Matching
    <3>2. t = q.thread => answer.samples = futures[f].asked
      BY <1>3, <3>1
    <3> QED BY <1>5, <1>7, <3>1, <3>2
  <2>2. \A t \in Threads : pc[t] = "recv" => sock[t] = "recv"
    BY DEF Inv, Matching
  <2> QED BY <1>2, <2>1, <2>2 DEF Matching
<1> QED BY <1>2, <1>6, <1>8, <1>9 DEF Inv

\* A death only takes messages away.
LEMMA DieInv == ASSUME Inv, NEW w \in Servers, Die(w) PROVE Inv'
<1>1. /\ crashes < MaxCrashes /\ crashes' = crashes + 1
      /\ serving' = [serving EXCEPT ![w] = {}]
      /\ requests' \subseteq requests
      /\ UNCHANGED <<trainer, futures, client, inbox>>
  BY DEF Die
<1>2. /\ Hands' /\ Placed' /\ Resolved' /\ Own' /\ Requests' = Requests
      /\ sock' = sock /\ pc' = pc /\ held' = held /\ futures' = futures
  BY <1>1, ServerKept
<1>3. \A v \in Servers : serving'[v] \subseteq serving[v]
  BY <1>1 DEF Inv, Typed
<1>4. Typed'
  <2>1. /\ requests' \in SUBSET Requests /\ serving' \in [Servers -> SUBSET Requests]
        /\ inbox' \in [Threads -> SUBSET Answers]
    BY <1>1 DEF Inv, Typed
  <2>2. crashes' \in 0..MaxCrashes
    BY <1>1, BoundAssumption DEF Inv, Typed
  <2> QED BY <1>1, <2>1, <2>2, ServerKept
<1>5. \A q : Message(q)' => Message(q)
  BY <1>1, <1>3 DEF Message
<1>6. Single'
  <2>1. /\ \A r \in Requests : Message(r)' => sock'[r.thread] = "recv" /\ inbox'[r.thread] = {}
        /\ \A r, s \in Requests : Message(r)' /\ Message(s)' /\ r.thread = s.thread => r = s
        /\ \A t \in Threads : inbox'[t] # {} => sock'[t] = "recv"
        /\ \A t \in Threads : \A a, b \in inbox'[t] : a = b
    BY <1>1, <1>2, <1>5 DEF Inv, Single
  <2>2. /\ \A v \in Servers : \A r \in serving'[v] : r \notin requests'
        /\ \A v \in Servers : \A r, s \in serving'[v] : r = s
        /\ \A u, v \in Servers : \A r \in serving'[u] : r \in serving'[v] => u = v
    BY <1>1, <1>3 DEF Inv, Single
  <2> QED BY <1>2, <2>1, <2>2 DEF Single
<1>7. Matching'
  BY <1>1, <1>2, <1>5, MatchingKept
<1> QED BY <1>2, <1>4, <1>6, <1>7 DEF Inv

-----------------------------------------------------------------------------
LEMMA NextInv == ASSUME NumMicrobatches = 1, Inv, [Next]_vars PROVE Inv'
<1>1. ASSUME NEW n \in SampleCounts, Submit(n) PROVE Inv'
  BY <1>1, SubmitInv
<1>2. CASE Resolve
  BY <1>2, ResolveInv
<1>3. ASSUME NEW t \in Threads, ThreadStep(t) PROVE Inv'
  <2>1. ASSUME SendFails(t) \/ Timeout(t) PROVE Inv'
    <3>1. /\ pc[t] \in {"send", "recv"} /\ Fail(t)
          /\ UNCHANGED <<round, cursor, feedback, queue, mutex, sock, requests, serving,
                         crashes, inbox>>
      BY <2>1 DEF SendFails, Timeout, trainer, server
    <3> QED BY <3>1, FailInv
  <2> QED BY <1>3, <2>1, LockInv, CollectInv, SendInv, RecvInv DEF ThreadStep
<1>4. ASSUME NEW w \in Servers, ServerStep(w) PROVE Inv'
  BY <1>4, ServeInv, AnswerInv, DieInv DEF ServerStep
<1>5. CASE UNCHANGED vars
  <2>1. /\ UNCHANGED <<trainer, futures, client>>
        /\ UNCHANGED <<requests, serving, crashes, inbox>>
    BY <1>5 DEF vars, server
  <2>2. /\ Hands' /\ Placed' /\ Resolved' /\ Own'
        /\ sock' = sock /\ pc' = pc /\ held' = held /\ futures' = futures
    BY <2>1, ServerKept
  <2>3. Typed'
    <3>1. /\ crashes' \in 0..MaxCrashes /\ requests' \in SUBSET Requests
          /\ serving' \in [Servers -> SUBSET Requests]
          /\ inbox' \in [Threads -> SUBSET Answers]
      BY <2>1 DEF Inv, Typed
    <3> QED BY <2>1, <3>1, ServerKept
  <2>4. Single' /\ Matching'
    BY <2>1, <2>2, SingleKept, MatchingKept DEF Message
  <2> QED BY <2>2, <2>3, <2>4 DEF Inv
<1> QED BY <1>1, <1>2, <1>3, <1>4, <1>5 DEF Next

LEMMA Invariant == ASSUME NumMicrobatches = 1 PROVE Spec => []Inv
<1>1. Init => Inv
  BY InitInv
<1>2. Inv /\ [Next]_vars => Inv'
  BY NextInv
<1> QED BY <1>1, <1>2, PTL DEF Spec

LEMMA AtMostOne ==
    ASSUME NEW S, \A x, y \in S : x = y
    PROVE  Cardinality(S) <= 1 /\ (S # {} => Cardinality(S) = 1)
<1>1. CASE S = {}
  BY <1>1, FS_EmptySet
<1>2. CASE S # {}
  <2>1. PICK x : S = {x}
    BY <1>2
  <2> QED BY <1>2, <2>1, FS_Singleton
<1> QED BY <1>1, <1>2

\* Requests of one future: TeacherClient keeps its variables in their domains,
\* no worker serves two requests and no socket gets two answers.
THEOREM TypeCorrect == ASSUME NumMicrobatches = 1 PROVE Spec => []TypeOK
<1>1. Inv => TypeOK
  <2> SUFFICES ASSUME Inv PROVE TypeOK
    OBVIOUS
  <2>1. ASSUME NEW w \in Servers
        PROVE  serving[w] \subseteq Requests /\ Cardinality(serving[w]) <= 1
    <3>1. serving[w] \subseteq Requests /\ \A q, r \in serving[w] : q = r
      BY DEF Inv, Typed, Single
    <3> QED BY <3>1, AtMostOne
  <2>2. ASSUME NEW t \in Threads
        PROVE  /\ inbox[t] \subseteq [ok: BOOLEAN, samples: Seq(Samples)]
               /\ Cardinality(inbox[t]) <= 1
    <3>1. inbox[t] \subseteq Answers /\ \A a, b \in inbox[t] : a = b
      BY DEF Inv, Typed, Single
    <3> QED BY <3>1, AtMostOne DEF Answers
  <2>3. ASSUME NEW t \in Threads
        PROVE  held[t] \in Seq(DOMAIN futures) /\ Len(held[t]) <= NumMicrobatches
    <3>1. CASE held[t] = << >>
      BY <3>1
    <3>2. CASE held[t] # << >>
      <4>1. PICK f \in DOMAIN futures : held[t] = <<f>>
        BY <3>2 DEF Inv, Hands
      <4>2. <<f>> \in Seq(DOMAIN futures) /\ Len(<<f>>) = 1
        OBVIOUS
      <4> QED BY <4>1, <4>2
    <3> QED BY <3>1, <3>2
  <2>4. held \in [Threads -> Seq(DOMAIN futures)]
    BY <2>3 DEF Inv, Hands
  <2> QED BY <2>1, <2>2, <2>3, <2>4 DEF Inv, Typed, Hands, TypeOK
<1> QED BY <1>1, Invariant, PTL

\* Requests of one future: a future that is not resolved is in one place, the
\* queue or a thread of bg_task, whatever fails; a resolved one is in none.
THEOREM NoneIsLost == ASSUME NumMicrobatches = 1 PROVE Spec => []NothingLost
<1>1. Inv => NothingLost
  <2> SUFFICES ASSUME Inv, NEW f \in DOMAIN futures
               PROVE  Places(f) = IF futures[f].state = "pending" THEN 1 ELSE 0
    BY DEF NothingLost
  <2> DEFINE queued == {i \in DOMAIN queue : queue[i] = f}
             taken == {p \in Threads \X (1..NumMicrobatches) :
                          p[2] <= Len(held[p[1]]) /\ held[p[1]][p[2]] = f}
  <2>1. DOMAIN queue = 1..Len(queue)
    BY DEF Inv, Typed
  <2>2. \A i, j \in queued : i = j
    BY <2>1 DEF Inv, Placed
  <2>3. ASSUME NEW p \in taken PROVE held[p[1]] = <<f>> /\ p[1] \in Threads /\ p[2] = 1
    <3>1. p[1] \in Threads /\ p[2] = 1 /\ 1 <= Len(held[p[1]]) /\ held[p[1]][1] = f
      OBVIOUS
    <3>2. held[p[1]] \in {<< >>} \cup {<<g>> : g \in DOMAIN futures}
      BY <3>1 DEF Inv, Hands
    <3>3. held[p[1]] # << >>
      BY <3>1
    <3>4. PICK g \in DOMAIN futures : held[p[1]] = <<g>>
      BY <3>2, <3>3
    <3> QED BY <3>1, <3>4
  <2>4. \A t \in Threads : held[t] = <<f>> => <<t, 1>> \in taken
    <3> SUFFICES ASSUME NEW t \in Threads, held[t] = <<f>> PROVE <<t, 1>> \in taken
      OBVIOUS
    <3>1. Len(<<f>>) = 1 /\ <<f>>[1] = f
      OBVIOUS
    <3>2. 1 <= Len(held[t]) /\ held[t][1] = f /\ <<t, 1>> \in Threads \X (1..NumMicrobatches)
      BY <3>1
    <3> QED BY <3>2
  <2>5. \A p, q \in taken : p = q
    <3> SUFFICES ASSUME NEW p \in taken, NEW q \in taken PROVE p = q
      OBVIOUS
    <3>1. p[1] = q[1]
      <4>1. held[p[1]] = <<f>> /\ p[1] \in Threads /\ held[q[1]] = <<f>> /\ q[1] \in Threads
        BY <2>3
      <4>2. <<f>> # << >>
        OBVIOUS
      <4>3. \A t, u \in Threads : held[t] = held[u] /\ held[t] # << >> => t = u
        BY DEF Inv, Placed
      <4> HIDE DEF taken
      <4> QED BY <4>1, <4>2, <4>3
    <3>2. p = <<p[1], p[2]>> /\ q = <<q[1], q[2]>>
      OBVIOUS
    <3> QED BY <2>3, <3>1, <3>2
  <2>6. futures[f].state = "pending" <=> queued # {} \/ taken # {}
    <3>1. queued # {} <=> \E i \in 1..Len(queue) : queue[i] = f
      BY <2>1
    <3>2. taken # {} <=> \E t \in Threads : held[t] = <<f>>
      <4> HIDE DEF taken
      <4> QED BY <2>3, <2>4
    <3> QED BY <3>1, <3>2 DEF Inv, Placed
  <2>7. ~(queued # {} /\ taken # {})
    <3> SUFFICES ASSUME NEW i \in queued, NEW p \in taken PROVE FALSE
      OBVIOUS
    <3>1. i \in 1..Len(queue) /\ queue[i] = f
      BY <2>1
    <3> QED BY <2>3, <3>1 DEF Inv, Placed
  <2> HIDE DEF queued, taken
  <2>8. /\ Cardinality(queued) = IF queued = {} THEN 0 ELSE 1
        /\ Cardinality(taken) = IF taken = {} THEN 0 ELSE 1
    BY <2>2, <2>5, AtMostOne, FS_EmptySet
  <2>9. Cardinality(queued) + Cardinality(taken)
           = IF futures[f].state = "pending" THEN 1 ELSE 0
    BY <2>6, <2>7, <2>8
  <2> QED BY <2>9 DEF Places, queued, taken
<1> QED BY <1>1, Invariant, PTL

\* Requests of one future: feedback is stored at the sample it was generated
\* from, never from the late answer to a request that timed out.
THEOREM FeedbackIsOwn == ASSUME NumMicrobatches = 1 PROVE Spec => []FeedbackOwn
<1>1. Inv => FeedbackOwn
  BY DEF Inv, Own
<1> QED BY <1>1, Invariant, PTL

=============================================================================
