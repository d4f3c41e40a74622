---------------------------- MODULE TeacherClient ----------------------------
(***************************************************************************)
(* Feedback of an external teacher.  The trainer splits the samples of a   *)
(* batch into futures (_submit_teacher_feedback) and blocks on them later  *)
(* (_resolve_teacher_feedback).  The threads of TeacherClient take futures *)
(* from one queue, NumMicrobatches at a time, and send them over a zmq REQ *)
(* socket each has of its own; a proxy passes the requests on to the       *)
(* workers of the teacher server.  A thread gives up on a request after    *)
(* RCVTIMEO; a worker may die with the requests it was given.              *)
(***************************************************************************)
EXTENDS Integers, FiniteSets, SequencesExt

CONSTANTS
    Threads,         \* the client's threads, n_server_workers of them
    Nobody,          \* the mutex is free
    NumMicrobatches, \* futures in one request; the trainer leaves it at 1
    Servers,         \* processes that run worker.py
    SampleCounts,    \* bound: samples a batch may ask feedback for
    MaxRounds,       \* bound: batches
    MaxCrashes       \* bound: deaths of a server worker

\* The pieces a batch of n samples is cut into, and so its futures.
Mbs(n) == IF n \div Cardinality(Threads) > 1 THEN n \div Cardinality(Threads)
                                             ELSE 1
Pieces(n) == (n + Mbs(n) - 1) \div Mbs(n)

ASSUME ThreadsAssumption ==
    IsFiniteSet(Threads) /\ Threads # {} /\ Nobody \notin Threads
\* Whoever asks for groups of futures submits whole groups.
ASSUME GroupsAssumption ==
    /\ NumMicrobatches \in Nat \ {0}
    /\ SampleCounts \subseteq Nat \ {0}
    /\ \A n \in SampleCounts : Pieces(n) % NumMicrobatches = 0
ASSUME BoundAssumption == MaxRounds \in Nat /\ MaxCrashes \in Nat

VARIABLES
    round,    \* batches submitted so far
    futures,  \* of this batch: the samples asked for, state and answer
    cursor,   \* the future the trainer waits for next, 0 between batches
    feedback, \* of this batch: the sample each entry was made from
    queue,    \* task_queue: futures not taken yet
    mutex,    \* the thread that collects a group
    pc,       \* where each thread is
    held,     \* the futures of each thread
    sock,     \* each REQ socket: what it allows next, "send" or "recv"
    requests, \* requests underway to the workers
    serving,  \* the request each worker works on
    inbox,    \* answers that reached each socket
    crashes   \* deaths so far

trainer == <<round, cursor, feedback>>
client == <<queue, mutex, pc, held, sock>>
server == <<requests, serving, crashes>>
vars == <<trainer, futures, client, server, inbox>>

-----------------------------------------------------------------------------

NoFeedback == <<0, 0>>

Init ==
    /\ round = 0 /\ cursor = 0
    /\ futures = << >> /\ feedback = << >> /\ queue = << >>
    /\ mutex = Nobody
    /\ pc = [t \in Threads |-> "lock"]
    /\ held = [t \in Threads |-> << >>]
    /\ sock = [t \in Threads |-> "send"]
    /\ requests = {}
    /\ serving = [w \in Servers |-> {}]
    /\ inbox = [t \in Threads |-> {}]
    /\ crashes = 0

(* The trainer *)

\* _submit_teacher_feedback for n samples.  Sample i of the batch is
\* <<round, i>>; the last piece takes what is left.
Submit(n) ==
    /\ cursor = 0
    /\ round < MaxRounds
    /\ round' = round + 1
    /\ futures' = [c \in 1..Pieces(n) |->
                      [asked |-> [i \in 1..(IF c = Pieces(n)
                                            THEN n - (c - 1) * Mbs(n)
                                            ELSE Mbs(n))
                                     |-> <<round', (c - 1) * Mbs(n) + i>>],
                       state |-> "pending", answer |-> << >>]]
    /\ queue' = queue \o [c \in 1..Pieces(n) |-> c]
    /\ cursor' = 1
    /\ feedback' = [i \in 1..n |-> NoFeedback]
    /\ UNCHANGED <<mutex, pc, held, sock, server, inbox>>

\* One future.result() of _resolve_teacher_feedback: its answer goes to the
\* samples the future asked for, by position; a failed one leaves None.
Resolve ==
    /\ cursor > 0
    /\ futures[cursor].state # "pending"
    /\ LET start == futures[cursor].asked[1][2]
           answer == futures[cursor].answer
       IN  feedback' = [i \in DOMAIN feedback |->
                           IF i \in start..(start + Len(answer) - 1)
                           THEN answer[i - start + 1] ELSE feedback[i]]
    /\ cursor' = IF cursor = Len(futures) THEN 0 ELSE cursor + 1
    /\ UNCHANGED <<round, futures, client, server, inbox>>

(* A thread of the client *)

Lock(t) ==
    /\ pc[t] = "lock"
    /\ mutex = Nobody
    /\ mutex' = t
    /\ pc' = [pc EXCEPT ![t] = "collect"]
    /\ UNCHANGED <<trainer, futures, queue, held, sock, server, inbox>>

\* Mutant of Collect: range(num_microbatches + 1).
CollectOneMore(t) ==
    /\ pc[t] = "collect"
    /\ queue # << >>
    /\ queue' = Tail(queue)
    /\ held' = [held EXCEPT ![t] = Append(held[t], Head(queue))]
    /\ IF Len(held'[t]) = NumMicrobatches + 1
       THEN mutex' = Nobody /\ pc' = [pc EXCEPT ![t] = "send"]
       ELSE UNCHANGED <<mutex, pc>>
    /\ UNCHANGED <<trainer, futures, sock, server, inbox>>

\* task_queue.get() blocks with the mutex held until a future is there.
Collect(t) ==
    /\ pc[t] = "collect"
    /\ queue # << >>
    /\ queue' = Tail(queue)
    /\ held' = [held EXCEPT ![t] = Append(held[t], Head(queue))]
    /\ IF Len(held'[t]) = NumMicrobatches
       THEN mutex' = Nobody /\ pc' = [pc EXCEPT ![t] = "send"]
       ELSE UNCHANGED <<mutex, pc>>
    /\ UNCHANGED <<trainer, futures, sock, server, inbox>>

\* The samples of a group of futures, one after the other.
Batch(group) == FlattenSeq([i \in 1..Len(group) |-> futures[group[i]].asked])

Send(t) ==
    /\ pc[t] = "send"
    /\ sock[t] = "send"
    /\ requests' = requests \cup {[thread |-> t, samples |-> Batch(held[t])]}
    /\ sock' = [sock EXCEPT ![t] = "recv"]
    /\ pc' = [pc EXCEPT ![t] = "recv"]
    /\ UNCHANGED <<trainer, futures, queue, mutex, held, serving, crashes,
                   inbox>>

\* The thread resolves the futures it holds, answers[i] to the i-th, and
\* starts over.
Finish(t, state, answers) ==
    /\ futures' = [f \in DOMAIN futures |->
                      IF \E i \in 1..Len(held[t]) : held[t][i] = f
                      THEN LET i == CHOOSE i \in 1..Len(held[t]) :
                                        held[t][i] = f
                           IN  [futures[f] EXCEPT !.state = state,
                                                  !.answer = answers[i]]
                      ELSE futures[f]]
    /\ held' = [held EXCEPT ![t] = << >>]
    /\ pc' = [pc EXCEPT ![t] = "lock"]

Fail(t) == Finish(t, "error", [i \in 1..NumMicrobatches |-> << >>])

\* A REQ socket that has not received its answer refuses to send.
SendFails(t) ==
    /\ pc[t] = "send"
    /\ sock[t] = "recv"
    /\ Fail(t)
    /\ UNCHANGED <<trainer, queue, mutex, sock, server, inbox>>

\* An answer is split evenly among the futures of the group.
Slices(samples) ==
    LET mbs == Len(samples) \div NumMicrobatches
    IN  [i \in 1..NumMicrobatches |->
            SubSeq(samples, (i - 1) * mbs + 1, i * mbs)]

Recv(t) ==
    /\ pc[t] = "recv"
    /\ \E a \in inbox[t] :
          /\ IF a.ok /\ Len(a.samples) % NumMicrobatches = 0
             THEN Finish(t, "ok", Slices(a.samples)) ELSE Fail(t)
          /\ inbox' = [inbox EXCEPT ![t] = inbox[t] \ {a}]
    /\ sock' = [sock EXCEPT ![t] = "send"]
    /\ UNCHANGED <<trainer, queue, mutex, server>>

\* Mutants of Timeout: the receive has no limit; the futures are forgotten;
\* the socket is used again as if the answer had come.
TimeoutNever(t) == FALSE
TimeoutForgets(t) ==
    /\ pc[t] = "recv"
    /\ inbox[t] = {}
    /\ held' = [held EXCEPT ![t] = << >>]
    /\ pc' = [pc EXCEPT ![t] = "lock"]
    /\ UNCHANGED <<trainer, futures, queue, mutex, sock, server, inbox>>
TimeoutReuses(t) ==
    /\ pc[t] = "recv"
    /\ inbox[t] = {}
    /\ Fail(t)
    /\ sock' = [sock EXCEPT ![t] = "send"]
    /\ UNCHANGED <<trainer, queue, mutex, server, inbox>>

\* zmq.Again after RCVTIMEO; the socket still waits for the answer.
Timeout(t) ==
    /\ pc[t] = "recv"
    /\ inbox[t] = {}
    /\ Fail(t)
    /\ UNCHANGED <<trainer, queue, mutex, sock, server, inbox>>

(* The teacher server *)

\* Proxy and DEALER hand a request to a worker, which serves one at a time.
Serve(w) ==
    /\ serving[w] = {}
    /\ \E q \in requests :
          /\ requests' = requests \ {q}
          /\ serving' = [serving EXCEPT ![w] = {q}]
    /\ UNCHANGED <<trainer, futures, client, crashes, inbox>>

\* The generation succeeds, or fails and the worker answers with an error.
Answer(w) ==
    \E q \in serving[w], ok \in BOOLEAN :
        /\ inbox' = [inbox EXCEPT ![q.thread] =
                        @ \cup {[ok |-> ok, samples |-> q.samples]}]
        /\ serving' = [serving EXCEPT ![w] = {}]
        /\ UNCHANGED <<trainer, futures, client, requests, crashes>>

\* A worker dies, with its request and with any that were queued for it.
Die(w) ==
    /\ crashes < MaxCrashes
    /\ crashes' = crashes + 1
    /\ serving' = [serving EXCEPT ![w] = {}]
    /\ \E lost \in SUBSET requests : requests' = requests \ lost
    /\ UNCHANGED <<trainer, futures, client, inbox>>

ThreadStep(t) ==
    \/ Lock(t)
    \/ Collect(t)
    \/ Send(t)
    \/ SendFails(t)
    \/ Recv(t)
    \/ Timeout(t)

ServerStep(w) ==
    \/ Serve(w)
    \/ Answer(w)
    \/ Die(w)

Next ==
    \/ \E n \in SampleCounts : Submit(n)
    \/ Resolve
    \/ \E t \in Threads : ThreadStep(t)
    \/ \E w \in Servers : ServerStep(w)

Spec == Init /\ [][Next]_vars

\* The trainer and the client's threads go on when they can, and a blocked
\* receive ends after RCVTIMEO.  Nothing is assumed of the server.
FairSpec ==
    /\ Spec
    /\ WF_vars(Resolve)
    /\ \A t \in Threads : WF_vars(ThreadStep(t))

-----------------------------------------------------------------------------
(* Properties *)

Samples == (1..MaxRounds) \X Nat
Futures == [asked: Seq(Samples), state: {"pending", "ok", "error"},
            answer: Seq(Samples)]
Requests == [thread: Threads, samples: Seq(Samples)]

TypeOK ==
    /\ round \in 0..MaxRounds
    /\ futures \in Seq(Futures)
    /\ cursor \in 0..Len(futures)
    /\ feedback \in Seq(Samples \cup {NoFeedback})
    /\ queue \in Seq(DOMAIN futures)
    /\ mutex \in Threads \cup {Nobody}
    /\ pc \in [Threads -> {"lock", "collect", "send", "recv"}]
    /\ held \in [Threads -> Seq(DOMAIN futures)]
    /\ \A t \in Threads : Len(held[t]) <= NumMicrobatches
    /\ sock \in [Threads -> {"send", "recv"}]
    /\ requests \subseteq Requests
    /\ \A w \in Servers :
          serving[w] \subseteq Requests /\ Cardinality(serving[w]) <= 1
    /\ \A t \in Threads :
          /\ inbox[t] \subseteq [ok: BOOLEAN, samples: Seq(Samples)]
          /\ Cardinality(inbox[t]) <= 1
    /\ crashes \in 0..MaxCrashes

\* A future that is not resolved yet is in the queue or with one thread, once,
\* and a resolved one is with nobody: none is lost between the queue, the
\* threads and the except branches of bg_task, and none is resolved twice.
Places(f) ==
    Cardinality({i \in DOMAIN queue : queue[i] = f})
    + Cardinality({p \in Threads \X (1..NumMicrobatches) :
                      p[2] <= Len(held[p[1]]) /\ held[p[1]][p[2]] = f})

NothingLost ==
    \A f \in DOMAIN futures :
        Places(f) = IF futures[f].state = "pending" THEN 1 ELSE 0

\* Feedback is given to the sample it was generated from: across grouping and
\* slicing, and never from the late answer to an earlier, timed-out request.
FeedbackOwn ==
    \A i \in DOMAIN feedback : feedback[i] \in {NoFeedback, <<round, i>>}

\* "If not done yet -> main thread blocks here until it is": the trainer is
\* never blocked for good, whatever the server does.
RoundEnds == cursor > 0 ~> cursor = 0

\* "None indicates generation failed for that sample": a future fails only
\* when a request with its samples was sent.
FailedAfterSend ==
    [][\A t \in Threads :
          pc[t] = "send" => \A i \in DOMAIN held[t] :
              futures'[held[t][i]].state # "error"]_vars

=============================================================================
