---------------------------- MODULE MessageQueue ----------------------------
(***************************************************************************)
(* The actor between the rollouter and the trainer: a bounded deque.  Its  *)
(* lock makes each call one step.  shutdown() is never called, so a reader *)
(* of an empty queue waits.  The rollouter ends the queue with an entry of *)
(* its own, End.                                                           *)
(***************************************************************************)
EXTENDS Integers, Sequences

CONSTANT MaxQueueSize  \* at least 1

VARIABLE queue

End == 0

Full == Len(queue) >= MaxQueueSize

\* Mutant of PutSample: nothing is dropped.
PutSampleUnbounded(x) == queue' = Append(queue, x)

\* A full queue makes room by dropping its oldest entry.
PutSample(x) == queue' = Append(IF Full THEN Tail(queue) ELSE queue, x)

\* Mutant of GetSample: the newest entry is read first.
GetSampleNewest(x) ==
    /\ queue # <<>>
    /\ x = queue[Len(queue)]
    /\ queue' = SubSeq(queue, 1, Len(queue) - 1)

GetSample(x) ==
    /\ queue # <<>>
    /\ x = Head(queue)
    /\ queue' = Tail(queue)

=============================================================================
