------------------------------ MODULE LessonBook ------------------------------
(***************************************************************************)
(* What the context updater promises of the lessons it keeps, without the  *)
(* tags, the counts and the choice of what is forgotten: a lesson is       *)
(* learned under a number never given before, an update revises the books  *)
(* it has opened and no other, books are cut to the cap, the student sees  *)
(* whole books at the end of an update, and a process that resumes has     *)
(* what was kept when no update was running.                               *)
(***************************************************************************)
EXTENDS Integers, FiniteSets

CONSTANTS
    Books,
    Cap,        \* the most lessons of a book; 0 for no cap
    CapsAtEnd   \* the cap holds when an update ends, not only when it opens a book

VARIABLES
    lessons,    \* the numbers of the lessons in each book
    given,      \* the last number given in each book
    shown,      \* the lessons of each book the student sees
    open,       \* the books the running update revises
    kept        \* lessons, given and shown of the last save

state == <<lessons, given, shown, open, kept>>

Init ==
    /\ lessons = [b \in Books |-> {}]
    /\ given = [b \in Books |-> 0]
    /\ shown = [b \in Books |-> {}]
    /\ open = {}
    /\ kept = [lessons |-> lessons, given |-> given, shown |-> shown]

Fits(b) == Cap > 0 => Cardinality(lessons[b]) <= Cap

Forgets(b) == lessons'[b] \subseteq lessons[b] /\ given'[b] = given[b]

Learns(b) ==
    /\ given'[b] >= given[b]
    /\ lessons'[b] = lessons[b] \cup (given[b] + 1)..given'[b]

Same(b) == lessons'[b] = lessons[b] /\ given'[b] = given[b]

Stored == lessons \in [Books -> SUBSET Nat] /\ given \in [Books -> Nat]

Begin(active) ==
    /\ open = {} /\ active # {}
    /\ open' = active
    /\ Stored'
    /\ \A b \in active : Forgets(b) /\ Fits(b)'
    /\ \A b \in Books \ active : Same(b)
    /\ UNCHANGED <<shown, kept>>

Revise ==
    /\ open # {}
    /\ Stored'
    /\ \A b \in open : Forgets(b) \/ Learns(b)
    /\ \A b \in Books \ open : Same(b)
    /\ UNCHANGED <<shown, open, kept>>

End ==
    /\ open # {}
    /\ CapsAtEnd => \A b \in Books : Fits(b)
    /\ open' = {}
    /\ shown' \in {shown, lessons}
    /\ UNCHANGED <<lessons, given, kept>>

Save ==
    /\ open = {}
    /\ kept' = [lessons |-> lessons, given |-> given, shown |-> shown]
    /\ UNCHANGED <<lessons, given, shown, open>>

\* Whatever the process that ended was doing.
Resume ==
    /\ lessons' = kept.lessons /\ given' = kept.given /\ shown' = kept.shown
    /\ open' = {}
    /\ UNCHANGED kept

Next ==
    \/ \E active \in SUBSET Books : Begin(active)
    \/ Revise \/ End \/ Save \/ Resume

Spec == Init /\ [][Next]_state

=============================================================================
