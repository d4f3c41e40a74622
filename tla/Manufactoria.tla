---------------------------- MODULE Manufactoria ----------------------------
(***************************************************************************)
(* The reward of a Manufactoria answer: the program is parsed node by node *)
(* and validated (ManufactoriaParser), every test robot is sent through it *)
(* (RobotFactory.process_robot), and the tests it passes are recorded      *)
(* (run_tests).                                                            *)
(*                                                                         *)
(* A program is a function from node names to nodes; the text of a line is *)
(* abstracted to what the regular expressions take from it.  The expected  *)
(* output of a test, a tape or a regular expression, is the set of tapes   *)
(* it matches.                                                             *)
(***************************************************************************)
EXTENDS Naturals, SequencesExt

CONSTANTS
    Declarations,   \* the nodes a text may declare, each with its route lines
    Tests,          \* the tests of the task, in order
    MaxIterations   \* nodes visited before a robot counts as looping

Colors == {"R", "B", "Y", "G"}

\* What a painter adds and what a puller handles.
Paints == [PAINTER_RED |-> "R", PAINTER_BLUE |-> "B",
           PAINTER_YELLOW |-> "Y", PAINTER_GREEN |-> "G"]

Handles == [PULLER_RB |-> {"R", "B"}, PULLER_YG |-> {"Y", "G"}]

Painters == DOMAIN Paints

Pullers == DOMAIN Handles

Types == {"START", "END"} \cup Painters \cup Pullers

Routes == [condition : Colors \cup {"EMPTY", "NEXT"}, target : STRING]

ASSUME ManufactoriaAssumption ==
    /\ \A d \in Declarations : /\ d.id \in STRING /\ d.type \in Types
                               /\ d.routes \in Seq(Routes)
    /\ Tests \in Seq([input : Seq(Colors), outputs : SUBSET Seq(Colors),
                      check_output : BOOLEAN, accepted : BOOLEAN])
    /\ Tests # <<>>
    /\ MaxIterations \in Nat \ {0}

VARIABLES
    nodes,       \* the nodes parsed, by name
    phase,       \* "parse", "process", "refused" or "scored"
    test,        \* number of the test being run
    passed,      \* numbers of the tests passed
    tape, at,    \* the robot's tape and the node it is at
    iteration    \* nodes it has visited

robot == <<tape, at, iteration>>

vars == <<nodes, phase, test, passed, robot>>

Init ==
    /\ nodes = <<>>
    /\ phase = "parse"
    /\ test = 1 /\ passed = {}
    /\ tape = <<>> /\ at = "start" /\ iteration = 0

-----------------------------------------------------------------------------
(* Parsing                                                                 *)

Conditions(type) ==
    CASE type = "END" -> {}
      [] type \in Pullers -> Handles[type] \cup {"EMPTY"}
      [] OTHER -> {"NEXT"}

\* What _parse_node, _parse_route and _validate_routes accept.
WellFormed(d) ==
    /\ d.id \notin DOMAIN nodes
    /\ d.type = "START" => d.id = "start"
    /\ d.type = "END" => d.id = "end"
    /\ \A k \in DOMAIN d.routes : d.routes[k].condition \in Conditions(d.type)
    /\ d.type \in Painters \cup {"START"} => Len(d.routes) = 1

ParseNode(d) ==
    /\ phase = "parse"
    /\ WellFormed(d)
    /\ nodes' = [n \in DOMAIN nodes \cup {d.id} |->
                   IF n = d.id THEN d ELSE nodes[n]]
    /\ UNCHANGED <<phase, test, passed, robot>>

\* A ParseError leaves no program: run_tests answers with one failed record.
Refuse ==
    /\ phase' = "refused" /\ nodes' = <<>>
    /\ UNCHANGED <<test, passed, robot>>

ParseError(d) ==
    /\ phase = "parse"
    /\ ~WellFormed(d)
    /\ Refuse

\* Mutant of Valid: the targets are not looked up.
ValidUndefined ==
    /\ \A id \in {"start", "end"} : id \in DOMAIN nodes
    /\ nodes["start"].type = "START" /\ nodes["end"].type = "END"

\* _validate_program, at the end of the text.
Valid ==
    /\ \A id \in {"start", "end"} : id \in DOMAIN nodes
    /\ nodes["start"].type = "START" /\ nodes["end"].type = "END"
    /\ \A n \in DOMAIN nodes : \A k \in DOMAIN nodes[n].routes :
         nodes[n].routes[k].target \in {"NONE", "END"} \cup DOMAIN nodes

\* Mutant of Enters: the count goes on from robot to robot.
EntersCounting(t) ==
    /\ test' = t
    /\ tape' = Tests[t].input /\ at' = "start" /\ iteration' = iteration

\* Robot t enters at the start.
Enters(t) ==
    /\ test' = t
    /\ tape' = Tests[t].input /\ at' = "start" /\ iteration' = 0

Accept ==
    /\ phase = "parse"
    /\ Valid
    /\ phase' = "process"
    /\ Enters(1)
    /\ UNCHANGED <<nodes, passed>>

Invalid ==
    /\ phase = "parse"
    /\ ~Valid
    /\ Refuse

-----------------------------------------------------------------------------
(* Processing                                                              *)

\* Mutant of Running: one node more.
RunningOneMore ==
    /\ phase = "process"
    /\ iteration <= MaxIterations
    /\ at \notin {"NONE", "end"}
    /\ at \in DOMAIN nodes

\* The robot stays in the loop of process_robot.
Running ==
    /\ phase = "process"
    /\ iteration < MaxIterations
    /\ at \notin {"NONE", "end"}
    /\ at \in DOMAIN nodes

Node == nodes[at]

\* The first route for the condition is taken; a branch left out rejects.
Takes(condition) ==
    \/ \E k \in DOMAIN Node.routes :
         /\ Node.routes[k].condition = condition
         /\ \A j \in 1..(k - 1) : Node.routes[j].condition # condition
         /\ at' = Node.routes[k].target
    \/ /\ \A k \in DOMAIN Node.routes : Node.routes[k].condition # condition
       /\ at' = "NONE"

Follows(condition) ==
    /\ Takes(condition)
    /\ iteration' = iteration + 1
    /\ UNCHANGED <<nodes, phase, test, passed>>

CanHandle == tape # <<>> /\ Head(tape) \in Handles[Node.type]

Start ==
    /\ Running
    /\ Node.type = "START"
    /\ Follows("NEXT")
    /\ UNCHANGED tape

Pull ==
    /\ Running
    /\ Node.type \in Pullers
    /\ CanHandle
    /\ tape' = Tail(tape)
    /\ Follows(Head(tape))

\* An empty tape, or a color of the other kind, which stays on the tape.
PassBy ==
    /\ Running
    /\ Node.type \in Pullers
    /\ ~CanHandle
    /\ Follows("EMPTY")
    /\ UNCHANGED tape

Paint ==
    /\ Running
    /\ Node.type \in Painters
    /\ tape' = Append(tape, Paints[Node.type])
    /\ Follows("NEXT")

-----------------------------------------------------------------------------
(* Recording                                                               *)

\* An unknown node and MaxIterations nodes without an end both reject.
Finished == at = "end" /\ iteration < MaxIterations

Passes ==
    LET good == Tests[test].check_output => tape \in Tests[test].outputs
    IN  (good /\ Finished) = Tests[test].accepted

Record ==
    /\ phase = "process"
    /\ ~Running
    /\ passed' = IF Passes THEN passed \cup {test} ELSE passed
    /\ IF test = Len(Tests)
         THEN phase' = "scored" /\ UNCHANGED <<test, robot>>
         ELSE Enters(test + 1) /\ UNCHANGED phase
    /\ UNCHANGED nodes

\* The answer has its score, or run_tests returned the ParseError.
Done == phase \in {"refused", "scored"} /\ UNCHANGED vars

Next ==
    \/ \E d \in Declarations : ParseNode(d) \/ ParseError(d)
    \/ Accept \/ Invalid
    \/ Start \/ Pull \/ PassBy \/ Paint
    \/ Record
    \/ Done

Spec == Init /\ [][Next]_vars

-----------------------------------------------------------------------------
(* Properties                                                              *)

\* Type correctness of the parser's and the robot's state.
TypeOK ==
    /\ \A n \in DOMAIN nodes : nodes[n] \in Declarations /\ nodes[n].id = n
    /\ phase \in {"parse", "process", "refused", "scored"}
    /\ test \in DOMAIN Tests /\ passed \subseteq DOMAIN Tests
    /\ tape \in Seq(Colors) /\ iteration \in 0..MaxIterations

\* A robot is only ever sent to a node of the program, to NONE, or to the
\* word END, which the parser lets through but no node can be reached by.
KnownNodes == phase = "process" => at \in {"NONE", "END"} \cup DOMAIN nodes

\* The program as rewriting rules: in a node, a word at the front of the tape
\* is replaced by a word at its back and the robot goes on.
Rules(type) ==
    CASE type \in Painters -> {[when |-> "NEXT", read |-> <<>>,
                                write |-> <<Paints[type]>>]}
      [] type \in Pullers -> {[when |-> c, read |-> <<c>>, write |-> <<>>] :
                                c \in Handles[type]}
      [] OTHER -> {[when |-> "NEXT", read |-> <<>>, write |-> <<>>]}

\* Where a node sends a robot for a condition.
Leads(node, condition) ==
    LET goes == {k \in DOMAIN node.routes : node.routes[k].condition = condition}
        first == CHOOSE k \in goes : \A j \in goes : k <= j
    IN  IF goes = {} THEN "NONE" ELSE node.routes[first].target

Rewrites(c) ==
    LET node == nodes[c.at]
        fires == {r \in Rules(node.type) : IsPrefix(r.read, c.tape)}
        rule == CHOOSE r \in fires : TRUE
    IN  IF fires = {} THEN [at |-> Leads(node, "EMPTY"), tape |-> c.tape]
        ELSE [at |-> Leads(node, rule.when),
              tape |-> SubSeq(c.tape, Len(rule.read) + 1, Len(c.tape)) \o rule.write]

\* It stays where no rule applies.
Onward(c) == IF c.at \in DOMAIN nodes \ {"NONE", "end"} THEN Rewrites(c) ELSE c

\* Where a robot is after n nodes.
Run(input, n) ==
    LET run[k \in 0..n] == IF k = 0 THEN [at |-> "start", tape |-> input]
                           ELSE Onward(run[k - 1])
    IN  run[n]

\* The score is about the program alone: a test is passed if and only if the
\* robot, with a tape and a count of its own, reaches the end within the limit
\* and with a right tape just when the test expects it.
Verdict(t) ==
    LET last == Run(Tests[t].input, MaxIterations - 1)
        good == Tests[t].check_output => last.tape \in Tests[t].outputs
    IN  (last.at = "end" /\ good) = Tests[t].accepted

Verdicts == phase = "scored" => \A t \in DOMAIN Tests : t \in passed <=> Verdict(t)

=============================================================================
