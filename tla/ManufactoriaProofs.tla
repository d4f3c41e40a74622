-------------------------- MODULE ManufactoriaProofs --------------------------
(***************************************************************************)
(* What holds of Manufactoria for every program text, all tests and every  *)
(* iteration limit.                                                        *)
(***************************************************************************)
EXTENDS Manufactoria, TLAPS, WellFoundedInduction

\* Where a route may lead.
Places == {"NONE", "END"} \cup DOMAIN nodes

\* A program that is run has been validated, and its robot is in it.
InProgram == phase = "process" => Valid /\ at \in Places

Inv == TypeOK /\ InProgram

-----------------------------------------------------------------------------

LEMMA TestType ==
    /\ 1 \in DOMAIN Tests
    /\ \A t \in DOMAIN Tests : Tests[t].input \in Seq(Colors)
<1> DEFINE Test == [input : Seq(Colors), outputs : SUBSET Seq(Colors),
                    check_output : BOOLEAN, accepted : BOOLEAN]
<1>1. Tests \in Seq(Test) /\ Tests # <<>>
  BY ManufactoriaAssumption
<1>3. \A c \in Test : c.input \in Seq(Colors)
  OBVIOUS
<1> HIDE DEF Test
<1>2. \A t \in DOMAIN Tests : Tests[t] \in Test
  BY <1>1
<1>4. 1 \in DOMAIN Tests
  BY <1>1
<1> QED BY <1>2, <1>3, <1>4

\* A step along a route of a validated program stays in it.
LEMMA FollowsStays ==
    ASSUME Inv, Running, NEW condition, Follows(condition)
    PROVE  /\ InProgram' /\ iteration' \in 0..MaxIterations
           /\ UNCHANGED <<nodes, phase, test, passed>>
<1>1. at \in DOMAIN nodes /\ Valid
  BY DEF Inv, InProgram, Running
<1>2. \/ at' = "NONE"
      \/ \E k \in DOMAIN nodes[at].routes : at' = nodes[at].routes[k].target
  BY DEF Follows, Takes, Node
<1>3. at' \in Places
  BY <1>1, <1>2 DEF Valid, Places
<1>4. iteration' \in 0..MaxIterations
  BY ManufactoriaAssumption DEF Inv, TypeOK, Running, Follows
<1>5. InProgram'
  BY <1>1, <1>3 DEF InProgram, Follows, Valid, Places
<1> QED BY <1>4, <1>5 DEF Follows

\* A robot enters a validated program at its start.
LEMMA EntersAtStart ==
    ASSUME Valid, UNCHANGED nodes, NEW t \in DOMAIN Tests, Enters(t)
    PROVE  /\ InProgram'
           /\ test' \in DOMAIN Tests /\ tape' \in Seq(Colors)
           /\ iteration' \in 0..MaxIterations
<1>1. Tests[t].input \in Seq(Colors)
  BY TestType
<1>2. at' \in Places' /\ Valid'
  BY DEF Enters, Valid, Places
<1>3. iteration' \in 0..MaxIterations
  BY ManufactoriaAssumption DEF Enters
<1>4. test' = t /\ tape' = Tests[t].input
  BY DEF Enters
<1> QED BY <1>1, <1>2, <1>3, <1>4 DEF InProgram

-----------------------------------------------------------------------------
(* The steps *)

LEMMA InitInv == Init => Inv
<1> SUFFICES ASSUME Init PROVE Inv
  OBVIOUS
<1>1. DOMAIN nodes = {}
  BY DEF Init
<1>2. tape \in Seq(Colors)
  BY DEF Init
<1>3. test \in DOMAIN Tests
  BY TestType DEF Init
<1>4. iteration \in 0..MaxIterations
  BY ManufactoriaAssumption DEF Init
<1>5. phase = "parse" /\ passed = {}
  BY DEF Init
<1> QED BY <1>1, <1>2, <1>3, <1>4, <1>5 DEF Inv, TypeOK, InProgram

LEMMA ParseNodeInv ==
    ASSUME Inv, NEW d \in Declarations, ParseNode(d)
    PROVE  Inv'
<1>1. \A n \in DOMAIN nodes' : nodes'[n] \in Declarations /\ nodes'[n].id = n
  BY DEF Inv, TypeOK, ParseNode
<1>2. phase' = "parse"
  BY DEF ParseNode
<1> QED BY <1>1, <1>2 DEF Inv, TypeOK, InProgram, ParseNode, robot

LEMMA RefuseInv == ASSUME Inv, Refuse PROVE Inv'
BY DEF Inv, TypeOK, InProgram, Refuse, robot

LEMMA AcceptInv == ASSUME Inv, Accept PROVE Inv'
<1>1. 1 \in DOMAIN Tests
  BY TestType
<1>2. /\ InProgram'
      /\ test' \in DOMAIN Tests /\ tape' \in Seq(Colors)
      /\ iteration' \in 0..MaxIterations
  BY <1>1, EntersAtStart DEF Accept
<1> QED BY <1>2 DEF Inv, TypeOK, Accept

LEMMA StepInv ==
    ASSUME Inv, Start \/ Pull \/ PassBy \/ Paint
    PROVE  Inv'
<1>1. PICK condition : Running /\ Follows(condition)
  BY DEF Start, Pull, PassBy, Paint
<1>2. /\ InProgram' /\ iteration' \in 0..MaxIterations
      /\ UNCHANGED <<nodes, phase, test, passed>>
  BY <1>1, FollowsStays
<1>3. tape' \in Seq(Colors)
  <2>1. tape \in Seq(Colors)
    BY DEF Inv, TypeOK
  <2>2. CASE Pull
    BY <2>1, <2>2 DEF Pull, CanHandle
  <2>3. CASE Paint
    <3>1. Paints[Node.type] \in Colors
      BY <2>3 DEF Paint, Painters, Paints, Colors
    <3> QED BY <2>1, <2>3, <3>1 DEF Paint
  <2> QED BY <2>1, <2>2, <2>3 DEF Start, PassBy
<1> QED BY <1>2, <1>3 DEF Inv, TypeOK

LEMMA RecordInv == ASSUME Inv, Record PROVE Inv'
<1>1. test \in DOMAIN Tests /\ passed \subseteq DOMAIN Tests
  BY DEF Inv, TypeOK
<1>2. passed' \subseteq DOMAIN Tests
  BY <1>1 DEF Record
<1>3. CASE test = Len(Tests)
  BY <1>2, <1>3 DEF Record, Inv, TypeOK, InProgram, robot
<1>4. CASE test # Len(Tests)
  <2>1. test + 1 \in DOMAIN Tests
    BY <1>1, <1>4, ManufactoriaAssumption
  <2>2. Enters(test + 1) /\ UNCHANGED <<nodes, phase>> /\ Valid
    BY <1>4 DEF Record, Inv, InProgram
  <2> QED BY <1>2, <2>1, <2>2, EntersAtStart DEF Inv, TypeOK
<1> QED BY <1>3, <1>4

LEMMA NextInv == Inv /\ [Next]_vars => Inv'
<1> SUFFICES ASSUME Inv, [Next]_vars PROVE Inv'
  OBVIOUS
<1>1. CASE \E d \in Declarations : ParseNode(d)
  BY <1>1, ParseNodeInv
<1>2. CASE (\E d \in Declarations : ParseError(d)) \/ Invalid
  BY <1>2, RefuseInv DEF ParseError, Invalid
<1>3. CASE Accept
  BY <1>3, AcceptInv
<1>4. CASE Start \/ Pull \/ PassBy \/ Paint
  BY <1>4, StepInv
<1>5. CASE Record
  BY <1>5, RecordInv
<1>6. CASE UNCHANGED vars
  BY <1>6 DEF vars, robot, Inv, TypeOK, InProgram, Valid, Places
<1> QED BY <1>1, <1>2, <1>3, <1>4, <1>5, <1>6 DEF Next, Done

\* The state of the parser and the robot is always well typed.
THEOREM TypeCorrect == Spec => []TypeOK
<1>1. Inv => TypeOK
  BY DEF Inv
<1> QED BY <1>1, InitInv, NextInv, PTL DEF Spec

\* What _validate_program checks is enough: whatever the text, the tapes and
\* the limit, process_robot meets no name that is neither a node's nor NONE,
\* save the END that the parser lets through.
THEOREM ValidatedRuns == Spec => []KnownNodes
<1>1. Inv => KnownNodes
  BY DEF Inv, InProgram, KnownNodes, Places
<1> QED BY <1>1, InitInv, NextInv, PTL DEF Spec

-----------------------------------------------------------------------------
(* Induction *)

Below == {p \in Nat \X Nat : p[1] < p[2]}

\* A set with zero and every successor holds all natural numbers.
LEMMA Induction ==
    ASSUME NEW S, 0 \in S, \A n \in Nat : n \in S => n + 1 \in S
    PROVE  Nat \subseteq S
<1> DEFINE T == Nat \ S
<1>1. SUFFICES ASSUME T # {} PROVE FALSE
  OBVIOUS
<1>2. IsWellFoundedOn(Below, Nat) /\ T \subseteq Nat
  BY NatLessThanWellFounded DEF OpToRel, Below
<1>3. \E n \in T : \A m \in T : ~(<<m, n>> \in Below)
  <2> HIDE DEF T
  <2> QED BY <1>1, <1>2, WFMin
<1>4. PICK n \in T : \A m \in T : ~(<<m, n>> \in Below)
  BY <1>3
<1>5. n # 0 /\ n \in Nat
  OBVIOUS
<1>6. n - 1 \in Nat /\ (n - 1) + 1 = n
  BY <1>5
<1>7. n - 1 \in T /\ <<n - 1, n>> \in Below
  BY <1>5, <1>6 DEF Below
<1> QED BY <1>4, <1>7

-----------------------------------------------------------------------------
(* The program as a rewriting system *)

\* g is the way of a robot through its first n nodes.
Traces(g, input, n) ==
    g = [k \in 0..n |-> IF k = 0 THEN [at |-> "start", tape |-> input]
                                 ELSE Onward(g[k - 1])]

LEMMA TraceExists ==
    ASSUME NEW input
    PROVE  \A n \in Nat : \E g : Traces(g, input, n)
<1> DEFINE S == {n \in Nat : \E g : Traces(g, input, n)}
           first == [at |-> "start", tape |-> input]
<1>1. 0 \in S
  <2> DEFINE g == [k \in 0..0 |-> first]
  <2>1. Traces(g, input, 0)
    BY DEF Traces
  <2> QED BY <2>1
<1>2. ASSUME NEW n \in Nat, n \in S PROVE n + 1 \in S
  <2>1. PICK g : Traces(g, input, n)
    BY <1>2
  <2> DEFINE h == [k \in 0..n + 1 |-> IF k <= n THEN g[k] ELSE Onward(g[n])]
  <2>2. ASSUME NEW k \in 0..n + 1
        PROVE  h[k] = IF k = 0 THEN first ELSE Onward(h[k - 1])
    <3>1. CASE k = 0
      <4>1. 0 \in 0..n /\ 0 <= n /\ 0 \in 0..n + 1
        OBVIOUS
      <4>2. h[0] = g[0] /\ g[0] = first
        BY <2>1, <4>1 DEF Traces
      <4> QED BY <3>1, <4>2
    <3>2. CASE k \in 1..n
      <4>1. k \in 0..n /\ k <= n /\ k - 1 <= n /\ k - 1 \in 0..n + 1 /\ k # 0
        BY <3>2
      <4>2. h[k] = g[k] /\ h[k - 1] = g[k - 1] /\ g[k] = Onward(g[k - 1])
        BY <2>1, <4>1 DEF Traces
      <4> QED BY <4>1, <4>2
    <3>3. CASE k = n + 1
      <4>1. k # 0 /\ ~(k <= n) /\ k - 1 = n /\ n <= n /\ n \in 0..n + 1
        BY <3>3
      <4>2. h[k] = Onward(g[n]) /\ h[n] = g[n]
        BY <4>1
      <4> QED BY <4>1, <4>2
    <3>4. k = 0 \/ k \in 1..n \/ k = n + 1
      OBVIOUS
    <3> HIDE DEF h
    <3> QED BY <3>1, <3>2, <3>3, <3>4
  <2>3. h = [k \in 0..n + 1 |-> h[k]]
    OBVIOUS
  <2> HIDE DEF h
  <2>4. Traces(h, input, n + 1)
    BY <2>2, <2>3 DEF Traces
  <2> QED BY <2>4
<1> HIDE DEF S
<1>3. Nat \subseteq S
  BY <1>1, <1>2, Induction
<1> QED BY <1>3 DEF S

LEMMA TracesAgree ==
    ASSUME NEW input, NEW n \in Nat, NEW m \in Nat, NEW g, NEW h,
           Traces(g, input, n), Traces(h, input, m)
    PROVE  \A k \in Nat : k <= n /\ k <= m => g[k] = h[k]
<1> DEFINE S == {k \in Nat : k <= n /\ k <= m => g[k] = h[k]}
<1>1. 0 \in S
  <2>1. 0 \in 0..n /\ 0 \in 0..m
    OBVIOUS
  <2>2. g[0] = h[0]
    BY <2>1 DEF Traces
  <2> QED BY <2>2
<1>2. ASSUME NEW k \in Nat, k \in S PROVE k + 1 \in S
  <2>1. SUFFICES ASSUME k + 1 <= n, k + 1 <= m PROVE g[k + 1] = h[k + 1]
    OBVIOUS
  <2>2. /\ k + 1 \in 0..n /\ k + 1 \in 0..m /\ k + 1 # 0 /\ (k + 1) - 1 = k
        /\ k <= n /\ k <= m
    BY <2>1
  <2>3. g[k + 1] = Onward(g[(k + 1) - 1]) /\ h[k + 1] = Onward(h[(k + 1) - 1])
    BY <2>2 DEF Traces
  <2>4. g[k] = h[k]
    BY <1>2, <2>2
  <2> QED BY <2>2, <2>3, <2>4
<1> HIDE DEF S
<1>3. Nat \subseteq S
  BY <1>1, <1>2, Induction
<1> QED BY <1>3 DEF S

LEMMA RunTraces ==
    ASSUME NEW input, NEW n \in Nat
    PROVE  \E g : Traces(g, input, n) /\ Run(input, n) = g[n]
<1> DEFINE run == CHOOSE g : Traces(g, input, n)
<1>1. Traces(run, input, n)
  BY TraceExists
<1>2. Run(input, n) = run[n]
  BY DEF Run, Traces
<1> QED BY <1>1, <1>2

\* The recursive definition of a run, for every number of nodes.
LEMMA RunSteps ==
    ASSUME NEW input
    PROVE  /\ Run(input, 0) = [at |-> "start", tape |-> input]
           /\ \A n \in Nat : Run(input, n + 1) = Onward(Run(input, n))
<1>1. Run(input, 0) = [at |-> "start", tape |-> input]
  <2>1. PICK g : Traces(g, input, 0) /\ Run(input, 0) = g[0]
    BY RunTraces
  <2>2. 0 \in 0..0
    OBVIOUS
  <2> QED BY <2>1, <2>2 DEF Traces
<1>2. ASSUME NEW n \in Nat PROVE Run(input, n + 1) = Onward(Run(input, n))
  <2>1. PICK g : Traces(g, input, n) /\ Run(input, n) = g[n]
    BY RunTraces
  <2>2. n + 1 \in Nat
    OBVIOUS
  <2>3. PICK h : Traces(h, input, n + 1) /\ Run(input, n + 1) = h[n + 1]
    BY <2>2, RunTraces
  <2>4. n <= n /\ n <= n + 1 /\ n + 1 \in 0..n + 1 /\ n + 1 # 0 /\ (n + 1) - 1 = n
    OBVIOUS
  <2>5. g[n] = h[n]
    BY <2>1, <2>2, <2>3, <2>4, TracesAgree
  <2>6. h[n + 1] = Onward(h[(n + 1) - 1])
    BY <2>3, <2>4 DEF Traces
  <2> QED BY <2>1, <2>3, <2>4, <2>5, <2>6
<1> QED BY <1>1, <1>2

\* No rule applies.
Halted(c) == c.at \notin DOMAIN nodes \ {"NONE", "end"}

\* Where no rule applies the robot stays.
LEMMA RunStays ==
    ASSUME NEW input, NEW n \in Nat, Halted(Run(input, n))
    PROVE  \A m \in Nat : Run(input, n + m) = Run(input, n)
<1> DEFINE S == {m \in Nat : Run(input, n + m) = Run(input, n)}
<1>1. 0 \in S
  <2>1. n + 0 = n
    OBVIOUS
  <2> QED BY <2>1
<1>2. ASSUME NEW m \in Nat, m \in S PROVE m + 1 \in S
  <2>1. n + (m + 1) = (n + m) + 1 /\ n + m \in Nat
    OBVIOUS
  <2>2. Run(input, (n + m) + 1) = Onward(Run(input, n + m))
    BY <2>1, RunSteps
  <2>3. Run(input, n + m) = Run(input, n)
    BY <1>2
  <2>4. Onward(Run(input, n)) = Run(input, n)
    BY DEF Onward, Halted
  <2> QED BY <2>1, <2>2, <2>3, <2>4
<1> HIDE DEF S
<1>3. Nat \subseteq S
  BY <1>1, <1>2, Induction
<1> QED BY <1>3 DEF S

-----------------------------------------------------------------------------
(* Each step is a rewriting *)

\* The robot and its tape.
Here == [at |-> at, tape |-> tape]

\* The first route with the condition is the one Leads names.
LEMMA TakesLeads ==
    ASSUME NEW condition, Takes(condition), Node.routes \in Seq(Routes)
    PROVE  at' = Leads(Node, condition)
<1> DEFINE routes == Node.routes
           goes == {k \in DOMAIN routes : routes[k].condition = condition}
           first == CHOOSE k \in goes : \A j \in goes : k <= j
<1>1. Leads(Node, condition) = IF goes = {} THEN "NONE" ELSE routes[first].target
  BY DEF Leads
<1>2. CASE \A k \in DOMAIN routes : routes[k].condition # condition
  BY <1>1, <1>2 DEF Takes
<1>3. CASE ~\A k \in DOMAIN routes : routes[k].condition # condition
  <2>1. PICK k \in DOMAIN routes :
              /\ routes[k].condition = condition
              /\ \A j \in 1..(k - 1) : routes[j].condition # condition
              /\ at' = routes[k].target
    BY <1>3 DEF Takes
  <2>2. DOMAIN routes \subseteq Nat \ {0}
    OBVIOUS
  <2>3. k \in goes /\ \A j \in goes : k <= j
    <3> SUFFICES ASSUME NEW j \in goes, ~(k <= j) PROVE FALSE
      BY <2>1
    <3>1. j \in 1..(k - 1)
      BY <2>2
    <3> QED BY <2>1, <3>1
  <2>4. first \in goes /\ \A j \in goes : first <= j
    BY <2>3
  <2>5. first = k
    <3>1. first <= k /\ k <= first /\ first \in Nat /\ k \in Nat
      BY <2>2, <2>3, <2>4
    <3> QED BY <3>1
  <2> QED BY <1>1, <2>1, <2>3, <2>5
<1> QED BY <1>2, <1>3

\* Each kind of node rewrites as its rules say.
LEMMA StepRewrites ==
    ASSUME Inv, Start \/ Pull \/ PassBy \/ Paint
    PROVE  Here' = Rewrites(Here)
<1> DEFINE type == Node.type
           fires == {r \in Rules(type) : IsPrefix(r.read, tape)}
           rule == CHOOSE r \in fires : TRUE
<1>1. at \in DOMAIN nodes /\ nodes[at] \in Declarations
  BY DEF Inv, TypeOK, Start, Pull, PassBy, Paint, Running
<1>2. Node.routes \in Seq(Routes) /\ tape \in Seq(Colors)
  BY <1>1, ManufactoriaAssumption DEF Node, Inv, TypeOK
<1>3. Rewrites(Here) =
        IF fires = {} THEN [at |-> Leads(Node, "EMPTY"), tape |-> tape]
        ELSE [at |-> Leads(Node, rule.when),
              tape |-> SubSeq(tape, Len(rule.read) + 1, Len(tape)) \o rule.write]
  BY DEF Rewrites, Here, Node
<1>4. ASSUME NEW r, fires = {r}, Takes(r.when),
             tape' = SubSeq(tape, Len(r.read) + 1, Len(tape)) \o r.write
      PROVE  Here' = Rewrites(Here)
  <2>1. rule = r /\ fires # {}
    BY <1>4
  <2>2. at' = Leads(Node, r.when)
    BY <1>2, <1>4, TakesLeads
  <2> HIDE DEF fires, rule
  <2> QED BY <1>3, <1>4, <2>1, <2>2 DEF Here
<1>5. ASSUME NEW write \in Seq(Colors),
             Rules(type) = {[when |-> "NEXT", read |-> <<>>, write |-> write]},
             Takes("NEXT"), tape' = tape \o write
      PROVE  Here' = Rewrites(Here)
  <2> DEFINE r == [when |-> "NEXT", read |-> <<>>, write |-> write]
  <2>1. IsPrefix(<<>>, tape)
    BY <1>2 DEF IsPrefix
  <2>2. fires = {r}
    BY <1>5, <2>1
  <2>3. SubSeq(tape, 0 + 1, Len(tape)) = tape
    BY <1>2
  <2>4. tape' = SubSeq(tape, Len(r.read) + 1, Len(tape)) \o r.write
    BY <1>5, <2>3
  <2>5. Takes(r.when)
    BY <1>5
  <2> HIDE DEF r, fires
  <2> QED BY <1>4, <2>2, <2>4, <2>5
<1>6. CASE Start
  <2>1. Rules(type) = {[when |-> "NEXT", read |-> <<>>, write |-> <<>>]}
    BY <1>6 DEF Start, Rules, Painters, Pullers, Paints, Handles
  <2>2. tape' = tape \o <<>> /\ Takes("NEXT")
    BY <1>2, <1>6 DEF Start, Follows
  <2>3. <<>> \in Seq(Colors)
    OBVIOUS
  <2> QED BY <1>5, <2>1, <2>2, <2>3
<1>7. CASE Paint
  <2>1. Rules(type) = {[when |-> "NEXT", read |-> <<>>, write |-> <<Paints[type]>>]}
    <3>1. type \in Painters /\ type \notin Pullers
      BY <1>7 DEF Paint, Painters, Pullers, Paints, Handles
    <3> QED BY <3>1 DEF Rules
  <2>2. Paints[type] \in Colors
    BY <1>7 DEF Paint, Painters, Paints, Colors
  <2> DEFINE write == <<Paints[type]>>
  <2>3. tape' = tape \o write /\ Takes("NEXT")
    BY <1>2, <1>7, <2>2 DEF Paint, Follows
  <2>4. write \in Seq(Colors)
    BY <2>2
  <2> HIDE DEF write
  <2> QED BY <1>5, <2>1, <2>3, <2>4 DEF write
<1>8. ASSUME type \in Pullers
      PROVE  /\ Rules(type) = {[when |-> c, read |-> <<c>>, write |-> <<>>] :
                                 c \in Handles[type]}
             /\ \A c \in Handles[type] :
                  IsPrefix(<<c>>, tape) <=> tape # <<>> /\ Head(tape) = c
  <2>1. type \notin Painters
    BY <1>8 DEF Pullers, Painters, Handles, Paints
  <2>2. ASSUME NEW c
        PROVE  IsPrefix(<<c>>, tape) <=> tape # <<>> /\ Head(tape) = c
    BY <1>2 DEF IsPrefix
  <2> QED BY <1>8, <2>1, <2>2 DEF Rules
<1>9. CASE Pull
  <2> DEFINE c == Head(tape)
             r == [when |-> c, read |-> <<c>>, write |-> <<>>]
  <2>1. type \in Pullers /\ tape # <<>> /\ c \in Handles[type]
    BY <1>9 DEF Pull, CanHandle
  <2>2. fires = {r}
    BY <1>8, <2>1
  <2>3. tape' = SubSeq(tape, 1 + 1, Len(tape)) \o <<>>
    BY <1>2, <1>9, <2>1 DEF Pull
  <2>4. tape' = SubSeq(tape, Len(r.read) + 1, Len(tape)) \o r.write
    BY <2>3
  <2>5. Takes(r.when)
    BY <1>9 DEF Pull, Follows
  <2> HIDE DEF c, r, fires
  <2> QED BY <1>4, <2>2, <2>4, <2>5
<1>10. CASE PassBy
  <2>1. type \in Pullers /\ ~(tape # <<>> /\ Head(tape) \in Handles[type])
    BY <1>10 DEF PassBy, CanHandle
  <2>2. fires = {}
    BY <1>8, <2>1
  <2>3. tape' = tape /\ Takes("EMPTY")
    BY <1>10 DEF PassBy, Follows
  <2>4. at' = Leads(Node, "EMPTY")
    BY <1>2, <2>3, TakesLeads
  <2> HIDE DEF fires
  <2> QED BY <1>3, <2>2, <2>3, <2>4 DEF Here
<1> QED BY <1>6, <1>7, <1>9, <1>10

-----------------------------------------------------------------------------
(* The score *)

\* The robot is where the program, run by itself, has it after as many nodes,
\* no node before let it stop, and the tests before are judged as they should.
Played ==
    /\ phase = "parse" => passed = {}
    /\ phase = "process" =>
         /\ Here = Run(Tests[test].input, iteration)
         /\ \A k \in 0..(iteration - 1) : ~Halted(Run(Tests[test].input, k))
         /\ passed \subseteq 1..(test - 1)
         /\ \A t \in 1..(test - 1) : t \in passed <=> Verdict(t)
    /\ Verdicts

\* A run is of the nodes alone.
LEMMA SameProgram ==
    ASSUME UNCHANGED nodes
    PROVE  /\ \A c : Halted(c)' <=> Halted(c)
           /\ \A input, n : Run(input, n)' = Run(input, n)
           /\ \A t : Verdict(t)' <=> Verdict(t)
<1>1. ASSUME NEW c PROVE Halted(c)' <=> Halted(c)
  BY DEF Halted
<1>2. ASSUME NEW c PROVE Onward(c)' = Onward(c)
  BY DEF Onward, Rewrites, Leads
<1>3. ASSUME NEW input, NEW n PROVE Run(input, n)' = Run(input, n)
  BY DEF Run, Onward, Rewrites, Leads
<1>4. ASSUME NEW t PROVE Verdict(t)' <=> Verdict(t)
  BY DEF Verdict, Run, Onward, Rewrites, Leads
<1> QED BY <1>1, <1>3, <1>4

\* A robot that enters has run no node.
LEMMA EntersPlayed ==
    ASSUME UNCHANGED nodes, NEW t \in DOMAIN Tests, Enters(t), phase' = "process",
           passed' \subseteq 1..(t - 1),
           \A s \in 1..(t - 1) : s \in passed' <=> Verdict(s)
    PROVE  Played'
<1>1. test' = t /\ iteration' = 0 /\ Here' = [at |-> "start", tape |-> Tests[t].input]
  BY DEF Enters, Here
<1>2. Here' = Run(Tests[t].input, 0)'
  BY <1>1, RunSteps, SameProgram
<1>3. 0..(iteration' - 1) = {}
  BY <1>1
<1>4. \A s \in 1..(t - 1) : s \in passed' <=> Verdict(s)'
  BY SameProgram
<1> QED BY <1>1, <1>2, <1>3, <1>4 DEF Played, Verdicts

\* A node of process_robot is a step of the run.
LEMMA StepPlayed ==
    ASSUME Inv, Played, Start \/ Pull \/ PassBy \/ Paint
    PROVE  Played'
<1> DEFINE input == Tests[test].input
<1>1. /\ phase = "process" /\ Running
      /\ UNCHANGED <<nodes, phase, test, passed>> /\ iteration' = iteration + 1
  BY DEF Start, Pull, PassBy, Paint, Follows, Running
<1>2. iteration \in Nat
  BY DEF Inv, TypeOK
<1>3. /\ Here = Run(input, iteration)
      /\ \A k \in 0..(iteration - 1) : ~Halted(Run(input, k))
  BY <1>1 DEF Played
<1>4. ~Halted(Here)
  BY <1>1 DEF Halted, Here, Running
<1>5. Here' = Run(input, iteration + 1)
  <2>1. Here' = Rewrites(Here)
    BY StepRewrites
  <2>2. Onward(Here) = Rewrites(Here)
    BY <1>4 DEF Onward, Halted
  <2>3. Run(input, iteration + 1) = Onward(Run(input, iteration))
    BY <1>2, RunSteps
  <2> HIDE DEF input
  <2> QED BY <1>3, <2>1, <2>2, <2>3
<1>6. \A k \in 0..((iteration + 1) - 1) : ~Halted(Run(input, k))
  <2> HIDE DEF input
  <2> SUFFICES ASSUME NEW k \in 0..((iteration + 1) - 1) PROVE ~Halted(Run(input, k))
    OBVIOUS
  <2>1. k = iteration \/ k \in 0..(iteration - 1)
    BY <1>2
  <2> QED BY <1>3, <1>4, <2>1
<1>7. /\ Here' = Run(input, iteration)'
      /\ \A k \in 0..(iteration' - 1) : ~Halted(Run(input, k))'
  BY <1>1, <1>5, <1>6, SameProgram
<1>8. \A t : Verdict(t)' <=> Verdict(t)
  BY <1>1, SameProgram
<1> QED BY <1>1, <1>7, <1>8 DEF Played, Verdicts

\* The count of process_robot stops at the limit with the run, or after it has
\* halted: the verdict is the run's.
LEMMA RecordVerdict ==
    ASSUME Inv, Played, Record
    PROVE  Passes <=> Verdict(test)
<1> DEFINE input == Tests[test].input
           last == Run(input, MaxIterations - 1)
<1>1. phase = "process" /\ ~Running
  BY DEF Record
<1>2. iteration \in 0..MaxIterations /\ MaxIterations \in Nat \ {0}
  BY ManufactoriaAssumption DEF Inv, TypeOK
<1>3. /\ Here = Run(input, iteration)
      /\ \A k \in 0..(iteration - 1) : ~Halted(Run(input, k))
  BY <1>1 DEF Played
<1> DEFINE good(c) == Tests[test].check_output => c.tape \in Tests[test].outputs
           X == good(Here) /\ Finished
           Y == last.at = "end" /\ good(last)
<1>4. X <=> Y
  <2> HIDE DEF input
  <2>1. CASE iteration < MaxIterations
    <3>1. Halted(Here)
      BY <1>1, <2>1 DEF Halted, Here, Running
    <3>2. /\ MaxIterations - 1 - iteration \in Nat
          /\ iteration + (MaxIterations - 1 - iteration) = MaxIterations - 1
          /\ iteration \in Nat
      BY <1>2, <2>1
    <3>3. last = Here
      BY <1>3, <3>1, <3>2, RunStays
    <3>4. Finished <=> Here.at = "end"
      BY <2>1 DEF Finished, Here
    <3> HIDE DEF last, good
    <3> QED BY <3>3, <3>4
  <2>2. CASE iteration = MaxIterations
    <3>1. ~Halted(last)
      BY <1>2, <1>3, <2>2
    <3>2. last.at # "end"
      BY <3>1 DEF Halted
    <3>3. ~Finished
      BY <1>2, <2>2 DEF Finished
    <3> QED BY <3>2, <3>3
  <2> QED BY <1>2, <2>1, <2>2
<1>5. X \in BOOLEAN /\ Y \in BOOLEAN
  OBVIOUS
<1>6. X = Y
  <2> HIDE DEF X, Y
  <2> QED BY <1>4, <1>5, Zenon
<1>7. Passes <=> X = Tests[test].accepted
  BY DEF Passes, Here
<1>8. Verdict(test) <=> Y = Tests[test].accepted
  BY DEF Verdict
<1> HIDE DEF X, Y
<1> QED BY <1>6, <1>7, <1>8

LEMMA RecordPlayed ==
    ASSUME Inv, Played, Record
    PROVE  Played'
<1>1. /\ phase = "process" /\ UNCHANGED nodes
      /\ passed' = IF Passes THEN passed \cup {test} ELSE passed
      /\ test \in DOMAIN Tests /\ DOMAIN Tests = 1..Len(Tests) /\ Len(Tests) \in Nat
  BY ManufactoriaAssumption DEF Record, Inv, TypeOK
<1>2. /\ passed \subseteq 1..(test - 1)
      /\ \A t \in 1..(test - 1) : t \in passed <=> Verdict(t)
  BY <1>1 DEF Played
<1>3. Passes <=> Verdict(test)
  BY RecordVerdict
<1>4. test \notin passed
  BY <1>1, <1>2
<1>5. passed' \subseteq 1..test
  <2>1. 1..(test - 1) \subseteq 1..test /\ test \in 1..test
    BY <1>1
  <2>2. passed' \subseteq passed \cup {test}
    BY <1>1
  <2> QED BY <1>2, <2>1, <2>2
<1>6. ASSUME NEW t \in 1..test PROVE t \in passed' <=> Verdict(t)
  <2>1. CASE t = test
    BY <1>1, <1>3, <1>4, <2>1
  <2>2. CASE t # test
    <3>1. t \in 1..(test - 1)
      BY <1>1, <2>2
    <3>2. t \in passed' <=> t \in passed
      BY <1>1, <2>2
    <3> QED BY <1>2, <3>1, <3>2
  <2> QED BY <2>1, <2>2
<1>7. CASE test = Len(Tests)
  <2>1. phase' = "scored"
    BY <1>7 DEF Record
  <2>2. \A t \in DOMAIN Tests : t \in passed' <=> Verdict(t)'
    BY <1>1, <1>6, <1>7, SameProgram
  <2> QED BY <2>1, <2>2 DEF Played, Verdicts
<1>8. CASE test # Len(Tests)
  <2>1. Enters(test + 1) /\ phase' = "process"
    BY <1>1, <1>8 DEF Record
  <2>2. test + 1 \in DOMAIN Tests /\ (test + 1) - 1 = test
    BY <1>1, <1>8
  <2> QED BY <1>1, <1>5, <1>6, <2>1, <2>2, EntersPlayed
<1> QED BY <1>7, <1>8

LEMMA AcceptPlayed ==
    ASSUME Played, Accept
    PROVE  Played'
<1>1. UNCHANGED nodes /\ Enters(1) /\ phase' = "process" /\ passed' = {}
  BY DEF Accept, Played
<1>2. 1..(1 - 1) = {} /\ 1 \in DOMAIN Tests
  BY TestType
<1> QED BY <1>1, <1>2, EntersPlayed

LEMMA InitPlayed == Init => Played
BY DEF Init, Played, Verdicts

LEMMA NextPlayed == Inv /\ Played /\ [Next]_vars => Played'
<1> SUFFICES ASSUME Inv, Played, [Next]_vars PROVE Played'
  OBVIOUS
<1>1. CASE \E d \in Declarations : ParseNode(d)
  BY <1>1 DEF ParseNode, Played, Verdicts
<1>2. CASE (\E d \in Declarations : ParseError(d)) \/ Invalid
  BY <1>2 DEF ParseError, Invalid, Refuse, Played, Verdicts
<1>3. CASE Accept
  BY <1>3, AcceptPlayed
<1>4. CASE Start \/ Pull \/ PassBy \/ Paint
  BY <1>4, StepPlayed
<1>5. CASE Record
  BY <1>5, RecordPlayed
<1>6. CASE UNCHANGED vars
  <2>1. UNCHANGED <<nodes, phase, test, passed, iteration>> /\ Here' = Here
    BY <1>6 DEF vars, robot, Here
  <2> QED BY <2>1, SameProgram DEF Played, Verdicts
<1> QED BY <1>1, <1>2, <1>3, <1>4, <1>5, <1>6 DEF Next, Done

\* The score of an answer is what its program, as a rewriting system, does with
\* each tape within the limit: no count, tape or verdict of one robot reaches
\* into another's.
THEOREM ScoredByProgram == Spec => []Verdicts
<1>1. Played => Verdicts
  BY DEF Played
<1> QED BY <1>1, InitInv, NextInv, InitPlayed, NextPlayed, PTL DEF Spec

=============================================================================
