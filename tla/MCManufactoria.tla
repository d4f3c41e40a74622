--------------------------- MODULE MCManufactoria ---------------------------
EXTENDS Manufactoria

To(condition, target) == [condition |-> condition, target |-> target]

Node1(id, type, routes) == [id |-> id, type |-> type, routes |-> routes]

\* "END" is no node's name; "b" is undefined in the programs without it.
Ahead == {<<To("NEXT", t)>> : t \in {"a", "b", "end", "END"}}

\* A branch left out, one given twice, and a color the puller does not have.
Branches ==
    {<<To("R", t), To("EMPTY", u)>> : t \in {"a", "b"}, u \in {"b", "end"}}
    \cup {<<>>, <<To("R", "end")>>, <<To("R", "a"), To("R", "end")>>,
          <<To("Y", "b"), To("EMPTY", "end")>>}

MCDeclarations ==
    {Node1("start", "START", r) : r \in Ahead}
    \cup {Node1("start", "PAINTER_RED", r) : r \in Ahead}
    \cup {Node1("end", "END", <<>>), Node1("end", "PULLER_RB", <<>>),
          Node1("a", "START", <<>>)}
    \cup {Node1(id, type, r) : id \in {"a", "b"},
            type \in {"PAINTER_RED", "PAINTER_YELLOW"}, r \in Ahead}
    \cup {Node1(id, type, r) : id \in {"a", "b"},
            type \in {"PULLER_RB", "PULLER_YG"}, r \in Branches}

MCTests == <<
    [input |-> <<"R", "Y", "R">>, outputs |-> {<<"R">>, <<"R", "Y">>},
     check_output |-> TRUE, accepted |-> TRUE],
    [input |-> <<"Y", "B">>, outputs |-> {<<"B">>},
     check_output |-> TRUE, accepted |-> FALSE],
    [input |-> <<>>, outputs |-> {}, check_output |-> FALSE,
     accepted |-> TRUE]>>
=============================================================================
