--------------------------- MODULE MCFeatureComposer ---------------------------
(* Small instances of FeatureComposer for TLC. *)
EXTENDS FeatureComposer

\* the packages with these ids, and of each the dependencies, tools and shape chosen
List(ids, needs, tools, shapes) ==
    [n \in DOMAIN ids |-> [id |-> ids[n], shape |-> shapes[n], dependsOn |-> needs[n],
                           tools |-> tools[n]]]
Ok4 == <<"ok", "ok", "ok", "ok">>
OwnTools == <<<<"a">>, <<"b", "c">>, <<>>, <<"d">>>>

\* cycles, diamonds, a dependency on itself, listed twice, and on what is not there
Dependencies == {<<>>, <<1>>, <<2>>, <<3>>, <<1, 1, 2>>, <<4, 2>>}
OrderInputs == {List(<<4, 2, 1, 3>>, needs, OwnTools, Ok4) : needs \in [1..4 -> Dependencies]}

ToolInputs ==
    {List(<<2, 3, 1>>, <<<<1>>, <<>>, <<>>>>, tools, Ok4) :
        tools \in [1..3 -> {<<>>, <<"a">>, <<"a", "b">>, <<"b", "b">>, <<"toString">>}]}

ShapeInputs ==
    {List(ids, <<<<3>>, <<>>, <<1>>>>, OwnTools, shapes) :
        ids \in {<<1, 2, 3>>, <<1, 2, 1>>},
        shapes \in [1..3 -> {"ok", "invalid_package", "invalid_tool"}]}

AllInputs == OrderInputs \cup ToolInputs \cup ShapeInputs
SomeOff == {{}, {1}, {2, 3}}
================================================================================
