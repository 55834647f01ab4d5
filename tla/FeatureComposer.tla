----------------------------- MODULE FeatureComposer -----------------------------
(***************************************************************************)
(* core/composer/order.ts and composer.ts: a list of feature packages      *)
(* becomes one registry of tools.  The list, less the disabled packages    *)
(* (head/opencode/library-surface.ts), is validated, ordered by Kahn's     *)
(* algorithm with the counts of open dependencies, and composed in that    *)
(* order.  One action is one pass of a loop.                               *)
(*                                                                         *)
(* The array ready is sorted after every push, so that shift() takes its   *)
(* least id: it is a set here.                                             *)
(***************************************************************************)
EXTENDS Integers, Sequences, FiniteSets

CONSTANTS
    Ids,              \* numbered in the order sort() gives them
    Names,            \* names of tools
    Inherited,        \* those that every object has a property of
    Inputs,           \* the lists of packages
    Disabled          \* the sets of ids that are disabled

Packages == [id : Ids, shape : {"ok", "invalid_package", "invalid_tool"},
             dependsOn : Seq(Ids), tools : Seq(Names)]

\* buildTinyYeahTools: disabledPackages are filtered out before anything is validated
Enabled(all, off) == LET On(package) == package.id \notin off IN SelectSeq(all, On)

ASSUME ComposerAssumption ==
    /\ Ids \subseteq Nat
    /\ \A all \in Inputs, off \in Disabled : Enabled(all, off) \in Seq(Packages)

VARIABLES
    packages,         \* the list
    phase, next,      \* which loop runs, and the index it has come to
    known,            \* the keys of byId
    indegree,         \* how many dependencies of a package are open
    ready, ordered,
    todo,             \* what is left of the inner loop over the dependents of the last one
    toolNames,        \* the names of toolSpecs
    error, cycleIds   \* FeaturePackageError

composerVars == <<packages, phase, next, known, indegree, ready, ordered, todo, toolNames,
                  error, cycleIds>>

AllIds == {packages[n].id : n \in DOMAIN packages}

\* byId.get(id)
Package(id) == packages[CHOOSE n \in DOMAIN packages : packages[n].id = id]

\* an edge is a package and the place of a dependency in its dependsOn
Needs(id) == Package(id).dependsOn
Dependents(id) == {e \in UNION {{n} \X DOMAIN Needs(n) : n \in known} : Needs(e[1])[e[2]] = id}

Init ==
    /\ \E all \in Inputs, off \in Disabled : packages = Enabled(all, off)
    /\ phase = "validate" /\ next = 1
    /\ known = {} /\ indegree = <<>> /\ ready = {} /\ ordered = <<>> /\ todo = {}
    /\ toolNames = <<>>
    /\ error = "none" /\ cycleIds = {}

Refuse(code) == phase' = "refused" /\ error' = code

--------------------------------------------------------------------------------
(* validateAndOrderFeaturePackages.                                          *)

\* mutant: dependencies are looked up while byId is still being filled
RegisterResolving ==
    /\ phase = "validate" /\ next <= Len(packages)
    /\ LET package == packages[next] IN
          IF package.shape # "ok" \/ package.id \in known
          THEN /\ Refuse(IF package.shape # "ok" THEN package.shape ELSE "duplicate_package_id")
               /\ UNCHANGED <<known, next>>
          ELSE IF \E k \in DOMAIN package.dependsOn : package.dependsOn[k] \notin known
          THEN Refuse("missing_dependency") /\ UNCHANGED <<known, next>>
          ELSE /\ known' = known \cup {package.id} /\ next' = next + 1
               /\ UNCHANGED <<phase, error>>
    /\ UNCHANGED <<packages, indegree, ready, ordered, todo, toolNames, cycleIds>>

\* validatePackageShape, and an id that is there already
Register ==
    /\ phase = "validate" /\ next <= Len(packages)
    /\ LET package == packages[next] IN
          IF package.shape # "ok" \/ package.id \in known
          THEN /\ Refuse(IF package.shape # "ok" THEN package.shape ELSE "duplicate_package_id")
               /\ UNCHANGED <<known, next>>
          ELSE /\ known' = known \cup {package.id} /\ next' = next + 1
               /\ UNCHANGED <<phase, error>>
    /\ UNCHANGED <<packages, indegree, ready, ordered, todo, toolNames, cycleIds>>

Registered ==
    /\ phase = "validate" /\ next > Len(packages)
    /\ phase' = "resolve" /\ next' = 1
    /\ UNCHANGED <<packages, known, indegree, ready, ordered, todo, toolNames, error, cycleIds>>

Resolve ==
    /\ phase = "resolve" /\ next <= Len(packages)
    /\ IF \E k \in DOMAIN packages[next].dependsOn : packages[next].dependsOn[k] \notin known
       THEN Refuse("missing_dependency") /\ UNCHANGED next
       ELSE next' = next + 1 /\ UNCHANGED <<phase, error>>
    /\ UNCHANGED <<packages, known, indegree, ready, ordered, todo, toolNames, cycleIds>>

\* mutant: a dependency that is listed twice is counted once
CountOnce ==
    /\ phase = "resolve" /\ next > Len(packages)
    /\ phase' = "order"
    /\ indegree' = [id \in known |-> Cardinality({Needs(id)[k] : k \in DOMAIN Needs(id)})]
    /\ ready' = {id \in known : Len(Needs(id)) = 0}
    /\ UNCHANGED <<packages, next, known, ordered, todo, toolNames, error, cycleIds>>

\* topologicalOrder up to its loop
Count ==
    /\ phase = "resolve" /\ next > Len(packages)
    /\ phase' = "order"
    /\ indegree' = [id \in known |-> Len(Needs(id))]
    /\ ready' = {id \in known : Len(Needs(id)) = 0}
    /\ UNCHANGED <<packages, next, known, ordered, todo, toolNames, error, cycleIds>>

\* mutant: ready is not sorted
ShiftUnsorted ==
    /\ phase = "order" /\ todo = {}
    /\ \E id \in ready : /\ ready' = ready \ {id}
                         /\ ordered' = Append(ordered, id)
                         /\ todo' = Dependents(id)
    /\ UNCHANGED <<packages, phase, next, known, indegree, toolNames, error, cycleIds>>

Shift ==
    /\ phase = "order" /\ todo = {}
    /\ \E id \in ready : /\ \A other \in ready : id <= other
                         /\ ready' = ready \ {id}
                         /\ ordered' = Append(ordered, id)
                         /\ todo' = Dependents(id)
    /\ UNCHANGED <<packages, phase, next, known, indegree, toolNames, error, cycleIds>>

\* mutant: one dependency more may be open
CountDownEarly ==
    /\ phase = "order"
    /\ \E e \in todo :
          /\ \A other \in todo : e[1] < other[1] \/ (e[1] = other[1] /\ e[2] <= other[2])
          /\ todo' = todo \ {e}
          /\ indegree' = [indegree EXCEPT ![e[1]] = @ - 1]
          /\ ready' = IF indegree[e[1]] - 1 <= 1 THEN ready \cup {e[1]} ELSE ready
    /\ UNCHANGED <<packages, phase, next, known, ordered, toolNames, error, cycleIds>>

\* the dependents in the order of their ids, one for each time it names the dependency
CountDown ==
    /\ phase = "order"
    /\ \E e \in todo :
          /\ \A other \in todo : e[1] < other[1] \/ (e[1] = other[1] /\ e[2] <= other[2])
          /\ todo' = todo \ {e}
          /\ indegree' = [indegree EXCEPT ![e[1]] = @ - 1]
          /\ ready' = IF indegree[e[1]] - 1 = 0 THEN ready \cup {e[1]} ELSE ready
    /\ UNCHANGED <<packages, phase, next, known, ordered, toolNames, error, cycleIds>>

\* mutant: only packages with several open dependencies are named
EndOrderSeveral ==
    /\ phase = "order" /\ todo = {} /\ ready = {}
    /\ IF Len(ordered) # Cardinality(known)
       THEN Refuse("dependency_cycle") /\ cycleIds' = {id \in known : indegree[id] > 1}
            /\ UNCHANGED next
       ELSE phase' = "compose" /\ next' = 1 /\ UNCHANGED <<error, cycleIds>>
    /\ UNCHANGED <<packages, known, indegree, ready, ordered, todo, toolNames>>

EndOrder ==
    /\ phase = "order" /\ todo = {} /\ ready = {}
    /\ IF Len(ordered) # Cardinality(known)
       THEN Refuse("dependency_cycle") /\ cycleIds' = {id \in known : indegree[id] > 0}
            /\ UNCHANGED next
       ELSE phase' = "compose" /\ next' = 1 /\ UNCHANGED <<error, cycleIds>>
    /\ UNCHANGED <<packages, known, indegree, ready, ordered, todo, toolNames>>

--------------------------------------------------------------------------------
(* composeOrderedRegistry: tools is an object literal, so tools[name] finds  *)
(* an inherited property too.                                                *)

Composed == {toolNames[n] : n \in DOMAIN toolNames}

Compose ==
    /\ phase = "compose" /\ next <= Len(ordered)
    /\ LET tools == Package(ordered[next]).tools IN
          IF \E k \in DOMAIN tools : \/ tools[k] \in Composed \cup Inherited
                                     \/ \E j \in 1..k - 1 : tools[j] = tools[k]
          THEN Refuse("duplicate_tool_name") /\ UNCHANGED <<toolNames, next>>
          ELSE /\ toolNames' = toolNames \o tools /\ next' = next + 1
               /\ UNCHANGED <<phase, error>>
    /\ UNCHANGED <<packages, known, indegree, ready, ordered, todo, cycleIds>>

EndCompose ==
    /\ phase = "compose" /\ next > Len(ordered)
    /\ phase' = "composed"
    /\ UNCHANGED <<packages, next, known, indegree, ready, ordered, todo, toolNames, error,
                   cycleIds>>

Next ==
    \/ Register \/ Registered \/ Resolve \/ Count
    \/ Shift \/ CountDown \/ EndOrder
    \/ Compose \/ EndCompose

Spec == Init /\ [][Next]_composerVars

--------------------------------------------------------------------------------
(* Properties.                                                               *)

\* The order is the one PackageOrder promises: a package is placed when it is the least of
\* those whose dependencies all are.
Verdict ==
    CASE phase \in {"compose", "composed"} \/ error = "duplicate_tool_name" -> "all"
      [] error = "dependency_cycle" -> "cycle"
      [] phase = "refused" /\ error \notin {"dependency_cycle", "duplicate_tool_name"} -> "refused"
      [] OTHER -> "open"
NeedsOf == [id \in AllIds |-> {Needs(id)[k] : k \in DOMAIN Needs(id)}]
O == INSTANCE PackageOrder
     WITH needs <- NeedsOf, placed <- ordered, verdict <- Verdict, left <- cycleIds
ImplementsOrder == O!Order

Done == {ordered[n] : n \in DOMAIN ordered}

\* Whatever the order and the repetitions of the input, no package is ordered before one it
\* depends on, so that no tool is composed before those it may build on.
DependenciesFirst ==
    \A n \in DOMAIN ordered : \A k \in DOMAIN Needs(ordered[n]) :
       \E m \in 1..n - 1 : ordered[m] = Needs(ordered[n])[k]

Stuck(S) == \A id \in S : \E k \in DOMAIN Needs(id) : Needs(id)[k] \in S

\* What the error names as a dependency cycle is all of the packages that cannot be
\* ordered: the largest set of which each depends on one in the set.  So packages that
\* only depend on a cycle are named with it.
CycleNamed ==
    error = "dependency_cycle" => /\ cycleIds # {} /\ Stuck(cycleIds)
                                  /\ \A S \in SUBSET known : Stuck(S) => S \subseteq cycleIds

ToolAt(n, k) == packages[n].tools[k]
ToolPlaces == UNION {{n} \X DOMAIN packages[n].tools : n \in DOMAIN packages}

Misshapen(code) == \E n \in DOMAIN packages : packages[n].shape = code
Duplicate == \E m, n \in DOMAIN packages : m # n /\ packages[m].id = packages[n].id
Missing == \E n \in DOMAIN packages : \E k \in DOMAIN packages[n].dependsOn :
              packages[n].dependsOn[k] \notin AllIds
DuplicateTool == \/ \E a, b \in ToolPlaces : a # b /\ ToolAt(a[1], a[2]) = ToolAt(b[1], b[2])
                 \/ \E a \in ToolPlaces : ToolAt(a[1], a[2]) \in Inherited

\* A list is refused for what is wrong with it only, and composed only if nothing is.
\* A tool with an inherited name is taken for a duplicate of the property.
RefusedForCause ==
    /\ error \in {"invalid_package", "invalid_tool"} => Misshapen(error)
    /\ error = "duplicate_package_id" => Duplicate
    /\ error = "missing_dependency" => Missing
    /\ error = "duplicate_tool_name" => DuplicateTool
    /\ phase = "composed" =>
          /\ ~Duplicate /\ ~Missing /\ ~DuplicateTool
          /\ ~Misshapen("invalid_package") /\ ~Misshapen("invalid_tool")
          /\ Done = AllIds /\ Composed = {ToolAt(a[1], a[2]) : a \in ToolPlaces}

\* the dependencies of a package that have not been counted down
Open(id) == {k \in DOMAIN Needs(id) : Needs(id)[k] \notin Done \/ <<id, k>> \in todo}

ComposerTypeOK ==
    /\ packages \in Seq(Packages) /\ next \in Nat \ {0}
    /\ phase \in {"validate", "resolve", "order", "compose", "composed", "refused"}
    /\ known \subseteq AllIds /\ IsFiniteSet(known)
    /\ ordered \in Seq(AllIds) /\ ready \subseteq known /\ toolNames \in Seq(Names)
    /\ error \in {"none", "invalid_package", "invalid_tool", "duplicate_package_id",
                  "missing_dependency", "dependency_cycle", "duplicate_tool_name"}

\* a loop that is through has seen all of the list
Passed ==
    /\ phase = "validate" => {packages[n].id : n \in 1..next - 1} \subseteq known
    /\ phase # "validate" /\ phase # "refused" => known = AllIds
    /\ phase = "resolve" =>
          \A n \in DOMAIN packages : n < next =>
             \A k \in DOMAIN packages[n].dependsOn : packages[n].dependsOn[k] \in known
    /\ phase \in {"validate", "resolve"} => ordered = <<>> /\ todo = {}
    /\ error = "none" <=> phase # "refused"

\* Kahn's algorithm: a count is that of the open dependencies, and a package is in ready
\* from when it has none until it is ordered
Counted ==
    phase = "order" =>
        /\ \A id \in known : \A k \in DOMAIN Needs(id) : Needs(id)[k] \in known
        /\ Done \subseteq known /\ ready \cap Done = {}
        /\ IsFiniteSet(Done) /\ Cardinality(Done) = Len(ordered)
        /\ todo \subseteq UNION {{n} \X DOMAIN Needs(n) : n \in known}
        /\ \A e \in todo : Needs(e[1])[e[2]] \in Done
        /\ indegree \in [known -> Int]
        /\ \A id \in known : indegree[id] = Cardinality(Open(id))
        /\ \A id \in known : id \in ready \cup Done <=> Open(id) = {}

\* The counts and the sets of the algorithm agree at every step with the dependencies that
\* are really open.
KahnInv == ComposerTypeOK /\ Passed /\ Counted /\ DependenciesFirst

\* what validatePackageShape and byId have let pass
Checked ==
    /\ phase = "validate" =>
          /\ known = {packages[n].id : n \in 1..next - 1} /\ next <= Len(packages) + 1
          /\ \A n \in 1..next - 1 : /\ packages[n].shape = "ok"
                                    /\ \A m \in 1..n - 1 : packages[m].id # packages[n].id
    /\ phase \in {"resolve", "order", "compose", "composed"} =>
          ~Duplicate /\ \A n \in DOMAIN packages : packages[n].shape = "ok"
    /\ phase \in {"order", "compose", "composed"} => ~Missing
    /\ phase \in {"validate", "resolve", "order"} => toolNames = <<>>

OrderedOnce == \A m, n \in DOMAIN ordered : ordered[m] = ordered[n] => m = n

\* the tools of the first packages of the order: all composed, each once, none inherited
Tools(id) == Package(id).tools
Placed ==
    \A name \in Composed : \E n \in 1..next - 1 : \E k \in DOMAIN Tools(ordered[n]) :
       Tools(ordered[n])[k] = name
Distinct ==
    \A n \in 1..next - 1 : \A k \in DOMAIN Tools(ordered[n]) :
       /\ Tools(ordered[n])[k] \in Composed \ Inherited
       /\ \A j \in 1..k - 1 : Tools(ordered[n])[j] # Tools(ordered[n])[k]
       /\ \A m \in 1..n - 1 : \A j \in DOMAIN Tools(ordered[m]) :
             Tools(ordered[m])[j] # Tools(ordered[n])[k]
ComposedOnce ==
    phase \in {"compose", "composed"} =>
        /\ Done = AllIds /\ next <= Len(ordered) + 1 /\ Placed /\ Distinct
        /\ phase = "composed" => next > Len(ordered)

CauseInv == Checked /\ OrderedOnce /\ ComposedOnce /\ RefusedForCause

\* Every loop of the composer leaves behind it what the loops after it rely on.
ComposerInv == KahnInv /\ CauseInv
================================================================================
