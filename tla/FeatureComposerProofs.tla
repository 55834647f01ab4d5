-------------------------- MODULE FeatureComposerProofs --------------------------
(***************************************************************************)
(* Proofs about FeatureComposer: the invariant of Kahn's algorithm, that   *)
(* dependencies come first and cycles are named, that the order is the one *)
(* PackageOrder promises, and that a list is refused for what is wrong     *)
(* with it only, for every list of packages.                               *)
(***************************************************************************)
EXTENDS FeatureComposer, FiniteSetTheorems, TLAPS

USE DEF ComposerTypeOK

(* A package is found by its id, and what it needs is a sequence of ids. *)
LEMMA PackageFound ==
    ASSUME ComposerTypeOK, NEW id \in AllIds
    PROVE  /\ \E n \in DOMAIN packages : /\ packages[n].id = id
                                         /\ Needs(id) = packages[n].dependsOn
           /\ Needs(id) \in Seq(Ids)
<1>1. PICK n \in DOMAIN packages : packages[n].id = id BY DEF AllIds
<1>2. /\ \E m \in DOMAIN packages : packages[m].id = id
      /\ (CHOOSE m \in DOMAIN packages : packages[m].id = id) \in DOMAIN packages
      /\ packages[CHOOSE m \in DOMAIN packages : packages[m].id = id].id = id
  BY <1>1
<1>3. \A m \in DOMAIN packages : packages[m] \in Packages OBVIOUS
<1>4. \A m \in DOMAIN packages : packages[m].dependsOn \in Seq(Ids) BY <1>3 DEF Packages
<1> QED BY <1>2, <1>4 DEF Needs, Package

(* A set of open dependencies is finite, and its size a count that is zero only if none is open. *)
LEMMA OpenFinite ==
    ASSUME ComposerTypeOK, NEW id \in AllIds
    PROVE  /\ IsFiniteSet(Open(id)) /\ Cardinality(Open(id)) \in Nat
           /\ Cardinality(Open(id)) = 0 <=> Open(id) = {}
<1>1. Needs(id) \in Seq(Ids) BY PackageFound
<1>2. DOMAIN Needs(id) = 1..Len(Needs(id)) /\ Len(Needs(id)) \in Nat BY <1>1
<1>3. IsFiniteSet(1..Len(Needs(id))) BY <1>2, FS_Interval
<1>4. Open(id) \subseteq 1..Len(Needs(id)) BY <1>2 DEF Open
<1>5. IsFiniteSet(Open(id)) BY <1>3, <1>4, FS_Subset
<1> QED BY <1>5, FS_CardinalityType, FS_EmptySet

(* What a package needs is a matter of the list, which no step changes. *)
LEMMA NeedsSame ==
    ASSUME packages' = packages
    PROVE  /\ \A id : Needs(id)' = Needs(id)
           /\ AllIds' = AllIds
BY DEF Needs, Package, AllIds

(* Initially nothing has been counted and no package is ordered. *)
LEMMA InitKahnInv == Init => KahnInv
<1> SUFFICES ASSUME Init PROVE KahnInv OBVIOUS
<1>1. packages \in Seq(Packages) BY ComposerAssumption DEF Init, ComposerAssumption
<1>2. IsFiniteSet({}) BY FS_EmptySet
<1>3. ComposerTypeOK BY <1>1, <1>2 DEF Init
<1>4. Passed BY DEF Init, Passed
<1>5. Counted BY DEF Init, Counted
<1>6. DependenciesFirst BY DEF Init, DependenciesFirst
<1> QED BY <1>3, <1>4, <1>5, <1>6 DEF KahnInv

(* No step of the loops that check or compose touches the order or the counts. *)
LEMMA OrderUntouched ==
    ASSUME KahnInv, packages' = packages, ordered' = ordered, phase' # "order"
    PROVE  Counted' /\ DependenciesFirst'
<1>1. \A id : Needs(id)' = Needs(id) BY NeedsSame
<1>2. DependenciesFirst BY DEF KahnInv
<1>3. DependenciesFirst' BY <1>1, <1>2 DEF DependenciesFirst
<1> QED BY <1>3 DEF Counted

(* A package that enters byId is one of the list. *)
LEMMA RegisterStep == KahnInv /\ Register => KahnInv'
<1> SUFFICES ASSUME KahnInv, Register PROVE KahnInv' OBVIOUS
<1> USE DEF KahnInv
<1> DEFINE package == packages[next]
<1>1. packages' = packages /\ ordered' = ordered /\ phase' # "order" BY DEF Register, Refuse
<1>2. AllIds' = AllIds BY <1>1, NeedsSame
<1>3. package \in Packages /\ package.id \in AllIds BY DEF Register, AllIds
<1>4. IsFiniteSet(known \cup {package.id}) BY FS_AddElement
<1>5. package.shape # "ok" => package.shape \in {"invalid_package", "invalid_tool"}
  BY <1>3 DEF Packages
<1>6. ComposerTypeOK'
  <2>1. CASE package.shape # "ok" \/ package.id \in known
    BY <1>1, <1>2, <1>5, <2>1 DEF Register, Refuse
  <2>2. CASE ~(package.shape # "ok" \/ package.id \in known)
    <3>1. /\ known' = known \cup {package.id} /\ next' = next + 1
          /\ UNCHANGED <<phase, error, ordered, ready, toolNames>>
      BY <2>2 DEF Register
    <3>2. known' \subseteq AllIds' /\ IsFiniteSet(known') /\ ready' \subseteq known'
      BY <1>2, <1>3, <1>4, <3>1
    <3>3. packages' \in Seq(Packages) /\ ordered' \in Seq(AllIds') /\ next' \in Nat \ {0}
      BY <1>1, <1>2, <3>1
    <3> QED BY <3>1, <3>2, <3>3
  <2> QED BY <2>1, <2>2
<1>7. Passed'
  <2>1. CASE package.shape # "ok" \/ package.id \in known
    BY <1>1, <1>5, <2>1 DEF Register, Refuse, Passed
  <2>2. CASE ~(package.shape # "ok" \/ package.id \in known)
    <3>1. \A n \in 1..next : n = next \/ n \in 1..next - 1 OBVIOUS
    <3>2. {packages'[n].id : n \in 1..next' - 1} \subseteq known'
      BY <1>1, <2>2, <3>1 DEF Register, Passed
    <3> QED BY <1>1, <2>2, <3>2 DEF Register, Passed
  <2> QED BY <2>1, <2>2
<1> QED BY <1>1, <1>6, <1>7, OrderUntouched

(* When the first loop is through, byId has every id of the list. *)
LEMMA RegisteredStep == KahnInv /\ Registered => KahnInv'
<1> SUFFICES ASSUME KahnInv, Registered PROVE KahnInv' OBVIOUS
<1> USE DEF KahnInv, Registered
<1>1. packages' = packages /\ ordered' = ordered /\ phase' # "order" OBVIOUS
<1>2. AllIds' = AllIds BY <1>1, NeedsSame
<1>3. ComposerTypeOK' BY <1>1, <1>2
<1>4. known = AllIds
  <2>1. \A n \in DOMAIN packages : n \in 1..next - 1 OBVIOUS
  <2> QED BY <2>1 DEF Passed, AllIds
<1>5. Passed' BY <1>1, <1>2, <1>4 DEF Passed
<1> QED BY <1>1, <1>3, <1>5, OrderUntouched

(* The second loop refuses the list or finds every dependency in byId. *)
LEMMA ResolveStep == KahnInv /\ Resolve => KahnInv'
<1> SUFFICES ASSUME KahnInv, Resolve PROVE KahnInv' OBVIOUS
<1> USE DEF KahnInv, Resolve, Refuse
<1>1. packages' = packages /\ ordered' = ordered /\ phase' # "order" OBVIOUS
<1>2. AllIds' = AllIds BY <1>1, NeedsSame
<1>3. ComposerTypeOK' BY <1>1, <1>2
<1>4. Passed'
  <2>1. CASE \E k \in DOMAIN packages[next].dependsOn : packages[next].dependsOn[k] \notin known
    BY <1>1, <2>1 DEF Passed
  <2>2. CASE ~\E k \in DOMAIN packages[next].dependsOn : packages[next].dependsOn[k] \notin known
    BY <1>1, <1>2, <2>2 DEF Passed
  <2> QED BY <2>1, <2>2
<1> QED BY <1>1, <1>3, <1>4, OrderUntouched

(* Before the loop of Kahn's algorithm every dependency is open. *)
LEMMA CountStep == KahnInv /\ Count => KahnInv'
<1> SUFFICES ASSUME KahnInv, Count PROVE KahnInv' OBVIOUS
<1> USE DEF KahnInv
<1>1. packages' = packages /\ ordered' = ordered /\ todo' = todo /\ known' = known BY DEF Count
<1>2. AllIds' = AllIds /\ \A id : Needs(id)' = Needs(id) BY <1>1, NeedsSame
<1>3. known = AllIds /\ ordered = <<>> /\ todo = {} BY DEF Count, Passed
<1>4. ComposerTypeOK' BY <1>1, <1>2 DEF Count
<1>5. Passed' BY <1>1, <1>2, <1>3 DEF Count, Passed
<1>6. \A id \in known : /\ Needs(id) \in Seq(Ids)
                        /\ \A k \in DOMAIN Needs(id) : Needs(id)[k] \in known
  <2> SUFFICES ASSUME NEW id \in known
               PROVE  /\ Needs(id) \in Seq(Ids)
                      /\ \A k \in DOMAIN Needs(id) : Needs(id)[k] \in known
    OBVIOUS
  <2>1. Needs(id) \in Seq(Ids) BY <1>3, PackageFound
  <2>2. PICK n \in DOMAIN packages : Needs(id) = packages[n].dependsOn BY <1>3, PackageFound
  <2> QED BY <2>1, <2>2 DEF Count, Passed
<1>7. \A id \in known : /\ Open(id)' = 1..Len(Needs(id))
                        /\ Cardinality(Open(id)') = Len(Needs(id))
                        /\ Len(Needs(id)) = 0 <=> Open(id)' = {}
  <2> SUFFICES ASSUME NEW id \in known
               PROVE  /\ Open(id)' = 1..Len(Needs(id))
                      /\ Cardinality(Open(id)') = Len(Needs(id))
                      /\ Len(Needs(id)) = 0 <=> Open(id)' = {}
    OBVIOUS
  <2>1. Len(Needs(id)) \in Nat /\ DOMAIN Needs(id) = 1..Len(Needs(id)) BY <1>6
  <2>2. Open(id)' = 1..Len(Needs(id)) BY <1>1, <1>2, <1>3, <2>1 DEF Open, Done
  <2>3. \A len \in Nat : Cardinality(1..len) = len BY FS_Interval
  <2>4. Cardinality(1..Len(Needs(id))) = Len(Needs(id)) BY <2>1, <2>3
  <2> QED BY <2>1, <2>2, <2>4
<1>8. Counted'
  <2>1. Done' = {} BY <1>1, <1>3 DEF Done
  <2>2. IsFiniteSet({}) /\ Cardinality({}) = 0 BY FS_EmptySet
  <2>3. indegree' = [id \in known |-> Len(Needs(id))]
        /\ ready' = {id \in known : Len(Needs(id)) = 0} BY DEF Count
  <2>4. indegree' \in [known -> Int] BY <1>6, <2>3
  <2>5. \A id \in known : indegree'[id] = Cardinality(Open(id)') BY <1>7, <2>3
  <2>6. \A id \in known : id \in ready' \cup Done' <=> Open(id)' = {} BY <1>7, <2>1, <2>3
  <2> QED BY <1>1, <1>2, <1>3, <1>6, <2>1, <2>2, <2>4, <2>5, <2>6 DEF Counted
<1>9. DependenciesFirst' BY <1>1, <1>3 DEF DependenciesFirst
<1> QED BY <1>4, <1>5, <1>8, <1>9

(* What shift() removes has no open dependency: all it needs has been ordered before it. *)
LEMMA ShiftStep == KahnInv /\ Shift => KahnInv'
<1> SUFFICES ASSUME KahnInv, Shift PROVE KahnInv' OBVIOUS
<1> USE DEF KahnInv
<1>1. PICK first \in ready : /\ ready' = ready \ {first}
                             /\ ordered' = Append(ordered, first)
                             /\ todo' = Dependents(first)
  BY DEF Shift
<1>2. /\ packages' = packages /\ known' = known /\ indegree' = indegree /\ phase' = phase
      /\ next' = next /\ toolNames' = toolNames /\ error' = error /\ cycleIds' = cycleIds
      /\ phase = "order" /\ todo = {}
  BY DEF Shift
<1>3. AllIds' = AllIds /\ \A id : Needs(id)' = Needs(id) BY <1>2, NeedsSame
<1>4. first \in known /\ first \in AllIds /\ known \subseteq AllIds /\ first \notin Done
  BY <1>2 DEF Counted
<1>5. ordered \in Seq(AllIds) OBVIOUS
<1>6. Done' = Done \cup {first}
  <2>1. DOMAIN ordered' = DOMAIN ordered \cup {Len(ordered) + 1} BY <1>1, <1>4, <1>5
  <2>2. \A n \in DOMAIN ordered : ordered'[n] = ordered[n] BY <1>1, <1>4, <1>5
  <2>3. ordered'[Len(ordered) + 1] = first BY <1>1, <1>4, <1>5
  <2> QED BY <2>1, <2>2, <2>3 DEF Done
<1>7. ComposerTypeOK'
  <2>1. ordered' \in Seq(AllIds') BY <1>1, <1>3, <1>4, <1>5
  <2> QED BY <1>1, <1>2, <1>3, <2>1
<1>8. Passed' BY <1>2, <1>3 DEF Passed
<1>9. \A id \in known : Open(id)' = Open(id)
  <2>1. \A id \in known : \A k \in DOMAIN Needs(id) :
           <<id, k>> \in todo' <=> Needs(id)[k] = first
    <3> SUFFICES ASSUME NEW id \in known, NEW k \in DOMAIN Needs(id)
                 PROVE  <<id, k>> \in todo' <=> Needs(id)[k] = first
      OBVIOUS
    <3>1. <<id, k>> \in {id} \X DOMAIN Needs(id) OBVIOUS
    <3>2. <<id, k>> \in UNION {{n} \X DOMAIN Needs(n) : n \in known} BY <3>1
    <3> QED BY <1>1, <3>2 DEF Dependents
  <2> QED BY <1>2, <1>3, <1>4, <1>6, <2>1 DEF Open
<1>10. Counted'
  <2>1. IsFiniteSet(Done') /\ Cardinality(Done') = Cardinality(Done) + 1
    BY <1>2, <1>4, <1>6, FS_AddElement DEF Counted
  <2>2. Len(ordered') = Len(ordered) + 1 BY <1>1, <1>4, <1>5
  <2>3. Cardinality(Done') = Len(ordered') BY <1>2, <2>1, <2>2 DEF Counted
  <2>4. /\ todo' \subseteq UNION {{n} \X DOMAIN Needs(n) : n \in known}
        /\ \A e \in todo' : Needs(e[1])[e[2]] \in Done'
    BY <1>1, <1>6 DEF Dependents
  <2>5. \A id \in known : indegree[id] = Cardinality(Open(id)') BY <1>2, <1>9 DEF Counted
  <2>6. ready' \cup Done' = ready \cup Done BY <1>1, <1>6
  <2>7. \A id \in known : id \in ready' \cup Done' <=> Open(id)' = {}
    BY <1>2, <1>9, <2>6 DEF Counted
  <2>8. Done' \subseteq known /\ ready' \cap Done' = {} BY <1>1, <1>2, <1>4, <1>6 DEF Counted
  <2>9. /\ \A id \in known : \A k \in DOMAIN Needs(id) : Needs(id)[k] \in known
        /\ indegree \in [known -> Int]
    BY <1>2 DEF Counted
  <2> QED BY <1>2, <1>3, <2>1, <2>3, <2>4, <2>5, <2>7, <2>8, <2>9 DEF Counted
<1>11. DependenciesFirst'
  <2>1. \A k \in DOMAIN Needs(first) : Needs(first)[k] \in Done
    <3>1. Open(first) = {} BY <1>2, <1>4 DEF Counted
    <3> QED BY <3>1 DEF Open
  <2>2. \A k \in DOMAIN Needs(first) : \E m \in 1..Len(ordered) : ordered[m] = Needs(first)[k]
    BY <1>5, <2>1 DEF Done
  <2> SUFFICES ASSUME NEW n \in DOMAIN ordered', NEW k \in DOMAIN Needs(ordered'[n])
               PROVE  \E m \in 1..n - 1 : ordered'[m] = Needs(ordered'[n])[k]
    BY <1>3 DEF DependenciesFirst
  <2>3. /\ Len(ordered) \in Nat /\ n \in 1..Len(ordered) + 1
        /\ \A m \in 1..Len(ordered) : ordered'[m] = ordered[m]
        /\ ordered'[Len(ordered) + 1] = first
    BY <1>1, <1>4, <1>5
  <2>4. CASE n = Len(ordered) + 1
    <3>1. PICK m \in 1..Len(ordered) : ordered[m] = Needs(first)[k] BY <2>2, <2>3, <2>4
    <3> QED BY <2>3, <2>4, <3>1
  <2>5. CASE n # Len(ordered) + 1
    <3>1. n \in DOMAIN ordered /\ ordered'[n] = ordered[n] BY <1>5, <2>3, <2>5
    <3>2. PICK m \in 1..n - 1 : ordered[m] = Needs(ordered[n])[k]
      BY <3>1 DEF DependenciesFirst
    <3>3. m \in 1..Len(ordered) BY <2>3, <2>5
    <3> QED BY <2>3, <3>1, <3>2, <3>3
  <2> QED BY <2>4, <2>5
<1> QED BY <1>7, <1>8, <1>10, <1>11

(* The count of a dependent goes down by the one dependency that is no longer open. *)
LEMMA CountDownStep == KahnInv /\ CountDown => KahnInv'
<1> SUFFICES ASSUME KahnInv, CountDown PROVE KahnInv' OBVIOUS
<1> USE DEF KahnInv
<1>1. PICK e \in todo :
        /\ todo' = todo \ {e}
        /\ indegree' = [indegree EXCEPT ![e[1]] = @ - 1]
        /\ ready' = IF indegree[e[1]] - 1 = 0 THEN ready \cup {e[1]} ELSE ready
  BY DEF CountDown
<1>2. /\ packages' = packages /\ known' = known /\ ordered' = ordered /\ phase' = phase
      /\ next' = next /\ toolNames' = toolNames /\ error' = error /\ cycleIds' = cycleIds
      /\ phase = "order"
  BY DEF CountDown
<1>3. AllIds' = AllIds /\ \A id : Needs(id)' = Needs(id) BY <1>2, NeedsSame
<1>4. Done' = Done BY <1>2 DEF Done
<1>5. PICK d \in known : \E j \in DOMAIN Needs(d) : e = <<d, j>>
  <2>1. e \in UNION {{n} \X DOMAIN Needs(n) : n \in known} BY <1>2 DEF Counted
  <2>2. PICK n \in known : e \in {n} \X DOMAIN Needs(n) BY <2>1
  <2> QED BY <2>2
<1>6. PICK k \in DOMAIN Needs(d) : e = <<d, k>> BY <1>5
<1>7. known \subseteq AllIds OBVIOUS
<1>8. k \in Open(d) /\ Needs(d)[k] \in Done BY <1>1, <1>2, <1>5, <1>6 DEF Open, Counted
<1>9. Open(d)' = Open(d) \ {k} BY <1>1, <1>3, <1>4, <1>5, <1>6, <1>8 DEF Open
<1>10. \A id \in known \ {d} : Open(id)' = Open(id) BY <1>1, <1>3, <1>4, <1>5, <1>6 DEF Open
<1>11. Cardinality(Open(d)') = Cardinality(Open(d)) - 1
  <2>1. IsFiniteSet(Open(d)) BY <1>7, OpenFinite
  <2> QED BY <1>8, <1>9, <2>1, FS_RemoveElement
<1>12. d \notin ready \cup Done BY <1>2, <1>8 DEF Counted
<1>13. ComposerTypeOK'
  <2>1. ready' \subseteq known BY <1>1, <1>5, <1>6
  <2> QED BY <1>2, <1>3, <2>1
<1>14. Passed' BY <1>2, <1>3 DEF Passed
<1>15. indegree' = [indegree EXCEPT ![d] = @ - 1] /\ indegree \in [known -> Int]
  BY <1>1, <1>2, <1>5, <1>6 DEF Counted
<1>16. indegree[d] - 1 = Cardinality(Open(d)') BY <1>2, <1>11 DEF Counted
<1>17. Counted'
  <2>1. indegree' \in [known -> Int] BY <1>15
  <2>2. \A id \in known : indegree'[id] = Cardinality(Open(id)')
    <3>1. indegree'[d] = Cardinality(Open(d)') BY <1>15, <1>16
    <3>2. \A id \in known \ {d} : indegree'[id] = indegree[id] BY <1>15
    <3>3. \A id \in known \ {d} : indegree[id] = Cardinality(Open(id)) BY <1>2 DEF Counted
    <3> QED BY <1>10, <3>1, <3>2, <3>3
  <2>3. Open(d)' = {} <=> indegree[d] - 1 = 0
    <3>1. IsFiniteSet(Open(d)) BY <1>7, OpenFinite
    <3>2. IsFiniteSet(Open(d)') BY <1>9, <3>1, FS_Subset
    <3> QED BY <1>16, <3>2, FS_EmptySet
  <2>4. ready' = IF indegree[d] - 1 = 0 THEN ready \cup {d} ELSE ready BY <1>1, <1>5, <1>6
  <2>5. \A id \in known : id \in ready' \cup Done' <=> Open(id)' = {}
    <3>1. d \in ready' \cup Done' <=> Open(d)' = {} BY <1>4, <1>12, <2>3, <2>4
    <3>2. \A id \in known \ {d} : id \in ready' \cup Done' <=> id \in ready \cup Done
      BY <1>4, <2>4
    <3>3. \A id \in known \ {d} : id \in ready \cup Done <=> Open(id) = {} BY <1>2 DEF Counted
    <3> QED BY <1>10, <3>1, <3>2, <3>3
  <2>6. ready' \cap Done' = {} BY <1>2, <1>4, <1>12, <2>4 DEF Counted
  <2>7. todo' \subseteq todo BY <1>1
  <2>8. /\ \A id \in known : \A j \in DOMAIN Needs(id) : Needs(id)[j] \in known
        /\ Done \subseteq known /\ IsFiniteSet(Done) /\ Cardinality(Done) = Len(ordered)
        /\ todo \subseteq UNION {{n} \X DOMAIN Needs(n) : n \in known}
        /\ \A f \in todo : Needs(f[1])[f[2]] \in Done
    BY <1>2 DEF Counted
  <2> QED BY <1>2, <1>3, <1>4, <2>1, <2>2, <2>5, <2>6, <2>7, <2>8 DEF Counted
<1>18. DependenciesFirst' BY <1>2, <1>3 DEF DependenciesFirst
<1> QED BY <1>13, <1>14, <1>17, <1>18

(* When ready is empty the packages are all ordered or some are left. *)
LEMMA EndOrderStep == KahnInv /\ EndOrder => KahnInv'
<1> SUFFICES ASSUME KahnInv, EndOrder PROVE KahnInv' OBVIOUS
<1> USE DEF KahnInv, EndOrder, Refuse
<1>1. packages' = packages /\ ordered' = ordered /\ phase' # "order" OBVIOUS
<1>2. AllIds' = AllIds BY <1>1, NeedsSame
<1>3. ComposerTypeOK' BY <1>1, <1>2
<1>4. Passed' BY <1>1, <1>2 DEF Passed
<1> QED BY <1>1, <1>3, <1>4, OrderUntouched

(* The tools of a package are taken over together or not at all. *)
LEMMA ComposeStep == KahnInv /\ Compose => KahnInv'
<1> SUFFICES ASSUME KahnInv, Compose PROVE KahnInv' OBVIOUS
<1> USE DEF KahnInv, Compose, Refuse
<1> DEFINE tools == Package(ordered[next]).tools
<1>1. packages' = packages /\ ordered' = ordered /\ phase' # "order" OBVIOUS
<1>2. AllIds' = AllIds BY <1>1, NeedsSame
<1>3. tools \in Seq(Names)
  <2>1. ordered[next] \in AllIds OBVIOUS
  <2>2. PICK n \in DOMAIN packages : packages[n].id = ordered[next] BY <2>1 DEF AllIds
  <2>3. Package(ordered[next]) \in Packages BY <2>2 DEF Package
  <2> QED BY <2>3 DEF Packages
<1>4. toolNames' \in Seq(Names)
  <2>1. toolNames' = toolNames \/ toolNames' = toolNames \o tools OBVIOUS
  <2>2. toolNames \in Seq(Names) OBVIOUS
  <2>3. \A s, t \in Seq(Names) : s \o t \in Seq(Names) OBVIOUS
  <2> HIDE DEF tools, KahnInv, Compose
  <2> QED BY <1>3, <2>1, <2>2, <2>3
<1>5. ComposerTypeOK' BY <1>1, <1>2, <1>4
<1>6. Passed' BY <1>1, <1>2 DEF Passed
<1> QED BY <1>1, <1>5, <1>6, OrderUntouched

(* The end of the composition changes nothing that the invariant is about. *)
LEMMA EndComposeStep == KahnInv /\ EndCompose => KahnInv'
<1> SUFFICES ASSUME KahnInv, EndCompose PROVE KahnInv' OBVIOUS
<1> USE DEF KahnInv, EndCompose
<1>1. packages' = packages /\ ordered' = ordered /\ phase' # "order" OBVIOUS
<1>2. AllIds' = AllIds BY <1>1, NeedsSame
<1>3. ComposerTypeOK' BY <1>1, <1>2
<1>4. Passed' BY <1>1, <1>2 DEF Passed
<1> QED BY <1>1, <1>3, <1>4, OrderUntouched

(* A step that leaves every variable alone leaves the invariant alone. *)
LEMMA ComposerStutter == KahnInv /\ UNCHANGED composerVars => KahnInv'
<1> SUFFICES ASSUME KahnInv, UNCHANGED composerVars PROVE KahnInv' OBVIOUS
<1> USE DEF KahnInv, composerVars
<1>1. packages' = packages /\ ordered' = ordered /\ todo' = todo OBVIOUS
<1>2. AllIds' = AllIds /\ \A id : Needs(id)' = Needs(id) BY <1>1, NeedsSame
<1>3. Done' = Done /\ \A id : Open(id)' = Open(id) BY <1>1, <1>2 DEF Done, Open
<1>4. ComposerTypeOK' BY <1>2
<1>5. Passed' BY <1>2 DEF Passed
<1>6. Counted' BY <1>2, <1>3 DEF Counted
<1>7. DependenciesFirst' BY <1>2 DEF DependenciesFirst
<1> QED BY <1>4, <1>5, <1>6, <1>7

(* Every step of the composer keeps the invariant. *)
LEMMA ComposerStep == KahnInv /\ [Next]_composerVars => KahnInv'
BY RegisterStep, RegisteredStep, ResolveStep, CountStep, ShiftStep, CountDownStep, EndOrderStep,
   ComposeStep, EndComposeStep, ComposerStutter DEF Next

(* The counts and sets of Kahn's algorithm (order.ts, topologicalOrder) agree at every     *)
(* step with the dependencies that are really open, for every list of packages.            *)
THEOREM KahnInvariant == Spec => []KahnInv
<1>1. Init => KahnInv BY InitKahnInv
<1>2. KahnInv /\ [Next]_composerVars => KahnInv' BY ComposerStep
<1> QED BY <1>1, <1>2, PTL DEF Spec

(* No package is ordered before one that it depends on. *)
THEOREM DependenciesOrdered == Spec => []DependenciesFirst
<1>1. KahnInv => DependenciesFirst BY DEF KahnInv
<1> QED BY <1>1, KahnInvariant, PTL

--------------------------------------------------------------------------------
(* Cycles.                                                                   *)

\* no set of packages that all depend on one another is ever begun
NoneOfStuck == \A S \in SUBSET known : Stuck(S) => S \cap Done = {}

CycleInv == NoneOfStuck /\ CycleNamed

(* A step that orders nothing and names no cycle keeps what is said of cycles. *)
LEMMA CycleUntouched ==
    ASSUME KahnInv, CycleInv, packages' = packages, ordered' = ordered, cycleIds' = cycleIds,
           known' = known, error' # "dependency_cycle" \/ error' = error
    PROVE  CycleInv'
<1>1. \A id : Needs(id)' = Needs(id) BY NeedsSame
<1>2. \A S : Stuck(S)' <=> Stuck(S) BY <1>1 DEF Stuck
<1>3. Done' = Done BY DEF Done
<1>4. NoneOfStuck' BY <1>2, <1>3 DEF CycleInv, NoneOfStuck
<1>5. CycleNamed' BY <1>2 DEF CycleInv, CycleNamed
<1> QED BY <1>4, <1>5 DEF CycleInv

(* While the list is validated nothing is ordered. *)
LEMMA CycleRegister == KahnInv /\ CycleInv /\ Register => CycleInv'
<1> SUFFICES ASSUME KahnInv, CycleInv, Register PROVE CycleInv' OBVIOUS
<1>1. Done' = {} BY DEF Register, KahnInv, Passed, Done
<1>2. packages[next] \in Packages BY DEF Register, KahnInv
<1>3. error' # "dependency_cycle"
  BY <1>2 DEF Register, Refuse, KahnInv, Passed, Packages
<1> QED BY <1>1, <1>3 DEF CycleInv, NoneOfStuck, CycleNamed

(* What is shifted needs nothing that is left, so it is in no such set. *)
LEMMA CycleShift == KahnInv /\ CycleInv /\ Shift => CycleInv'
<1> SUFFICES ASSUME KahnInv, CycleInv, Shift PROVE CycleInv' OBVIOUS
<1> USE DEF KahnInv
<1>1. PICK first \in ready : ordered' = Append(ordered, first) BY DEF Shift
<1>2. /\ packages' = packages /\ known' = known /\ error' = error /\ phase = "order"
      /\ todo = {}
  BY DEF Shift
<1>3. \A id : Needs(id)' = Needs(id) BY <1>2, NeedsSame
<1>4. \A S : Stuck(S)' <=> Stuck(S) BY <1>3 DEF Stuck
<1>5. Done' = Done \cup {first}
  <2>1. ordered \in Seq(AllIds) /\ first \in AllIds OBVIOUS
  <2>2. DOMAIN ordered' = DOMAIN ordered \cup {Len(ordered) + 1} BY <1>1, <2>1
  <2>3. \A n \in DOMAIN ordered : ordered'[n] = ordered[n] BY <1>1, <2>1
  <2>4. ordered'[Len(ordered) + 1] = first BY <1>1, <2>1
  <2> QED BY <2>2, <2>3, <2>4 DEF Done
<1>6. \A k \in DOMAIN Needs(first) : Needs(first)[k] \in Done
  <2>1. first \in known /\ Open(first) = {} BY <1>2 DEF Counted
  <2> QED BY <2>1 DEF Open
<1>7. NoneOfStuck'
  <2> SUFFICES ASSUME NEW S \in SUBSET known, Stuck(S) PROVE S \cap (Done \cup {first}) = {}
    BY <1>2, <1>4, <1>5 DEF NoneOfStuck
  <2>1. S \cap Done = {} BY DEF CycleInv, NoneOfStuck
  <2>2. first \notin S BY <1>6, <2>1 DEF Stuck
  <2> QED BY <2>1, <2>2
<1>8. CycleNamed' BY <1>2 DEF CycleNamed, Passed
<1> QED BY <1>7, <1>8 DEF CycleInv

(* What is left when nothing is ready is the largest such set. *)
LEMMA CycleEnd == KahnInv /\ CycleInv /\ EndOrder => CycleInv'
<1> SUFFICES ASSUME KahnInv, CycleInv, EndOrder PROVE CycleInv' OBVIOUS
<1> USE DEF KahnInv
<1>1. /\ packages' = packages /\ known' = known /\ ordered' = ordered /\ phase = "order"
      /\ todo = {} /\ ready = {}
  BY DEF EndOrder
<1>2. \A id : Needs(id)' = Needs(id) BY <1>1, NeedsSame
<1>3. \A S : Stuck(S)' <=> Stuck(S) BY <1>2 DEF Stuck
<1>4. Done' = Done BY <1>1 DEF Done
<1>5. NoneOfStuck' BY <1>1, <1>3, <1>4 DEF CycleInv, NoneOfStuck
<1>6. CASE Len(ordered) = Cardinality(known)
  BY <1>1, <1>3, <1>5, <1>6 DEF EndOrder, CycleInv, CycleNamed, Passed
<1>7. CASE Len(ordered) # Cardinality(known)
  <2> DEFINE rest == known \ Done
  <2>1. \A id \in known : indegree[id] > 0 <=> id \notin Done
    <3> SUFFICES ASSUME NEW id \in known PROVE indegree[id] > 0 <=> id \notin Done OBVIOUS
    <3>1. /\ Cardinality(Open(id)) \in Nat
          /\ Cardinality(Open(id)) = 0 <=> Open(id) = {}
      BY OpenFinite
    <3>2. indegree[id] = Cardinality(Open(id)) /\ (id \in Done <=> Open(id) = {})
      BY <1>1 DEF Counted
    <3> QED BY <3>1, <3>2
  <2>2. cycleIds' = rest BY <1>7, <2>1 DEF EndOrder, Refuse
  <2>3. rest # {}
    <3>1. Done \subseteq known /\ Cardinality(Done) = Len(ordered) BY <1>1 DEF Counted
    <3>2. Done # known BY <1>7, <3>1
    <3> QED BY <3>1, <3>2
  <2>4. Stuck(rest)
    <3> SUFFICES ASSUME NEW id \in known, id \notin Done
                 PROVE  \E k \in DOMAIN Needs(id) : Needs(id)[k] \in rest
      BY DEF Stuck
    <3>1. Open(id) # {} BY <1>1 DEF Counted
    <3>2. PICK k \in DOMAIN Needs(id) : Needs(id)[k] \notin Done BY <1>1, <3>1 DEF Open
    <3> QED BY <1>1, <3>2 DEF Counted
  <2>5. \A S \in SUBSET known : Stuck(S) => S \subseteq rest BY DEF CycleInv, NoneOfStuck
  <2> HIDE DEF rest
  <2>6. CycleNamed' BY <1>1, <1>3, <2>2, <2>3, <2>4, <2>5 DEF CycleNamed
  <2> QED BY <1>5, <2>6 DEF CycleInv
<1> QED BY <1>6, <1>7

(* A dependency_cycle names all of the packages that cannot be ordered and no other: the *)
(* largest set of which each depends on one in the set (order.ts, lines 99 to 108).       *)
THEOREM CyclesNamed == Spec => []CycleNamed
<1>1. Init => CycleInv
  BY DEF Init, CycleInv, NoneOfStuck, CycleNamed, Done
<1>2. KahnInv /\ CycleInv /\ [Next]_composerVars => CycleInv'
  <2> SUFFICES ASSUME KahnInv, CycleInv, [Next]_composerVars PROVE CycleInv' OBVIOUS
  <2>1. CASE Register BY <2>1, CycleRegister
  <2>2. CASE Registered BY <2>2, CycleUntouched DEF Registered
  <2>3. CASE Resolve
    <3>1. error' # "dependency_cycle" \/ error' = error BY <2>3 DEF Resolve, Refuse
    <3> QED BY <2>3, <3>1, CycleUntouched DEF Resolve
  <2>4. CASE Count BY <2>4, CycleUntouched DEF Count
  <2>5. CASE Shift BY <2>5, CycleShift
  <2>6. CASE CountDown BY <2>6, CycleUntouched DEF CountDown
  <2>7. CASE EndOrder BY <2>7, CycleEnd
  <2>8. CASE Compose
    <3>1. error' # "dependency_cycle" \/ error' = error BY <2>8 DEF Compose, Refuse
    <3> QED BY <2>8, <3>1, CycleUntouched DEF Compose
  <2>9. CASE EndCompose BY <2>9, CycleUntouched DEF EndCompose
  <2>10. CASE UNCHANGED composerVars BY <2>10, CycleUntouched DEF composerVars
  <2> QED BY <2>1, <2>2, <2>3, <2>4, <2>5, <2>6, <2>7, <2>8, <2>9, <2>10 DEF Next
<1>3. CycleInv => CycleNamed BY DEF CycleInv
<1> QED BY <1>1, <1>2, <1>3, KahnInvariant, PTL DEF Spec

--------------------------------------------------------------------------------
(* The order is that of PackageOrder.                                        *)

(* A package is ready when all it needs has been ordered and it has not. *)
LEMMA ReadyIsFree ==
    ASSUME KahnInv, phase = "order", todo = {}
    PROVE  O!Free = ready
<1> USE DEF KahnInv
<1>1. known = AllIds BY DEF Passed
<1>2. O!Done = Done BY DEF O!Done, Done
<1>3. \A id \in AllIds : NeedsOf[id] \subseteq Done <=> Open(id) = {} BY DEF NeedsOf, Open
<1>4. \A id \in AllIds : id \in ready \cup Done <=> Open(id) = {} BY <1>1 DEF Counted
<1>5. ready \cap Done = {} /\ ready \subseteq AllIds BY <1>1 DEF Counted
<1>6. DOMAIN NeedsOf = AllIds BY DEF NeedsOf
<1> QED BY <1>2, <1>3, <1>4, <1>5, <1>6 DEF O!Free

(* A step that orders nothing and decides nothing is a stutter of PackageOrder. *)
LEMMA OrderStutter ==
    ASSUME packages' = packages, ordered' = ordered, cycleIds' = cycleIds, Verdict' = Verdict
    PROVE  UNCHANGED <<NeedsOf, ordered, Verdict, cycleIds>>
<1>1. AllIds' = AllIds /\ \A id : Needs(id)' = Needs(id) BY NeedsSame
<1>2. NeedsOf' = NeedsOf BY <1>1 DEF NeedsOf
<1> QED BY <1>2

(* What is refused before the order is begun is refused by PackageOrder. *)
LEMMA RefuseImplements ==
    ASSUME KahnInv, phase \in {"validate", "resolve"}, packages' = packages,
           ordered' = ordered, cycleIds' = cycleIds, phase' = "refused",
           error' \notin {"dependency_cycle", "duplicate_tool_name", "none"}
    PROVE  O!Refuse
<1> USE DEF KahnInv
<1>1. ordered = <<>> /\ error = "none" BY DEF Passed
<1>2. Verdict = "open" /\ Verdict' = "refused" BY <1>1 DEF Verdict
<1>3. AllIds' = AllIds /\ \A id : Needs(id)' = Needs(id) BY NeedsSame
<1>4. NeedsOf' = NeedsOf BY <1>3 DEF NeedsOf
<1> QED BY <1>1, <1>2, <1>4 DEF O!Refuse

(* shift() takes the package that PackageOrder places. *)
LEMMA ShiftImplements == KahnInv /\ Shift => O!Place
<1> SUFFICES ASSUME KahnInv, Shift PROVE O!Place OBVIOUS
<1>1. /\ packages' = packages /\ phase' = phase /\ error' = error /\ cycleIds' = cycleIds
      /\ phase = "order" /\ todo = {} /\ error = "none"
  BY DEF Shift, KahnInv, Passed
<1>2. Verdict = "open" /\ Verdict' = Verdict BY <1>1 DEF Verdict
<1>3. AllIds' = AllIds /\ \A id : Needs(id)' = Needs(id) BY <1>1, NeedsSame
<1>4. NeedsOf' = NeedsOf BY <1>3 DEF NeedsOf
<1>5. O!Free = ready BY <1>1, ReadyIsFree
<1> QED BY <1>1, <1>2, <1>4, <1>5 DEF Shift, O!Place

(* When ready is empty PackageOrder has nothing to place, and ends the same way. *)
LEMMA EndImplements == KahnInv /\ EndOrder => O!Finish
<1> SUFFICES ASSUME KahnInv, EndOrder PROVE O!Finish OBVIOUS
<1>1. /\ packages' = packages /\ ordered' = ordered
      /\ phase = "order" /\ todo = {} /\ ready = {} /\ error = "none"
  BY DEF EndOrder, KahnInv, Passed
<1>2. Verdict = "open" BY <1>1 DEF Verdict
<1>3. AllIds' = AllIds /\ \A id : Needs(id)' = Needs(id) BY <1>1, NeedsSame
<1>4. NeedsOf' = NeedsOf /\ DOMAIN NeedsOf = AllIds BY <1>3 DEF NeedsOf
<1>5. O!Free = {} BY <1>1, ReadyIsFree
<1>6. O!Done = Done BY DEF O!Done, Done
<1>7. known = AllIds BY <1>1 DEF KahnInv, Passed
<1>8. Done \subseteq known /\ Cardinality(Done) = Len(ordered) /\ IsFiniteSet(known)
  BY <1>1 DEF KahnInv, Counted
<1>9. Done = known <=> Len(ordered) = Cardinality(known) BY <1>8, FS_Subset
<1>10. CASE Len(ordered) = Cardinality(known)
  <2>1. phase' = "compose" /\ cycleIds' = cycleIds /\ error' = "none"
    BY <1>1, <1>10 DEF EndOrder
  <2>2. Verdict' = "all" BY <2>1 DEF Verdict
  <2> QED BY <1>1, <1>2, <1>4, <1>5, <1>6, <1>7, <1>9, <1>10, <2>1, <2>2 DEF O!Finish
<1>11. CASE Len(ordered) # Cardinality(known)
  <2>1. /\ phase' = "refused" /\ error' = "dependency_cycle"
        /\ cycleIds' = {id \in known : indegree[id] > 0}
    BY <1>11 DEF EndOrder, Refuse
  <2>2. Verdict' = "cycle" BY <2>1 DEF Verdict
  <2>3. \A id \in known : indegree[id] > 0 <=> id \notin Done
    <3> SUFFICES ASSUME NEW id \in known PROVE indegree[id] > 0 <=> id \notin Done OBVIOUS
    <3>1. /\ Cardinality(Open(id)) \in Nat
          /\ Cardinality(Open(id)) = 0 <=> Open(id) = {}
      BY <1>7, OpenFinite DEF KahnInv
    <3>2. indegree[id] = Cardinality(Open(id)) /\ (id \in Done <=> Open(id) = {})
      BY <1>1 DEF KahnInv, Counted
    <3> QED BY <3>1, <3>2
  <2>4. cycleIds' = AllIds \ Done BY <1>7, <2>1, <2>3
  <2> QED BY <1>1, <1>2, <1>4, <1>5, <1>6, <1>7, <1>9, <1>11, <2>2, <2>4 DEF O!Finish
<1> QED BY <1>10, <1>11

(* The composer implements PackageOrder: for every list of packages the order is the one   *)
(* that always takes the least package that can be next, so it does not depend on how the  *)
(* packages are listed, and a list is refused before anything is ordered or for its cycle. *)
THEOREM OrderImplemented == Spec => ImplementsOrder
<1>1. Init => O!OrderInit
  BY DEF Init, O!OrderInit, Verdict
<1>2. KahnInv /\ [Next]_composerVars
      => [O!OrderNext]_<<NeedsOf, ordered, Verdict, cycleIds>>
  <2> SUFFICES ASSUME KahnInv, [Next]_composerVars
               PROVE  O!OrderNext \/ UNCHANGED <<NeedsOf, ordered, Verdict, cycleIds>>
    OBVIOUS
  <2>0. error = "none" <=> phase # "refused" BY DEF KahnInv, Passed
  <2>1. CASE Register
    <3>1. CASE packages[next].shape # "ok" \/ packages[next].id \in known
      <4>1. packages[next].shape \in {"ok", "invalid_package", "invalid_tool"}
        <5>1. packages[next] \in Packages BY <2>1 DEF Register, KahnInv
        <5> QED BY <5>1 DEF Packages
      <4>2. error' \notin {"dependency_cycle", "duplicate_tool_name", "none"}
        BY <2>1, <3>1, <4>1 DEF Register, Refuse
      <4>3. O!Refuse BY <2>1, <3>1, <4>2, RefuseImplements DEF Register, Refuse
      <4> QED BY <4>3 DEF O!OrderNext
    <3>2. CASE ~(packages[next].shape # "ok" \/ packages[next].id \in known)
      <4>1. Verdict' = Verdict BY <2>1, <3>2 DEF Register, Verdict
      <4> QED BY <2>1, <4>1, OrderStutter DEF Register
    <3> QED BY <3>1, <3>2
  <2>2. CASE Registered
    <3>1. Verdict' = Verdict BY <2>0, <2>2 DEF Registered, Verdict
    <3> QED BY <2>2, <3>1, OrderStutter DEF Registered
  <2>3. CASE Resolve
    <3>1. CASE phase' = "refused"
      <4>1. error' = "missing_dependency" BY <2>3, <3>1 DEF Resolve, Refuse
      <4>2. O!Refuse BY <2>3, <3>1, <4>1, RefuseImplements DEF Resolve
      <4> QED BY <4>2 DEF O!OrderNext
    <3>2. CASE phase' # "refused"
      <4>1. Verdict' = Verdict BY <2>3, <3>2 DEF Resolve, Refuse, Verdict
      <4> QED BY <2>3, <4>1, OrderStutter DEF Resolve
    <3> QED BY <3>1, <3>2
  <2>4. CASE Count
    <3>1. Verdict' = Verdict BY <2>0, <2>4 DEF Count, Verdict
    <3> QED BY <2>4, <3>1, OrderStutter DEF Count
  <2>5. CASE Shift BY <2>5, ShiftImplements DEF O!OrderNext
  <2>6. CASE CountDown
    <3>1. Verdict' = Verdict BY <2>6 DEF CountDown, Verdict
    <3> QED BY <2>6, <3>1, OrderStutter DEF CountDown
  <2>7. CASE EndOrder BY <2>7, EndImplements DEF O!OrderNext
  <2>8. CASE Compose
    <3>1. Verdict' = Verdict BY <2>0, <2>8 DEF Compose, Refuse, Verdict
    <3> QED BY <2>8, <3>1, OrderStutter DEF Compose
  <2>9. CASE EndCompose
    <3>1. Verdict' = Verdict BY <2>0, <2>9 DEF EndCompose, Verdict
    <3> QED BY <2>9, <3>1, OrderStutter DEF EndCompose
  <2>10. CASE UNCHANGED composerVars
    <3>1. Verdict' = Verdict BY <2>10 DEF composerVars, Verdict
    <3> QED BY <2>10, <3>1, OrderStutter DEF composerVars
  <2> QED BY <2>1, <2>2, <2>3, <2>4, <2>5, <2>6, <2>7, <2>8, <2>9, <2>10 DEF Next
<1> QED BY <1>1, <1>2, KahnInvariant, PTL DEF Spec, ImplementsOrder, O!Order

--------------------------------------------------------------------------------
(* Causes.                                                                   *)

(* What is wrong with a list, and the tools of a package, are a matter of the list. *)
LEMMA CauseSame ==
    ASSUME packages' = packages
    PROVE  /\ AllIds' = AllIds /\ (\A id : Tools(id)' = Tools(id)) /\ ToolPlaces' = ToolPlaces
           /\ \A n, k : ToolAt(n, k)' = ToolAt(n, k)
           /\ Duplicate' <=> Duplicate
           /\ Missing' <=> Missing
           /\ DuplicateTool' <=> DuplicateTool
           /\ \A code : Misshapen(code)' <=> Misshapen(code)
<1>1. AllIds' = AllIds BY DEF AllIds
<1>2. /\ \A id : Tools(id)' = Tools(id)
      /\ ToolPlaces' = ToolPlaces /\ \A n, k : ToolAt(n, k)' = ToolAt(n, k)
  BY DEF Tools, Package, ToolPlaces, ToolAt
<1>3. Duplicate' <=> Duplicate BY DEF Duplicate
<1>4. Missing' <=> Missing BY <1>1 DEF Missing
<1>5. DuplicateTool' <=> DuplicateTool BY <1>2 DEF DuplicateTool
<1>6. \A code : Misshapen(code)' <=> Misshapen(code) BY DEF Misshapen
<1> QED BY <1>1, <1>2, <1>3, <1>4, <1>5, <1>6

(* While no error is raised and nothing composed the causes are what they were. *)
LEMMA CauseKept ==
    ASSUME RefusedForCause, packages' = packages, error' = error, phase' # "composed"
    PROVE  RefusedForCause'
BY CauseSame DEF RefusedForCause

(* A refusal in the first loops is for its cause, and ends the rest. *)
LEMMA RefusedEarly ==
    ASSUME packages' = packages, phase' = "refused", ordered' = ordered, OrderedOnce,
           \/ error' \in {"invalid_package", "invalid_tool"} /\ Misshapen(error')
           \/ error' = "duplicate_package_id" /\ Duplicate
           \/ error' = "missing_dependency" /\ Missing
           \/ error' = "duplicate_tool_name" /\ DuplicateTool
           \/ error' = "dependency_cycle"
    PROVE  CauseInv'
<1>1. RefusedForCause' BY CauseSame DEF RefusedForCause, Misshapen
<1>2. OrderedOnce' BY DEF OrderedOnce
<1>3. Checked' BY DEF Checked
<1>4. ComposedOnce' BY DEF ComposedOnce
<1> QED BY <1>1, <1>2, <1>3, <1>4 DEF CauseInv

(* No tool is composed before the order is there. *)
LEMMA CauseBefore ==
    ASSUME CauseInv, packages' = packages, ordered' = ordered, error' = error,
           phase' \in {"validate", "resolve", "order"}, Checked'
    PROVE  CauseInv'
<1>1. RefusedForCause' BY CauseKept DEF CauseInv
<1>2. OrderedOnce' BY DEF CauseInv, OrderedOnce
<1>3. ComposedOnce' BY DEF ComposedOnce
<1> QED BY <1>1, <1>2, <1>3 DEF CauseInv

(* The first loop takes each id once, and only packages of the right shape. *)
LEMMA CauseRegister == KahnInv /\ CauseInv /\ Register => CauseInv'
<1> SUFFICES ASSUME KahnInv, CauseInv, Register PROVE CauseInv' OBVIOUS
<1> DEFINE package == packages[next]
<1>1. /\ packages' = packages /\ toolNames' = toolNames /\ ordered' = ordered
      /\ phase = "validate" /\ next <= Len(packages)
      /\ packages \in Seq(Packages) /\ next \in Nat \ {0} /\ next \in DOMAIN packages
  BY DEF Register, KahnInv
<1>2. /\ known = {packages[n].id : n \in 1..next - 1}
      /\ \A n \in 1..next - 1 : /\ packages[n].shape = "ok"
                                /\ \A m \in 1..n - 1 : packages[m].id # packages[n].id
  BY <1>1 DEF CauseInv, Checked
<1>3. CASE package.shape # "ok"
  <2>1. package \in Packages BY <1>1
  <2>2. package.shape \in {"invalid_package", "invalid_tool"} BY <1>3, <2>1 DEF Packages
  <2>3. phase' = "refused" /\ error' = package.shape BY <1>3 DEF Register, Refuse
  <2>4. Misshapen(error') BY <1>1, <2>3 DEF Misshapen
  <2> QED BY <1>1, <2>2, <2>3, <2>4, RefusedEarly DEF CauseInv
<1>4. CASE package.shape = "ok" /\ package.id \in known
  <2>1. phase' = "refused" /\ error' = "duplicate_package_id" BY <1>4 DEF Register, Refuse
  <2>2. PICK m \in 1..next - 1 : packages[m].id = package.id BY <1>2, <1>4
  <2>3. m \in DOMAIN packages /\ m # next BY <1>1
  <2>4. Duplicate BY <1>1, <2>2, <2>3 DEF Duplicate
  <2> QED BY <1>1, <2>1, <2>4, RefusedEarly DEF CauseInv
<1>5. CASE package.shape = "ok" /\ package.id \notin known
  <2>1. /\ known' = known \cup {package.id} /\ next' = next + 1 /\ phase' = phase
        /\ error' = error
    BY <1>5 DEF Register
  <2>2. \A n \in 1..next : n = next \/ n \in 1..next - 1 BY <1>1
  <2>3. next' - 1 = next /\ next' <= Len(packages) + 1 BY <1>1, <2>1
  <2>4. known' = {packages[n].id : n \in 1..next}
    <3>1. \A n \in 1..next - 1 : n \in 1..next BY <1>1
    <3>2. next \in 1..next BY <1>1
    <3> QED BY <1>2, <2>1, <2>2, <3>1, <3>2
  <2>5. \A n \in 1..next : /\ packages[n].shape = "ok"
                           /\ \A m \in 1..n - 1 : packages[m].id # packages[n].id
    BY <1>2, <1>5, <2>2
  <2>6. Checked' BY <1>1, <2>1, <2>3, <2>4, <2>5 DEF CauseInv, Checked
  <2> QED BY <1>1, <2>1, <2>6, CauseBefore
<1> QED BY <1>3, <1>4, <1>5

(* When the first loop is through the whole list has been seen. *)
LEMMA CauseRegistered == KahnInv /\ CauseInv /\ Registered => CauseInv'
<1> SUFFICES ASSUME KahnInv, CauseInv, Registered PROVE CauseInv' OBVIOUS
<1>1. /\ packages' = packages /\ toolNames' = toolNames /\ ordered' = ordered
      /\ phase = "validate" /\ next > Len(packages)
      /\ packages \in Seq(Packages) /\ next \in Nat \ {0} /\ phase' = "resolve" /\ error' = error
  BY DEF Registered, KahnInv
<1>2. \A n \in DOMAIN packages : n \in 1..next - 1 /\ n \in Nat BY <1>1
<1>3. \A n \in DOMAIN packages : /\ packages[n].shape = "ok"
                                 /\ \A m \in 1..n - 1 : packages[m].id # packages[n].id
  BY <1>1, <1>2 DEF CauseInv, Checked
<1>4. ~Duplicate
  <2> SUFFICES ASSUME NEW m \in DOMAIN packages, NEW n \in DOMAIN packages, m # n
               PROVE  packages[m].id # packages[n].id
    BY DEF Duplicate
  <2>1. m \in 1..n - 1 \/ n \in 1..m - 1 BY <1>1, <1>2
  <2> QED BY <1>3, <2>1
<1>5. Checked' BY <1>1, <1>3, <1>4, CauseSame DEF CauseInv, Checked
<1> QED BY <1>1, <1>5, CauseBefore

(* The second loop refuses what is missing from the whole list. *)
LEMMA CauseResolve == KahnInv /\ CauseInv /\ Resolve => CauseInv'
<1> SUFFICES ASSUME KahnInv, CauseInv, Resolve PROVE CauseInv' OBVIOUS
<1>1. /\ packages' = packages /\ toolNames' = toolNames /\ ordered' = ordered
      /\ phase = "resolve" /\ next \in DOMAIN packages
      /\ known = AllIds
  BY DEF Resolve, KahnInv, Passed
<1>2. CASE \E k \in DOMAIN packages[next].dependsOn : packages[next].dependsOn[k] \notin known
  <2>1. phase' = "refused" /\ error' = "missing_dependency" BY <1>2 DEF Resolve, Refuse
  <2>2. Missing BY <1>1, <1>2 DEF Missing
  <2> QED BY <1>1, <2>1, <2>2, RefusedEarly DEF CauseInv
<1>3. CASE ~\E k \in DOMAIN packages[next].dependsOn : packages[next].dependsOn[k] \notin known
  <2>1. phase' = phase /\ error' = error BY <1>3 DEF Resolve
  <2>2. Checked' BY <1>1, <2>1, CauseSame DEF CauseInv, Checked
  <2> QED BY <1>1, <2>1, <2>2, CauseBefore
<1> QED BY <1>2, <1>3

(* When the second loop is through nothing is missing. *)
LEMMA CauseCount == KahnInv /\ CauseInv /\ Count => CauseInv'
<1> SUFFICES ASSUME KahnInv, CauseInv, Count PROVE CauseInv' OBVIOUS
<1>1. /\ packages' = packages /\ toolNames' = toolNames /\ ordered' = ordered
      /\ phase = "resolve" /\ next > Len(packages)
      /\ phase' = "order" /\ error' = error /\ known = AllIds
      /\ packages \in Seq(Packages) /\ next \in Nat \ {0}
  BY DEF Count, KahnInv, Passed
<1>2. \A n \in DOMAIN packages : n < next BY <1>1
<1>3. ~Missing BY <1>1, <1>2 DEF KahnInv, Passed, Missing
<1>4. Checked' BY <1>1, <1>3, CauseSame DEF CauseInv, Checked
<1> QED BY <1>1, <1>4, CauseBefore

(* What is shifted has not been ordered before. *)
LEMMA CauseShift == KahnInv /\ CauseInv /\ Shift => CauseInv'
<1> SUFFICES ASSUME KahnInv, CauseInv, Shift PROVE CauseInv' OBVIOUS
<1>1. PICK first \in ready : ordered' = Append(ordered, first) BY DEF Shift
<1>2. /\ packages' = packages /\ toolNames' = toolNames
      /\ phase' = phase /\ error' = error /\ phase = "order"
      /\ next' = next /\ known' = known
  BY DEF Shift
<1>3. ordered \in Seq(AllIds) /\ first \in AllIds /\ first \notin Done
  BY <1>2 DEF KahnInv, Counted
<1>4. /\ Len(ordered) \in Nat /\ DOMAIN ordered = 1..Len(ordered)
      /\ DOMAIN ordered' = 1..Len(ordered) + 1
      /\ \A n \in 1..Len(ordered) : ordered'[n] = ordered[n]
      /\ ordered'[Len(ordered) + 1] = first
  BY <1>1, <1>3
<1>5. \A n \in 1..Len(ordered) : ordered[n] # first BY <1>3, <1>4 DEF Done
<1>6. OrderedOnce'
  <2> SUFFICES ASSUME NEW m \in 1..Len(ordered) + 1, NEW n \in 1..Len(ordered) + 1,
                      ordered'[m] = ordered'[n]
               PROVE  m = n
    BY <1>4 DEF OrderedOnce
  <2>1. /\ m = Len(ordered) + 1 \/ m \in 1..Len(ordered)
        /\ n = Len(ordered) + 1 \/ n \in 1..Len(ordered)
    BY <1>4
  <2>2. \A i, j \in 1..Len(ordered) : ordered[i] = ordered[j] => i = j
    BY <1>4 DEF CauseInv, OrderedOnce
  <2> QED BY <1>4, <1>5, <2>1, <2>2
<1>7. Checked' BY <1>2, CauseSame DEF CauseInv, Checked
<1>8. RefusedForCause' BY <1>2, CauseKept DEF CauseInv
<1>9. ComposedOnce' BY <1>2 DEF ComposedOnce
<1> QED BY <1>6, <1>7, <1>8, <1>9 DEF CauseInv

(* If as many packages were ordered as there are, all were, and no tool is composed yet. *)
LEMMA CauseEndOrder == KahnInv /\ CauseInv /\ toolNames = <<>> /\ EndOrder => CauseInv'
<1> SUFFICES ASSUME KahnInv, CauseInv, toolNames = <<>>, EndOrder PROVE CauseInv' OBVIOUS
<1>1. /\ packages' = packages /\ ordered' = ordered /\ phase = "order" /\ known = AllIds
      /\ toolNames' = toolNames
  BY DEF EndOrder, KahnInv, Passed
<1>2. CASE Len(ordered) # Cardinality(known)
  <2>1. phase' = "refused" /\ error' = "dependency_cycle" BY <1>2 DEF EndOrder, Refuse
  <2> QED BY <1>1, <2>1, RefusedEarly DEF CauseInv
<1>3. CASE Len(ordered) = Cardinality(known)
  <2>1. phase' = "compose" /\ next' = 1 /\ error' = error BY <1>3 DEF EndOrder
  <2>2. Done \subseteq known /\ Cardinality(Done) = Len(ordered) /\ IsFiniteSet(known)
    BY <1>1 DEF KahnInv, Counted
  <2>3. Done = AllIds BY <1>1, <1>3, <2>2, FS_Subset
  <2>4. Done' = Done /\ Composed' = {} BY <1>1 DEF Done, Composed
  <2>5. Len(ordered) \in Nat
    <3>1. ordered \in Seq(AllIds) BY DEF KahnInv
    <3> QED BY <3>1
  <2>6. ComposedOnce' BY <1>1, <2>1, <2>3, <2>4, <2>5, CauseSame DEF ComposedOnce, Placed, Distinct
  <2>7. Checked' BY <1>1, <2>1, CauseSame DEF CauseInv, Checked
  <2>8. OrderedOnce' BY <1>1 DEF CauseInv, OrderedOnce
  <2>9. RefusedForCause' BY <1>1, <2>1, CauseKept DEF CauseInv
  <2> QED BY <2>6, <2>7, <2>8, <2>9 DEF CauseInv
<1> QED BY <1>2, <1>3

(* A package of the order is one place of the list. *)
LEMMA PlaceOf ==
    ASSUME KahnInv, ~Duplicate, NEW x \in DOMAIN packages
    PROVE  Package(packages[x].id) = packages[x] /\ Tools(packages[x].id) = packages[x].tools
<1> DEFINE Is(n) == n \in DOMAIN packages /\ packages[n].id = packages[x].id
<1>1. Is(x) OBVIOUS
<1>2. Is(CHOOSE n \in DOMAIN packages : packages[n].id = packages[x].id) BY <1>1
<1>3. (CHOOSE n \in DOMAIN packages : packages[n].id = packages[x].id) = x
  BY <1>2 DEF Duplicate
<1> QED BY <1>3 DEF Tools, Package

(* Counting down orders and decides nothing. *)
LEMMA CauseCountDown == CauseInv /\ CountDown => CauseInv'
<1> SUFFICES ASSUME CauseInv, CountDown PROVE CauseInv' OBVIOUS
<1>1. /\ packages' = packages /\ ordered' = ordered /\ phase = "order" /\ phase' = phase
      /\ error' = error /\ toolNames' = toolNames /\ next' = next /\ known' = known
  BY DEF CountDown
<1>2. Checked' BY <1>1, CauseSame DEF CauseInv, Checked
<1> QED BY <1>1, <1>2, CauseBefore

(* A tool of a package of the order has a place in the list; other packages, other places. *)
LEMMA PlacesOfOrder ==
    ASSUME KahnInv, ~Duplicate
    PROVE  \A n \in DOMAIN ordered : \E x \in DOMAIN packages :
              /\ packages[x].id = ordered[n] /\ Tools(ordered[n]) = packages[x].tools
              /\ \A k \in DOMAIN Tools(ordered[n]) :
                    <<x, k>> \in ToolPlaces /\ ToolAt(x, k) = Tools(ordered[n])[k]
<1> SUFFICES ASSUME NEW n \in DOMAIN ordered
             PROVE  \E x \in DOMAIN packages :
                       /\ packages[x].id = ordered[n] /\ Tools(ordered[n]) = packages[x].tools
                       /\ \A k \in DOMAIN Tools(ordered[n]) :
                             <<x, k>> \in ToolPlaces /\ ToolAt(x, k) = Tools(ordered[n])[k]
  OBVIOUS
<1>1. ordered[n] \in AllIds
  <2>1. ordered \in Seq(AllIds) BY DEF KahnInv
  <2> QED BY <2>1
<1>2. PICK x \in DOMAIN packages : packages[x].id = ordered[n] BY <1>1 DEF AllIds
<1>3. Tools(ordered[n]) = packages[x].tools BY <1>2, PlaceOf
<1>4. \A k \in DOMAIN packages[x].tools : <<x, k>> \in ToolPlaces
  <2> SUFFICES ASSUME NEW k \in DOMAIN packages[x].tools PROVE <<x, k>> \in ToolPlaces OBVIOUS
  <2>1. <<x, k>> \in {x} \X DOMAIN packages[x].tools OBVIOUS
  <2> QED BY <2>1 DEF ToolPlaces
<1> QED BY <1>2, <1>3, <1>4 DEF ToolAt

(* A tool that is refused has its name a second time, or an inherited one. *)
LEMMA ComposeRefuses ==
    ASSUME KahnInv, CauseInv, phase = "compose", next <= Len(ordered),
           NEW k \in DOMAIN Tools(ordered[next]),
           \/ Tools(ordered[next])[k] \in Composed \cup Inherited
           \/ \E j \in 1..k - 1 : Tools(ordered[next])[j] = Tools(ordered[next])[k]
    PROVE  DuplicateTool
<1> DEFINE name == Tools(ordered[next])[k]
<1>1. ~Duplicate /\ next \in DOMAIN ordered /\ next \in Nat
  BY DEF CauseInv, Checked, KahnInv
<1>2. PICK x \in DOMAIN packages :
         /\ packages[x].id = ordered[next] /\ Tools(ordered[next]) = packages[x].tools
         /\ \A j \in DOMAIN Tools(ordered[next]) :
               <<x, j>> \in ToolPlaces /\ ToolAt(x, j) = Tools(ordered[next])[j]
  BY <1>1, PlacesOfOrder
<1>3. <<x, k>> \in ToolPlaces /\ ToolAt(x, k) = name BY <1>2
<1>4. packages[x].tools \in Seq(Names)
  <2>1. packages[x] \in Packages BY DEF KahnInv
  <2> QED BY <2>1 DEF Packages
<1>5. CASE name \in Inherited BY <1>3, <1>5 DEF DuplicateTool
<1>6. CASE name \in Composed
  <2>1. PICK n \in 1..next - 1 : \E j \in DOMAIN Tools(ordered[n]) : Tools(ordered[n])[j] = name
    BY <1>6 DEF CauseInv, ComposedOnce, Placed, Distinct
  <2>2. PICK j \in DOMAIN Tools(ordered[n]) : Tools(ordered[n])[j] = name BY <2>1
  <2>3. n \in DOMAIN ordered /\ n # next BY <1>1 DEF KahnInv
  <2>4. PICK y \in DOMAIN packages :
           /\ packages[y].id = ordered[n]
           /\ <<y, j>> \in ToolPlaces /\ ToolAt(y, j) = Tools(ordered[n])[j]
    BY <1>1, <2>2, <2>3, PlacesOfOrder
  <2>5. ordered[n] # ordered[next] BY <1>1, <2>3 DEF CauseInv, OrderedOnce
  <2>6. <<y, j>> # <<x, k>> BY <1>2, <2>4, <2>5
  <2> QED BY <1>3, <2>2, <2>4, <2>6 DEF DuplicateTool
<1>7. CASE \E j \in 1..k - 1 : Tools(ordered[next])[j] = name
  <2>1. PICK j \in 1..k - 1 : Tools(ordered[next])[j] = name BY <1>7
  <2>2. j \in DOMAIN Tools(ordered[next]) /\ j # k BY <1>2, <1>4
  <2>3. <<x, j>> \in ToolPlaces /\ ToolAt(x, j) = name /\ <<x, j>> # <<x, k>> BY <1>2, <2>1, <2>2
  <2> QED BY <1>3, <2>3 DEF DuplicateTool
<1> QED BY <1>5, <1>6, <1>7

(* The tools of a package are composed when none of them has a name that is taken. *)
LEMMA CauseCompose == KahnInv /\ CauseInv /\ Compose => CauseInv'
<1> SUFFICES ASSUME KahnInv, CauseInv, Compose PROVE CauseInv' OBVIOUS
<1> DEFINE tools == Tools(ordered[next])
           Taken(k) == \/ tools[k] \in Composed \cup Inherited
                       \/ \E j \in 1..k - 1 : tools[j] = tools[k]
<1>1. /\ packages' = packages /\ ordered' = ordered /\ phase = "compose" /\ next <= Len(ordered)
      /\ ordered \in Seq(AllIds) /\ next \in Nat \ {0} /\ next \in DOMAIN ordered
  BY DEF Compose, KahnInv
<1>2. CASE \E k \in DOMAIN tools : Taken(k)
  <2>1. phase' = "refused" /\ error' = "duplicate_tool_name"
    BY <1>2 DEF Compose, Refuse, Tools
  <2>2. DuplicateTool BY <1>1, <1>2, ComposeRefuses
  <2> QED BY <1>1, <2>1, <2>2, RefusedEarly DEF CauseInv
<1>3. CASE ~\E k \in DOMAIN tools : Taken(k)
  <2>1. /\ toolNames' = toolNames \o tools /\ next' = next + 1
        /\ phase' = phase /\ error' = error
    BY <1>3 DEF Compose, Tools
  <2>2. tools \in Seq(Names)
    <3>1. ordered[next] \in AllIds BY <1>1
    <3>2. \A n \in DOMAIN packages : packages[n] \in Packages BY DEF KahnInv
    <3>3. \A n \in DOMAIN packages : packages[n].tools \in Seq(Names) BY <3>2 DEF Packages
    <3>4. ~Duplicate BY <1>1 DEF CauseInv, Checked
    <3> QED BY <1>1, <3>3, <3>4, PlacesOfOrder
  <2>3. Composed' = Composed \cup {tools[k] : k \in DOMAIN tools}
    <3>1. toolNames \in Seq(Names) BY DEF KahnInv
    <3>2. DOMAIN toolNames' = 1..Len(toolNames) + Len(tools) BY <2>1, <2>2, <3>1
    <3>3. /\ \A n \in DOMAIN toolNames : n \in DOMAIN toolNames' /\ toolNames'[n] = toolNames[n]
          /\ \A k \in DOMAIN tools : /\ Len(toolNames) + k \in DOMAIN toolNames'
                                     /\ toolNames'[Len(toolNames) + k] = tools[k]
          /\ \A n \in DOMAIN toolNames' :
                \/ n \in DOMAIN toolNames
                \/ \E k \in DOMAIN tools : n = Len(toolNames) + k
      <4>1. \A n \in 1..Len(toolNames) + Len(tools) :
               n \notin 1..Len(toolNames) =>
                  n - Len(toolNames) \in 1..Len(tools)
                  /\ n = Len(toolNames) + (n - Len(toolNames))
        BY <2>2, <3>1
      <4>2. \A n \in 1..Len(toolNames) + Len(tools) :
               n \in 1..Len(toolNames) \/ \E k \in 1..Len(tools) : n = Len(toolNames) + k
        BY <4>1
      <4>3. \A n \in 1..Len(toolNames) : /\ n \in 1..Len(toolNames) + Len(tools)
                                          /\ toolNames'[n] = toolNames[n]
        BY <2>1, <2>2, <3>1
      <4>4. \A k \in 1..Len(tools) : /\ Len(toolNames) + k \in 1..Len(toolNames) + Len(tools)
                                      /\ toolNames'[Len(toolNames) + k] = tools[k]
        BY <2>1, <2>2, <3>1
      <4>5. DOMAIN toolNames = 1..Len(toolNames) /\ DOMAIN tools = 1..Len(tools) BY <2>2, <3>1
      <4> HIDE DEF tools
      <4> QED BY <3>2, <4>2, <4>3, <4>4, <4>5
    <3> QED BY <3>3 DEF Composed
  <2>4. \A k \in DOMAIN tools : /\ tools[k] \notin Composed /\ tools[k] \notin Inherited
                                /\ \A j \in 1..k - 1 : tools[j] # tools[k]
    BY <1>3
  <2>5. /\ next' - 1 = next /\ next' <= Len(ordered) + 1
        /\ \A n \in 1..next : n = next \/ n \in 1..next - 1
    BY <1>1, <2>1
  <2>6. \A id : Tools(id)' = Tools(id) BY <1>1, CauseSame
  <2>7. Done' = Done /\ AllIds' = AllIds BY <1>1, CauseSame DEF Done
  <2>8. /\ Done = AllIds
        /\ \A name \in Composed : \E n \in 1..next - 1 : \E k \in DOMAIN Tools(ordered[n]) :
              Tools(ordered[n])[k] = name
        /\ \A n \in 1..next - 1 : \A k \in DOMAIN Tools(ordered[n]) :
              /\ Tools(ordered[n])[k] \in Composed \ Inherited
              /\ \A j \in 1..k - 1 : Tools(ordered[n])[j] # Tools(ordered[n])[k]
              /\ \A m \in 1..n - 1 : \A j \in DOMAIN Tools(ordered[m]) :
                    Tools(ordered[m])[j] # Tools(ordered[n])[k]
    BY <1>1 DEF CauseInv, ComposedOnce, Placed, Distinct
  <2>9. \A name \in Composed' : \E n \in 1..next : \E k \in DOMAIN Tools(ordered[n]) :
           Tools(ordered[n])[k] = name
    <3>1. \A n \in 1..next - 1 : n \in 1..next BY <1>1
    <3>2. next \in 1..next BY <1>1
    <3> QED BY <2>3, <2>8, <3>1, <3>2
  <2>10. \A n \in 1..next : \A k \in DOMAIN Tools(ordered[n]) :
            /\ Tools(ordered[n])[k] \in Composed' \ Inherited
            /\ \A j \in 1..k - 1 : Tools(ordered[n])[j] # Tools(ordered[n])[k]
            /\ \A m \in 1..n - 1 : \A j \in DOMAIN Tools(ordered[m]) :
                  Tools(ordered[m])[j] # Tools(ordered[n])[k]
    <3>1. \A n \in 1..next - 1 : \A k \in DOMAIN Tools(ordered[n]) :
             /\ Tools(ordered[n])[k] \in Composed' \ Inherited
             /\ \A j \in 1..k - 1 : Tools(ordered[n])[j] # Tools(ordered[n])[k]
             /\ \A m \in 1..n - 1 : \A j \in DOMAIN Tools(ordered[m]) :
                   Tools(ordered[m])[j] # Tools(ordered[n])[k]
      BY <2>3, <2>8
    <3>2. \A k \in DOMAIN tools :
             /\ tools[k] \in Composed' \ Inherited
             /\ \A j \in 1..k - 1 : tools[j] # tools[k]
             /\ \A m \in 1..next - 1 : \A j \in DOMAIN Tools(ordered[m]) :
                   Tools(ordered[m])[j] # tools[k]
      BY <2>3, <2>4, <2>8
    <3> QED BY <2>5, <3>1, <3>2
  <2>11. ComposedOnce'
    <3>1. Placed' BY <1>1, <2>5, <2>6, <2>9 DEF Placed
    <3>2. \A n : Tools(ordered[n])' = Tools(ordered[n]) BY <1>1 DEF Tools, Package
    <3>3. Distinct'
      <4> SUFFICES ASSUME NEW n \in 1..next' - 1, NEW k \in DOMAIN Tools(ordered[n])'
                   PROVE  /\ (Tools(ordered[n])[k] \in Composed \ Inherited)'
                          /\ \A j \in 1..k - 1 : (Tools(ordered[n])[j] # Tools(ordered[n])[k])'
                          /\ \A m \in 1..n - 1 : \A j \in DOMAIN Tools(ordered[m])' :
                                (Tools(ordered[m])[j] # Tools(ordered[n])[k])'
        BY DEF Distinct
      <4>1. n \in 1..next /\ k \in DOMAIN Tools(ordered[n]) BY <2>5, <3>2
      <4> QED BY <2>10, <3>2, <4>1
    <3> QED BY <1>1, <2>1, <2>5, <2>7, <2>8, <3>1, <3>3 DEF ComposedOnce
  <2>12. Checked' BY <1>1, <2>1, CauseSame DEF CauseInv, Checked
  <2>13. OrderedOnce' BY <1>1 DEF CauseInv, OrderedOnce
  <2>14. RefusedForCause' BY <1>1, <2>1, CauseKept DEF CauseInv
  <2> QED BY <2>11, <2>12, <2>13, <2>14 DEF CauseInv
<1> QED BY <1>2, <1>3

(* What is composed is told by the list, the order, the index and the names. *)
LEMMA ComposedSame ==
    ASSUME packages' = packages, ordered' = ordered, next' = next, toolNames' = toolNames
    PROVE  /\ Done' = Done /\ AllIds' = AllIds /\ Composed' = Composed
           /\ Placed' <=> Placed
           /\ Distinct' <=> Distinct
<1>1. Done' = Done /\ AllIds' = AllIds /\ Composed' = Composed BY DEF Done, AllIds, Composed
<1>2. \A id : Tools(id)' = Tools(id) BY CauseSame
<1>3. Placed' <=> Placed BY <1>1, <1>2 DEF Placed
<1>4. Distinct' <=> Distinct BY <1>1 DEF Distinct, Tools, Package
<1> QED BY <1>1, <1>3, <1>4

(* When all tools are composed nothing is wrong with the list. *)
LEMMA CauseEndCompose == KahnInv /\ CauseInv /\ EndCompose => CauseInv'
<1> SUFFICES ASSUME KahnInv, CauseInv, EndCompose PROVE CauseInv' OBVIOUS
<1>1. /\ packages' = packages /\ ordered' = ordered /\ phase = "compose" /\ next > Len(ordered)
      /\ phase' = "composed" /\ next' = next /\ toolNames' = toolNames /\ error' = error
      /\ ordered \in Seq(AllIds) /\ next \in Nat \ {0} /\ error = "none"
  BY DEF EndCompose, KahnInv, Passed
<1>2. ~Duplicate /\ ~Missing /\ \A n \in DOMAIN packages : packages[n].shape = "ok"
  BY <1>1 DEF CauseInv, Checked
<1>3. /\ Done = AllIds
      /\ \A name \in Composed : \E n \in 1..next - 1 : \E k \in DOMAIN Tools(ordered[n]) :
            Tools(ordered[n])[k] = name
      /\ \A n \in 1..next - 1 : \A k \in DOMAIN Tools(ordered[n]) :
            /\ Tools(ordered[n])[k] \in Composed \ Inherited
            /\ \A j \in 1..k - 1 : Tools(ordered[n])[j] # Tools(ordered[n])[k]
            /\ \A m \in 1..n - 1 : \A j \in DOMAIN Tools(ordered[m]) :
                  Tools(ordered[m])[j] # Tools(ordered[n])[k]
  BY <1>1 DEF CauseInv, ComposedOnce, Placed, Distinct
<1>4. \A n \in DOMAIN ordered : n \in 1..next - 1 /\ n \in Nat BY <1>1
<1>0. next - 1 = Len(ordered) /\ \A n \in 1..next - 1 : n \in DOMAIN ordered
  <2>1. next <= Len(ordered) + 1 BY <1>1 DEF CauseInv, ComposedOnce, Placed, Distinct
  <2> QED BY <1>1, <2>1
(* the place of the order a place of the list is at *)
<1>5. \A a \in ToolPlaces : \E n \in DOMAIN ordered :
         /\ ordered[n] = packages[a[1]].id /\ a = <<a[1], a[2]>>
         /\ a[2] \in DOMAIN Tools(ordered[n]) /\ Tools(ordered[n])[a[2]] = ToolAt(a[1], a[2])
  <2> SUFFICES ASSUME NEW x \in DOMAIN packages, NEW k \in DOMAIN packages[x].tools
               PROVE  \E n \in DOMAIN ordered :
                         /\ ordered[n] = packages[x].id
                         /\ k \in DOMAIN Tools(ordered[n]) /\ Tools(ordered[n])[k] = ToolAt(x, k)
    BY DEF ToolPlaces
  <2>1. packages[x].id \in Done BY <1>3 DEF AllIds
  <2>2. PICK n \in DOMAIN ordered : ordered[n] = packages[x].id BY <2>1 DEF Done
  <2>3. Tools(ordered[n]) = packages[x].tools BY <1>2, <2>2, PlaceOf
  <2> QED BY <2>2, <2>3 DEF ToolAt
<1>6. \A a \in ToolPlaces : /\ a[1] \in DOMAIN packages /\ a[2] \in Nat
  <2>1. \A x \in DOMAIN packages : packages[x] \in Packages BY DEF KahnInv
  <2>2. \A x \in DOMAIN packages : \A k \in DOMAIN packages[x].tools : k \in Nat
    BY <2>1 DEF Packages
  <2> QED BY <2>2 DEF ToolPlaces
<1>7. ~DuplicateTool
  <2>1. \A a \in ToolPlaces : ToolAt(a[1], a[2]) \in Composed \ Inherited BY <1>3, <1>4, <1>5
  <2>2. ASSUME NEW a \in ToolPlaces, NEW b \in ToolPlaces, a # b
        PROVE  ToolAt(a[1], a[2]) # ToolAt(b[1], b[2])
    <3>1. PICK m \in DOMAIN ordered :
             /\ ordered[m] = packages[a[1]].id /\ a = <<a[1], a[2]>>
             /\ a[2] \in DOMAIN Tools(ordered[m]) /\ Tools(ordered[m])[a[2]] = ToolAt(a[1], a[2])
      BY <1>5
    <3>2. PICK n \in DOMAIN ordered :
             /\ ordered[n] = packages[b[1]].id /\ b = <<b[1], b[2]>>
             /\ b[2] \in DOMAIN Tools(ordered[n]) /\ Tools(ordered[n])[b[2]] = ToolAt(b[1], b[2])
      BY <1>5
    <3>3. m \in 1..next - 1 /\ n \in 1..next - 1 /\ m \in Nat /\ n \in Nat BY <1>4
    <3>4. CASE m = n
      <4>1. a[1] = b[1] BY <1>2, <1>6, <3>1, <3>2, <3>4 DEF Duplicate
      <4>2. a[2] # b[2] BY <2>2, <3>1, <3>2, <4>1
      <4>3. a[2] \in 1..b[2] - 1 \/ b[2] \in 1..a[2] - 1
        <5>1. a[2] \in 1..Len(Tools(ordered[m])) /\ b[2] \in 1..Len(Tools(ordered[m]))
          <6>1. packages[a[1]] \in Packages BY <1>6 DEF KahnInv
          <6>2. packages[a[1]].tools \in Seq(Names) BY <6>1 DEF Packages
          <6>3. Tools(ordered[m]) = packages[a[1]].tools BY <1>2, <1>6, <3>1, PlaceOf
          <6> QED BY <3>1, <3>2, <3>4, <6>2, <6>3
        <5> QED BY <1>6, <4>2, <5>1
      <4>4. \A k \in DOMAIN Tools(ordered[n]) : \A j \in 1..k - 1 :
               Tools(ordered[n])[j] # Tools(ordered[n])[k]
        BY <1>3, <3>3
      <4>5. /\ a[2] \in DOMAIN Tools(ordered[n]) /\ Tools(ordered[n])[a[2]] = ToolAt(a[1], a[2])
            /\ b[2] \in DOMAIN Tools(ordered[n]) /\ Tools(ordered[n])[b[2]] = ToolAt(b[1], b[2])
        BY <3>1, <3>2, <3>4
      <4> QED BY <4>3, <4>4, <4>5
    <3>5. CASE m # n
      <4>1. m \in 1..n - 1 \/ n \in 1..m - 1 BY <3>3, <3>5
      <4>2. \A i, j \in 1..next - 1 :
            \A k \in DOMAIN Tools(ordered[i]), l \in DOMAIN Tools(ordered[j]) :
               j \in 1..i - 1 => Tools(ordered[j])[l] # Tools(ordered[i])[k]
        BY <1>3
      <4> QED BY <3>1, <3>2, <3>3, <4>1, <4>2
    <3> QED BY <3>4, <3>5
  <2> QED BY <2>1, <2>2 DEF DuplicateTool
<1>8. Composed = {ToolAt(a[1], a[2]) : a \in ToolPlaces}
  <2>1. \A a \in ToolPlaces : ToolAt(a[1], a[2]) \in Composed BY <1>3, <1>4, <1>5
  <2>2. ASSUME NEW name \in Composed PROVE \E a \in ToolPlaces : ToolAt(a[1], a[2]) = name
    <3>1. PICK n \in 1..next - 1 : \E k \in DOMAIN Tools(ordered[n]) : Tools(ordered[n])[k] = name
      BY <1>3
    <3>2. PICK k \in DOMAIN Tools(ordered[n]) : Tools(ordered[n])[k] = name BY <3>1
    <3>3. PICK x \in DOMAIN packages : <<x, k>> \in ToolPlaces /\ ToolAt(x, k) = name
      BY <1>2, <1>0, <3>1, <3>2, PlacesOfOrder
    <3> QED BY <3>3
  <2> QED BY <2>1, <2>2
<1>9. RefusedForCause'
  <2>1. Done' = Done /\ Composed' = Composed BY <1>1 DEF Done, Composed
  <2>2. /\ AllIds' = AllIds
        /\ {ToolAt(a[1], a[2]) : a \in ToolPlaces}' = {ToolAt(a[1], a[2]) : a \in ToolPlaces}
    BY <1>1 DEF AllIds, ToolAt, ToolPlaces
  <2>3. ~Misshapen("invalid_package") /\ ~Misshapen("invalid_tool") BY <1>2 DEF Misshapen
  <2>4. error' = "none" BY <1>1
  <2> QED BY <1>1, <1>2, <1>3, <1>7, <1>8, <2>1, <2>2, <2>3, <2>4, CauseSame DEF RefusedForCause
<1>10. ComposedOnce' BY <1>1, ComposedSame DEF CauseInv, ComposedOnce
<1>11. Checked' BY <1>1, CauseSame DEF CauseInv, Checked
<1>12. OrderedOnce' BY <1>1 DEF CauseInv, OrderedOnce
<1> QED BY <1>9, <1>10, <1>11, <1>12 DEF CauseInv

(* Nothing has been passed, ordered or composed at first. *)
LEMMA CauseInit == Init => CauseInv
<1> SUFFICES ASSUME Init PROVE CauseInv OBVIOUS
<1>1. packages \in Seq(Packages) BY ComposerAssumption DEF Init, ComposerAssumption
<1>2. Checked BY <1>1 DEF Init, Checked
<1>3. OrderedOnce /\ ComposedOnce /\ RefusedForCause
  BY DEF Init, OrderedOnce, ComposedOnce, RefusedForCause
<1> QED BY <1>2, <1>3 DEF CauseInv

(* A step that changes nothing. *)
LEMMA CauseStutter ==
    ASSUME CauseInv, UNCHANGED composerVars
    PROVE  CauseInv'
<1>1. /\ packages' = packages /\ ordered' = ordered /\ phase' = phase /\ next' = next
      /\ known' = known /\ toolNames' = toolNames /\ error' = error
  BY DEF composerVars
<1>2. Done' = Done /\ Composed' = Composed BY <1>1 DEF Done, Composed
<1>3. Checked' BY <1>1, CauseSame DEF CauseInv, Checked
<1>4. OrderedOnce' BY <1>1 DEF CauseInv, OrderedOnce
<1>5. ComposedOnce' BY <1>1, ComposedSame DEF CauseInv, ComposedOnce
<1>6. RefusedForCause'
  <2>1. {ToolAt(a[1], a[2]) : a \in ToolPlaces}' = {ToolAt(a[1], a[2]) : a \in ToolPlaces}
    BY <1>1 DEF ToolAt, ToolPlaces
  <2> QED BY <1>1, <1>2, <2>1, CauseSame DEF CauseInv, RefusedForCause
<1> QED BY <1>3, <1>4, <1>5, <1>6 DEF CauseInv

(* Each count is that of the dependencies that are open (order.ts, topologicalOrder), and   *)
(* each loop of the composer leaves behind it what the later ones rely on: a list checked   *)
(* in shape, ids and dependencies, an order of all of it, and the tools composed so far.    *)
THEOREM ComposerInvariant == Spec => []ComposerInv
<1>1. Init => CauseInv BY CauseInit
<1>2. KahnInv /\ CauseInv /\ [Next]_composerVars => CauseInv'
  <2> SUFFICES ASSUME KahnInv, CauseInv, [Next]_composerVars PROVE CauseInv' OBVIOUS
  <2>1. CASE EndOrder
    <3>1. toolNames = <<>> BY <2>1 DEF EndOrder, CauseInv, Checked
    <3> QED BY <2>1, <3>1, CauseEndOrder
  <2> QED BY <2>1, CauseRegister, CauseRegistered, CauseResolve, CauseCount, CauseShift,
             CauseCountDown, CauseCompose, CauseEndCompose, CauseStutter DEF Next
<1> QED BY <1>1, <1>2, KahnInvariant, PTL DEF Spec, ComposerInv

(* A list of packages is refused for what is wrong with it only, in each of the four ways  *)
(* the composer can refuse one besides a cycle, and composed only if nothing is.            *)
THEOREM RefusalsCaused == Spec => []RefusedForCause
<1>1. ComposerInv => RefusedForCause BY DEF ComposerInv, CauseInv
<1> QED BY <1>1, ComposerInvariant, PTL
================================================================================
