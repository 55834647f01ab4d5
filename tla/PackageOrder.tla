------------------------------ MODULE PackageOrder ------------------------------
(***************************************************************************)
(* What the composer's ordering of feature packages promises: packages are *)
(* placed one after the other, each after all it depends on, and of those  *)
(* that could be next always the one with the least id; so the order is a  *)
(* matter of the set of packages and not of how they are listed.  It ends  *)
(* with all packages placed, or when none can be, with those that are left *)
(* named as a cycle.                                                       *)
(***************************************************************************)
EXTENDS Naturals, Sequences

CONSTANTS
    Ids               \* the ids of packages, numbered in the order sort() gives them

VARIABLES
    needs,            \* the packages each package depends on
    placed,           \* the packages in order
    verdict,          \* "open", "all", "cycle", or "refused" before anything is placed
    left              \* the packages a cycle has been reported for

Done == {placed[n] : n \in DOMAIN placed}
Free == {id \in DOMAIN needs \ Done : needs[id] \subseteq Done}

OrderInit == placed = <<>> /\ verdict = "open" /\ left = {}

\* what is wrong with the list of packages is found before the first is placed
Refuse ==
    /\ verdict = "open" /\ placed = <<>>
    /\ verdict' = "refused"
    /\ UNCHANGED <<needs, placed, left>>

Place ==
    /\ verdict = "open"
    /\ \E id \in Free : /\ \A other \in Free : id <= other
                        /\ placed' = Append(placed, id)
    /\ UNCHANGED <<needs, verdict, left>>

Finish ==
    /\ verdict = "open" /\ Free = {}
    /\ IF Done = DOMAIN needs THEN verdict' = "all" /\ UNCHANGED left
       ELSE verdict' = "cycle" /\ left' = DOMAIN needs \ Done
    /\ UNCHANGED <<needs, placed>>

OrderNext == Refuse \/ Place \/ Finish

Order == OrderInit /\ [][OrderNext]_<<needs, placed, verdict, left>>
================================================================================
