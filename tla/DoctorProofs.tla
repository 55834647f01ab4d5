------------------------------ MODULE DoctorProofs ------------------------------
(***************************************************************************)
(* What doctor's report is worth, for every bundle, project and job, and   *)
(* that compareSemver is an order.  Doctor's own steps change nothing that *)
(* LifecycleInv speaks of, so it holds beside doctor too (World).  From it *)
(* follows, step by step, that the run which works beside doctor brings no *)
(* file back to what the stamp says unless all are (MissesStay, Chased),   *)
(* and that what doctor has read is what is there while nothing changes    *)
(* (Current).                                                              *)
(***************************************************************************)
EXTENDS Doctor, InstallLifecycleProofs, WellFoundedInduction

--------------------------------------------------------------------------------
(* A set of natural numbers has a least one.                                 *)

LessThan == {p \in Nat \X Nat : p[1] < p[2]}

LEMMA LessOp == LessThan = OpToRel(<, Nat)
  BY DEF LessThan, OpToRel

LEMMA LessPairs == \A j, k \in Nat : j < k => <<j, k>> \in LessThan
<1> TAKE j, k \in Nat
<1> HAVE j < k
<1> DEFINE p == <<j, k>>
<1>1. p \in Nat \X Nat /\ p[1] = j /\ p[2] = k
  OBVIOUS
<1> QED
  BY <1>1 DEF LessThan

LEMMA Least == ASSUME NEW S \in SUBSET Nat, S # {} PROVE \E m \in S : \A k \in S : m <= k
<1>1. \E m \in S : \A k \in S : ~ (<<k, m>> \in LessThan)
  BY NatLessThanWellFounded, LessOp, WFMin, Zenon
<1>2. PICK m \in S : \A k \in S : ~ (<<k, m>> \in LessThan)
  BY <1>1
<1>3. \A k \in S : k \in Nat /\ m \in Nat /\ ~(k < m)
  BY <1>2, LessPairs, Zenon
<1> QED
  BY <1>3

\* locateOpenCodeConfig finds a file if there is one.
LEMMA LocatesSome ==
  ASSUME Located # {}
  PROVE  /\ Locates(Config) /\ Config \in Elements(Configs) /\ Config \in Paths
         /\ \A p : Locates(p) => p = Config
<1>1. Configs \in Seq(Paths)
  BY LifecycleAssumption DEF LifecycleAssumption
<1>2. Located \in SUBSET Nat
  BY <1>1 DEF Located
<1>3. PICK k \in Located : \A j \in Located : k <= j
  BY <1>2, Least
<1>4. Locates(Configs[k]) /\ Configs[k] \in Paths
  BY <1>1, <1>3 DEF Locates, Located
<1>5. Locates(Config) /\ Config \in Paths
  BY <1>4 DEF Config
<1>6. QED
  BY <1>5, LocatesOne

--------------------------------------------------------------------------------
(* compareSemver.                                                            *)

LEMMA IdentifierAntisymmetric ==
    ASSUME NEW a \in Identifiers, NEW b \in Identifiers
    PROVE  CompareIdentifier(a, b) = -CompareIdentifier(b, a)
BY DEF CompareIdentifier, Sign, Identifiers

\* Two identifier lists have one first difference, and it points one way.
LEMMA FirstDifferenceOneWay ==
    ASSUME NEW a \in Seq(Identifiers), NEW b \in Seq(Identifiers),
           LowerAtFirstDifference(a, b), LowerAtFirstDifference(b, a)
    PROVE  FALSE
<1>1. PICK k \in DOMAIN a \cap DOMAIN b :
         /\ CompareIdentifier(a[k], b[k]) = -1
         /\ \A i \in 1 .. k - 1 : CompareIdentifier(a[i], b[i]) = 0
  BY DEF LowerAtFirstDifference
<1>2. PICK j \in DOMAIN a \cap DOMAIN b :
         /\ CompareIdentifier(b[j], a[j]) = -1
         /\ \A i \in 1 .. j - 1 : CompareIdentifier(b[i], a[i]) = 0
  BY DEF LowerAtFirstDifference
<1>3. /\ k \in Nat \ {0} /\ j \in Nat \ {0}
      /\ a[k] \in Identifiers /\ b[k] \in Identifiers
      /\ a[j] \in Identifiers /\ b[j] \in Identifiers
  OBVIOUS
<1>4. CASE k < j
  <2>1. CompareIdentifier(b[k], a[k]) = 0
    BY <1>2, <1>3, <1>4
  <2> QED
    BY <1>1, <1>3, <2>1, IdentifierAntisymmetric
<1>5. CASE j < k
  <2>1. CompareIdentifier(a[j], b[j]) = 0
    BY <1>1, <1>3, <1>5
  <2> QED
    BY <1>2, <1>3, <2>1, IdentifierAntisymmetric
<1>6. CASE j = k
  BY <1>1, <1>2, <1>3, <1>6, IdentifierAntisymmetric
<1> QED
  BY <1>3, <1>4, <1>5, <1>6

LEMMA SignAntisymmetric == \A m, n \in Int : Sign(m, n) = -Sign(n, m)
BY DEF Sign

LEMMA SignCases ==
    \A m, n \in Int : \/ Sign(m, n) = -1 /\ m < n
                      \/ Sign(m, n) = 0 /\ m = n
                      \/ Sign(m, n) = 1
BY DEF Sign

LEMMA PrereleaseAntisymmetric ==
    ASSUME NEW a \in Seq(Identifiers), NEW b \in Seq(Identifiers)
    PROVE  ComparePrerelease(a, b) = -ComparePrerelease(b, a)
<1>1. Len(a) \in Int /\ Len(b) \in Int
  OBVIOUS
<1>2. Sign(Len(a), Len(b)) = -Sign(Len(b), Len(a)) /\ Sign(Len(b), Len(a)) = -Sign(Len(a), Len(b))
  BY <1>1, SignAntisymmetric
<1>3. CASE a = <<>> \/ b = <<>>
  BY <1>2, <1>3 DEF ComparePrerelease
<1>4. CASE ~(a = <<>> \/ b = <<>>)
  <2>1. ~(LowerAtFirstDifference(a, b) /\ LowerAtFirstDifference(b, a))
    BY FirstDifferenceOneWay
  <2>2. CASE LowerAtFirstDifference(a, b)
    <3>1. ComparePrerelease(a, b) = -1
      BY <1>4, <2>2 DEF ComparePrerelease
    <3>2. ComparePrerelease(b, a) = 1
      BY <1>4, <2>1, <2>2 DEF ComparePrerelease
    <3> QED
      BY <3>1, <3>2
  <2>3. CASE LowerAtFirstDifference(b, a)
    <3>1. ComparePrerelease(a, b) = 1
      BY <1>4, <2>1, <2>3 DEF ComparePrerelease
    <3>2. ComparePrerelease(b, a) = -1
      BY <1>4, <2>3 DEF ComparePrerelease
    <3>3. ComparePrerelease(b, a) = -ComparePrerelease(a, b)
      BY <3>1, <3>2
    <3>4. \A m, n \in Int : n = -m => m = -n
      OBVIOUS
    <3>5. ComparePrerelease(a, b) \in Int /\ ComparePrerelease(b, a) \in Int
      BY <3>1, <3>2
    <3> QED
      BY <3>3, <3>4, <3>5
  <2>4. CASE ~LowerAtFirstDifference(a, b) /\ ~LowerAtFirstDifference(b, a)
    BY <1>2, <1>4, <2>4 DEF ComparePrerelease
  <2> QED
    BY <2>2, <2>3, <2>4
<1> QED
  BY <1>3, <1>4

\* Whatever two versions compareSemver (semver.ts) is given, it gives the opposite
\* verdict when they change places: that a candidate is older than the current version
\* (a downgrade for update) and that the current one is newer are one verdict.
THEOREM CompareSemverAntisymmetric ==
    ASSUME NEW a \in SemverParts, NEW b \in SemverParts
    PROVE  CompareSemver(a, b) = -CompareSemver(b, a)
<1>1. /\ a.major \in Int /\ a.minor \in Int /\ a.patch \in Int /\ a.prerelease \in Seq(Identifiers)
      /\ b.major \in Int /\ b.minor \in Int /\ b.patch \in Int /\ b.prerelease \in Seq(Identifiers)
  BY DEF SemverParts
<1>2. CASE a.major # b.major
  BY <1>1, <1>2, SignAntisymmetric DEF CompareSemver
<1>3. CASE a.major = b.major /\ a.minor # b.minor
  BY <1>1, <1>3, SignAntisymmetric DEF CompareSemver
<1>4. CASE a.major = b.major /\ a.minor = b.minor /\ a.patch # b.patch
  BY <1>1, <1>4, SignAntisymmetric DEF CompareSemver
<1>5. CASE a.major = b.major /\ a.minor = b.minor /\ a.patch = b.patch
  BY <1>1, <1>5, PrereleaseAntisymmetric DEF CompareSemver
<1> QED
  BY <1>2, <1>3, <1>4, <1>5


\* It is 0 only for the same identifier, and transitive.
LEMMA IdentifierOrder ==
    ASSUME NEW a \in Identifiers, NEW b \in Identifiers, NEW c \in Identifiers
    PROVE  /\ CompareIdentifier(a, b) \in {-1, 0, 1}
           /\ CompareIdentifier(a, b) = 0 <=> a = b
           /\ CompareIdentifier(a, b) = -1 /\ CompareIdentifier(b, c) = -1
              => CompareIdentifier(a, c) = -1
<1>1. CompareIdentifier(a, b) \in {-1, 0, 1}
  BY DEF CompareIdentifier, Sign
<1>2. CompareIdentifier(a, b) = 0 <=> a.numeric = b.numeric /\ a.rank = b.rank
  BY DEF CompareIdentifier, Sign, Identifiers
<1>3. a.numeric = b.numeric /\ a.rank = b.rank => a = b
  BY DEF Identifiers
<1>4. CompareIdentifier(a, b) = -1 /\ CompareIdentifier(b, c) = -1
      => CompareIdentifier(a, c) = -1
  BY DEF CompareIdentifier, Sign, Identifiers
<1>5. QED
  BY <1>1, <1>2, <1>3, <1>4

\* Two identifier lists without a first difference agree as far as both go.
LEMMA NoDifference ==
    ASSUME NEW a \in Seq(Identifiers), NEW b \in Seq(Identifiers),
           ~LowerAtFirstDifference(a, b), ~LowerAtFirstDifference(b, a)
    PROVE  \A k \in DOMAIN a \cap DOMAIN b : a[k] = b[k]
<1> DEFINE D == {k \in DOMAIN a \cap DOMAIN b : CompareIdentifier(a[k], b[k]) # 0}
<1>1. ASSUME NEW k \in DOMAIN a \cap DOMAIN b
      PROVE  k \in Nat \ {0} /\ a[k] \in Identifiers /\ b[k] \in Identifiers
  OBVIOUS
<1>2. CASE D = {}
  BY <1>1, <1>2, IdentifierOrder
<1>3. CASE D # {}
  <2>1. D \in SUBSET Nat
    BY <1>1
  <2>2. PICK k \in D : \A j \in D : k <= j
    BY <1>3, <2>1, Least
  <2>3. k \in DOMAIN a \cap DOMAIN b /\ a[k] \in Identifiers /\ b[k] \in Identifiers /\ k \in Nat
    BY <1>1, <2>2
  <2>4. ASSUME NEW j \in 1 .. k - 1
        PROVE  CompareIdentifier(a[j], b[j]) = 0 /\ CompareIdentifier(b[j], a[j]) = 0
    <3>1. j \in DOMAIN a \cap DOMAIN b /\ j \notin D
      BY <2>2, <2>3
    <3>2. CompareIdentifier(a[j], b[j]) = 0
      BY <3>1
    <3>3. QED
      BY <1>1, <3>1, <3>2, IdentifierOrder
  <2>5. CompareIdentifier(a[k], b[k]) = -1 \/ CompareIdentifier(b[k], a[k]) = -1
    <3>1. CompareIdentifier(a[k], b[k]) \in {-1, 1}
      BY <2>2, <2>3, IdentifierOrder
    <3>2. CompareIdentifier(a[k], b[k]) = -CompareIdentifier(b[k], a[k])
          /\ CompareIdentifier(b[k], a[k]) \in {-1, 0, 1}
      BY <2>3, IdentifierAntisymmetric, IdentifierOrder
    <3>3. QED
      BY <3>1, <3>2
  <2>6. QED
    BY <2>3, <2>4, <2>5 DEF LowerAtFirstDifference
<1>4. QED
  BY <1>2, <1>3

\* What it says of two prereleases, the empty list (a release) apart.
LEMMA PrereleaseLower ==
    ASSUME NEW a \in Seq(Identifiers), NEW b \in Seq(Identifiers)
    PROVE  /\ ComparePrerelease(a, b) \in {-1, 0, 1}
           /\ ComparePrerelease(a, b) = 0 => a = b
           /\ ComparePrerelease(a, b) = -1 =>
                 /\ a # <<>>
                 /\ \/ b = <<>>
                    \/ LowerAtFirstDifference(a, b)
                    \/ Len(a) < Len(b) /\ \A k \in DOMAIN a : a[k] = b[k]
<1>1. Len(a) \in Nat /\ Len(b) \in Nat /\ DOMAIN a = 1 .. Len(a) /\ DOMAIN b = 1 .. Len(b)
      /\ (Len(a) = 0 <=> a = <<>>) /\ (Len(b) = 0 <=> b = <<>>)
  OBVIOUS
<1>2. CASE a = <<>> \/ b = <<>>
  <2>1. ComparePrerelease(a, b) = Sign(Len(b), Len(a))
    BY <1>2 DEF ComparePrerelease
  <2>2. CASE a = <<>>
    <3>1. /\ ComparePrerelease(a, b) = 0 \/ ComparePrerelease(a, b) = 1
          /\ ComparePrerelease(a, b) = 0 => Len(b) = 0
      BY <1>1, <2>1, <2>2 DEF Sign
    <3>2. 0 # -1 /\ 1 # -1 /\ 0 # 1
      OBVIOUS
    <3>3. QED
      BY <1>1, <2>2, <3>1, <3>2, Zenon
  <2>3. CASE b = <<>> /\ a # <<>>
    <3>1. ComparePrerelease(a, b) = -1
      BY <1>1, <2>1, <2>3 DEF Sign
    <3>2. -1 # 0 /\ -1 \in {-1, 0, 1}
      OBVIOUS
    <3>3. QED
      BY <2>3, <3>1, <3>2, Zenon
  <2>4. QED
    BY <1>2, <2>2, <2>3
<1>3. CASE a # <<>> /\ b # <<>> /\ (LowerAtFirstDifference(a, b) \/ LowerAtFirstDifference(b, a))
  BY <1>3, FirstDifferenceOneWay DEF ComparePrerelease
<1>4. CASE a # <<>> /\ b # <<>> /\ ~LowerAtFirstDifference(a, b) /\ ~LowerAtFirstDifference(b, a)
  <2>1. ComparePrerelease(a, b) = Sign(Len(a), Len(b))
    BY <1>4 DEF ComparePrerelease
  <2>2. \A k \in DOMAIN a \cap DOMAIN b : a[k] = b[k]
    BY <1>4, NoDifference
  <2>3. Len(a) = Len(b) => a = b
    BY <1>1, <2>2
  <2>4. Len(a) < Len(b) => \A k \in DOMAIN a : a[k] = b[k]
    BY <1>1, <2>2
  <2>5. \/ ComparePrerelease(a, b) = -1 /\ Len(a) < Len(b)
        \/ ComparePrerelease(a, b) = 0 /\ Len(a) = Len(b)
        \/ ComparePrerelease(a, b) = 1
    <3>1. Len(a) \in Int /\ Len(b) \in Int
      BY <1>1
    <3>2. QED
      BY <2>1, <3>1, SignCases, Zenon
  <2>6. 0 # -1 /\ 1 # -1 /\ 0 # 1
    OBVIOUS
  <2>7. QED
    BY <1>4, <2>3, <2>4, <2>5, <2>6, Zenon
<1>5. QED
  BY <1>2, <1>3, <1>4

\* and what is enough for it to be lower
LEMMA LowerPrerelease ==
    ASSUME NEW a \in Seq(Identifiers), NEW b \in Seq(Identifiers), a # <<>>,
           \/ b = <<>>
           \/ LowerAtFirstDifference(a, b)
           \/ Len(a) < Len(b) /\ \A k \in DOMAIN a : a[k] = b[k]
    PROVE  ComparePrerelease(a, b) = -1
<1>1. Len(a) \in Nat /\ Len(b) \in Nat /\ DOMAIN a = 1 .. Len(a) /\ DOMAIN b = 1 .. Len(b)
      /\ (Len(a) = 0 <=> a = <<>>) /\ (Len(b) = 0 <=> b = <<>>)
  OBVIOUS
<1>2. CASE b = <<>>
  BY <1>1, <1>2 DEF ComparePrerelease, Sign
<1>3. CASE b # <<>> /\ LowerAtFirstDifference(a, b)
  BY <1>3 DEF ComparePrerelease
<1>4. CASE Len(a) < Len(b) /\ \A k \in DOMAIN a : a[k] = b[k]
  <2>1. ASSUME NEW k \in DOMAIN a \cap DOMAIN b
        PROVE  CompareIdentifier(a[k], b[k]) = 0 /\ CompareIdentifier(b[k], a[k]) = 0
    <3>1. a[k] = b[k] /\ a[k] \in Identifiers
      BY <1>4, <2>1
    <3>2. QED
      BY <3>1, IdentifierOrder
  <2>2. ~LowerAtFirstDifference(a, b) /\ ~LowerAtFirstDifference(b, a)
    BY <2>1 DEF LowerAtFirstDifference
  <2>3. ComparePrerelease(a, b) = Sign(Len(a), Len(b))
    BY <1>1, <1>4, <2>2 DEF ComparePrerelease
  <2>4. QED
    BY <1>1, <1>4, <2>3 DEF Sign
<1>5. QED
  BY <1>2, <1>3, <1>4

LEMMA PrereleaseTransitive ==
    ASSUME NEW a \in Seq(Identifiers), NEW b \in Seq(Identifiers), NEW c \in Seq(Identifiers),
           ComparePrerelease(a, b) = -1, ComparePrerelease(b, c) = -1
    PROVE  ComparePrerelease(a, c) = -1
<1>1. /\ a # <<>> /\ b # <<>>
      /\ \/ LowerAtFirstDifference(a, b)
         \/ Len(a) < Len(b) /\ \A k \in DOMAIN a : a[k] = b[k]
      /\ \/ c = <<>>
         \/ LowerAtFirstDifference(b, c)
         \/ Len(b) < Len(c) /\ \A k \in DOMAIN b : b[k] = c[k]
  BY PrereleaseLower
<1>2. /\ Len(a) \in Nat /\ DOMAIN a = 1 .. Len(a) /\ \A k \in DOMAIN a : a[k] \in Identifiers
      /\ Len(b) \in Nat /\ DOMAIN b = 1 .. Len(b) /\ \A k \in DOMAIN b : b[k] \in Identifiers
      /\ Len(c) \in Nat /\ DOMAIN c = 1 .. Len(c) /\ \A k \in DOMAIN c : c[k] \in Identifiers
  OBVIOUS
<1>3. ASSUME NEW i, NEW j, i \in Identifiers, j \in Identifiers, CompareIdentifier(i, j) = 0
      PROVE  i = j
  BY <1>3, IdentifierOrder
<1>4. CASE LowerAtFirstDifference(a, b) /\ LowerAtFirstDifference(b, c)
  <2>1. PICK k \in DOMAIN a \cap DOMAIN b :
           /\ CompareIdentifier(a[k], b[k]) = -1
           /\ \A i \in 1 .. k - 1 : CompareIdentifier(a[i], b[i]) = 0
    BY <1>4 DEF LowerAtFirstDifference
  <2>2. PICK j \in DOMAIN b \cap DOMAIN c :
           /\ CompareIdentifier(b[j], c[j]) = -1
           /\ \A i \in 1 .. j - 1 : CompareIdentifier(b[i], c[i]) = 0
    BY <1>4 DEF LowerAtFirstDifference
  <2>3. \A i \in 1 .. k - 1 : a[i] = b[i]
    BY <1>2, <1>3, <2>1
  <2>4. \A i \in 1 .. j - 1 : b[i] = c[i]
    BY <1>2, <1>3, <2>2
  <2>5. CASE k < j
    <3>1. k \in DOMAIN a \cap DOMAIN c /\ b[k] = c[k]
          /\ \A i \in 1 .. k - 1 : CompareIdentifier(a[i], c[i]) = 0
      BY <1>2, <2>1, <2>2, <2>4, <2>5
    <3>2. LowerAtFirstDifference(a, c)
      BY <2>1, <3>1 DEF LowerAtFirstDifference
    <3>3. QED
      BY <1>1, <3>2, LowerPrerelease
  <2>6. CASE j < k
    <3>1. j \in DOMAIN a \cap DOMAIN c /\ a[j] = b[j]
          /\ \A i \in 1 .. j - 1 : CompareIdentifier(a[i], c[i]) = 0
      BY <1>2, <2>1, <2>2, <2>3, <2>6
    <3>2. LowerAtFirstDifference(a, c)
      BY <2>2, <3>1 DEF LowerAtFirstDifference
    <3>3. QED
      BY <1>1, <3>2, LowerPrerelease
  <2>7. CASE k = j
    <3>1. k \in DOMAIN a \cap DOMAIN c
          /\ \A i \in 1 .. k - 1 : CompareIdentifier(a[i], c[i]) = 0
      BY <1>2, <2>1, <2>2, <2>3, <2>7
    <3>2. CompareIdentifier(a[k], c[k]) = -1
      BY <1>2, <2>1, <2>2, <2>7, IdentifierOrder
    <3>3. LowerAtFirstDifference(a, c)
      BY <3>1, <3>2 DEF LowerAtFirstDifference
    <3>4. QED
      BY <1>1, <3>3, LowerPrerelease
  <2>8. k \in Nat /\ j \in Nat
    BY <1>2, <2>1, <2>2
  <2>9. QED
    BY <2>5, <2>6, <2>7, <2>8
<1>5. CASE LowerAtFirstDifference(a, b) /\ Len(b) < Len(c) /\ \A k \in DOMAIN b : b[k] = c[k]
  <2>1. PICK k \in DOMAIN a \cap DOMAIN b :
           /\ CompareIdentifier(a[k], b[k]) = -1
           /\ \A i \in 1 .. k - 1 : CompareIdentifier(a[i], b[i]) = 0
    BY <1>5 DEF LowerAtFirstDifference
  <2>2. k \in DOMAIN c /\ b[k] = c[k] /\ \A i \in 1 .. k - 1 : b[i] = c[i]
    BY <1>2, <1>5, <2>1
  <2>3. LowerAtFirstDifference(a, c)
    BY <2>1, <2>2 DEF LowerAtFirstDifference
  <2>4. QED
    BY <1>1, <2>3, LowerPrerelease
<1>6. CASE Len(a) < Len(b) /\ (\A k \in DOMAIN a : a[k] = b[k]) /\ LowerAtFirstDifference(b, c)
  <2>1. PICK j \in DOMAIN b \cap DOMAIN c :
           /\ CompareIdentifier(b[j], c[j]) = -1
           /\ \A i \in 1 .. j - 1 : CompareIdentifier(b[i], c[i]) = 0
    BY <1>6 DEF LowerAtFirstDifference
  <2>2. \A i \in 1 .. j - 1 : b[i] = c[i]
    BY <1>2, <1>3, <2>1
  <2>3. CASE j \in DOMAIN a
    <3>1. j \in DOMAIN a \cap DOMAIN c /\ a[j] = b[j]
          /\ \A i \in 1 .. j - 1 : CompareIdentifier(a[i], c[i]) = 0
      BY <1>2, <1>6, <2>1, <2>3
    <3>2. LowerAtFirstDifference(a, c)
      BY <2>1, <3>1 DEF LowerAtFirstDifference
    <3>3. QED
      BY <1>1, <3>2, LowerPrerelease
  <2>4. CASE j \notin DOMAIN a
    <3>1. Len(a) < j /\ j <= Len(c) /\ j \in Nat
      BY <1>2, <2>1, <2>4
    <3>2. \A k \in DOMAIN a : a[k] = c[k]
      BY <1>2, <1>6, <2>2, <3>1
    <3>3. Len(a) < Len(c)
      BY <1>2, <3>1
    <3>4. QED
      BY <1>1, <3>2, <3>3, LowerPrerelease
  <2>5. QED
    BY <2>3, <2>4
<1>7. CASE /\ Len(a) < Len(b) /\ \A k \in DOMAIN a : a[k] = b[k]
           /\ Len(b) < Len(c) /\ \A k \in DOMAIN b : b[k] = c[k]
  <2>1. Len(a) < Len(c) /\ \A k \in DOMAIN a : a[k] = c[k]
    BY <1>2, <1>7
  <2>2. QED
    BY <1>1, <2>1, LowerPrerelease
<1>8. CASE c = <<>>
  BY <1>1, <1>8, LowerPrerelease
<1>9. QED
  BY <1>1, <1>4, <1>5, <1>6, <1>7, <1>8

\* compareSemver (semver.ts) orders all versions: two that compare as equal are the same,
\* and what is not newer than a version is not newer than any that this is not newer than.
THEOREM CompareSemverTotalOrder ==
    ASSUME NEW a \in SemverParts, NEW b \in SemverParts, NEW c \in SemverParts
    PROVE  /\ CompareSemver(a, b) = 0 <=> a = b
           /\ CompareSemver(a, b) <= 0 /\ CompareSemver(b, c) <= 0 => CompareSemver(a, c) <= 0
<1>1. /\ a.major \in Nat /\ a.minor \in Nat /\ a.patch \in Nat /\ a.prerelease \in Seq(Identifiers)
      /\ b.major \in Nat /\ b.minor \in Nat /\ b.patch \in Nat /\ b.prerelease \in Seq(Identifiers)
      /\ c.major \in Nat /\ c.minor \in Nat /\ c.patch \in Nat /\ c.prerelease \in Seq(Identifiers)
  BY DEF SemverParts
<1>2. CompareSemver(a, b) = 0 => a = b
  <2>1. CompareSemver(a, b) = 0 =>
           /\ a.major = b.major /\ a.minor = b.minor /\ a.patch = b.patch
           /\ ComparePrerelease(a.prerelease, b.prerelease) = 0
    BY <1>1 DEF CompareSemver, Sign
  <2>2. QED
    BY <1>1, <2>1, PrereleaseLower DEF SemverParts
<1>3. ASSUME CompareSemver(a, b) <= 0, CompareSemver(b, c) <= 0 PROVE CompareSemver(a, c) <= 0
  <2> DEFINE P(x, y) == ComparePrerelease(x.prerelease, y.prerelease)
  <2>1. P(a, b) \in {-1, 0, 1} /\ P(b, c) \in {-1, 0, 1} /\ P(a, c) \in {-1, 0, 1}
    BY <1>1, PrereleaseLower
  <2>2. P(a, b) <= 0 /\ P(b, c) <= 0 => P(a, c) <= 0
    <3>1. P(a, b) = 0 => a.prerelease = b.prerelease
      BY <1>1, PrereleaseLower
    <3>2. P(b, c) = 0 => b.prerelease = c.prerelease
      BY <1>1, PrereleaseLower
    <3>3. P(a, b) = -1 /\ P(b, c) = -1 => P(a, c) = -1
      BY <1>1, PrereleaseTransitive
    <3>4. QED
      BY <2>1, <3>1, <3>2, <3>3
  <2> HIDE DEF P
  <2>3. /\ CompareSemver(a, b) = IF a.major # b.major THEN Sign(a.major, b.major)
                                 ELSE IF a.minor # b.minor THEN Sign(a.minor, b.minor)
                                 ELSE IF a.patch # b.patch THEN Sign(a.patch, b.patch)
                                 ELSE P(a, b)
        /\ CompareSemver(b, c) = IF b.major # c.major THEN Sign(b.major, c.major)
                                 ELSE IF b.minor # c.minor THEN Sign(b.minor, c.minor)
                                 ELSE IF b.patch # c.patch THEN Sign(b.patch, c.patch)
                                 ELSE P(b, c)
        /\ CompareSemver(a, c) = IF a.major # c.major THEN Sign(a.major, c.major)
                                 ELSE IF a.minor # c.minor THEN Sign(a.minor, c.minor)
                                 ELSE IF a.patch # c.patch THEN Sign(a.patch, c.patch)
                                 ELSE P(a, c)
    BY DEF CompareSemver, P
  <2>4. QED
    BY <1>1, <1>3, <2>1, <2>2, <2>3 DEF Sign
<1>4. CompareSemver(a, a) = 0
  <2>1. CompareSemver(a, a) = ComparePrerelease(a.prerelease, a.prerelease)
    BY DEF CompareSemver
  <2>2. ComparePrerelease(a.prerelease, a.prerelease) \in {-1, 0, 1}
    BY <1>1, PrereleaseLower
  <2>3. ComparePrerelease(a.prerelease, a.prerelease)
        = -ComparePrerelease(a.prerelease, a.prerelease)
    BY <1>1, PrereleaseAntisymmetric
  <2>4. \A n \in {-1, 0, 1} : n = -n => n = 0
    OBVIOUS
  <2>5. QED
    BY <2>1, <2>2, <2>3, <2>4
<1>5. QED
  BY <1>2, <1>3, <1>4

--------------------------------------------------------------------------------
(* What install, update and uninstall do beside doctor.                      *)

\* A file that doctor cannot read counts as a failure of the disk.
Thrown == Failure /\ UNCHANGED <<runVars, dirVars, leftovers, lifeVars>>

LEMMA DoctorMoves ==
  ASSUME [DoctorNext]_allVars PROVE [Next]_vars \/ Thrown
<1>1. CASE DoctorStep
  BY <1>1 DEF DoctorStep, StartDoctor, ProbeConfig, ReadConfig, ProbeStamp,
     CheckExportsSmokeImport, HashFile, ReportStandard, ReportFull, EndWith, TimesOut,
     DoctorThrows, Thrown
<1>2. QED
  BY <1>1 DEF DoctorNext, LifecycleStep, allVars

LEMMA ThrownTypes == ASSUME TypeOK, Thrown PROVE TypeOK' /\ failures' # 0
<1>1. LockStays /\ failures' # 0
  BY DEF TypeOK, LockTypeOK, Thrown, Failure, LockStays
<1>2. LockTypeOK'
  BY <1>1, StaysFrame DEF TypeOK
<1>3. DiskTypeOK' /\ RunTypeOK'
  BY DiskFrame, RunFrame DEF TypeOK, Thrown, lifeVars, userVars
<1>4. edits' \in Nat
  BY DEF TypeOK, Thrown, lifeVars, userVars
<1>5. QED
  BY <1>1, <1>2, <1>3, <1>4 DEF TypeOK

LEMMA ThrownSafe ==
  ASSUME RunsSerialized, LifecycleInv, Thrown PROVE LifecycleInv'
<1>1. TypeOK' /\ Settled'
  BY ThrownTypes DEF LifecycleInv, Settled, Undisturbed
<1>2. UNCHANGED <<pc, diskVars, step, at, managed, prior, cfg, job, kept, files, edited, hashes,
                  merged>>
  BY DEF Thrown, lifeVars, runVars, localVars, readVars, userVars, diskVars
<1>3. Kept'
  BY <1>2, FrameKeeps DEF LifecycleInv, Quiet
<1>4. \A r \in Runs : Following(r)'
  BY <1>2, FollowFrame DEF LifecycleInv
<1>5. QED
  BY <1>1, <1>3, <1>4 DEF LifecycleInv, Kept

\* What doctor relies on.
World == TypeOK /\ BackedUntilLeftover /\ (leftovers = 0 => LifecycleInv)

LEMMA WorldInit == Init => World
  BY LifecycleInit, LifecycleTypeInit, BackedInit DEF World, Init

LEMMA WorldStep ==
  ASSUME ShortInstalls, World, [DoctorNext]_allVars PROVE World'
<1>1. CASE [Next]_vars
  <2>1. TypeOK' /\ BackedUntilLeftover'
    BY <1>1, LifecycleTypeStep, LifecycleBackedStep DEF World, TypeOK
  <2>2. ASSUME leftovers' = 0 PROVE LifecycleInv'
    <3>1. leftovers = 0
      BY <1>1, <2>2, LeftoversGrow DEF World
    <3>2. RunsSerialized
      BY <3>1, BackedSerialized DEF World, SerializedUntilLeftover
    <3>3. RunsSerialized'
      <4>1. SerializedUntilLeftover'
        BY <2>1, BackedSerialized, PTL
      <4>2. QED
        BY <2>2, <4>1 DEF SerializedUntilLeftover
    <3>4. QED
      BY <1>1, <3>1, <3>2, <3>3, LifecycleInvStep DEF World
  <2>3. QED
    BY <2>1, <2>2 DEF World
<1>2. CASE Thrown
  <2>1. TypeOK'
    BY <1>2, ThrownTypes DEF World
  <2>2. LockStays
    BY <1>2 DEF World, TypeOK, LockTypeOK, Thrown, Failure, LockStays
  <2>3. BackedUntilLeftover'
    BY <2>2, StaysFrame DEF World, TypeOK
  <2>4. leftovers' = 0 => LifecycleInv'
    BY <1>2, <2>2, ThrownSafe, BackedSerialized DEF World, SerializedUntilLeftover, LockStays
  <2>5. QED
    BY <2>1, <2>3, <2>4 DEF World
<1>3. QED
  BY <1>1, <1>2, DoctorMoves

LEMMA DoctorLifecycleTypes == DoctorSpec => []TypeOK
<1>1. TypeOK /\ [DoctorNext]_allVars => TypeOK'
  BY DoctorMoves, LifecycleTypeStep, ThrownTypes
<1>2. DoctorInit => TypeOK
  BY LifecycleTypeInit DEF DoctorInit
<1>3. QED
  BY <1>1, <1>2, PTL DEF DoctorSpec

LEMMA DoctorWorld == ShortInstalls /\ DoctorSpec => []World
<1>1. ShortInstalls /\ World /\ [DoctorNext]_allVars => World'
  BY WorldStep
<1>2. DoctorInit => World
  BY WorldInit DEF DoctorInit
<1>3. ShortInstalls => ShortInstalls'
  BY DEF ShortInstalls
<1>4. QED
  BY <1>1, <1>2, <1>3, PTL DEF DoctorSpec

--------------------------------------------------------------------------------
(* The types of what doctor knows.                                           *)

Verdicts == {"pass", "warn", "fail"}

LEMMA VerdictTypes ==
  /\ CheckNodeVersion \in Verdicts /\ CheckConfigParse \in Verdicts
  /\ CheckJsoncValid \in Verdicts /\ CheckPluginEntry \in Verdicts
  /\ CheckStampBundleHash \in Verdicts /\ CheckStampConsistency \in Verdicts
  /\ \A n : CheckPowershellVersion(n) \in Verdicts /\ CheckOpencodeVersion(n) \in Verdicts
  BY DEF CheckNodeVersion, CheckConfigParse, CheckJsoncValid, CheckPluginEntry,
     CheckStampBundleHash, CheckStampConsistency, CheckPowershellVersion, CheckOpencodeVersion,
     Verdicts

Statuses == [Checks -> {"none"} \cup Verdicts]

LEMMA CheckedTypes ==
  ASSUME status \in Statuses, NEW major, NEW detected, NEW sums \in Verdicts,
         NEW cache \in Verdicts
  PROVE  /\ Checked(major, detected) \in Statuses
         /\ FullyChecked(Checked(major, detected), sums, cache) \in Statuses
<1>1. Checked(major, detected) \in Statuses
  BY VerdictTypes DEF Checked, Statuses
<1>2. ASSUME NEW c \in Statuses PROVE FullyChecked(c, sums, cache) \in Statuses
  BY DEF FullyChecked, Statuses, Verdicts
<1>3. QED
  BY <1>1, <1>2

LEMMA SummarizeTypes == \A c : Summarize(c) \in {"healthy", "degraded", "broken"}
  BY DEF Summarize

LEMMA EndTypes ==
  ASSUME DoctorTypeOK, NEW c \in Statuses, EndWith(c) PROVE DoctorTypeOK'
  BY SummarizeTypes DEF DoctorTypeOK, EndWith, probeVars, historyVars, Statuses, Verdicts

LEMMA DoctorTypeInit == DoctorInit => DoctorTypeOK
<1>1. Unchecked \in [Checks -> {"none", "pass", "warn", "fail"}]
  BY DEF Unchecked
<1>2. Nothing \in Files /\ NoStamp \in Stamps
  BY FileTypes, StampTypes
<1>3. DoctorInit => mismatch \in BOOLEAN /\ vouched \in BOOLEAN /\ quiet \in BOOLEAN
  BY DEF DoctorInit
<1>4. QED
  BY <1>1, <1>2, <1>3 DEF DoctorInit, DoctorTypeOK

LEMMA DoctorTypeStep == ASSUME TypeOK, DoctorTypeOK, [DoctorNext]_allVars PROVE DoctorTypeOK'
<1>1. CASE StartDoctor
  BY <1>1 DEF DoctorTypeOK, StartDoctor, GoTo, probeVars
<1>2. CASE ProbeConfig
  <2>1. Located # {} => Config \in Elements(Configs) /\ Config # None
    BY LocatesSome, LifecycleAssumption DEF LifecycleAssumption
  <2>2. CASE Located = {}
    BY <1>2, <2>2 DEF DoctorTypeOK, ProbeConfig, GoTo, historyVars
  <2>3. CASE Located # {}
    BY <1>2, <2>1, <2>3 DEF DoctorTypeOK, ProbeConfig, GoTo, historyVars
  <2>4. QED
    BY <2>2, <2>3
<1>3. CASE ReadConfig
  <2>1. Elements(Configs) \subseteq Paths
    BY LifecycleAssumption DEF LifecycleAssumption, Elements
  <2>2. files[target] \in Files
    BY <1>3, <2>1 DEF TypeOK, DiskTypeOK, DoctorTypeOK, ReadConfig
  <2>3. QED
    BY <1>3, <2>2 DEF DoctorTypeOK, ReadConfig, GoTo, historyVars
<1>4. CASE ProbeStamp
  <2>1. AsStamped(stamp) \in BOOLEAN
    BY DEF AsStamped
  <2>2. QED
    BY <1>4, <2>1 DEF DoctorTypeOK, ProbeStamp, GoTo, TypeOK, DiskTypeOK
<1>5. CASE CheckExportsSmokeImport
  <2>1. SmokeOutcomes \subseteq Verdicts
    BY DEF SmokeOutcomes, Verdicts
  <2>2. status' \in Statuses
    BY <1>5, <2>1 DEF DoctorTypeOK, CheckExportsSmokeImport, Statuses, Verdicts
  <2>3. QED
    BY <1>5, <2>2 DEF DoctorTypeOK, CheckExportsSmokeImport, GoTo, probeVars, historyVars,
                      Statuses, Verdicts
<1>6. CASE HashFile
  <2>1. HashMisses(seen.managed[next]) \in BOOLEAN
    BY DEF HashMisses, Present
  <2>2. QED
    BY <1>6, <2>1 DEF DoctorTypeOK, HashFile, historyVars
<1>7. CASE ReportStandard \/ ReportFull
  <2>1. status \in Statuses /\ "warn" \in Verdicts
    BY DEF DoctorTypeOK, Statuses, Verdicts
  <2>2. BundleSums \subseteq Verdicts /\ {"pass", "warn"} \subseteq Verdicts
    BY DoctorAssumption DEF DoctorAssumption, Verdicts
  <2>3. QED
    BY <1>7, <2>1, <2>2, CheckedTypes, EndTypes DEF ReportStandard, ReportFull
<1>8. CASE TimesOut
  BY <1>8 DEF DoctorTypeOK, TimesOut, Unchecked, probeVars, historyVars
<1>9. CASE DoctorThrows
  BY <1>9 DEF DoctorTypeOK, DoctorThrows, probeVars, historyVars
<1>10. CASE LifecycleStep
  <2>1. vouched' \in BOOLEAN /\ quiet' \in BOOLEAN
    BY <1>10 DEF LifecycleStep
  <2>2. met' \subseteq Runs
    BY <1>10 DEF LifecycleStep, DoctorTypeOK
  <2>3. QED
    BY <1>10, <2>1, <2>2 DEF LifecycleStep, DoctorTypeOK, docVars, probeVars
<1>11. CASE UNCHANGED allVars
  BY <1>11 DEF allVars, docVars, probeVars, historyVars, DoctorTypeOK
<1>12. QED
  BY <1>1, <1>2, <1>3, <1>4, <1>5, <1>6, <1>7, <1>8, <1>9, <1>10, <1>11
     DEF DoctorNext, DoctorStep

LEMMA DoctorTypes == DoctorSpec => [](TypeOK /\ DoctorTypeOK)
<1>1. DoctorInit => DoctorTypeOK
  BY DoctorTypeInit
<1>2. TypeOK /\ DoctorTypeOK /\ [DoctorNext]_allVars => DoctorTypeOK'
  BY DoctorTypeStep
<1>3. QED
  BY <1>1, <1>2, DoctorLifecycleTypes, PTL DEF DoctorSpec

--------------------------------------------------------------------------------
(* A file that is not as the stamp says stays so while a run is at work.     *)

\* A step of install, update and uninstall that leaves the project undisturbed.
LEMMA UndisturbedStep ==
  ASSUME RunsSerialized, LifecycleInv, [Next]_vars, Undisturbed'
  PROVE  /\ Undisturbed
         /\ \/ \E r \in Runs : /\ Acts(r) /\ Working(r) /\ OnlyRun(r)
                               /\ ~StepFails(r) /\ failures' = 0
            \/ /\ UNCHANGED <<diskVars, localVars, job>>
               /\ \A s \in Runs : Changing(s)' = Changing(s) /\ Goes(s)
<1>1. Quiet /\ (\A s \in Runs : Following(s)) /\ Settled
  BY DEF LifecycleInv, Quiet
<1>2. ASSUME NEW r \in Runs, Acts(r)
      PROVE  Undisturbed /\ Working(r) /\ OnlyRun(r) /\ ~StepFails(r) /\ failures' = 0
  BY <1>1, <1>2, WorksOn
<1>3. ASSUME NEW p \in Paths, NEW t \in UserTexts \cup {None}, UserEdits(p, t) PROVE FALSE
  <2>1. edits + 1 = 0 /\ edits \in Nat
    BY <1>1, <1>3 DEF UserEdits, Undisturbed, Quiet, TypeOK
  <2>2. QED
    BY <2>1
<1>4. ASSUME \/ \E r \in Runs : TakeLock(r) \/ Leave(r) \/ Dies(r)
             \/ TimePasses \/ UNCHANGED vars
      PROVE  /\ UNCHANGED <<diskVars, localVars, job>> /\ Undisturbed
             /\ \A s \in Runs : Changing(s)' = Changing(s) /\ Goes(s)
  BY <1>1, <1>4, OtherSteps DEF Undisturbed
<1>5. CASE \E r \in Runs : Acts(r)
  BY <1>2, <1>5
<1>6. CASE \A r \in Runs : ~Acts(r)
  BY <1>3, <1>4, <1>6 DEF Next, Begin, Acts
<1>7. QED
  BY <1>5, <1>6

\* One file is written, and not with what the stamp has for it.
LEMMA WrittenWrong ==
  ASSUME TypeOK, seen \in Stamps, seen' = seen, NEW q, NEW f, WriteFile(q, f),
         q \in Elements(seen.managed) /\ HashMisses(q) => f = Nothing \/ f # seen.hashes[q],
         NEW p \in Elements(seen.managed), HashMisses(p)
  PROVE  HashMisses(p)'
<1>1. p \in Paths
  BY DEF Stamps, Elements
<1>2. files'[p] = IF p = q THEN f ELSE files[p]
  BY <1>1 DEF WriteFile, TypeOK, DiskTypeOK
<1>3. QED
  BY <1>2 DEF HashMisses, Present

LEMMA NothingWritten ==
  ASSUME UNCHANGED <<files, seen>>, NEW p, HashMisses(p) PROVE HashMisses(p)'
  BY DEF HashMisses, Present

\* The context of the steps below: the stamp that doctor has read is there, and a run that
\* may change what it describes works.
Watched(r) ==
    /\ Working(r) /\ Changing(r) /\ stamp.state = "valid" /\ seen = stamp /\ seen' = seen
    /\ failures' = 0

LEMMA WatchedTypes ==
  ASSUME NEW r \in Runs, Watched(r)
  PROVE  /\ seen \in Stamps /\ Elements(seen.managed) \subseteq Paths
         /\ IF Is(r, "uninstall") THEN Stripping(r) ELSE Building(r)
         /\ To(r) \in Versions /\ Plain(To(r)) # Nothing
<1>1. To(r) \in Versions
  BY TargetTypes DEF Watched, Working, Quiet, TypeOK
<1>2. Plain(To(r)) # Nothing
  BY <1>1, LifecycleAssumption DEF Plain, Nothing, LifecycleAssumption
<1>3. QED
  BY <1>1, <1>2
  DEF Watched, Working, Quiet, TypeOK, DiskTypeOK, Stamps, Elements, SettledRun

LEMMA CopyMisses ==
  ASSUME NEW r \in Runs, Watched(r), Copy(r),
         NEW p \in Elements(seen.managed), HashMisses(p)
  PROVE  HashMisses(p)'
<1>1. step[r] \in {"copy", "replace"} /\ ~Is(r, "uninstall")
  BY DEF Watched, Working, Quiet, Informed, Copy, CopyCreates, CopyRefused, CopyBacksUp,
         CopyReplaces, CopiesDone, Copying, At
<1>2. Building(r) /\ Overwrites(r) /\ Describes(stamp)
  BY <1>1, WatchedTypes DEF Building, Watched
<1>3. CASE CopyReplaces(r)
  <2>1. Entry(r) \in Elements(Copies[To(r)]) /\ WriteFile(Entry(r), Plain(To(r)))
    BY <1>3 DEF CopyReplaces, At, Watched, Working, Quiet, TypeOK, RunTypeOK, Entry, Elements
  <2>2. Entry(r) \notin Elements(Configs) /\ Entry(r) # Package
    BY <2>1, TargetTypes, LifecycleAssumption
    DEF Watched, Working, Quiet, TypeOK, LifecycleAssumption
  <2>3. ASSUME Entry(r) \in Elements(seen.managed), HashMisses(Entry(r))
        PROVE  Plain(To(r)) # seen.hashes[Entry(r)]
    <3>1. CASE To(r) = stamp.version
      BY <1>2, <2>2, <2>3, <3>1 DEF Building, Watched, HashMisses
    <3>2. CASE To(r) # stamp.version
      BY <1>2, <2>2, <2>3, <3>2 DEF Describes, Watched, Plain
    <3>3. QED
      BY <3>1, <3>2
  <2>4. QED
    BY <2>1, <2>3, WatchedTypes, WrittenWrong DEF Watched, Working, Quiet
<1>4. CASE ~CopyReplaces(r)
  <2>1. files' = files
    BY <1>2, <1>4 DEF Copy, CopyCreates, CopyRefused, CopyBacksUp, CopiesDone, diskVars
  <2>2. QED
    BY <2>1, NothingWritten DEF Watched
<1>5. QED
  BY <1>3, <1>4

LEMMA ConfigureMisses ==
  ASSUME NEW r \in Runs, Watched(r), Configure(r),
         NEW p \in Elements(seen.managed), HashMisses(p)
  PROVE  HashMisses(p)'
<1>1. CASE WriteConfig(r)
  <2>1. WriteFile(cfg[r], merged[r]) /\ step[r] = "cfgReplace"
    BY <1>1 DEF WriteConfig, At
  <2>2. CASE Is(r, "uninstall")
    <3>1. /\ merged[r].entry = "no" /\ cfg[r] \in Elements(Configs)
          /\ Describes(seen)
      BY <2>1, <2>2, WatchedTypes DEF Stripping, Watched
    <3>2. cfg[r] \in Elements(seen.managed) => merged[r] # seen.hashes[cfg[r]]
      BY <3>1 DEF Describes
    <3>3. QED
      BY <2>1, <3>2, WatchedTypes, WrittenWrong DEF Watched, Working, Quiet
  <2>3. CASE ~Is(r, "uninstall")
    <3>1. merged[r] = files[cfg[r]]
      BY <2>1, <2>3, WatchedTypes DEF Building, Watched
    <3>2. files' = files
      BY <2>1, <3>1 DEF WriteFile, Watched, Working, Quiet, TypeOK, DiskTypeOK
    <3>3. QED
      BY <3>2, NothingWritten DEF Watched
  <2>4. QED
    BY <2>2, <2>3
<1>2. CASE ~WriteConfig(r)
  <2>1. files' = files
    BY <1>2 DEF Configure, LocateForMerge, BackUpConfig, diskVars
  <2>2. QED
    BY <2>1, NothingWritten DEF Watched
<1>3. QED
  BY <1>1, <1>2

LEMMA CompleteMisses ==
  ASSUME NEW r \in Runs, Watched(r), Complete(r), ~AsStamped(seen)',
         NEW p \in Elements(seen.managed), HashMisses(p)
  PROVE  HashMisses(p)'
<1>1. step[r] \in {"package", "packageCopy", "hash", "writeStamp"} /\ ~Is(r, "uninstall")
  BY DEF Watched, Working, Quiet, Informed, Complete, NoPackage, PackageRefused, RemovePackage,
         CopyPackage, CopyPackageFails, HashFiles, WriteStamp, WriteBadStamp, At
<1>2. Building(r) /\ Overwrites(r) /\ Describes(stamp)
  BY <1>1, WatchedTypes DEF Building, Watched
<1>3. CASE RemovePackage(r)
  <2>1. WriteFile(Package, Nothing)
    BY <1>3 DEF RemovePackage
  <2>2. QED
    BY <2>1, WatchedTypes, WrittenWrong DEF Watched, Working, Quiet
<1>4. CASE CopyPackage(r)
  <2>1. WriteFile(Package, Plain(To(r)))
    BY <1>4 DEF CopyPackage
  <2>2. Package \in Elements(seen.managed) => seen.hashes[Package] = Plain(stamp.version)
    BY <1>2 DEF Describes, Watched
  <2>3. CASE To(r) # stamp.version \/ Package \notin Elements(seen.managed)
    <3>1. Package \in Elements(seen.managed) => Plain(To(r)) # seen.hashes[Package]
      BY <2>2, <2>3 DEF Plain
    <3>2. QED
      BY <2>1, <3>1, WatchedTypes, WrittenWrong DEF Watched, Working, Quiet
  <2>4. CASE To(r) = stamp.version /\ Package \in Elements(seen.managed)
    <3>1. ASSUME NEW q \in Elements(seen.managed) PROVE Present(q)' /\ files'[q] = seen.hashes[q]
      <4>1. files'[q] = IF q = Package THEN Plain(To(r)) ELSE files[q]
        BY <2>1, WatchedTypes DEF WriteFile, Watched, Working, Quiet, TypeOK, DiskTypeOK
      <4>2. CASE q = Package
        BY <2>2, <2>4, <4>1, <4>2, WatchedTypes DEF Present
      <4>3. CASE q # Package
        BY <1>2, <2>4, <4>1, <4>3 DEF Building, Watched, Present
      <4>4. QED
        BY <4>2, <4>3
    <3>2. AsStamped(seen)'
      BY <3>1 DEF AsStamped, Watched, Elements
    <3>3. QED
      BY <3>2
  <2>5. QED
    BY <2>3, <2>4
<1>5. CASE ~RemovePackage(r) /\ ~CopyPackage(r)
  <2>1. ~CopyPackageFails(r)
    <3>1. ASSUME CopyPackageFails(r) PROVE FALSE
      <4>1. ~Present(Package)
        BY <1>2, <3>1 DEF Building, CopyPackageFails, At
      <4>2. failures' = failures + 1
        BY <3>1, <4>1 DEF CopyPackageFails, Failure
      <4>3. QED
        BY <4>2 DEF Watched, Working
    <3>2. QED
      BY <3>1
  <2>2. files' = files
    BY <1>5, <2>1 DEF Complete, NoPackage, PackageRefused, HashFiles, WriteStamp, WriteBadStamp,
                      diskVars
  <2>3. QED
    BY <2>2, NothingWritten DEF Watched
<1>6. QED
  BY <1>3, <1>4, <1>5

LEMMA UninstallMisses ==
  ASSUME NEW r \in Runs, Watched(r), Uninstall(r),
         NEW p \in Elements(seen.managed), HashMisses(p)
  PROVE  HashMisses(p)'
<1>1. CASE RemoveManaged(r)
  <2>1. WriteFile(Managed(r), Nothing)
    BY <1>1 DEF RemoveManaged
  <2>2. QED
    BY <2>1, WatchedTypes, WrittenWrong DEF Watched, Working, Quiet
<1>2. CASE ~RemoveManaged(r)
  <2>1. files' = files
    BY <1>2 DEF Uninstall, LocateForStrip, CompareSkips, CompareMatches, RemoveManagedFails,
                CompareDone, StripEntry, StripFails, DropStamp, Purge, diskVars
  <2>2. QED
    BY <2>1, NothingWritten DEF Watched
<1>3. QED
  BY <1>1, <1>2

\* The one run that works brings no file back to what the stamp says, or all of them.
LEMMA MissesStay ==
  ASSUME NEW r \in Runs, Watched(r), Acts(r), ~StepFails(r), ~AsStamped(seen)',
         NEW p \in Elements(seen.managed), HashMisses(p)
  PROVE  HashMisses(p)'
<1>1. CASE Begin(r) \/ WriteLog(r)
  <2>1. files' = files
    BY <1>1 DEF Acts, Begin, ReadBadStamp, ReadStamp, Decline, Proceed, WriteLog, diskVars
  <2>2. QED
    BY <2>1, NothingWritten DEF Watched
<1>2. QED
  BY <1>1, CopyMisses, ConfigureMisses, CompleteMisses, UninstallMisses DEF Acts

\* A run that is past its decision changes the stamp only when it is done with the files.
LEMMA StaysInvolved ==
  ASSUME NEW r \in Runs, Working(r), Acts(r), ~StepFails(r), failures' = 0, Involved(r),
         seen' = seen
  PROVE  Involved(r)'
<1> USE DEF Working, Quiet, TypeOK, LockTypeOK, RunTypeOK, Move, Return, Finish, Go, At, Holding,
            Involved, Changing, lockVars, runVars, diskVars
<1>1. pc[r] = "held" /\ step[r] \notin {"readStamp", "decide"}
  OBVIOUS
<1>2. CASE Begin(r) \/ WriteLog(r)
  BY <1>2 DEF Acts, Begin, ReadBadStamp, ReadStamp, Decline, Proceed, WriteLog
<1>3. CASE Copy(r)
  BY <1>3 DEF Copy, CopyCreates, CopyRefused, CopyBacksUp, CopyReplaces, CopiesDone, Copying
<1>4. CASE Configure(r)
  BY <1>4 DEF Configure, LocateForMerge, BackUpConfig, WriteConfig
<1>5. CASE Complete(r)
  BY <1>5 DEF Complete, NoPackage, PackageRefused, RemovePackage, CopyPackage,
              CopyPackageFails, HashFiles, WriteStamp, WriteBadStamp, Failure
<1>6. CASE Uninstall(r)
  BY <1>6 DEF Uninstall, LocateForStrip, CompareSkips, CompareMatches, RemoveManaged, Comparing,
              RemoveManagedFails, CompareDone, StripEntry, StripFails, DropStamp, Purge
<1>7. QED
  BY <1>2, <1>3, <1>4, <1>5, <1>6 DEF Acts

--------------------------------------------------------------------------------
(* What doctor has read of the files keeps pace with them.                   *)

\* The part of Caught that the report rests on.
Chase ==
    /\ Describes(seen)
    /\ \E r \in met : Involved(r)
    /\ mismatch \/ \E k \in DOMAIN seen.managed : next <= k /\ HashMisses(seen.managed[k])
Chasing ==
    dpc \in {"import", "hash"} /\ seen.state = "valid" /\ ~vouched /\ Undisturbed /\ MetOne
Chased == Chasing => Chase

Meets == Running => \A r \in Runs : Holding(r) => r \in met

LEMMA MeetsStep == ASSUME Meets, [DoctorNext]_allVars PROVE Meets'
<1>1. CASE StartDoctor
  BY <1>1 DEF Meets, StartDoctor, vars, lockVars, runVars, Holding
<1>2. CASE LifecycleStep
  BY <1>2 DEF Meets, LifecycleStep, Running, docVars
<1>3. CASE (DoctorStep /\ ~StartDoctor) \/ UNCHANGED allVars
  <2>1. pc' = pc /\ met' = met /\ (Running' => Running)
    BY <1>3 DEF DoctorStep, ProbeConfig, ReadConfig, ProbeStamp, CheckExportsSmokeImport, HashFile,
       ReportStandard, ReportFull, EndWith, TimesOut, DoctorThrows, GoTo, Running, allVars, docVars,
       vars, lockVars, runVars, historyVars
  <2>2. QED
    BY <2>1 DEF Meets, Holding
<1>4. QED
  BY <1>1, <1>2, <1>3 DEF DoctorNext

LEMMA DescribesFrame == ASSUME seen' = seen PROVE Describes(seen)' = Describes(seen)
  BY DEF Describes, Elements

\* Doctor reads the stamp while the project is not as that says: a run is changing it.
LEMMA ChaseBegins ==
  ASSUME World, DoctorTypeOK, Meets, ProbeStamp, next = 1 PROVE Chased'
<1> SUFFICES ASSUME Chasing' PROVE Chase'
  BY DEF Chased
<1>1. /\ seen' = stamp /\ ~AsStamped(stamp) /\ stamp.state = "valid" /\ Undisturbed
      /\ met' = met /\ next' = 1 /\ Running /\ UNCHANGED vars
  BY DEF ProbeStamp, GoTo, Chasing, Undisturbed, vars, lockVars, lifeVars, userVars, Running
<1>2. Settled /\ TypeOK
  BY <1>1 DEF World, LifecycleInv, Undisturbed
<1>3. PICK r \in Runs : Changing(r)
  BY <1>1, <1>2 DEF Settled, Installed
<1>4. r \in met
  BY <1>1, <1>3 DEF Meets, Changing, Holding
<1>5. Describes(stamp)
  <2>1. IF Is(r, "uninstall") THEN Stripping(r) ELSE Building(r)
    BY <1>1, <1>2, <1>3 DEF Settled
  <2>2. QED
    BY <1>1, <2>1 DEF Stripping, Building
<1>6. Describes(seen)'
  BY <1>1, <1>5 DEF Describes, Elements
<1>7. Involved(r)'
  BY <1>1, <1>3 DEF Involved, Changing, vars, lockVars, runVars, lifeVars, localVars, diskVars
<1>8. PICK k \in DOMAIN stamp.managed :
         ~Present(stamp.managed[k]) \/ files[stamp.managed[k]] # stamp.hashes[stamp.managed[k]]
  BY <1>1 DEF AsStamped, Elements
<1>9. k \in DOMAIN seen'.managed /\ HashMisses(seen.managed[k])'
  BY <1>1, <1>8 DEF HashMisses, Present, vars, lifeVars, diskVars
<1>10. 1 <= k
  BY <1>2, <1>8 DEF TypeOK, DiskTypeOK, Stamps
<1>11. QED
  BY <1>1, <1>4, <1>6, <1>7, <1>9, <1>10 DEF Chase

\* Doctor hashes a file: those it has passed may have come right, but it has noticed.
LEMMA ChaseHashes == ASSUME DoctorTypeOK, Chased, HashFile PROVE Chased'
<1> SUFFICES ASSUME Chasing' PROVE Chase'
  BY DEF Chased
<1>1. /\ UNCHANGED <<vars, seen, met, vouched, dpc>> /\ next' = next + 1
      /\ mismatch' = (mismatch \/ HashMisses(seen.managed[next]))
      /\ next \in Nat
  BY DEF HashFile, historyVars, DoctorTypeOK
<1>2. Chasing
  BY <1>1 DEF Chasing, Undisturbed, MetOne, vars, lockVars, lifeVars, userVars
<1>3. Describes(seen)' /\ \E r \in met' : Involved(r)'
  BY <1>1, <1>2, DescribesFrame
  DEF Chased, Chase, Involved, Changing, vars, lockVars, runVars, lifeVars, localVars, diskVars
<1>4. mismatch \/ \E k \in DOMAIN seen.managed : next <= k /\ HashMisses(seen.managed[k])
  BY <1>2 DEF Chased, Chase
<1>5. CASE mismatch \/ HashMisses(seen.managed[next])
  BY <1>1, <1>3, <1>5 DEF Chase
<1>6. CASE ~mismatch /\ ~HashMisses(seen.managed[next])
  <2>1. PICK k \in DOMAIN seen.managed : next <= k /\ HashMisses(seen.managed[k])
    BY <1>4, <1>6
  <2>2. k # next /\ k \in Int
    BY <1>6, <2>1 DEF DoctorTypeOK, Stamps
  <2>3. next' <= k
    BY <1>1, <2>1, <2>2
  <2>4. k \in DOMAIN seen'.managed /\ HashMisses(seen.managed[k])'
    BY <1>1, <2>1 DEF HashMisses, Present, vars, lifeVars, diskVars
  <2>5. QED
    BY <1>3, <2>3, <2>4 DEF Chase
<1>7. QED
  BY <1>5, <1>6

\* A step of install, update or uninstall beside it.
LEMMA ChaseRuns ==
  ASSUME World, DoctorTypeOK, Meets, Meets', Chased, LifecycleStep PROVE Chased'
<1> SUFFICES ASSUME Chasing' PROVE Chase'
  BY DEF Chased
<1>1. /\ UNCHANGED <<dpc, seen, next, mismatch>> /\ met \subseteq met' /\ met' \subseteq Runs
      /\ ~vouched /\ ~AsStamped(seen)' /\ Running /\ Undisturbed' /\ MetOne' /\ MetOne
  BY DoctorTypeStep
  DEF LifecycleStep, docVars, probeVars, Chasing, Running, MetOne, DoctorTypeOK, World, DoctorNext
<1>2. /\ Undisturbed
      /\ \/ \E r \in Runs : /\ Acts(r) /\ Working(r) /\ OnlyRun(r)
                            /\ ~StepFails(r) /\ failures' = 0
         \/ /\ UNCHANGED <<diskVars, localVars, job>>
            /\ \A s \in Runs : Changing(s)' = Changing(s) /\ Goes(s)
  <2>1. leftovers = 0
    BY <1>1, LeftoversGrow DEF World, LifecycleStep, Undisturbed
  <2>2. RunsSerialized
    BY <2>1, BackedSerialized DEF World, SerializedUntilLeftover
  <2>3. QED
    BY <1>1, <2>1, <2>2, UndisturbedStep DEF World, LifecycleStep
<1>3. Chase
  BY <1>1, <1>2 DEF Chased, Chasing
<1>4. PICK r \in met : Involved(r)
  BY <1>3 DEF Chase
<1>5. r \in Runs /\ r \in met' /\ \A s \in Runs : Holding(s) => s = r
  BY <1>1, <1>4 DEF MetOne, Meets
<1>6. Describes(seen)'
  BY <1>1, <1>3, DescribesFrame DEF Chase
<1>7. CASE Acts(r) /\ Working(r) /\ ~StepFails(r) /\ failures' = 0
  <2>1. Involved(r)'
    BY <1>1, <1>4, <1>5, <1>7, StaysInvolved
  <2>2. ASSUME NEW p \in Elements(seen.managed), HashMisses(p) PROVE HashMisses(p)'
    <3>1. CASE Changing(r)
      <4>1. Watched(r)
        BY <1>1, <1>4, <1>7, <3>1 DEF Watched, Involved, Chasing
      <4>2. QED
        BY <1>1, <1>5, <1>7, <2>2, <4>1, MissesStay
    <3>2. CASE ~Changing(r)
      <4>1. files' = files
        BY <1>7, <3>2 DEF Acts, Working, Holding, Changing, Begin, ReadBadStamp, ReadStamp,
           Decline, Proceed, Copy, CopyCreates, CopyRefused, CopyBacksUp, CopyReplaces, CopiesDone,
           Copying, Configure, LocateForMerge, BackUpConfig, WriteConfig, Complete, NoPackage,
           PackageRefused, RemovePackage, CopyPackage, CopyPackageFails, HashFiles, WriteStamp,
           WriteBadStamp, Uninstall, LocateForStrip, CompareSkips, CompareMatches, RemoveManaged,
           Comparing, RemoveManagedFails, CompareDone, StripEntry, StripFails, DropStamp, Purge,
           WriteLog, At, diskVars
      <4>2. QED
        BY <1>1, <2>2, <4>1, NothingWritten
    <3>3. QED
      BY <3>1, <3>2
  <2>3. mismatch' \/ \E k \in DOMAIN seen'.managed : next' <= k /\ HashMisses(seen.managed[k])'
    <3>1. CASE mismatch
      BY <1>1, <3>1
    <3>2. CASE ~mismatch
      <4>1. PICK k \in DOMAIN seen.managed : next <= k /\ HashMisses(seen.managed[k])
        BY <1>3, <3>2 DEF Chase
      <4>2. HashMisses(seen.managed[k])'
        <5> DEFINE p == seen.managed[k]
        <5>1. p \in Elements(seen.managed) /\ p' = p
          BY <1>1, <4>1 DEF Elements
        <5>2. HashMisses(p)'
          BY <2>2, <4>1, <5>1 DEF HashMisses, Present
        <5>3. QED
          BY <5>2
      <4>3. QED
        BY <1>1, <4>1, <4>2
    <3>3. QED
      BY <3>1, <3>2
  <2>4. QED
    BY <1>5, <1>6, <2>1, <2>3 DEF Chase
<1>8. CASE /\ UNCHANGED <<diskVars, localVars, job>>
           /\ \A s \in Runs : Changing(s)' = Changing(s) /\ Goes(s)
  <2>1. Involved(r)'
    BY <1>1, <1>4, <1>5, <1>8 DEF Involved, Changing, Goes, diskVars, localVars
  <2>2. mismatch' \/ \E k \in DOMAIN seen'.managed : next' <= k /\ HashMisses(seen.managed[k])'
    BY <1>1, <1>3, <1>8 DEF Chase, HashMisses, Present, diskVars
  <2>3. QED
    BY <1>5, <1>6, <2>1, <2>2 DEF Chase
<1>9. QED
  BY <1>2, <1>5, <1>7, <1>8 DEF Working

Early ==
    /\ dpc \in {"idle", "locate", "read", "stamp"} => next = 1
    /\ dpc \in {"idle", "locate", "read", "stamp", "import"} => ~mismatch

LEMMA CaughtParts == Caught <=> Meets /\ Early /\ Chased
  BY DEF Caught, Meets, Early, Chased, Chasing, Chase

LEMMA EarlyStep == ASSUME Early, [DoctorNext]_allVars PROVE Early'
<1>1. CASE DoctorStep
  BY <1>1 DEF Early, DoctorStep, StartDoctor, ProbeConfig, ReadConfig, ProbeStamp,
     CheckExportsSmokeImport, HashFile, ReportStandard, ReportFull, EndWith, TimesOut,
     DoctorThrows, GoTo, probeVars
<1>2. CASE LifecycleStep \/ UNCHANGED allVars
  BY <1>2 DEF Early, LifecycleStep, allVars, docVars, probeVars
<1>3. QED
  BY <1>1, <1>2 DEF DoctorNext

LEMMA ChasedFrame ==
  ASSUME Chased, UNCHANGED <<vars, probeVars, historyVars>>, dpc' = "hash" => dpc = "import"
         \/ dpc = "hash", dpc' # "import" \/ dpc = "import"
  PROVE  Chased'
<1> SUFFICES ASSUME Chasing' PROVE Chase'
  BY DEF Chased
<1>1. Chasing
  BY DEF Chasing, Undisturbed, MetOne, vars, lockVars, lifeVars, userVars, probeVars, historyVars
<1>2. Describes(seen)'
  BY <1>1, DescribesFrame DEF Chased, Chase, probeVars
<1>3. \E r \in met' : Involved(r)'
  BY <1>1
  DEF Chased, Chase, Involved, Changing, vars, lockVars, runVars, lifeVars, localVars, diskVars,
      probeVars, historyVars
<1>4. mismatch' \/ \E k \in DOMAIN seen'.managed : next' <= k /\ HashMisses(seen.managed[k])'
  BY <1>1 DEF Chased, Chase, HashMisses, Present, vars, lifeVars, diskVars, probeVars
<1>5. QED
  BY <1>2, <1>3, <1>4 DEF Chase

LEMMA ChasedStep ==
  ASSUME World, DoctorTypeOK, Early, Meets, Chased, [DoctorNext]_allVars PROVE Chased'
<1>1. CASE ProbeStamp
  BY <1>1, ChaseBegins DEF Early, ProbeStamp
<1>2. CASE HashFile
  BY <1>2, ChaseHashes
<1>3. CASE CheckExportsSmokeImport
  BY <1>3, ChasedFrame DEF CheckExportsSmokeImport, GoTo
<1>4. CASE LifecycleStep
  BY <1>4, ChaseRuns, MeetsStep
<1>5. CASE UNCHANGED allVars
  BY <1>5, ChasedFrame DEF allVars, docVars
<1>6. CASE \/ StartDoctor \/ ProbeConfig \/ ReadConfig \/ ReportStandard \/ ReportFull
           \/ TimesOut \/ DoctorThrows
  <2>1. dpc' \notin {"import", "hash"}
    BY <1>6 DEF StartDoctor, ProbeConfig, ReadConfig, ReportStandard, ReportFull, EndWith,
       TimesOut, DoctorThrows, GoTo
  <2>2. QED
    BY <2>1 DEF Chased, Chasing
<1>7. QED
  BY <1>1, <1>2, <1>3, <1>4, <1>5, <1>6 DEF DoctorNext, DoctorStep

\* A report of healthy comes after the last file.
LEMMA HealthyEnds ==
  ASSUME DoctorTypeOK, Chased, NEW c, EndWith(c), c["stamp-bundle-hash"] = CheckStampBundleHash
  PROVE  HealthyWasIntact'
<1> SUFFICES ASSUME report' = "healthy", Undisturbed', MetOne', ~vouched PROVE FALSE
  BY DEF HealthyWasIntact, EndWith, historyVars
<1>1. "stamp-bundle-hash" \in Checks
  BY DEF Checks, StampChecks
<1>2. c["stamp-bundle-hash"] # "warn"
  BY <1>1 DEF EndWith, Summarize
<1>3. seen.state = "valid" /\ ~mismatch
  BY <1>2 DEF CheckStampBundleHash
<1>4. Chasing
  BY <1>3
  DEF Chasing, EndWith, Undisturbed, MetOne, vars, lockVars, lifeVars, userVars, historyVars
<1>5. PICK k \in DOMAIN seen.managed : next <= k
  BY <1>3, <1>4 DEF Chased, Chase
<1>6. next \in Nat \ {0} /\ next \notin DOMAIN seen.managed /\ seen.managed \in Seq(Paths)
  BY DEF EndWith, DoctorTypeOK, Stamps
<1>7. QED
  BY <1>5, <1>6

\* What was disturbed stays so.
LEMMA StaysDisturbed ==
  ASSUME World, [DoctorNext]_allVars, Undisturbed' PROVE Undisturbed
<1>1. CASE [Next]_vars
  <2>1. leftovers = 0
    BY <1>1, LeftoversGrow DEF World, Undisturbed
  <2>2. RunsSerialized
    BY <2>1, BackedSerialized DEF World, SerializedUntilLeftover
  <2>3. QED
    BY <1>1, <2>1, <2>2, UndisturbedStep DEF World
<1>2. CASE Thrown
  BY <1>2, ThrownTypes DEF World, Undisturbed
<1>3. QED
  BY <1>1, <1>2, DoctorMoves

HealthyInv ==
    /\ World /\ DoctorTypeOK /\ Early /\ Meets /\ Chased
    /\ report = "healthy" => dpc = "done"
    /\ HealthyWasIntact

LEMMA HealthyStep ==
  ASSUME ShortInstalls, HealthyInv, [DoctorNext]_allVars PROVE HealthyInv'
<1> USE DEF HealthyInv
<1>1. World' /\ DoctorTypeOK' /\ Early' /\ Meets' /\ Chased'
  BY WorldStep, DoctorTypeStep, EarlyStep, MeetsStep, ChasedStep DEF World
<1>2. report' = "healthy" => dpc' = "done"
  BY DEF DoctorNext, DoctorStep, StartDoctor, ProbeConfig, ReadConfig, ProbeStamp,
     CheckExportsSmokeImport, HashFile, ReportStandard, ReportFull, EndWith, TimesOut,
     DoctorThrows, GoTo, LifecycleStep, allVars, docVars
<1>3. HealthyWasIntact'
  <2>1. CASE ReportStandard
    <3>1. PICK major \in PowerShells, detected \in OpenCodes : EndWith(Checked(major, detected))
      BY <2>1 DEF ReportStandard
    <3>2. Checked(major, detected)["stamp-bundle-hash"] = CheckStampBundleHash
      BY DEF Checked, DoctorTypeOK, Checks, StampChecks
    <3>3. QED
      BY <3>1, <3>2, HealthyEnds
  <2>2. CASE ReportFull
    <3>1. PICK major \in PowerShells, detected \in OpenCodes, sums \in BundleSums,
               cache \in {"pass", "warn"} :
                  EndWith(FullyChecked(Checked(major, detected), sums, cache))
      BY <2>2 DEF ReportFull
    <3>2. FullyChecked(Checked(major, detected), sums, cache)["stamp-bundle-hash"]
          = CheckStampBundleHash
      BY DEF FullyChecked, Checked, DoctorTypeOK, Checks, StampChecks
    <3>3. QED
      BY <3>1, <3>2, HealthyEnds
  <2>3. CASE ~ReportStandard /\ ~ReportFull
    <3> SUFFICES ASSUME report' = "healthy", Undisturbed', MetOne' PROVE vouched'
      BY DEF HealthyWasIntact
    <3>1. report = "healthy"
      BY <2>3 DEF DoctorNext, DoctorStep, StartDoctor, ProbeConfig, ReadConfig, ProbeStamp,
         CheckExportsSmokeImport, HashFile, TimesOut, DoctorThrows, GoTo, LifecycleStep, allVars,
         docVars
    <3>2. met' = met
      BY <2>3, <3>1 DEF DoctorNext, DoctorStep, StartDoctor, ProbeConfig, ReadConfig, ProbeStamp,
         CheckExportsSmokeImport, HashFile, TimesOut, DoctorThrows, LifecycleStep, allVars,
         historyVars, Running
    <3>3. vouched
      BY <3>1, <3>2, StaysDisturbed DEF HealthyWasIntact, MetOne
    <3>4. CASE LifecycleStep
      BY <3>3, <3>4 DEF LifecycleStep
    <3>5. CASE ~LifecycleStep
      BY <2>3, <3>1, <3>3, <3>5 DEF DoctorNext, DoctorStep, StartDoctor, ProbeConfig, ReadConfig,
         ProbeStamp, CheckExportsSmokeImport, HashFile, TimesOut, DoctorThrows, allVars, historyVars
    <3>6. QED
      BY <3>4, <3>5
  <2>4. QED
    BY <2>1, <2>2, <2>3
<1>4. QED
  BY <1>1, <1>2, <1>3

LEMMA HealthyInit == DoctorInit => HealthyInv
<1>1. DoctorInit => World /\ DoctorTypeOK
  BY WorldInit, DoctorTypeInit DEF DoctorInit
<1>2. DoctorInit => Early /\ Meets /\ Chased
  BY DEF DoctorInit, Early, Meets, Running, Chased, Chasing
<1>3. DoctorInit => report # "healthy"
  BY DEF DoctorInit
<1>4. QED
  BY <1>1, <1>2, <1>3 DEF HealthyInv, HealthyWasIntact

\* Doctor (doctor.ts) hashes the managed files one after the other and takes no lock.  All
\* the same, if it says "healthy" beside one install, update or uninstall, however the two
\* interleave, there was a moment at which all files were as the stamp that it had read says.
THEOREM HealthyIsVouched == ShortInstalls /\ DoctorSpec => []HealthyWasIntact
<1>1. ShortInstalls /\ HealthyInv /\ [DoctorNext]_allVars => HealthyInv'
  BY HealthyStep
<1>2. ShortInstalls => ShortInstalls'
  BY DEF ShortInstalls
<1>3. HealthyInv => HealthyWasIntact
  BY DEF HealthyInv
<1>4. QED
  BY <1>1, <1>2, <1>3, HealthyInit, PTL DEF DoctorSpec

--------------------------------------------------------------------------------
(* While nothing on the disk changes, what doctor has read is what is there.  *)

LEMMA LocatesConfig == Located # {} => \A p : Locates(p) => p = Config
  BY LocatesSome

LEMMA ConfigFrame ==
  ASSUME files' = files PROVE Located' = Located /\ (Located # {} => Config' = Config)
<1>1. Located' = Located /\ \A p : Locates(p)' = Locates(p)
  BY LocatesFrame DEF Present
<1>2. ASSUME Located # {} PROVE Config' = Config
  <2>1. PICK c : c = Config
    OBVIOUS
  <2>2. Locates(c)
    BY <1>2, <2>1, LocatesSome
  <2>3. Locates(c)'
    BY <1>1, <2>2
  <2>4. (Located # {} => \A p : Locates(p) => p = Config)'
    BY LocatesConfig, PTL
  <2>5. c = Config'
    BY <1>1, <1>2, <2>3, <2>4
  <2>6. QED
    BY <2>1, <2>5
<1>3. QED
  BY <1>1, <1>2

\* What Fluxed says of one run.
Fluxing(r) ==
    /\ Changing(r)
    /\ \/ Is(r, "uninstall")
       \/ step[r] \in {"package", "packageCopy"} /\ To(r) \in Standalone
       \/ step[r] \in {"package", "hash", "writeStamp"} /\ To(r) \notin Standalone

LEMMA FluxedBy ==
  Fluxed <=> stamp.state # "valid" \/ stamp.version \notin Standalone \/ \E r \in Runs : Fluxing(r)
  BY DEF Fluxed, Fluxing

\* A run that leaves the disk alone is not done with it.
LEMMA FluxingStrip ==
  ASSUME NEW r \in Runs, Working(r), Acts(r), ~StepFails(r), failures' = 0, diskVars' = diskVars,
         stamp.state = "valid", Changing(r), Is(r, "uninstall")
  PROVE  Fluxing(r)'
<1> USE DEF Working, Quiet, TypeOK, LockTypeOK, RunTypeOK, Move, Return, Finish, Go, At, Holding,
            Changing, lockVars, runVars, diskVars, Informed
<1>1. Stripping(r) /\ job' = job
  BY DEF SettledRun, Acts, Begin, WriteLog, Copy, Configure, Complete, Uninstall, ReadBadStamp,
         ReadStamp, Decline, Proceed, CopyCreates, CopyRefused, CopyBacksUp, CopyReplaces,
         CopiesDone, LocateForMerge, BackUpConfig, WriteConfig, NoPackage, PackageRefused,
         RemovePackage, CopyPackage, CopyPackageFails, HashFiles, WriteStamp, WriteBadStamp,
         LocateForStrip, CompareSkips, CompareMatches, RemoveManaged, RemoveManagedFails,
         CompareDone, StripEntry, StripFails, DropStamp, Purge
<1>2. Is(r, "uninstall")'
  BY <1>1 DEF Is
<1>3. CASE Begin(r) \/ WriteLog(r) \/ Copy(r) \/ Complete(r)
  BY <1>3 DEF Acts, Begin, ReadBadStamp, ReadStamp, Decline, Proceed, WriteLog, Copy, CopyCreates,
     CopyRefused, CopyBacksUp, CopyReplaces, CopiesDone, Copying, Complete, NoPackage,
     PackageRefused, RemovePackage, CopyPackage, CopyPackageFails, HashFiles, WriteStamp,
     WriteBadStamp
<1>4. CASE Configure(r)
  BY <1>2, <1>4 DEF Configure, LocateForMerge, BackUpConfig, WriteConfig, Fluxing
<1>5. CASE StripFails(r)
  BY <1>1, <1>5 DEF StripFails, Stripping
<1>6. CASE DropStamp(r)
  BY <1>6 DEF DropStamp, NoStamp
<1>7. CASE Uninstall(r) /\ ~StripFails(r) /\ ~DropStamp(r)
  BY <1>2, <1>7 DEF Uninstall, LocateForStrip, CompareSkips, CompareMatches, RemoveManaged,
     Comparing, RemoveManagedFails, CompareDone, StripEntry, Purge, Failure, Fluxing
<1>8. QED
  BY <1>3, <1>4, <1>5, <1>6, <1>7 DEF Acts

LEMMA FluxingBuild ==
  ASSUME NEW r \in Runs, Working(r), Acts(r), ~StepFails(r), failures' = 0, diskVars' = diskVars,
         stamp.state = "valid", stamp.version \in Standalone, ~Is(r, "uninstall"), Fluxing(r)
  PROVE  Fluxing(r)'
<1> USE DEF Working, Quiet, TypeOK, LockTypeOK, RunTypeOK, Move, Return, Finish, Go, At, Holding,
            Changing, lockVars, runVars, diskVars
<1>1. Building(r) /\ Overwrites(r)
  BY DEF SettledRun, Building, Fluxing
<1>2. step[r] \in {"package", "packageCopy", "hash", "writeStamp"}
  BY DEF Fluxing
<1>3. Complete(r)
  BY <1>2 DEF Acts, Begin, ReadBadStamp, ReadStamp, Decline, Proceed, WriteLog, Copy, CopyCreates,
     CopyRefused, CopyBacksUp, CopyReplaces, CopiesDone, Copying, Configure, LocateForMerge,
     BackUpConfig, WriteConfig, Uninstall, LocateForStrip, CompareSkips, CompareMatches,
     RemoveManaged, Comparing, RemoveManagedFails, CompareDone, StripEntry, StripFails, DropStamp,
     Purge
<1>4. CASE PackageRefused(r)
  BY <1>1, <1>4 DEF PackageRefused, ReplacesPackage
<1>5. CASE CopyPackage(r)
  <2>1. To(r) \in Versions /\ Plain(To(r)) # Nothing
    BY TargetTypes, LifecycleAssumption DEF Plain, Nothing, LifecycleAssumption
  <2>2. files'[Package] = Plain(To(r)) /\ files[Package] = Nothing
    BY <1>5, LifecycleAssumption
    DEF CopyPackage, WriteFile, DiskTypeOK, Present, LifecycleAssumption
  <2>3. QED
    BY <2>1, <2>2
<1>6. CASE CopyPackageFails(r)
  BY <1>1, <1>6 DEF CopyPackageFails, Failure, Building
<1>7. CASE WriteStamp(r)
  <2>1. step[r] = "writeStamp" /\ To(r) = stamp.version
    BY <1>7 DEF WriteStamp
  <2>2. QED
    BY <2>1 DEF Fluxing
<1>8. CASE WriteBadStamp(r)
  BY <1>8 DEF WriteBadStamp, Failure
<1>9. CASE NoPackage(r) \/ RemovePackage(r) \/ HashFiles(r)
  <2>1. job' = job /\ To(r)' = To(r)
    BY <1>9 DEF NoPackage, RemovePackage, HashFiles, To
  <2>2. QED
    BY <1>9, <2>1 DEF NoPackage, RemovePackage, HashFiles, Fluxing
<1>10. QED
  BY <1>3, <1>4, <1>5, <1>6, <1>7, <1>8, <1>9 DEF Complete

LEMMA FluxStays ==
  ASSUME RunsSerialized, LifecycleInv, [Next]_vars, Undisturbed', diskVars' = diskVars, Fluxed
  PROVE  Fluxed'
<1>1. stamp' = stamp /\ (Fluxed' <=> \/ stamp'.state # "valid" \/ stamp'.version \notin Standalone
                                     \/ \E r \in Runs : Fluxing(r)')
  BY DEF diskVars, Fluxed, Fluxing
<1> SUFFICES ASSUME stamp.state = "valid", stamp.version \in Standalone
             PROVE  \E r \in Runs : Fluxing(r)'
  BY <1>1
<1>2. PICK r \in Runs : Fluxing(r)
  BY FluxedBy
<1>3. CASE \E s \in Runs : Acts(s) /\ Working(s) /\ ~StepFails(s) /\ failures' = 0
  <2>1. PICK s \in Runs : Acts(s) /\ Working(s) /\ ~StepFails(s) /\ failures' = 0
    BY <1>3
  <2>2. s = r
    BY <1>2, <2>1 DEF Working, Fluxing, Changing, Holding, RunsSerialized
  <2>3. Fluxing(r)'
    BY <1>2, <2>1, <2>2, FluxingStrip, FluxingBuild DEF Fluxing
  <2>4. QED
    BY <2>3
<1>4. CASE /\ UNCHANGED <<diskVars, localVars, job>>
           /\ \A s \in Runs : Changing(s)' = Changing(s) /\ Goes(s)
  <2>1. Fluxing(r)'
    BY <1>2, <1>4 DEF Fluxing, localVars, Is, To
  <2>2. QED
    BY <2>1
<1>5. QED
  BY <1>3, <1>4, UndisturbedStep

\* The imports fail only where a run will still change something.
LEMMA SmokePasses ==
  ASSUME RunsSerialized, LifecycleInv, Undisturbed, ~Fluxed, SmokeOutcomes # {"pass"}
  PROVE  FALSE
<1> USE DEF LifecycleInv, TypeOK, DiskTypeOK
<1>1. stamp.state = "valid" /\ stamp.version \in Standalone /\ \A r \in Runs : ~Fluxing(r)
  BY FluxedBy
<1>2. \A v \in Versions : v \notin UserTexts /\ Plain(v).text = v /\ Plain(v) # Nothing
  BY LifecycleAssumption DEF LifecycleAssumption, Plain, Nothing
<1>3. stamp.version \in Versions
  BY <1>1, LifecycleAssumption DEF LifecycleAssumption
<1>4. ASSUME ~PackageInFlux, NEW v \in Versions, files[Package] = Plain(v) PROVE FALSE
  BY <1>2, <1>4 DEF SmokeOutcomes, Undisturbed, Present
<1>5. CASE \A r \in Runs : ~Changing(r)
  <2>1. Installed
    BY <1>1, <1>5 DEF Settled
  <2>2. files[Package] = Plain(stamp.version)
    BY <1>1, <2>1 DEF Installed, Describes, AsStamped
  <2>3. ~PackageInFlux
    BY <1>5 DEF PackageInFlux, At, Changing
  <2>4. QED
    BY <1>3, <1>4, <2>2, <2>3
<1>6. CASE \E r \in Runs : Changing(r)
  <2>1. PICK r \in Runs : Changing(r)
    BY <1>6
  <2>2. \A s \in Runs : Changing(s) => s = r
    BY <2>1 DEF RunsSerialized, Changing, Holding
  <2>3. ~Is(r, "uninstall") /\ Building(r) /\ Following(r) /\ edited = {}
    BY <1>1, <2>1 DEF Fluxing, Settled
  <2>4. /\ step[r] \in {"copy", "replace", "locate", "cfgBackup", "cfgReplace",
                        "hash", "writeStamp"}
        /\ step[r] \in {"hash", "writeStamp"} => To(r) \in Standalone
    <3>1. step[r] \in {"copy", "replace", "locate", "cfgBackup", "cfgReplace", "package",
                       "packageCopy", "hash", "writeStamp"}
      BY <2>1, <2>3 DEF RunTypeOK, Steps, Changing, Informed
    <3>2. step[r] = "packageCopy" => To(r) \in Standalone
      BY <2>3 DEF Building
    <3>3. QED
      BY <1>1, <2>1, <3>1, <3>2 DEF Fluxing
  <2>5. ~PackageInFlux
    <3>1. ASSUME NEW s \in Runs, step[s] \in {"package", "packageCopy", "remove"}, pc[s] = "held"
          PROVE  FALSE
      BY <2>2, <2>4, <3>1 DEF Changing
    <3>2. QED
      BY <3>1 DEF PackageInFlux, At
  <2>6. CASE step[r] \in {"copy", "replace", "locate", "cfgBackup", "cfgReplace"}
    <3>1. Describes(stamp)
      BY <1>1, <2>3 DEF Building
    <3>2. Package \in Elements(stamp.managed) /\ stamp.hashes[Package] = Plain(stamp.version)
      BY <1>1, <3>1 DEF Describes
    <3>3. files[Package] = Plain(stamp.version)
      BY <1>1, <2>3, <2>6, <3>2 DEF Building
    <3>4. QED
      BY <1>3, <1>4, <2>5, <3>3
  <2>7. CASE step[r] \in {"hash", "writeStamp"}
    <3>1. To(r) \in Versions /\ To(r) \in Standalone
      BY <2>4, <2>7, LifecycleAssumption DEF LifecycleAssumption
    <3>2. CASE step[r] = "hash"
      <4>1. files[Package] = Plain(To(r))
        BY <2>1, <2>3, <3>1, <3>2 DEF Following, Delivered, Changing, Holding
      <4>2. QED
        BY <1>4, <2>5, <3>1, <4>1
    <3>3. CASE step[r] = "writeStamp"
      <4>1. Package \in Elements(managed[r]) /\ hashes[r][Package] = Plain(To(r))
        BY <2>1, <2>3, <3>1, <3>3 DEF Following, Delivered, Changing, Holding
      <4>2. files[Package] = Plain(To(r))
        BY <2>3, <3>3, <4>1 DEF Building
      <4>3. QED
        BY <1>4, <2>5, <3>1, <4>2
    <3>4. QED
      BY <2>7, <3>2, <3>3
  <2>8. QED
    BY <2>4, <2>6, <2>7
<1>7. QED
  BY <1>5, <1>6

\* The parts of Current.
AtTarget == target = IF Located = {} THEN None ELSE Config
AtProbe == target = None \/ probe = files[target]
AtStamp == seen = stamp
AtHash ==
    /\ mismatch => \E p \in Elements(seen.managed) : HashMisses(p)
    /\ status["exports-smoke-import"] # "pass" => Fluxed
AtEnd ==
    /\ status["opencode-config-parse"] = CheckConfigParse
    /\ status["jsonc-valid"] = CheckJsoncValid
    /\ status["plugin-entry-present"] = CheckPluginEntry
    /\ status["stamp-bundle-hash"] = CheckStampBundleHash
    /\ status["stamp-consistency"] = CheckStampConsistency

LEMMA CurrentParts ==
  Current <=> (quiet /\ Undisturbed =>
                 /\ dpc \in {"read", "stamp", "import", "hash"} \/ Finished => AtTarget
                 /\ dpc \in {"stamp", "import", "hash"} \/ Finished => AtProbe
                 /\ dpc \in {"import", "hash"} \/ Finished => AtStamp
                 /\ dpc = "hash" \/ Finished => AtHash
                 /\ Finished => AtEnd)
  BY DEF Current, AtTarget, AtProbe, AtStamp, AtHash, AtEnd

LEMMA TargetFrame == ASSUME UNCHANGED <<files, target>>, AtTarget PROVE AtTarget'
  BY ConfigFrame DEF AtTarget

LEMMA ProbeFrame == ASSUME UNCHANGED <<files, target, probe>>, AtProbe PROVE AtProbe'
  BY DEF AtProbe

LEMMA HashFrame ==
  ASSUME UNCHANGED <<files, seen, mismatch, status>>, Fluxed => Fluxed', AtHash PROVE AtHash'
  BY DEF AtHash, HashMisses, Present

LEMMA EndFrame == ASSUME UNCHANGED <<probeVars, status>>, AtEnd PROVE AtEnd'
  BY DEF AtEnd, probeVars, CheckConfigParse, CheckJsoncValid, CheckPluginEntry,
     CheckStampBundleHash, CheckStampConsistency

LEMMA FluxedFrame == ASSUME UNCHANGED vars PROVE Fluxed' = Fluxed
  BY DEF Fluxed, Changing, Is, To, vars, lockVars, runVars, lifeVars, localVars, diskVars

\* A step of doctor that leaves the project alone.
LEMMA CurrentReads ==
  ASSUME World, DoctorTypeOK, Early, Current, DoctorStep PROVE Current'
<1> SUFFICES ASSUME quiet', Undisturbed'
             PROVE  /\ dpc' \in {"read", "stamp", "import", "hash"} \/ Finished' => AtTarget'
                    /\ dpc' \in {"stamp", "import", "hash"} \/ Finished' => AtProbe'
                    /\ dpc' \in {"import", "hash"} \/ Finished' => AtStamp'
                    /\ dpc' = "hash" \/ Finished' => AtHash'
                    /\ Finished' => AtEnd'
  BY DEF Current, AtTarget, AtProbe, AtStamp, AtHash, AtEnd
<1>1. Undisturbed
  BY StaysDisturbed DEF DoctorNext
<1>2. CASE StartDoctor
  BY <1>2 DEF StartDoctor, GoTo, Finished
<1>3. CASE TimesOut \/ DoctorThrows
  BY <1>3 DEF TimesOut, DoctorThrows, Finished
<1>4. CASE ProbeConfig
  <2>1. /\ dpc' \in {"read", "stamp"} /\ (dpc' = "stamp" => target' = None) /\ UNCHANGED files
        /\ target' = IF Located = {} THEN None ELSE Config
    BY <1>4 DEF ProbeConfig, GoTo, vars, lifeVars, diskVars
  <2>2. AtTarget'
    BY <2>1, ConfigFrame DEF AtTarget
  <2>3. QED
    BY <2>1, <2>2 DEF AtProbe, Finished
<1>5. CASE ReadConfig
  <2>1. /\ dpc = "read" /\ dpc' = "stamp" /\ UNCHANGED <<files, target>>
        /\ probe' = files[target] /\ quiet
    BY <1>5 DEF ReadConfig, GoTo, vars, lifeVars, diskVars, historyVars
  <2>2. AtTarget
    BY <1>1, <2>1, CurrentParts
  <2>3. QED
    BY <2>1, <2>2, TargetFrame DEF AtProbe, Finished
<1>6. CASE ProbeStamp
  <2>1. /\ dpc = "stamp" /\ dpc' = "import" /\ UNCHANGED <<files, stamp, target, probe>>
        /\ seen' = stamp /\ quiet
    BY <1>6 DEF ProbeStamp, GoTo, vars, lifeVars, diskVars
  <2>2. AtTarget /\ AtProbe
    BY <1>1, <2>1, CurrentParts
  <2>3. QED
    BY <2>1, <2>2, TargetFrame, ProbeFrame DEF AtStamp, Finished
<1>7. CASE CheckExportsSmokeImport
  <2>1. /\ dpc = "import" /\ dpc' = "hash" /\ UNCHANGED <<vars, probeVars>> /\ quiet
        /\ \E s \in SmokeOutcomes : status' = [status EXCEPT !["exports-smoke-import"] = s]
    BY <1>7 DEF CheckExportsSmokeImport, GoTo, historyVars
  <2>2. UNCHANGED <<files, stamp, target, probe, seen, mismatch>>
    BY <2>1 DEF vars, lifeVars, diskVars, probeVars
  <2>3. AtTarget /\ AtProbe /\ AtStamp
    BY <1>1, <2>1, CurrentParts
  <2>4. ~mismatch
    BY <2>1 DEF Early
  <2>5. status'["exports-smoke-import"] \in SmokeOutcomes
    BY <2>1 DEF DoctorTypeOK, Checks
  <2>6. RunsSerialized /\ LifecycleInv
    BY <1>1, BackedSerialized DEF World, SerializedUntilLeftover, Undisturbed
  <2>7. status'["exports-smoke-import"] # "pass" => Fluxed
    BY <1>1, <2>5, <2>6, SmokePasses
  <2>8. AtHash'
    BY <2>1, <2>2, <2>4, <2>7, FluxedFrame DEF AtHash
  <2>9. QED
    BY <2>1, <2>2, <2>3, <2>8, TargetFrame, ProbeFrame DEF AtStamp, Finished
<1>8. CASE HashFile
  <2>1. /\ dpc = "hash" /\ dpc' = "hash" /\ UNCHANGED <<vars, target, probe, seen, status>> /\ quiet
        /\ next \in DOMAIN seen.managed
        /\ mismatch' = (mismatch \/ HashMisses(seen.managed[next]))
    BY <1>8 DEF HashFile, historyVars
  <2>2. UNCHANGED <<files, stamp>>
    BY <2>1 DEF vars, lifeVars, diskVars
  <2>3. AtTarget /\ AtProbe /\ AtStamp /\ AtHash
    BY <1>1, <2>1, CurrentParts
  <2>4. ASSUME mismatch' PROVE \E p \in Elements(seen'.managed) : HashMisses(p)'
    <3>1. \E p \in Elements(seen.managed) : HashMisses(p)
      BY <2>1, <2>3, <2>4 DEF AtHash, Elements
    <3>2. QED
      BY <2>1, <2>2, <3>1, NothingWritten DEF Elements
  <2>5. AtHash'
    BY <2>1, <2>3, <2>4, FluxedFrame DEF AtHash, Elements
  <2>6. QED
    BY <2>1, <2>2, <2>3, <2>5, TargetFrame, ProbeFrame DEF AtStamp, Finished
<1>9. ASSUME NEW c, EndWith(c), AtEnd',
             status'["exports-smoke-import"] = status["exports-smoke-import"]
      PROVE  AtTarget' /\ AtProbe' /\ AtStamp' /\ AtHash'
  <2>1. dpc = "hash" /\ UNCHANGED <<vars, probeVars>> /\ quiet
    BY <1>9 DEF EndWith, historyVars
  <2>2. UNCHANGED <<files, stamp, target, probe, seen, mismatch>>
    BY <2>1 DEF vars, lifeVars, diskVars, probeVars
  <2>3. AtTarget /\ AtProbe /\ AtStamp /\ AtHash
    BY <1>1, <2>1, CurrentParts
  <2>4. AtHash'
    BY <1>9, <2>1, <2>2, <2>3, FluxedFrame DEF AtHash, HashMisses, Present
  <2>5. QED
    BY <2>2, <2>3, <2>4, TargetFrame, ProbeFrame DEF AtStamp
<1>10. ASSUME NEW c, EndWith(c), /\ c["opencode-config-parse"] = CheckConfigParse
                                 /\ c["jsonc-valid"] = CheckJsoncValid
                                 /\ c["plugin-entry-present"] = CheckPluginEntry
                                 /\ c["stamp-bundle-hash"] = CheckStampBundleHash
                                 /\ c["stamp-consistency"] = CheckStampConsistency
       PROVE  AtEnd'
  BY <1>10 DEF AtEnd, EndWith, probeVars, CheckConfigParse, CheckJsoncValid, CheckPluginEntry,
     CheckStampBundleHash, CheckStampConsistency
<1>11. CASE ReportStandard
  <2>1. PICK major \in PowerShells, detected \in OpenCodes : EndWith(Checked(major, detected))
    BY <1>11 DEF ReportStandard
  <2>2. AtEnd'
    BY <1>10, <2>1 DEF Checked, DoctorTypeOK, Checks, ConfigChecks, StampChecks
  <2>3. status'["exports-smoke-import"] = status["exports-smoke-import"]
    BY <2>1 DEF EndWith, Checked, DoctorTypeOK, Checks
  <2>4. QED
    BY <1>9, <2>1, <2>2, <2>3 DEF EndWith
<1>12. CASE ReportFull
  <2>1. PICK major \in PowerShells, detected \in OpenCodes, sums \in BundleSums,
             cache \in {"pass", "warn"} :
                EndWith(FullyChecked(Checked(major, detected), sums, cache))
    BY <1>12 DEF ReportFull
  <2>2. AtEnd'
    BY <1>10, <2>1 DEF FullyChecked, Checked, DoctorTypeOK, Checks, ConfigChecks, StampChecks
  <2>3. status'["exports-smoke-import"] = status["exports-smoke-import"]
    BY <2>1 DEF EndWith, FullyChecked, Checked, DoctorTypeOK, Checks
  <2>4. QED
    BY <1>9, <2>1, <2>2, <2>3 DEF EndWith
<1>13. QED
  BY <1>2, <1>3, <1>4, <1>5, <1>6, <1>7, <1>8, <1>11, <1>12 DEF DoctorStep

LEMMA CurrentRuns == ASSUME World, Current, LifecycleStep PROVE Current'
<1> SUFFICES ASSUME quiet', Undisturbed'
             PROVE  /\ dpc' \in {"read", "stamp", "import", "hash"} \/ Finished' => AtTarget'
                    /\ dpc' \in {"stamp", "import", "hash"} \/ Finished' => AtProbe'
                    /\ dpc' \in {"import", "hash"} \/ Finished' => AtStamp'
                    /\ dpc' = "hash" \/ Finished' => AtHash'
                    /\ Finished' => AtEnd'
  BY DEF Current, AtTarget, AtProbe, AtStamp, AtHash, AtEnd
<1>1. quiet /\ diskVars' = diskVars /\ Undisturbed
  BY StaysDisturbed DEF DoctorNext, LifecycleStep
<1>2. RunsSerialized /\ LifecycleInv
  BY <1>1, BackedSerialized DEF World, SerializedUntilLeftover, Undisturbed
<1>3. Fluxed => Fluxed'
  BY <1>1, <1>2, FluxStays DEF LifecycleStep
<1>4. UNCHANGED <<files, stamp, target, probe, seen, mismatch, status, probeVars, dpc, report>>
  BY <1>1 DEF LifecycleStep, diskVars, docVars, probeVars
<1>5. Finished' = Finished
  BY <1>4 DEF Finished
<1>6. QED
  BY <1>1, <1>3, <1>4, <1>5, CurrentParts, TargetFrame, ProbeFrame, HashFrame, EndFrame DEF AtStamp

LEMMA CurrentStep ==
  ASSUME World, DoctorTypeOK, Early, Current, [DoctorNext]_allVars PROVE Current'
<1>1. CASE UNCHANGED allVars
  <2>1. UNCHANGED <<vars, probeVars, dpc, report, status, quiet>>
    BY <1>1 DEF allVars, docVars, historyVars
  <2>2. UNCHANGED <<files, stamp, target, probe, seen, mismatch>> /\ Finished' = Finished
        /\ Undisturbed' = Undisturbed
    BY <2>1 DEF vars, lockVars, lifeVars, diskVars, userVars, probeVars, Finished, Undisturbed
  <2>3. AtHash => AtHash'
    BY <2>1, <2>2, FluxedFrame, HashFrame
  <2>4. (quiet' /\ Undisturbed' =>
            /\ dpc' \in {"read", "stamp", "import", "hash"} \/ Finished' => AtTarget'
            /\ dpc' \in {"stamp", "import", "hash"} \/ Finished' => AtProbe'
            /\ dpc' \in {"import", "hash"} \/ Finished' => AtStamp'
            /\ dpc' = "hash" \/ Finished' => AtHash'
            /\ Finished' => AtEnd')
    BY <2>1, <2>2, <2>3, CurrentParts, TargetFrame, ProbeFrame, EndFrame DEF AtStamp
  <2>5. QED
    BY <2>4 DEF Current, AtTarget, AtProbe, AtStamp, AtHash, AtEnd
<1>2. QED
  BY <1>1, CurrentReads, CurrentRuns DEF DoctorNext

PaceInv == World /\ DoctorTypeOK /\ Early /\ Meets /\ Chased /\ Current

LEMMA PaceHolds == ShortInstalls /\ DoctorSpec => []PaceInv
<1>1. DoctorInit => Current
  BY DEF DoctorInit, Current, Finished
<1>2. DoctorInit => PaceInv
  BY <1>1, HealthyInit DEF HealthyInv, PaceInv
<1>3. ShortInstalls /\ PaceInv /\ [DoctorNext]_allVars => PaceInv'
  BY WorldStep, DoctorTypeStep, EarlyStep, MeetsStep, ChasedStep, CurrentStep DEF PaceInv, World
<1>4. ShortInstalls => ShortInstalls'
  BY DEF ShortInstalls
<1>5. QED
  BY <1>2, <1>3, <1>4, PTL DEF DoctorSpec

\* Until a run dies or fails to remove its lock, what doctor (doctor.ts) has read, compared
\* and recorded at any of its awaits keeps pace with the files that others are changing.
THEOREM DoctorInvariant == ShortInstalls /\ DoctorSpec => []DoctorInv
<1>1. PaceInv => DoctorInv
  BY CaughtParts DEF PaceInv, DoctorInv
<1>2. QED
  BY <1>1, PaceHolds, PTL

\* In a project that is as its stamp says, the checks of what was read all pass.
LEMMA PassesAll ==
  ASSUME PaceInv, Finished, quiet, \A r \in Runs : ~Holding(r), Undisturbed,
         stamp.state = "valid", stamp.version \in Standalone,
         Located # {}, files[Config].text \notin Malformed
  PROVE  \A c \in Checks \ (SystemChecks \cup FullChecks) : status[c] = "pass"
<1>1. AtTarget /\ AtProbe /\ AtStamp /\ AtHash /\ AtEnd
  BY CurrentParts DEF PaceInv
<1>2. /\ Locates(Config) /\ Config \in Elements(Configs) /\ Config \in Paths
      /\ \A p : Locates(p) => p = Config
  BY LocatesSome
<1>3. Config # None /\ Present(Config)
  BY <1>2, LocatesOne, LifecycleAssumption DEF LifecycleAssumption
<1>4. target = Config /\ probe = files[Config] /\ seen = stamp
  BY <1>1, <1>3 DEF AtTarget, AtProbe, AtStamp
<1>5. \A r \in Runs : ~Changing(r)
  BY DEF Changing, Holding
<1>6. Installed
  BY <1>5 DEF PaceInv, World, LifecycleInv, Settled, Undisturbed
<1>7. \A p \in Elements(seen.managed) : Present(p) /\ files[p] = seen.hashes[p]
  BY <1>4, <1>6 DEF Installed, AsStamped
<1>8. CheckConfigParse = "pass" /\ CheckJsoncValid = "pass"
  BY <1>3, <1>4 DEF CheckConfigParse, CheckJsoncValid, Present
<1>9. CheckPluginEntry = "pass"
  <2>1. Config \in Elements(stamp.managed)
    BY <1>2, <1>6 DEF Installed
  <2>2. stamp.hashes[Config].entry = "yes"
    BY <1>2, <1>6, <2>1 DEF Installed, Describes
  <2>3. probe.entry = "yes"
    BY <1>4, <1>7, <2>1, <2>2
  <2>4. QED
    BY <2>3 DEF CheckPluginEntry, ReadPluginEntry
<1>10. CheckStampBundleHash = "pass"
  <2>1. ~mismatch
    BY <1>1, <1>7 DEF AtHash, HashMisses
  <2>2. QED
    BY <1>4, <2>1 DEF CheckStampBundleHash
<1>11. CheckStampConsistency = "pass"
  BY <1>4, <1>7 DEF CheckStampConsistency, Present
<1>12. status["exports-smoke-import"] = "pass"
  BY <1>1, <1>5 DEF AtHash, Fluxed
<1>13. QED
  BY <1>1, <1>8, <1>9, <1>10, <1>11, <1>12 DEF AtEnd, Checks, ConfigChecks, StampChecks

\* When an install or update (lifecycle.ts) has finished without a failure and the user has
\* changed nothing since, doctor (doctor.ts) finds the config file, the plugin entry, the
\* stamp, the hashes and the package in order.
THEOREM DoctorAgrees == ShortInstalls /\ DoctorSpec => []FinishedIsHealthy
<1>1. PaceInv => FinishedIsHealthy
  BY PassesAll DEF FinishedIsHealthy
<1>2. QED
  BY <1>1, PaceHolds, PTL
=============================================================================
