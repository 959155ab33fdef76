---------------------------- MODULE PlatformProofs ----------------------------
(***************************************************************************)
(* What is proved of an installation's own parts, for every value of the    *)
(* constants: updates of the binary, the plugin registry, its sandbox, MLS  *)
(* groups, and the SQLite files.  They share no state, so each is proved by *)
(* itself, and PlatformImplements carries the theorems over to the          *)
(* specification in which the run checks them.  That the store's two        *)
(* implementations agree stays with the run.                                *)
(***************************************************************************)
EXTENDS MCPlatform, FiniteSetTheorems, SequenceTheorems, WellFoundedInduction, TLAPS

\* A nonempty set of numbers has a least one.
LEMMA LeastNumber ==
  ASSUME NEW S, S \subseteq Nat, S # {}
  PROVE  \E n \in S : \A x \in S : n =< x
<1>. DEFINE Less == OpToRel(<, Nat)
<1>1. \A m, n \in Nat : m < n => <<m, n>> \in Less
  BY DEF OpToRel
<1>2. IsWellFoundedOn(Less, Nat)
  BY NatLessThanWellFounded
<1>. HIDE DEF Less
<1>3. PICK R : IsWellFoundedOn(R, Nat) /\ \A m, n \in Nat : m < n => <<m, n>> \in R
  BY <1>1, <1>2, Zenon
<1>4. PICK n \in S : \A m \in S : <<m, n>> \notin R
  <2>1. IsWellFoundedOn(R, Nat)
    BY <1>3
  <2>. QED
    BY <2>1, WFMin
<1>5. ASSUME NEW x \in S PROVE n =< x
  <2>1. x \in Nat /\ n \in Nat
    OBVIOUS
  <2>2. ~(x < n)
    BY <1>3, <1>4, <2>1, Zenon
  <2>. QED
    BY <2>1, <2>2
<1>. QED
  BY <1>5

LEMMA GrLargest ==
  ASSUME NEW S, S # {}, NEW d \in Nat, S \subseteq -1 .. d
  PROVE  Max(S) \in S
<1> DEFINE D == {d - x : x \in S}
<1>1. D \subseteq Nat /\ D # {}
  <2>1. \A x \in S : d - x \in Nat \union {-1} /\ d - x >= 0
    OBVIOUS
  <2>2. PICK x \in S : TRUE
    OBVIOUS
  <2>3. d - x \in D
    BY <2>2
  <2>4. D \subseteq Nat
    BY <2>1
  <2> QED BY <2>3, <2>4
<1>2. PICK k \in D : \A y \in D : k <= y
  BY <1>1, LeastNumber
<1>3. PICK x \in S : k = d - x
  BY <1>2
<1>4. \A y \in S : x >= y
  <2> TAKE y \in S
  <2>1. d - x <= d - y
    BY <1>2, <1>3
  <2> QED BY <2>1
<1> QED BY <1>3, <1>4 DEF Max

-----------------------------------------------------------------------------
(* The order of versions *)

UpPre == UNION {[1 .. n -> Identifiers] : n \in 0 .. MaxIdentifiers}

LEMMA UpVersion ==
  ASSUME NEW v \in Versions
  PROVE  /\ v.core \in Cores /\ v.core \in Nat /\ v.core # 0 /\ v.pre \in UpPre
         /\ v = [core |-> v.core, pre |-> v.pre]
<1>1. v.core \in Cores /\ v.pre \in UpPre
  BY DEF Versions, UpPre
<1>2. v = [core |-> v.core, pre |-> v.pre]
  BY DEF Versions
<1> QED BY <1>1, <1>2, VersionsAssumption

LEMMA UpLists ==
  ASSUME NEW p \in UpPre
  PROVE  p \in Seq(Identifiers) /\ Len(p) \in Nat /\ DOMAIN p = 1 .. Len(p) /\ \A i \in 1 .. Len(p) : p[i] \in Identifiers
<1>1. PICK n \in 0 .. MaxIdentifiers : p \in [1 .. n -> Identifiers]
  BY DEF UpPre
<1>2. n \in Nat
  BY VersionsAssumption
<1> QED BY <1>1, <1>2

LEMMA UpSame ==
  ASSUME NEW p \in UpPre, NEW q \in UpPre, Len(p) = Len(q), \A i \in 1 .. Len(p) : p[i] = q[i]
  PROVE  p = q
<1>1. PICK n \in 0 .. MaxIdentifiers : p \in [1 .. n -> Identifiers]
  BY DEF UpPre
<1>2. PICK m \in 0 .. MaxIdentifiers : q \in [1 .. m -> Identifiers]
  BY DEF UpPre
<1>3. n \in Nat /\ m \in Nat
  BY VersionsAssumption
<1>4. Len(p) = n /\ Len(q) = m
  BY <1>1, <1>2, <1>3
<1>5. q \in [1 .. n -> Identifiers]
  BY <1>2, <1>4
<1>6. \A i \in 1 .. n : p[i] = q[i]
  BY <1>4
<1> QED BY <1>1, <1>5, <1>6

(* Identifiers are in one order.                                           *)
LEMMA UpIdentifiers ==
  ASSUME NEW x \in Identifiers, NEW y \in Identifiers, NEW z \in Identifiers
  PROVE  /\ compareIdentifiers(x, y) \in {-1, 0, 1}
         /\ compareIdentifiers(x, y) = 0 <=> x = y
         /\ compareIdentifiers(x, y) = - compareIdentifiers(y, x)
         /\ compareIdentifiers(x, y) < 0 /\ compareIdentifiers(y, z) < 0 => compareIdentifiers(x, z) < 0
<1>1. \A u \in Identifiers : u \in [numeric : BOOLEAN, value : {0, 1}] /\ (~ u.numeric => u.value = 0)
  <2> SUFFICES ASSUME NEW u \in Identifiers
               PROVE  u \in [numeric : BOOLEAN, value : {0, 1}] /\ (~ u.numeric => u.value = 0)
    OBVIOUS
  <2>1. CASE u = [numeric |-> TRUE, value |-> 0]
    BY <2>1
  <2>2. CASE u = [numeric |-> TRUE, value |-> 1]
    BY <2>2
  <2>3. CASE u = [numeric |-> FALSE, value |-> 0]
    BY <2>3
  <2> QED BY <2>1, <2>2, <2>3 DEF Identifiers
<1>2. ASSUME NEW u \in Identifiers, NEW v \in Identifiers
      PROVE  u = v <=> u.numeric = v.numeric /\ u.value = v.value
  BY <1>1
<1>3. ASSUME NEW u \in Identifiers, NEW v \in Identifiers
      PROVE  /\ compareIdentifiers(u, v) = 0 <=> u = v
             /\ compareIdentifiers(u, v) = -1 <=> \/ u.numeric /\ v.numeric /\ u.value < v.value
                                                  \/ u.numeric /\ ~ v.numeric
             /\ compareIdentifiers(u, v) \in {-1, 0, 1}
  <2>1. CASE u = v
    <3>1. compareIdentifiers(u, v) = 0
      BY <2>1 DEF compareIdentifiers
    <3> QED BY <2>1, <3>1, <1>1
  <2>2. CASE u # v /\ u.numeric = v.numeric
    <3>1. compareIdentifiers(u, v) = IF u.value < v.value THEN -1 ELSE 1
      BY <2>2 DEF compareIdentifiers
    <3> QED BY <2>2, <3>1, <1>1, <1>2
  <2>3. CASE u.numeric # v.numeric
    <3>1. compareIdentifiers(u, v) = IF u.numeric THEN -1 ELSE 1
      BY <2>3 DEF compareIdentifiers
    <3> QED BY <2>3, <3>1, <1>1, <1>2
  <2> QED BY <2>1, <2>2, <2>3
<1>4. compareIdentifiers(x, y) = - compareIdentifiers(y, x)
  BY <1>1, <1>2, <1>3
<1>5. compareIdentifiers(x, y) < 0 /\ compareIdentifiers(y, z) < 0 => compareIdentifiers(x, z) < 0
  BY <1>1, <1>2, <1>3
<1> QED BY <1>3, <1>4, <1>5

UpDiffer(p, q, k) ==
  /\ k \in Nat /\ 1 <= k /\ k <= Len(p) /\ k <= Len(q) /\ p[k] # q[k]
  /\ \A j \in Nat : 1 <= j /\ j < k => p[j] = q[j]

UpAgree(p, q) == \A j \in Nat : 1 <= j /\ j <= Len(p) /\ j <= Len(q) => p[j] = q[j]

(* What compareVersions looks at: the first difference, or the lengths.    *)
LEMMA UpCompared ==
  ASSUME NEW a \in Versions, NEW b \in Versions, a.core = b.core, a.pre # b.pre, a.pre # <<>>, b.pre # <<>>
  PROVE  \/ \E k \in Nat : UpDiffer(a.pre, b.pre, k) /\ compareVersions(a, b) = compareIdentifiers(a.pre[k], b.pre[k])
         \/ /\ UpAgree(a.pre, b.pre) /\ Len(a.pre) # Len(b.pre)
            /\ compareVersions(a, b) = IF Len(a.pre) < Len(b.pre) THEN -1 ELSE 1
<1> DEFINE D == {i \in {i \in DOMAIN a.pre : i \in DOMAIN b.pre} : compareIdentifiers(a.pre[i], b.pre[i]) # 0}
           F == CHOOSE i \in D : \A j \in D : i <= j
<1>1. a.pre \in UpPre /\ b.pre \in UpPre
  BY UpVersion
<1>2. /\ Len(a.pre) \in Nat /\ DOMAIN a.pre = 1 .. Len(a.pre) /\ \A i \in 1 .. Len(a.pre) : a.pre[i] \in Identifiers
      /\ Len(b.pre) \in Nat /\ DOMAIN b.pre = 1 .. Len(b.pre) /\ \A i \in 1 .. Len(b.pre) : b.pre[i] \in Identifiers
  BY <1>1, UpLists
<1>3. \A i \in Nat : i \in D <=> 1 <= i /\ i <= Len(a.pre) /\ i <= Len(b.pre) /\ a.pre[i] # b.pre[i]
  BY <1>2, UpIdentifiers
<1>4. D \subseteq Nat
  BY <1>2
<1>5. compareVersions(a, b) = IF D # {} THEN compareIdentifiers(a.pre[F], b.pre[F])
                              ELSE IF Len(a.pre) < Len(b.pre) THEN -1 ELSE 1
  BY DEF compareVersions
<1> HIDE DEF D
<1>6. CASE D # {}
  <2>1. F \in D /\ \A j \in D : F <= j
    BY <1>4, <1>6, LeastNumber
  <2> HIDE DEF F
  <2>2. F \in Nat
    BY <2>1, <1>4
  <2>3. UpDiffer(a.pre, b.pre, F)
    <3>1. \A j \in Nat : 1 <= j /\ j < F => j \notin D
      BY <2>1, <2>2
    <3> QED BY <2>1, <2>2, <3>1, <1>2, <1>3 DEF UpDiffer
  <2> QED BY <1>5, <1>6, <2>2, <2>3
<1>7. CASE D = {}
  <2>1. UpAgree(a.pre, b.pre)
    BY <1>3, <1>7 DEF UpAgree
  <2>2. Len(a.pre) # Len(b.pre)
    <3> SUFFICES ASSUME Len(a.pre) = Len(b.pre) PROVE FALSE
      OBVIOUS
    <3>1. \A i \in 1 .. Len(a.pre) : a.pre[i] = b.pre[i]
      BY <2>1, <1>2 DEF UpAgree
    <3> QED BY <3>1, <1>1, UpSame
  <2> QED BY <1>5, <1>7, <2>1, <2>2
<1> QED BY <1>6, <1>7

LEMMA UpComparedCases ==
  ASSUME NEW a \in Versions, NEW b \in Versions
  PROVE  /\ a.core # b.core => compareVersions(a, b) = IF a.core < b.core THEN -1 ELSE 1
         /\ a = b => compareVersions(a, b) = 0
         /\ a.core = b.core /\ a.pre = b.pre => a = b
         /\ a.core = b.core /\ a.pre # b.pre /\ a.pre = <<>> => compareVersions(a, b) = 1
         /\ a.core = b.core /\ a.pre # b.pre /\ b.pre = <<>> => compareVersions(a, b) = -1
<1>1. a = [core |-> a.core, pre |-> a.pre] /\ b = [core |-> b.core, pre |-> b.pre]
  BY UpVersion
<1>2. a.core = b.core /\ a.pre = b.pre => a = b
  BY <1>1
<1>3. a.core # b.core => compareVersions(a, b) = IF a.core < b.core THEN -1 ELSE 1
  BY DEF compareVersions
<1>4. a = b => compareVersions(a, b) = 0
  BY DEF compareVersions
<1>5. a.core = b.core /\ a.pre # b.pre /\ a.pre = <<>> => compareVersions(a, b) = 1
  BY DEF compareVersions
<1>6. a.core = b.core /\ a.pre # b.pre /\ b.pre = <<>> => compareVersions(a, b) = -1
  BY DEF compareVersions
<1> QED BY <1>2, <1>3, <1>4, <1>5, <1>6

(* Of two versions exactly one is newer, ...                               *)
LEMMA UpOpposite ==
  ASSUME NEW a \in Versions, NEW b \in Versions
  PROVE  /\ compareVersions(a, b) \in {-1, 0, 1}
         /\ compareVersions(a, b) = 0 <=> a = b
         /\ compareVersions(a, b) = - compareVersions(b, a)
<1>1. a.core \in Nat /\ b.core \in Nat
  BY UpVersion
<1>2. CASE a.core # b.core
  <2>1. compareVersions(a, b) = IF a.core < b.core THEN -1 ELSE 1
    BY <1>2, UpComparedCases
  <2>2. compareVersions(b, a) = IF b.core < a.core THEN -1 ELSE 1
    BY <1>2, UpComparedCases
  <2> QED BY <1>1, <1>2, <2>1, <2>2
<1>3. CASE a.core = b.core /\ a.pre = b.pre
  <2>1. a = b
    BY <1>3, UpComparedCases
  <2>2. compareVersions(a, b) = 0 /\ compareVersions(b, a) = 0
    BY <2>1, UpComparedCases
  <2>3. \A x, y \in Int : x <= 0 /\ x >= 0 /\ y <= 0 /\ y >= 0 => x = - y
    OBVIOUS
  <2>4. compareVersions(a, b) \in {-1, 0, 1} /\ compareVersions(a, b) = - compareVersions(b, a)
    <3>1. 0 \in Int /\ 0 <= 0 /\ 0 >= 0 /\ 0 \in {-1, 0, 1}
      OBVIOUS
    <3> QED BY <2>2, <2>3, <3>1, Zenon
  <2> QED BY <2>1, <2>2, <2>4, Zenon
<1>4. CASE a.core = b.core /\ a.pre # b.pre /\ (a.pre = <<>> \/ b.pre = <<>>)
  <2>1. a.pre = <<>> => compareVersions(a, b) = 1 /\ compareVersions(b, a) = -1
    BY <1>4, UpComparedCases
  <2>2. b.pre = <<>> => compareVersions(a, b) = -1 /\ compareVersions(b, a) = 1
    BY <1>4, UpComparedCases
  <2> QED BY <1>4, <2>1, <2>2
<1>5. CASE a.core = b.core /\ a.pre # b.pre /\ a.pre # <<>> /\ b.pre # <<>>
  <2>0. /\ Len(a.pre) \in Nat /\ \A i \in 1 .. Len(a.pre) : a.pre[i] \in Identifiers
        /\ Len(b.pre) \in Nat /\ \A i \in 1 .. Len(b.pre) : b.pre[i] \in Identifiers
    BY UpVersion, UpLists
  <2>1. \/ \E k \in Nat : UpDiffer(a.pre, b.pre, k) /\ compareVersions(a, b) = compareIdentifiers(a.pre[k], b.pre[k])
        \/ /\ UpAgree(a.pre, b.pre) /\ Len(a.pre) # Len(b.pre)
           /\ compareVersions(a, b) = IF Len(a.pre) < Len(b.pre) THEN -1 ELSE 1
    BY <1>5, UpCompared
  <2>2. \/ \E k \in Nat : UpDiffer(b.pre, a.pre, k) /\ compareVersions(b, a) = compareIdentifiers(b.pre[k], a.pre[k])
        \/ /\ UpAgree(b.pre, a.pre) /\ Len(a.pre) # Len(b.pre)
           /\ compareVersions(b, a) = IF Len(b.pre) < Len(a.pre) THEN -1 ELSE 1
    BY <1>5, UpCompared
  <2>3. CASE UpAgree(a.pre, b.pre)
    <3>1. \A k \in Nat : ~ UpDiffer(a.pre, b.pre, k) /\ ~ UpDiffer(b.pre, a.pre, k)
      BY <2>3 DEF UpAgree, UpDiffer
    <3> QED BY <1>5, <2>0, <2>1, <2>2, <3>1
  <2>4. CASE ~ UpAgree(a.pre, b.pre)
    <3>1. ~ UpAgree(b.pre, a.pre)
      BY <2>4 DEF UpAgree
    <3>2. PICK k \in Nat : UpDiffer(a.pre, b.pre, k) /\ compareVersions(a, b) = compareIdentifiers(a.pre[k], b.pre[k])
      BY <2>1, <2>4
    <3>3. PICK l \in Nat : UpDiffer(b.pre, a.pre, l) /\ compareVersions(b, a) = compareIdentifiers(b.pre[l], a.pre[l])
      BY <2>2, <3>1
    <3>4. k = l
      BY <3>2, <3>3 DEF UpDiffer
    <3>5. a.pre[k] \in Identifiers /\ b.pre[k] \in Identifiers /\ a.pre[k] # b.pre[k]
      BY <2>0, <3>2 DEF UpDiffer
    <3> QED BY <1>5, <3>2, <3>3, <3>4, <3>5, UpIdentifiers
  <2> QED BY <2>3, <2>4
<1> QED BY <1>2, <1>3, <1>4, <1>5

(* Older, said of the lists of identifiers.                                *)
UpOlder(p, q) ==
  \/ \E k \in Nat : UpDiffer(p, q, k) /\ compareIdentifiers(p[k], q[k]) < 0
  \/ UpAgree(p, q) /\ Len(p) < Len(q)

LEMMA UpOlderSame ==
  ASSUME NEW a \in Versions, NEW b \in Versions, a.core = b.core, a.pre # b.pre, a.pre # <<>>, b.pre # <<>>
  PROVE  compareVersions(a, b) < 0 <=> UpOlder(a.pre, b.pre)
<1>1. Len(a.pre) \in Nat /\ Len(b.pre) \in Nat
  BY UpVersion, UpLists
<1>2. \/ \E k \in Nat : UpDiffer(a.pre, b.pre, k) /\ compareVersions(a, b) = compareIdentifiers(a.pre[k], b.pre[k])
      \/ /\ UpAgree(a.pre, b.pre) /\ Len(a.pre) # Len(b.pre)
         /\ compareVersions(a, b) = IF Len(a.pre) < Len(b.pre) THEN -1 ELSE 1
  BY UpCompared
<1>3. CASE UpAgree(a.pre, b.pre)
  <2>1. \A k \in Nat : ~ UpDiffer(a.pre, b.pre, k)
    BY <1>3 DEF UpAgree, UpDiffer
  <2> QED BY <1>1, <1>2, <1>3, <2>1 DEF UpOlder
<1>4. CASE ~ UpAgree(a.pre, b.pre)
  <2>1. PICK k \in Nat : UpDiffer(a.pre, b.pre, k) /\ compareVersions(a, b) = compareIdentifiers(a.pre[k], b.pre[k])
    BY <1>2, <1>4
  <2>2. \A l \in Nat : UpDiffer(a.pre, b.pre, l) => l = k
    BY <2>1 DEF UpDiffer
  <2> QED BY <2>1, <2>2, <1>4 DEF UpOlder
<1> QED BY <1>3, <1>4

LEMMA UpOlderChain ==
  ASSUME NEW p \in UpPre, NEW q \in UpPre, NEW r \in UpPre, UpOlder(p, q), UpOlder(q, r)
  PROVE  UpOlder(p, r)
<1>1. /\ Len(p) \in Nat /\ \A i \in 1 .. Len(p) : p[i] \in Identifiers
      /\ Len(q) \in Nat /\ \A i \in 1 .. Len(q) : q[i] \in Identifiers
      /\ Len(r) \in Nat /\ \A i \in 1 .. Len(r) : r[i] \in Identifiers
  BY UpLists
<1>2. CASE UpAgree(p, q) /\ Len(p) < Len(q) /\ UpAgree(q, r) /\ Len(q) < Len(r)
  <2>1. UpAgree(p, r) /\ Len(p) < Len(r)
    BY <1>1, <1>2 DEF UpAgree
  <2> QED BY <2>1 DEF UpOlder
<1>3. ASSUME UpAgree(p, q), Len(p) < Len(q), NEW l \in Nat, UpDiffer(q, r, l), compareIdentifiers(q[l], r[l]) < 0
      PROVE  UpOlder(p, r)
  <2>1. CASE l <= Len(p)
    <3>1. UpDiffer(p, r, l) /\ p[l] = q[l]
      BY <1>1, <1>3, <2>1 DEF UpAgree, UpDiffer
    <3> QED BY <1>3, <3>1 DEF UpOlder
  <2>2. CASE l > Len(p)
    <3>1. UpAgree(p, r) /\ Len(p) < Len(r)
      BY <1>1, <1>3, <2>2 DEF UpAgree, UpDiffer
    <3> QED BY <3>1 DEF UpOlder
  <2> QED BY <1>1, <2>1, <2>2
<1>4. ASSUME NEW k \in Nat, UpDiffer(p, q, k), compareIdentifiers(p[k], q[k]) < 0, UpAgree(q, r), Len(q) < Len(r)
      PROVE  UpOlder(p, r)
  <2>1. UpDiffer(p, r, k) /\ r[k] = q[k]
    BY <1>1, <1>4 DEF UpAgree, UpDiffer
  <2> QED BY <1>4, <2>1 DEF UpOlder
<1>5. ASSUME NEW k \in Nat, UpDiffer(p, q, k), compareIdentifiers(p[k], q[k]) < 0,
             NEW l \in Nat, UpDiffer(q, r, l), compareIdentifiers(q[l], r[l]) < 0
      PROVE  UpOlder(p, r)
  <2>1. p[k] \in Identifiers /\ q[k] \in Identifiers /\ q[l] \in Identifiers /\ r[l] \in Identifiers
    BY <1>1, <1>5 DEF UpDiffer
  <2>2. CASE k < l
    <3>1. UpDiffer(p, r, k) /\ r[k] = q[k]
      BY <1>1, <1>5, <2>2 DEF UpDiffer
    <3> QED BY <1>5, <3>1 DEF UpOlder
  <2>3. CASE l < k
    <3>1. UpDiffer(p, r, l) /\ p[l] = q[l]
      BY <1>1, <1>5, <2>3 DEF UpDiffer
    <3> QED BY <1>5, <3>1 DEF UpOlder
  <2>4. CASE k = l
    <3>1. compareIdentifiers(p[k], r[k]) < 0
      BY <1>5, <2>1, <2>4, UpIdentifiers
    <3>2. p[k] # r[k]
      BY <3>1, <2>1, <2>4, UpIdentifiers
    <3>3. UpDiffer(p, r, k)
      BY <1>1, <1>5, <2>4, <3>2 DEF UpDiffer
    <3> QED BY <3>1, <3>3 DEF UpOlder
  <2> QED BY <2>2, <2>3, <2>4
<1> QED BY <1>2, <1>3, <1>4, <1>5 DEF UpOlder

(* ... and older is transitive.                                            *)
LEMMA UpChain ==
  ASSUME NEW a \in Versions, NEW b \in Versions, NEW c \in Versions,
         compareVersions(a, b) < 0, compareVersions(b, c) < 0
  PROVE  compareVersions(a, c) < 0
<1>1. /\ a.core \in Nat /\ b.core \in Nat /\ c.core \in Nat
      /\ a.pre \in UpPre /\ b.pre \in UpPre /\ c.pre \in UpPre
  BY UpVersion
<1>2. a.core # b.core => a.core < b.core
  BY UpComparedCases
<1>3. b.core # c.core => b.core < c.core
  BY UpComparedCases
<1>4. CASE a.core # b.core \/ b.core # c.core
  <2>1. a.core < c.core
    BY <1>1, <1>2, <1>3, <1>4
  <2>2. compareVersions(a, c) = -1
    BY <1>1, <2>1, UpComparedCases
  <2> QED BY <2>2
<1>5. CASE a.core = b.core /\ b.core = c.core
  <2>1. a.pre # b.pre /\ b.pre # c.pre
    <3>1. a # b /\ b # c
      BY UpOpposite
    <3> QED BY <3>1, <1>5, UpComparedCases
  <2>2. a.pre # <<>> /\ b.pre # <<>>
    BY <1>5, <2>1, UpComparedCases
  <2>3. UpOlder(a.pre, b.pre)
    BY <1>5, <2>1, <2>2, UpOlderSame
  <2>4. CASE c.pre = <<>>
    BY <1>5, <2>2, <2>4, UpComparedCases
  <2>5. CASE c.pre # <<>>
    <3>1. UpOlder(b.pre, c.pre)
      BY <1>5, <2>1, <2>2, <2>5, UpOlderSame
    <3>2. UpOlder(a.pre, c.pre)
      BY <1>1, <2>3, <3>1, UpOlderChain
    <3>3. a.pre # c.pre
      <4>1. ~ UpOlder(a.pre, a.pre)
        BY <1>1, UpLists DEF UpOlder, UpDiffer
      <4> QED BY <3>2, <4>1
    <3> QED BY <1>5, <2>2, <2>5, <3>2, <3>3, UpOlderSame
  <2> QED BY <2>4, <2>5
<1> QED BY <1>4, <1>5

-----------------------------------------------------------------------------
(* The update *)

UpKept == Versions \union {Nothing}
UpFiles == [current : UpKept, old : UpKept, staged : UpKept, partial : UpKept \union {Garbage}]

(* Between updates a running installation has its current binary; while the *)
(* files are swapped it has the old one, and the staged one to install.    *)
UpInv ==
  /\ running \in UpKept /\ disk \in UpFiles /\ offered \in UpKept
  /\ updating \in {"idle", "fetch", "stream", "verify", "swap"}
  /\ disk.current # Nothing \/ disk.old # Nothing
  /\ running # Nothing /\ updating # "swap" => disk.current # Nothing
  /\ updating = "swap" => disk.old # Nothing /\ disk.staged # Nothing

LEMMA UpNames ==
  /\ Garbage \notin UpKept
  /\ Releases \subseteq UpKept /\ Nothing \in UpKept
<1>1. \A v \in Versions : v.core \in Nat /\ v.core # 0
  BY UpVersion
<1>2. Garbage.core = -1 /\ Nothing.core = 0
  BY DEF Garbage, Nothing
<1>3. Garbage # Nothing
  BY <1>2
<1>4. Garbage \notin Versions
  BY <1>1, <1>2
<1>5. Releases \subseteq Versions
  <2>1. 0 \in 0 .. MaxIdentifiers
    BY VersionsAssumption
  <2>2. <<>> \in [1 .. 0 -> Identifiers]
    OBVIOUS
  <2>3. <<>> \in UpPre
    BY <2>1, <2>2 DEF UpPre
  <2>4. Versions = [core : Cores, pre : UpPre]
    BY DEF Versions, UpPre
  <2>5. \A c \in Cores : Release(c) \in Versions
    BY <2>3, <2>4 DEF Release
  <2> QED BY <2>5 DEF Releases
<1> QED BY <1>3, <1>4, <1>5 DEF UpKept

LEMMA UpInit == UpdInit => UpInv
<1> SUFFICES ASSUME UpdInit PROVE UpInv
  OBVIOUS
<1>1. PICK v \in Versions : running = v /\ disk = [current |-> v, old |-> Nothing, staged |-> Nothing, partial |-> Nothing]
  BY DEF UpdInit
<1>2. v # Nothing
  BY UpVersion DEF Nothing
<1>3. v \in UpKept /\ Nothing \in UpKept
  BY DEF UpKept
<1> QED BY <1>1, <1>2, <1>3 DEF UpdInit, UpInv, UpFiles

LEMMA UpStep ==
  ASSUME UpInv, [UpdNext]_updVars
  PROVE  UpInv'
<1> USE UpNames
<1>0. disk \in UpFiles
  BY DEF UpInv
<1>1. CASE UNCHANGED updVars
  BY <1>1 DEF updVars, UpInv
<1>2. CASE CheckForUpdate
  BY <1>2 DEF CheckForUpdate, UpInv, UpKept
<1>3. CASE DownloadBegin
  BY <1>0, <1>3 DEF DownloadBegin, UpInv, UpFiles
<1>4. CASE Stream
  <2>1. PICK f \in UpKept \union {Garbage} : disk' = [disk EXCEPT !.partial = f]
    BY <1>4 DEF Stream, UpInv
  <2>2. disk' \in UpFiles /\ disk'.current = disk.current /\ disk'.old = disk.old /\ disk'.staged = disk.staged
    BY <1>0, <2>1 DEF UpFiles
  <2> QED BY <1>4, <2>2 DEF Stream, UpInv
<1>5. CASE DownloadUpdate
  <2>1. PICK f \in UpKept : disk' = [disk EXCEPT !.staged = f, !.partial = Nothing]
    <3>1. PICK f : f = IF disk.partial = offered THEN offered ELSE disk.staged
      OBVIOUS
    <3>2. f \in UpKept
      BY <1>0, <3>1 DEF UpInv, UpFiles
    <3>3. disk' = [disk EXCEPT !.staged = f, !.partial = Nothing]
      BY <1>5, <3>1 DEF DownloadUpdate
    <3> QED BY <3>2, <3>3
  <2>2. disk' \in UpFiles /\ disk'.current = disk.current /\ disk'.old = disk.old
    BY <1>0, <2>1 DEF UpFiles
  <2> QED BY <1>5, <2>2 DEF DownloadUpdate, UpInv
<1>6. CASE applySwap
  <2>1. disk' \in UpFiles /\ disk'.old = disk.current /\ disk'.staged = disk.staged
    BY <1>0, <1>6 DEF applySwap, UpFiles
  <2> QED BY <1>6, <2>1 DEF applySwap, UpInv
<1>7. CASE ApplyUpdate
  <2>1. CASE disk' = [disk EXCEPT !.current = disk.staged, !.staged = Nothing]
    <3>1. disk' \in UpFiles /\ disk'.current = disk.staged /\ disk'.old = disk.old
      BY <1>0, <2>1 DEF UpFiles
    <3> QED BY <1>7, <3>1 DEF ApplyUpdate, UpInv
  <2>2. CASE disk' = [disk EXCEPT !.current = disk.old, !.old = Nothing]
    <3>1. disk' \in UpFiles /\ disk'.current = disk.old
      BY <1>0, <2>2 DEF UpFiles
    <3> QED BY <1>7, <3>1 DEF ApplyUpdate, UpInv
  <2> QED BY <1>7, <2>1, <2>2 DEF ApplyUpdate
<1>8. CASE Rollback
  <2>1. disk' \in UpFiles /\ disk'.current = disk.old
    BY <1>0, <1>8 DEF Rollback, UpFiles
  <2> QED BY <1>8, <2>1 DEF Rollback, UpInv
<1>9. CASE Cleanup
  <2>1. disk' \in UpFiles /\ disk'.current = disk.current
    BY <1>0, <1>9 DEF Cleanup, UpFiles
  <2> QED BY <1>9, <2>1 DEF Cleanup, UpInv
<1>10. CASE Stop
  BY <1>10 DEF Stop, UpInv
<1>11. CASE Launch
  BY <1>0, <1>11 DEF Launch, UpInv, UpFiles
<1> QED BY <1>1, <1>2, <1>3, <1>4, <1>5, <1>6, <1>7, <1>8, <1>9, <1>10, <1>11 DEF UpdNext

LEMMA UpSafe ==
  ASSUME UpInv
  PROVE  UpdTypeOK /\ NeverStranded /\ OnlyReleasesKept /\ VersionsOrdered
<1>1. disk \in UpFiles
  BY DEF UpInv
<1>2. UpdTypeOK
  <2>1. DOMAIN disk = {"current", "old", "staged", "partial"}
    BY <1>1 DEF UpFiles
  <2>2. \A f \in DOMAIN disk : disk[f] \in UpKept \union {Garbage}
    BY <1>1, <2>1 DEF UpFiles
  <2> QED BY <2>2 DEF UpInv, UpdTypeOK, UpKept
<1>3. NeverStranded
  BY DEF UpInv, NeverStranded
<1>4. OnlyReleasesKept
  BY <1>1, UpNames DEF UpFiles, OnlyReleasesKept
<1>5. VersionsOrdered
  <2> SUFFICES ASSUME running # Nothing, NEW a \in Versions
               PROVE  /\ compareVersions(a, running) = -compareVersions(running, a)
                      /\ compareVersions(a, running) = 0 <=> a = running
                      /\ compareVersions(a, running) < 0 =>
                           \A b \in Versions : compareVersions(b, a) < 0 => compareVersions(b, running) < 0
    BY DEF VersionsOrdered
  <2>1. running \in Versions
    BY DEF UpInv, UpKept
  <2>2. /\ compareVersions(a, running) = -compareVersions(running, a)
        /\ compareVersions(a, running) = 0 <=> a = running
    BY <2>1, UpOpposite
  <2>3. compareVersions(a, running) < 0 =>
          \A b \in Versions : compareVersions(b, a) < 0 => compareVersions(b, running) < 0
    BY <2>1, UpChain
  <2> QED BY <2>2, <2>3
<1> QED BY <1>2, <1>3, <1>4, <1>5

\* An installation can be started at every moment of an update, keeps only
\* whole releases, and versions are in one order.
THEOREM UpdatesSound == UpdSpec => [](UpdTypeOK /\ NeverStranded /\ OnlyReleasesKept /\ VersionsOrdered)
<1>1. UpInv => UpdTypeOK /\ NeverStranded /\ OnlyReleasesKept /\ VersionsOrdered
  BY UpSafe
<1>2. UpInv /\ [UpdNext]_updVars => UpInv'
  BY UpStep
<1> QED BY UpInit, <1>1, <1>2, PTL DEF UpdSpec

-----------------------------------------------------------------------------
(* The plugin registry *)

PlPcs == {"idle", "look", "select", "wait", "write", "audit", "done"}
PlBusy == {"look", "select", "wait", "write"}
PlAnswers == {"", "ok", "invalid", "conflict", "missing", "error"}
PlStatuses == {"none", "active", "disabled", "archived"}
PlRecords == [status : PlStatuses, super : Keys \union {NoKey}]
PlRequests ==
  [op : PlugOps \union {""}, key : Keys \union {NoKey}, pc : PlPcs, active : Keys \union {NoKey},
   answer : PlAnswers, changed : BOOLEAN]

PlTypes ==
  /\ registry \in [Keys -> PlRecords]
  /\ pcall \in [PlugCalls -> PlRequests]
  /\ rowLock \in [Keys -> PlugCalls \union {FreeRow}]
  /\ withdrawn \subseteq PlugNames

(* What a request has in hand: its version, and the active one of the same  *)
(* name it waits for or writes.                                            *)
PlCall(m) ==
  /\ m.pc \in PlBusy => m.key \in Keys /\ m.op \in PlugOps
  /\ m.pc \notin {"wait", "write"} => m.active = NoKey
  /\ m.pc = "wait" => m.active # NoKey
  /\ m.active # NoKey => m.active[1] = m.key[1]

PlActive(k) == registry[k].status = "active"

(* Who writes holds the lock of the active row, which stays active ...     *)
PlHeld ==
  \A c \in PlugCalls : pcall[c].pc = "write" /\ pcall[c].active # NoKey =>
    rowLock[pcall[c].active] = c /\ PlActive(pcall[c].active)

(* ... and which is the only one of its name.                              *)
PlOne == \A k, l \in Keys : k[1] = l[1] /\ PlActive(k) /\ PlActive(l) => k = l

PlUnlinked == \A k \in Keys : registry[k].status \in {"none", "active"} => registry[k].super = NoKey

PlChain ==
  \A S \in SUBSET {k \in Keys : registry[k].super # NoKey} : S # {} => \E k \in S : registry[k].super \notin S

PlServed ==
  \A k \in Keys : registry[k].status # "none" /\ k[1] \notin withdrawn => \E l \in Keys : l[1] = k[1] /\ PlActive(l)

PlInv ==
  /\ PlTypes /\ (\A c \in PlugCalls : PlCall(pcall[c]))
  /\ PlHeld /\ PlOne /\ PlUnlinked /\ PlChain /\ PlServed

LEMMA PlNoKey == NoKey \notin Keys
  BY DEF NoKey, Keys

LEMMA PlInit == PlugInit => PlInv
<1> SUFFICES ASSUME PlugInit PROVE PlInv
  OBVIOUS
<1>1. NoRow \in PlRecords /\ NoRow.status = "none" /\ NoRow.super = NoKey
  BY DEF NoRow, PlRecords, PlStatuses
<1>2. PICK m : m = [op |-> "", key |-> NoKey, pc |-> "idle", active |-> NoKey, answer |-> "", changed |-> FALSE]
  OBVIOUS
<1>3. m \in PlRequests /\ m.pc = "idle" /\ m.active = NoKey
  <2>1. "idle" \in PlPcs /\ "" \in PlAnswers
    BY DEF PlPcs, PlAnswers
  <2> QED BY <1>2, <2>1 DEF PlRequests
<1>4. pcall = [c \in PlugCalls |-> m] /\ registry = [k \in Keys |-> NoRow] /\ rowLock = [k \in Keys |-> FreeRow]
      /\ withdrawn = {}
  BY <1>2 DEF PlugInit
<1>5. PlTypes
  BY <1>1, <1>3, <1>4 DEF PlTypes
<1>6. \A c \in PlugCalls : PlCall(pcall[c])
  BY <1>3, <1>4 DEF PlCall, PlBusy
<1>7. PlHeld /\ PlOne /\ PlUnlinked /\ PlServed
  BY <1>1, <1>3, <1>4 DEF PlHeld, PlOne, PlUnlinked, PlServed, PlActive
<1>8. {k \in Keys : registry[k].super # NoKey} = {}
  BY <1>1, <1>4
<1>9. PlChain
  BY <1>8 DEF PlChain
<1> QED BY <1>5, <1>6, <1>7, <1>9 DEF PlInv

(* A step of one request that writes no row.                               *)
LEMMA PlReads ==
  ASSUME PlInv, NEW c \in PlugCalls, NEW m, m \in PlRequests, pcall' = [pcall EXCEPT ![c] = m],
         UNCHANGED <<registry, withdrawn>>, PlCall(m),
         rowLock' \in [Keys -> PlugCalls \union {FreeRow}],
         \A k \in Keys : rowLock[k] # FreeRow /\ rowLock[k] # c => rowLock'[k] = rowLock[k],
         m.pc = "write" /\ m.active # NoKey => rowLock'[m.active] = c /\ PlActive(m.active)
  PROVE  PlInv'
<1>1. pcall' \in [PlugCalls -> PlRequests] /\ pcall'[c] = m /\ \A d \in PlugCalls : d # c => pcall'[d] = pcall[d]
  BY DEF PlInv, PlTypes
<1>2. PlTypes'
  BY <1>1 DEF PlInv, PlTypes
<1>3. \A d \in PlugCalls : PlCall(pcall[d])'
  BY <1>1 DEF PlInv, PlCall
<1>4. PlHeld'
  <2> SUFFICES ASSUME NEW d \in PlugCalls, pcall'[d].pc = "write", pcall'[d].active # NoKey
               PROVE  rowLock'[pcall'[d].active] = d /\ PlActive(pcall'[d].active)
    BY DEF PlHeld, PlActive
  <2>1. CASE d = c
    BY <2>1, <1>1
  <2>2. CASE d # c
    <3>1. pcall'[d] = pcall[d] /\ pcall[d].active \in Keys
      BY <2>2, <1>1 DEF PlInv, PlTypes, PlRequests
    <3>2. rowLock[pcall[d].active] = d /\ PlActive(pcall[d].active)
      BY <3>1 DEF PlInv, PlHeld
    <3>3. d # FreeRow
      BY RegistryAssumption
    <3> QED BY <2>2, <3>1, <3>2, <3>3
  <2> QED BY <2>1, <2>2
<1>5. PlOne' /\ PlUnlinked' /\ PlChain' /\ PlServed'
  BY DEF PlInv, PlOne, PlUnlinked, PlChain, PlServed, PlActive
<1> QED BY <1>2, <1>3, <1>4, <1>5 DEF PlInv

(* A request that ends.                                                    *)
LEMMA PlEnds ==
  ASSUME PlInv, NEW c \in PlugCalls, NEW a \in PlAnswers, PlugEnd(c, a),
         UNCHANGED <<registry, withdrawn>>, rowLock' = rowLock \/ Unlock(c)
  PROVE  PlInv'
<1>1. PICK m : m = [pcall[c] EXCEPT !.pc = "done", !.answer = a, !.key = NoKey, !.active = NoKey]
  OBVIOUS
<1>2. m \in PlRequests /\ m.pc = "done" /\ m.active = NoKey
  <2>1. "done" \in PlPcs
    BY DEF PlPcs
  <2>2. pcall[c] \in PlRequests
    BY DEF PlInv, PlTypes
  <2> QED BY <1>1, <2>1, <2>2 DEF PlRequests
<1>3. pcall' = [pcall EXCEPT ![c] = m]
  BY <1>1 DEF PlugEnd
<1>4. PlCall(m)
  BY <1>2 DEF PlCall, PlBusy
<1>5. /\ rowLock' \in [Keys -> PlugCalls \union {FreeRow}]
      /\ \A k \in Keys : rowLock[k] # FreeRow /\ rowLock[k] # c => rowLock'[k] = rowLock[k]
  BY DEF PlInv, PlTypes, Unlock
<1> QED BY <1>2, <1>3, <1>4, <1>5, PlReads

LEMMA PlRequested ==
  ASSUME PlInv, NEW c \in PlugCalls, NEW op \in PlugOps, NEW key \in Keys, NEW ok \in BOOLEAN,
         PlugRequest(c, op, key, ok)
  PROVE  PlInv'
<1>1. PICK bad \in BOOLEAN : bad = parseRegistryManifest(c, op, ok)
  BY DEF parseRegistryManifest
<1>2. PICK m : m = [pcall[c] EXCEPT !.op = op, !.key = key, !.changed = FALSE,
                      !.pc = IF bad THEN "done" ELSE "look", !.answer = IF bad THEN "invalid" ELSE ""]
  OBVIOUS
<1>3. pcall[c] \in PlRequests /\ PlCall(pcall[c]) /\ pcall[c].active = NoKey
  BY DEF PlInv, PlTypes, PlCall, PlugRequest
<1>4. PICK p, a : p = (IF bad THEN "done" ELSE "look") /\ a = (IF bad THEN "invalid" ELSE "")
  OBVIOUS
<1>5. p \in PlPcs /\ a \in PlAnswers /\ p \in {"done", "look"}
  BY <1>4 DEF PlPcs, PlAnswers
<1>6. m \in PlRequests /\ m.pc = p /\ m.active = NoKey /\ m.key = key /\ m.op = op
  BY <1>2, <1>3, <1>4, <1>5 DEF PlRequests
<1>7. pcall' = [pcall EXCEPT ![c] = m]
  <2>1. pcall' = [pcall EXCEPT ![c].op = op, ![c].key = key, ![c].changed = FALSE, ![c].pc = p, ![c].answer = a]
    BY <1>1, <1>4 DEF PlugRequest
  <2> QED BY <2>1, <1>2, <1>4 DEF PlInv, PlTypes
<1>8. PlCall(m)
  BY <1>5, <1>6 DEF PlCall
<1> QED BY <1>5, <1>6, <1>7, <1>8, PlReads DEF PlugRequest, PlInv, PlTypes

LEMMA PlLooks ==
  ASSUME PlInv, NEW c \in PlugCalls, PlugLook(c)
  PROVE  PlInv'
<1>1. CASE PlugEnd(c, "conflict") \/ PlugEnd(c, "missing")
  <2>1. "conflict" \in PlAnswers /\ "missing" \in PlAnswers
    BY DEF PlAnswers
  <2> QED BY <1>1, <2>1, PlEnds DEF PlugLook
<1>2. CASE pcall' = [pcall EXCEPT ![c].pc = "select"]
  <2>1. PICK m : m = [pcall[c] EXCEPT !.pc = "select"]
    OBVIOUS
  <2>2. pcall[c] \in PlRequests /\ PlCall(pcall[c]) /\ pcall[c].pc = "look"
    BY DEF PlInv, PlTypes, PlugLook
  <2>3. m \in PlRequests /\ m.pc = "select" /\ m.active = pcall[c].active /\ m.key = pcall[c].key /\ m.op = pcall[c].op
    <3>1. "select" \in PlPcs
      BY DEF PlPcs
    <3> QED BY <2>1, <2>2, <3>1 DEF PlRequests
  <2>4. pcall' = [pcall EXCEPT ![c] = m]
    BY <1>2, <2>1 DEF PlInv, PlTypes
  <2>5. PlCall(m)
    BY <2>2, <2>3 DEF PlCall, PlBusy
  <2> QED BY <2>3, <2>4, <2>5, PlReads DEF PlugLook, PlInv, PlTypes
<1> QED BY <1>1, <1>2 DEF PlugLook

LEMMA PlNone ==
  ASSUME PlInv, NEW c \in PlugCalls, PlugNoneActive(c), pcall[c].pc \in {"select", "wait"},
         UNCHANGED <<registry, rowLock, withdrawn>>
  PROVE  PlInv'
<1>1. CASE PlugEnd(c, "missing")
  <2>1. "missing" \in PlAnswers
    BY DEF PlAnswers
  <2> QED BY <1>1, <2>1, PlEnds
<1>2. CASE pcall' = [pcall EXCEPT ![c].pc = "write", ![c].active = NoKey]
  <2>1. PICK m : m = [pcall[c] EXCEPT !.pc = "write", !.active = NoKey]
    OBVIOUS
  <2>2. pcall[c] \in PlRequests /\ PlCall(pcall[c])
    BY DEF PlInv, PlTypes
  <2>3. m \in PlRequests /\ m.pc = "write" /\ m.active = NoKey /\ m.key = pcall[c].key /\ m.op = pcall[c].op
    <3>1. "write" \in PlPcs
      BY DEF PlPcs
    <3> QED BY <2>1, <2>2, <3>1 DEF PlRequests
  <2>4. pcall' = [pcall EXCEPT ![c] = m]
    BY <1>2, <2>1 DEF PlInv, PlTypes
  <2>5. PlCall(m)
    BY <2>2, <2>3 DEF PlCall, PlBusy
  <2> QED BY <2>3, <2>4, <2>5, PlReads DEF PlInv, PlTypes
<1> QED BY <1>1, <1>2 DEF PlugNoneActive

LEMMA PlSelects ==
  ASSUME PlInv, NEW c \in PlugCalls, PlugSelect(c)
  PROVE  PlInv'
<1>1. CASE PlugNoneActive(c) /\ UNCHANGED rowLock
  BY <1>1, PlNone DEF PlugSelect
<1>2. CASE \E k \in PlugActive(pcall[c].key[1]) :
                /\ pcall' = [pcall EXCEPT ![c].active = k, ![c].pc = IF rowLock[k] = FreeRow THEN "write" ELSE "wait"]
                /\ rowLock' = IF rowLock[k] = FreeRow THEN [rowLock EXCEPT ![k] = c] ELSE rowLock
  <2>1. PICK k \in PlugActive(pcall[c].key[1]) :
                /\ pcall' = [pcall EXCEPT ![c].active = k, ![c].pc = IF rowLock[k] = FreeRow THEN "write" ELSE "wait"]
                /\ rowLock' = IF rowLock[k] = FreeRow THEN [rowLock EXCEPT ![k] = c] ELSE rowLock
    BY <1>2
  <2>2. k \in Keys /\ k[1] = pcall[c].key[1] /\ PlActive(k) /\ k # NoKey
    BY PlNoKey DEF PlugActive, PlActive
  <2>3. PICK p : p = IF rowLock[k] = FreeRow THEN "write" ELSE "wait"
    OBVIOUS
  <2>4. PICK m : m = [pcall[c] EXCEPT !.active = k, !.pc = p]
    OBVIOUS
  <2>5. pcall[c] \in PlRequests /\ PlCall(pcall[c]) /\ pcall[c].pc = "select"
    BY DEF PlInv, PlTypes, PlugSelect
  <2>6. m \in PlRequests /\ m.pc = p /\ m.active = k /\ m.key = pcall[c].key /\ m.op = pcall[c].op
    <3>1. p \in PlPcs
      BY <2>3 DEF PlPcs
    <3> QED BY <2>2, <2>4, <2>5, <3>1 DEF PlRequests
  <2>7. pcall' = [pcall EXCEPT ![c] = m]
    BY <2>1, <2>3, <2>4 DEF PlInv, PlTypes
  <2>8. PlCall(m)
    BY <2>2, <2>3, <2>5, <2>6 DEF PlCall, PlBusy
  <2>9. /\ rowLock' \in [Keys -> PlugCalls \union {FreeRow}]
        /\ \A l \in Keys : rowLock[l] # FreeRow /\ rowLock[l] # c => rowLock'[l] = rowLock[l]
        /\ p = "write" => rowLock'[k] = c
    BY <2>1, <2>2, <2>3 DEF PlInv, PlTypes
  <2> QED BY <2>2, <2>6, <2>7, <2>8, <2>9, PlReads DEF PlugSelect
<1> QED BY <1>1, <1>2 DEF PlugSelect

LEMMA PlAwaits ==
  ASSUME PlInv, NEW c \in PlugCalls, PlugAwaited(c)
  PROVE  PlInv'
<1>1. CASE PlugNoneActive(c) /\ UNCHANGED rowLock
  BY <1>1, PlNone DEF PlugAwaited
<1>2. CASE /\ registry[pcall[c].active].status = "active"
           /\ pcall' = [pcall EXCEPT ![c].pc = "write"] /\ rowLock' = [rowLock EXCEPT ![pcall[c].active] = c]
  <2>1. PICK k : k = pcall[c].active
    OBVIOUS
  <2>2. pcall[c] \in PlRequests /\ PlCall(pcall[c]) /\ pcall[c].pc = "wait" /\ rowLock[k] = FreeRow
    BY <2>1 DEF PlInv, PlTypes, PlugAwaited
  <2>3. k \in Keys /\ PlActive(k)
    BY <1>2, <2>1, <2>2 DEF PlCall, PlRequests, PlActive
  <2>4. PICK m : m = [pcall[c] EXCEPT !.pc = "write"]
    OBVIOUS
  <2>5. m \in PlRequests /\ m.pc = "write" /\ m.active = k /\ m.key = pcall[c].key /\ m.op = pcall[c].op
    <3>1. "write" \in PlPcs
      BY DEF PlPcs
    <3> QED BY <2>1, <2>2, <2>4, <3>1 DEF PlRequests
  <2>6. pcall' = [pcall EXCEPT ![c] = m]
    BY <1>2, <2>4 DEF PlInv, PlTypes
  <2>7. PlCall(m)
    BY <2>1, <2>2, <2>5 DEF PlCall, PlBusy
  <2>8. /\ rowLock' \in [Keys -> PlugCalls \union {FreeRow}]
        /\ \A l \in Keys : rowLock[l] # FreeRow /\ rowLock[l] # c => rowLock'[l] = rowLock[l]
        /\ rowLock'[k] = c
    BY <1>2, <2>1, <2>2, <2>3 DEF PlInv, PlTypes
  <2> QED BY <2>3, <2>5, <2>6, <2>7, <2>8, PlReads DEF PlugAwaited
<1> QED BY <1>1, <1>2 DEF PlugAwaited

LEMMA PlAudits ==
  ASSUME PlInv, NEW c \in PlugCalls, PlugAudit(c)
  PROVE  PlInv'
<1>1. "ok" \in PlAnswers /\ "error" \in PlAnswers
  BY DEF PlAnswers
<1> QED BY <1>1, PlEnds DEF PlugAudit

(* The index of active names.                                              *)
LEMMA PlAllowed ==
  ASSUME RowsAllowed(registry'), PlInv
  PROVE  PlOne'
<1> SUFFICES ASSUME NEW k \in Keys, NEW l \in Keys, k[1] = l[1],
                    registry'[k].status = "active", registry'[l].status = "active"
             PROVE  k = l
  BY DEF PlOne, PlActive
<1> DEFINE A == {j \in Keys : j[1] = k[1] /\ registry'[j].status = "active"}
<1>1. k[1] \in PlugNames /\ k \in A /\ l \in A
  BY DEF Keys
<1>2. Cardinality(A) <= 1
  BY <1>1 DEF RowsAllowed
<1>3. IsFiniteSet(A)
  <2>1. IsFiniteSet(Keys)
    BY RegistryAssumption, FS_Product DEF Keys
  <2>2. A \subseteq Keys
    OBVIOUS
  <2> HIDE DEF A
  <2> QED BY <2>1, <2>2, FS_Subset
<1> HIDE DEF A
<1>4. Cardinality(A) \in Nat /\ Cardinality(A) # 0
  BY <1>1, <1>3, FS_CardinalityType, FS_EmptySet
<1>5. Cardinality(A) = 1
  BY <1>2, <1>4
<1>6. \E x : A = {x}
  BY <1>3, <1>5, FS_Singleton
<1> QED BY <1>1, <1>6

(* A step that writes rows: a row that was active is no longer so only if   *)
(* the writer has its lock.                                                *)
LEMMA PlWrites ==
  ASSUME PlInv, NEW c \in PlugCalls, NEW m \in PlRequests, pcall' = [pcall EXCEPT ![c] = m],
         m.pc \in {"done", "audit"}, m.active = NoKey, Unlock(c),
         registry' \in [Keys -> PlRecords], withdrawn' \subseteq PlugNames,
         \A k \in Keys : PlActive(k) /\ registry'[k].status # "active" => rowLock[k] = c,
         RowsAllowed(registry'), PlUnlinked', PlChain', PlServed'
  PROVE  PlInv'
<1>1. pcall' \in [PlugCalls -> PlRequests] /\ pcall'[c] = m /\ \A d \in PlugCalls : d # c => pcall'[d] = pcall[d]
  BY DEF PlInv, PlTypes
<1>2. /\ rowLock' \in [Keys -> PlugCalls \union {FreeRow}]
      /\ \A k \in Keys : rowLock[k] # c => rowLock'[k] = rowLock[k]
  BY DEF Unlock, PlInv, PlTypes
<1>3. PlTypes'
  BY <1>1, <1>2 DEF PlTypes
<1>4. \A d \in PlugCalls : PlCall(pcall[d])'
  BY <1>1 DEF PlInv, PlCall, PlBusy
<1>5. PlHeld'
  <2> SUFFICES ASSUME NEW d \in PlugCalls, pcall'[d].pc = "write", pcall'[d].active # NoKey
               PROVE  rowLock'[pcall'[d].active] = d /\ registry'[pcall'[d].active].status = "active"
    BY DEF PlHeld, PlActive
  <2>1. d # c /\ pcall'[d] = pcall[d] /\ pcall[d].active \in Keys
    BY <1>1 DEF PlInv, PlTypes, PlRequests
  <2>2. rowLock[pcall[d].active] = d /\ PlActive(pcall[d].active)
    BY <2>1 DEF PlInv, PlHeld
  <2> QED BY <1>2, <2>1, <2>2
<1>6. PlOne'
  BY PlAllowed
<1> QED BY <1>3, <1>4, <1>5, <1>6 DEF PlInv

(* A version is made the active one of its name.                           *)
LEMMA PlActivates ==
  ASSUME PlInv, NEW key \in Keys, NEW active \in Keys \union {NoKey}, active # key,
         active # NoKey => active[1] = key[1],
         registry' \in [Keys -> PlRecords],
         registry'[key].status = "active", registry'[key].super = NoKey,
         active # NoKey => registry'[active].status = "archived" /\ registry'[active].super = key,
         \A k \in Keys : k # key /\ k # active => registry'[k] = registry[k],
         withdrawn' = withdrawn \ {key[1]}
  PROVE  PlUnlinked' /\ PlChain' /\ PlServed'
<1>1. PlUnlinked'
  <2> SUFFICES ASSUME NEW k \in Keys, registry'[k].status \in {"none", "active"}
               PROVE  registry'[k].super = NoKey
    BY DEF PlUnlinked
  <2>1. CASE k = key
    BY <2>1
  <2>2. CASE k = active
    BY <2>2, PlNoKey
  <2>3. CASE k # key /\ k # active
    BY <2>3 DEF PlInv, PlUnlinked
  <2> QED BY <2>1, <2>2, <2>3
<1>2. PlChain'
  <2> SUFFICES ASSUME NEW S, S \subseteq {k \in Keys : registry'[k].super # NoKey}, S # {}
               PROVE  \E k \in S : registry'[k].super \notin S
    BY DEF PlChain
  <2>1. key \notin S
    OBVIOUS
  <2>2. CASE active \in S
    BY <2>1, <2>2, PlNoKey
  <2>3. CASE active \notin S
    <3>1. \A k \in S : k \in Keys /\ registry'[k] = registry[k]
      BY <2>1, <2>3
    <3>2. S \subseteq {k \in Keys : registry[k].super # NoKey}
      BY <3>1
    <3>3. PICK k \in S : registry[k].super \notin S
      BY <3>2 DEF PlInv, PlChain
    <3> QED BY <3>1, <3>3
  <2> QED BY <2>2, <2>3
<1>3. PlServed'
  <2> SUFFICES ASSUME NEW k \in Keys, registry'[k].status # "none", k[1] \notin withdrawn'
               PROVE  \E l \in Keys : l[1] = k[1] /\ registry'[l].status = "active"
    BY DEF PlServed, PlActive
  <2>1. CASE k[1] = key[1]
    BY <2>1
  <2>2. CASE k[1] # key[1]
    <3>1. k # key /\ k # active /\ k[1] \notin withdrawn /\ registry[k].status # "none"
      BY <2>2, PlNoKey
    <3>2. PICK l \in Keys : l[1] = k[1] /\ registry[l].status = "active"
      BY <3>1 DEF PlInv, PlServed, PlActive
    <3>3. l # key /\ l # active
      BY <2>2, <3>2, PlNoKey
    <3> QED BY <3>2, <3>3
  <2> QED BY <2>1, <2>2
<1> QED BY <1>1, <1>2, <1>3

(* What the operations write.                                              *)
LEMMA PlRowsWritten ==
  ASSUME PlTypes, NEW key \in Keys, NEW active \in Keys \union {NoKey}, active # key,
         NEW rows, rows = RegisterRows(key, active) \/ rows = ActivateRows(key, active)
  PROVE  /\ rows \in [Keys -> PlRecords]
         /\ rows[key].status = "active" /\ rows[key].super = NoKey
         /\ active # NoKey => rows[active].status = "archived" /\ rows[active].super = key
         /\ \A k \in Keys : k # key /\ k # active => rows[k] = registry[k]
<1>1. registry \in [Keys -> PlRecords]
  BY DEF PlTypes
<1>2. "active" \in PlStatuses /\ "archived" \in PlStatuses
  BY DEF PlStatuses
<1>3. PICK a \in PlRecords : a.status = "active" /\ a.super = NoKey
        /\ rows = [k \in Keys |-> IF k = key THEN a
                    ELSE IF k = active THEN [registry[k] EXCEPT !.status = "archived", !.super = key]
                    ELSE registry[k]]
  <2>1. CASE rows = RegisterRows(key, active)
    <3>1. PICK a : a = [status |-> "active", super |-> NoKey]
      OBVIOUS
    <3>2. a \in PlRecords /\ a.status = "active" /\ a.super = NoKey
      BY <3>1, <1>2 DEF PlRecords
    <3> QED BY <2>1, <3>1, <3>2 DEF RegisterRows
  <2>2. CASE rows = ActivateRows(key, active)
    <3>1. PICK a : a = [registry[key] EXCEPT !.status = "active", !.super = NoKey]
      OBVIOUS
    <3>2. a \in PlRecords /\ a.status = "active" /\ a.super = NoKey
      BY <3>1, <1>1, <1>2 DEF PlRecords
    <3>3. rows = [k \in Keys |-> IF k = key THEN a
                    ELSE IF k = active THEN [registry[k] EXCEPT !.status = "archived", !.super = key]
                    ELSE registry[k]]
      BY <2>2, <3>1 DEF ActivateRows
    <3> QED BY <3>2, <3>3
  <2> QED BY <2>1, <2>2
<1>4. ASSUME NEW k \in Keys
      PROVE  LET r == [registry[k] EXCEPT !.status = "archived", !.super = key]
             IN  r \in PlRecords /\ r.status = "archived" /\ r.super = key
  BY <1>1, <1>2 DEF PlRecords
<1>5. rows \in [Keys -> PlRecords]
  BY <1>1, <1>3, <1>4
<1>6. rows[key] = a /\ (active # NoKey => rows[active] = [registry[active] EXCEPT !.status = "archived", !.super = key])
      /\ \A k \in Keys : k # key /\ k # active => rows[k] = registry[k]
  BY <1>3
<1> QED BY <1>3, <1>4, <1>5, <1>6

LEMMA PlEndKeeps ==
  ASSUME PlTypes, NEW c \in PlugCalls, NEW a, PlugEnd(c, a)
  PROVE  pcall'[c].changed = pcall[c].changed
<1>1. pcall[c] \in PlRequests
  BY DEF PlTypes
<1>2. pcall'[c] = [pcall[c] EXCEPT !.pc = "done", !.answer = a, !.key = NoKey, !.active = NoKey]
  BY DEF PlugEnd, PlTypes
<1> QED BY <1>1, <1>2 DEF PlRequests

LEMMA PlCommits ==
  ASSUME PlInv, NEW c \in PlugCalls, PlugCommit(c)
  PROVE  /\ PlInv'
         /\ pcall[c].op \in {"register", "update"} /\ ~ pcall[c].changed /\ pcall'[c].changed =>
              registry[pcall[c].key] = NoRow
<1> DEFINE call == pcall[c]
           duplicate == call.op = "register" /\ registry[call.key].status # "none"
<1>1. /\ PlTypes /\ call \in PlRequests /\ PlCall(call) /\ call.pc = "write" /\ Unlock(c)
      /\ call.key \in Keys /\ call.op \in PlugOps
  BY DEF PlInv, PlTypes, PlugCommit, PlCall, PlBusy
<1>2. call.active # NoKey => /\ call.active \in Keys /\ call.active[1] = call.key[1]
                             /\ rowLock[call.active] = c /\ PlActive(call.active)
  BY <1>1 DEF PlInv, PlHeld, PlCall, PlRequests
<1>3. CASE \E a \in PlAnswers : PlugEnd(c, a) /\ UNCHANGED <<registry, withdrawn>>
  <2>1. PlInv'
    BY <1>1, <1>3, PlEnds
  <2>2. pcall'[c].changed = pcall[c].changed
    BY <1>1, <1>3, PlEndKeeps
  <2> QED BY <2>1, <2>2
<1>4. CASE /\ PlugRefusal(call) = "" /\ ~ duplicate /\ RowsAllowed(PlugRows(call))
           /\ registry' = PlugRows(call)
           /\ pcall' = [pcall EXCEPT ![c].changed = registry' # registry, ![c].active = NoKey,
                                     ![c].pc = IF call.op \in {"update", "rollback"} THEN "done" ELSE "audit",
                                     ![c].answer = IF call.op \in {"update", "rollback"} THEN "ok" ELSE ""]
           /\ withdrawn' = IF call.op \in {"disable", "archive"} THEN withdrawn \cup {call.key[1]}
                           ELSE withdrawn \ {call.key[1]}
  <2>1. PICK p, a : /\ p = (IF call.op \in {"update", "rollback"} THEN "done" ELSE "audit")
                    /\ a = (IF call.op \in {"update", "rollback"} THEN "ok" ELSE "")
    OBVIOUS
  <2>2. PICK b \in BOOLEAN : b = (registry' # registry)
    OBVIOUS
  <2>3. p \in PlPcs /\ a \in PlAnswers /\ p \in {"done", "audit"}
    BY <2>1 DEF PlPcs, PlAnswers
  <2>4. PICK m : m = [call EXCEPT !.changed = b, !.active = NoKey, !.pc = p, !.answer = a]
    OBVIOUS
  <2>5. m \in PlRequests /\ m.pc = p /\ m.active = NoKey
    BY <1>1, <2>3, <2>4 DEF PlRequests
  <2>6. pcall' = [pcall EXCEPT ![c] = m]
    <3>1. pcall' = [pcall EXCEPT ![c].changed = b, ![c].active = NoKey, ![c].pc = p, ![c].answer = a]
      BY <1>4, <2>1, <2>2
    <3> QED BY <3>1, <1>1, <2>4 DEF PlTypes
  <2>7. withdrawn' \subseteq PlugNames
    BY <1>1, <1>4 DEF PlTypes, Keys
  <2>8. /\ call.op \in {"register", "update"} => registry[call.key].status = "none"
        /\ call.op = "rollback" => call.key # call.active
    <3>1. call.op = "update" => registry[call.key].status = "none"
      BY <1>4 DEF PlugRefusal
    <3>2. call.op = "rollback" => call.key # call.active
      BY <1>4 DEF PlugRefusal
    <3>3. call.op = "register" => registry[call.key].status = "none"
      BY <1>4
    <3> QED BY <3>1, <3>2, <3>3
  <2>9. call.op \in {"register", "update"} => registry[call.key] = NoRow
    <3> SUFFICES ASSUME call.op \in {"register", "update"} PROVE registry[call.key] = NoRow
      OBVIOUS
    <3>1. registry[call.key].status = "none" /\ registry[call.key].super = NoKey /\ registry[call.key] \in PlRecords
      BY <1>1, <2>8 DEF PlInv, PlUnlinked, PlTypes
    <3>2. registry[call.key] = [status |-> "none", super |-> NoKey]
      BY <3>1 DEF PlRecords
    <3> QED BY <3>2 DEF NoRow
  <2>10. CASE call.op \in {"register", "update", "rollback"} \/ (call.op = "activate" /\ call.key # call.active)
    <3>1. call.active # call.key
      <4>1. CASE call.active = NoKey
      BY <1>1, <4>1, PlNoKey
    <4>2. CASE call.active # NoKey /\ call.op \in {"register", "update"}
      <5>1. registry[call.active].status = "active" /\ registry[call.key].status = "none"
        BY <1>2, <2>8, <4>2 DEF PlActive
      <5> QED BY <5>1
    <4> QED BY <2>8, <2>10, <4>1, <4>2
    <3>2. registry' = RegisterRows(call.key, call.active) \/ registry' = ActivateRows(call.key, call.active)
      BY <1>4, <2>10, <3>1 DEF PlugRows
    <3>3. call.active \in Keys \union {NoKey}
      BY <1>1 DEF PlRequests
    <3>4. /\ registry' \in [Keys -> PlRecords]
          /\ registry'[call.key].status = "active" /\ registry'[call.key].super = NoKey
          /\ call.active # NoKey => registry'[call.active].status = "archived" /\ registry'[call.active].super = call.key
          /\ \A k \in Keys : k # call.key /\ k # call.active => registry'[k] = registry[k]
      BY <1>1, <3>1, <3>2, <3>3, PlRowsWritten
    <3>5. withdrawn' = withdrawn \ {call.key[1]}
      BY <1>4, <2>10
    <3>6. PlUnlinked' /\ PlChain' /\ PlServed'
      BY <1>1, <1>2, <3>1, <3>3, <3>4, <3>5, PlActivates
    <3>7. \A k \in Keys : PlActive(k) /\ registry'[k].status # "active" => rowLock[k] = c
      BY <1>2, <3>4, PlNoKey DEF PlActive
    <3> QED BY <1>1, <1>4, <2>3, <2>5, <2>6, <2>7, <2>9, <3>4, <3>6, <3>7, PlWrites
  <2>11. CASE call.op = "activate" /\ call.key = call.active
    <3>1. registry' = registry
      BY <1>4, <2>11 DEF PlugRows
    <3>2. withdrawn' = withdrawn \ {call.key[1]} /\ PlActive(call.key)
      BY <1>1, <1>2, <1>4, <2>11, PlNoKey
    <3>3. PlUnlinked' /\ PlChain'
      BY <3>1 DEF PlInv, PlUnlinked, PlChain
    <3>4. PlServed'
      <4> SUFFICES ASSUME NEW k \in Keys, registry[k].status # "none", k[1] \notin withdrawn'
                   PROVE  \E l \in Keys : l[1] = k[1] /\ PlActive(l)
        BY <3>1 DEF PlServed, PlActive
      <4>1. CASE k[1] = call.key[1]
        BY <4>1, <3>2, <1>1
      <4>2. CASE k[1] # call.key[1]
        BY <4>2, <3>2 DEF PlInv, PlServed
      <4> QED BY <4>1, <4>2
    <3>5. registry' \in [Keys -> PlRecords]
      BY <1>1, <3>1 DEF PlTypes
    <3>6. \A k \in Keys : PlActive(k) /\ registry'[k].status # "active" => rowLock[k] = c
      BY <3>1 DEF PlActive
    <3> QED BY <1>1, <1>4, <2>3, <2>5, <2>6, <2>7, <2>9, <3>3, <3>4, <3>5, <3>6, PlWrites
  <2>12. CASE call.op \in {"disable", "archive"}
    <3>1. PICK s \in {"disabled", "archived"} : registry' = [registry EXCEPT ![call.active].status = s]
      BY <1>4, <2>12 DEF PlugRows, setStatus
    <3>2. s \in PlStatuses
      BY DEF PlStatuses
    <3>3. withdrawn' = withdrawn \union {call.key[1]}
      BY <1>4, <2>12
    <3>4. /\ registry' \in [Keys -> PlRecords]
          /\ \A k \in Keys : k # call.active => registry'[k] = registry[k]
          /\ call.active # NoKey => registry'[call.active].status = s /\ registry'[call.active].super = registry[call.active].super
      <4>1. CASE call.active = NoKey
        <5>1. registry' = registry
          BY <1>1, <3>1, <4>1, PlNoKey DEF PlTypes
        <5> QED BY <4>1, <5>1, <1>1 DEF PlTypes
      <4>2. CASE call.active # NoKey
        <5>1. PICK r : r = [registry[call.active] EXCEPT !.status = s]
          OBVIOUS
        <5>2. r \in PlRecords /\ r.status = s /\ r.super = registry[call.active].super
          BY <1>1, <1>2, <3>2, <4>2, <5>1 DEF PlTypes, PlRecords
        <5>3. registry' = [registry EXCEPT ![call.active] = r]
          BY <1>1, <3>1, <5>1 DEF PlTypes
        <5> QED BY <1>1, <1>2, <4>2, <5>2, <5>3 DEF PlTypes
      <4> QED BY <4>1, <4>2
    <3>5. PlUnlinked'
      BY <3>4, PlNoKey DEF PlInv, PlUnlinked
    <3>6. PlChain'
      <4>1. {k \in Keys : registry'[k].super # NoKey} = {k \in Keys : registry[k].super # NoKey}
            /\ \A k \in Keys : registry'[k].super = registry[k].super
        BY <3>4, PlNoKey
      <4> QED BY <4>1 DEF PlInv, PlChain
    <3>7. PlServed'
      <4> SUFFICES ASSUME NEW k \in Keys, registry'[k].status # "none", k[1] \notin withdrawn'
                   PROVE  \E l \in Keys : l[1] = k[1] /\ registry'[l].status = "active"
        BY DEF PlServed, PlActive
      <4>1. k[1] # call.key[1] /\ k[1] \notin withdrawn
        BY <3>3
      <4>2. k # call.active
        BY <4>1, <1>2, PlNoKey
      <4>3. PICK l \in Keys : l[1] = k[1] /\ PlActive(l)
        BY <4>1, <4>2, <3>4 DEF PlInv, PlServed
      <4>4. l # call.active
        BY <4>1, <4>3, <1>2, PlNoKey
      <4> QED BY <4>3, <4>4, <3>4 DEF PlActive
    <3>8. \A k \in Keys : PlActive(k) /\ registry'[k].status # "active" => rowLock[k] = c
      BY <1>2, <3>4, PlNoKey DEF PlActive
    <3> QED BY <1>1, <1>4, <2>3, <2>5, <2>6, <2>7, <2>9, <3>4, <3>5, <3>6, <3>7, <3>8, PlWrites
  <2> QED BY <1>1, <2>10, <2>11, <2>12 DEF PlugOps
<1>5. "conflict" \in PlAnswers /\ "error" \in PlAnswers /\ PlugRefusal(call) \in PlAnswers
  BY DEF PlAnswers, PlugRefusal
<1> QED BY <1>3, <1>4, <1>5 DEF PlugCommit

(* No row is published twice, and the invariant holds at every step.       *)
LEMMA PlStep ==
  ASSUME PlInv, [PlugNext]_plugVars
  PROVE  /\ PlInv'
         /\ \A c \in PlugCalls : pcall[c].op \in {"register", "update"} /\ ~pcall[c].changed /\ pcall'[c].changed
              => registry[pcall[c].key] = NoRow
<1>1. CASE UNCHANGED plugVars
  BY <1>1 DEF plugVars, PlInv, PlTypes, PlHeld, PlOne, PlUnlinked, PlChain, PlServed, PlActive, PlCall
<1>2. ASSUME NEW c \in PlugCalls,
             \/ \E op \in PlugOps, key \in Keys, ok \in BOOLEAN : PlugRequest(c, op, key, ok)
             \/ PlugLook(c) \/ PlugSelect(c) \/ PlugAwaited(c) \/ PlugAudit(c)
      PROVE  /\ PlInv'
             /\ \A d \in PlugCalls : ~pcall[d].changed => ~pcall'[d].changed
  <2>1. PlInv'
    BY <1>2, PlRequested, PlLooks, PlSelects, PlAwaits, PlAudits
  <2>2. pcall[c] \in PlRequests /\ \A d \in PlugCalls : d # c => pcall'[d] = pcall[d]
    <3>1. pcall \in [PlugCalls -> PlRequests]
      BY DEF PlInv, PlTypes
    <3>2. CASE \E op \in PlugOps, key \in Keys, ok \in BOOLEAN : PlugRequest(c, op, key, ok)
      <4>1. PICK op \in PlugOps, key \in Keys, ok \in BOOLEAN : PlugRequest(c, op, key, ok)
        BY <3>2
      <4>2. \E pc, answer : pcall' = [pcall EXCEPT ![c].op = op, ![c].key = key, ![c].changed = FALSE,
                                               ![c].pc = pc, ![c].answer = answer]
        BY <4>1 DEF PlugRequest
      <4> QED BY <3>1, <4>2
    <3>3. CASE PlugLook(c)
      BY <3>1, <3>3 DEF PlugLook, PlugEnd
    <3>4. CASE PlugSelect(c)
      BY <3>1, <3>4 DEF PlugSelect, PlugEnd, PlugNoneActive
    <3>5. CASE PlugAwaited(c)
      BY <3>1, <3>5 DEF PlugAwaited, PlugEnd, PlugNoneActive
    <3>6. CASE PlugAudit(c)
      BY <3>1, <3>6 DEF PlugAudit, PlugEnd
    <3> QED BY <1>2, <3>1, <3>2, <3>3, <3>4, <3>5, <3>6
  <2>3. ~pcall[c].changed => ~pcall'[c].changed
    <3>1. PlTypes /\ pcall[c] \in PlRequests
      BY DEF PlInv, PlTypes
    <3>2. CASE \E op \in PlugOps, key \in Keys, ok \in BOOLEAN : PlugRequest(c, op, key, ok)
      <4>0. PICK op, key, ok : PlugRequest(c, op, key, ok)
        BY <3>2
      <4>p. PICK p : p = IF parseRegistryManifest(c, op, ok) THEN "done" ELSE "look"
        OBVIOUS
      <4>a. PICK a : a = IF parseRegistryManifest(c, op, ok) THEN "invalid" ELSE ""
        OBVIOUS
      <4>1. pcall' = [pcall EXCEPT ![c].op = op, ![c].key = key, ![c].changed = FALSE, ![c].pc = p, ![c].answer = a]
        BY <4>0, <4>p, <4>a DEF PlugRequest
      <4>2. pcall'[c] = [pcall[c] EXCEPT !.op = op, !.key = key, !.changed = FALSE, !.pc = p, !.answer = a]
        BY <3>1, <4>1 DEF PlTypes
      <4> QED BY <3>1, <4>2 DEF PlRequests
    <3>3. CASE \E a : PlugEnd(c, a)
      BY <3>1, <3>3, PlEndKeeps
    <3>4. CASE \E p : pcall' = [pcall EXCEPT ![c].pc = p]
      <4>1. PICK p : pcall'[c] = [pcall[c] EXCEPT !.pc = p]
        BY <3>1, <3>4 DEF PlTypes
      <4> QED BY <3>1, <4>1 DEF PlRequests
    <3>5. CASE \E p, k : pcall' = [pcall EXCEPT ![c].pc = p, ![c].active = k]
      <4>0. PICK p, k : pcall' = [pcall EXCEPT ![c].pc = p, ![c].active = k]
        BY <3>5
      <4>1. pcall'[c] = [pcall[c] EXCEPT !.pc = p, !.active = k]
        BY <3>1, <4>0 DEF PlTypes
      <4> QED BY <3>1, <4>1 DEF PlRequests
    <3>6. CASE \E p, k : pcall' = [pcall EXCEPT ![c].active = k, ![c].pc = p]
      <4>0. PICK p, k : pcall' = [pcall EXCEPT ![c].active = k, ![c].pc = p]
        BY <3>6
      <4>1. pcall'[c] = [pcall[c] EXCEPT !.active = k, !.pc = p]
        BY <3>1, <4>0 DEF PlTypes
      <4> QED BY <3>1, <4>1 DEF PlRequests
    <3>7. PlugLook(c) => (\E a : PlugEnd(c, a)) \/ (\E p : pcall' = [pcall EXCEPT ![c].pc = p])
      BY DEF PlugLook
    <3>8. PlugNoneActive(c) => (\E a : PlugEnd(c, a)) \/ (\E p, k : pcall' = [pcall EXCEPT ![c].pc = p, ![c].active = k])
      BY DEF PlugNoneActive
    <3>9. PlugSelect(c) => PlugNoneActive(c) \/ (\E p, k : pcall' = [pcall EXCEPT ![c].active = k, ![c].pc = p])
      BY DEF PlugSelect
    <3>10. PlugAwaited(c) => PlugNoneActive(c) \/ (\E p : pcall' = [pcall EXCEPT ![c].pc = p])
      BY DEF PlugAwaited
    <3>11. PlugAudit(c) => \E a : PlugEnd(c, a)
      BY DEF PlugAudit
    <3> QED BY <1>2, <3>2, <3>3, <3>4, <3>5, <3>6, <3>7, <3>8, <3>9, <3>10, <3>11
  <2> QED BY <2>1, <2>2, <2>3
<1>3. ASSUME NEW c \in PlugCalls, PlugCommit(c)
      PROVE  /\ PlInv'
             /\ \A d \in PlugCalls : pcall[d].op \in {"register", "update"} /\ ~pcall[d].changed /\ pcall'[d].changed
                  => registry[pcall[d].key] = NoRow
  <2>1. \A d \in PlugCalls : d # c => pcall'[d] = pcall[d]
    BY <1>3 DEF PlInv, PlTypes, PlugCommit, PlugEnd
  <2> QED BY <1>3, <2>1, PlCommits
<1> QED BY <1>1, <1>2, <1>3 DEF PlugNext, plugVars

LEMMA PlSound ==
  ASSUME PlInv
  PROVE  PlugTypeOK /\ ServedUntilWithdrawn /\ ChainEnds
<1>1. PlugTypeOK
  BY DEF PlInv, PlTypes, PlugTypeOK, PlRecords, PlStatuses, PlRequests, PlPcs
<1>2. ServedUntilWithdrawn
  <2> SUFFICES ASSUME NEW n \in PlugNames, NEW v \in PlugVersions, registry[<<n, v>>].status # "none", n \notin withdrawn
               PROVE  PlugActive(n) # {}
    BY DEF ServedUntilWithdrawn
  <2>1. <<n, v>> \in Keys /\ <<n, v>>[1] = n
    BY DEF Keys
  <2>2. PICK l \in Keys : l[1] = n /\ PlActive(l)
    BY <2>1 DEF PlInv, PlServed
  <2> QED BY <2>2 DEF PlugActive, PlActive
<1>3. ChainEnds
  BY DEF PlInv, PlUnlinked, PlChain, ChainEnds
<1> QED BY <1>1, <1>2, <1>3

\* A registered plugin has an active version until it is withdrawn, and what
\* superseded a version ends at one that nothing superseded.
THEOREM RegistrySound == PlugSpec => [](PlugTypeOK /\ ServedUntilWithdrawn /\ ChainEnds)
<1>1. PlInv => PlugTypeOK /\ ServedUntilWithdrawn /\ ChainEnds
  BY PlSound
<1>2. PlInv /\ [PlugNext]_plugVars => PlInv'
  BY PlStep
<1> QED BY PlInit, <1>1, <1>2, PTL DEF PlugSpec

\* Register and Update write a row that was free, whoever else publishes.
THEOREM RegistryPublishedOnce == PlugSpec => PublishedOnce
<1>1. PlInv /\ [PlugNext]_plugVars => PlInv'
  BY PlStep
<1>2. PlInv /\ [PlugNext]_plugVars =>
        [\A c \in PlugCalls : pcall[c].op \in {"register", "update"} /\ ~pcall[c].changed /\ pcall'[c].changed
            => registry[pcall[c].key] = NoRow]_plugVars
  BY PlStep
<1> QED BY PlInit, <1>1, <1>2, PTL DEF PlugSpec, PublishedOnce

-----------------------------------------------------------------------------
(* The plugin sandbox *)

SbInstances == [status : {"none", "active", "paused"}, granted : SUBSET DeclaredPermissions]
SbGates == [at : {"outside", "install", "quota"}, profile : Profiles \union {""}, granted : SUBSET DeclaredPermissions]

SbTypes ==
  /\ inst \in [Profiles -> SbInstances] /\ gate \in [SandCalls -> SbGates]
  /\ (\A c \in SandCalls : gate[c].at # "outside" => gate[c].profile \in Profiles)
  /\ admitted \in [Profiles -> Seq(Nat)] /\ ever \in [Profiles -> Seq(Nat)]
  /\ tick \in 0 .. MaxTicks

(* The limiter has forgotten a front part of the calls it let through, which *)
(* is as old as the window.                                                *)
SbForgotten(s, r, k) ==
  /\ k \in Nat /\ Len(s) = k + Len(r)
  /\ \A i \in Nat : 1 <= i /\ i <= Len(r) => r[i] = s[k + i]
  /\ \A i \in Nat : 1 <= i /\ i <= k => s[i] + QuotaWindow <= tick

SbRemembers == \A p \in Profiles : \E k \in Nat : SbForgotten(ever[p], admitted[p], k)

SbInv == SbTypes /\ SbRemembers /\ QuotaHolds /\ InstallsCounted

LEMMA SbInit == SandInit => SbInv
<1> SUFFICES ASSUME SandInit PROVE SbInv
  OBVIOUS
<1>1. Outside \in SbGates /\ Outside.at = "outside"
  BY DEF Outside, SbGates
<1>2. \A p \in Profiles : inst[p] = [status |-> "none", granted |-> {}]
  BY DEF SandInit
<1>3. inst \in [Profiles -> SbInstances]
  <2>1. [status |-> "none", granted |-> {}] \in SbInstances
    BY DEF SbInstances
  <2> QED BY <2>1 DEF SandInit
<1>4. /\ <<>> \in Seq(Nat) /\ Len(<<>>) = 0 /\ tick = 0 /\ 0 \in 0 .. MaxTicks
      /\ \A p \in Profiles : ever[p] = <<>> /\ admitted[p] = <<>>
  BY SandboxAssumption DEF SandInit
<1>5. SbTypes
  BY <1>1, <1>3, <1>4 DEF SandInit, SbTypes
<1>6. SbForgotten(<<>>, <<>>, 0)
  BY DEF SbForgotten
<1>7. SbRemembers
  BY <1>4, <1>6 DEF SbRemembers
<1>8. QuotaHolds
  BY <1>4 DEF QuotaHolds
<1>9. InstallsCounted
  <2>1. {p \in Profiles : inst[p].status # "none"} = {}
    BY <1>2
  <2> QED BY <2>1, FS_EmptySet DEF InstallsCounted, SandInit
<1> QED BY <1>5, <1>7, <1>8, <1>9 DEF SbInv

(* Dropping what is old from the front.                                    *)
LEMMA SbRecent ==
  ASSUME NEW s \in Seq(Nat), NEW r \in Seq(Nat), NEW k \in Nat, SbForgotten(s, r, k), tick \in Nat
  PROVE  /\ Recent(r) \in Seq(Nat)
         /\ \E l \in Nat : SbForgotten(s, Recent(r), l)
<1> DEFINE F == {i \in 0 .. Len(r) : \A j \in 1 .. i : r[j] + QuotaWindow <= tick}
<1>0. Len(r) \in Nat /\ Len(s) \in Nat /\ Len(s) = k + Len(r)
  BY DEF SbForgotten
<1>1. F \subseteq -1 .. Len(r) /\ 0 \in F
  BY <1>0
<1>2. PICK f : f = Max(F)
  OBVIOUS
<1>3. f \in F
  BY <1>0, <1>1, <1>2, GrLargest
<1>4. f \in Nat /\ f <= Len(r) /\ \A j \in 1 .. f : r[j] + QuotaWindow <= tick
  BY <1>0, <1>3
<1>5. Recent(r) = SubSeq(r, f + 1, Len(r))
  BY <1>2 DEF Recent
<1> HIDE DEF F
<1>6. PICK q : q = Recent(r)
  OBVIOUS
<1>7. q \in Seq(Nat) /\ Len(q) = Len(r) - f /\ \A i \in 1 .. Len(r) - f : q[i] = r[f + i]
  <2>1. \A i \in (f + 1) .. Len(r) : r[i] \in Nat
    <3>1. \A i \in 1 .. Len(r) : r[i] \in Nat
      OBVIOUS
    <3> QED BY <1>0, <1>4, <3>1
  <2>2. /\ SubSeq(r, f + 1, Len(r)) \in Seq(Nat)
        /\ Len(SubSeq(r, f + 1, Len(r))) = IF f + 1 <= Len(r) THEN Len(r) - (f + 1) + 1 ELSE 0
        /\ \A i \in 1 .. Len(r) - (f + 1) + 1 : SubSeq(r, f + 1, Len(r))[i] = r[(f + 1) + i - 1]
    BY <1>0, <1>4, <2>1, SubSeqProperties
  <2>3. /\ q \in Seq(Nat) /\ Len(q) = IF f + 1 <= Len(r) THEN Len(r) - (f + 1) + 1 ELSE 0
        /\ \A i \in 1 .. Len(r) - (f + 1) + 1 : q[i] = r[(f + 1) + i - 1]
    BY <1>5, <1>6, <2>2
  <2>4. Len(q) = Len(r) - f
    BY <1>0, <1>4, <2>3
  <2>5. ASSUME NEW i \in 1 .. Len(r) - f PROVE q[i] = r[f + i]
    <3>1. i \in 1 .. Len(r) - (f + 1) + 1 /\ (f + 1) + i - 1 = f + i
      BY <1>0, <1>4
    <3> QED BY <2>3, <3>1
  <2> QED BY <2>3, <2>4, <2>5
<1>8. SbForgotten(s, q, k + f)
  <2>1. k + f \in Nat /\ Len(s) = (k + f) + Len(q)
    BY <1>0, <1>4, <1>7
  <2>2. \A i \in Nat : 1 <= i /\ i <= Len(q) => q[i] = s[(k + f) + i]
    <3> SUFFICES ASSUME NEW i \in Nat, 1 <= i, i <= Len(q) PROVE q[i] = s[(k + f) + i]
      OBVIOUS
    <3>1. q[i] = r[f + i]
      BY <1>0, <1>4, <1>7
    <3>2. r[f + i] = s[k + (f + i)]
      BY <1>0, <1>4, <1>7 DEF SbForgotten
    <3>3. k + (f + i) = (k + f) + i
      BY <1>4
    <3> QED BY <3>1, <3>2, <3>3
  <2>3. \A i \in Nat : 1 <= i /\ i <= k + f => s[i] + QuotaWindow <= tick
    <3> SUFFICES ASSUME NEW i \in Nat, 1 <= i, i <= k + f PROVE s[i] + QuotaWindow <= tick
      OBVIOUS
    <3>1. CASE i <= k
      BY <3>1 DEF SbForgotten
    <3>2. CASE i > k
      <4>1. PICK j \in Nat : i = k + j /\ 1 <= j /\ j <= f
        <5>1. i - k \in Nat /\ i = k + (i - k) /\ 1 <= i - k /\ i - k <= f
          BY <3>2, <1>4
        <5> QED BY <5>1
      <4>2. r[j] = s[k + j]
        BY <1>0, <1>4, <4>1 DEF SbForgotten
      <4> QED BY <1>4, <4>1, <4>2
    <3> QED BY <3>1, <3>2
  <2> QED BY <2>1, <2>2, <2>3 DEF SbForgotten
<1> QED BY <1>4, <1>6, <1>7, <1>8

(* A call that the limiter lets through.                                   *)
LEMMA SbAllowed ==
  ASSUME NEW s \in Seq(Nat), NEW r \in Seq(Nat), NEW k \in Nat, SbForgotten(s, r, k), tick \in Nat,
         Len(r) < QuotaLimit,
         \A i \in DOMAIN s : i + QuotaLimit \in DOMAIN s => s[i + QuotaLimit] >= s[i] + QuotaWindow
  PROVE  /\ Append(s, tick) \in Seq(Nat) /\ Append(r, tick) \in Seq(Nat)
         /\ SbForgotten(Append(s, tick), Append(r, tick), k)
         /\ \A i \in DOMAIN Append(s, tick) : i + QuotaLimit \in DOMAIN Append(s, tick) =>
              Append(s, tick)[i + QuotaLimit] >= Append(s, tick)[i] + QuotaWindow
<1>0. Len(r) \in Nat /\ Len(s) \in Nat /\ Len(s) = k + Len(r) /\ QuotaLimit \in Nat /\ QuotaWindow \in Nat
  BY SandboxAssumption DEF SbForgotten
<1>1. PICK t : t = Append(s, tick)
  OBVIOUS
<1>2. t \in Seq(Nat) /\ Len(t) = Len(s) + 1 /\ t[Len(s) + 1] = tick /\ \A i \in 1 .. Len(s) : t[i] = s[i]
  BY <1>1
<1>3. PICK q : q = Append(r, tick)
  OBVIOUS
<1>4. q \in Seq(Nat) /\ Len(q) = Len(r) + 1 /\ q[Len(r) + 1] = tick /\ \A i \in 1 .. Len(r) : q[i] = r[i]
  BY <1>3
<1>5. SbForgotten(t, q, k)
  <2>1. Len(t) = k + Len(q)
    BY <1>0, <1>2, <1>4
  <2>2. \A i \in Nat : 1 <= i /\ i <= Len(q) => q[i] = t[k + i]
    <3> SUFFICES ASSUME NEW i \in Nat, 1 <= i, i <= Len(q) PROVE q[i] = t[k + i]
      OBVIOUS
    <3>1. CASE i = Len(r) + 1
      <4>1. k + i = Len(s) + 1
        BY <1>0, <3>1
      <4> QED BY <1>2, <1>4, <3>1, <4>1
    <3>2. CASE i <= Len(r)
      <4>1. r[i] = s[k + i] /\ k + i \in 1 .. Len(s) /\ i \in 1 .. Len(r)
        BY <1>0, <3>2 DEF SbForgotten
      <4> QED BY <1>2, <1>4, <4>1
    <3> QED BY <1>0, <1>4, <3>1, <3>2
  <2>3. \A i \in Nat : 1 <= i /\ i <= k => t[i] + QuotaWindow <= tick
    BY <1>0, <1>2 DEF SbForgotten
  <2> QED BY <2>1, <2>2, <2>3 DEF SbForgotten
<1>6. ASSUME NEW i \in DOMAIN t, i + QuotaLimit \in DOMAIN t
      PROVE  t[i + QuotaLimit] >= t[i] + QuotaWindow
  <2>1. i \in Nat /\ 1 <= i /\ i + QuotaLimit <= Len(s) + 1
    BY <1>0, <1>2, <1>6
  <2>2. CASE i + QuotaLimit <= Len(s)
    <3>1. i \in 1 .. Len(s) /\ i + QuotaLimit \in 1 .. Len(s) /\ DOMAIN s = 1 .. Len(s)
      BY <1>0, <2>1, <2>2
    <3>2. s[i + QuotaLimit] >= s[i] + QuotaWindow
      BY <3>1
    <3> QED BY <3>1, <3>2, <1>2
  <2>3. CASE i + QuotaLimit = Len(s) + 1
    <3>1. i <= k /\ i \in 1 .. Len(s)
      BY <1>0, <2>1, <2>3
    <3>2. s[i] + QuotaWindow <= tick
      BY <2>1, <3>1 DEF SbForgotten
    <3>3. t[i] = s[i] /\ s[i] \in Nat
      BY <1>2, <3>1
    <3>4. t[i + QuotaLimit] = tick
      BY <1>2, <2>3
    <3>5. PICK x : x = s[i]
      OBVIOUS
    <3>6. tick >= x + QuotaWindow
      BY <1>0, <3>2, <3>3, <3>5
    <3> QED BY <3>3, <3>4, <3>5, <3>6
  <2>4. i + QuotaLimit <= Len(s) \/ i + QuotaLimit = Len(s) + 1
    <3>1. \A x, n \in Nat : x <= n + 1 => x <= n \/ x = n + 1
      OBVIOUS
    <3>2. i + QuotaLimit \in Nat /\ Len(s) \in Nat
      BY <1>0, <2>1
    <3> QED BY <2>1, <3>1, <3>2
  <2> QED BY <2>2, <2>3, <2>4
<1> QED BY <1>1, <1>2, <1>3, <1>4, <1>5, <1>6

LEMMA SbGate ==
  ASSUME NEW at \in {"install", "quota"}, NEW p \in Profiles, NEW g \in SUBSET DeclaredPermissions
  PROVE  LET r == [at |-> at, profile |-> p, granted |-> g]
         IN  r \in SbGates /\ r.at = at /\ r.profile = p
  BY DEF SbGates

(* Steps that touch neither the instances nor the limiter.                 *)
LEMMA SbQuiet ==
  ASSUME SbInv, NEW c \in SandCalls, NEW r \in SbGates, gate' = [gate EXCEPT ![c] = r],
         r.at # "outside" => r.profile \in Profiles,
         UNCHANGED <<inst, installCount, admitted, ever, tick>>
  PROVE  SbInv'
<1>1. SbTypes'
  BY DEF SbInv, SbTypes
<1>2. SbRemembers' /\ QuotaHolds' /\ InstallsCounted'
  BY DEF SbInv, SbRemembers, SbForgotten, QuotaHolds, InstallsCounted
<1> QED BY <1>1, <1>2 DEF SbInv

LEMMA SbInstalls ==
  ASSUME SbInv, NEW c \in SandCalls, Install(c)
  PROVE  SbInv'
<1> DEFINE p == gate[c].profile
           Has == {q \in Profiles : inst[q].status # "none"}
<1>0. Outside \in SbGates /\ Outside.at = "outside"
  BY DEF Outside, SbGates
<1>1. CASE UNCHANGED <<inst, installCount>>
  BY <1>0, <1>1, SbQuiet DEF Install
<1>2. CASE /\ inst[p].status = "none"
           /\ inst' = [inst EXCEPT ![p] = [status |-> "active", granted |-> gate[c].granted]] /\ installCount' = installCount + 1
  <2>1. SbTypes /\ gate[c] \in SbGates /\ p \in Profiles /\ gate[c].granted \in SUBSET DeclaredPermissions
    BY DEF SbInv, SbTypes, Install, SbGates
  <2>2. PICK r : r = [status |-> "active", granted |-> gate[c].granted]
    OBVIOUS
  <2>3. r \in SbInstances /\ r.status = "active"
    BY <2>1, <2>2 DEF SbInstances
  <2> HIDE DEF p
  <2>4. inst' \in [Profiles -> SbInstances] /\ inst'[p] = r /\ \A q \in Profiles : q # p => inst'[q] = inst[q]
    BY <1>2, <2>1, <2>2, <2>3 DEF SbTypes
  <2>5. SbTypes'
    BY <1>0, <2>1, <2>4 DEF SbTypes, Install
  <2>6. {q \in Profiles : inst'[q].status # "none"} = Has \union {p} /\ p \notin Has
    BY <1>2, <2>1, <2>3, <2>4
  <2>7. IsFiniteSet(Has)
    BY SandboxAssumption, FS_Subset
  <2> HIDE DEF Has
  <2>8. Cardinality(Has \union {p}) = Cardinality(Has) + 1
    BY <2>6, <2>7, FS_AddElement
  <2>9. InstallsCounted'
    BY <1>2, <2>6, <2>8 DEF SbInv, InstallsCounted, Has
  <2>10. SbRemembers' /\ QuotaHolds'
    BY DEF SbInv, SbRemembers, SbForgotten, QuotaHolds, Install
  <2> QED BY <2>5, <2>9, <2>10 DEF SbInv
<1> QED BY <1>1, <1>2 DEF Install

LEMMA SbStatus ==
  ASSUME SbInv, NEW p \in Profiles, NEW status \in {"active", "paused"}, UpdateInstanceStatus(p, status)
  PROVE  SbInv'
<1>1. SbTypes /\ inst[p] \in SbInstances /\ inst[p].status # "none"
  BY DEF SbInv, SbTypes, UpdateInstanceStatus
<1>2. PICK r : r = [inst[p] EXCEPT !.status = status]
  OBVIOUS
<1>3. r \in SbInstances /\ r.status = status
  BY <1>1, <1>2 DEF SbInstances
<1>4. inst' = [inst EXCEPT ![p] = r]
  BY <1>1, <1>2 DEF UpdateInstanceStatus, SbTypes
<1>5. inst' \in [Profiles -> SbInstances] /\ inst'[p] = r /\ \A q \in Profiles : q # p => inst'[q] = inst[q]
  BY <1>1, <1>3, <1>4 DEF SbTypes
<1>6. SbTypes'
  BY <1>1, <1>5 DEF SbTypes, UpdateInstanceStatus
<1>7. {q \in Profiles : inst'[q].status # "none"} = {q \in Profiles : inst[q].status # "none"}
  BY <1>1, <1>3, <1>5
<1>8. InstallsCounted'
  BY <1>7 DEF SbInv, InstallsCounted, UpdateInstanceStatus
<1>9. SbRemembers' /\ QuotaHolds'
  BY DEF SbInv, SbRemembers, SbForgotten, QuotaHolds, UpdateInstanceStatus
<1> QED BY <1>6, <1>8, <1>9 DEF SbInv

LEMMA SbAllows ==
  ASSUME SbInv, NEW c \in SandCalls, Allow(c)
  PROVE  SbInv'
<1>0. Outside \in SbGates /\ Outside.at = "outside"
  BY DEF Outside, SbGates
<1>1. PICK p : p = gate[c].profile
  OBVIOUS
<1>2. /\ SbTypes /\ p \in Profiles /\ tick \in Nat /\ ever[p] \in Seq(Nat) /\ admitted[p] \in Seq(Nat)
      /\ UNCHANGED <<inst, installCount, tick>> /\ gate' = [gate EXCEPT ![c] = Outside]
      /\ admitted' = [admitted EXCEPT ![p] = IF QuotaAllows(p) THEN Append(Recent(@), tick) ELSE Recent(@)]
      /\ ever' = [ever EXCEPT ![p] = IF QuotaAllows(p) THEN Append(@, tick) ELSE @]
  BY <1>1, SandboxAssumption DEF SbInv, SbTypes, Allow
<1>3. PICK r : r = Recent(admitted[p])
  OBVIOUS
<1>4. PICK k \in Nat : SbForgotten(ever[p], admitted[p], k)
  BY <1>2 DEF SbInv, SbRemembers
<1>5. r \in Seq(Nat) /\ \E l \in Nat : SbForgotten(ever[p], r, l)
  BY <1>2, <1>3, <1>4, SbRecent
<1>6. PICK l \in Nat : SbForgotten(ever[p], r, l)
  BY <1>5
<1>7. PICK e, a : /\ e = (IF QuotaAllows(p) THEN Append(ever[p], tick) ELSE ever[p])
                  /\ a = (IF QuotaAllows(p) THEN Append(r, tick) ELSE r)
  OBVIOUS
<1>8. /\ e \in Seq(Nat) /\ a \in Seq(Nat) /\ SbForgotten(e, a, l)
      /\ \A i \in DOMAIN e : i + QuotaLimit \in DOMAIN e => e[i + QuotaLimit] >= e[i] + QuotaWindow
  <2>1. \A i \in DOMAIN ever[p] : i + QuotaLimit \in DOMAIN ever[p] => ever[p][i + QuotaLimit] >= ever[p][i] + QuotaWindow
    BY <1>2 DEF SbInv, QuotaHolds
  <2>2. CASE ~ QuotaAllows(p)
    BY <1>2, <1>5, <1>6, <1>7, <2>1, <2>2
  <2>3. CASE QuotaAllows(p)
    <3>1. Len(r) < QuotaLimit
      BY <1>3, <2>3 DEF QuotaAllows
    <3>2. e = Append(ever[p], tick) /\ a = Append(r, tick)
      BY <1>7, <2>3
    <3>3. PICK s : s = ever[p]
      OBVIOUS
    <3>4. s \in Seq(Nat) /\ SbForgotten(s, r, l)
          /\ \A i \in DOMAIN s : i + QuotaLimit \in DOMAIN s => s[i + QuotaLimit] >= s[i] + QuotaWindow
      BY <1>2, <1>6, <2>1, <3>3
    <3>5. /\ Append(s, tick) \in Seq(Nat) /\ Append(r, tick) \in Seq(Nat)
          /\ SbForgotten(Append(s, tick), Append(r, tick), l)
          /\ \A i \in DOMAIN Append(s, tick) : i + QuotaLimit \in DOMAIN Append(s, tick) =>
               Append(s, tick)[i + QuotaLimit] >= Append(s, tick)[i] + QuotaWindow
      BY <1>2, <1>5, <3>1, <3>4, SbAllowed
    <3> QED BY <3>2, <3>3, <3>5
  <2> QED BY <2>2, <2>3
<1>9. /\ ever' \in [Profiles -> Seq(Nat)] /\ ever'[p] = e /\ \A q \in Profiles : q # p => ever'[q] = ever[q]
      /\ admitted' \in [Profiles -> Seq(Nat)] /\ admitted'[p] = a /\ \A q \in Profiles : q # p => admitted'[q] = admitted[q]
  <2>1. ever' = [ever EXCEPT ![p] = e]
    BY <1>2, <1>7 DEF SbTypes
  <2>2. admitted' = [admitted EXCEPT ![p] = a]
    BY <1>2, <1>3, <1>7 DEF SbTypes
  <2>3. ever \in [Profiles -> Seq(Nat)] /\ admitted \in [Profiles -> Seq(Nat)] /\ p \in Profiles
    BY <1>2 DEF SbTypes
  <2>4. ever' \in [Profiles -> Seq(Nat)] /\ ever'[p] = e /\ \A q \in Profiles : q # p => ever'[q] = ever[q]
    BY <1>8, <2>1, <2>3
  <2>5. admitted' \in [Profiles -> Seq(Nat)] /\ admitted'[p] = a /\ \A q \in Profiles : q # p => admitted'[q] = admitted[q]
    BY <1>8, <2>2, <2>3
  <2> QED BY <2>4, <2>5
<1>10. SbTypes'
  BY <1>0, <1>2, <1>9 DEF SbTypes
<1>11. SbRemembers'
  <2> SUFFICES ASSUME NEW q \in Profiles PROVE \E m \in Nat : SbForgotten(ever[q], admitted[q], m)'
    BY DEF SbRemembers
  <2>1. PICK s, t : s = ever'[q] /\ t = admitted'[q]
    OBVIOUS
  <2>2. \E m \in Nat : SbForgotten(s, t, m)
    <3>1. CASE q = p
      BY <1>8, <1>9, <2>1, <3>1
    <3>2. CASE q # p
      BY <1>9, <2>1, <3>2 DEF SbInv, SbRemembers
    <3> QED BY <3>1, <3>2
  <2>3. PICK m \in Nat : SbForgotten(s, t, m)
    BY <2>2
  <2>4. SbForgotten(ever[q], admitted[q], m)'
    BY <1>2, <2>1, <2>3 DEF SbForgotten
  <2> QED BY <2>4
<1>12. QuotaHolds'
  <2> SUFFICES ASSUME NEW q \in Profiles
               PROVE  \A i \in DOMAIN ever'[q] : i + QuotaLimit \in DOMAIN ever'[q] =>
                        ever'[q][i + QuotaLimit] >= ever'[q][i] + QuotaWindow
    BY DEF QuotaHolds
  <2>1. CASE q = p
    BY <1>8, <1>9, <2>1
  <2>2. CASE q # p
    BY <1>9, <2>2 DEF SbInv, QuotaHolds
  <2> QED BY <2>1, <2>2
<1>13. InstallsCounted'
  BY <1>2 DEF SbInv, InstallsCounted
<1> QED BY <1>10, <1>11, <1>12, <1>13 DEF SbInv

LEMMA SbTick ==
  ASSUME SbInv, Tick
  PROVE  SbInv'
<1>1. tick \in Nat /\ tick' = tick + 1 /\ tick' \in 0 .. MaxTicks /\ QuotaWindow \in Nat
      /\ UNCHANGED <<inst, installCount, gate, admitted, ever>>
  BY SandboxAssumption DEF SbInv, SbTypes, Tick
<1>2. SbTypes' /\ QuotaHolds' /\ InstallsCounted'
  BY <1>1 DEF SbInv, SbTypes, QuotaHolds, InstallsCounted
<1>3. SbRemembers'
  <2> SUFFICES ASSUME NEW p \in Profiles PROVE \E k \in Nat : SbForgotten(ever[p], admitted[p], k)'
    BY <1>1 DEF SbRemembers
  <2>1. PICK k \in Nat : SbForgotten(ever[p], admitted[p], k)
    BY DEF SbInv, SbRemembers
  <2>2. PICK s : s = ever[p]
    OBVIOUS
  <2>3. s \in Seq(Nat) /\ Len(s) \in Nat /\ k <= Len(s) /\ \A i \in 1 .. Len(s) : s[i] \in Nat
    <3>1. s \in Seq(Nat) /\ admitted[p] \in Seq(Nat)
      BY <2>2 DEF SbInv, SbTypes
    <3>2. Len(s) \in Nat /\ Len(admitted[p]) \in Nat /\ \A i \in 1 .. Len(s) : s[i] \in Nat
      BY <3>1
    <3> QED BY <2>1, <2>2, <3>1, <3>2 DEF SbForgotten
  <2>4. \A i \in Nat : 1 <= i /\ i <= k => s[i] + QuotaWindow <= tick'
    <3> SUFFICES ASSUME NEW i \in Nat, 1 <= i, i <= k PROVE s[i] + QuotaWindow <= tick'
      OBVIOUS
    <3>1. s[i] + QuotaWindow <= tick
      BY <2>1, <2>2 DEF SbForgotten
    <3>2. s[i] \in Nat
      BY <2>3
    <3> QED BY <1>1, <3>1, <3>2
  <2>5. SbForgotten(ever[p], admitted[p], k)'
    BY <1>1, <2>1, <2>2, <2>4 DEF SbForgotten
  <2> QED BY <2>5
<1> QED BY <1>2, <1>3 DEF SbInv

LEMMA SbStep ==
  ASSUME SbInv, [SandNext]_sandVars
  PROVE  SbInv'
<1>1. CASE UNCHANGED sandVars
  BY <1>1 DEF sandVars, SbInv, SbTypes, SbRemembers, SbForgotten, QuotaHolds, InstallsCounted
<1>2. ASSUME NEW c \in SandCalls, NEW p \in Profiles, NEW granted \in SUBSET AllPermissions, InstallBegin(c, p, granted)
      PROVE  SbInv'
  <2>1. PICK r : r = [at |-> "install", profile |-> p, granted |-> granted]
    OBVIOUS
  <2>2. r \in SbGates /\ r.profile \in Profiles
    BY <1>2, <2>1, SbGate DEF InstallBegin
  <2> QED BY <1>2, <2>1, <2>2, SbQuiet DEF InstallBegin
<1>3. ASSUME NEW c \in SandCalls, NEW p \in Profiles, NEW permission \in AllPermissions, CheckPermission(c, p, permission)
      PROVE  SbInv'
  <2>1. PICK r : r = [at |-> "quota", profile |-> p, granted |-> {permission}]
    OBVIOUS
  <2>2. {permission} \in SUBSET DeclaredPermissions
    BY <1>3 DEF CheckPermission, CheckPermissionGate, SbInv, SbTypes, SbInstances
  <2>3. r \in SbGates /\ r.profile \in Profiles
    BY <2>1, <2>2, SbGate
  <2> QED BY <1>3, <2>1, <2>3, SbQuiet DEF CheckPermission
<1>4. CASE Tick
  BY <1>4, SbTick
<1> QED BY <1>1, <1>2, <1>3, <1>4, SbInstalls, SbAllows, SbStatus DEF SandNext

LEMMA SbSound ==
  ASSUME SbInv
  PROVE  SandTypeOK /\ QuotaHolds /\ OnlyDeclaredUsed /\ InstallsCounted
<1>1. SandTypeOK
  BY DEF SbInv, SbTypes, SbInstances, SbGates, SandTypeOK
<1>2. OnlyDeclaredUsed
  BY DEF SbInv, SbTypes, SbGates, OnlyDeclaredUsed
<1> QED BY <1>1, <1>2 DEF SbInv

\* Calls of a plugin stay within its quota in every window, use what it
\* declares, and its installations are counted.
THEOREM SandboxSound == SandSpec => [](SandTypeOK /\ QuotaHolds /\ OnlyDeclaredUsed /\ InstallsCounted)
<1>1. SbInv => SandTypeOK /\ QuotaHolds /\ OnlyDeclaredUsed /\ InstallsCounted
  BY SbSound
<1>2. SbInv /\ [SandNext]_sandVars => SbInv'
  BY SbStep
<1> QED BY SbInit, <1>1, <1>2, PTL DEF SandSpec

-----------------------------------------------------------------------------
(* MLS groups *)

GrPcs == {"idle", "leaf", "add", "remove", "member", "advance", "broadcast", "backfill", "reread",
          "seal", "open", "error", "conflict", "done", "failed"}
GrOps == {"none", "create", "join", "leave", "seal", "open"}
GrCiphers == [grp : Groups, epoch : Nat, secret : Nat]
GrCalls ==
  [pc : GrPcs, op : GrOps, profile : Members \union {"none"}, grp : Groups \union {"none"},
   epoch : Nat, secret : Nat, leafIndex : Int, mark : Nat, cipher : GrCiphers \union {"none"}]

GrTypes ==
  /\ drawn \in Nat
  /\ group \in [Groups -> [exists : BOOLEAN, epoch : Nat, secret : 0 .. drawn]]
  /\ leaf \in [Groups -> [Members -> -1 .. drawn]]
  /\ sealed \subseteq GrCiphers
  /\ mcall \in [MlsCalls -> GrCalls]
  /\ watcher \in {"off", "subscribed", "live"} /\ told \subseteq MlsCalls

GrSingle == \A g, h \in Existing : g = h

(* Where a request can stand: on a row that exists, at an epoch the row has *)
(* had, with what it drew.                                                 *)
GrPlace(m) ==
  /\ m.pc = "idle" <=> m.op = "none"
  /\ m.pc # "idle" => m.grp \in Existing /\ m.profile \in Members /\ m.epoch <= group[m.grp].epoch
  /\ m.pc \in {"leaf", "add"} => m.op = "join"
  /\ m.pc = "remove" => m.op = "leave"
  /\ m.pc = "advance" => m.op \in Membership /\ m.secret = m.mark
  /\ m.pc = "broadcast" => m.op \in Membership \union {"create"}
  /\ m.pc \in {"member", "backfill", "reread", "seal", "open", "failed"} => m.op \in {"seal", "open"}
  /\ m.pc \in {"seal", "open"} => m.op = m.pc
  /\ m.pc = "failed" => m.op = "open"
  /\ m.secret <= drawn /\ m.mark <= drawn /\ m.leafIndex \in 0 .. drawn + 1

(* While there is one group: who seals has the secret of its epoch, unless  *)
(* the epoch is over; who opens has the secret of its ciphertext.          *)
GrOpen(m) ==
  GrSingle =>
    /\ m.op = "seal" /\ m.pc \in {"member", "backfill", "reread", "seal"} =>
         /\ m.epoch = group[m.grp].epoch /\ m.secret # 0 => m.secret = group[m.grp].secret
         /\ m.pc = "seal" => m.secret # 0
    /\ m.op = "open" =>
         /\ m.pc \in {"member", "open", "done", "error"} /\ m.secret # 0
         /\ m.pc \in {"member", "open"} =>
              m.cipher = [grp |-> m.grp, epoch |-> m.epoch, secret |-> m.secret]

GrSealed ==
  \A x \in sealed :
    /\ x.grp \in Existing
    /\ GrSingle => /\ x.epoch <= group[x.grp].epoch /\ x.secret # 0
                   /\ x.epoch = group[x.grp].epoch => x.secret = group[x.grp].secret

(* A change of membership that advanced the epoch ...                      *)
GrChanged(m) == m.op \in Membership /\ m.pc \in {"broadcast", "done"}

GrRenew(m) == GrChanged(m) => m.epoch < group[m.grp].epoch /\ m.mark <= group[m.grp].secret

(* ... is behind every request that read the row after it.                 *)
GrAhead ==
  \A c, d \in MlsCalls :
    /\ GrChanged(mcall[c]) /\ mcall[d].pc = "advance"
    /\ mcall[d].grp = mcall[c].grp /\ mcall[d].epoch > mcall[c].epoch
    => mcall[d].secret > mcall[c].mark

GrInv ==
  /\ GrTypes
  /\ \A c \in MlsCalls : GrPlace(mcall[c]) /\ GrOpen(mcall[c]) /\ GrRenew(mcall[c])
  /\ GrSealed /\ GrAhead /\ NoChangeMissed

(* A request moves on.                                                     *)
LEMMA GrTo ==
  ASSUME GrTypes, NEW c \in MlsCalls, NEW pc, pc \in GrPcs, To(c, pc)
  PROVE  \E n \in GrCalls :
           /\ mcall' = [mcall EXCEPT ![c] = n] /\ n.pc = pc /\ n.op = mcall[c].op
           /\ n.profile = mcall[c].profile /\ n.grp = mcall[c].grp /\ n.epoch = mcall[c].epoch
           /\ n.secret = mcall[c].secret /\ n.leafIndex = mcall[c].leafIndex
           /\ n.mark = mcall[c].mark /\ n.cipher = mcall[c].cipher
<1> DEFINE n == [mcall[c] EXCEPT !.pc = pc]
<1>1. mcall[c] \in GrCalls
  BY DEF GrTypes
<1>2. mcall' = [mcall EXCEPT ![c] = n]
  BY DEF To
<1>3. /\ n \in GrCalls /\ n.pc = pc /\ n.op = mcall[c].op
      /\ n.profile = mcall[c].profile /\ n.grp = mcall[c].grp /\ n.epoch = mcall[c].epoch
      /\ n.secret = mcall[c].secret /\ n.leafIndex = mcall[c].leafIndex
      /\ n.mark = mcall[c].mark /\ n.cipher = mcall[c].cipher
  BY <1>1 DEF GrCalls
<1> QED BY <1>2, <1>3

(* A step of one request that touches no row and draws nothing.            *)
LEMMA GrQuiet ==
  ASSUME GrInv, NEW c \in MlsCalls, NEW n, n \in GrCalls, mcall' = [mcall EXCEPT ![c] = n],
         UNCHANGED <<group, leaf, drawn, sealed, watcher>>,
         told \subseteq told', told' \subseteq MlsCalls,
         GrPlace(n), GrOpen(n), GrRenew(n), n.pc # "advance",
         GrChanged(n) => GrChanged(mcall[c]) /\ n.grp = mcall[c].grp
                         /\ n.epoch = mcall[c].epoch /\ n.mark = mcall[c].mark,
         watcher = "live" /\ n.pc = "done" /\ n.op \in Membership \union {"create"} => c \in told'
  PROVE  GrInv'
<1>1. /\ mcall' \in [MlsCalls -> GrCalls] /\ mcall'[c] = n
      /\ \A d \in MlsCalls : d # c => mcall'[d] = mcall[d]
  BY DEF GrInv, GrTypes
<1>2. GrTypes'
  BY <1>1 DEF GrInv, GrTypes
<1>3. Existing' = Existing /\ (GrSingle' <=> GrSingle)
  BY DEF Existing, GrSingle
<1>4. GrSealed'
  BY <1>3 DEF GrInv, GrSealed
<1>5. ASSUME NEW d \in MlsCalls PROVE GrPlace(mcall[d])' /\ GrOpen(mcall[d])' /\ GrRenew(mcall[d])'
  <2>1. CASE d = c
    BY <2>1, <1>1, <1>3 DEF GrPlace, GrOpen, GrRenew, GrChanged
  <2>2. CASE d # c
    BY <2>2, <1>1, <1>3 DEF GrInv, GrPlace, GrOpen, GrRenew, GrChanged
  <2> QED BY <2>1, <2>2
<1>6. GrAhead'
  <2> SUFFICES ASSUME NEW a \in MlsCalls, NEW b \in MlsCalls, GrChanged(mcall'[a]),
                      mcall'[b].pc = "advance", mcall'[b].grp = mcall'[a].grp,
                      mcall'[b].epoch > mcall'[a].epoch
               PROVE  mcall'[b].secret > mcall'[a].mark
    BY DEF GrAhead, GrChanged
  <2>1. b # c /\ mcall'[b] = mcall[b]
    BY <1>1
  <2>2. GrChanged(mcall[a]) /\ mcall'[a].grp = mcall[a].grp /\ mcall'[a].epoch = mcall[a].epoch
        /\ mcall'[a].mark = mcall[a].mark
    BY <1>1
  <2> QED BY <2>1, <2>2 DEF GrInv, GrAhead
<1>7. NoChangeMissed'
  BY <1>1 DEF GrInv, NoChangeMissed
<1> QED BY <1>2, <1>4, <1>5, <1>6, <1>7 DEF GrInv

LEMMA GrBegun ==
  ASSUME NEW pc \in GrPcs, NEW op \in GrOps, NEW p \in Members, NEW g \in Groups,
         NEW e \in Nat, NEW s \in Nat, NEW x \in GrCiphers \union {"none"}
  PROVE  /\ [IdleCall EXCEPT !.pc = pc, !.op = op, !.profile = p, !.grp = g, !.epoch = e,
                             !.secret = s, !.cipher = x] \in GrCalls
         /\ [IdleCall EXCEPT !.pc = pc, !.op = op, !.profile = p, !.grp = g, !.epoch = e,
                             !.secret = s] \in GrCalls
         /\ [IdleCall EXCEPT !.pc = pc, !.op = op, !.profile = p, !.grp = g] \in GrCalls
<1>1. IdleCall \in GrCalls
  <2>1. "idle" \in GrPcs /\ "none" \in GrOps
    BY DEF GrPcs, GrOps
  <2> QED BY <2>1 DEF IdleCall, GrCalls
<1>6. [IdleCall EXCEPT !.pc = pc, !.op = op, !.profile = p, !.grp = g, !.epoch = e,
                      !.secret = s, !.cipher = x] \in GrCalls
  BY <1>1 DEF GrCalls
<1>7. [IdleCall EXCEPT !.pc = pc, !.op = op, !.profile = p, !.grp = g, !.epoch = e, !.secret = s] \in GrCalls
  BY <1>1 DEF GrCalls
<1>8. [IdleCall EXCEPT !.pc = pc, !.op = op, !.profile = p, !.grp = g] \in GrCalls
  BY <1>1 DEF GrCalls
<1> QED BY <1>6, <1>7, <1>8

(* The requests' quiet steps: reading the row, ...                         *)
LEMMA GrGetByWorkspace ==
  ASSUME GrInv, NEW c \in MlsCalls, NEW op \in Membership \union {"seal"}, NEW p \in Members,
         GetByWorkspace(c, op, p)
  PROVE  GrInv'
<1>1. PICK g \in Existing :
        /\ mcall[c].pc = "idle"
        /\ mcall' = [mcall EXCEPT ![c] = [IdleCall EXCEPT
              !.pc = FirstStep(op),
              !.op = op, !.profile = p, !.grp = g, !.epoch = group[g].epoch, !.secret = group[g].secret]]
  BY DEF GetByWorkspace
<1> DEFINE n == [IdleCall EXCEPT
              !.pc = FirstStep(op),
              !.op = op, !.profile = p, !.grp = g, !.epoch = group[g].epoch, !.secret = group[g].secret]
<1>2. g \in Groups /\ group[g].epoch \in Nat /\ group[g].secret \in 0 .. drawn /\ drawn \in Nat
  BY DEF Existing, GrInv, GrTypes
<1>3. /\ n.pc = FirstStep(op) /\ n.op = op /\ n.profile = p /\ n.grp = g /\ n.epoch = group[g].epoch
      /\ n.secret = group[g].secret /\ n.leafIndex = 0 /\ n.mark = 0 /\ n.cipher = "none"
  BY DEF IdleCall
<1>4. /\ op = "join" => FirstStep(op) = "leaf"
      /\ op = "leave" => FirstStep(op) = "remove"
      /\ op = "seal" => FirstStep(op) = "member"
      /\ op \in {"join", "leave", "seal"}
  BY DEF FirstStep, Membership
<1>5. n \in GrCalls
  <2>1. n.pc \in GrPcs
    BY <1>3, <1>4 DEF GrPcs
  <2>2. n.op \in GrOps
    BY <1>3, <1>4 DEF GrOps
  <2>3. FirstStep(op) \in GrPcs /\ op \in GrOps
    BY <2>1, <2>2, <1>3
  <2>4. group[g].secret \in Nat
    BY <1>2
  <2> QED BY <1>2, <2>3, <2>4, GrBegun
<1>6. GrPlace(n) /\ GrOpen(n) /\ GrRenew(n) /\ n.pc # "advance" /\ ~ GrChanged(n) /\ n.pc # "done"
  BY <1>1, <1>2, <1>3, <1>4 DEF GrPlace, GrOpen, GrRenew, GrChanged, Membership
<1> HIDE DEF n
<1>7. mcall' = [mcall EXCEPT ![c] = n] /\ UNCHANGED <<group, leaf, drawn, sealed, watcher, told>>
  BY <1>1 DEF GetByWorkspace, n
<1> QED BY <1>5, <1>6, <1>7, GrQuiet DEF GrInv, GrTypes

(* ... the opener's, of the epoch of its ciphertext, ...                   *)
LEMMA GrOpenBegin ==
  ASSUME GrInv, NEW c \in MlsCalls, NEW p \in Members, OpenBegin(c, p)
  PROVE  GrInv'
<1>1. PICK g \in Existing, x \in sealed :
        /\ mcall[c].pc = "idle" /\ x.epoch = group[g].epoch
        /\ mcall' = [mcall EXCEPT ![c] = [IdleCall EXCEPT !.pc = "member", !.op = "open", !.profile = p,
              !.grp = g, !.epoch = group[g].epoch, !.secret = group[g].secret, !.cipher = x]]
  BY DEF OpenBegin
<1> DEFINE n == [IdleCall EXCEPT !.pc = "member", !.op = "open", !.profile = p,
              !.grp = g, !.epoch = group[g].epoch, !.secret = group[g].secret, !.cipher = x]
<1>2. /\ g \in Groups /\ group[g].epoch \in Nat /\ group[g].secret \in 0 .. drawn /\ drawn \in Nat
      /\ x \in GrCiphers
  BY DEF Existing, GrInv, GrTypes
<1>3. /\ n.pc = "member" /\ n.op = "open" /\ n.profile = p /\ n.grp = g /\ n.epoch = group[g].epoch
      /\ n.secret = group[g].secret /\ n.leafIndex = 0 /\ n.mark = 0 /\ n.cipher = x
  BY DEF IdleCall
<1>4. n \in GrCalls
  <2>1. "member" \in GrPcs /\ "open" \in GrOps
    BY DEF GrPcs, GrOps
  <2>2. PICK e, s : e = group[g].epoch /\ s = group[g].secret
    OBVIOUS
  <2>3. g \in Groups /\ e \in Nat /\ s \in Nat /\ x \in GrCiphers \union {"none"}
    BY <1>2, <2>2
  <2>4. [IdleCall EXCEPT !.pc = "member", !.op = "open", !.profile = p, !.grp = g, !.epoch = e,
                         !.secret = s, !.cipher = x] \in GrCalls
    BY <2>1, <2>3, GrBegun, ZenonT(40)
  <2> QED BY <2>2, <2>4
<1>5. GrSingle => x = [grp |-> g, epoch |-> group[g].epoch, secret |-> group[g].secret] /\ group[g].secret # 0
  <2> SUFFICES ASSUME GrSingle
               PROVE  x = [grp |-> g, epoch |-> group[g].epoch, secret |-> group[g].secret] /\ group[g].secret # 0
    OBVIOUS
  <2>1. x.grp \in Existing /\ x.secret # 0 /\ (x.epoch = group[x.grp].epoch => x.secret = group[x.grp].secret)
    BY DEF GrInv, GrSealed
  <2>2. x.grp = g
    BY <2>1 DEF GrSingle
  <2>3. x.grp = g /\ x.epoch = group[g].epoch /\ x.secret = group[g].secret
    BY <1>1, <2>1, <2>2
  <2>4. x = [grp |-> x.grp, epoch |-> x.epoch, secret |-> x.secret]
    BY <1>2 DEF GrCiphers
  <2> QED BY <2>1, <2>3, <2>4
<1>6. GrPlace(n) /\ GrOpen(n) /\ GrRenew(n) /\ n.pc # "advance" /\ ~ GrChanged(n) /\ n.pc # "done"
  BY <1>1, <1>2, <1>3, <1>5 DEF GrPlace, GrOpen, GrRenew, GrChanged, Membership
<1> HIDE DEF n
<1>7. mcall' = [mcall EXCEPT ![c] = n] /\ UNCHANGED <<group, leaf, drawn, sealed, watcher, told>>
  BY <1>1 DEF OpenBegin, n
<1> QED BY <1>4, <1>6, <1>7, GrQuiet DEF GrInv, GrTypes

(* ... the leaf a joiner takes, ...                                        *)
LEMMA GrNextLeaf ==
  ASSUME GrInv, NEW c \in MlsCalls, NextLeaf(c)
  PROVE  GrInv'
<1> DEFINE S == {leaf[mcall[c].grp][p] : p \in Members}
           n == [mcall[c] EXCEPT !.pc = "add", !.leafIndex = Max(S) + 1]
<1>1. /\ mcall[c] \in GrCalls /\ drawn \in Nat /\ mcall[c].pc = "leaf" /\ GrPlace(mcall[c])
      /\ mcall[c].grp \in Groups /\ mcall[c].profile \in Members
  BY DEF GrInv, GrTypes, NextLeaf, GrPlace, Existing
<1>2. S # {} /\ S \subseteq -1 .. drawn
  BY <1>1 DEF GrInv, GrTypes
<1>3. Max(S) \in -1 .. drawn
  BY <1>1, <1>2, GrLargest
<1> HIDE DEF S
<1>4. /\ n \in GrCalls /\ n.pc = "add" /\ n.leafIndex \in 0 .. drawn + 1 /\ n.op = mcall[c].op
      /\ n.profile = mcall[c].profile /\ n.grp = mcall[c].grp /\ n.epoch = mcall[c].epoch
      /\ n.secret = mcall[c].secret /\ n.mark = mcall[c].mark /\ n.cipher = mcall[c].cipher
  <2>1. "add" \in GrPcs
    BY DEF GrPcs
  <2>2. Max(S) + 1 \in Int /\ Max(S) + 1 \in 0 .. drawn + 1
    BY <1>1, <1>3
  <2>3. PICK i : i = Max(S) + 1
    OBVIOUS
  <2>4. n = [mcall[c] EXCEPT !.pc = "add", !.leafIndex = i]
    BY <2>3
  <2> HIDE DEF n
  <2>5. n \in GrCalls
    BY <1>1, <2>1, <2>2, <2>3, <2>4 DEF GrCalls
  <2> QED BY <1>1, <2>2, <2>3, <2>4, <2>5 DEF GrCalls
<1>5. mcall' = [mcall EXCEPT ![c] = n]
  <2>1. mcall' = [mcall EXCEPT ![c].pc = "add", ![c].leafIndex = Max(S) + 1]
    BY DEF NextLeaf, S
  <2> QED BY <2>1 DEF GrInv, GrTypes
<1> HIDE DEF n
<1>6. mcall[c].op = "join"
  BY <1>1 DEF GrPlace
<1>7. GrPlace(n) /\ GrOpen(n) /\ GrRenew(n) /\ ~ GrChanged(n)
  BY <1>1, <1>4, <1>6 DEF GrPlace, GrOpen, GrRenew, GrChanged
<1> QED BY <1>4, <1>5, <1>7, GrQuiet DEF NextLeaf, GrInv, GrTypes

(* ... the checks of a message and of a ciphertext, and the failures, ...  *)
LEMMA GrFails ==
  ASSUME GrInv, NEW c \in MlsCalls, NEW pc \in {"error", "conflict"}, To(c, pc),
         UNCHANGED <<group, leaf, drawn, sealed, watcher, told>>,
         \/ mcall[c].pc \in {"add", "remove", "advance"}
         \/ mcall[c].pc \in {"member", "reread"} /\ pc = "error"
  PROVE  GrInv'
<1>1. pc \in GrPcs
  BY DEF GrPcs
<1>2. PICK n \in GrCalls :
         /\ mcall' = [mcall EXCEPT ![c] = n] /\ n.pc = pc /\ n.op = mcall[c].op
         /\ n.profile = mcall[c].profile /\ n.grp = mcall[c].grp /\ n.epoch = mcall[c].epoch
         /\ n.secret = mcall[c].secret /\ n.leafIndex = mcall[c].leafIndex
         /\ n.mark = mcall[c].mark /\ n.cipher = mcall[c].cipher
  BY <1>1, GrTo DEF GrInv
<1>3. GrPlace(mcall[c]) /\ GrOpen(mcall[c])
  BY DEF GrInv
<1>4. GrPlace(n) /\ GrRenew(n) /\ n.pc # "advance" /\ ~ GrChanged(n) /\ n.pc # "done"
  BY <1>2, <1>3 DEF GrPlace, GrRenew, GrChanged
<1>5. GrOpen(n)
  BY <1>2, <1>3 DEF GrOpen, GrPlace, Membership
<1> QED BY <1>2, <1>4, <1>5, GrQuiet DEF GrInv, GrTypes

LEMMA GrCheckMember ==
  ASSUME GrInv, NEW c \in MlsCalls, CheckMember(c)
  PROVE  GrInv'
<1>1. CASE To(c, "error")
  BY <1>1, GrFails DEF CheckMember
<1>2. CASE To(c, IF mcall[c].secret = 0 THEN "backfill" ELSE mcall[c].op)
  <2>1. PICK pc : pc = IF mcall[c].secret = 0 THEN "backfill" ELSE mcall[c].op
    OBVIOUS
  <2>2. mcall[c].pc = "member" /\ GrPlace(mcall[c]) /\ GrOpen(mcall[c]) /\ mcall[c].op \in {"seal", "open"}
    BY DEF CheckMember, GrInv, GrPlace
  <2>3. pc \in {"backfill", "seal", "open"} /\ (pc # "backfill" => pc = mcall[c].op /\ mcall[c].secret # 0)
        /\ (pc = "backfill" => mcall[c].secret = 0)
    BY <2>1, <2>2
  <2>4. pc \in GrPcs
    BY <2>3 DEF GrPcs
  <2>5. PICK n \in GrCalls :
         /\ mcall' = [mcall EXCEPT ![c] = n] /\ n.pc = pc /\ n.op = mcall[c].op
         /\ n.profile = mcall[c].profile /\ n.grp = mcall[c].grp /\ n.epoch = mcall[c].epoch
         /\ n.secret = mcall[c].secret /\ n.leafIndex = mcall[c].leafIndex
         /\ n.mark = mcall[c].mark /\ n.cipher = mcall[c].cipher
    BY <1>2, <2>1, <2>4, GrTo DEF GrInv
  <2>6. GrPlace(n) /\ GrRenew(n) /\ n.pc # "advance" /\ ~ GrChanged(n) /\ n.pc # "done"
    BY <2>2, <2>3, <2>5 DEF GrPlace, GrRenew, GrChanged
  <2>7. GrOpen(n)
    BY <2>2, <2>3, <2>5 DEF GrOpen
  <2> QED BY <2>5, <2>6, <2>7, GrQuiet DEF CheckMember, GrInv, GrTypes
<1> QED BY <1>1, <1>2 DEF CheckMember

LEMMA GrReread ==
  ASSUME GrInv, NEW c \in MlsCalls, groupKeyMaterial(c)
  PROVE  GrInv'
<1>1. PICK g \in Existing :
        /\ mcall[c].pc = "reread"
        /\ mcall' = [mcall EXCEPT ![c].secret = group[g].secret,
                                  ![c].pc = IF group[g].secret = 0 THEN "error" ELSE mcall[c].op]
  BY DEF groupKeyMaterial
<1>2. /\ g \in Groups /\ group[g].secret \in 0 .. drawn /\ drawn \in Nat /\ mcall[c] \in GrCalls
      /\ GrPlace(mcall[c]) /\ GrOpen(mcall[c]) /\ mcall[c].op \in {"seal", "open"}
      /\ mcall \in [MlsCalls -> GrCalls]
  BY <1>1 DEF Existing, GrInv, GrTypes, GrPlace
<1>3. PICK s : s = group[g].secret
  OBVIOUS
<1>4. PICK pc : pc = IF s = 0 THEN "error" ELSE mcall[c].op
  OBVIOUS
<1>5. pc \in {"error", "seal", "open"} /\ (s = 0 <=> pc = "error") /\ (s # 0 => pc = mcall[c].op) /\ s \in Nat
  BY <1>2, <1>3, <1>4
<1>6. pc \in GrPcs
  BY <1>5 DEF GrPcs
<1>7. PICK n : n = [mcall[c] EXCEPT !.secret = s, !.pc = pc]
  OBVIOUS
<1>8. /\ n \in GrCalls /\ n.pc = pc /\ n.op = mcall[c].op
      /\ n.profile = mcall[c].profile /\ n.grp = mcall[c].grp /\ n.epoch = mcall[c].epoch
      /\ n.secret = s /\ n.leafIndex = mcall[c].leafIndex
      /\ n.mark = mcall[c].mark /\ n.cipher = mcall[c].cipher
  BY <1>2, <1>5, <1>6, <1>7 DEF GrCalls
<1>9. mcall' = [mcall EXCEPT ![c] = n]
  <2>1. mcall' = [mcall EXCEPT ![c].secret = s, ![c].pc = pc]
    BY <1>1, <1>3, <1>4
  <2> QED BY <2>1, <1>2, <1>7
<1>10. GrPlace(n) /\ GrRenew(n) /\ n.pc # "advance" /\ ~ GrChanged(n) /\ n.pc # "done"
  BY <1>1, <1>2, <1>3, <1>5, <1>8 DEF GrPlace, GrRenew, GrChanged
<1>11. GrOpen(n)
  <2> SUFFICES ASSUME GrSingle PROVE GrOpen(n)
    BY DEF GrOpen
  <2>1. mcall[c].grp = g
    BY <1>1, <1>2 DEF GrSingle, GrPlace
  <2>2. mcall[c].op = "seal"
    BY <1>1, <1>2 DEF GrOpen
  <2> QED BY <1>3, <1>5, <1>8, <2>1, <2>2 DEF GrOpen
<1> QED BY <1>8, <1>9, <1>10, <1>11, GrQuiet DEF groupKeyMaterial, GrInv, GrTypes

LEMMA GrDecrypt ==
  ASSUME GrInv, NEW c \in MlsCalls, Decrypt(c)
  PROVE  GrInv'
<1>1. PICK pc : pc = IF mcall[c].cipher = [grp |-> mcall[c].grp, epoch |-> mcall[c].epoch, secret |-> mcall[c].secret]
                     THEN "done" ELSE "failed"
  OBVIOUS
<1>2. mcall[c].pc = "open" /\ GrPlace(mcall[c]) /\ GrOpen(mcall[c]) /\ mcall[c].op = "open" /\ To(c, pc)
  BY <1>1 DEF Decrypt, GrInv, GrPlace
<1>3. pc \in {"done", "failed"} /\ (GrSingle => pc = "done")
  BY <1>1, <1>2 DEF GrOpen
<1>4. pc \in GrPcs
  BY <1>3 DEF GrPcs
<1>5. PICK n \in GrCalls :
         /\ mcall' = [mcall EXCEPT ![c] = n] /\ n.pc = pc /\ n.op = mcall[c].op
         /\ n.profile = mcall[c].profile /\ n.grp = mcall[c].grp /\ n.epoch = mcall[c].epoch
         /\ n.secret = mcall[c].secret /\ n.leafIndex = mcall[c].leafIndex
         /\ n.mark = mcall[c].mark /\ n.cipher = mcall[c].cipher
  BY <1>2, <1>4, GrTo DEF GrInv
<1>6. GrPlace(n) /\ GrRenew(n) /\ n.pc # "advance" /\ ~ GrChanged(n) /\ n.op \notin Membership \union {"create"}
  BY <1>2, <1>3, <1>5 DEF GrPlace, GrRenew, GrChanged, Membership
<1>7. GrOpen(n)
  BY <1>2, <1>3, <1>5 DEF GrOpen
<1> QED BY <1>5, <1>6, <1>7, GrQuiet DEF Decrypt, GrInv, GrTypes

(* ... and the answer, told to a stream that watches.                      *)
LEMMA GrBroadcast ==
  ASSUME GrInv, NEW c \in MlsCalls, broadcast(c)
  PROVE  GrInv'
<1>1. mcall[c].pc = "broadcast" /\ GrPlace(mcall[c]) /\ GrOpen(mcall[c]) /\ GrRenew(mcall[c])
      /\ mcall[c].op \in Membership \union {"create"} /\ To(c, "done")
  BY DEF broadcast, GrInv, GrPlace
<1>2. "done" \in GrPcs
  BY DEF GrPcs
<1>3. PICK n \in GrCalls :
         /\ mcall' = [mcall EXCEPT ![c] = n] /\ n.pc = "done" /\ n.op = mcall[c].op
         /\ n.profile = mcall[c].profile /\ n.grp = mcall[c].grp /\ n.epoch = mcall[c].epoch
         /\ n.secret = mcall[c].secret /\ n.leafIndex = mcall[c].leafIndex
         /\ n.mark = mcall[c].mark /\ n.cipher = mcall[c].cipher
  BY <1>1, <1>2, GrTo DEF GrInv
<1>4. GrPlace(n) /\ GrRenew(n) /\ n.pc # "advance" /\ (GrChanged(n) => GrChanged(mcall[c]))
  BY <1>1, <1>3 DEF GrPlace, GrRenew, GrChanged, Membership
<1>5. GrOpen(n)
  BY <1>1, <1>3 DEF GrOpen, Membership
<1>6. told \subseteq told' /\ told' \subseteq MlsCalls /\ (watcher = "live" => c \in told')
  BY DEF broadcast, GrInv, GrTypes
<1> QED BY <1>3, <1>4, <1>5, <1>6, GrQuiet DEF broadcast, GrInv, GrTypes

(* A stream: it is told of every change that is done before it is live.    *)
LEMMA GrStream ==
  ASSUME GrInv, MLSEvents \/ sendWelcome
  PROVE  GrInv'
<1>1. UNCHANGED <<group, leaf, drawn, sealed, mcall>>
  BY DEF MLSEvents, sendWelcome
<1>2. GrTypes'
  BY <1>1 DEF GrInv, GrTypes, MLSEvents, sendWelcome
<1>3. Existing' = Existing
  BY <1>1 DEF Existing
<1>4. \A c \in MlsCalls : GrPlace(mcall[c])' /\ GrOpen(mcall[c])' /\ GrRenew(mcall[c])'
  BY <1>1, <1>3 DEF GrInv, GrPlace, GrOpen, GrRenew, GrChanged, GrSingle
<1>5. GrSealed' /\ GrAhead'
  BY <1>1, <1>3 DEF GrInv, GrSealed, GrAhead, GrChanged, GrSingle
<1>6. NoChangeMissed'
  BY <1>1 DEF GrInv, NoChangeMissed, MLSEvents, sendWelcome
<1> QED BY <1>2, <1>4, <1>5, <1>6 DEF GrInv

(* A change of membership draws a secret newer than any.                   *)
LEMMA GrDraws ==
  ASSUME GrInv, NEW c \in MlsCalls, mcall[c].pc \in {"add", "remove"},
         leaf' \in [Groups -> [Members -> -1 .. drawn + 1]], drawn' = drawn + 1,
         mcall' = [mcall EXCEPT ![c].pc = "advance", ![c].secret = drawn', ![c].mark = drawn'],
         UNCHANGED <<group, sealed, watcher, told>>
  PROVE  GrInv'
<1>1. GrTypes /\ GrPlace(mcall[c]) /\ mcall[c] \in GrCalls /\ mcall[c].op \in Membership /\ drawn \in Nat
  BY DEF GrInv, GrTypes, GrPlace, Membership
<1>2. PICK n : n = [mcall[c] EXCEPT !.pc = "advance", !.secret = drawn', !.mark = drawn']
  OBVIOUS
<1>3. /\ n \in GrCalls /\ n.pc = "advance" /\ n.op = mcall[c].op
      /\ n.profile = mcall[c].profile /\ n.grp = mcall[c].grp /\ n.epoch = mcall[c].epoch
      /\ n.secret = drawn' /\ n.leafIndex = mcall[c].leafIndex /\ n.mark = drawn'
  <2>1. "advance" \in GrPcs /\ drawn' \in Nat
    BY <1>1 DEF GrPcs
  <2> QED BY <1>1, <1>2, <2>1, ZenonT(40) DEF GrCalls
<1>4. mcall' \in [MlsCalls -> GrCalls] /\ mcall'[c] = n /\ \A d \in MlsCalls : d # c => mcall'[d] = mcall[d]
  <2>1. mcall' = [mcall EXCEPT ![c] = n]
    BY <1>1, <1>2 DEF GrTypes
  <2> QED BY <1>1, <1>3, <2>1 DEF GrTypes
<1>5. GrTypes'
  BY <1>1, <1>4 DEF GrTypes
<1>6. Existing' = Existing /\ (GrSingle' <=> GrSingle)
  BY DEF Existing, GrSingle
<1>7. ASSUME NEW d \in MlsCalls PROVE GrPlace(mcall[d])' /\ GrOpen(mcall[d])' /\ GrRenew(mcall[d])'
  <2>1. CASE d = c
    BY <2>1, <1>1, <1>3, <1>4, <1>6 DEF GrPlace, GrOpen, GrRenew, GrChanged, Membership
  <2>2. CASE d # c
    <3>1. mcall'[d] = mcall[d] /\ GrPlace(mcall[d]) /\ GrOpen(mcall[d]) /\ GrRenew(mcall[d]) /\ mcall[d] \in GrCalls
      BY <2>2, <1>1, <1>4 DEF GrInv, GrTypes
    <3>2. GrPlace(mcall[d])'
      BY <3>1, <1>1, <1>6 DEF GrPlace, GrCalls
    <3>3. GrOpen(mcall[d])' /\ GrRenew(mcall[d])'
      BY <3>1, <1>6 DEF GrOpen, GrRenew, GrChanged
    <3> QED BY <3>2, <3>3
  <2> QED BY <2>1, <2>2
<1>8. GrSealed'
  BY <1>6 DEF GrInv, GrSealed
<1>9. GrAhead'
  <2> SUFFICES ASSUME NEW a \in MlsCalls, NEW b \in MlsCalls, GrChanged(mcall'[a]),
                      mcall'[b].pc = "advance", mcall'[b].grp = mcall'[a].grp,
                      mcall'[b].epoch > mcall'[a].epoch
               PROVE  mcall'[b].secret > mcall'[a].mark
    BY DEF GrAhead, GrChanged
  <2>1. a # c /\ mcall'[a] = mcall[a]
    BY <1>3, <1>4 DEF GrChanged
  <2>2. mcall[a].mark <= drawn /\ mcall[a].mark \in Nat
    BY <1>1 DEF GrInv, GrPlace, GrTypes, GrCalls
  <2>3. CASE b = c
    BY <2>1, <2>2, <2>3, <1>1, <1>3, <1>4
  <2>4. CASE b # c
    BY <2>1, <2>4, <1>4 DEF GrInv, GrAhead
  <2> QED BY <2>3, <2>4
<1>10. NoChangeMissed'
  BY <1>3, <1>4 DEF GrInv, NoChangeMissed
<1> QED BY <1>5, <1>7, <1>8, <1>9, <1>10 DEF GrInv

LEMMA GrAdd ==
  ASSUME GrInv, NEW c \in MlsCalls, addMLSMember(c)
  PROVE  GrInv'
<1> DEFINE g == mcall[c].grp
           p == mcall[c].profile
           l == mcall[c].leafIndex
<1>1. CASE leaf[g][p] < 0 /\ \E q \in Members : leaf[g][q] = l
  BY <1>1, GrFails DEF addMLSMember
<1>2. CASE ~ (leaf[g][p] < 0 /\ \E q \in Members : leaf[g][q] = l)
  <2>1. GrTypes /\ GrPlace(mcall[c]) /\ mcall[c] \in GrCalls /\ mcall[c].pc = "add"
    BY DEF GrInv, GrTypes, addMLSMember
  <2>2. g \in Groups /\ p \in Members /\ l \in -1 .. drawn + 1
    BY <2>1 DEF GrPlace, Existing, GrTypes
  <2>3. leaf' = [leaf EXCEPT ![g][p] = IF @ < 0 THEN l ELSE @]
    BY <1>2 DEF addMLSMember
  <2> HIDE DEF g, p, l
  <2>4. PICK i : i = IF leaf[g][p] < 0 THEN l ELSE leaf[g][p]
    OBVIOUS
  <2>5. i \in -1 .. drawn + 1
    BY <2>1, <2>2, <2>4 DEF GrTypes
  <2>6. leaf' = [leaf EXCEPT ![g] = [leaf[g] EXCEPT ![p] = i]]
    BY <2>1, <2>2, <2>3, <2>4 DEF GrTypes
  <2>7. \A x \in -1 .. drawn : x \in -1 .. drawn + 1
    BY <2>1 DEF GrTypes
  <2>8. [leaf[g] EXCEPT ![p] = i] \in [Members -> -1 .. drawn + 1]
    BY <2>1, <2>2, <2>5, <2>7 DEF GrTypes
  <2>9. leaf' \in [Groups -> [Members -> -1 .. drawn + 1]]
    BY <2>1, <2>2, <2>6, <2>7, <2>8 DEF GrTypes
  <2> QED BY <1>2, <2>1, <2>9, GrDraws DEF addMLSMember, g, p, l
<1> QED BY <1>1, <1>2

LEMMA GrRemove ==
  ASSUME GrInv, NEW c \in MlsCalls, RemoveLeaf(c)
  PROVE  GrInv'
<1> DEFINE g == mcall[c].grp
           p == mcall[c].profile
<1>1. CASE leaf[g][p] < 0
  BY <1>1, GrFails DEF RemoveLeaf
<1>2. CASE ~ leaf[g][p] < 0
  <2>1. GrTypes /\ GrPlace(mcall[c]) /\ mcall[c] \in GrCalls /\ mcall[c].pc = "remove"
    BY DEF GrInv, GrTypes, RemoveLeaf
  <2>2. g \in Groups /\ p \in Members
    BY <2>1 DEF GrPlace, Existing
  <2>3. leaf' = [leaf EXCEPT ![g][p] = -1]
    BY <1>2 DEF RemoveLeaf
  <2> HIDE DEF g, p
  <2>4. leaf' = [leaf EXCEPT ![g] = [leaf[g] EXCEPT ![p] = -1]]
    BY <2>1, <2>2, <2>3 DEF GrTypes
  <2>5. -1 \in -1 .. drawn + 1 /\ \A x \in -1 .. drawn : x \in -1 .. drawn + 1
    BY <2>1 DEF GrTypes
  <2>6. [leaf[g] EXCEPT ![p] = -1] \in [Members -> -1 .. drawn + 1]
    BY <2>1, <2>2, <2>5 DEF GrTypes
  <2>7. leaf' \in [Groups -> [Members -> -1 .. drawn + 1]]
    BY <2>1, <2>2, <2>4, <2>5, <2>6 DEF GrTypes
  <2> QED BY <1>2, <2>1, <2>7, GrDraws DEF RemoveLeaf, g, p
<1> QED BY <1>1, <1>2

(* What a row holds after it is written.                                   *)
LEMMA GrWritten ==
  ASSUME NEW q \in [exists : BOOLEAN, epoch : Nat, secret : Nat], NEW s \in Nat, NEW r,
         r = [q EXCEPT !.epoch = @ + 1, !.secret = s]
  PROVE  /\ r \in [exists : BOOLEAN, epoch : Nat, secret : Nat] /\ r.exists = q.exists
         /\ r.epoch = q.epoch + 1 /\ r.secret = s
<1>1. PICK e : e = q.epoch + 1
  OBVIOUS
<1>2. e \in Nat
  BY <1>1
<1>3. r = [q EXCEPT !.epoch = e, !.secret = s]
  BY <1>1
<1>4. r \in [exists : BOOLEAN, epoch : Nat, secret : Nat]
  BY <1>2, <1>3
<1>5. r.exists = q.exists /\ r.secret = s
  BY <1>3
<1>6. r.epoch = e
  BY <1>3
<1> QED BY <1>1, <1>4, <1>5, <1>6

LEMMA GrRow ==
  ASSUME GrTypes, NEW g \in Groups, NEW m \in Nat, drawn <= m,
         NEW r \in [exists : BOOLEAN, epoch : Nat, secret : Nat], r.exists = group[g].exists, r.secret <= m,
         NEW f, f = [group EXCEPT ![g] = r]
  PROVE  /\ f \in [Groups -> [exists : BOOLEAN, epoch : Nat, secret : 0 .. m]]
         /\ f[g] = r /\ \A h \in Groups : f[h].exists = group[h].exists
         /\ \A h \in Groups : h # g => f[h] = group[h]
<1>1. group \in [Groups -> [exists : BOOLEAN, epoch : Nat, secret : 0 .. m]]
  <2>1. drawn \in Nat
    BY DEF GrTypes
  <2>2. \A h \in Groups : group[h] \in [exists : BOOLEAN, epoch : Nat, secret : 0 .. m]
    BY <2>1 DEF GrTypes
  <2> QED BY <2>2 DEF GrTypes
<1>2. r \in [exists : BOOLEAN, epoch : Nat, secret : 0 .. m]
  OBVIOUS
<1> QED BY <1>1, <1>2

LEMMA GrAdvance ==
  ASSUME GrInv, NEW c \in MlsCalls, AdvanceEpochIfCurrent(c)
  PROVE  GrInv'
<1> DEFINE g == mcall[c].grp
<1>1. CASE group[g].epoch # mcall[c].epoch
  BY <1>1, GrFails DEF AdvanceEpochIfCurrent
<1>2. CASE group[g].epoch = mcall[c].epoch
  <2>1. /\ GrTypes /\ GrPlace(mcall[c]) /\ mcall[c] \in GrCalls /\ mcall[c].pc = "advance" /\ drawn \in Nat
        /\ UNCHANGED <<leaf, drawn, sealed, watcher, told>> /\ To(c, "broadcast")
        /\ group' = [group EXCEPT ![g].epoch = @ + 1, ![g].secret = mcall[c].secret]
    BY <1>2 DEF GrInv, GrTypes, AdvanceEpochIfCurrent
  <2>2. /\ g \in Existing /\ g \in Groups /\ mcall[c].secret \in Nat /\ mcall[c].secret <= drawn
        /\ mcall[c].secret = mcall[c].mark /\ mcall[c].op \in Membership /\ mcall[c].epoch \in Nat
    BY <2>1 DEF GrPlace, GrCalls, Existing
  <2> HIDE DEF g
  <2>3. PICK r : r = [group[g] EXCEPT !.epoch = @ + 1, !.secret = mcall[c].secret]
    OBVIOUS
  <2>4. /\ group' \in [Groups -> [exists : BOOLEAN, epoch : Nat, secret : 0 .. drawn]]
        /\ \A h \in Groups : group'[h].exists = group[h].exists
        /\ group'[g].epoch = mcall[c].epoch + 1 /\ group'[g].secret = mcall[c].secret
        /\ \A h \in Groups : h # g => group'[h] = group[h]
    <3>1. PICK s : s = mcall[c].secret
      OBVIOUS
    <3>2. group' = [group EXCEPT ![g] = r]
      BY <2>1, <2>2, <2>3 DEF GrTypes
    <3>3. /\ r \in [exists : BOOLEAN, epoch : Nat, secret : Nat] /\ r.exists = group[g].exists
          /\ r.epoch = group[g].epoch + 1 /\ r.secret = s
      <4>1. group[g] \in [exists : BOOLEAN, epoch : Nat, secret : Nat] /\ s \in Nat
        <5>1. group[g] \in [exists : BOOLEAN, epoch : Nat, secret : 0 .. drawn]
          BY <2>1, <2>2 DEF GrTypes
        <5> QED BY <5>1, <2>1, <2>2, <3>1
      <4>2. r = [group[g] EXCEPT !.epoch = @ + 1, !.secret = s]
        BY <2>3, <3>1
      <4> QED BY <4>1, <4>2, GrWritten
    <3>4. group[g].epoch = mcall[c].epoch
      BY <1>2 DEF g
    <3> QED BY <2>1, <2>2, <3>1, <3>2, <3>3, <3>4, GrRow
  <2>5. "broadcast" \in GrPcs
    BY DEF GrPcs
  <2>6. PICK n \in GrCalls :
         /\ mcall' = [mcall EXCEPT ![c] = n] /\ n.pc = "broadcast" /\ n.op = mcall[c].op
         /\ n.profile = mcall[c].profile /\ n.grp = mcall[c].grp /\ n.epoch = mcall[c].epoch
         /\ n.secret = mcall[c].secret /\ n.leafIndex = mcall[c].leafIndex
         /\ n.mark = mcall[c].mark /\ n.cipher = mcall[c].cipher
    BY <2>1, <2>5, GrTo
  <2>7. mcall' \in [MlsCalls -> GrCalls] /\ mcall'[c] = n /\ \A d \in MlsCalls : d # c => mcall'[d] = mcall[d]
    BY <2>1, <2>6 DEF GrTypes
  <2>8. GrTypes'
    BY <2>1, <2>4, <2>7 DEF GrTypes
  <2>9. Existing' = Existing /\ (GrSingle' <=> GrSingle)
    <3>1. Existing' = Existing
      BY <2>4 DEF Existing
    <3> QED BY <3>1 DEF GrSingle
  <2>10. \A h \in Groups : group[h].epoch <= group'[h].epoch /\ group[h].epoch \in Nat
    BY <2>1, <2>2, <2>4, <1>2 DEF GrTypes, g
  <2>11. ASSUME NEW d \in MlsCalls PROVE GrPlace(mcall[d])' /\ GrOpen(mcall[d])' /\ GrRenew(mcall[d])'
    <3>1. CASE d = c
      <4>1. GrPlace(mcall[d])'
        <5>1. /\ n.pc = "broadcast" /\ n.op \in Membership /\ n.grp = g /\ n.grp \in Existing'
              /\ n.secret <= drawn /\ n.mark <= drawn /\ drawn' = drawn /\ mcall'[d] = n
          BY <3>1, <2>1, <2>2, <2>6, <2>7, <2>9 DEF g
        <5>2. n.profile \in Members /\ n.leafIndex \in 0 .. drawn + 1
          BY <2>1, <2>6 DEF GrPlace
        <5>3. n.epoch <= group'[n.grp].epoch
          <6>1. n.epoch \in Nat /\ group'[n.grp].epoch = n.epoch + 1
            BY <2>2, <2>4, <2>6, <5>1
          <6> QED BY <6>1
        <5>4. n.op \notin {"none", "seal", "open"}
          BY <5>1 DEF Membership
        <5> QED BY <5>1, <5>2, <5>3, <5>4 DEF GrPlace
      <4>2. GrOpen(mcall[d])'
        BY <3>1, <2>2, <2>6, <2>7 DEF GrOpen, Membership
      <4>3. GrRenew(mcall[d])'
        BY <3>1, <2>2, <2>4, <2>6, <2>7 DEF GrRenew, g
      <4> QED BY <4>1, <4>2, <4>3
    <3>2. CASE d # c
      <4>1. mcall'[d] = mcall[d] /\ GrPlace(mcall[d]) /\ GrOpen(mcall[d]) /\ GrRenew(mcall[d]) /\ mcall[d] \in GrCalls
        BY <3>2, <2>1, <2>7 DEF GrInv, GrTypes
      <4>2. GrPlace(mcall[d])'
        <5>1. mcall[d].pc # "idle" => mcall[d].epoch <= group'[mcall[d].grp].epoch
          <6> SUFFICES ASSUME mcall[d].pc # "idle" PROVE mcall[d].epoch <= group'[mcall[d].grp].epoch
            OBVIOUS
          <6>1. mcall[d].grp \in Groups /\ mcall[d].epoch <= group[mcall[d].grp].epoch /\ mcall[d].epoch \in Nat
            BY <4>1 DEF GrPlace, Existing, GrCalls
          <6>2. group'[mcall[d].grp].epoch \in Nat
            BY <6>1, <2>4
          <6> QED BY <6>1, <6>2, <2>10
        <5> QED BY <5>1, <4>1, <2>1, <2>9 DEF GrPlace
      <4>3. GrOpen(mcall[d])'
        <5> SUFFICES ASSUME GrSingle PROVE GrOpen(mcall[d])'
          BY <2>9 DEF GrOpen
        <5>1. ASSUME mcall[d].pc # "idle" PROVE mcall[d].epoch # group'[mcall[d].grp].epoch
          <6>1. mcall[d].grp = g /\ mcall[d].epoch <= group[g].epoch /\ mcall[d].epoch \in Nat
            BY <4>1, <5>1, <2>2 DEF GrPlace, GrSingle, GrCalls
          <6> QED BY <6>1, <2>2, <2>4, <1>2 DEF g
        <5> QED BY <4>1, <5>1 DEF GrOpen
      <4>4. GrRenew(mcall[d])'
        <5> SUFFICES ASSUME GrChanged(mcall[d])
                     PROVE  mcall[d].epoch < group'[mcall[d].grp].epoch /\ mcall[d].mark <= group'[mcall[d].grp].secret
          BY <4>1 DEF GrRenew, GrChanged
        <5>1. /\ mcall[d].grp \in Groups /\ mcall[d].epoch < group[mcall[d].grp].epoch
              /\ mcall[d].mark <= group[mcall[d].grp].secret /\ mcall[d].epoch \in Nat /\ mcall[d].mark \in Nat
          BY <4>1 DEF GrRenew, GrChanged, GrPlace, Existing, GrCalls
        <5>2. CASE mcall[d].grp = g
          <6>1. mcall[c].secret > mcall[d].mark
            BY <5>1, <5>2, <1>2, <2>1, <2>2 DEF GrInv, GrAhead, g
          <6> QED BY <5>1, <5>2, <6>1, <1>2, <2>2, <2>4 DEF g
        <5>3. CASE mcall[d].grp # g
          BY <5>1, <5>3, <2>4
        <5> QED BY <5>2, <5>3
      <4> QED BY <4>2, <4>3, <4>4
    <3> QED BY <3>1, <3>2
  <2>12. GrSealed'
    <3> SUFFICES ASSUME NEW x \in sealed
                 PROVE  /\ x.grp \in Existing
                        /\ GrSingle => /\ x.epoch <= group'[x.grp].epoch /\ x.secret # 0
                                       /\ x.epoch = group'[x.grp].epoch => x.secret = group'[x.grp].secret
      <4>1. sealed' = sealed
        BY <2>1
      <4> QED BY <4>1, <2>9 DEF GrSealed
    <3>1. x.grp \in Existing /\ x \in GrCiphers
      BY <2>1 DEF GrInv, GrSealed, GrTypes
    <3>2. ASSUME GrSingle
          PROVE  x.epoch <= group'[x.grp].epoch /\ x.secret # 0 /\ x.epoch # group'[x.grp].epoch
      <4>1. x.grp = g /\ x.epoch <= group[g].epoch /\ x.secret # 0 /\ x.epoch \in Nat
        BY <3>1, <3>2, <2>2 DEF GrInv, GrSealed, GrSingle, GrCiphers
      <4> QED BY <4>1, <2>2, <2>4, <1>2 DEF g
    <3> QED BY <3>1, <3>2
  <2>13. GrAhead'
    <3> SUFFICES ASSUME NEW a \in MlsCalls, NEW b \in MlsCalls, GrChanged(mcall'[a]),
                        mcall'[b].pc = "advance", mcall'[b].grp = mcall'[a].grp,
                        mcall'[b].epoch > mcall'[a].epoch
                 PROVE  mcall'[b].secret > mcall'[a].mark
      BY DEF GrAhead, GrChanged
    <3>1. b # c /\ mcall'[b] = mcall[b] /\ GrPlace(mcall[b]) /\ mcall[b] \in GrCalls
      BY <2>1, <2>6, <2>7 DEF GrInv, GrTypes
    <3>2. CASE a = c
      <4>1. mcall[b].grp = g /\ mcall[b].epoch > mcall[c].epoch /\ mcall[b].epoch <= group[g].epoch
        BY <3>1, <3>2, <2>6, <2>7 DEF GrPlace, g
      <4>2. mcall[b].epoch \in Nat
        BY <3>1 DEF GrCalls
      <4> QED BY <4>1, <4>2, <1>2, <2>2 DEF g
    <3>3. CASE a # c
      BY <3>1, <3>3, <2>7 DEF GrInv, GrAhead
    <3> QED BY <3>2, <3>3
  <2>14. NoChangeMissed'
    BY <2>1, <2>6, <2>7 DEF GrInv, NoChangeMissed
  <2> QED BY <2>8, <2>11, <2>12, <2>13, <2>14 DEF GrInv
<1> QED BY <1>1, <1>2

(* An old row is given its secret.                                         *)
LEMMA GrBackfill ==
  ASSUME GrInv, NEW c \in MlsCalls, SetGroupSecretIfAbsent(c)
  PROVE  GrInv'
<1> DEFINE g == mcall[c].grp
<1>1. /\ GrTypes /\ GrPlace(mcall[c]) /\ GrOpen(mcall[c]) /\ mcall[c] \in GrCalls /\ mcall[c].pc = "backfill" /\ drawn \in Nat
      /\ UNCHANGED <<leaf, sealed, watcher, told>> /\ To(c, "reread") /\ drawn' = drawn + 1
      /\ group' = [group EXCEPT ![g].secret = IF @ = 0 THEN drawn' ELSE @]
  BY DEF GrInv, GrTypes, SetGroupSecretIfAbsent
<1>2. g \in Existing /\ g \in Groups /\ mcall[c].op \in {"seal", "open"}
  BY <1>1 DEF GrPlace, Existing
<1> HIDE DEF g
<1>3. PICK s : s = IF group[g].secret = 0 THEN drawn' ELSE group[g].secret
  OBVIOUS
<1>4. PICK r : r = [group[g] EXCEPT !.secret = s]
  OBVIOUS
<1>5. /\ group[g] \in [exists : BOOLEAN, epoch : Nat, secret : Nat] /\ group[g].secret <= drawn
      /\ s \in Nat /\ s <= drawn' /\ s >= group[g].secret /\ (group[g].secret # 0 => s = group[g].secret) /\ s # 0
  <2>1. group[g] \in [exists : BOOLEAN, epoch : Nat, secret : 0 .. drawn]
    BY <1>1, <1>2 DEF GrTypes
  <2>2. PICK o : o = group[g].secret
    OBVIOUS
  <2>3. o \in 0 .. drawn
    BY <2>1, <2>2
  <2>4. s \in Nat /\ s <= drawn' /\ s >= o /\ (o # 0 => s = o) /\ s # 0 /\ o <= drawn
    BY <2>2, <2>3, <1>1, <1>3
  <2>5. group[g] \in [exists : BOOLEAN, epoch : Nat, secret : Nat]
    BY <2>1, <1>1
  <2> QED BY <2>2, <2>4, <2>5
<1>6. /\ r \in [exists : BOOLEAN, epoch : Nat, secret : Nat] /\ r.exists = group[g].exists
      /\ r.epoch = group[g].epoch /\ r.secret = s
  BY <1>4, <1>5
<1>7. group' = [group EXCEPT ![g] = r]
  BY <1>1, <1>2, <1>3, <1>4 DEF GrTypes
<1>8. /\ group' \in [Groups -> [exists : BOOLEAN, epoch : Nat, secret : 0 .. drawn']]
      /\ group'[g] = r /\ \A h \in Groups : group'[h].exists = group[h].exists
      /\ \A h \in Groups : h # g => group'[h] = group[h]
  <2>1. PICK m : m = drawn'
    OBVIOUS
  <2>2. m \in Nat /\ drawn <= m /\ r.secret <= m
    BY <2>1, <1>1, <1>5, <1>6
  <2>3. PICK f : f = group'
    OBVIOUS
  <2>4. /\ f \in [Groups -> [exists : BOOLEAN, epoch : Nat, secret : 0 .. m]]
        /\ f[g] = r /\ \A h \in Groups : f[h].exists = group[h].exists
        /\ \A h \in Groups : h # g => f[h] = group[h]
    <3>1. GrTypes
      BY <1>1
    <3>2. f = [group EXCEPT ![g] = r]
      BY <2>3, <1>7
    <3>3. r \in [exists : BOOLEAN, epoch : Nat, secret : Nat] /\ r.exists = group[g].exists
      BY <1>6
    <3>4. m \in Nat /\ drawn <= m /\ r.secret <= m /\ g \in Groups
      BY <2>2, <1>2
    <3>5. group \in [Groups -> [exists : BOOLEAN, epoch : Nat, secret : 0 .. m]]
      <4>1. \A h \in Groups : group[h] \in [exists : BOOLEAN, epoch : Nat, secret : 0 .. m]
        BY <3>1, <3>4, <1>1 DEF GrTypes
      <4> QED BY <4>1, <3>1 DEF GrTypes
    <3>6. r \in [exists : BOOLEAN, epoch : Nat, secret : 0 .. m]
      BY <3>3, <3>4
    <3> QED BY <3>2, <3>3, <3>5, <3>6, <3>4
  <2> QED BY <2>1, <2>3, <2>4
<1>9. "reread" \in GrPcs
  BY DEF GrPcs
<1>10. PICK n \in GrCalls :
         /\ mcall' = [mcall EXCEPT ![c] = n] /\ n.pc = "reread" /\ n.op = mcall[c].op
         /\ n.profile = mcall[c].profile /\ n.grp = mcall[c].grp /\ n.epoch = mcall[c].epoch
         /\ n.secret = mcall[c].secret /\ n.leafIndex = mcall[c].leafIndex
         /\ n.mark = mcall[c].mark /\ n.cipher = mcall[c].cipher
  BY <1>1, <1>9, GrTo
<1>11. /\ mcall' \in [MlsCalls -> GrCalls]
       /\ \A d \in MlsCalls :
            /\ mcall'[d].op = mcall[d].op /\ mcall'[d].profile = mcall[d].profile /\ mcall'[d].grp = mcall[d].grp
            /\ mcall'[d].epoch = mcall[d].epoch /\ mcall'[d].secret = mcall[d].secret
            /\ mcall'[d].leafIndex = mcall[d].leafIndex /\ mcall'[d].mark = mcall[d].mark
            /\ mcall'[d].cipher = mcall[d].cipher
            /\ (mcall'[d].pc = mcall[d].pc \/ (mcall'[d].pc = "reread" /\ mcall[d].pc = "backfill"))
  BY <1>1, <1>10 DEF GrTypes
<1>12. GrTypes'
  <2>1. -1 .. drawn \subseteq -1 .. drawn'
    BY <1>1
  <2>2. leaf' \in [Groups -> [Members -> -1 .. drawn']]
    <3>1. \A h \in Groups : leaf[h] \in [Members -> -1 .. drawn']
      BY <2>1, <1>1 DEF GrTypes
    <3> QED BY <3>1, <1>1 DEF GrTypes
  <2> QED BY <2>2, <1>1, <1>8, <1>11 DEF GrTypes
<1>13. Existing' = Existing /\ (GrSingle' <=> GrSingle)
  <2>1. Existing' = Existing
    BY <1>8 DEF Existing
  <2> QED BY <2>1 DEF GrSingle
<1>14. \A h \in Groups : group'[h].epoch = group[h].epoch /\ group[h].secret <= group'[h].secret
  BY <1>1, <1>5, <1>6, <1>8 DEF GrTypes
<1>15. GrSingle => \A h \in Existing : h = g /\ (group[h].secret # 0 => group'[h].secret = group[h].secret)
  BY <1>2, <1>5, <1>6, <1>8 DEF GrSingle
<1>16. ASSUME NEW d \in MlsCalls PROVE GrPlace(mcall[d])' /\ GrOpen(mcall[d])' /\ GrRenew(mcall[d])'
  <2>1. GrPlace(mcall[d]) /\ GrOpen(mcall[d]) /\ GrRenew(mcall[d]) /\ mcall[d] \in GrCalls
    BY <1>1 DEF GrInv, GrTypes
  <2>2. /\ mcall'[d].op = mcall[d].op /\ mcall'[d].profile = mcall[d].profile /\ mcall'[d].grp = mcall[d].grp
        /\ mcall'[d].epoch = mcall[d].epoch /\ mcall'[d].secret = mcall[d].secret
        /\ mcall'[d].leafIndex = mcall[d].leafIndex /\ mcall'[d].mark = mcall[d].mark
        /\ mcall'[d].cipher = mcall[d].cipher
        /\ (mcall'[d].pc = mcall[d].pc \/ (mcall'[d].pc = "reread" /\ mcall[d].pc = "backfill"))
    BY <1>11
  <2>3. mcall[d].pc # "idle" => mcall[d].grp \in Groups /\ mcall[d].grp \in Existing
    BY <2>1 DEF GrPlace, Existing
  <2>4. GrPlace(mcall[d])'
    <3>1. mcall[d].secret <= drawn' /\ mcall[d].mark <= drawn' /\ mcall[d].leafIndex \in 0 .. drawn' + 1
      BY <2>1, <1>1 DEF GrPlace, GrCalls
    <3> QED BY <3>1, <2>1, <2>2, <2>3, <1>13, <1>14 DEF GrPlace
  <2>5. GrOpen(mcall[d])'
    <3> SUFFICES ASSUME GrSingle PROVE GrOpen(mcall[d])'
      BY <1>13 DEF GrOpen
    <3>1. CASE mcall[d].op = "seal"
      BY <3>1, <2>1, <2>2, <2>3, <1>14, <1>15 DEF GrOpen
    <3>2. CASE mcall[d].op = "open"
      BY <3>2, <2>1, <2>2 DEF GrOpen
    <3> QED BY <3>1, <3>2, <2>2 DEF GrOpen
  <2>6. GrRenew(mcall[d])'
    <3> SUFFICES ASSUME GrChanged(mcall[d])
                 PROVE  mcall[d].epoch < group'[mcall[d].grp].epoch /\ mcall[d].mark <= group'[mcall[d].grp].secret
      BY <2>2 DEF GrRenew, GrChanged
    <3>1. mcall[d].grp \in Groups /\ mcall[d].epoch < group[mcall[d].grp].epoch
          /\ mcall[d].mark <= group[mcall[d].grp].secret /\ mcall[d].mark \in Nat
      BY <2>1, <2>3 DEF GrRenew, GrChanged, GrCalls
    <3>2. group[mcall[d].grp].secret \in Nat /\ group'[mcall[d].grp].secret \in Nat
      BY <3>1, <1>1, <1>8 DEF GrTypes
    <3> QED BY <3>1, <3>2, <1>14
  <2> QED BY <2>4, <2>5, <2>6
<1>17. GrSealed'
  <2> SUFFICES ASSUME NEW x \in sealed
               PROVE  /\ x.grp \in Existing
                      /\ GrSingle => /\ x.epoch <= group'[x.grp].epoch /\ x.secret # 0
                                     /\ x.epoch = group'[x.grp].epoch => x.secret = group'[x.grp].secret
    <3>1. sealed' = sealed
      BY <1>1
    <3> QED BY <3>1, <1>13 DEF GrSealed
  <2>1. x.grp \in Existing /\ x.grp \in Groups
    BY DEF GrInv, GrSealed, Existing
  <2> QED BY <2>1, <1>14, <1>15 DEF GrInv, GrSealed
<1>18. GrAhead'
  <2> SUFFICES ASSUME NEW a \in MlsCalls, NEW b \in MlsCalls, GrChanged(mcall'[a]),
                      mcall'[b].pc = "advance", mcall'[b].grp = mcall'[a].grp,
                      mcall'[b].epoch > mcall'[a].epoch
               PROVE  mcall'[b].secret > mcall'[a].mark
    BY DEF GrAhead, GrChanged
  <2>1. GrChanged(mcall[a]) /\ mcall[b].pc = "advance" /\ mcall[b].grp = mcall[a].grp /\ mcall[b].epoch > mcall[a].epoch
    BY <1>11 DEF GrChanged
  <2>2. mcall[b].secret > mcall[a].mark
    BY <2>1 DEF GrInv, GrAhead
  <2> QED BY <2>2, <1>11
<1>19. NoChangeMissed'
  BY <1>1, <1>11 DEF GrInv, NoChangeMissed
<1> QED BY <1>12, <1>16, <1>17, <1>18, <1>19 DEF GrInv

(* A message is sealed.                                                    *)
LEMMA GrEncrypt ==
  ASSUME GrInv, NEW c \in MlsCalls, Encrypt(c)
  PROVE  GrInv'
<1>1. /\ GrTypes /\ GrPlace(mcall[c]) /\ GrOpen(mcall[c]) /\ mcall[c] \in GrCalls /\ mcall[c].pc = "seal"
      /\ UNCHANGED <<group, leaf, drawn, watcher, told>> /\ To(c, "done") /\ mcall[c].op = "seal"
  BY DEF GrInv, GrTypes, Encrypt, GrPlace
<1>2. PICK x : x = [grp |-> mcall[c].grp, epoch |-> mcall[c].epoch, secret |-> mcall[c].secret]
  OBVIOUS
<1>3. x \in GrCiphers /\ x.grp = mcall[c].grp /\ x.epoch = mcall[c].epoch /\ x.secret = mcall[c].secret
      /\ x.grp \in Existing /\ sealed' = sealed \union {x}
  BY <1>1, <1>2 DEF Encrypt, GrPlace, GrCalls, GrCiphers, Existing
<1>4. "done" \in GrPcs
  BY DEF GrPcs
<1>5. PICK n \in GrCalls :
         /\ mcall' = [mcall EXCEPT ![c] = n] /\ n.pc = "done" /\ n.op = mcall[c].op
         /\ n.profile = mcall[c].profile /\ n.grp = mcall[c].grp /\ n.epoch = mcall[c].epoch
         /\ n.secret = mcall[c].secret /\ n.leafIndex = mcall[c].leafIndex
         /\ n.mark = mcall[c].mark /\ n.cipher = mcall[c].cipher
  BY <1>1, <1>4, GrTo
<1>6. mcall' \in [MlsCalls -> GrCalls] /\ mcall'[c] = n /\ \A d \in MlsCalls : d # c => mcall'[d] = mcall[d]
  BY <1>1, <1>5 DEF GrTypes
<1>7. GrTypes'
  BY <1>1, <1>3, <1>6 DEF GrTypes
<1>8. Existing' = Existing /\ (GrSingle' <=> GrSingle)
  BY <1>1 DEF Existing, GrSingle
<1>9. ASSUME NEW d \in MlsCalls PROVE GrPlace(mcall[d])' /\ GrOpen(mcall[d])' /\ GrRenew(mcall[d])'
  <2>1. CASE d = c
    BY <2>1, <1>1, <1>5, <1>6, <1>8 DEF GrPlace, GrOpen, GrRenew, GrChanged, Membership
  <2>2. CASE d # c
    BY <2>2, <1>1, <1>6, <1>8 DEF GrInv, GrPlace, GrOpen, GrRenew, GrChanged
  <2> QED BY <2>1, <2>2
<1>10. GrSealed'
  <2> SUFFICES ASSUME NEW y \in sealed'
               PROVE  /\ y.grp \in Existing
                      /\ GrSingle => /\ y.epoch <= group[y.grp].epoch /\ y.secret # 0
                                     /\ y.epoch = group[y.grp].epoch => y.secret = group[y.grp].secret
    <3>1. group' = group
      BY <1>1
    <3> QED BY <3>1, <1>8 DEF GrSealed
  <2>1. CASE y = x
    BY <2>1, <1>1, <1>3 DEF GrPlace, GrOpen
  <2>2. CASE y \in sealed
    BY <2>2 DEF GrInv, GrSealed
  <2> QED BY <2>1, <2>2, <1>3
<1>11. GrAhead'
  <2> SUFFICES ASSUME NEW a \in MlsCalls, NEW b \in MlsCalls, GrChanged(mcall'[a]),
                      mcall'[b].pc = "advance", mcall'[b].grp = mcall'[a].grp,
                      mcall'[b].epoch > mcall'[a].epoch
               PROVE  mcall'[b].secret > mcall'[a].mark
    BY DEF GrAhead, GrChanged
  <2>1. a # c /\ b # c
    BY <1>1, <1>5, <1>6 DEF GrChanged, Membership
  <2> QED BY <2>1, <1>6 DEF GrInv, GrAhead
<1>12. NoChangeMissed'
  BY <1>1, <1>5, <1>6 DEF GrInv, NoChangeMissed, Membership
<1> QED BY <1>7, <1>9, <1>10, <1>11, <1>12 DEF GrInv

(* A group is made: the only one when no request has begun.                *)
LEMMA GrCreate ==
  ASSUME GrInv, NEW c \in MlsCalls, NEW p \in Members, CreateGroup(c, p)
  PROVE  GrInv'
<1>1. PICK g \in Groups \ Existing :
        /\ mcall[c].pc = "idle" /\ drawn' = drawn + 1
        /\ persistGroupAndCreator(g, p, drawn')
        /\ mcall' = [mcall EXCEPT ![c] = [IdleCall EXCEPT !.pc = "broadcast", !.op = "create", !.profile = p, !.grp = g]]
        /\ UNCHANGED <<sealed, watcher, told>>
  BY DEF CreateGroup
<1>2. GrTypes /\ drawn \in Nat /\ drawn' \in Nat /\ drawn < drawn'
  BY <1>1 DEF GrInv, GrTypes
<1>3. /\ group' \in [Groups -> [exists : BOOLEAN, epoch : Nat, secret : 0 .. drawn']]
      /\ group'[g].exists /\ group'[g].epoch = 0 /\ group'[g].secret = drawn'
      /\ \A h \in Groups : h # g => group'[h] = group[h]
  <2>1. group \in [Groups -> [exists : BOOLEAN, epoch : Nat, secret : 0 .. drawn']]
    <3>1. \A h \in Groups : group[h] \in [exists : BOOLEAN, epoch : Nat, secret : 0 .. drawn']
      BY <1>2 DEF GrTypes
    <3> QED BY <3>1, <1>2 DEF GrTypes
  <2>2. PICK r : r = [exists |-> TRUE, epoch |-> 0, secret |-> drawn']
    OBVIOUS
  <2>3. r \in [exists : BOOLEAN, epoch : Nat, secret : 0 .. drawn'] /\ r.exists /\ r.epoch = 0 /\ r.secret = drawn'
    BY <2>2, <1>2
  <2>4. group' = [group EXCEPT ![g] = r]
    BY <1>1, <2>2 DEF persistGroupAndCreator
  <2> QED BY <2>1, <2>3, <2>4
<1>4. leaf' \in [Groups -> [Members -> -1 .. drawn']]
  <2>1. PICK f : f = [q \in Members |-> IF q = p THEN 0 ELSE -1]
    OBVIOUS
  <2>2. 0 \in -1 .. drawn' /\ -1 \in -1 .. drawn' /\ -1 .. drawn \subseteq -1 .. drawn'
    BY <1>2, <1>1
  <2>3. f \in [Members -> -1 .. drawn']
    BY <2>1, <2>2
  <2>4. \A h \in Groups : leaf[h] \in [Members -> -1 .. drawn']
    BY <2>2, <1>2 DEF GrTypes
  <2>5. leaf' = [leaf EXCEPT ![g] = f]
    BY <1>1, <2>1 DEF persistGroupAndCreator
  <2> QED BY <1>2, <2>3, <2>4, <2>5 DEF GrTypes
<1>5. PICK n : n = [IdleCall EXCEPT !.pc = "broadcast", !.op = "create", !.profile = p, !.grp = g]
  OBVIOUS
<1>6. n \in GrCalls
  <2>1. "broadcast" \in GrPcs /\ "create" \in GrOps /\ 0 \in Nat /\ "none" \in GrCiphers \union {"none"}
    BY DEF GrPcs, GrOps
  <2>2. [IdleCall EXCEPT !.pc = "broadcast", !.op = "create", !.profile = p, !.grp = g] \in GrCalls
    BY <2>1, GrBegun
  <2> QED BY <1>5, <2>2
<1>7. /\ n.pc = "broadcast" /\ n.op = "create" /\ n.profile = p /\ n.grp = g /\ n.epoch = 0 /\ n.secret = 0
      /\ n.leafIndex = 0 /\ n.mark = 0
  BY <1>5 DEF IdleCall
<1>8. mcall' \in [MlsCalls -> GrCalls] /\ mcall'[c] = n /\ \A d \in MlsCalls : d # c => mcall'[d] = mcall[d]
  BY <1>1, <1>2, <1>5, <1>6 DEF GrTypes
<1>9. GrTypes'
  BY <1>1, <1>2, <1>3, <1>4, <1>8 DEF GrTypes
<1>10. Existing' = Existing \union {g}
  BY <1>1, <1>3 DEF Existing
<1>11. GrSingle' => Existing = {}
  BY <1>1, <1>10 DEF GrSingle
<1>12. \A h \in Existing : h \in Groups /\ h \in Existing' /\ group'[h] = group[h]
  BY <1>1, <1>3, <1>10 DEF Existing
<1>13. ASSUME NEW d \in MlsCalls PROVE GrPlace(mcall[d])' /\ GrOpen(mcall[d])' /\ GrRenew(mcall[d])'
  <2>1. CASE d = c
    BY <2>1, <1>2, <1>3, <1>7, <1>8, <1>10 DEF GrPlace, GrOpen, GrRenew, GrChanged, Membership
  <2>2. CASE d # c
    <3>1. mcall'[d] = mcall[d] /\ GrPlace(mcall[d]) /\ GrOpen(mcall[d]) /\ GrRenew(mcall[d]) /\ mcall[d] \in GrCalls
      BY <2>2, <1>2, <1>8 DEF GrInv, GrTypes
    <3>2. mcall[d].secret <= drawn' /\ mcall[d].mark <= drawn' /\ mcall[d].leafIndex \in 0 .. drawn' + 1
      BY <3>1, <1>1, <1>2 DEF GrPlace, GrCalls
    <3>3. GrPlace(mcall[d])'
      BY <3>1, <3>2, <1>12 DEF GrPlace
    <3>4. GrOpen(mcall[d])'
      <4> SUFFICES ASSUME Existing = {} PROVE GrOpen(mcall[d])'
        BY <1>11 DEF GrOpen
      <4>1. mcall[d].op = "none"
        BY <3>1 DEF GrPlace
      <4> QED BY <3>1, <4>1 DEF GrOpen
    <3>5. GrRenew(mcall[d])'
      BY <3>1, <1>12 DEF GrRenew, GrChanged, GrPlace
    <3> QED BY <3>3, <3>4, <3>5
  <2> QED BY <2>1, <2>2
<1>14. GrSealed'
  <2>1. sealed' = sealed
    BY <1>1
  <2>2. \A x \in sealed : x.grp \in Existing
    BY DEF GrInv, GrSealed
  <2> QED BY <2>1, <2>2, <1>11, <1>12 DEF GrSealed
<1>15. GrAhead'
  <2> SUFFICES ASSUME NEW a \in MlsCalls, NEW b \in MlsCalls, GrChanged(mcall'[a]),
                      mcall'[b].pc = "advance", mcall'[b].grp = mcall'[a].grp,
                      mcall'[b].epoch > mcall'[a].epoch
               PROVE  mcall'[b].secret > mcall'[a].mark
    BY DEF GrAhead, GrChanged
  <2>1. a # c /\ b # c
    BY <1>7, <1>8 DEF GrChanged, Membership
  <2> QED BY <2>1, <1>8 DEF GrInv, GrAhead
<1>16. NoChangeMissed'
  BY <1>1, <1>7, <1>8 DEF GrInv, NoChangeMissed
<1> QED BY <1>9, <1>13, <1>14, <1>15, <1>16 DEF GrInv

LEMMA GrInit == MlsInit => GrInv
<1> SUFFICES ASSUME MlsInit PROVE GrInv
  OBVIOUS
<1>1. drawn = 0 /\ sealed = {} /\ watcher = "off" /\ told = {} /\ mcall = [c \in MlsCalls |-> IdleCall]
  BY DEF MlsInit
<1>2. IdleCall \in GrCalls
  <2>1. "idle" \in GrPcs /\ "none" \in GrOps
    BY DEF GrPcs, GrOps
  <2> QED BY <2>1 DEF IdleCall, GrCalls
<1>3. group \in [Groups -> [exists : BOOLEAN, epoch : Nat, secret : 0 .. 0]]
  <2>1. \A b \in BOOLEAN : [exists |-> b, epoch |-> 0, secret |-> 0] \in [exists : BOOLEAN, epoch : Nat, secret : 0 .. 0]
    OBVIOUS
  <2>2. CASE group = [g \in Groups |-> [exists |-> FALSE, epoch |-> 0, secret |-> 0]]
    BY <2>1, <2>2
  <2>3. CASE \E old \in Groups : group = [g \in Groups |-> [exists |-> g = old, epoch |-> 0, secret |-> 0]]
    <3>1. PICK old \in Groups : group = [g \in Groups |-> [exists |-> g = old, epoch |-> 0, secret |-> 0]]
      BY <2>3
    <3>2. \A g \in Groups : group[g] \in [exists : BOOLEAN, epoch : Nat, secret : 0 .. 0]
      BY <2>1, <3>1
    <3> QED BY <3>1, <3>2
  <2> QED BY <2>2, <2>3 DEF MlsInit
<1>4. leaf \in [Groups -> [Members -> -1 .. 0]]
  BY DEF MlsInit
<1>5. GrTypes
  BY <1>1, <1>2, <1>3, <1>4 DEF GrTypes
<1>6. \A c \in MlsCalls : GrPlace(mcall[c]) /\ GrOpen(mcall[c]) /\ GrRenew(mcall[c])
  BY <1>1 DEF GrPlace, GrOpen, GrRenew, GrChanged, IdleCall, Membership
<1>7. GrSealed /\ GrAhead /\ NoChangeMissed
  BY <1>1 DEF GrSealed, GrAhead, NoChangeMissed, GrChanged, IdleCall, Membership
<1> QED BY <1>5, <1>6, <1>7 DEF GrInv

LEMMA GrStep ==
  ASSUME GrInv, [MlsNext]_mlsVars
  PROVE  GrInv'
<1>1. CASE UNCHANGED mlsVars
  BY <1>1 DEF mlsVars, GrInv, GrTypes, GrPlace, GrOpen, GrRenew, GrChanged, GrSingle, GrSealed, GrAhead,
              NoChangeMissed, Existing
<1>2. CASE MLSEvents \/ sendWelcome
  BY <1>2, GrStream
<1>3. ASSUME NEW c \in MlsCalls, NEW p \in Members,
             CreateGroup(c, p) \/ OpenBegin(c, p) \/ \E op \in Membership \cup {"seal"} : GetByWorkspace(c, op, p)
      PROVE  GrInv'
  BY <1>3, GrCreate, GrOpenBegin, GrGetByWorkspace
<1>4. ASSUME NEW c \in MlsCalls,
             \/ NextLeaf(c) \/ addMLSMember(c) \/ RemoveLeaf(c) \/ AdvanceEpochIfCurrent(c) \/ broadcast(c)
             \/ CheckMember(c) \/ SetGroupSecretIfAbsent(c) \/ groupKeyMaterial(c) \/ Encrypt(c) \/ Decrypt(c)
      PROVE  GrInv'
  BY <1>4, GrNextLeaf, GrAdd, GrRemove, GrAdvance, GrBroadcast, GrCheckMember, GrBackfill, GrReread,
     GrEncrypt, GrDecrypt
<1> QED BY <1>1, <1>2, <1>3, <1>4 DEF MlsNext

(* What the invariant says of the properties of the run.                   *)
LEMMA GrSound ==
  ASSUME GrInv
  PROVE  MlsTypeOK /\ EpochOpens /\ SecretRenewed /\ NoChangeMissed
<1>1. MlsTypeOK
  BY DEF GrInv, GrTypes, MlsTypeOK
<1>2. EpochOpens
  <2> SUFFICES ASSUME Cardinality(Existing) = 1, NEW c \in MlsCalls PROVE mcall[c].pc # "failed"
    BY DEF EpochOpens
  <2>1. IsFiniteSet(Existing)
    BY GroupsAssumption, FS_Subset DEF Existing
  <2>2. GrSingle
    <3>1. \E g : Existing = {g}
      BY <2>1, FS_Singleton
    <3> QED BY <3>1 DEF GrSingle
  <2> QED BY <2>2 DEF GrInv, GrPlace, GrOpen
<1>3. SecretRenewed
  <2> SUFFICES ASSUME NEW c \in MlsCalls, GrChanged(mcall[c])
               PROVE  group[mcall[c].grp].secret >= mcall[c].mark
    BY DEF SecretRenewed, GrChanged
  <2>1. mcall[c].mark <= group[mcall[c].grp].secret
    BY DEF GrInv, GrRenew
  <2> QED BY <2>1
<1> QED BY <1>1, <1>2, <1>3 DEF GrInv

\* The members of the one group a workspace should have read what is sent,
\* every change of membership draws a secret, and a live stream is told of it.
THEOREM EpochsSound == MlsSpec => [](MlsTypeOK /\ EpochOpens /\ SecretRenewed /\ NoChangeMissed)
<1>1. GrInv => MlsTypeOK /\ EpochOpens /\ SecretRenewed /\ NoChangeMissed
  BY GrSound
<1>2. GrInv /\ [MlsNext]_mlsVars => GrInv'
  BY GrStep
<1> QED BY GrInit, <1>1, <1>2, PTL DEF MlsSpec

-----------------------------------------------------------------------------
(* SQLite files *)

FsFiles == Openers \union Exporters \union {FoundFile}
FsInodes ==
  [applied : SUBSET Nat, tables : SUBSET Nat, rows : SUBSET SourceRows, empty : BOOLEAN, corrupt : BOOLEAN]
FsOpeners ==
  [at : {"down", "opened", "checked", "current", "applying", "ready"}, file : FsFiles \union {NoFile}, done : SUBSET Nat]
FsExporters ==
  [at : {"down", "inspected", "temp", "copying", "copied", "verified"}, snap : SUBSET SourceRows, copied : 0 .. 4,
   buffer : SUBSET SourceRows, during : SUBSET (SUBSET SourceRows)]

FsTypes ==
  /\ pgRows \in SUBSET SourceRows /\ writes \in 0 .. MaxWrites
  /\ inode \in [FsFiles -> FsInodes] /\ target \in FsFiles \union {NoFile}
  /\ opener \in [Openers -> FsOpeners] /\ exporter \in [Exporters -> FsExporters]
  /\ tmpLeft \subseteq Exporters

(* A file has a prefix of the migrations.                                  *)
FsPrefix(y) == \E n \in Nat : y.applied = 1 .. n /\ y.tables \ {Foreign} = 1 .. n

(* What an opener that stands at x knows of its file y.                    *)
FsKnows(o, x, y) ==
  /\ x.at # "down" => x.file \in FsFiles
  /\ x.at \in {"checked", "current", "applying", "ready"} => ~y.corrupt
  /\ x.at = "applying" => x.done \subseteq y.applied /\ \E k \in Nat : x.done = 1 .. k
  /\ x.at = "ready" => 1 .. BinaryVersion[o] \subseteq y.tables /\ Foreign \notin y.tables

(* A file is at large once it is at the path or somebody has it open ...   *)
FsAtLarge(f) == f = target \/ \E o \in Openers : opener[o].at # "down" /\ opener[o].file = f

(* ... which an exporter's is after its export only; another one is refused. *)
FsReleased ==
  \A e \in Exporters : FsAtLarge(e) =>
    exporter[e].at = "down" /\ target # NoFile /\ ~inode[target].empty

(* How far an export has got: its buffer has the tables copied so far of   *)
(* its snapshot, which PostgreSQL held meanwhile.                          *)
FsExport(e, x, y) ==
  /\ x.at # "down" => pgRows \in x.during
  /\ x.at \in {"down", "inspected", "temp"} => x.copied = 0
  /\ x.copied # 0 => x.snap \in x.during
  /\ x.buffer = {r \in x.snap : \E i \in 1 .. x.copied : RowTable[r] = CopyOrder[i]}
  /\ x.at \in {"copying", "copied", "verified"} => ~y.empty /\ 1 .. BinaryVersion[e] \subseteq y.tables
  /\ x.at \in {"copied", "verified"} => x.copied = 4 /\ y.rows = x.buffer /\ Closed(y.rows)
  /\ x.at = "verified" => x.snap \intersect BadHashRows = {}

(* What is published is whole.                                             *)
FsPublished ==
  target \in Exporters =>
    /\ Closed(inode[target].rows) /\ inode[target].rows \intersect BadHashRows = {}
    /\ 1 .. BinaryVersion[target] \subseteq inode[target].tables

FsInv ==
  /\ FsTypes
  /\ \A f \in FsFiles : FsPrefix(inode[f])
  /\ \A o \in Openers : FsKnows(o, opener[o], inode[opener[o].file])
  /\ \A e \in Exporters : FsExport(e, exporter[e], inode[e])
  /\ FsReleased /\ FsPublished

(* A file that only gained migrations.                                     *)
FsGrown(y, z) ==
  /\ y.applied \subseteq z.applied /\ y.tables \subseteq z.tables /\ (Foreign \in z.tables => Foreign \in y.tables)
  /\ z.rows = y.rows /\ z.corrupt = y.corrupt /\ (~y.empty => ~z.empty)

LEMMA FsInit == FilesInit => FsInv
<1> SUFFICES ASSUME FilesInit PROVE FsInv
  OBVIOUS
<1>1. PICK found \in FoundFiles : inode = [f \in FsFiles |-> IF f = FoundFile THEN found ELSE NewFile]
  BY DEF FilesInit, FsFiles
<1>2. NewFile \in FsInodes /\ NewFile.applied = {} /\ NewFile.tables = {}
  BY DEF NewFile, FsInodes
<1>3. found \in FsInodes /\ found.applied = {} /\ found.tables \ {Foreign} = {}
  <2>0. {Foreign} \in SUBSET Nat
    BY DEF Foreign
  <2>1. [NewFile EXCEPT !.empty = FALSE, !.tables = {Foreign}] \in FsInodes
    BY <1>2, <2>0 DEF FsInodes
  <2>2. [NewFile EXCEPT !.empty = FALSE, !.corrupt = TRUE] \in FsInodes
    BY DEF NewFile, FsInodes
  <2> QED BY <1>2, <2>1, <2>2 DEF FoundFiles, NewFile
<1>4. inode \in [FsFiles -> FsInodes] /\ \A f \in FsFiles : inode[f] = found \/ inode[f] = NewFile
  BY <1>1, <1>2, <1>3
<1>5. \A f \in FsFiles : inode[f].applied = {} /\ inode[f].tables \ {Foreign} = {}
  BY <1>2, <1>3, <1>4
<1>6. \A f \in FsFiles : FsPrefix(inode[f])
  <2>1. 1 .. 0 = {} /\ 0 \in Nat
    OBVIOUS
  <2> QED BY <1>5, <2>1 DEF FsPrefix
<1>7. IdleOpener \in FsOpeners /\ IdleOpener.at = "down" /\ IdleExporter \in FsExporters /\ IdleExporter.at = "down"
      /\ IdleExporter.copied = 0 /\ IdleExporter.buffer = {} /\ IdleExporter.snap = {}
  BY DEF IdleOpener, FsOpeners, IdleExporter, FsExporters
<1>8. /\ opener \in [Openers -> FsOpeners] /\ \A o \in Openers : opener[o].at = "down"
      /\ exporter \in [Exporters -> FsExporters] /\ \A e \in Exporters : exporter[e] = IdleExporter
  BY <1>7 DEF FilesInit
<1>9. FsTypes
  <2>1. pgRows \in SUBSET SourceRows /\ writes \in 0 .. MaxWrites /\ tmpLeft \subseteq Exporters
    BY StoreFilesAssumption DEF FilesInit
  <2>2. target \in FsFiles \union {NoFile}
    BY DEF FilesInit, FsFiles
  <2> QED BY <1>4, <1>8, <2>1, <2>2 DEF FsTypes
<1>10. \A o \in Openers : FsKnows(o, opener[o], inode[opener[o].file])
  BY <1>8 DEF FsKnows
<1>11. \A e \in Exporters : FsExport(e, exporter[e], inode[e])
  BY <1>7, <1>8 DEF FsExport
<1>12. target \notin Exporters
  BY FileNamesAssumption DEF FilesInit
<1>13. FsReleased /\ FsPublished
  BY <1>8, <1>12 DEF FsReleased, FsAtLarge, FsPublished
<1> QED BY <1>6, <1>9, <1>10, <1>11, <1>13 DEF FsInv

LEMMA FsKnowsMore ==
  ASSUME NEW o, NEW x, NEW y, NEW z, FsGrown(y, z), FsKnows(o, x, y)
  PROVE  FsKnows(o, x, z)
BY DEF FsGrown, FsKnows

LEMMA FsExportMore ==
  ASSUME NEW e, NEW x, NEW y, NEW z, FsGrown(y, z), FsExport(e, x, y)
  PROVE  FsExport(e, x, z)
BY DEF FsGrown, FsExport

(* A step of an opener that reads.                                         *)
LEMMA FsOpens ==
  ASSUME FsInv, NEW o \in Openers, NEW r \in FsOpeners, opener[o].at # "down",
         opener' = [opener EXCEPT ![o] = r], UNCHANGED <<pgRows, writes, inode, target, exporter, tmpLeft>>,
         r.at # "down" => r.file = opener[o].file, FsKnows(o, r, inode[r.file])
  PROVE  FsInv'
<1>1. opener' \in [Openers -> FsOpeners] /\ opener'[o] = r /\ \A p \in Openers : p # o => opener'[p] = opener[p]
  BY DEF FsInv, FsTypes
<1>2. FsTypes'
  BY <1>1 DEF FsInv, FsTypes
<1>3. ASSUME NEW p \in Openers PROVE FsKnows(p, opener[p], inode[opener[p].file])'
  <2>1. PICK x, y : x = opener'[p] /\ y = inode[x.file]
    OBVIOUS
  <2>2. FsKnows(p, x, y)
    <3>1. CASE p = o
      BY <1>1, <2>1, <3>1
    <3>2. CASE p # o
      BY <1>1, <2>1, <3>2 DEF FsInv
    <3> QED BY <3>1, <3>2
  <2> QED BY <2>1, <2>2 DEF FsKnows
<1>4. \A f \in FsFiles : FsPrefix(inode[f])'
  BY DEF FsInv, FsPrefix
<1>5. \A e \in Exporters : FsExport(e, exporter[e], inode[e])'
  BY DEF FsInv, FsExport
<1>6. \A e \in Exporters : FsAtLarge(e)' => FsAtLarge(e)
  BY <1>1 DEF FsAtLarge
<1>7. FsReleased' /\ FsPublished'
  BY <1>6 DEF FsInv, FsReleased, FsPublished
<1> QED BY <1>2, <1>3, <1>4, <1>5, <1>7 DEF FsInv

(* An opener writes to a file nobody exports to.                           *)
LEMMA FsWrites ==
  ASSUME FsInv, NEW o \in Openers, NEW r \in FsOpeners, NEW f \in FsFiles, NEW z \in FsInodes,
         r.at # "down", r.file = f, f \in Exporters => FsAtLarge(f),
         FsPrefix(z), FsGrown(inode[f], z), FsKnows(o, r, z),
         opener' = [opener EXCEPT ![o] = r], inode' = [inode EXCEPT ![f] = z],
         target' = target \/ (target = NoFile /\ target' = f), UNCHANGED <<pgRows, writes, exporter, tmpLeft>>
  PROVE  FsInv'
<1>1. /\ opener' \in [Openers -> FsOpeners] /\ opener'[o] = r /\ \A p \in Openers : p # o => opener'[p] = opener[p]
      /\ inode' \in [FsFiles -> FsInodes] /\ inode'[f] = z /\ \A g \in FsFiles : g # f => inode'[g] = inode[g]
  BY DEF FsInv, FsTypes
<1>2. FsTypes'
  BY <1>1 DEF FsInv, FsTypes
<1>3. \A g \in FsFiles : FsPrefix(inode[g])'
  BY <1>1 DEF FsInv, FsPrefix
<1>4. \A g \in FsFiles : FsGrown(inode[g], inode'[g])
  <2>1. \A y : FsGrown(y, y)
    BY DEF FsGrown
  <2> QED BY <1>1, <2>1
<1>5. ASSUME NEW p \in Openers PROVE FsKnows(p, opener[p], inode[opener[p].file])'
  <2>1. PICK x, y : x = opener'[p] /\ y = inode'[x.file]
    OBVIOUS
  <2>2. FsKnows(p, x, y)
    <3>1. CASE p = o
      BY <1>1, <2>1, <3>1
    <3>2. CASE p # o /\ x.at # "down"
      <4>1. FsKnows(p, x, inode[x.file])
        BY <1>1, <2>1, <3>2 DEF FsInv
      <4>2. x.file \in FsFiles
        BY <3>2, <4>1 DEF FsKnows
      <4> QED BY <1>4, <2>1, <4>1, <4>2, FsKnowsMore
    <3>3. CASE p # o /\ x.at = "down"
      BY <3>3 DEF FsKnows
    <3> QED BY <3>1, <3>2, <3>3
  <2> QED BY <2>1, <2>2 DEF FsKnows
<1>6. ASSUME NEW e \in Exporters PROVE FsExport(e, exporter[e], inode[e])'
  <2>1. PICK y : y = inode'[e]
    OBVIOUS
  <2>2. e \in FsFiles
    BY DEF FsFiles
  <2>3. FsExport(e, exporter[e], inode[e])
    BY DEF FsInv
  <2>4. FsExport(e, exporter[e], y)
    BY <1>4, <2>1, <2>2, <2>3, FsExportMore
  <2> QED BY <2>1, <2>4 DEF FsExport
<1>7. ASSUME NEW e \in Exporters, FsAtLarge(e)' PROVE FsAtLarge(e)
  <2>1. e # NoFile
    BY FileNamesAssumption
  <2>2. CASE e = f
    BY <2>2
  <2>3. CASE e # f
    BY <1>1, <1>7, <2>3 DEF FsAtLarge
  <2> QED BY <2>2, <2>3
<1>8. FsReleased'
  <2> SUFFICES ASSUME NEW e \in Exporters, FsAtLarge(e)' PROVE (exporter[e].at = "down" /\ target # NoFile /\ ~inode[target].empty)'
    BY DEF FsReleased
  <2>1. exporter[e].at = "down" /\ target # NoFile /\ ~inode[target].empty
    BY <1>7 DEF FsInv, FsReleased
  <2>2. target' = target /\ target \in FsFiles
    BY <2>1 DEF FsInv, FsTypes
  <2> QED BY <1>4, <2>1, <2>2 DEF FsGrown
<1>9. FsPublished'
  <2> SUFFICES ASSUME target' \in Exporters
               PROVE  /\ Closed(inode'[target'].rows) /\ inode'[target'].rows \intersect BadHashRows = {}
                      /\ 1 .. BinaryVersion[target'] \subseteq inode'[target'].tables
    BY DEF FsPublished, Closed
  <2>1. PICK e \in Exporters : e = target'
    OBVIOUS
  <2>2. FsAtLarge(e)
    <3>1. FsAtLarge(e)'
      BY <2>1 DEF FsAtLarge
    <3> QED BY <1>7, <3>1
  <2>3. target # NoFile /\ target' = target
    BY <2>2 DEF FsInv, FsReleased
  <2>4. FsGrown(inode[target], inode'[target])
    BY <1>4, <2>3 DEF FsInv, FsTypes
  <2> QED BY <2>3, <2>4 DEF FsGrown, FsInv, FsPublished
<1> QED BY <1>2, <1>3, <1>5, <1>6, <1>8, <1>9 DEF FsInv

(* A step of an export under way, on a file of its own.                    *)
LEMMA FsExports ==
  ASSUME FsInv, NEW e \in Exporters, NEW x \in FsExporters, NEW y \in FsInodes,
         exporter' = [exporter EXCEPT ![e] = x], inode' = [inode EXCEPT ![e] = y],
         UNCHANGED <<pgRows, writes, target, opener>>, tmpLeft' \subseteq Exporters,
         FsPrefix(y), FsExport(e, x, y), x.at # "down" => ~FsAtLarge(e), FsAtLarge(e) => y = inode[e]
  PROVE  FsInv'
<1>0. e \in FsFiles
  BY DEF FsFiles
<1>1. /\ exporter' \in [Exporters -> FsExporters] /\ exporter'[e] = x
      /\ \A d \in Exporters : d # e => exporter'[d] = exporter[d]
      /\ inode' \in [FsFiles -> FsInodes] /\ inode'[e] = y /\ \A g \in FsFiles : g # e => inode'[g] = inode[g]
  BY <1>0 DEF FsInv, FsTypes
<1>2. FsTypes'
  BY <1>1 DEF FsInv, FsTypes
<1>3. \A g \in FsFiles : FsPrefix(inode[g])'
  BY <1>1 DEF FsInv, FsPrefix
<1>4. ASSUME NEW o \in Openers PROVE FsKnows(o, opener[o], inode[opener[o].file])'
  <2>1. PICK r, z : r = opener[o] /\ z = inode'[r.file]
    OBVIOUS
  <2>2. FsKnows(o, r, inode[r.file])
    BY <2>1 DEF FsInv
  <2>3. FsKnows(o, r, z)
    <3>1. CASE r.at = "down"
      BY <3>1 DEF FsKnows
    <3>2. CASE r.at # "down" /\ r.file = e
      <4>1. FsAtLarge(e)
        BY <2>1, <3>2 DEF FsAtLarge
      <4> QED BY <1>1, <2>1, <2>2, <3>2, <4>1
    <3>3. CASE r.at # "down" /\ r.file # e
      <4>1. r.file \in FsFiles
        BY <2>2, <3>3 DEF FsKnows
      <4> QED BY <1>1, <2>1, <2>2, <3>3, <4>1
    <3> QED BY <3>1, <3>2, <3>3
  <2> QED BY <2>1, <2>3 DEF FsKnows
<1>5. ASSUME NEW d \in Exporters PROVE FsExport(d, exporter[d], inode[d])'
  <2>1. PICK u, z : u = exporter'[d] /\ z = inode'[d]
    OBVIOUS
  <2>2. d \in FsFiles
    BY DEF FsFiles
  <2>3. FsExport(d, u, z)
    <3>1. CASE d = e
      BY <1>1, <2>1, <3>1
    <3>2. CASE d # e
      BY <1>1, <2>1, <2>2, <3>2 DEF FsInv
    <3> QED BY <3>1, <3>2
  <2> QED BY <2>1, <2>3 DEF FsExport
<1>6. \A d \in Exporters : FsAtLarge(d)' <=> FsAtLarge(d)
  BY DEF FsAtLarge
<1>7. FsReleased'
  <2> SUFFICES ASSUME NEW d \in Exporters, FsAtLarge(d) PROVE (exporter[d].at = "down" /\ target # NoFile /\ ~inode[target].empty)'
    BY <1>6 DEF FsReleased
  <2>1. exporter[d].at = "down" /\ target # NoFile /\ ~inode[target].empty /\ target \in FsFiles
    BY DEF FsInv, FsReleased, FsTypes
  <2>2. exporter'[d].at = "down"
    BY <1>1, <2>1
  <2>3. inode'[target] = inode[target]
    <3>1. CASE target = e
      BY <1>1, <3>1 DEF FsAtLarge
    <3>2. CASE target # e
      BY <1>1, <2>1, <3>2
    <3> QED BY <3>1, <3>2
  <2> QED BY <2>1, <2>2, <2>3
<1>8. FsPublished'
  <2>1. target \in Exporters => inode'[target] = inode[target]
    <3>1. CASE target = e
      BY <1>1, <3>1 DEF FsAtLarge
    <3>2. CASE target # e /\ target \in Exporters
      BY <1>1, <3>2 DEF FsFiles
    <3> QED BY <3>1, <3>2
  <2> QED BY <2>1 DEF FsInv, FsPublished, Closed
<1> QED BY <1>2, <1>3, <1>4, <1>5, <1>7, <1>8 DEF FsInv

(* A write to PostgreSQL is seen by the exports under way as what it held. *)
LEMMA FsSource ==
  ASSUME FsInv, WriteSource
  PROVE  FsInv'
<1>1. PICK q : q = pgRows'
  OBVIOUS
<1>2. q \in SUBSET SourceRows /\ writes' \in 0 .. MaxWrites /\ UNCHANGED <<inode, target, opener, tmpLeft>>
  <2>1. writes' \in 0 .. MaxWrites
    BY StoreFilesAssumption DEF FsInv, FsTypes, WriteSource
  <2>2. q \in SUBSET SourceRows
    BY <1>1 DEF FsInv, FsTypes, WriteSource
  <2> QED BY <2>1, <2>2 DEF WriteSource
<1>3. exporter' = [e \in Exporters |-> [exporter[e] EXCEPT !.during = @ \union {q}]]
  BY <1>1 DEF WriteSource
<1>4. ASSUME NEW e \in Exporters
      PROVE  exporter'[e] \in FsExporters /\ FsExport(e, exporter[e], inode[e])' /\ exporter'[e].at = exporter[e].at
  <2>1. PICK x, u, y : x = exporter[e] /\ u = [x EXCEPT !.during = @ \union {q}] /\ y = inode[e]
    OBVIOUS
  <2>2. x \in FsExporters /\ FsExport(e, x, y)
    BY <2>1 DEF FsInv, FsTypes
  <2>3. /\ u \in FsExporters /\ u.at = x.at /\ u.snap = x.snap /\ u.copied = x.copied /\ u.buffer = x.buffer
        /\ u.during = x.during \union {q}
    <3>1. x.during \union {q} \in SUBSET (SUBSET SourceRows)
      BY <1>2, <2>2 DEF FsExporters
    <3> QED BY <2>1, <2>2, <3>1 DEF FsExporters
  <2>4. exporter'[e] = u
    BY <1>3, <2>1
  <2>5. FsExport(e, exporter[e], inode[e])'
    <3>1. (u.at # "down" => q \in u.during) /\ (u.copied # 0 => u.snap \in u.during)
      BY <2>2, <2>3 DEF FsExport
    <3>2. u.buffer = {r \in u.snap : \E i \in 1 .. u.copied : RowTable[r] = CopyOrder[i]}
      BY <2>2, <2>3 DEF FsExport
    <3>3. /\ u.at \in {"down", "inspected", "temp"} => u.copied = 0
          /\ u.at \in {"copying", "copied", "verified"} => ~y.empty /\ 1 .. BinaryVersion[e] \subseteq y.tables
          /\ u.at \in {"copied", "verified"} => u.copied = 4 /\ y.rows = u.buffer /\ Closed(y.rows)
          /\ u.at = "verified" => u.snap \intersect BadHashRows = {}
      BY <2>2, <2>3 DEF FsExport
    <3>4. inode'[e] = y /\ pgRows' = q
      BY <1>1, <1>2, <2>1
    <3> QED BY <2>4, <3>1, <3>2, <3>3, <3>4 DEF FsExport
  <2> QED BY <2>1, <2>3, <2>4, <2>5
<1>5. FsTypes'
  <2>1. exporter' \in [Exporters -> FsExporters]
    BY <1>3, <1>4
  <2> QED BY <1>1, <1>2, <2>1 DEF FsInv, FsTypes
<1>6. \A g \in FsFiles : FsPrefix(inode[g])'
  BY <1>2 DEF FsInv, FsPrefix
<1>7. \A o \in Openers : FsKnows(o, opener[o], inode[opener[o].file])'
  BY <1>2 DEF FsInv, FsKnows
<1>8. FsReleased' /\ FsPublished'
  BY <1>2, <1>4 DEF FsInv, FsReleased, FsAtLarge, FsPublished, Closed
<1> QED BY <1>4, <1>5, <1>6, <1>7, <1>8 DEF FsInv

(* The rename gives the path to a whole file.                              *)
LEMMA FsPublishes ==
  ASSUME FsInv, NEW e \in Exporters, Publish(e)
  PROVE  FsInv'
<1>0. e \in FsFiles /\ e # NoFile
  BY FileNamesAssumption DEF FsFiles
<1>1. IdleExporter \in FsExporters /\ IdleExporter.at = "down" /\ \A d, y : FsExport(d, IdleExporter, y)
  <2>1. IdleExporter \in FsExporters /\ IdleExporter.at = "down" /\ IdleExporter.copied = 0 /\ IdleExporter.buffer = {}
    BY DEF IdleExporter, FsExporters
  <2> QED BY <2>1 DEF FsExport
<1>2. /\ exporter[e].at = "verified" /\ target' = e /\ exporter' = [exporter EXCEPT ![e] = IdleExporter]
      /\ tmpLeft' \subseteq Exporters /\ UNCHANGED <<pgRows, writes, inode, opener>>
  BY DEF Publish, ExportEnds, FsInv, FsTypes
<1>3. /\ exporter' \in [Exporters -> FsExporters] /\ exporter'[e] = IdleExporter
      /\ \A d \in Exporters : d # e => exporter'[d] = exporter[d]
  BY <1>1, <1>2 DEF FsInv, FsTypes
<1>4. FsTypes'
  BY <1>0, <1>2, <1>3 DEF FsInv, FsTypes
<1>5. PICK x, y : x = exporter[e] /\ y = inode[e]
  OBVIOUS
<1>6. /\ ~y.empty /\ Closed(y.rows) /\ y.rows \intersect BadHashRows = {}
      /\ 1 .. BinaryVersion[e] \subseteq y.tables
  <2>1. FsExport(e, x, y) /\ x.at = "verified"
    BY <1>2, <1>5 DEF FsInv
  <2> QED BY <2>1 DEF FsExport
<1>7. FsPublished'
  BY <1>2, <1>5, <1>6 DEF FsPublished, Closed
<1>8. FsReleased'
  <2> SUFFICES ASSUME NEW d \in Exporters, FsAtLarge(d)' PROVE (exporter[d].at = "down" /\ target # NoFile /\ ~inode[target].empty)'
    BY DEF FsReleased
  <2>1. d = e \/ FsAtLarge(d)
    BY <1>2 DEF FsAtLarge
  <2>2. exporter'[d].at = "down"
    BY <1>1, <1>3, <2>1 DEF FsInv, FsReleased
  <2> QED BY <1>0, <1>2, <1>5, <1>6, <2>2
<1>9. \A g \in FsFiles : FsPrefix(inode[g])'
  BY <1>2 DEF FsInv, FsPrefix
<1>10. \A o \in Openers : FsKnows(o, opener[o], inode[opener[o].file])'
  BY <1>2 DEF FsInv, FsKnows
<1>11. ASSUME NEW d \in Exporters PROVE FsExport(d, exporter[d], inode[d])'
  <2>1. PICK u, z : u = exporter'[d] /\ z = inode[d]
    OBVIOUS
  <2>2. FsExport(d, u, z)
    <3>1. CASE d = e
      BY <1>1, <1>3, <2>1, <3>1
    <3>2. CASE d # e
      BY <1>3, <2>1, <3>2 DEF FsInv
    <3> QED BY <3>1, <3>2
  <2> QED BY <1>2, <2>1, <2>2 DEF FsExport
<1> QED BY <1>4, <1>7, <1>8, <1>9, <1>10, <1>11 DEF FsInv

(* The steps of an opener: giving up, looking at the file, ...             *)
LEMMA FsDown ==
  ASSUME FsInv, NEW o \in Openers, OpenFails(o), opener[o].at # "down",
         UNCHANGED <<pgRows, writes, inode, target, exporter, tmpLeft>>
  PROVE  FsInv'
<1>1. IdleOpener \in FsOpeners /\ IdleOpener.at = "down"
  BY DEF IdleOpener, FsOpeners
<1>2. FsKnows(o, IdleOpener, inode[IdleOpener.file])
  BY <1>1 DEF FsKnows
<1> QED BY <1>1, <1>2, FsOpens DEF OpenFails

LEMMA FsLooks ==
  ASSUME FsInv, NEW o \in Openers, NEW at \in {"checked", "current", "ready"}, OpenerAt(o, at),
         opener[o].at # "down", ~inode[opener[o].file].corrupt,
         at = "ready" => /\ 1 .. BinaryVersion[o] \subseteq inode[opener[o].file].tables
                         /\ Foreign \notin inode[opener[o].file].tables,
         UNCHANGED <<pgRows, writes, inode, target, exporter, tmpLeft>>
  PROVE  FsInv'
<1>1. PICK x, r : x = opener[o] /\ r = [x EXCEPT !.at = at]
  OBVIOUS
<1>2. x \in FsOpeners /\ opener \in [Openers -> FsOpeners] /\ FsKnows(o, x, inode[x.file])
  BY <1>1 DEF FsInv, FsTypes
<1>3. r \in FsOpeners /\ r.at = at /\ r.file = x.file /\ r.done = x.done
  BY <1>1, <1>2 DEF FsOpeners
<1>4. opener' = [opener EXCEPT ![o] = r]
  BY <1>1, <1>2 DEF OpenerAt
<1>5. FsKnows(o, r, inode[r.file])
  BY <1>1, <1>2, <1>3 DEF FsKnows
<1> QED BY <1>1, <1>3, <1>4, <1>5, FsOpens

(* ... making the file, ...                                                *)
LEMMA FsCreates ==
  ASSUME FsInv, NEW o \in Openers, Open(o)
  PROVE  FsInv'
<1>1. PICK f : f = IF target = NoFile THEN o ELSE target
  OBVIOUS
<1>2. f \in FsFiles /\ (f \in Exporters => FsAtLarge(f)) /\ (target' = target \/ (target = NoFile /\ target' = f))
  BY <1>1, FileNamesAssumption DEF FsInv, FsTypes, FsFiles, FsAtLarge, Open
<1>3. PICK x, y, r, z : /\ x = opener[o] /\ r = [x EXCEPT !.at = "opened", !.file = f]
                        /\ y = inode[f] /\ z = [y EXCEPT !.empty = FALSE]
  OBVIOUS
<1>4. /\ x \in FsOpeners /\ y \in FsInodes /\ FsPrefix(y)
      /\ opener \in [Openers -> FsOpeners] /\ inode \in [FsFiles -> FsInodes]
  BY <1>2, <1>3 DEF FsInv, FsTypes
<1>5. r \in FsOpeners /\ r.at = "opened" /\ r.file = f
  BY <1>2, <1>3, <1>4 DEF FsOpeners
<1>6. /\ z \in FsInodes /\ z.applied = y.applied /\ z.tables = y.tables /\ z.rows = y.rows
      /\ z.corrupt = y.corrupt /\ ~z.empty
  BY <1>3, <1>4 DEF FsInodes
<1>7. FsPrefix(z) /\ FsGrown(inode[f], z)
  BY <1>3, <1>4, <1>6 DEF FsPrefix, FsGrown
<1>8. FsKnows(o, r, z)
  BY <1>2, <1>5 DEF FsKnows
<1>9. opener' = [opener EXCEPT ![o] = r] /\ inode' = [inode EXCEPT ![f] = z] /\ UNCHANGED <<pgRows, writes, exporter, tmpLeft>>
  BY <1>1, <1>3, <1>4 DEF Open
<1> QED BY <1>2, <1>5, <1>6, <1>7, <1>8, <1>9, FsWrites

(* ... and the next migration, which follows what the file has.            *)
LEMMA FsApplies ==
  ASSUME FsInv, NEW o \in Openers, ApplyMigration(o)
  PROVE  FsInv'
<1>1. PICK x, f, b : x = opener[o] /\ f = x.file /\ b = BinaryVersion[o]
  OBVIOUS
<1>2. PICK y : y = inode[f]
  OBVIOUS
<1>3. /\ x \in FsOpeners /\ opener \in [Openers -> FsOpeners] /\ inode \in [FsFiles -> FsInodes]
      /\ x.at = "applying" /\ FsKnows(o, x, y) /\ b \in Nat
  BY <1>1, <1>2, StoreFilesAssumption DEF FsInv, FsTypes, ApplyMigration
<1>4. f \in FsFiles
  BY <1>1, <1>3 DEF FsKnows
<1>5. y \in FsInodes /\ FsPrefix(y)
  BY <1>2, <1>3, <1>4 DEF FsInv
<1>6. PICK k \in Nat : x.done = 1 .. k
  BY <1>3 DEF FsKnows
<1>7. PICK n \in Nat : y.applied = 1 .. n /\ y.tables \ {Foreign} = 1 .. n
  BY <1>5 DEF FsPrefix
<1>8. PICK v : v = CHOOSE u \in ToApply(o) : \A w \in ToApply(o) : u <= w
  OBVIOUS
<1>9. v = k + 1 /\ v \in 1 .. b
  <2>1. ToApply(o) = (1 .. b) \ (1 .. k) /\ ToApply(o) # {}
    BY <1>1, <1>6 DEF ToApply, ApplyMigration
  <2>2. ToApply(o) \subseteq Nat
    BY <1>3, <2>1
  <2>3. \E u \in ToApply(o) : \A w \in ToApply(o) : u <= w
    BY <2>1, <2>2, LeastNumber
  <2>4. v \in ToApply(o) /\ \A w \in ToApply(o) : v <= w
    BY <1>8, <2>3
  <2>5. v \in Nat /\ 1 <= v /\ v <= b /\ v > k
    BY <1>3, <1>6, <2>1, <2>4
  <2>6. k + 1 \in ToApply(o)
    BY <1>3, <1>6, <2>1, <2>5
  <2>7. v <= k + 1
    BY <2>4, <2>6
  <2> QED BY <1>3, <1>6, <2>5, <2>7
<1>10. CASE v \in y.tables \union y.applied
  <2>1. OpenFails(o) /\ UNCHANGED <<pgRows, writes, inode, target, exporter, tmpLeft>>
    BY <1>1, <1>2, <1>8, <1>10 DEF ApplyMigration
  <2> QED BY <1>1, <1>3, <2>1, FsDown
<1>11. CASE v \notin y.tables \union y.applied
  <2>1. k <= n
    <3>1. k = 0 \/ k \in 1 .. n
      BY <1>3, <1>6, <1>7 DEF FsKnows
    <3> QED BY <1>6, <1>7, <3>1
  <2>2. v = n + 1
    BY <1>6, <1>7, <1>9, <1>11, <2>1
  <2>3. PICK r, z : r = [x EXCEPT !.done = @ \union {v}] /\ z = [y EXCEPT !.tables = @ \union {v}, !.applied = @ \union {v}]
    OBVIOUS
  <2>4. r \in FsOpeners /\ r.at = x.at /\ r.file = f /\ r.done = x.done \union {v}
    <3>1. x.done \union {v} \in SUBSET Nat
      BY <1>6, <1>9
    <3> QED BY <1>1, <1>3, <2>3, <3>1 DEF FsOpeners
  <2>5. /\ z \in FsInodes /\ z.tables = y.tables \union {v} /\ z.applied = y.applied \union {v}
        /\ z.rows = y.rows /\ z.corrupt = y.corrupt /\ z.empty = y.empty
    <3>1. v \in Nat
      BY <1>6, <1>9
    <3>2. y.tables \union {v} \in SUBSET Nat /\ y.applied \union {v} \in SUBSET Nat
      BY <1>5, <3>1 DEF FsInodes
    <3> QED BY <1>5, <2>3, <3>2 DEF FsInodes
  <2>6. v # Foreign
    BY <1>6, <1>9 DEF Foreign
  <2>7. FsPrefix(z)
    <3>1. (1 .. n) \union {n + 1} = 1 .. (n + 1) /\ n + 1 \in Nat
      BY <1>7
    <3>2. z.applied = 1 .. (n + 1) /\ z.tables \ {Foreign} = 1 .. (n + 1)
      BY <1>7, <2>2, <2>5, <2>6, <3>1
    <3> QED BY <3>1, <3>2 DEF FsPrefix
  <2>8. FsGrown(inode[f], z)
    BY <1>2, <2>5, <2>6 DEF FsGrown
  <2>9. FsKnows(o, r, z)
    <3>1. r.done = 1 .. (k + 1) /\ k + 1 \in Nat
      BY <1>6, <1>9, <2>4
    <3>2. r.done \subseteq z.applied
      BY <1>3, <2>4, <2>5 DEF FsKnows
    <3>3. r.at = "applying" /\ ~z.corrupt
      BY <1>3, <2>4, <2>5 DEF FsKnows
    <3> QED BY <1>4, <2>4, <3>1, <3>2, <3>3 DEF FsKnows
  <2>10. opener' = [opener EXCEPT ![o] = r] /\ inode' = [inode EXCEPT ![f] = z]
         /\ UNCHANGED <<pgRows, writes, target, exporter, tmpLeft>>
    <3>1. MigrationCommits(f, v) /\ opener' = [opener EXCEPT ![o].done = @ \union {v}]
          /\ UNCHANGED <<pgRows, writes, target, exporter, tmpLeft>>
      BY <1>1, <1>2, <1>8, <1>11 DEF ApplyMigration
    <3>2. opener' = [opener EXCEPT ![o] = r]
      BY <1>1, <1>3, <2>3, <3>1
    <3>3. inode' = [inode EXCEPT ![f] = z]
      BY <1>2, <1>3, <1>4, <2>3, <3>1 DEF MigrationCommits
    <3> QED BY <3>1, <3>2, <3>3
  <2>11. f \in Exporters => FsAtLarge(f)
    BY <1>1, <1>3 DEF FsAtLarge
  <2> QED BY <1>3, <1>4, <2>4, <2>5, <2>7, <2>8, <2>9, <2>10, <2>11, FsWrites
<1> QED BY <1>10, <1>11

LEMMA FsOpener ==
  ASSUME FsInv, NEW o \in Openers, OpenerStep(o)
  PROVE  FsInv'
<1>0. FsKnows(o, opener[o], inode[opener[o].file])
  BY DEF FsInv
<1>1. CASE QuickCheck(o)
  BY <1>1, FsDown, FsLooks DEF QuickCheck
<1>2. CASE RefuseNewer(o)
  BY <1>0, <1>2, FsDown, FsLooks DEF RefuseNewer, FsKnows
<1>3. CASE ApplyCoreSchema(o)
  <2>1. PICK x, y : x = opener[o] /\ y = inode[x.file]
    OBVIOUS
  <2>2. PICK r : r = [x EXCEPT !.at = "applying", !.done = y.applied]
    OBVIOUS
  <2>3. x \in FsOpeners /\ opener \in [Openers -> FsOpeners] /\ x.at = "current" /\ FsKnows(o, x, y)
    BY <1>0, <1>3, <2>1 DEF FsInv, FsTypes, ApplyCoreSchema
  <2>4. x.file \in FsFiles
    BY <2>3 DEF FsKnows
  <2>5. FsPrefix(y) /\ y \in FsInodes
    BY <2>1, <2>4 DEF FsInv, FsTypes
  <2>6. r \in FsOpeners /\ r.at = "applying" /\ r.file = x.file /\ r.done = y.applied
    BY <2>2, <2>3, <2>5 DEF FsOpeners, FsInodes
  <2>7. FsKnows(o, r, inode[r.file])
    BY <2>1, <2>3, <2>5, <2>6 DEF FsKnows, FsPrefix
  <2>8. opener' = [opener EXCEPT ![o] = r] /\ UNCHANGED <<pgRows, writes, inode, target, exporter, tmpLeft>>
    BY <1>3, <2>1, <2>2, <2>3 DEF ApplyCoreSchema, AppliedMigrations
  <2> QED BY <2>1, <2>3, <2>6, <2>7, <2>8, FsOpens
<1>4. CASE CheckCoreSchema(o)
  <2>1. opener[o].at # "down" /\ ~inode[opener[o].file].corrupt
    BY <1>0, <1>4 DEF CheckCoreSchema, FsKnows
  <2>2. Foreign \notin 1 .. BinaryVersion[o]
    BY DEF Foreign
  <2> QED BY <1>4, <2>1, <2>2, FsDown, FsLooks DEF CheckCoreSchema
<1>5. CASE CloseStore(o)
  BY <1>5, FsDown DEF CloseStore
<1> QED BY <1>1, <1>2, <1>3, <1>4, <1>5, FsCreates, FsApplies DEF OpenerStep

(* The steps of an export.                                                 *)
LEMMA FsIdle ==
  IdleExporter \in FsExporters /\ IdleExporter.at = "down" /\ \A e, y : FsExport(e, IdleExporter, y)
<1>1. IdleExporter \in FsExporters /\ IdleExporter.at = "down" /\ IdleExporter.copied = 0 /\ IdleExporter.buffer = {}
  BY DEF IdleExporter, FsExporters
<1> QED BY <1>1 DEF FsExport

LEMMA FsProceeds ==
  ASSUME FsInv, NEW e \in Exporters, NEW x \in FsExporters, exporter' = [exporter EXCEPT ![e] = x],
         UNCHANGED <<pgRows, writes, inode, target, opener>>, tmpLeft' \subseteq Exporters,
         FsExport(e, x, inode[e]), x.at # "down" => ~FsAtLarge(e)
  PROVE  FsInv'
<1>1. PICK y : y = inode[e]
  OBVIOUS
<1>2. y \in FsInodes /\ FsPrefix(y) /\ inode \in [FsFiles -> FsInodes] /\ e \in FsFiles
  BY <1>1 DEF FsInv, FsTypes, FsFiles
<1>3. inode' = [inode EXCEPT ![e] = y]
  BY <1>1, <1>2
<1> QED BY <1>1, <1>2, <1>3, FsExports

LEMMA FsEnds ==
  ASSUME FsInv, NEW e \in Exporters, exporter' = [exporter EXCEPT ![e] = IdleExporter],
         UNCHANGED <<pgRows, writes, inode, target, opener>>, tmpLeft' \subseteq Exporters
  PROVE  FsInv'
BY FsIdle, FsProceeds

(* No export begins when one has been published, ...                       *)
LEMMA FsInspects ==
  ASSUME FsInv, NEW e \in Exporters, InspectTarget(e)
  PROVE  FsInv'
<1>1. PICK x : x = [IdleExporter EXCEPT !.at = "inspected", !.during = {pgRows}]
  OBVIOUS
<1>2. /\ x \in FsExporters /\ x.at = "inspected" /\ x.during = {pgRows} /\ x.copied = 0 /\ x.buffer = {}
  <2>1. {pgRows} \in SUBSET (SUBSET SourceRows)
    BY DEF FsInv, FsTypes
  <2>2. PICK w : w = IdleExporter
    OBVIOUS
  <2>3. w \in FsExporters /\ w.copied = 0 /\ w.buffer = {}
    BY <2>2, FsIdle DEF IdleExporter
  <2> QED BY <1>1, <2>1, <2>2, <2>3 DEF FsExporters
<1>3. FsExport(e, x, inode[e])
  BY <1>2 DEF FsExport
<1>4. ~FsAtLarge(e)
  BY DEF InspectTarget, FsInv, FsReleased
<1>5. exporter' = [exporter EXCEPT ![e] = x] /\ UNCHANGED <<pgRows, writes, inode, target, opener, tmpLeft>>
  BY <1>1 DEF InspectTarget
<1>6. tmpLeft \subseteq Exporters
  BY DEF FsInv, FsTypes
<1> QED BY <1>2, <1>3, <1>4, <1>5, <1>6, FsProceeds

(* ... it has a file of its own, ...                                       *)
LEMMA FsTemp ==
  ASSUME FsInv, NEW e \in Exporters, CreateTemp(e) \/ OpenTemp(e)
  PROVE  FsInv'
<1>1. PICK x, y, b : x = exporter[e] /\ y = inode[e] /\ b = BinaryVersion[e]
  OBVIOUS
<1>2. /\ x \in FsExporters /\ y \in FsInodes /\ FsExport(e, x, y) /\ b \in Nat
      /\ exporter \in [Exporters -> FsExporters] /\ inode \in [FsFiles -> FsInodes] /\ tmpLeft \subseteq Exporters
      /\ x.at \in {"inspected", "temp"}
  BY <1>1, StoreFilesAssumption DEF FsInv, FsTypes, FsFiles, CreateTemp, OpenTemp
<1>3. ~FsAtLarge(e)
  BY <1>1, <1>2 DEF FsInv, FsReleased
<1>4. CASE CreateTemp(e)
  <2>1. PICK u : u = [x EXCEPT !.at = "temp"]
    OBVIOUS
  <2>2. /\ u \in FsExporters /\ u.at = "temp" /\ u.copied = x.copied /\ u.snap = x.snap /\ u.buffer = x.buffer
        /\ u.during = x.during
    BY <1>2, <2>1 DEF FsExporters
  <2>3. NewFile \in FsInodes /\ FsPrefix(NewFile)
    <3>1. 1 .. 0 = {} /\ 0 \in Nat
      OBVIOUS
    <3>2. NewFile.applied = {} /\ NewFile.tables = {} /\ NewFile \in FsInodes
      BY DEF NewFile, FsInodes
    <3> QED BY <3>1, <3>2 DEF FsPrefix
  <2>4. FsExport(e, u, NewFile)
    BY <1>2, <2>2 DEF FsExport
  <2>5. /\ exporter' = [exporter EXCEPT ![e] = u] /\ inode' = [inode EXCEPT ![e] = NewFile]
        /\ UNCHANGED <<pgRows, writes, target, opener>> /\ tmpLeft' \subseteq Exporters
    BY <1>1, <1>2, <1>4, <2>1 DEF CreateTemp, ExporterAt
  <2> QED BY <1>3, <2>2, <2>3, <2>4, <2>5, FsExports
<1>5. CASE OpenTemp(e)
  <2>1. PICK u : u = [x EXCEPT !.at = "copying"]
    OBVIOUS
  <2>2. /\ u \in FsExporters /\ u.at = "copying" /\ u.copied = x.copied /\ u.snap = x.snap /\ u.buffer = x.buffer
        /\ u.during = x.during
    BY <1>2, <2>1 DEF FsExporters
  <2>3. PICK z : z = [y EXCEPT !.empty = FALSE, !.applied = 1 .. b, !.tables = 1 .. b]
    OBVIOUS
  <2>4. z \in FsInodes /\ ~z.empty /\ z.applied = 1 .. b /\ z.tables = 1 .. b
    <3>1. 1 .. b \in SUBSET Nat
      BY <1>2
    <3> QED BY <1>2, <2>3, <3>1 DEF FsInodes
  <2>5. FsPrefix(z)
    <3>1. (1 .. b) \ {Foreign} = 1 .. b
      BY <1>2 DEF Foreign
    <3> QED BY <1>2, <2>4, <3>1 DEF FsPrefix
  <2>6. FsExport(e, u, z)
    BY <1>1, <1>2, <2>2, <2>4 DEF FsExport
  <2>7. /\ exporter' = [exporter EXCEPT ![e] = u] /\ inode' = [inode EXCEPT ![e] = z]
        /\ UNCHANGED <<pgRows, writes, target, opener, tmpLeft>>
    <3>1. exporter' = [exporter EXCEPT ![e] = u]
      BY <1>1, <1>2, <1>5, <2>1 DEF OpenTemp, ExporterAt
    <3>2. inode' = [inode EXCEPT ![e] = z]
      BY <1>1, <1>2, <1>5, <2>3 DEF OpenTemp, FsFiles
    <3> QED BY <1>5, <3>1, <3>2 DEF OpenTemp
  <2> QED BY <1>2, <1>3, <2>2, <2>4, <2>5, <2>6, <2>7, FsExports
<1> QED BY <1>4, <1>5

(* ... copies a table of the snapshot the first one took, ...              *)
LEMMA FsCopies ==
  ASSUME FsInv, NEW e \in Exporters, ExportTable(e)
  PROVE  FsInv'
<1>1. PICK x, y, q : x = exporter[e] /\ y = inode[e] /\ q = SourceSnapshot(e)
  OBVIOUS
<1>2. /\ x \in FsExporters /\ FsExport(e, x, y) /\ x.at = "copying" /\ x.copied \in 0 .. 3
      /\ exporter \in [Exporters -> FsExporters] /\ tmpLeft \subseteq Exporters
      /\ UNCHANGED <<pgRows, writes, inode, target, opener, tmpLeft>>
  <2>1. Len(CopyOrder) = 4
    BY DEF CopyOrder
  <2> QED BY <1>1, <2>1 DEF FsInv, FsTypes, FsExporters, ExportTable
<1>3. PICK rows : rows = {r \in q : RowTable[r] = CopyOrder[x.copied + 1]}
  OBVIOUS
<1>4. PICK u : u = [x EXCEPT !.snap = q, !.copied = @ + 1, !.buffer = @ \union rows]
  OBVIOUS
<1>5. q \in SUBSET SourceRows /\ q \in x.during /\ (x.copied # 0 => q = x.snap)
  <2>1. x.copied = 0 => q = pgRows
    BY <1>1 DEF SourceSnapshot
  <2>2. x.copied # 0 => q = x.snap
    BY <1>1 DEF SourceSnapshot
  <2>3. pgRows \in x.during /\ (x.copied # 0 => x.snap \in x.during)
    BY <1>2 DEF FsExport
  <2> QED BY <1>2, <2>1, <2>2, <2>3 DEF FsExporters
<1>6. /\ u \in FsExporters /\ u.at = "copying" /\ u.snap = q /\ u.copied = x.copied + 1
      /\ u.buffer = x.buffer \union rows /\ u.during = x.during
  <2>1. x.buffer \union rows \in SUBSET SourceRows /\ x.copied + 1 \in 0 .. 4
    BY <1>2, <1>3, <1>5 DEF FsExporters
  <2> QED BY <1>2, <1>4, <1>5, <2>1 DEF FsExporters
<1>7. u.buffer = {r \in q : \E i \in 1 .. x.copied + 1 : RowTable[r] = CopyOrder[i]}
  <2>1. x.buffer = {r \in q : \E i \in 1 .. x.copied : RowTable[r] = CopyOrder[i]}
    <3>1. x.buffer = {r \in x.snap : \E i \in 1 .. x.copied : RowTable[r] = CopyOrder[i]}
      BY <1>2 DEF FsExport
    <3>2. CASE x.copied # 0
      BY <1>5, <3>1, <3>2
    <3>3. CASE x.copied = 0
      BY <3>1, <3>3
    <3> QED BY <3>2, <3>3
  <2>2. \A i : i \in 1 .. x.copied + 1 <=> i \in 1 .. x.copied \/ i = x.copied + 1
    BY <1>2
  <2>3. \A r : r \in u.buffer <=> r \in x.buffer \/ r \in rows
    BY <1>6
  <2>4. \A r : r \in rows <=> r \in q /\ RowTable[r] = CopyOrder[x.copied + 1]
    BY <1>3
  <2> QED BY <2>1, <2>2, <2>3, <2>4
<1>8. FsExport(e, u, y)
  <2>1. ~y.empty /\ 1 .. BinaryVersion[e] \subseteq y.tables /\ pgRows \in x.during
    BY <1>2 DEF FsExport
  <2> QED BY <1>5, <1>6, <1>7, <2>1 DEF FsExport
<1>9. exporter' = [exporter EXCEPT ![e] = u]
  BY <1>1, <1>2, <1>3, <1>4 DEF ExportTable
<1>10. ~FsAtLarge(e)
  BY <1>1, <1>2 DEF FsInv, FsReleased
<1> QED BY <1>1, <1>2, <1>6, <1>8, <1>9, <1>10, FsProceeds

(* ... commits what the foreign keys allow, and verifies it.               *)
LEMMA FsVerifies ==
  ASSUME FsInv, NEW e \in Exporters, CommitTarget(e) \/ VerifyTarget(e)
  PROVE  FsInv'
<1>1. PICK x, y : x = exporter[e] /\ y = inode[e]
  OBVIOUS
<1>2. /\ x \in FsExporters /\ y \in FsInodes /\ FsPrefix(y) /\ FsExport(e, x, y)
      /\ exporter \in [Exporters -> FsExporters] /\ inode \in [FsFiles -> FsInodes] /\ tmpLeft \subseteq Exporters
      /\ x.at \in {"copying", "copied"} /\ UNCHANGED <<pgRows, writes, target, opener>>
  BY <1>1 DEF FsInv, FsTypes, FsFiles, CommitTarget, VerifyTarget
<1>3. ~FsAtLarge(e)
  BY <1>1, <1>2 DEF FsInv, FsReleased
<1>4. ASSUME ExportEnds(e), UNCHANGED inode PROVE FsInv'
  BY <1>2, <1>4, FsEnds DEF ExportEnds
<1>5. CASE CommitTarget(e)
  <2>1. CASE ~Closed(x.buffer)
    BY <1>1, <1>4, <1>5, <2>1 DEF CommitTarget
  <2>2. CASE Closed(x.buffer)
    <3>1. PICK u, z : u = [x EXCEPT !.at = "copied"] /\ z = [y EXCEPT !.rows = x.buffer]
      OBVIOUS
    <3>2. /\ u \in FsExporters /\ u.at = "copied" /\ u.copied = x.copied /\ u.snap = x.snap /\ u.buffer = x.buffer
          /\ u.during = x.during
      BY <1>2, <3>1 DEF FsExporters
    <3>3. z \in FsInodes /\ z.rows = x.buffer /\ z.empty = y.empty /\ z.applied = y.applied /\ z.tables = y.tables
      BY <1>2, <3>1 DEF FsInodes, FsExporters
    <3>4. FsPrefix(z)
      BY <1>2, <3>3 DEF FsPrefix
    <3>5. x.copied = 4 /\ x.at = "copying"
      BY <1>1, <1>5 DEF CommitTarget, CopyOrder
    <3>6. FsExport(e, u, z)
      BY <1>2, <2>2, <3>2, <3>3, <3>5 DEF FsExport
    <3>7. /\ inode' = [inode EXCEPT ![e].rows = x.buffer] /\ ExporterAt(e, "copied") /\ UNCHANGED tmpLeft
      BY <1>1, <1>5, <2>2 DEF CommitTarget
    <3>8. inode' = [inode EXCEPT ![e] = z] /\ exporter' = [exporter EXCEPT ![e] = u]
      BY <1>1, <1>2, <3>1, <3>7 DEF ExporterAt, FsFiles
    <3> QED BY <1>2, <1>3, <3>2, <3>3, <3>4, <3>6, <3>7, <3>8, FsExports
  <2> QED BY <2>1, <2>2
<1>6. CASE VerifyTarget(e)
  <2>1. CASE ~(CountsMatch(e) /\ NodeHashesMatch(e) /\ ReferencesHold(e))
    BY <1>4, <1>6, <2>1 DEF VerifyTarget
  <2>2. CASE CountsMatch(e) /\ NodeHashesMatch(e) /\ ReferencesHold(e)
    <3>1. PICK u : u = [x EXCEPT !.at = "verified"]
      OBVIOUS
    <3>2. /\ u \in FsExporters /\ u.at = "verified" /\ u.copied = x.copied /\ u.snap = x.snap /\ u.buffer = x.buffer
          /\ u.during = x.during
      BY <1>2, <3>1 DEF FsExporters
    <3>3. x.at = "copied" /\ x.copied = 4
      BY <1>1, <1>2, <1>6 DEF VerifyTarget, FsExport
    <3>4. x.snap \intersect BadHashRows = {}
      BY <1>1, <2>2, <3>3 DEF NodeHashesMatch, SourceSnapshot
    <3>5. FsExport(e, u, y)
      BY <1>2, <3>2, <3>3, <3>4 DEF FsExport
    <3>6. exporter' = [exporter EXCEPT ![e] = u] /\ UNCHANGED <<inode, tmpLeft>>
      BY <1>1, <1>2, <1>6, <2>2, <3>1 DEF VerifyTarget, ExporterAt
    <3> QED BY <1>1, <1>2, <1>3, <3>2, <3>5, <3>6, FsProceeds
  <2> QED BY <2>1, <2>2
<1> QED BY <1>5, <1>6

LEMMA FsStep ==
  ASSUME FsInv, [FilesNext]_fileVars
  PROVE  FsInv'
<1>1. CASE UNCHANGED fileVars
  BY <1>1 DEF fileVars, FsInv, FsTypes, FsPrefix, FsKnows, FsExport, FsReleased, FsAtLarge, FsPublished, Closed
<1>2. ASSUME NEW e \in Exporters, ExporterStep(e) PROVE FsInv'
  <2>1. CASE ExportFails(e) \/ KillExporter(e)
    <3>1. tmpLeft \subseteq Exporters
      BY DEF FsInv, FsTypes
    <3> QED BY <2>1, <3>1, FsEnds DEF ExportFails, KillExporter, ExportEnds
  <2> QED BY <1>2, <2>1, FsInspects, FsTemp, FsCopies, FsVerifies, FsPublishes DEF ExporterStep
<1> QED BY <1>1, <1>2, FsSource, FsOpener DEF FilesNext

LEMMA FsSound ==
  ASSUME FsInv
  PROVE  FilesTypeOK /\ MigrationsInOrder /\ OpenedComplete /\ PublishedIsSnapshot
<1>1. FilesTypeOK
  BY DEF FsInv, FsTypes, FsOpeners, FsExporters, FilesTypeOK
<1>2. MigrationsInOrder
  <2> SUFFICES ASSUME NEW f \in FsFiles
               PROVE  /\ inode[f].tables \ {Foreign} = inode[f].applied
                      /\ inode[f].applied = 1 .. Cardinality(inode[f].applied)
    BY DEF FsInv, FsTypes, MigrationsInOrder
  <2>1. PICK n \in Nat : inode[f].applied = 1 .. n /\ inode[f].tables \ {Foreign} = 1 .. n
    BY DEF FsInv, FsPrefix
  <2>2. Cardinality(1 .. n) = n
    BY <2>1, FS_Interval
  <2> QED BY <2>1, <2>2
<1>3. OpenedComplete
  BY DEF FsInv, FsKnows, OpenedComplete
<1>4. ASSUME NEW e \in Exporters, exporter[e].at = "verified" PROVE inode[e].rows \in exporter[e].during
  <2>1. PICK x, y : x = exporter[e] /\ y = inode[e]
    OBVIOUS
  <2>2. x \in FsExporters /\ FsExport(e, x, y) /\ x.at = "verified"
    BY <1>4, <2>1 DEF FsInv, FsTypes
  <2>3. x.copied = 4 /\ y.rows = x.buffer /\ x.snap \in x.during /\ x.snap \subseteq SourceRows
    BY <2>2 DEF FsExport, FsExporters
  <2>4. x.buffer = {r \in x.snap : \E i \in 1 .. 4 : RowTable[r] = CopyOrder[i]}
    BY <2>2, <2>3 DEF FsExport
  <2>5. x.buffer = x.snap
    BY <2>3, <2>4, FileNamesAssumption
  <2> QED BY <2>1, <2>3, <2>5
<1> QED BY <1>1, <1>2, <1>3, <1>4 DEF FsInv, FsPublished, PublishedIsSnapshot

\* An opened file has the whole schema of its binary, and an export publishes
\* what PostgreSQL held at one instant of it, whoever else opens and exports.
THEOREM FilesSound == FilesSpec => [](FilesTypeOK /\ MigrationsInOrder /\ OpenedComplete /\ PublishedIsSnapshot)
<1>1. FsInv => FilesTypeOK /\ MigrationsInOrder /\ OpenedComplete /\ PublishedIsSnapshot
  BY FsSound
<1>2. FsInv /\ [FilesNext]_fileVars => FsInv'
  BY FsStep
<1> QED BY FsInit, <1>1, <1>2, PTL DEF FilesSpec

-----------------------------------------------------------------------------
(* The parts together *)

\* The installation takes the steps of its parts, each of which leaves the
\* others alone.
THEOREM PlatformImplements == PlatformSpec => UpdSpec /\ PlugSpec /\ SandSpec /\ MlsSpec /\ FilesSpec
<1>1. PlatformInit => UpdInit /\ PlugInit /\ SandInit /\ MlsInit /\ FilesInit
  BY DEF PlatformInit
<1>2. [PlatformNext]_platformVars => [UpdNext]_updVars
  BY DEF PlatformNext, platformVars
<1>3. [PlatformNext]_platformVars => [PlugNext]_plugVars
  BY DEF PlatformNext, platformVars
<1>4. [PlatformNext]_platformVars => [SandNext]_sandVars
  BY DEF PlatformNext, platformVars
<1>5. [PlatformNext]_platformVars => [MlsNext]_mlsVars
  BY DEF PlatformNext, platformVars
<1>6. [PlatformNext]_platformVars => [FilesNext]_fileVars
  BY FirstExporterAssumption DEF PlatformNext, platformVars, FilesNext, MigrateStep, ExportStep
<1> QED BY <1>1, <1>2, <1>3, <1>4, <1>5, <1>6, PTL
        DEF PlatformSpec, UpdSpec, PlugSpec, SandSpec, MlsSpec, FilesSpec

\* An update, however it fails, leaves an installation that starts.
THEOREM UpdatesSafeAlways == PlatformSpec => []UpdatesSafe
<1>1. UpdTypeOK /\ NeverStranded /\ OnlyReleasesKept /\ VersionsOrdered => UpdatesSafe
  BY DEF UpdatesSafe
<1> QED BY <1>1, PlatformImplements, UpdatesSound, PTL

\* Plugins are served, chained and confined.
THEOREM PluginsSoundAlways == PlatformSpec => []PluginsSound
<1>1. PlugTypeOK /\ ServedUntilWithdrawn /\ ChainEnds /\ SandTypeOK /\ QuotaHolds /\ OnlyDeclaredUsed
        /\ InstallsCounted => PluginsSound
  BY DEF PluginsSound
<1> QED BY <1>1, PlatformImplements, RegistrySound, SandboxSound, PTL

\* A version of a plugin is published once.
THEOREM PublishedOnceAlways == PlatformSpec => PublishedOnce
  BY PlatformImplements, RegistryPublishedOnce, PTL

\* The members of a group read what is sent to it.
THEOREM GroupsSoundAlways == PlatformSpec => []GroupsSound
<1>1. MlsTypeOK /\ EpochOpens /\ SecretRenewed /\ NoChangeMissed => GroupsSound
  BY DEF GroupsSound
<1> QED BY <1>1, PlatformImplements, EpochsSound, PTL

\* The SQLite files are whole: their schema, and what an export published.
THEOREM FilesCompleteAlways == PlatformSpec => []FilesComplete
<1>1. FilesTypeOK /\ MigrationsInOrder /\ OpenedComplete /\ PublishedIsSnapshot => FilesComplete
  BY DEF FilesComplete
<1> QED BY <1>1, PlatformImplements, FilesSound, PTL
==============================================================================
