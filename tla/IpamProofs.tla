------------------------------ MODULE IpamProofs ------------------------------
(***************************************************************************)
(* The walk of Allocate gives out every address of the pod CIDR but the    *)
(* first two, and only those; what the file Allocated may say, whatever    *)
(* the plugin calls do to it; and what it says, and who has which address, *)
(* as long as nothing disturbs the calls.                                  *)
(*                                                                         *)
(* The walk is about an Inc that carries, a CHOOSE and a recursive         *)
(* function: what it meets is proved by induction on the number of turns   *)
(* and, backwards, along the order of addresses.  NamesItsOwn needs        *)
(* nothing of the walk: it holds because what a call is about to write     *)
(* obeys it, too, as a call may write what it read long ago over what      *)
(* others wrote since.  NoDuplicateAddress and FileExact need to know at   *)
(* every step of the one call under way what the file says and what it is  *)
(* going to say (FileSays, BufSays).                                       *)
(*                                                                         *)
(* The steps of a call as Cni has them, with the mount of the network      *)
(* namespace, are steps of Ipam, so all of this holds of them; and a       *)
(* sandbox runs only with its namespace mounted.                           *)
(***************************************************************************)
EXTENDS Cni, FiniteSetTheorems, TLAPS

-----------------------------------------------------------------------------
(* Induction on natural numbers, from the library's well-founded orders.   *)

\* A set of natural numbers has a least element.
LEMMA Least ==
  ASSUME NEW T \in SUBSET Nat, T # {}
  PROVE  \E x \in T : \A y \in T : x <= y
<1> DEFINE F == {0 .. n : n \in T}
<1>1. F \subseteq FiniteSubsetsOf(Nat) /\ F # {}
  <2>1. ASSUME NEW n \in T PROVE 0 .. n \in FiniteSubsetsOf(Nat)
    <3>1. IsFiniteSet(0 .. n)
      BY FS_Interval
    <3> QED BY <3>1 DEF FiniteSubsetsOf
  <2>2. F # {}
    OBVIOUS
  <2> QED BY <2>1, <2>2
<1>2. PICK m \in F : \A s \in F : <<s, m>> \notin StrictSubsetOrdering(Nat)
  BY <1>1, FS_StrictSubsetOrderingWellFounded, WFMin
<1>3. PICK x \in T : m = 0 .. x
  OBVIOUS
<1>4. ASSUME NEW y \in T, y < x PROVE FALSE
  <2>1. 0 .. y \in F
    OBVIOUS
  <2>2. <<0 .. y, 0 .. x>> \in StrictSubsetOrdering(Nat)
    BY <1>4 DEF StrictSubsetOrdering
  <2> QED BY <2>1, <2>2, <1>2, <1>3
<1> QED BY <1>4

\* Induction, on sets: what holds of 0 and is handed on holds up to any bound.
LEMMA InductionUpTo ==
  ASSUME NEW S, NEW k \in Nat, 0 \in S, \A n \in 0 .. (k - 1) : n \in S => n + 1 \in S
  PROVE  0 .. k \subseteq S
<1> SUFFICES ASSUME (0 .. k) \ S # {} PROVE FALSE
  OBVIOUS
<1>1. PICK x \in (0 .. k) \ S : \A y \in (0 .. k) \ S : x <= y
  <2>1. (0 .. k) \ S \in SUBSET Nat
    OBVIOUS
  <2> QED BY <2>1, Least
<1>2. x - 1 \in 0 .. (k - 1) /\ x - 1 \in S
  BY <1>1
<1> QED BY <1>1, <1>2

\* What the assumption on the CIDR says, fact by fact.
LEMMA Bytes ==
  /\ ByteBase \in Nat /\ ByteBase >= 2
  /\ Len(Network) \in Nat /\ Prefix \in Nat /\ 1 <= Prefix /\ Prefix <= Len(Network)
  /\ Network \in IpType
  /\ \A j \in (Prefix + 1) .. Len(Network) : Network[j] = 0
<1> DEFINE L == Len(Network)
<1>1. Network \in Seq(0 .. ByteBase - 1)
  BY CidrAssumption
<1>2. L \in Nat /\ Network \in [1 .. L -> 0 .. ByteBase - 1]
  <2>1. \A S : \A q \in Seq(S) : Len(q) \in Nat /\ q \in [1 .. Len(q) -> S]
    OBVIOUS
  <2> QED BY <1>1, <2>1
<1>3. ByteBase \in Nat /\ ByteBase >= 2 /\ Prefix \in 1 .. L
  BY CidrAssumption
<1>4. \A j \in (Prefix + 1) .. L : Network[j] = 0
  BY CidrAssumption
<1>5. Network \in IpType
  BY <1>2 DEF IpType
<1> HIDE DEF L
<1>6. Prefix \in Nat /\ 1 <= Prefix /\ Prefix <= L
  BY <1>2, <1>3
<1> QED BY <1>2, <1>3, <1>4, <1>5, <1>6 DEF L

\* Where the carry of an increment ends: the last byte below the largest, or 0.
CarryAt(ip, i) ==
  /\ i \in 0 .. Len(Network)
  /\ i > 0 => ip[i] # ByteBase - 1
  /\ \A k \in (i + 1) .. Len(Network) : ip[k] = ByteBase - 1

\* The carry ends somewhere ...
LEMMA CarryEnds == \A ip \in IpType : \E i : CarryAt(ip, i)
<1> SUFFICES ASSUME NEW ip \in IpType PROVE \E i : CarryAt(ip, i)
  OBVIOUS
<1> DEFINE T == {i \in 0 .. Len(Network) :
                   \A k \in (i + 1) .. Len(Network) : ip[k] = ByteBase - 1}
<1>1. T \in SUBSET Nat /\ Len(Network) \in T
  BY Bytes
<1>2. PICK i \in T : \A y \in T : i <= y
  BY <1>1, Least
<1>3. ASSUME i > 0, ip[i] = ByteBase - 1 PROVE FALSE
  <2>1. i - 1 \in T
    BY <1>3, Bytes
  <2>2. i \in Nat
    OBVIOUS
  <2> HIDE DEF T
  <2> QED BY <2>1, <2>2, <1>2
<1> QED BY <1>2, <1>3 DEF CarryAt

\* ... and at one place only ...
LEMMA CarryUnique ==
  ASSUME NEW ip \in IpType, NEW i, NEW j, CarryAt(ip, i), CarryAt(ip, j)
  PROVE  i = j
<1>1. i \in 0 .. Len(Network) /\ j \in 0 .. Len(Network)
  BY DEF CarryAt
<1>2. ~(i < j) /\ ~(j < i)
  BY <1>1, Bytes DEF CarryAt
<1> QED BY <1>1, <1>2, Bytes

\* ... so what Inc chooses is known, and is an address.
LEMMA IncIs ==
  ASSUME NEW ip \in IpType, NEW j, CarryAt(ip, j)
  PROVE  /\ Inc(ip) = [i \in 1 .. Len(Network) |->
                         IF i < j THEN ip[i] ELSE IF i = j THEN ip[i] + 1 ELSE 0]
         /\ Inc(ip) \in IpType
<1>1. DOMAIN ip = 1 .. Len(Network) /\ ip \in Seq(0 .. ByteBase - 1) /\ Len(ip) = Len(Network)
  BY Bytes DEF IpType
<1> DEFINE P(i) == /\ i > 0 => ip[i] # ByteBase - 1
                   /\ \A k \in (i + 1) .. Len(ip) : ip[k] = ByteBase - 1
<1> DEFINE c == CHOOSE i \in 0 .. Len(ip) : P(i)
<1>2. j \in 0 .. Len(ip) /\ P(j)
  BY <1>1 DEF CarryAt
<1>3. c \in 0 .. Len(ip) /\ P(c)
  BY <1>2
<1>4. CarryAt(ip, c)
  BY <1>3, <1>1 DEF CarryAt
<1>5. c = j
  BY <1>4, CarryUnique
<1>6. Inc(ip) = [i \in DOMAIN ip |-> IF i < c THEN ip[i] ELSE IF i = c THEN ip[i] + 1 ELSE 0]
  BY DEF Inc
<1> HIDE DEF c
<1>7. Inc(ip) = [i \in 1 .. Len(Network) |->
                         IF i < j THEN ip[i] ELSE IF i = j THEN ip[i] + 1 ELSE 0]
  BY <1>1, <1>5, <1>6
<1>8. \A i \in 1 .. Len(Network) : ip[i] \in 0 .. ByteBase - 1 /\ (i = j => ip[i] # ByteBase - 1)
  BY Bytes DEF IpType, CarryAt
<1>9. \A i \in 1 .. Len(Network) :
        (IF i < j THEN ip[i] ELSE IF i = j THEN ip[i] + 1 ELSE 0) \in 0 .. ByteBase - 1
  BY <1>8, Bytes
<1> QED BY <1>7, <1>9 DEF IpType

\* There are finitely many addresses.
LEMMA IpTypeFinite == IsFiniteSet(IpType)
<1> DEFINE D == 0 .. ByteBase - 1
           F(k) == [1 .. k -> D]
           S == {k \in 0 .. Len(Network) : IsFiniteSet(F(k))}
<1>1. IsFiniteSet(D)
  BY Bytes, FS_Interval
<1>2. 0 \in S
  <2>1. F(0) = {[i \in {} |-> 0]}
    <3>1. 1 .. 0 = {}
      OBVIOUS
    <3>2. \A f, g \in [{} -> D] : f = g
      OBVIOUS
    <3>3. [i \in {} |-> 0] \in [{} -> D]
      OBVIOUS
    <3> QED BY <3>1, <3>2, <3>3
  <2>2. IsFiniteSet(F(0))
    <3> DEFINE none == [i \in {} |-> 0]
    <3> HIDE DEF none
    <3>1. IsFiniteSet({none})
      BY FS_Singleton
    <3> QED BY <2>1, <3>1 DEF none
  <2> QED BY <2>2, Bytes
<1>3. ASSUME NEW n \in 0 .. (Len(Network) - 1), n \in S PROVE n + 1 \in S
  <2> DEFINE extend == [p \in F(n) \X D |->
                          [i \in 1 .. (n + 1) |-> IF i <= n THEN p[1][i] ELSE p[2]]]
  <2>1. IsFiniteSet(F(n) \X D)
    BY <1>1, <1>3, FS_Product
  <2>2. \A p \in F(n) \X D : extend[p] \in F(n + 1)
    <3> SUFFICES ASSUME NEW p \in F(n) \X D,
                        NEW i \in 1 .. (n + 1)
                 PROVE  (IF i <= n THEN p[1][i] ELSE p[2]) \in D
      OBVIOUS
    <3>1. p[1] \in F(n) /\ p[2] \in D
      OBVIOUS
    <3>2. i <= n => i \in 1 .. n
      BY Bytes
    <3> QED BY <3>1, <3>2
  <2>3. ASSUME NEW f \in F(n + 1) PROVE \E p \in F(n) \X D : extend[p] = f
    <3> DEFINE p == <<[i \in 1 .. n |-> f[i]], f[n + 1]>>
    <3>1. p \in F(n) \X D
      <4>1. \A i \in 1 .. (n + 1) : f[i] \in D
        OBVIOUS
      <4>2. n + 1 \in 1 .. (n + 1) /\ \A i \in 1 .. n : i \in 1 .. (n + 1)
        BY Bytes
      <4> QED BY <4>1, <4>2
    <3>2. extend[p] = [i \in 1 .. (n + 1) |-> IF i <= n THEN p[1][i] ELSE p[2]]
      BY <3>1
    <3>3. \A i \in 1 .. (n + 1) : (IF i <= n THEN p[1][i] ELSE p[2]) = f[i]
      <4> TAKE i \in 1 .. (n + 1)
      <4>1. i <= n => i \in 1 .. n
        BY Bytes
      <4>2. ~(i <= n) => i = n + 1
        BY Bytes
      <4> QED BY <4>1, <4>2
    <3> HIDE DEF p
    <3>4. extend[p] = f
      BY <3>2, <3>3
    <3> QED BY <3>1, <3>4
  <2> HIDE DEF extend
  <2>4. extend \in Surjection(F(n) \X D, F(n + 1))
    <3>1. extend \in [F(n) \X D -> F(n + 1)]
      BY <2>2 DEF extend
    <3> QED BY <3>1, <2>3 DEF Surjection
  <2>5. IsFiniteSet(F(n + 1))
    BY <2>1, <2>4, FS_Surjection
  <2> QED BY <2>5, Bytes
<1> HIDE DEF S
<1>4. 0 .. Len(Network) \subseteq S
  BY <1>2, <1>3, Bytes, InductionUpTo
<1>5. Len(Network) \in S
  BY <1>4, Bytes
<1> QED BY <1>5 DEF S, IpType

\* The addresses of the pod CIDR.
Cidr == {ip \in IpType : Contains(ip)}

\* There are finitely many in the pod CIDR, so CidrSize is a number.
LEMMA CidrIsFinite == IsFiniteSet(Cidr) /\ CidrSize = Cardinality(Cidr) /\ CidrSize \in Nat
<1>1. IsFiniteSet(Cidr)
  BY IpTypeFinite, FS_Subset DEF Cidr
<1> QED BY <1>1, FS_CardinalityType DEF CidrSize, Cidr

\* The recursion of Walk has a solution, so Walk is one.
LEMMA WalkSteps ==
  /\ Walk[0] = Network
  /\ \A n \in 1 .. CidrSize : Walk[n] = Inc(Walk[n - 1])
<1> DEFINE Eq(g, k) == g = [n \in 0 .. k |-> IF n = 0 THEN Network ELSE Inc(g[n - 1])]
           S == {k \in 0 .. CidrSize : \E g : Eq(g, k)}
<1>1. 0 \in S
  <2> DEFINE g == [n \in 0 .. 0 |-> Network]
  <2>1. g = [n \in 0 .. 0 |-> IF n = 0 THEN Network ELSE Inc(g[n - 1])]
    OBVIOUS
  <2>2. 0 \in 0 .. CidrSize
    BY CidrIsFinite
  <2> HIDE DEF g
  <2> QED BY <2>1, <2>2
<1>2. ASSUME NEW k \in 0 .. (CidrSize - 1), k \in S PROVE k + 1 \in S
  <2>1. PICK g : Eq(g, k)
    BY <1>2
  <2> DEFINE h == [n \in 0 .. (k + 1) |-> IF n <= k THEN g[n] ELSE Inc(g[k])]
  <2>2. \A n \in 0 .. (k + 1) : h[n] = IF n = 0 THEN Network ELSE Inc(h[n - 1])
    <3> TAKE n \in 0 .. (k + 1)
    <3>1. k \in Nat
      BY CidrIsFinite
    <3>2. CASE n = 0
      BY <2>1, <3>1, <3>2
    <3>3. CASE n \in 1 .. k
      <4>1. h[n] = g[n] /\ h[n - 1] = g[n - 1] /\ n # 0
        BY <3>1, <3>3
      <4> QED BY <2>1, <3>1, <3>3, <4>1
    <3>4. CASE n = k + 1
      BY <3>1, <3>4
    <3> QED BY <3>1, <3>2, <3>3, <3>4
  <2>3. DOMAIN h = 0 .. (k + 1) /\ h = [n \in 0 .. (k + 1) |-> h[n]]
    OBVIOUS
  <2> HIDE DEF h
  <2>4. Eq(h, k + 1)
    BY <2>2, <2>3
  <2>5. k + 1 \in 0 .. CidrSize
    BY CidrIsFinite
  <2> HIDE DEF Eq
  <2> QED BY <2>4, <2>5
<1>3. \E g : Eq(g, CidrSize)
  <2> HIDE DEF S
  <2>1. 0 .. CidrSize \subseteq S
    BY <1>1, <1>2, CidrIsFinite, InductionUpTo
  <2>2. CidrSize \in S
    BY <2>1, CidrIsFinite
  <2> QED BY <2>2 DEF S
<1>4. Walk = CHOOSE g : Eq(g, CidrSize)
  BY DEF Walk
<1>5. Eq(Walk, CidrSize)
  BY <1>3, <1>4
<1> HIDE DEF Walk
<1>6. \A n \in 0 .. CidrSize : Walk[n] = IF n = 0 THEN Network ELSE Inc(Walk[n - 1])
  BY <1>5
<1> QED BY <1>6, CidrIsFinite

\* Whatever turn the walk is at, it is at an address.
LEMMA WalkType == \A n \in 0 .. CidrSize : Walk[n] \in IpType
<1> DEFINE S == {n \in 0 .. CidrSize : Walk[n] \in IpType}
<1>1. 0 \in S
  BY WalkSteps, Bytes, CidrIsFinite
<1>2. ASSUME NEW n \in 0 .. (CidrSize - 1), n \in S PROVE n + 1 \in S
  <2>1. n + 1 \in 1 .. CidrSize /\ (n + 1) - 1 = n
    BY CidrIsFinite
  <2>2. Walk[n + 1] = Inc(Walk[n])
    BY <2>1, WalkSteps
  <2> QED BY <1>2, <2>1, <2>2, CarryEnds, IncIs
<1> HIDE DEF S
<1>3. 0 .. CidrSize \subseteq S
  BY <1>1, <1>2, CidrIsFinite, InductionUpTo
<1> QED BY <1>3 DEF S

\* a comes before b: the first byte that differs is smaller.
Before(a, b) ==
  \E j \in 1 .. Len(Network) : a[j] < b[j] /\ \A i \in 1 .. (j - 1) : a[i] = b[i]

\* The walk is inside the CIDR up to turn n.
Inside(n) == \A m \in 0 .. n : Contains(Walk[m])

\* Before is a strict order.
LEMMA BeforeOrders ==
  /\ \A a \in IpType : ~Before(a, a)
  /\ \A a, b, c \in IpType : Before(a, b) /\ Before(b, c) => Before(a, c)
<1>1. \A a \in IpType : ~Before(a, a)
  BY Bytes DEF Before, IpType
<1>2. ASSUME NEW a \in IpType, NEW b \in IpType, NEW c \in IpType, Before(a, b), Before(b, c)
      PROVE  Before(a, c)
  <2>1. PICK j \in 1 .. Len(Network) : a[j] < b[j] /\ \A i \in 1 .. (j - 1) : a[i] = b[i]
    BY <1>2 DEF Before
  <2>2. PICK k \in 1 .. Len(Network) : b[k] < c[k] /\ \A i \in 1 .. (k - 1) : b[i] = c[i]
    BY <1>2 DEF Before
  <2>3. \A i \in 1 .. Len(Network) : a[i] \in Int /\ b[i] \in Int /\ c[i] \in Int
    BY Bytes DEF IpType
  <2>4. CASE j < k
    <3>1. a[j] < c[j] /\ \A i \in 1 .. (j - 1) : a[i] = c[i]
      BY <2>1, <2>2, <2>3, <2>4, Bytes
    <3> QED BY <3>1 DEF Before
  <2>5. CASE j = k
    <3>1. a[j] < c[j] /\ \A i \in 1 .. (j - 1) : a[i] = c[i]
      BY <2>1, <2>2, <2>3, <2>5, Bytes
    <3> QED BY <3>1 DEF Before
  <2>6. CASE k < j
    <3>1. a[k] < c[k] /\ \A i \in 1 .. (k - 1) : a[i] = c[i]
      BY <2>1, <2>2, <2>3, <2>6, Bytes
    <3> QED BY <3>1 DEF Before
  <2> QED BY <2>4, <2>5, <2>6, Bytes
<1> QED BY <1>1, <1>2

\* A turn that stays inside the CIDR carries no further than its host bytes, and
\* leads to a later address.
LEMMA StepInside ==
  ASSUME NEW ip \in IpType, Contains(ip), Contains(Inc(ip)), NEW j, CarryAt(ip, j)
  PROVE  j > Prefix /\ Before(ip, Inc(ip))
<1>1. Inc(ip) = [i \in 1 .. Len(Network) |->
                   IF i < j THEN ip[i] ELSE IF i = j THEN ip[i] + 1 ELSE 0]
  BY IncIs
<1>2. j \in 0 .. Len(Network) /\ \A i \in 1 .. Len(Network) : ip[i] \in 0 .. ByteBase - 1
  BY DEF CarryAt, IpType
<1>3. j # 0
  <2>1. SUFFICES ASSUME j = 0 PROVE FALSE
    OBVIOUS
  <2>2. ip[1] = ByteBase - 1 /\ Inc(ip)[1] = 0 /\ 1 \in 1 .. Prefix
    BY <1>1, <2>1, Bytes DEF CarryAt
  <2>3. ip[1] = Network[1] /\ Inc(ip)[1] = Network[1]
    BY <2>2 DEF Contains
  <2> QED BY <2>2, <2>3, Bytes
<1>4. j > Prefix
  <2>1. SUFFICES ASSUME j \in 1 .. Prefix PROVE FALSE
    BY <1>2, <1>3, Bytes
  <2>2. Inc(ip)[j] = ip[j] + 1 /\ ip[j] \in Int
    BY <1>1, <1>2, <2>1, Bytes
  <2> QED BY <2>1, <2>2 DEF Contains
<1>5. j \in 1 .. Len(Network) /\ ip[j] < Inc(ip)[j] /\ \A i \in 1 .. (j - 1) : ip[i] = Inc(ip)[i]
  BY <1>1, <1>2, <1>3, Bytes
<1> QED BY <1>4, <1>5 DEF Before

\* The walk never meets an address twice.
LEMMA WalkForward ==
  \A n \in 0 .. CidrSize : Inside(n) => \A m \in 0 .. (n - 1) : Before(Walk[m], Walk[n])
<1> DEFINE S == {n \in 0 .. CidrSize :
                  Inside(n) => \A m \in 0 .. (n - 1) : Before(Walk[m], Walk[n])}
<1>1. 0 \in S
  BY CidrIsFinite
<1>2. ASSUME NEW n \in 0 .. (CidrSize - 1), n \in S PROVE n + 1 \in S
  <2>1. n \in Nat /\ n + 1 \in 0 .. CidrSize /\ n + 1 \in 1 .. CidrSize /\ (n + 1) - 1 = n
    BY CidrIsFinite
  <2>2. SUFFICES ASSUME Inside(n + 1), NEW m \in 0 .. n PROVE Before(Walk[m], Walk[n + 1])
    BY <2>1
  <2>3. Inside(n) /\ Contains(Walk[n]) /\ Contains(Walk[n + 1])
    BY <2>1, <2>2 DEF Inside
  <2>4. Walk[n] \in IpType /\ Walk[m] \in IpType /\ Walk[n + 1] \in IpType /\ Walk[n + 1] = Inc(Walk[n])
    <3>1. m \in 0 .. CidrSize /\ n \in 0 .. CidrSize
      BY <2>1, CidrIsFinite
    <3> QED BY <2>1, <3>1, WalkType, WalkSteps
  <2>5. Before(Walk[n], Walk[n + 1])
    BY <2>3, <2>4, CarryEnds, StepInside
  <2>6. CASE m = n
    BY <2>5, <2>6
  <2>7. CASE m \in 0 .. (n - 1)
    <3>1. Before(Walk[m], Walk[n])
      BY <1>2, <2>3, <2>7
    <3> QED BY <2>4, <2>5, <3>1, BeforeOrders
  <2> QED BY <2>1, <2>6, <2>7
<1> HIDE DEF S
<1>3. 0 .. CidrSize \subseteq S
  BY <1>1, <1>2, CidrIsFinite, InductionUpTo
<1> QED BY <1>3 DEF S

\* A walk that is still inside has not yet met every address but the one it is at.
LEMMA WalkFits ==
  ASSUME NEW n \in 0 .. CidrSize, Inside(n)
  PROVE  n < CidrSize
<1> DEFINE f == [m \in 0 .. n |-> Walk[m]]
<1>1. n \in Nat
  BY CidrIsFinite
<1>2. ASSUME NEW m \in 0 .. n PROVE Walk[m] \in Cidr
  <2>1. m \in 0 .. CidrSize
    BY CidrIsFinite
  <2> QED BY <2>1, WalkType DEF Cidr, Inside
<1>3. f \in [0 .. n -> Cidr]
  BY <1>2
<1>4. ASSUME NEW k \in 0 .. n, NEW m \in 0 .. (k - 1) PROVE Walk[m] # Walk[k]
  <2>1. k \in 0 .. CidrSize /\ Inside(k)
    BY CidrIsFinite DEF Inside
  <2>2. Before(Walk[m], Walk[k])
    BY <2>1, WalkForward
  <2> QED BY <2>1, <2>2, WalkType, BeforeOrders
<1>5. \A k, m \in 0 .. n : f[k] = f[m] => k = m
  <2> SUFFICES ASSUME NEW k \in 0 .. n, NEW m \in 0 .. n, Walk[k] = Walk[m], k # m PROVE FALSE
    OBVIOUS
  <2>1. m \in 0 .. (k - 1) \/ k \in 0 .. (m - 1)
    BY <1>1
  <2> QED BY <1>4, <2>1
<1> HIDE DEF f
<1>6. f \in Injection(0 .. n, Cidr)
  BY <1>3, <1>5 DEF Injection, IsInjective
<1>7. Cardinality(0 .. n) <= CidrSize
  BY <1>6, CidrIsFinite, FS_Injection
<1>8. Cardinality(0 .. n) = n + 1
  BY <1>1, FS_Interval
<1> QED BY <1>1, <1>7, <1>8, CidrIsFinite

\* Before is well-founded on addresses.
LEMMA BeforeWellFounded ==
  ASSUME NEW T \in SUBSET IpType, T # {}
  PROVE  \E x \in T : \A y \in T : ~Before(y, x)
<1> DEFINE D == 0 .. ByteBase - 1
           R == {ss \in D \X D : ss[1] < ss[2]}
           L == LexProductOrdering(R, D, Len(Network))
<1>1. IsWellFoundedOn(R, D)
  <2>1. ASSUME NEW U \in SUBSET D, U # {} PROVE \E x \in U : \A y \in U : <<y, x>> \notin R
    <3>1. U \in SUBSET Nat
      BY Bytes
    <3>2. PICK x \in U : \A y \in U : x <= y
      BY <2>1, <3>1, Least
    <3> QED BY <3>1, <3>2
  <2> HIDE DEF R, D
  <2> QED BY <2>1, MinWF
<1>2. IsWellFoundedOn(L, IpType)
  <2>1. IpType = [1 .. Len(Network) -> D]
    BY DEF IpType
  <2> HIDE DEF R, D
  <2> QED BY <1>1, <2>1, Bytes, WFLexProductOrdering
<1> HIDE DEF L
<1>3. PICK x \in T : \A y \in T : <<y, x>> \notin L
  BY <1>2, WFMin
<1>4. ASSUME NEW y \in T, Before(y, x) PROVE FALSE
  <2>1. PICK j \in 1 .. Len(Network) : y[j] < x[j] /\ \A i \in 1 .. (j - 1) : y[i] = x[i]
    BY <1>4 DEF Before
  <2>2. x \in [1 .. Len(Network) -> D] /\ y \in [1 .. Len(Network) -> D]
    BY DEF IpType
  <2>3. <<y[j], x[j]>> \in R
    BY <2>1, <2>2
  <2> HIDE DEF R, D
  <2> DEFINE ff == <<y, x>>
  <2>4. /\ ff \in [1 .. Len(Network) -> D] \X [1 .. Len(Network) -> D]
        /\ ff[1] = y /\ ff[2] = x
    BY <2>2
  <2> HIDE DEF ff
  <2>5. ff \in L
    BY <2>1, <2>3, <2>4 DEF L, LexProductOrdering
  <2> QED BY <1>3, <2>5 DEF ff
<1> QED BY <1>3, <1>4

\* An address of the CIDR after the network's is what Inc makes of another.
LEMMA HasPredecessor ==
  ASSUME NEW a \in Cidr, a # Network
  PROVE  \E d \in Cidr : Before(d, a) /\ Inc(d) = a
<1> DEFINE N == Len(Network)
           T == {i \in 0 .. N : \A k \in (i + 1) .. N : a[k] = 0}
<1>0. N \in Nat /\ Prefix \in 1 .. N /\ ByteBase \in Nat /\ ByteBase >= 2
  BY Bytes
<1>1. a \in IpType /\ Contains(a) /\ a \in [1 .. N -> 0 .. ByteBase - 1]
  BY DEF Cidr, IpType
<1>2. T \in SUBSET Nat /\ N \in T
  BY <1>0
<1>3. PICK j \in T : \A y \in T : j <= y
  BY <1>2, Least
<1>4. j \in 0 .. N /\ \A k \in (j + 1) .. N : a[k] = 0
  OBVIOUS
<1>5. j > Prefix
  <2>1. SUFFICES ASSUME j <= Prefix PROVE FALSE
    BY <1>0, <1>4
  <2>2. \A i \in 1 .. N : a[i] = Network[i]
    <3> TAKE i \in 1 .. N
    <3>1. CASE i <= Prefix
      BY <1>0, <1>1, <3>1 DEF Contains
    <3>2. CASE i > Prefix
      BY <1>0, <1>4, <2>1, <3>2, Bytes
    <3> QED BY <1>0, <3>1, <3>2
  <2>3. Network \in [1 .. N -> 0 .. ByteBase - 1]
    BY Bytes DEF IpType
  <2> QED BY <1>1, <2>2, <2>3
<1>6. a[j] \in 1 .. ByteBase - 1
  <2>1. a[j] \in 0 .. ByteBase - 1
    BY <1>0, <1>1, <1>4, <1>5
  <2>2. SUFFICES ASSUME a[j] = 0 PROVE FALSE
    BY <2>1, <1>0
  <2>3. j - 1 \in T
    BY <1>0, <1>4, <1>5, <2>2
  <2> HIDE DEF T
  <2> QED BY <1>0, <1>3, <1>4, <2>3
<1> DEFINE d == [i \in 1 .. N |-> IF i < j THEN a[i] ELSE IF i = j THEN a[j] - 1 ELSE ByteBase - 1]
<1>7. d \in IpType
  <2> SUFFICES ASSUME NEW i \in 1 .. N
               PROVE  (IF i < j THEN a[i] ELSE IF i = j THEN a[j] - 1 ELSE ByteBase - 1)
                        \in 0 .. ByteBase - 1
    BY DEF IpType
  <2>1. a[i] \in 0 .. ByteBase - 1
    BY <1>1
  <2> QED BY <1>0, <1>6, <2>1
<1>8. \A i \in 1 .. N :
        d[i] = IF i < j THEN a[i] ELSE IF i = j THEN a[j] - 1 ELSE ByteBase - 1
  OBVIOUS
<1> HIDE DEF d, T
<1>9. d \in Cidr
  <2>1. \A i \in 1 .. Prefix : d[i] = a[i]
    BY <1>0, <1>4, <1>5, <1>8
  <2> QED BY <1>1, <1>7, <2>1 DEF Cidr, Contains
<1>10. Before(d, a)
  <2>1. j \in 1 .. N /\ d[j] < a[j] /\ \A i \in 1 .. (j - 1) : d[i] = a[i]
    BY <1>0, <1>4, <1>5, <1>6, <1>8
  <2> QED BY <2>1 DEF Before
<1>11. CarryAt(d, j)
  <2>1. d[j] # ByteBase - 1 /\ \A k \in (j + 1) .. N : d[k] = ByteBase - 1
    BY <1>0, <1>4, <1>5, <1>6, <1>8
  <2> QED BY <1>4, <2>1 DEF CarryAt
<1>12. Inc(d) = a
  <2>1. Inc(d) = [i \in 1 .. N |-> IF i < j THEN d[i] ELSE IF i = j THEN d[i] + 1 ELSE 0]
    BY <1>7, <1>11, IncIs
  <2>2. \A i \in 1 .. N : (IF i < j THEN d[i] ELSE IF i = j THEN d[i] + 1 ELSE 0) = a[i]
    BY <1>0, <1>4, <1>5, <1>6, <1>8
  <2> QED BY <1>1, <2>1, <2>2
<1> QED BY <1>9, <1>10, <1>12

\* The walk meets every address of the CIDR before it leaves it.
LEMMA WalkReaches ==
  \A a \in Cidr : \E n \in 0 .. CidrSize : Inside(n) /\ Walk[n] = a
<1> DEFINE missed == {a \in Cidr : ~\E n \in 0 .. CidrSize : Inside(n) /\ Walk[n] = a}
<1> SUFFICES ASSUME missed # {} PROVE FALSE
  OBVIOUS
<1>1. PICK a \in missed : \A y \in missed : ~Before(y, a)
  <2>1. missed \in SUBSET IpType
    BY DEF Cidr
  <2> HIDE DEF missed
  <2> QED BY <2>1, BeforeWellFounded
<1>2. a # Network
  <2>1. Inside(0) /\ Walk[0] = Network /\ 0 \in 0 .. CidrSize
    <3>1. \A m \in 0 .. 0 : m = 0
      OBVIOUS
    <3> QED BY <3>1, WalkSteps, CidrIsFinite DEF Inside, Contains
  <2> QED BY <2>1
<1>3. PICK d \in Cidr : Before(d, a) /\ Inc(d) = a
  BY <1>2, HasPredecessor
<1>4. PICK n \in 0 .. CidrSize : Inside(n) /\ Walk[n] = d
  BY <1>1, <1>3
<1>5. n + 1 \in 1 .. CidrSize /\ (n + 1) - 1 = n /\ n \in Nat
  BY <1>4, WalkFits, CidrIsFinite
<1>6. Walk[n + 1] = a
  BY <1>3, <1>4, <1>5, WalkSteps
<1>7. Inside(n + 1)
  <2>1. Contains(a)
    BY DEF Cidr
  <2> QED BY <1>4, <1>5, <1>6, <2>1 DEF Inside
<1>8. n + 1 \in 0 .. CidrSize
  BY <1>5, CidrIsFinite
<1> QED BY <1>6, <1>7, <1>8

\* The first two addresses of the CIDR, and no others, are not given out.
LEMMA FirstTwo ==
  ASSUME Prefix < Len(Network)
  PROVE  /\ Network \in Cidr \ Addr /\ Inc(Network) \in Cidr \ Addr
         /\ \A ip \in Cidr \ Addr : ip = Network \/ ip = Inc(Network)
<1> DEFINE N == Len(Network)
<1>1. /\ N \in Nat /\ Prefix \in 1 .. N /\ Prefix < N /\ ByteBase \in Nat /\ ByteBase >= 2
      /\ Network \in IpType /\ Network \in [1 .. N -> 0 .. ByteBase - 1]
      /\ \A j \in (Prefix + 1) .. N : Network[j] = 0
  BY Bytes DEF IpType
<1>2. CarryAt(Network, N)
  BY <1>1 DEF CarryAt
<1>3. /\ Inc(Network) = [i \in 1 .. N |->
                           IF i < N THEN Network[i] ELSE IF i = N THEN Network[i] + 1 ELSE 0]
      /\ Inc(Network) \in IpType
  BY <1>1, <1>2, IncIs
<1>4. /\ \A i \in 1 .. (N - 1) : Inc(Network)[i] = Network[i]
      /\ Inc(Network)[N] = 1 /\ Network[N] = 0
  <2>1. N \in 1 .. N /\ Network[N] = 0 /\ \A i \in 1 .. (N - 1) : i \in 1 .. N /\ i < N
    BY <1>1
  <2> HIDE DEF N
  <2> QED BY <1>3, <2>1
<1>5. Network \in Cidr /\ Inc(Network) \in Cidr
  <2>1. \A i \in 1 .. Prefix : i \in 1 .. (N - 1)
    BY <1>1
  <2> QED BY <1>1, <1>3, <1>4, <2>1 DEF Cidr, Contains
<1>6. Network \notin Addr /\ Inc(Network) \notin Addr
  <2> HIDE DEF N
  <2>1. \A j \in (Prefix + 1) .. N : j \in 1 .. N /\ (j # N => j \in 1 .. (N - 1))
    BY <1>1
  <2>2. \A j \in (Prefix + 1) .. N :
          /\ ~(Network[j] > (IF j = N THEN 1 ELSE 0))
          /\ ~(Inc(Network)[j] > (IF j = N THEN 1 ELSE 0))
    <3> TAKE j \in (Prefix + 1) .. N
    <3>1. Network[j] = 0 /\ Inc(Network)[j] = IF j = N THEN 1 ELSE 0
      BY <1>1, <1>4, <2>1
    <3> QED BY <3>1
  <2> QED BY <2>2 DEF Addr, N
<1>7. ASSUME NEW ip \in Cidr \ Addr PROVE ip = Network \/ ip = Inc(Network)
  <2>1. ip \in [1 .. N -> 0 .. ByteBase - 1] /\ \A i \in 1 .. Prefix : ip[i] = Network[i]
    BY DEF Cidr, Contains, IpType
  <2>2. \A j \in (Prefix + 1) .. N : ~(ip[j] > (IF j = N THEN 1 ELSE 0))
    BY DEF Addr, Cidr
  <2> HIDE DEF N
  <2>3. \A i \in 1 .. (N - 1) : ip[i] = Network[i]
    <3> TAKE i \in 1 .. (N - 1)
    <3>1. CASE i <= Prefix
      BY <1>1, <2>1, <3>1
    <3>2. CASE i > Prefix
      <4>1. i \in (Prefix + 1) .. N /\ i # N /\ i \in 1 .. N
        BY <1>1, <3>2
      <4>2. ip[i] \in 0 .. ByteBase - 1 /\ ~(ip[i] > 0) /\ Network[i] = 0
        BY <1>1, <2>1, <2>2, <4>1
      <4> QED BY <4>2, <1>1
    <3> QED BY <1>1, <3>1, <3>2
  <2>4. ip[N] \in {0, 1}
    <3>1. N \in (Prefix + 1) .. N /\ N \in 1 .. N
      BY <1>1
    <3>2. ip[N] \in 0 .. ByteBase - 1 /\ ~(ip[N] > 1)
      BY <2>1, <2>2, <3>1
    <3> QED BY <1>1, <3>2
  <2>5. CASE ip[N] = 0
    <3>1. \A i \in 1 .. N : ip[i] = Network[i]
      BY <1>1, <2>3, <2>5
    <3> QED BY <1>1, <2>1, <3>1
  <2>6. CASE ip[N] = 1
    <3>1. \A i \in 1 .. N : ip[i] = Inc(Network)[i]
      BY <1>1, <1>4, <2>3, <2>6
    <3> QED BY <1>3, <2>1, <3>1 DEF IpType
  <2> QED BY <2>4, <2>5, <2>6
<1> QED BY <1>5, <1>6, <1>7

\* On its turns the walk of Allocate gives out the addresses of the pod CIDR but
\* the first two: no other, and all of them.
THEOREM TurnsAreAddr == {Walk[n] : n \in Turn} = Addr
<1>1. ASSUME NEW n \in Turn PROVE Walk[n] \in Addr
  <2>1. n \in 0 .. CidrSize /\ n >= 2 /\ Inside(n) /\ n \in 0 .. n
    BY CidrIsFinite DEF Turn, Inside
  <2>2. Walk[n] \in Cidr
    BY <2>1, WalkType DEF Inside, Cidr
  <2>3. 0 \in 0 .. (n - 1) /\ 1 \in 0 .. (n - 1) /\ 0 \in 0 .. CidrSize /\ 1 \in 1 .. CidrSize
    BY <2>1, CidrIsFinite
  <2>4. Before(Network, Walk[n]) /\ Before(Inc(Network), Walk[n])
    <3>1. Walk[0] = Network /\ Walk[1] = Inc(Network)
      BY <2>3, WalkSteps
    <3> QED BY <2>1, <2>3, <3>1, WalkForward
  <2>5. Walk[n] # Network /\ Walk[n] # Inc(Network)
    BY <2>2, <2>4, BeforeOrders DEF Cidr
  <2>6. Prefix < Len(Network)
    <3>1. SUFFICES ASSUME Prefix = Len(Network) PROVE FALSE
      BY Bytes
    <3>2. Walk[n] \in [1 .. Len(Network) -> 0 .. ByteBase - 1]
          /\ Network \in [1 .. Len(Network) -> 0 .. ByteBase - 1]
      BY <2>2, Bytes DEF Cidr, IpType
    <3>3. \A i \in 1 .. Len(Network) : Walk[n][i] = Network[i]
      BY <2>2, <3>1 DEF Cidr, Contains
    <3>4. Walk[n] = Network
      BY <3>2, <3>3
    <3> QED BY <2>5, <3>4
  <2> QED BY <2>2, <2>5, <2>6, FirstTwo
<1>2. ASSUME NEW a \in Addr PROVE \E n \in Turn : Walk[n] = a
  <2>1. a \in Cidr /\ Prefix < Len(Network)
    BY Bytes DEF Addr, Cidr
  <2>2. a # Network /\ a # Inc(Network)
    BY <2>1, FirstTwo
  <2>3. PICK n \in 0 .. CidrSize : Inside(n) /\ Walk[n] = a
    BY <2>1, WalkReaches
  <2>4. n # 0
    BY <2>2, <2>3, WalkSteps
  <2>5. n # 1
    <3>1. n = 1 => n \in 1 .. CidrSize
      BY <2>3, CidrIsFinite
    <3> QED BY <2>2, <2>3, <3>1, WalkSteps
  <2>6. n \in 2 .. CidrSize
    BY <2>3, <2>4, <2>5, CidrIsFinite
  <2> QED BY <2>3, <2>6 DEF Turn, Inside
<1> QED BY <1>1, <1>2

\* The address chosen is free, and none is chosen only if none is.
LEMMA FirstFreeIsFree ==
  ASSUME Free(Read) # {}
  PROVE  FirstFree \in Addr /\ Read[FirstFree] = Nil
<1>1. Free(Read) \in SUBSET Nat
  BY CidrIsFinite DEF Free, Turn
<1>2. \E n \in Free(Read) : \A m \in Free(Read) : n <= m
  BY <1>1, Least
<1>3. PICK n \in Free(Read) : FirstFree = Walk[n]
  BY <1>2 DEF FirstFree
<1>4. n \in Turn /\ Read[Walk[n]] = Nil
  BY DEF Free
<1> QED BY <1>3, <1>4, TurnsAreAddr

\* If the walk meets no free address, there is none.
LEMMA NoneFree == Free(Read) = {} => \A a \in Addr : Read[a] # Nil
<1> SUFFICES ASSUME Free(Read) = {}, NEW a \in Addr PROVE Read[a] # Nil
  OBVIOUS
<1>1. PICK n \in Turn : Walk[n] = a
  BY TurnsAreAddr
<1> QED BY <1>1 DEF Free

-----------------------------------------------------------------------------
(* The file never lies.                                                    *)

\* f names a sandbox only after it was added, and at the address it was given.
Honest(f) ==
  \A a \in Addr, sb \in Sandbox :
    f[a] = sb => pc[sb] # "new" /\ addr[sb] \in {a, Nil}

\* The part of the types that the proof needs; that an address given out is in
\* Addr is not one of them.
Shapes ==
  /\ file \in IpSet \cup {Empty, Torn}
  /\ DOMAIN pc = Sandbox /\ pc = [sb \in Sandbox |-> pc[sb]]
  /\ buf \in [Sandbox -> IpSet]
  /\ DOMAIN addr = Sandbox /\ addr = [sb \in Sandbox |-> addr[sb]]

\* The inductive invariant: the file and every buffer are honest.
HonestInv ==
  /\ Shapes
  /\ Honest(Read)
  /\ \A sb \in Sandbox : Honest(buf[sb])

\* A file without any sandbox is a file.
LEMMA NoAddrIpSet == NoAddr \in IpSet
BY DEF NoAddr, IpSet

\* ... and honest.
LEMMA NoAddrHonest == Honest(NoAddr)
BY SandboxAssumption DEF NoAddr, Honest

\* What a call finds in the file is a map, whatever the file looks like.
LEMMA ReadIpSet == file \in IpSet \cup {Empty, Torn} => Read \in IpSet
BY NoAddrIpSet, FileAssumption DEF Read

\* A sandbox that is still new is named nowhere.
LEMMA NewIsUnnamed ==
  ASSUME NEW f, Honest(f), NEW sb \in Sandbox, pc[sb] = "new"
  PROVE  \A a \in Addr : f[a] # sb
BY DEF Honest

\* Honesty survives a step after which no sandbox is new that was not, and none
\* that is named has another address than before, but perhaps none.
LEMMA HonestFrame ==
  ASSUME NEW f, Honest(f),
         \A sb \in Sandbox : pc'[sb] = "new" => pc[sb] = "new",
         \A sb \in Sandbox :
           pc[sb] # "new" => addr'[sb] = addr[sb] \/ addr'[sb] = Nil
  PROVE  \A a \in Addr, sb \in Sandbox :
           f[a] = sb => pc'[sb] # "new" /\ addr'[sb] \in {a, Nil}
BY DEF Honest

\* The hypotheses of HonestFrame, for any step.
Gentle ==
  /\ \A sb \in Sandbox : pc'[sb] = "new" => pc[sb] = "new"
  /\ \A sb \in Sandbox :
       pc[sb] # "new" => addr'[sb] = addr[sb] \/ addr'[sb] = Nil

\* A gentle step that brings neither into the file nor into a buffer what was
\* not in one of them, but perhaps without some entries.
LEMMA GentleKeeps ==
  ASSUME HonestInv, Gentle, Shapes',
         \/ Read' = Read
         \/ Read' = NoAddr
         \/ \E u \in Sandbox : Read' = buf[u],
         \A u \in Sandbox :
           \/ buf'[u] = buf[u]
           \/ buf'[u] = NoAddr
           \/ \A a \in Addr : buf'[u][a] \in {Read[a], Nil}
  PROVE  HonestInv'
<1> USE DEF HonestInv, Gentle
<1>1. Honest(Read)'
  <2>1. CASE Read' = Read
    BY <2>1, HonestFrame DEF Honest
  <2>2. CASE Read' = NoAddr
    BY <2>2, NoAddrHonest, HonestFrame DEF Honest
  <2>3. CASE \E u \in Sandbox : Read' = buf[u]
    BY <2>3, HonestFrame DEF Honest
  <2> QED BY <2>1, <2>2, <2>3
<1>2. ASSUME NEW u \in Sandbox PROVE Honest(buf[u])'
  <2>1. CASE buf'[u] = buf[u]
    BY <2>1, HonestFrame DEF Honest
  <2>2. CASE buf'[u] = NoAddr
    BY <2>2, NoAddrHonest, HonestFrame DEF Honest
  <2>3. CASE \A a \in Addr : buf'[u][a] \in {Read[a], Nil}
    BY <2>3, SandboxAssumption, HonestFrame DEF Honest
  <2> QED BY <1>2, <2>1, <2>2, <2>3
<1> QED BY <1>1, <1>2

\* The empty file and the empty buffers are honest.
LEMMA InitHonest == Init => HonestInv
<1> SUFFICES ASSUME Init PROVE HonestInv
  OBVIOUS
<1>1. Read = NoAddr
  BY DEF Init, Read
<1>2. Shapes
  BY NoAddrIpSet DEF Init, Shapes
<1> QED BY <1>1, <1>2, NoAddrHonest DEF Init, HonestInv

\* The one step that names a sandbox: it is new, so nothing else names it, and
\* its address is the one it is named at.
LEMMA AllocateHonest ==
  ASSUME HonestInv, NEW sb \in Sandbox, Allocate(sb)
  PROVE  HonestInv'
<1> USE DEF HonestInv, Allocate
<1> DEFINE given == FirstFree
<1>1. Read \in IpSet /\ Read' = Read
  BY ReadIpSet DEF Shapes, Read
<1>2. addr' = [addr EXCEPT ![sb] = given]
  OBVIOUS
<1>3. buf' = [buf EXCEPT ![sb] = [Read EXCEPT ![given] = sb]]
  OBVIOUS
<1> HIDE DEF given
<1>4. [Read EXCEPT ![given] = sb] \in IpSet
  BY <1>1 DEF IpSet
<1>5. Shapes'
  BY <1>2, <1>3, <1>4 DEF Shapes
<1>6. ASSUME NEW f, Honest(f)
      PROVE  \A a \in Addr, t \in Sandbox :
               f[a] = t => pc'[t] # "new" /\ addr'[t] \in {a, Nil}
  BY <1>2, <1>6, NewIsUnnamed DEF Honest, Shapes
<1>7. Honest(Read)'
  BY <1>1, <1>6 DEF Honest
<1>8. ASSUME NEW u \in Sandbox PROVE Honest(buf[u])'
  <2>1. CASE u # sb
    BY <1>3, <1>6, <2>1 DEF Honest, Shapes
  <2>2. CASE u = sb
    <3>1. buf'[u] = [Read EXCEPT ![given] = sb]
      BY <1>3, <2>2 DEF Shapes
    <3>2. ASSUME NEW a \in Addr, NEW t \in Sandbox, buf'[u][a] = t
          PROVE  pc'[t] # "new" /\ addr'[t] \in {a, Nil}
      <4>1. CASE a = given
        BY <1>1, <1>2, <3>1, <3>2, <4>1 DEF IpSet, Shapes
      <4>2. CASE a # given
        <5>1. Read[a] = t
          BY <1>1, <3>1, <3>2, <4>2 DEF IpSet
        <5> QED BY <1>6, <5>1
      <4> QED BY <4>1, <4>2
    <3> QED BY <3>2 DEF Honest
  <2> QED BY <2>1, <2>2
<1> QED BY <1>5, <1>7, <1>8

\* A call without an address, and one that panics, only moves on.
LEMMA AllocateNothingHonest ==
  ASSUME HonestInv, NEW sb \in Sandbox, AllocateNone(sb) \/ AllocatePanics(sb)
  PROVE  HonestInv'
<1>1. Read' = Read /\ Shapes' /\ Gentle
  BY DEF HonestInv, Shapes, AllocateNone, AllocatePanics, Read, Gentle
<1> QED BY <1>1, GentleKeeps DEF AllocateNone, AllocatePanics

\* Deallocate copies the file but for one entry at most.
LEMMA DeallocateHonest ==
  ASSUME HonestInv, NEW sb \in Sandbox, Deallocate(sb) \/ DeallocateNoVpc(sb)
  PROVE  HonestInv'
<1>1. CASE Deallocate(sb)
  <2>1. file \in IpSet /\ Read = file /\ Read' = Read
    BY <1>1 DEF HonestInv, Shapes, Deallocate, Read
  <2>2. PICK f \in IpSet :
          /\ buf' = [buf EXCEPT ![sb] = f]
          /\ \A a \in Addr : f[a] \in {Read[a], Nil}
    <3>1. CASE buf' = [buf EXCEPT ![sb] = file]
      BY <2>1, <3>1
    <3>2. CASE \E a \in Addr : buf' = [buf EXCEPT ![sb] = [file EXCEPT ![a] = Nil]]
      <4>1. PICK a \in Addr : buf' = [buf EXCEPT ![sb] = [file EXCEPT ![a] = Nil]]
        BY <3>2
      <4>2. [file EXCEPT ![a] = Nil] \in IpSet
        BY <2>1 DEF IpSet
      <4>3. \A b \in Addr : [file EXCEPT ![a] = Nil][b] \in {Read[b], Nil}
        BY <2>1 DEF IpSet
      <4> QED BY <4>1, <4>2, <4>3
    <3> QED BY <1>1, <3>1, <3>2 DEF Deallocate
  <2>3. Shapes' /\ Gentle
    BY <1>1, <2>1, <2>2 DEF HonestInv, Shapes, Deallocate, Gentle
  <2>4. \A u \in Sandbox :
          buf'[u] = buf[u] \/ \A a \in Addr : buf'[u][a] \in {Read[a], Nil}
    BY <2>2 DEF HonestInv, Shapes
  <2> QED BY <2>1, <2>3, <2>4, GentleKeeps
<1>2. CASE DeallocateNoVpc(sb)
  <2>1. Read' = Read /\ Shapes' /\ Gentle
    BY <1>2 DEF HonestInv, Shapes, DeallocateNoVpc, Read, Gentle
  <2> QED BY <1>2, <2>1, GentleKeeps DEF DeallocateNoVpc
<1> QED BY <1>1, <1>2

\* The file is emptied, or becomes a buffer, or a text that no one can read.
LEMMA CallStepHonest ==
  ASSUME HonestInv, NEW sb \in Sandbox, CallStep(sb)
  PROVE  HonestInv'
<1>1. CASE Create(sb)
  <2>1. Read' = NoAddr /\ Shapes' /\ Gentle
    BY <1>1 DEF HonestInv, Shapes, Create, Read, Gentle
  <2> QED BY <1>1, <2>1, GentleKeeps DEF Create
<1>2. CASE Write(sb)
  <2>1. buf[sb] \in IpSet /\ buf' = [buf EXCEPT ![sb] = NoAddr]
    BY <1>2 DEF HonestInv, Shapes, Write
  <2>2. Read' = buf[sb] \/ Read' = NoAddr
    BY <1>2, <2>1, FileAssumption DEF Write, Read
  <2>3. Shapes' /\ Gentle
    BY <1>2, <2>1, NoAddrIpSet DEF HonestInv, Shapes, Write, Gentle
  <2>4. \A u \in Sandbox : buf'[u] = buf[u] \/ buf'[u] = NoAddr
    BY <2>1 DEF HonestInv, Shapes
  <2> QED BY <2>2, <2>3, <2>4, GentleKeeps
<1>3. CASE Activate(sb) \/ ActivateFails(sb) \/ DeleteNetNS(sb)
  <2>1. Read' = Read /\ Shapes' /\ Gentle /\ buf' = buf
    BY <1>3 DEF HonestInv, Shapes, Activate, ActivateFails, DeleteNetNS, Read, Gentle
  <2> QED BY <2>1, GentleKeeps
<1> QED BY <1>1, <1>2, <1>3 DEF CallStep

\* A call that is killed leaves the file as it is.
LEMMA KilledHonest ==
  ASSUME HonestInv, NEW sb \in Sandbox, Killed(sb)
  PROVE  HonestInv'
<1>1. Read' = Read /\ Shapes' /\ Gentle
  BY NoAddrIpSet DEF HonestInv, Shapes, Killed, Read, Gentle
<1>2. \A u \in Sandbox : buf'[u] = buf[u] \/ buf'[u] = NoAddr
  BY DEF HonestInv, Shapes, Killed
<1> QED BY <1>1, <1>2, GentleKeeps

\* Every step keeps the file and the buffers honest.
LEMMA StepHonest == HonestInv /\ [Next]_ipamVars => HonestInv'
<1> SUFFICES ASSUME HonestInv, [Next]_ipamVars PROVE HonestInv'
  OBVIOUS
<1>1. CASE UNCHANGED ipamVars
  <2>1. Read' = Read /\ Shapes' /\ Gentle /\ buf' = buf
    BY <1>1 DEF HonestInv, Shapes, Read, Gentle, ipamVars
  <2> QED BY <2>1, GentleKeeps
<1>2. ASSUME NEW sb \in Sandbox, Kubelet(sb) \/ CallStep(sb) \/ Killed(sb)
      PROVE  HonestInv'
  BY <1>2, AllocateHonest, AllocateNothingHonest, DeallocateHonest, CallStepHonest,
     KilledHonest DEF Kubelet
<1> QED BY <1>1, <1>2 DEF Next

-----------------------------------------------------------------------------
(* Types.                                                                  *)

\* Nothing is out of its type at the start ...
LEMMA TypeInit == Init => TypeOK
<1> SUFFICES ASSUME Init PROVE TypeOK
  OBVIOUS
<1>1. pc \in [Sandbox -> Resting \cup {"add-create", "add-write", "activate",
                                      "del-create", "del-write", "del-netns"}]
  BY DEF Init, Resting
<1>2. buf \in [Sandbox -> IpSet] /\ addr \in [Sandbox -> Addr \cup {Nil}]
  BY NoAddrIpSet DEF Init
<1>3. file = Empty /\ kills = 0 /\ disturbed = FALSE
  BY DEF Init
<1>4. kills \in 0 .. MaxKills
  BY <1>3, MaxKillsAssumption
<1>5. disturbed \in BOOLEAN
  BY <1>3
<1> QED BY <1>1, <1>2, <1>3, <1>4, <1>5 DEF TypeOK

\* ... nor after an address was taken, as the walk gives out addresses only ...
LEMMA AllocateTypes ==
  ASSUME TypeOK, NEW sb \in Sandbox, Allocate(sb)
  PROVE  TypeOK'
<1> DEFINE given == FirstFree
<1>1. given \in Addr /\ Read \in IpSet
  BY FirstFreeIsFree, ReadIpSet DEF Allocate, TypeOK
<1>2. /\ addr' = [addr EXCEPT ![sb] = given]
      /\ buf' = [buf EXCEPT ![sb] = [Read EXCEPT ![given] = sb]]
      /\ pc' = [pc EXCEPT ![sb] = "add-create"]
      /\ file' = file /\ kills' = kills /\ disturbed' = (disturbed \/ Overlaps)
  BY DEF Allocate, CallBegins
<1> HIDE DEF given
<1>3. [Read EXCEPT ![given] = sb] \in IpSet
  BY <1>1 DEF IpSet
<1>4. disturbed' \in BOOLEAN
  BY <1>2
<1> QED BY <1>1, <1>2, <1>3, <1>4 DEF TypeOK

\* ... nor after an entry was deleted ...
LEMMA DeallocateTypes ==
  ASSUME TypeOK, NEW sb \in Sandbox, Deallocate(sb)
  PROVE  TypeOK'
<1>1. file \in IpSet
  BY DEF Deallocate, TypeOK
<1>2. \E f \in IpSet : buf' = [buf EXCEPT ![sb] = f]
  <2>1. CASE buf' = [buf EXCEPT ![sb] = file]
    BY <1>1, <2>1
  <2>2. ASSUME NEW a \in Addr, buf' = [buf EXCEPT ![sb] = [file EXCEPT ![a] = Nil]]
        PROVE  \E f \in IpSet : buf' = [buf EXCEPT ![sb] = f]
    <3>1. [file EXCEPT ![a] = Nil] \in IpSet
      BY <1>1 DEF IpSet
    <3> QED BY <2>2, <3>1
  <2> QED BY <2>1, <2>2 DEF Deallocate
<1>3. disturbed' \in BOOLEAN
  BY DEF Deallocate, CallBegins
<1> QED BY <1>2, <1>3 DEF Deallocate, TypeOK

\* ... nor after any step.
LEMMA TypeStep == TypeOK /\ [Next]_ipamVars => TypeOK'
<1> SUFFICES ASSUME TypeOK, [Next]_ipamVars PROVE TypeOK'
  OBVIOUS
<1>1. CASE UNCHANGED ipamVars
  BY <1>1 DEF TypeOK, ipamVars
<1>2. ASSUME NEW sb \in Sandbox, AllocateNone(sb) \/ AllocatePanics(sb) \/ DeallocateNoVpc(sb)
      PROVE  TypeOK'
  <2>1. disturbed' \in BOOLEAN
    BY <1>2 DEF AllocateNone, AllocatePanics, DeallocateNoVpc, CallBegins
  <2>2. kills' \in 0 .. MaxKills
    BY <1>2, MaxKillsAssumption DEF AllocateNone, AllocatePanics, DeallocateNoVpc, TypeOK
  <2>3. pc' \in [Sandbox -> Resting \cup {"add-create", "add-write", "activate",
                                      "del-create", "del-write", "del-netns"}]
    BY <1>2 DEF AllocateNone, AllocatePanics, DeallocateNoVpc, TypeOK, Resting
  <2>4. UNCHANGED <<file, buf, addr>>
    BY <1>2 DEF AllocateNone, AllocatePanics, DeallocateNoVpc
  <2> QED BY <2>1, <2>2, <2>3, <2>4 DEF TypeOK
<1>3. ASSUME NEW sb \in Sandbox, CallStep(sb) PROVE TypeOK'
  <2>1. CASE Write(sb)
    BY <2>1, NoAddrIpSet DEF Write, TypeOK, Resting
  <2>2. CASE ~Write(sb)
    BY <1>3, <2>2 DEF CallStep, Create, Activate, ActivateFails, DeleteNetNS, TypeOK, Resting
  <2> QED BY <2>1, <2>2
<1>4. ASSUME NEW sb \in Sandbox, Killed(sb) PROVE TypeOK'
  <2>1. disturbed' \in BOOLEAN
    BY <1>4 DEF Killed
  <2>2. addr' \in [Sandbox -> Addr \cup {Nil}]
    BY <1>4 DEF Killed, TypeOK
  <2> QED BY <1>4, <2>1, <2>2, NoAddrIpSet, MaxKillsAssumption DEF Killed, TypeOK, Resting
<1> QED BY <1>1, <1>2, <1>3, <1>4, AllocateTypes, DeallocateTypes DEF Next, Kubelet

-----------------------------------------------------------------------------
(* What the calls leave in the file while nothing has disturbed them.      *)

\* f says which sandbox has which address, of all sandboxes but out.
Records(f, out) ==
  \A a \in Addr, sb \in Sandbox : f[a] = sb <=> sb # out /\ addr[sb] = a

\* One call at a time.
Alone ==
  \A s, t \in Sandbox : pc[s] \notin Resting /\ pc[t] \notin Resting => s = t

\* No two sandboxes have one address.
Distinct ==
  \A s, t \in Sandbox : s # t /\ addr[s] # Nil => addr[s] # addr[t]

\* What the file says while a call is under way with sb ...
FileSays(sb) ==
  /\ pc[sb] \in {"activate", "del-create"} => Records(Read, Nil)
  /\ pc[sb] \in {"add-create", "del-netns"} => Records(Read, sb)
  /\ pc[sb] \in {"add-write", "del-write"} => file = Empty

\* ... and what it is going to say.
BufSays(sb) ==
  /\ pc[sb] \in {"add-create", "add-write"} => Records(buf[sb], Nil)
  /\ pc[sb] \in {"del-create", "del-write"} => Records(buf[sb], sb)

\* What an undisturbed file and the call under way agree on.
InTurn ==
  /\ Alone
  /\ Distinct
  /\ file # Torn
  /\ ~Overlaps => Records(Read, Nil)
  /\ \A sb \in Sandbox : FileSays(sb) /\ BufSays(sb)

\* The inductive invariant of undisturbed calls.
CallsInv ==
  /\ TypeOK
  /\ \A sb \in Sandbox : pc[sb] = "new" => addr[sb] = Nil
  /\ ~disturbed => InTurn

\* At the start nobody has an address and the file names nobody.
LEMMA CallsInit == Init => CallsInv
<1> SUFFICES ASSUME Init PROVE CallsInv
  OBVIOUS
<1>1. Read = NoAddr /\ Records(NoAddr, Nil)
  BY SandboxAssumption, NilAssumption DEF Init, Read, Records, NoAddr
<1>2. Alone /\ Distinct /\ file # Torn
  BY FileAssumption DEF Init, Alone, Distinct, Resting
<1>3. \A sb \in Sandbox : FileSays(sb) /\ BufSays(sb)
  BY DEF Init, FileSays, BufSays
<1> QED BY <1>1, <1>2, <1>3, TypeInit DEF CallsInv, InTurn, Init

\* A step of one call, while no other is under way.
LEMMA TurnKeeps ==
  ASSUME NEW sb \in Sandbox,
         \A t \in Sandbox \ {sb} : pc'[t] \in Resting,
         Distinct', file' # Torn,
         pc'[sb] \in Resting => Records(Read, Nil)',
         FileSays(sb)', BufSays(sb)'
  PROVE  InTurn'
<1>1. Alone'
  BY DEF Alone
<1>2. ~Overlaps' => Records(Read, Nil)'
  BY DEF Overlaps
<1>3. ASSUME NEW t \in Sandbox \ {sb} PROVE FileSays(t)' /\ BufSays(t)'
  BY <1>3 DEF FileSays, BufSays, Resting
<1> QED BY <1>1, <1>2, <1>3 DEF InTurn

\* A call that begins undisturbed finds every other at rest and the file exact.
LEMMA BeginsAlone ==
  ASSUME CallsInv, NEW sb \in Sandbox, Kubelet(sb), ~disturbed'
  PROVE  /\ InTurn /\ Records(Read, Nil) /\ \A t \in Sandbox : pc[t] \in Resting
         /\ \A t \in Sandbox \ {sb} : pc'[t] \in Resting
<1>1. ~disturbed /\ ~Overlaps
  BY DEF Kubelet, Allocate, AllocateNone, AllocatePanics, Deallocate, DeallocateNoVpc, CallBegins
<1>2. \A t \in Sandbox \ {sb} : pc'[t] = pc[t]
  BY DEF Kubelet, Allocate, AllocateNone, AllocatePanics, Deallocate, DeallocateNoVpc,
         CallsInv, TypeOK
<1> QED BY <1>1, <1>2 DEF CallsInv, InTurn, Overlaps

\* A call that goes on undisturbed is the only one.
LEMMA GoesOnAlone ==
  ASSUME CallsInv, NEW sb \in Sandbox, CallStep(sb) \/ Killed(sb), ~disturbed'
  PROVE  InTurn /\ pc[sb] \notin Resting /\ \A t \in Sandbox \ {sb} : pc'[t] \in Resting
<1>1. ~disturbed
  BY DEF CallStep, Create, Write, Activate, ActivateFails, DeleteNetNS, Killed
<1>0. pc[sb] \notin Resting
  BY DEF CallStep, Create, Write, Activate, ActivateFails, DeleteNetNS, Killed, Resting
<1>2. \A t \in Sandbox \ {sb} : pc'[t] = pc[t]
  BY DEF CallStep, Create, Write, Activate, ActivateFails, DeleteNetNS, Killed, CallsInv, TypeOK
<1> QED BY <1>0, <1>1, <1>2 DEF CallsInv, InTurn, Alone

\* A sandbox that is new was given nothing, before a step and after it.
LEMMA NewHasNone ==
  ASSUME CallsInv, NEW sb \in Sandbox, Kubelet(sb) \/ CallStep(sb) \/ Killed(sb),
         NEW t \in Sandbox, pc'[t] = "new"
  PROVE  addr'[t] = Nil
<1>1. pc'[sb] # "new" /\ (t # sb => pc[t] = "new" /\ addr'[t] = addr[t])
  BY DEF Kubelet, Allocate, AllocateNone, AllocatePanics, Deallocate, DeallocateNoVpc, CallStep,
         Create, Write, Activate, ActivateFails, DeleteNetNS, Killed, CallsInv, TypeOK
<1> QED BY <1>1 DEF CallsInv

\* Allocate takes an address nobody has; in the file as it will be, it is that of sb.
LEMMA AllocateInTurn ==
  ASSUME CallsInv, NEW sb \in Sandbox, Allocate(sb), ~disturbed'
  PROVE  InTurn'
<1> DEFINE given == FirstFree
<1>1. /\ InTurn /\ Records(Read, Nil) /\ TypeOK /\ addr[sb] = Nil
      /\ \A t \in Sandbox \ {sb} : pc'[t] \in Resting
  BY BeginsAlone DEF Kubelet, CallsInv, Allocate
<1>2. given \in Addr /\ Read[given] = Nil /\ Read \in IpSet
  BY FirstFreeIsFree, ReadIpSet, <1>1 DEF Allocate, TypeOK
<1>3. /\ addr' = [addr EXCEPT ![sb] = given]
      /\ buf' = [buf EXCEPT ![sb] = [Read EXCEPT ![given] = sb]]
      /\ pc' = [pc EXCEPT ![sb] = "add-create"]
      /\ file' = file /\ Read' = Read
  BY DEF Allocate, Read
<1> HIDE DEF given
<1>4. pc'[sb] = "add-create" /\ addr'[sb] = given /\ buf'[sb] = [Read EXCEPT ![given] = sb]
      /\ \A t \in Sandbox \ {sb} : addr'[t] = addr[t] /\ addr[t] # given
  BY <1>1, <1>2, <1>3, SandboxAssumption DEF TypeOK, Records
<1>5. Distinct'
  BY <1>1, <1>4 DEF Distinct, InTurn
<1>6. Records(Read, sb)'
  <2>1. ASSUME NEW a \in Addr, NEW t \in Sandbox
        PROVE  Read[a] = t <=> t # sb /\ addr'[t] = a
    <3>1. Read[a] = t <=> addr[t] = a
      BY <1>1, SandboxAssumption DEF Records
    <3>2. Read[a] # sb
      BY <1>1, SandboxAssumption, NilAssumption DEF Records
    <3> QED BY <1>4, <3>1, <3>2
  <2> QED BY <1>3, <2>1 DEF Records
<1>7. Records(buf[sb], Nil)'
  <2>1. ASSUME NEW a \in Addr, NEW t \in Sandbox
        PROVE  buf'[sb][a] = t <=> t # Nil /\ addr'[t] = a
    <3>1. CASE a = given
      BY <1>2, <1>4, <3>1, SandboxAssumption DEF IpSet
    <3>2. CASE a # given
      <4>1. buf'[sb][a] = Read[a]
        BY <1>2, <1>4, <3>2 DEF IpSet
      <4>2. Read[a] = t <=> addr[t] = a
        BY <1>1, SandboxAssumption DEF Records
      <4>3. CASE t = sb
        BY <1>1, <1>4, <3>2, <4>1, <4>2, <4>3, SandboxAssumption, NilAssumption
      <4>4. CASE t # sb
        BY <1>4, <4>1, <4>2, <4>4, SandboxAssumption
      <4> QED BY <4>3, <4>4
    <3> QED BY <3>1, <3>2
  <2> QED BY <2>1 DEF Records
<1>8. FileSays(sb)' /\ BufSays(sb)'
  BY <1>4, <1>6, <1>7 DEF FileSays, BufSays
<1>9. file' # Torn /\ pc'[sb] \notin Resting
  BY <1>1, <1>3, <1>4 DEF InTurn, Resting
<1> QED BY <1>1, <1>5, <1>8, <1>9, TurnKeeps

\* A call that ends at once leaves everything as it was.
LEMMA AllocateNothingInTurn ==
  ASSUME CallsInv, NEW sb \in Sandbox, AllocateNone(sb) \/ AllocatePanics(sb), ~disturbed'
  PROVE  InTurn'
<1>1. /\ InTurn /\ Records(Read, Nil) /\ TypeOK
      /\ \A t \in Sandbox \ {sb} : pc'[t] \in Resting
  BY BeginsAlone DEF Kubelet, CallsInv
<1>2. file' = file /\ addr' = addr /\ pc'[sb] = "failed"
  BY <1>1 DEF AllocateNone, AllocatePanics, TypeOK
<1>3. Distinct' /\ file' # Torn /\ Records(Read, Nil)'
  BY <1>1, <1>2 DEF InTurn, Distinct, Records, Read
<1>4. FileSays(sb)' /\ BufSays(sb)'
  BY <1>2 DEF FileSays, BufSays
<1> QED BY <1>1, <1>3, <1>4, TurnKeeps

\* Deallocate takes the entry of sb out of what it read, if there is one.
LEMMA DeallocateInTurn ==
  ASSUME CallsInv, NEW sb \in Sandbox, Deallocate(sb), ~disturbed'
  PROVE  InTurn'
<1>1. /\ InTurn /\ Records(Read, Nil) /\ TypeOK
      /\ \A t \in Sandbox \ {sb} : pc'[t] \in Resting
  BY BeginsAlone DEF Kubelet, CallsInv
<1>2. /\ file' = file /\ addr' = addr /\ pc'[sb] = "del-create"
      /\ file \in IpSet /\ Read = file /\ Read' = file
  BY <1>1 DEF Deallocate, TypeOK, Read
<1>3. \A a \in Addr, t \in Sandbox : file[a] = t <=> addr[t] = a
  BY <1>1, <1>2, SandboxAssumption DEF Records
<1>4. Distinct' /\ file' # Torn /\ Records(Read, Nil)'
  BY <1>1, <1>2 DEF InTurn, Distinct, Records
<1>5. Records(buf[sb], sb)'
  <2> DEFINE named == {a \in Addr : file[a] # Nil /\ NameOf[file[a]] = NameOf[sb]}
  <2>1. CASE named = {} /\ buf' = [buf EXCEPT ![sb] = file]
    <3>1. buf'[sb] = file
      BY <1>1, <2>1 DEF TypeOK
    <3>2. \A a \in Addr : file[a] # sb
      BY <2>1, SandboxAssumption
    <3> QED BY <1>2, <1>3, <3>1, <3>2 DEF Records
  <2>2. ASSUME NEW a \in Addr, file[a] = sb, buf' = [buf EXCEPT ![sb] = [file EXCEPT ![a] = Nil]]
        PROVE  Records(buf[sb], sb)'
    <3>1. buf'[sb] = [file EXCEPT ![a] = Nil]
      BY <1>1, <2>2 DEF TypeOK
    <3>2. \A b \in Addr : buf'[sb][b] = IF b = a THEN Nil ELSE file[b]
      BY <1>2, <3>1 DEF IpSet
    <3>3. \A b \in Addr : file[b] = sb => b = a
      BY <1>3, <2>2
    <3> QED BY <1>2, <1>3, <2>2, <3>2, <3>3, SandboxAssumption DEF Records
  <2>3. \/ named = {} /\ buf' = [buf EXCEPT ![sb] = file]
        \/ \E a \in named : file[a] = sb /\ buf' = [buf EXCEPT ![sb] = [file EXCEPT ![a] = Nil]]
    BY DEF Deallocate
  <2> QED BY <2>1, <2>2, <2>3
<1>6. FileSays(sb)' /\ BufSays(sb)' /\ pc'[sb] \notin Resting
  BY <1>2, <1>4, <1>5 DEF FileSays, BufSays, Resting
<1> QED BY <1>1, <1>4, <1>6, TurnKeeps

\* No vpc in the file: nobody has an address.
LEMMA DeallocateNoVpcInTurn ==
  ASSUME CallsInv, NEW sb \in Sandbox, DeallocateNoVpc(sb), ~disturbed'
  PROVE  InTurn'
<1>1. /\ InTurn /\ Records(Read, Nil) /\ TypeOK
      /\ \A t \in Sandbox \ {sb} : pc'[t] \in Resting
  BY BeginsAlone DEF Kubelet, CallsInv
<1>2. file' = file /\ addr' = addr /\ pc'[sb] = "del-netns" /\ Read = NoAddr /\ Read' = Read
  BY <1>1 DEF DeallocateNoVpc, TypeOK, Read
<1>3. \A a \in Addr : addr[sb] # a
  BY <1>1, <1>2, SandboxAssumption DEF Records, NoAddr
<1>4. Distinct' /\ file' # Torn /\ Records(Read, sb)'
  BY <1>1, <1>2, <1>3, SandboxAssumption DEF InTurn, Distinct, Records, NoAddr
<1>5. FileSays(sb)' /\ BufSays(sb)' /\ pc'[sb] \notin Resting
  BY <1>2, <1>4 DEF FileSays, BufSays, Resting
<1> QED BY <1>1, <1>4, <1>5, TurnKeeps

\* The file is emptied and filled with what the call has ready.
LEMMA WriteInTurn ==
  ASSUME CallsInv, NEW sb \in Sandbox, Create(sb) \/ Write(sb), ~disturbed'
  PROVE  InTurn'
<1>1. /\ InTurn /\ FileSays(sb) /\ BufSays(sb) /\ TypeOK
      /\ \A t \in Sandbox \ {sb} : pc'[t] \in Resting
  BY GoesOnAlone DEF CallStep, CallsInv, InTurn
<1>2. addr' = addr /\ Distinct'
  BY <1>1 DEF Create, Write, InTurn, Distinct
<1>3. CASE Create(sb)
  <2>1. /\ file' = Empty /\ buf' = buf
        /\ pc[sb] = "add-create" => pc'[sb] = "add-write"
        /\ pc[sb] = "del-create" => pc'[sb] = "del-write"
        /\ pc[sb] \in {"add-create", "del-create"}
    BY <1>1, <1>3 DEF Create, TypeOK
  <2>2. FileSays(sb)' /\ BufSays(sb)' /\ pc'[sb] \notin Resting
    BY <1>1, <1>2, <2>1 DEF FileSays, BufSays, Resting, Records
  <2>3. file' # Torn
    BY <2>1, FileAssumption
  <2> QED BY <1>1, <1>2, <2>2, <2>3, TurnKeeps
<1>4. CASE Write(sb)
  <2>1. file = Empty
    BY <1>1, <1>4 DEF Write, FileSays
  <2>2. file' = buf[sb] /\ buf[sb] \in IpSet
    BY <1>1, <1>4, <2>1 DEF Write, TypeOK
  <2>3. Read' = buf[sb] /\ file' # Torn
    BY <2>2, FileAssumption DEF Read
  <2>4. CASE pc[sb] = "add-write"
    <3>1. pc'[sb] = "activate"
      BY <1>1, <1>4, <2>4 DEF Write, TypeOK
    <3>2. FileSays(sb)' /\ BufSays(sb)' /\ pc'[sb] \notin Resting
      BY <1>1, <1>2, <2>3, <2>4, <3>1 DEF FileSays, BufSays, Resting, Records
    <3> QED BY <1>1, <1>2, <2>3, <3>2, TurnKeeps
  <2>5. CASE pc[sb] = "del-write"
    <3>1. pc'[sb] = "del-netns"
      BY <1>1, <1>4, <2>5 DEF Write, TypeOK
    <3>2. FileSays(sb)' /\ BufSays(sb)' /\ pc'[sb] \notin Resting
      BY <1>1, <1>2, <2>3, <2>5, <3>1 DEF FileSays, BufSays, Resting, Records
    <3> QED BY <1>1, <1>2, <2>3, <3>2, TurnKeeps
  <2> QED BY <1>4, <2>4, <2>5 DEF Write
<1> QED BY <1>3, <1>4

\* An ADD ends with the sandbox running or failed.
LEMMA ActivateInTurn ==
  ASSUME CallsInv, NEW sb \in Sandbox, Activate(sb) \/ ActivateFails(sb), ~disturbed'
  PROVE  InTurn'
<1>1. /\ InTurn /\ FileSays(sb) /\ TypeOK
      /\ \A t \in Sandbox \ {sb} : pc'[t] \in Resting
  BY GoesOnAlone DEF CallStep, CallsInv, InTurn
<1>2. /\ addr' = addr /\ file' = file /\ pc[sb] = "activate"
      /\ pc'[sb] \in {"running", "failed"}
  BY <1>1 DEF Activate, ActivateFails, TypeOK
<1>3. Distinct' /\ file' # Torn /\ Records(Read, Nil)'
  BY <1>1, <1>2 DEF InTurn, Distinct, Records, Read, FileSays
<1>4. FileSays(sb)' /\ BufSays(sb)'
  BY <1>2 DEF FileSays, BufSays
<1> QED BY <1>1, <1>3, <1>4, TurnKeeps

\* sb is given up: what the file says without it, it says of all.
LEMMA GivenUp ==
  ASSUME TypeOK, NEW sb \in Sandbox, Records(Read, sb), file' = file,
         addr' = [addr EXCEPT ![sb] = Nil]
  PROVE  Records(Read, Nil)'
<1>1. Read' = Read
  BY DEF Read
<1>2. \A a \in Addr, t \in Sandbox : Read[a] = t <=> t # sb /\ addr[t] = a
  BY DEF Records
<1> QED BY <1>1, <1>2, SandboxAssumption, NilAssumption DEF Records, TypeOK

\* With the network namespace the address of sb goes out of use.
LEMMA DeleteNetNSInTurn ==
  ASSUME CallsInv, NEW sb \in Sandbox, DeleteNetNS(sb), ~disturbed'
  PROVE  InTurn'
<1>1. /\ InTurn /\ FileSays(sb) /\ TypeOK
      /\ \A t \in Sandbox \ {sb} : pc'[t] \in Resting
  BY GoesOnAlone DEF CallStep, CallsInv, InTurn
<1>2. /\ addr' = [addr EXCEPT ![sb] = Nil] /\ file' = file /\ pc'[sb] = "gone"
      /\ Records(Read, sb)
  BY <1>1 DEF DeleteNetNS, TypeOK, FileSays
<1>3. Distinct'
  BY <1>1, <1>2 DEF InTurn, Distinct, TypeOK
<1>4. Records(Read, Nil)'
  BY <1>1, <1>2, GivenUp
<1>5. FileSays(sb)' /\ BufSays(sb)' /\ file' # Torn
  BY <1>1, <1>2 DEF FileSays, BufSays, InTurn
<1> QED BY <1>1, <1>3, <1>4, <1>5, TurnKeeps

\* A call that is killed before it has emptied the file leaves the file as it
\* was, and the address it was about to write down unused.
LEMMA KilledInTurn ==
  ASSUME CallsInv, NEW sb \in Sandbox, Killed(sb), ~disturbed'
  PROVE  InTurn'
<1>1. /\ InTurn /\ FileSays(sb) /\ TypeOK
      /\ \A t \in Sandbox \ {sb} : pc'[t] \in Resting
  BY GoesOnAlone DEF CallsInv, InTurn
<1>2. pc[sb] \notin {"add-write", "del-write", "del-netns"}
  BY DEF Killed
<1>3. pc[sb] \in {"add-create", "activate", "del-create"}
  BY <1>1, <1>2 DEF Killed, TypeOK
<1>4. file' = file /\ Read' = Read /\ pc'[sb] = "failed" /\ file' # Torn
  BY <1>1 DEF Killed, TypeOK, Read, InTurn
<1>5. FileSays(sb)' /\ BufSays(sb)'
  BY <1>4 DEF FileSays, BufSays
<1>6. CASE pc[sb] = "add-create"
  <2>1. addr' = [addr EXCEPT ![sb] = Nil] /\ Records(Read, sb)
    BY <1>1, <1>6 DEF Killed, FileSays
  <2>2. Distinct'
    BY <1>1, <2>1 DEF InTurn, Distinct, TypeOK
  <2>3. Records(Read, Nil)'
    BY <1>1, <1>4, <2>1, GivenUp
  <2> QED BY <1>1, <1>4, <1>5, <2>2, <2>3, TurnKeeps
<1>7. CASE pc[sb] \in {"activate", "del-create"}
  <2>1. addr' = addr /\ Records(Read, Nil)
    BY <1>1, <1>7 DEF Killed, FileSays
  <2>2. Distinct' /\ Records(Read, Nil)'
    BY <1>1, <1>4, <2>1 DEF InTurn, Distinct, Records
  <2> QED BY <1>1, <1>4, <1>5, <2>2, TurnKeeps
<1> QED BY <1>3, <1>6, <1>7

\* Every step keeps the invariant, as none ends a disturbance.
LEMMA CallsStep == CallsInv /\ [Next]_ipamVars => CallsInv'
<1> SUFFICES ASSUME CallsInv, [Next]_ipamVars PROVE CallsInv'
  OBVIOUS
<1>1. TypeOK'
  BY TypeStep DEF CallsInv
<1>2. CASE UNCHANGED ipamVars
  BY <1>1, <1>2 DEF ipamVars, CallsInv, InTurn, Alone, Distinct, Overlaps, Records, Read, FileSays, BufSays
<1>3. ASSUME NEW sb \in Sandbox, Kubelet(sb) \/ CallStep(sb) \/ Killed(sb)
      PROVE  CallsInv'
  <2>1. \A t \in Sandbox : pc'[t] = "new" => addr'[t] = Nil
    BY <1>3, NewHasNone
  <2>2. ~disturbed' => InTurn'
    BY <1>3, AllocateInTurn, AllocateNothingInTurn, DeallocateInTurn, DeallocateNoVpcInTurn,
       WriteInTurn, ActivateInTurn, DeleteNetNSInTurn, KilledInTurn DEF Kubelet, CallStep
  <2> QED BY <1>1, <2>1, <2>2 DEF CallsInv
<1> QED BY <1>2, <1>3 DEF Next

-----------------------------------------------------------------------------
(* The theorems.                                                           *)

\* Whatever calls do to the file, every address given out is one of the pod
\* CIDR and neither the network's nor the gateway's: the walk of Allocate
\* (inc, ipnet.Contains) never leaves the CIDR, for any mask of whole digits.
THEOREM AddressesInCidr == Spec => []TypeOK
<1> QED BY TypeInit, TypeStep, PTL DEF Spec

\* Unless something has disturbed the calls, no two sandboxes use one address
\* at the same time (ipam.Allocate).
THEOREM AddressesDistinct == Spec => []NoDuplicateAddress
<1>1. CallsInv => NoDuplicateAddress
  BY DEF CallsInv, InTurn, Distinct, NoDuplicateAddress
<1> QED BY <1>1, CallsInit, CallsStep, PTL DEF Spec

\* Between two calls, unless something has disturbed them, the file says
\* exactly which sandbox has which address (ipam.Allocate, ipam.Deallocate,
\* WriteToFile and DeleteNetNS).
THEOREM FileExactBetweenCalls == Spec => []FileExact
<1>1. CallsInv => FileExact
  BY SandboxAssumption DEF CallsInv, InTurn, Records, FileExact
<1> QED BY <1>1, CallsInit, CallsStep, PTL DEF Spec

\* No call is refused an address while one is free: the walk of Allocate meets
\* every address of the pod CIDR but the first two.
THEOREM RefusedOnlyWhenFull == Spec => NoneOnlyWhenFull
<1> DEFINE Refused ==
      \A sb \in Sandbox :
        pc[sb] = "new" /\ pc'[sb] = "failed" /\ kills' = kills => \A a \in Addr : Read[a] # Nil
<1>1. TypeOK /\ [Next]_ipamVars => [Refused]_ipamVars
  <2> SUFFICES ASSUME TypeOK, Next, NEW sb \in Sandbox,
                      pc[sb] = "new", pc'[sb] = "failed", kills' = kills
               PROVE  \A a \in Addr : Read[a] # Nil
    OBVIOUS
  <2>1. PICK u \in Sandbox : Kubelet(u) \/ CallStep(u) \/ Killed(u)
    BY DEF Next
  <2>2. kills' # kills + 1
    BY DEF TypeOK
  <2>3. ~Killed(u) /\ ~AllocatePanics(u)
    BY <2>2 DEF Killed, AllocatePanics
  <2>4. u = sb
    BY <2>1 DEF Kubelet, Allocate, AllocateNone, AllocatePanics, Deallocate, DeallocateNoVpc,
         CallStep, Create, Write, Activate, ActivateFails, DeleteNetNS, Killed, TypeOK
  <2>5. AllocateNone(sb)
    BY <2>1, <2>3, <2>4 DEF Kubelet, Allocate, Deallocate, DeallocateNoVpc,
         CallStep, Create, Write, Activate, ActivateFails, DeleteNetNS, TypeOK
  <2>6. Free(Read) = {}
    BY <2>5 DEF AllocateNone
  <2> QED BY <2>6, NoneFree
<1> QED BY <1>1, TypeInit, TypeStep, PTL DEF Spec, NoneOnlyWhenFull

\* However calls of the plugin overlap, are killed, tear the file and write old
\* contents over new ones (ipam.Allocate, ipam.Deallocate and WriteToFile), the
\* file never names a sandbox at an address other than the one it was given.
THEOREM FileNamesOwners == Spec => []NamesItsOwn
<1>1. HonestInv => NamesItsOwn
  BY DEF HonestInv, Honest, NamesItsOwn
<1> QED BY <1>1, InitHonest, StepHonest, PTL DEF Spec

-----------------------------------------------------------------------------
(* Calls with the mount of the network namespace.                          *)

\* A step of a call with its mount is a step of Ipam, or one that is init's.
LEMMA CniStepIs == [CniNext]_cniVars => [Next]_ipamVars
BY DEF CniNext, cniVars, Next, InitDies, AddBegins, RunsOn, ActivateInterface, NetNSDeleted,
   DelBegins, CallKilled, Kubelet, CallStep

\* The calls of the plugin, from the mount of the network namespace on (DoInit,
\* DoCmdAdd, DoCmdDel), implement the address management of Ipam: what its
\* theorems say of the file and the addresses holds of them.
THEOREM CniImplementsIpam == CniSpec => Spec
<1>1. CniInit => Init
  BY DEF CniInit
<1> QED BY <1>1, CniStepIs, PTL DEF CniSpec, Spec

\* The file of a sandbox changes as its actions say.
LEMMA NsFileChanges ==
  ASSUME NsFileTypeOK, CniNext
  PROVE  /\ NsFileTypeOK'
         /\ \/ nsFile' = nsFile
            \/ \E sb \in Sandbox : nsFile' = [nsFile EXCEPT ![sb] = "none"] /\ pc' = [pc EXCEPT ![sb] = "gone"]
            \/ \E sb \in Elsewhere, f \in {"empty", "bound"} :
                 nsFile[sb] = "none" /\ nsFile' = [nsFile EXCEPT ![sb] = f]
BY DEF NsFileTypeOK, CniNext, InitDies, AddBegins, RunsOn, ActivateInterface, NetNSDeleted,
   DelBegins, CallKilled, MountNetNSIfNeeded, BindMount, Exists, FileBecomes, DeleteNetNS

\* A sandbox comes to run in ActivateInterface only, with its namespace mounted.
LEMMA ComesToRun ==
  ASSUME TypeOK, CniNext, NEW sb \in Elsewhere, pc'[sb] = "running", pc[sb] # "running"
  PROVE  nsFile[sb] = "bound" /\ nsFile' = nsFile
<1>1. sb \in Sandbox
  BY ElsewhereAssumption
<1>2. PICK u \in Sandbox :
        InitDies(u) \/ AddBegins(u) \/ RunsOn(u) \/ DelBegins(u) \/ CallKilled(u)
  BY DEF CniNext
<1>3. ActivateInterface(u) /\ Activate(u)
  BY <1>1, <1>2 DEF TypeOK, ipamVars, InitDies, AddBegins, RunsOn, ActivateInterface, NetNSDeleted,
     DelBegins, CallKilled, Allocate, AllocateNone, AllocatePanics, Create, Write, Activate,
     ActivateFails, DeleteNetNS, Deallocate, DeallocateNoVpc, Killed
<1>4. u = sb
  BY <1>1, <1>3 DEF Activate, TypeOK
<1> QED BY <1>3, <1>4 DEF ActivateInterface, Activate, ActivateFails

\* A sandbox whose ADD succeeded has its namespace mounted, although nothing
\* looks at the error of the mount (MountNetNSIfNeeded, ActivateInterface).
THEOREM RunningSandboxesConnected == CniSpec => []Connected
<1> DEFINE ConnectedInv == TypeOK /\ NsFileTypeOK /\ Connected
<1>1. CniInit => ConnectedInv
  BY TypeInit, ElsewhereAssumption DEF CniInit, Init, NsFileTypeOK, Connected
<1>2. ConnectedInv /\ [CniNext]_cniVars => ConnectedInv'
  <2>1. ASSUME ConnectedInv, CniNext PROVE ConnectedInv'
    <3>1. TypeOK'
      BY <2>1, CniStepIs, TypeStep
    <3>2. NsFileTypeOK'
      BY <2>1, NsFileChanges
    <3>3. ASSUME NEW sb \in Elsewhere, pc'[sb] = "running" PROVE nsFile'[sb] = "bound"
      <4>1. CASE pc[sb] # "running"
        BY <2>1, <3>3, <4>1, ComesToRun
      <4>2. CASE pc[sb] = "running"
        <5>1. nsFile[sb] = "bound"
          BY <2>1, <4>2 DEF Connected
        <5>2. ASSUME NEW u \in Sandbox, nsFile' = [nsFile EXCEPT ![u] = "none"],
                     pc' = [pc EXCEPT ![u] = "gone"]
              PROVE  u # sb
          BY <2>1, <3>3, <5>2, ElsewhereAssumption DEF TypeOK
        <5> QED BY <2>1, <5>1, <5>2, NsFileChanges DEF NsFileTypeOK
      <4> QED BY <4>1, <4>2
    <3> QED BY <3>1, <3>2, <3>3 DEF Connected
  <2>2. ConnectedInv /\ UNCHANGED cniVars => ConnectedInv'
    BY DEF cniVars, ipamVars, TypeOK, NsFileTypeOK, Connected, Overlaps, Resting
  <2> QED BY <2>1, <2>2
<1>3. ConnectedInv => Connected
  OBVIOUS
<1> QED BY <1>1, <1>2, <1>3, PTL DEF CniSpec
==============================================================================
