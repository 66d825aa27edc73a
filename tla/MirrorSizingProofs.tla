------------------------- MODULE MirrorSizingProofs -------------------------
(***************************************************************************)
(* What holds of the volumes Routing computes, and of those of a copied     *)
(* position, for every policy, every volume and every number of reduces.    *)
(***************************************************************************)
EXTENDS MirrorSizing, TLAPS

-----------------------------------------------------------------------------
(* Arithmetic of the rounding.                                              *)

LEMMA ProductPositive ==
    ASSUME NEW a \in Nat \ {0}, NEW b \in Nat \ {0}
    PROVE  a * b \in Nat \ {0}
BY SMT

LEMMA ProductNat ==
    ASSUME NEW a \in Nat, NEW b \in Nat
    PROVE  a * b \in Nat
BY SMT

LEMMA Division ==
    ASSUME NEW a \in Nat, NEW d \in Nat \ {0}
    PROVE  /\ a \div d \in Nat
           /\ d * (a \div d) <= a
           /\ a < d * (a \div d) + d
<1>1. a \div d \in Int /\ a % d \in 0..(d - 1)
  BY SMT
<1>2. a = d * (a \div d) + (a % d)
  BY SMT
<1>3. a \div d >= 0
  BY SMT
<1>4. QED
  BY <1>1, <1>2, <1>3, SMT

(* The quotient of the rounding: q steps, where q is the number of whole    *)
(* steps in n / d + step / 2.                                               *)
LEMMA Quotient ==
    ASSUME NEW n \in Nat, NEW s \in Nat \ {0}, NEW q, q = (2 * n + s) \div (2 * s)
    PROVE  /\ q \in Nat
           /\ 2 * s * q <= 2 * n + s
           /\ 2 * n < 2 * s * q + s
<1>1. 2 * s \in Nat \ {0} /\ 2 * n + s \in Nat
  BY SMT
<1>2. /\ q \in Nat
      /\ (2 * s) * q <= 2 * n + s
      /\ 2 * n + s < (2 * s) * q + 2 * s
  BY <1>1, Division
<1>3. QED
  BY <1>2, SMT

(* normalize_step returns the multiple of the step nearest to the volume:   *)
(* it is off by half a step at most, a tie going up.                        *)
THEOREM RoundsToNearest ==
    ASSUME NEW n \in Int, NEW d \in Nat \ {0}, NEW step \in Nat \ {0}
    PROVE  /\ NormalizeStep(n, d, step) \in Nat
           /\ \E q \in Nat : NormalizeStep(n, d, step) = q * step
           /\ n > 0 => /\ 2 * (NormalizeStep(n, d, step) * d) <= 2 * n + d * step
                       /\ 2 * n < 2 * (NormalizeStep(n, d, step) * d) + d * step
<1>1. CASE n <= 0
  <2>1. NormalizeStep(n, d, step) = 0
    BY <1>1 DEF NormalizeStep
  <2>2. 0 = 0 * step
    BY SMT
  <2>3. QED
    BY <1>1, <2>1, <2>2, SMT
<1>2. CASE n > 0
  <2> DEFINE s == d * step
             q == (2 * n + s) \div (2 * s)
  <2>1. s \in Nat \ {0} /\ n \in Nat
    BY <1>2, ProductPositive, SMT
  <2>2. /\ q \in Nat
        /\ 2 * s * q <= 2 * n + s
        /\ 2 * n < 2 * s * q + s
    <3> HIDE DEF s
    <3> QED BY <2>1, Quotient
  <2>3. NormalizeStep(n, d, step) = q * step
    BY <1>2, SMT DEF NormalizeStep
  <2>4. q * step \in Nat /\ 2 * ((q * step) * d) = 2 * s * q
    <3> HIDE DEF q
    <3> QED BY <2>2, ProductNat, SMT
  <2>5. QED
    <3> HIDE DEF s, q
    <3>1. \E m \in Nat : NormalizeStep(n, d, step) = m * step
      BY <2>2, <2>3
    <3>2. 2 * (NormalizeStep(n, d, step) * d) = 2 * s * q
      BY <2>3, <2>4
    <3>3. NormalizeStep(n, d, step) \in Nat
      BY <2>3, <2>4
    <3>4. s = d * step
      BY DEF s
    <3>5. /\ 2 * (NormalizeStep(n, d, step) * d) <= 2 * n + d * step
          /\ 2 * n < 2 * (NormalizeStep(n, d, step) * d) + d * step
      BY <2>2, <3>2, <3>4
    <3>6. QED
      BY <3>1, <3>3, <3>5
<1>3. QED
  BY <1>1, <1>2, SMT

(* A volume that is at most some multiple of the step is not rounded beyond *)
(* it: rounding leaves an aligned limit intact.                             *)
THEOREM RoundingKeepsAlignedLimit ==
    ASSUME NEW n \in Int, NEW d \in Nat \ {0}, NEW step \in Nat \ {0},
           NEW m \in Nat, n <= (m * step) * d
    PROVE  NormalizeStep(n, d, step) <= m * step
<1>1. CASE n <= 0
  BY <1>1, ProductNat, SMT DEF NormalizeStep
<1>2. CASE n > 0
  <2>1. PICK q \in Nat : NormalizeStep(n, d, step) = q * step
    BY RoundsToNearest
  <2>2. 2 * ((q * step) * d) <= 2 * n + d * step
    BY <1>2, <2>1, RoundsToNearest
  <2>3. d * step \in Nat \ {0}
    BY ProductPositive
  <2>4. (q * step) * d = (d * step) * q /\ (m * step) * d = (d * step) * m
    BY SMT
  <2>5. 2 * ((d * step) * q) <= 2 * ((d * step) * m) + d * step
    <3>1. (d * step) * q \in Nat /\ (d * step) * m \in Nat
      BY <2>3, ProductNat
    <3>2. QED
      BY <2>2, <2>3, <2>4, <3>1, SMT
  <2>6. ASSUME q >= m + 1 PROVE FALSE
    <3> DEFINE s == d * step
    <3>1. PICK i \in Nat : q = m + 1 + i
      <4>1. q - (m + 1) \in Nat /\ q = m + 1 + (q - (m + 1))
        BY <2>6, SMT
      <4>2. QED
        BY <4>1
    <3>2. s * q = s * m + s + s * i /\ s * m \in Nat /\ s * i \in Nat
      <4> s \in Nat
        BY <2>3
      <4> HIDE DEF s
      <4> QED BY <3>1, ProductNat, SMT
    <3>3. s \in Nat \ {0} /\ 2 * (s * q) <= 2 * (s * m) + s
      BY <2>3, <2>5
    <3>4. QED
      <4> HIDE DEF s
      <4> QED BY <3>2, <3>3, SMT
  <2>7. q <= m
    BY <2>6, SMT
  <2>8. q * step <= m * step
    <3>1. PICK i \in Nat : m = q + i
      <4>1. m - q \in Nat /\ m = q + (m - q)
        BY <2>7, SMT
      <4>2. QED
        BY <4>1
    <3>2. m * step = q * step + i * step /\ i * step \in Nat /\ q * step \in Nat
      BY <3>1, ProductNat, SMT
    <3>3. QED
      BY <3>2, SMT
  <2>9. QED
    BY <2>1, <2>8
<1>3. QED
  BY <1>1, <1>2, SMT

-----------------------------------------------------------------------------
(* Volumes of commands.                                                     *)

LEMMA NormalizeOpenIsRounding ==
    ASSUME NEW r \in RuleType, NEW n \in Nat, NEW d \in Nat \ {0}
    PROVE  \E n1 \in Nat, d1 \in Nat \ {0} :
              /\ NormalizeOpen(r, n, d) = NormalizeStep(n1, d1, r.step)
              /\ ~ClampPanics(r) => n1 <= r.max * d1
<1>1. r.min \in Nat /\ r.max \in Nat /\ r.step \in Nat \ {0}
  BY SMT DEF RuleType
<1>2. r.min * 1 = r.min /\ r.max * 1 = r.max /\ 1 \in Nat \ {0}
  BY <1>1, SMT
<1>3. CASE n < r.min * d
  BY <1>1, <1>2, <1>3, SMT DEF NormalizeOpen, ClampPanics
<1>4. CASE ~(n < r.min * d) /\ n > r.max * d
  BY <1>1, <1>2, <1>4, SMT DEF NormalizeOpen
<1>5. CASE ~(n < r.min * d) /\ ~(n > r.max * d)
  <2>1. r.max * d \in Nat
    BY <1>1, ProductNat
  <2>2. n <= r.max * d
    BY <1>5, <2>1, SMT
  <2>3. QED
    BY <1>5, <2>2, SMT DEF NormalizeOpen
<1>6. QED
  BY <1>3, <1>4, <1>5

LEMMA OpenVolumeIsRounding ==
    ASSUME NEW r \in RuleType, NEW volume \in Nat
    PROVE  \E n \in Nat, d \in Nat \ {0} :
              /\ OpenVolume(r, volume) = NormalizeStep(n, d, r.step)
              /\ ~ClampPanics(r) => n <= r.max * d
<1>1. r.sizing \in Sizing /\ r.size[1] \in Nat /\ r.size[2] \in Nat \ {0}
  BY SMT DEF RuleType
<1>2. volume * r.size[1] \in Nat /\ 1 \in Nat \ {0}
  BY <1>1, ProductNat, SMT
<1>3. CASE r.sizing = "mirror"
  <2>1. OpenVolume(r, volume) = NormalizeOpen(r, volume, 1)
    BY <1>3 DEF OpenVolume
  <2>2. QED
    BY <1>2, <2>1, NormalizeOpenIsRounding
<1>4. CASE r.sizing = "fixed"
  <2>1. OpenVolume(r, volume) = NormalizeOpen(r, r.size[1], r.size[2])
    BY <1>4 DEF OpenVolume
  <2>2. QED
    BY <1>1, <2>1, NormalizeOpenIsRounding
<1>5. CASE r.sizing = "multiplier"
  <2>1. OpenVolume(r, volume) = NormalizeOpen(r, volume * r.size[1], r.size[2])
    BY <1>5 DEF OpenVolume
  <2>2. QED
    BY <1>1, <1>2, <2>1, NormalizeOpenIsRounding
<1>6. QED
  BY <1>1, <1>3, <1>4, <1>5 DEF Sizing

(* The volume of an open is a multiple of the route's step; when max_volume *)
(* is one too, it is never exceeded.  When it is not it can be, because     *)
(* rounding comes after the clamp: 9 clamped to 7 is 8 in steps of 2.       *)
THEOREM AlignedMaxIsRespected ==
    ASSUME NEW r \in RuleType, NEW volume \in Nat
    PROVE  /\ OpenVolume(r, volume) \in Nat
           /\ \E q \in Nat : OpenVolume(r, volume) = q * r.step
           /\ ~ClampPanics(r) /\ (\E m \in Nat : r.max = m * r.step)
                => OpenVolume(r, volume) <= r.max
<1>1. PICK n \in Nat, d \in Nat \ {0} :
        /\ OpenVolume(r, volume) = NormalizeStep(n, d, r.step)
        /\ ~ClampPanics(r) => n <= r.max * d
  BY OpenVolumeIsRounding
<1>2. r.step \in Nat \ {0} /\ n \in Int
  BY SMT DEF RuleType
<1>3. OpenVolume(r, volume) \in Nat /\ \E q \in Nat : OpenVolume(r, volume) = q * r.step
  BY <1>1, <1>2, RoundsToNearest
<1>4. ASSUME ~ClampPanics(r), NEW m \in Nat, r.max = m * r.step
      PROVE  OpenVolume(r, volume) <= r.max
  <2>1. n <= (m * r.step) * d
    BY <1>1, <1>4
  <2>2. NormalizeStep(n, d, r.step) <= m * r.step
    BY <1>2, <2>1, RoundingKeepsAlignedLimit
  <2>3. QED
    BY <1>1, <1>4, <2>2
<1>5. QED
  BY <1>3, <1>4

(* A reduce of a position whose remaining volume is a multiple of the step  *)
(* is one too, and never more than what remains.                            *)
THEOREM ReduceWithinRemaining ==
    ASSUME NEW r \in RuleType, NEW b, NEW volume \in Nat,
           b.sourceOpen \in Nat \ {0}, b.targetOpen \in Nat, b.targetRemaining \in Nat
    PROVE  /\ ReduceVolume(r, b, volume) \in Nat
           /\ \E q \in Nat : ReduceVolume(r, b, volume) = q * r.step
           /\ (\E m \in Nat : b.targetRemaining = m * r.step)
                => ReduceVolume(r, b, volume) <= b.targetRemaining
<1>1. r.step \in Nat \ {0} /\ 1 \in Nat \ {0}
  BY SMT DEF RuleType
<1>2. PICK n \in Nat, d \in Nat \ {0} :
        /\ ReduceVolume(r, b, volume) = NormalizeStep(n, d, r.step)
        /\ n <= b.targetRemaining * d
  <2>1. b.targetOpen * volume \in Nat /\ b.targetRemaining * 1 = b.targetRemaining
    BY ProductNat, SMT
  <2>2. CASE b.targetOpen * volume <= b.targetRemaining * b.sourceOpen
    BY <2>1, <2>2 DEF ReduceVolume
  <2>3. CASE ~(b.targetOpen * volume <= b.targetRemaining * b.sourceOpen)
    <3>1. ReduceVolume(r, b, volume) = NormalizeStep(b.targetRemaining, 1, r.step)
      BY <2>3 DEF ReduceVolume
    <3>2. b.targetRemaining <= b.targetRemaining * 1
      BY <2>1, SMT
    <3>3. QED
      BY <1>1, <3>1, <3>2
  <2>4. QED
    BY <2>2, <2>3
<1>3. n \in Int
  BY SMT
<1>4. ReduceVolume(r, b, volume) \in Nat
      /\ \E q \in Nat : ReduceVolume(r, b, volume) = q * r.step
  <2>1. /\ NormalizeStep(n, d, r.step) \in Nat
        /\ \E q \in Nat : NormalizeStep(n, d, r.step) = q * r.step
    BY <1>1, <1>3, RoundsToNearest
  <2>2. QED
    BY <1>2, <2>1, Zenon
<1>5. ASSUME NEW m \in Nat, b.targetRemaining = m * r.step
      PROVE  ReduceVolume(r, b, volume) <= b.targetRemaining
  <2>1. n <= (m * r.step) * d
    BY <1>2, <1>5
  <2>2. NormalizeStep(n, d, r.step) <= m * r.step
    BY <1>1, <1>3, <2>1, RoundingKeepsAlignedLimit
  <2>3. QED
    BY <1>2, <1>5, <2>2
<1>6. QED
  BY <1>4, <1>5

-----------------------------------------------------------------------------
(* Multiples of the step.                                                   *)

LEMMA Distributes ==
    ASSUME NEW a \in Int, NEW b \in Int, NEW c \in Int
    PROVE  /\ (a - b) * c = a * c - b * c
           /\ c * (a - b) = c * a - c * b
           /\ (a + b) * c = a * c + b * c
           /\ a * c \in Int /\ b * c \in Int /\ c * a \in Int /\ c * b \in Int
  BY SMT

(* Multiples of a step that are less than a step apart are equal.           *)
LEMMA MultiplesApart ==
    ASSUME NEW s \in Nat \ {0}, NEW p \in Int, NEW q \in Int, p * s < q * s + s
    PROVE  p <= q
<1>1. (p - q) * s = p * s - q * s
  BY Distributes
<1>2. (p - q) * s < s
  BY <1>1, Distributes, SMT
<1>3. ASSUME p > q PROVE FALSE
  <2>1. p - q - 1 \in Nat
    BY <1>3, SMT
  <2>2. (p - q - 1) * s \in Nat
    BY <2>1, ProductNat
  <2>3. ((p - q) - 1) * s = (p - q) * s - 1 * s
    BY Distributes, SMT
  <2>4. QED
    BY <1>1, <1>2, <2>2, <2>3, Distributes, SMT
<1>4. QED
  BY <1>3, SMT

LEMMA MultipleLeavesNothing ==
    ASSUME NEW s \in Nat \ {0}, NEW q \in Nat
    PROVE  (q * s) % s = 0
<1> DEFINE a == q * s
<1>1. a \in Nat
  BY ProductNat
<1> HIDE DEF a
<1>2. a \div s \in Int /\ a % s \in 0..(s - 1) /\ a = s * (a \div s) + (a % s)
  <2>1. a \div s \in Int /\ a % s \in 0..(s - 1)
    BY <1>1, SMT
  <2>2. a = s * (a \div s) + (a % s)
    BY <1>1, SMT
  <2>3. QED
    BY <2>1, <2>2
<1> DEFINE d == a \div s
           r == a % s
<1>3. d \in Int /\ r \in Int /\ 0 <= r /\ r < s /\ a = s * d + r
  BY <1>2, SMT
<1> HIDE DEF d, r
<1>4. a = q * s /\ s * d = d * s /\ d * s \in Int /\ q * s \in Int
  BY <1>3, SMT DEF a
<1>5. q <= d
  BY <1>3, <1>4, MultiplesApart
<1>6. d * s < q * s + s
  BY <1>3, <1>4, SMT
<1>7. d <= q
  BY <1>3, <1>6, MultiplesApart
<1>8. r = 0
  BY <1>3, <1>4, <1>5, <1>7, SMT
<1>9. QED
  BY <1>8 DEF r, a

(* A volume that is a multiple of the step is rounded to itself.            *)
LEMMA AlignedIsKept ==
    ASSUME NEW s \in Nat \ {0}, NEW m \in Nat
    PROVE  NormalizeStep(m * s, 1, s) = m * s
<1> DEFINE n == m * s
           x == NormalizeStep(n, 1, s)
<1>1. n \in Int /\ n \in Nat /\ n * 1 = n /\ 1 \in Nat \ {0}
  BY ProductNat, SMT
<1>2. n <= (m * s) * 1
  BY <1>1
<1>3. x <= m * s
  BY <1>1, <1>2, RoundingKeepsAlignedLimit
<1> HIDE DEF n
<1>4. x \in Nat /\ (\E q \in Nat : x = q * s) /\ (n > 0 => 2 * n < 2 * (x * 1) + 1 * s)
  BY <1>1, RoundsToNearest
<1>5. PICK q \in Nat : x = q * s
  BY <1>4
<1>6. x * 1 = x /\ 1 * s = s
  BY <1>4, SMT
<1>7. CASE n = 0
  BY <1>3, <1>4, <1>7, SMT DEF n
<1>8. CASE n > 0
  <2> HIDE DEF x
  <2>1. m * s < q * s + s
    BY <1>1, <1>4, <1>5, <1>6, <1>8, SMT DEF n
  <2>2. m <= q
    BY <2>1, MultiplesApart
  <2>3. q * s >= m * s
    <3>1. q - m \in Nat
      BY <2>2, SMT
    <3>2. (q - m) * s \in Nat
      BY <3>1, ProductNat
    <3>3. (q - m) * s = q * s - m * s
      BY Distributes
    <3>4. QED
      BY <3>2, <3>3, Distributes, SMT
  <2>4. QED
    BY <1>1, <1>3, <1>5, <2>3, SMT DEF n, x
<1>9. QED
  BY <1>1, <1>7, <1>8, SMT
-----------------------------------------------------------------------------
(* The position.                                                            *)

BoundType ==
    [route : RuleId, source : Account, order : {"o"}, target : Account,
     position : {<<"p">>}, sourceOpen : Nat, sourceRemaining : Nat,
     targetOpen : Nat, targetRemaining : Nat]

(* How far the follower is from its share, in units that need no fraction.  *)
Off(f, m, b) == f * b.sourceOpen - b.targetOpen * m

WithinDrift(f, m, b, k) ==
    LET room == (k * route.step) * b.sourceOpen
    IN  2 * Off(f, m, b) <= room /\ -room <= 2 * Off(f, m, b)

(* The inductive invariant.  That the follower holds a multiple of the step *)
(* is what makes a rounded reduce stay within what is left; that the binding*)
(* agrees with the follower is what makes a close take all of it.           *)
SizingInv ==
    /\ route \in Policies
    /\ master \in Nat /\ reduces \in Nat /\ reduces + master <= MaxVolume
    /\ follower \in Nat
    /\ \E q \in Nat : follower = q * route.step
    /\ \/ mirror = NoBinding /\ follower = 0
       \/ /\ mirror \in BoundType
          /\ mirror.sourceOpen # 0
          /\ follower = mirror.targetRemaining
          /\ master > 0
          /\ WithinDrift(follower, master, mirror, reduces)

LEMMA PolicyTyped ==
    ASSUME NEW r \in Policies
    PROVE  /\ r \in RuleType
           /\ r.id \in RuleId /\ r.source \in Account /\ r.target \in Account
           /\ r.step \in Nat \ {0}
<1>1. r \in RuleType
  BY SizingAssumption
<1>2. QED
  BY <1>1 DEF RuleType

LEMMA BoundIsNoBinding == ASSUME NEW b \in BoundType PROVE b # NoBinding
  BY DEF BoundType, NoBinding, NoPosition

LEMMA OpenKeeps ==
    ASSUME SizingInv, NEW v \in 1..MaxVolume, Open(v) PROVE SizingInv'
<1> DEFINE volume == OpenVolume(route, v)
<1>1. route \in Policies /\ route' = route /\ v \in Nat /\ v > 0 /\ v <= MaxVolume
  BY SizingAssumption DEF SizingInv, Open, SizingAssumption
<1>2. route \in RuleType /\ route.step \in Nat \ {0}
      /\ route.id \in RuleId /\ route.source \in Account /\ route.target \in Account
  BY <1>1, PolicyTyped
<1>3. volume \in Nat /\ \E q \in Nat : volume = q * route.step
  BY <1>1, <1>2, AlignedMaxIsRespected
<1>4. master' = v /\ reduces' = 0 /\ mirror = NoBinding /\ master = 0
  BY DEF Open
<1>5. follower = 0
  BY <1>4, BoundIsNoBinding DEF SizingInv
<1> HIDE DEF volume
<1>6. CASE volume > 0
  <2> DEFINE b == NewBinding(Executed(volume, v, v), <<"p">>)
  <2>1. mirror' = b /\ follower' = volume
    BY <1>6 DEF Open, volume
  <2>2. /\ b \in BoundType
        /\ b.sourceOpen = v /\ b.targetOpen = volume /\ b.targetRemaining = volume
    BY <1>1, <1>2, <1>3 DEF NewBinding, Executed, BoundType, NoVolume
  <2> HIDE DEF b
  <2>3. WithinDrift(volume, v, b, 0)
    <3>1. volume * v \in Nat /\ 0 * route.step = 0 /\ 0 * v = 0
      BY <1>1, <1>2, <1>3, ProductNat, SMT
    <3>2. Off(volume, v, b) = 0
      BY <2>2, <3>1, SMT DEF Off
    <3>3. QED
      BY <2>2, <3>1, <3>2, SMT DEF WithinDrift
  <2>4. WithinDrift(follower, master, mirror, reduces)'
    BY <1>1, <1>4, <2>1, <2>3 DEF WithinDrift, Off
  <2>5. QED
    BY <1>1, <1>3, <1>4, <2>1, <2>2, <2>4 DEF SizingInv
<1>7. CASE ~(volume > 0)
  <2>1. mirror' = mirror /\ follower' = follower
    BY <1>7 DEF Open, volume
  <2>2. QED
    BY <1>1, <1>4, <1>5, <2>1 DEF SizingInv
<1>8. QED
  BY <1>6, <1>7

(* One reduce: the follower's new distance is the old one plus the error of *)
(* one rounding, or smaller when all that is left is taken.                 *)
LEMMA ReduceDrifts ==
    ASSUME NEW r \in RuleType, NEW b \in BoundType, b.sourceOpen # 0,
           NEW m \in Nat, NEW v \in Nat, 0 < v, v < m, NEW k \in Nat,
           \E q \in Nat : b.targetRemaining = q * r.step,
           NEW x, x = ReduceVolume(r, b, v),
           2 * Off(b.targetRemaining, m, b) <= (k * r.step) * b.sourceOpen,
           -((k * r.step) * b.sourceOpen) <= 2 * Off(b.targetRemaining, m, b)
    PROVE  /\ x \in Nat /\ x <= b.targetRemaining
           /\ \E q \in Nat : x = q * r.step
           /\ 2 * Off(b.targetRemaining - x, m - v, b) <= ((k + 1) * r.step) * b.sourceOpen
           /\ -(((k + 1) * r.step) * b.sourceOpen) <= 2 * Off(b.targetRemaining - x, m - v, b)
<1> DEFINE F == b.targetRemaining
           S == b.sourceOpen
           T == b.targetOpen
           s == r.step
<1>1. F \in Nat /\ S \in Nat \ {0} /\ T \in Nat
  BY DEF BoundType
<1>2. s \in Nat \ {0}
  BY DEF RuleType
<1>3. x \in Nat /\ x <= F /\ \E q \in Nat : x = q * s
  BY <1>1, ReduceWithinRemaining
<1>4. PICK q \in Nat : F = q * s
  OBVIOUS
<1>5. /\ 2 * (F * S - T * m) <= (k * s) * S
      /\ -((k * s) * S) <= 2 * (F * S - T * m)
  BY DEF Off
<1>6. x = IF T * v <= F * S THEN NormalizeStep(T * v, S, s) ELSE NormalizeStep(F, 1, s)
  BY DEF ReduceVolume
<1> HIDE DEF F, S, T, s
<1>7. /\ F * S \in Nat /\ T * m \in Nat /\ T * v \in Nat /\ x * S \in Nat
      /\ k * s \in Nat /\ (k * s) * S \in Nat /\ s * S \in Nat
  BY <1>1, <1>2, <1>3, ProductNat
<1>8. /\ (F - x) * S = F * S - x * S
      /\ T * (m - v) = T * m - T * v
  BY <1>1, <1>3, Distributes
<1>9. ((k + 1) * s) * S = (k * s) * S + s * S
  <2>1. (k + 1) * s = k * s + s
    BY <1>2, Distributes, SMT
  <2>2. (k * s + s) * S = (k * s) * S + s * S
    BY <1>1, <1>2, <1>7, Distributes
  <2>3. QED
    BY <2>1, <2>2
<1>10. T * (m - v) \in Nat
  BY <1>1, ProductNat, SMT
<1>11. /\ 2 * ((F - x) * S - T * (m - v)) <= ((k + 1) * s) * S
       /\ -(((k + 1) * s) * S) <= 2 * ((F - x) * S - T * (m - v))
  <2>1. CASE T * v <= F * S
    <3>1. x = NormalizeStep(T * v, S, s)
      BY <1>6, <2>1
    <3>2. CASE T * v = 0
      <4>1. x = 0 /\ x * S = 0
        BY <1>1, <3>1, <3>2, SMT DEF NormalizeStep
      <4>2. QED
        BY <1>5, <1>7, <1>8, <1>9, <3>2, <4>1, SMT
    <3>3. CASE T * v > 0
      <4>1. /\ 2 * (x * S) <= 2 * (T * v) + S * s
            /\ 2 * (T * v) < 2 * (x * S) + S * s
        BY <1>1, <1>2, <1>7, <3>1, <3>3, RoundsToNearest
      <4>2. S * s = s * S
        BY <1>1, <1>2, SMT
      <4>3. QED
        BY <1>5, <1>7, <1>8, <1>9, <4>1, <4>2, SMT
    <3>4. QED
      BY <1>7, <3>2, <3>3, SMT
  <2>2. CASE ~(T * v <= F * S)
    <3>1. x = F
      BY <1>2, <1>4, <1>6, <2>2, AlignedIsKept
    <3>2. x * S = F * S
      BY <3>1
    <3>3. QED
      BY <1>5, <1>7, <1>8, <1>9, <1>10, <2>2, <3>2, SMT
  <2>3. QED
    BY <2>1, <2>2
<1>12. QED
  BY <1>3, <1>11 DEF Off, F, S, T, s
LEMMA Difference ==
    ASSUME NEW s \in Nat, NEW p \in Nat, NEW q \in Nat, q * s <= p * s
    PROVE  \E d \in Nat : p * s - q * s = d * s
<1>1. CASE q <= p
  <2>1. p - q \in Nat
    BY <1>1, SMT
  <2>2. (p - q) * s = p * s - q * s
    BY Distributes
  <2>3. QED
    BY <2>1, <2>2
<1>2. CASE q > p
  <2>1. q - p \in Nat
    BY <1>2, SMT
  <2>2. (q - p) * s = q * s - p * s /\ (q - p) * s \in Nat
    BY <2>1, Distributes, ProductNat
  <2>3. p * s - q * s = 0 * s /\ 0 \in Nat
    BY <2>2, Distributes, SMT
  <2>4. QED
    BY <2>3
<1>3. QED
  BY <1>1, <1>2, SMT

LEMMA ReduceKeeps ==
    ASSUME SizingInv, NEW v \in 1..MaxVolume, Reduce(v) PROVE SizingInv'
<1> DEFINE x == ReduceVolume(route, mirror, v)
<1>1. /\ route \in Policies /\ route' = route
      /\ v \in Nat /\ v > 0 /\ v < master /\ master \in Nat
      /\ master' = master - v /\ reduces' = reduces + 1 /\ reduces \in Nat
      /\ reduces + master <= MaxVolume /\ MaxVolume \in Nat
      /\ follower \in Nat
  BY SizingAssumption DEF SizingInv, Reduce, SizingAssumption
<1>2. route \in RuleType /\ route.step \in Nat \ {0}
      /\ route.id \in RuleId /\ route.source \in Account /\ route.target \in Account
  BY <1>1, PolicyTyped
<1>3. /\ master' \in Nat /\ master' > 0 /\ reduces' \in Nat
      /\ reduces' + master' <= MaxVolume
  BY <1>1, SMT
<1>4. CASE mirror = NoBinding
  <2>1. mirror' = mirror /\ follower' = follower /\ follower = 0
    BY <1>4, BoundIsNoBinding DEF Reduce, SizingInv
  <2>2. \E q \in Nat : follower = q * route.step
    BY DEF SizingInv
  <2>3. QED
    BY <1>1, <1>3, <1>4, <2>1, <2>2 DEF SizingInv
<1>5. CASE mirror # NoBinding
  <2>1. /\ mirror \in BoundType /\ mirror.sourceOpen # 0
        /\ follower = mirror.targetRemaining
        /\ WithinDrift(follower, master, mirror, reduces)
        /\ \E q \in Nat : mirror.targetRemaining = q * route.step
    BY <1>5 DEF SizingInv
  <2> HIDE DEF x
  <2>2. /\ x \in Nat /\ x <= follower
        /\ \E q \in Nat : x = q * route.step
        /\ 2 * Off(follower - x, master - v, mirror)
                <= ((reduces + 1) * route.step) * mirror.sourceOpen
        /\ -(((reduces + 1) * route.step) * mirror.sourceOpen)
                <= 2 * Off(follower - x, master - v, mirror)
    <3>1. /\ 2 * Off(mirror.targetRemaining, master, mirror)
                <= (reduces * route.step) * mirror.sourceOpen
          /\ -((reduces * route.step) * mirror.sourceOpen)
                <= 2 * Off(mirror.targetRemaining, master, mirror)
      BY <2>1 DEF WithinDrift
    <3>2. x = ReduceVolume(route, mirror, v)
      BY DEF x
    <3>3. QED
      BY <1>1, <1>2, <2>1, <3>1, <3>2, ReduceDrifts
  <2>3. /\ follower' = follower - x
        /\ mirror' \in BoundType
        /\ mirror'.sourceOpen = mirror.sourceOpen /\ mirror'.targetOpen = mirror.targetOpen
        /\ mirror'.targetRemaining = mirror.targetRemaining - x
    <3>1. CASE x > 0
      <4>1. /\ mirror' = Reduced(mirror, Executed(x, v, master - v))
            /\ follower' = NotNegative(follower - x)
        BY <1>5, <3>1 DEF Reduce, x
      <4>2. master - v \in Nat /\ mirror.targetRemaining - x \in Nat
        BY <1>1, <2>1, <2>2, SMT
      <4> DEFINE c == Executed(x, v, master - v)
      <4>3. c.volume = x /\ c.sourceRemaining = master - v /\ master - v # NoVolume
        BY <4>2, SMT DEF Executed, NoVolume
      <4>4. NotNegative(mirror.targetRemaining - x) = mirror.targetRemaining - x
        BY <4>2, SMT DEF NotNegative
      <4> HIDE DEF c
      <4>5. Reduced(mirror, c)
              = [mirror EXCEPT !.sourceRemaining = master - v,
                               !.targetRemaining = mirror.targetRemaining - x]
        BY <4>3, <4>4 DEF Reduced
      <4>6. /\ Reduced(mirror, c) \in BoundType
            /\ Reduced(mirror, c).sourceOpen = mirror.sourceOpen
            /\ Reduced(mirror, c).targetOpen = mirror.targetOpen
            /\ Reduced(mirror, c).targetRemaining = mirror.targetRemaining - x
        BY <2>1, <4>2, <4>5 DEF BoundType
      <4>7. mirror' = Reduced(mirror, c) /\ follower' = follower - x
        BY <2>1, <4>1, <4>4 DEF c
      <4>8. QED
        BY <4>6, <4>7
    <3>2. CASE x = 0
      <4>1. mirror' = mirror /\ follower' = follower
        BY <1>5, <3>2 DEF Reduce, x
      <4>2. QED
        BY <1>1, <2>1, <3>2, <4>1 DEF BoundType
    <3>3. QED
      BY <2>2, <3>1, <3>2, SMT
  <2>4. \E q \in Nat : follower - x = q * route.step
    <3>1. PICK p \in Nat : follower = p * route.step
      BY <2>1
    <3>2. PICK q \in Nat : x = q * route.step
      BY <2>2
    <3>3. q * route.step <= p * route.step
      BY <2>2, <3>1, <3>2
    <3>4. \E d \in Nat : p * route.step - q * route.step = d * route.step
      BY <1>2, <3>3, Difference
    <3>5. QED
      BY <3>1, <3>2, <3>4
  <2>5. WithinDrift(follower, master, mirror, reduces)'
    <3>1. Off(follower, master, mirror)' = Off(follower - x, master - v, mirror)
      BY <1>1, <2>3 DEF Off
    <3>2. ((reduces * route.step) * mirror.sourceOpen)'
             = ((reduces + 1) * route.step) * mirror.sourceOpen
      BY <1>1, <2>3
    <3>3. QED
      BY <2>2, <3>1, <3>2 DEF WithinDrift
  <2>6. follower' \in Nat
    BY <1>1, <2>2, <2>3, SMT
  <2>7. QED
    BY <1>1, <1>3, <2>1, <2>3, <2>4, <2>5, <2>6 DEF SizingInv
<1>6. QED
  BY <1>4, <1>5

LEMMA CloseKeeps ==
    ASSUME SizingInv, Close PROVE SizingInv'
<1>1. /\ route \in Policies /\ route' = route /\ master' = 0 /\ reduces' = 0
      /\ mirror' = NoBinding /\ MaxVolume \in Nat
  BY SizingAssumption DEF SizingInv, Close, SizingAssumption
<1>2. follower' = 0
  <2>1. CASE mirror = NoBinding
    BY <2>1, BoundIsNoBinding DEF SizingInv, Close
  <2>2. CASE mirror # NoBinding
    BY <2>2 DEF SizingInv, Close, NotNegative
  <2>3. QED
    BY <2>1, <2>2
<1>3. 0 \in Nat /\ 0 = 0 * route.step
  BY <1>1, PolicyTyped, SMT
<1>4. QED
  BY <1>1, <1>2, <1>3 DEF SizingInv

(* The volumes of master, binding and follower stay in the relation that    *)
(* the theorems below follow from, over any number of reduces.              *)
THEOREM SizingInvariant == Spec => []SizingInv
<1>1. Init => SizingInv
  <2> SUFFICES ASSUME Init PROVE SizingInv
    OBVIOUS
  <2>1. route \in Policies /\ 0 = 0 * route.step /\ MaxVolume \in Nat
    BY PolicyTyped, SizingAssumption, SMT DEF Init, SizingAssumption
  <2>2. QED
    BY <2>1 DEF Init, SizingInv
<1>2. SizingInv /\ [Next]_vars => SizingInv'
  <2> SUFFICES ASSUME SizingInv, [Next]_vars PROVE SizingInv'
    OBVIOUS
  <2>1. ASSUME NEW v \in 1..MaxVolume, Open(v) PROVE SizingInv'
    BY <2>1, OpenKeeps
  <2>2. ASSUME NEW v \in 1..MaxVolume, Reduce(v) PROVE SizingInv'
    BY <2>2, ReduceKeeps
  <2>3. CASE Close
    BY <2>3, CloseKeeps
  <2>4. CASE UNCHANGED vars
    BY <2>4 DEF vars, SizingInv, WithinDrift, Off
  <2>5. QED
    BY <2>1, <2>2, <2>3, <2>4 DEF Next
<1>3. QED
  BY <1>1, <1>2, PTL DEF Spec

-----------------------------------------------------------------------------
(* The theorems.                                                            *)

(* The follower holds a multiple of the route's step, and what its binding  *)
(* says.                                                                    *)
THEOREM StepsStayAligned == Spec => []StepAligned
<1>1. SizingInv => StepAligned
  <2> SUFFICES ASSUME SizingInv PROVE StepAligned
    OBVIOUS
  <2>1. PICK q \in Nat : follower = q * route.step
    BY DEF SizingInv
  <2>2. route.step \in Nat \ {0}
    BY PolicyTyped DEF SizingInv
  <2>3. follower % route.step = 0
    BY <2>1, <2>2, MultipleLeavesNothing
  <2>4. follower = IF mirror = NoBinding THEN 0 ELSE mirror.targetRemaining
    BY BoundIsNoBinding DEF SizingInv
  <2>5. QED
    BY <2>3, <2>4 DEF StepAligned
<1>2. QED
  BY <1>1, SizingInvariant, PTL

(* However volumes are rounded, no reduce asks for more than the follower   *)
(* holds.                                                                   *)
THEOREM ReducesStayWithin == Spec => []NeverOverReduced
<1>1. SizingInv => NeverOverReduced
  <2> SUFFICES ASSUME SizingInv, mirror # NoBinding, NEW v \in 1..MaxVolume
               PROVE  ReduceVolume(route, mirror, v) <= follower
    BY DEF NeverOverReduced
  <2>1. /\ mirror.sourceOpen \in Nat \ {0} /\ mirror.targetOpen \in Nat
        /\ mirror.targetRemaining \in Nat /\ follower = mirror.targetRemaining
        /\ \E q \in Nat : mirror.targetRemaining = q * route.step
    BY DEF SizingInv, BoundType
  <2>2. route \in RuleType /\ v \in Nat
    BY PolicyTyped DEF SizingInv
  <2>3. QED
    BY <2>1, <2>2, ReduceWithinRemaining
<1>2. QED
  BY <1>1, SizingInvariant, PTL

(* The follower is flat when the master is.                                 *)
THEOREM ClosesFlatten == Spec => []FlatTogether
<1>1. SizingInv => FlatTogether
  BY DEF SizingInv, FlatTogether
<1>2. QED
  BY <1>1, SizingInvariant, PTL

(* The errors of the roundings do not add up to more than half a step each. *)
THEOREM DriftStaysBounded == Spec => []DriftBounded
<1>1. SizingInv => DriftBounded
  <2> SUFFICES ASSUME SizingInv, mirror # NoBinding
               PROVE  2 * Distance(follower * mirror.sourceOpen, mirror.targetOpen * master)
                        <= (reduces * route.step) * mirror.sourceOpen
    BY DEF DriftBounded
  <2>1. WithinDrift(follower, master, mirror, reduces)
    BY DEF SizingInv
  <2>2. /\ mirror.sourceOpen \in Nat /\ mirror.targetOpen \in Nat
        /\ follower \in Nat /\ master \in Nat /\ reduces \in Nat
    BY DEF SizingInv, BoundType
  <2>3. route.step \in Nat
    BY PolicyTyped DEF SizingInv
  <2> DEFINE a == follower * mirror.sourceOpen
             b == mirror.targetOpen * master
             room == (reduces * route.step) * mirror.sourceOpen
  <2>4. a \in Nat /\ b \in Nat /\ room \in Nat
    BY <2>2, <2>3, ProductNat
  <2>5. 2 * (a - b) <= room /\ -room <= 2 * (a - b)
    BY <2>1 DEF WithinDrift, Off
  <2> HIDE DEF a, b, room
  <2>6. 2 * Distance(a, b) <= room
    BY <2>4, <2>5, SMT DEF Distance
  <2>7. QED
    BY <2>6 DEF a, b, room
<1>2. QED
  BY <1>1, SizingInvariant, PTL

(* Every variable keeps its type; in particular a binding is never kept for *)
(* a volume below zero.                                                     *)
THEOREM SizingTypeCorrect == Spec => []TypeOK
<1>1. SizingInv => TypeOK
  <2> SUFFICES ASSUME SizingInv PROVE TypeOK
    OBVIOUS
  <2>1. MaxVolume \in Nat
    BY SizingAssumption DEF SizingAssumption
  <2>2. master \in 0..MaxVolume /\ reduces \in 0..MaxVolume
    BY <2>1, SMT DEF SizingInv
  <2>3. QED
    BY <2>2 DEF SizingInv, TypeOK, BoundType
<1>2. QED
  BY <1>1, SizingInvariant, PTL
=============================================================================
