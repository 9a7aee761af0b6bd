------------------------- MODULE SelectTarget_proofs -------------------------
(***************************************************************************)
(* Facts about select_target that hold for every list of targets.  First   *)
(* that the result is None or an entry of the list that takes a share of   *)
(* the requests; then how large that share is.  The recursive functions of *)
(* the model are given by what they must be, the sums of the weights, and  *)
(* by the first place where they could be something else.                  *)
(***************************************************************************)
EXTENDS SelectTarget, NatExtrema, FiniteSetTheorems, FunctionTheorems

\* A set of naturals that is not empty has a least element, which Min names.
LEMMA MinOfNats ==
    ASSUME NEW S \in SUBSET Nat, S # {}
    PROVE  Min(S) \in S /\ \A y \in S : Min(S) <= y
  <1>1. \E x \in S : \A y \in S : x <= y
    BY SmallestNat
  <1>2. QED BY <1>1 DEF Min

\* The loop of pick_weighted_target stops at a target with a weight, if at all.
LEMMA PickWeightedInList ==
    ASSUME NEW list \in Seq(UpstreamTarget), NEW seed
    PROVE  LET chosen == PickWeighted(list, seed)
           IN  chosen = None \/ (chosen \in DOMAIN list /\ list[chosen].weight # 0)
  <1> DEFINE total == TotalWeight(list)
             cursor[i \in DOMAIN list] ==
                IF i = 1 THEN (seed % Modulus) % total
                         ELSE cursor[i - 1] - list[i - 1].weight
             hits == {i \in DOMAIN list : list[i].weight # 0 /\ cursor[i] < list[i].weight}
  <1>1. PickWeighted(list, seed) = IF total = 0 \/ hits = {} THEN None ELSE Min(hits)
    BY DEF PickWeighted
  <1>2. /\ hits \in SUBSET Nat
        /\ \A i \in hits : i \in DOMAIN list /\ list[i].weight # 0
    OBVIOUS
  <1> HIDE DEF total, hits
  <1>3. hits # {} => Min(hits) \in hits
    BY <1>2, MinOfNats
  <1>4. QED BY <1>1, <1>2, <1>3

\* So does the minimum of the loads; it is there as soon as a target has a
\* weight.
LEMMA PickLeastInList ==
    ASSUME NEW list \in Seq(UpstreamTarget)
    PROVE  LET chosen == PickLeast(list)
           IN  chosen = None \/ (chosen \in DOMAIN list /\ list[chosen].weight # 0)
  <1> DEFINE usable == {i \in DOMAIN list : list[i].weight > 0}
             loads == {LoadOf(list[i]) : i \in usable}
             least  == {i \in usable : \A j \in usable : LoadOf(list[i]) <= LoadOf(list[j])}
  <1>1. PickLeast(list) = IF usable = {} THEN None ELSE Min(least)
    BY DEF PickLeast
  <1>2. CASE usable # {}
    <2>1. \A i \in usable : LoadOf(list[i]) \in Nat
      <3>1. \A i \in usable : list[i].active_connections \in Nat /\ list[i].weight \in Nat \ {0}
        <4>1. \A i \in DOMAIN list : list[i] \in UpstreamTarget
          OBVIOUS
        <4>2. \A t \in UpstreamTarget : t.active_connections \in Nat /\ t.weight \in Nat
          BY DEF UpstreamTarget
        <4>3. QED BY <4>1, <4>2
      <3>2. \A a \in Nat, b \in Nat \ {0} : a \div b \in Nat
        OBVIOUS
      <3>3. QED BY <3>1, <3>2 DEF LoadOf
    <2>2. Min(loads) \in loads /\ \A y \in loads : Min(loads) <= y
      <3>1. loads \in SUBSET Nat /\ loads # {}
        BY <1>2, <2>1
      <3> HIDE DEF loads
      <3>2. QED BY <3>1, MinOfNats
    <2>3. least # {}
      <3>1. PICK i \in usable : LoadOf(list[i]) = Min(loads)
        BY <2>2
      <3>2. \A j \in usable : Min(loads) <= LoadOf(list[j])
        BY <2>2
      <3>3. i \in least
        BY <3>1, <3>2
      <3>4. QED BY <3>3
    <2>4. least \in SUBSET Nat /\ \A i \in least : i \in DOMAIN list /\ list[i].weight > 0
      OBVIOUS
    <2>5. Min(least) \in least
      <3> HIDE DEF least
      <3>1. QED BY <2>3, <2>4, MinOfNats
    <2>6. QED BY <1>1, <1>2, <2>4, <2>5
  <1>3. QED BY <1>1, <1>2

\* select_target answers with a target of the list that has a weight, or with
\* none, for every list, strategy, hash and request count (balancer.rs:27-76).
THEOREM SelectTargetInList ==
    ASSUME NEW list \in Seq(UpstreamTarget),
           NEW strategy \in BalancingStrategy,
           NEW hash, NEW request_count
    PROVE  LET chosen == SelectTarget(strategy, list, hash, request_count)
           IN  chosen = None \/ (chosen \in DOMAIN list /\ list[chosen].weight # 0)
  BY PickWeightedInList, PickLeastInList DEF SelectTarget, BalancingStrategy

-----------------------------------------------------------------------------
\* How many requests each target gets.  P holds the sums of the first weights: the
\* cursor c falls to target i when P[i - 1] <= c < P[i].

SumsUpTo(P, w, n) ==
    /\ P \in [0..n -> Nat]
    /\ P[0] = 0
    /\ \A i \in 1..n : P[i] = P[i - 1] + w[i]

\* There are such sums, for every list.
LEMMA SumsExist ==
    ASSUME NEW n \in Nat, NEW w \in [1..n -> Nat]
    PROVE  \E P : SumsUpTo(P, w, n)
  <1> DEFINE S == {m \in 0..n : ~ \E P : SumsUpTo(P, w, m)}
  <1>0. S \in SUBSET Nat /\ (n \notin S => \E P : SumsUpTo(P, w, n))
    OBVIOUS
  <1>1. SUFFICES ASSUME S # {} PROVE FALSE
    BY <1>0
  <1>2. PICK m \in S : \A k \in S : m <= k
    <2> HIDE DEF S
    <2>1. QED BY <1>0, <1>1, SmallestNat
  <1>3. m # 0
    <2>1. SumsUpTo([i \in 0..0 |-> 0], w, 0)
      BY DEF SumsUpTo
    <2>2. QED BY <1>2, <2>1
  <1>4. m - 1 \in 0..n /\ m \in 1..n
    BY <1>2, <1>3
  <1>5. PICK Q : SumsUpTo(Q, w, m - 1)
    BY <1>2, <1>4
  <1> DEFINE P == [i \in 0..m |-> IF i = m THEN Q[m - 1] + w[m] ELSE Q[i]]
  <1>6. SumsUpTo(P, w, m)
    <2>1. \A i \in 0..m : i # m => i \in 0..(m - 1)
      BY <1>4
    <2>2. Q \in [0..(m - 1) -> Nat] /\ m - 1 \in 0..(m - 1) /\ w[m] \in Nat
      BY <1>4, <1>5 DEF SumsUpTo
    <2>3. P \in [0..m -> Nat]
      BY <2>1, <2>2
    <2>4. P[0] = 0
      BY <1>4, <1>5 DEF SumsUpTo
    <2>5. \A i \in 1..m : P[i] = P[i - 1] + w[i]
      <3> SUFFICES ASSUME NEW i \in 1..m PROVE P[i] = P[i - 1] + w[i]
        OBVIOUS
      <3>1. CASE i = m
        BY <3>1, <1>4
      <3>2. CASE i # m
        <4>1. i \in 1..(m - 1) /\ i - 1 \in 0..m /\ i \in 0..m /\ i - 1 # m
          BY <1>4, <3>2
        <4>2. Q[i] = Q[i - 1] + w[i]
          BY <1>5, <4>1 DEF SumsUpTo
        <4>3. QED BY <3>2, <4>1, <4>2
      <3>3. QED BY <3>1, <3>2
    <2>6. QED BY <2>3, <2>4, <2>5 DEF SumsUpTo
  <1>7. QED BY <1>2, <1>6

\* The sums grow.
LEMMA SumsGrow ==
    ASSUME NEW n \in Nat, NEW w \in [1..n -> Nat], NEW P, SumsUpTo(P, w, n)
    PROVE  \A i, j \in 0..n : i <= j => P[i] <= P[j]
  <1> SUFFICES ASSUME NEW i \in 0..n PROVE \A j \in 0..n : i <= j => P[i] <= P[j]
    OBVIOUS
  <1> DEFINE S == {j \in 0..n : i <= j /\ P[j] < P[i]}
  <1>1. P \in [0..n -> Nat] /\ \A j \in 1..n : P[j] = P[j - 1] + w[j]
    BY DEF SumsUpTo
  <1>2. ASSUME S # {} PROVE FALSE
    <2>0. S \in SUBSET Nat
      OBVIOUS
    <2>1. PICK j \in S : \A k \in S : j <= k
      <3> HIDE DEF S
      <3>1. QED BY <1>2, <2>0, SmallestNat
    <2>2. j # i
      BY <1>1, <2>1
    <2>3. j \in 1..n /\ j - 1 \in 0..n /\ i <= j - 1
      BY <2>1, <2>2
    <2>4. P[j - 1] <= P[j]
      BY <1>1, <2>3
    <2>5. j - 1 \in S
      BY <1>1, <2>1, <2>3, <2>4
    <2>6. QED BY <2>1, <2>3, <2>5
  <1>3. \A j \in 0..n : P[j] \in Nat
    BY <1>1
  <1>4. QED BY <1>2, <1>3

Weights(list) == [i \in 1..Len(list) |-> list[i].weight]

LEMMA WeightsTyped ==
    ASSUME NEW list \in Seq(UpstreamTarget)
    PROVE  /\ Len(list) \in Nat /\ DOMAIN list = 1..Len(list)
           /\ Weights(list) \in [1..Len(list) -> Nat]
           /\ \A i \in 1..Len(list) : Weights(list)[i] = list[i].weight
  <1>1. Len(list) \in Nat /\ DOMAIN list = 1..Len(list)
    OBVIOUS
  <1>2. \A i \in 1..Len(list) : list[i] \in UpstreamTarget
    OBVIOUS
  <1>3. \A t \in UpstreamTarget : t.weight \in Nat
    BY DEF UpstreamTarget
  <1>4. QED BY <1>1, <1>2, <1>3 DEF Weights

\* Weights whose sum fits into a u32 are summed without a wrap.
LEMMA TotalIsSum ==
    ASSUME NEW list \in Seq(UpstreamTarget),
           NEW P, SumsUpTo(P, Weights(list), Len(list)), P[Len(list)] < Modulus
    PROVE  TotalWeight(list) = P[Len(list)]
  <1> DEFINE n == Len(list)
             w == Weights(list)
             sum[i \in 0..Len(list)] ==
                IF i = 0 THEN 0 ELSE (sum[i - 1] + list[i].weight) % Modulus
  <1>1. TotalWeight(list) = sum[Len(list)]
    BY DEF TotalWeight
  <1>2. /\ n \in Nat /\ w \in [1..n -> Nat] /\ n = Len(list)
        /\ \A i \in 1..n : w[i] = list[i].weight
    BY WeightsTyped
  <1>3. /\ P \in [0..n -> Nat] /\ P[0] = 0
        /\ \A i \in 1..n : P[i] = P[i - 1] + w[i]
    BY DEF SumsUpTo
  <1>4. \A i \in 0..n : P[i] \in Nat /\ P[i] < Modulus
    <2> HIDE DEF w, n
    <2>1. \A i \in 0..n : P[i] <= P[n]
      <3>1. SumsUpTo(P, w, n) /\ n \in 0..n
        BY <1>2 DEF w, n
      <3>2. \A i, j \in 0..n : i <= j => P[i] <= P[j]
        BY <1>2, <3>1, SumsGrow
      <3>3. QED BY <1>2, <3>1, <3>2
    <2>2. P[n] < Modulus /\ Modulus \in Nat
      BY ModulusIsPositive DEF n
    <2>3. QED BY <1>2, <1>3, <2>1, <2>2
  <1> HIDE DEF w, n
  <1>5. P = [i \in 0..n |-> IF i = 0 THEN 0 ELSE (P[i - 1] + list[i].weight) % Modulus]
    <2>1. \A a \in Nat : a < Modulus => a % Modulus = a
      BY ModulusIsPositive
    <2>2. \A i \in 0..n : i # 0 => i \in 1..n /\ i - 1 \in 0..n
      BY <1>2
    <2>3. \A i \in 0..n :
            P[i] = IF i = 0 THEN 0 ELSE (P[i - 1] + list[i].weight) % Modulus
      BY <1>2, <1>3, <1>4, <2>1, <2>2
    <2>4. QED BY <1>3, <2>3
  <1>6. sum = [i \in 0..n |-> IF i = 0 THEN 0 ELSE (sum[i - 1] + list[i].weight) % Modulus]
    <2>1. \E f : f = [i \in 0..Len(list) |->
                        IF i = 0 THEN 0 ELSE (f[i - 1] + list[i].weight) % Modulus]
      BY <1>5 DEF n
    <2>2. QED BY <2>1, Zenon DEF n
  <1> HIDE DEF sum
  <1>7. \A i \in 0..n : sum[i] = P[i]
    <2> DEFINE S == {i \in 0..n : sum[i] # P[i]}
    <2>1. S \in SUBSET Nat
      OBVIOUS
    <2>2. ASSUME S # {} PROVE FALSE
      <3>1. PICK i \in S : \A k \in S : i <= k
        <4> HIDE DEF S
        <4>1. QED BY <2>1, <2>2, SmallestNat
      <3>2. i # 0
        BY <1>2, <1>3, <1>6, <3>1
      <3>3. i \in 1..n /\ i - 1 \in 0..n /\ i - 1 \notin S
        BY <1>2, <3>1, <3>2
      <3>4. sum[i - 1] = P[i - 1]
        BY <3>3
      <3>5. sum[i] = (sum[i - 1] + list[i].weight) % Modulus
        BY <1>6, <3>1, <3>2
      <3>6. P[i] = (P[i - 1] + list[i].weight) % Modulus
        BY <1>5, <3>1, <3>2
      <3>7. QED BY <3>1, <3>4, <3>5, <3>6
    <2>3. QED BY <2>2
  <1>8. QED BY <1>1, <1>2, <1>7

\* The loop stops at the target whose stretch of the weights holds the seed.
LEMMA PickedBySums ==
    ASSUME NEW list \in Seq(UpstreamTarget),
           NEW P, SumsUpTo(P, Weights(list), Len(list)),
           P[Len(list)] < Modulus, P[Len(list)] # 0,
           NEW seed \in Nat, seed < Modulus,
           NEW i \in DOMAIN list
    PROVE  PickWeighted(list, seed) = i
           <=> P[i - 1] <= seed % P[Len(list)] /\ seed % P[Len(list)] < P[i]
  <1> DEFINE n == Len(list)
             w == Weights(list)
             total == TotalWeight(list)
             c == seed % P[Len(list)]
             cursor[j \in DOMAIN list] ==
                IF j = 1 THEN (seed % Modulus) % total
                         ELSE cursor[j - 1] - list[j - 1].weight
             hits == {j \in DOMAIN list : list[j].weight # 0 /\ cursor[j] < list[j].weight}
  <1>1. PickWeighted(list, seed) = IF total = 0 \/ hits = {} THEN None ELSE Min(hits)
    BY DEF PickWeighted
  <1>2. /\ n \in Nat /\ w \in [1..n -> Nat] /\ n = Len(list) /\ DOMAIN list = 1..n
        /\ \A j \in 1..n : w[j] = list[j].weight /\ w[j] \in Nat
    BY WeightsTyped
  <1>3. /\ P \in [0..n -> Nat] /\ P[0] = 0
        /\ \A j \in 1..n : P[j] = P[j - 1] + w[j]
    BY DEF SumsUpTo
  <1>4. total = P[n] /\ total # 0 /\ total \in Nat
    BY <1>2, <1>3, TotalIsSum
  <1>5. (seed % Modulus) % total = c
    <2>1. seed % Modulus = seed
      BY ModulusIsPositive
    <2>2. QED BY <1>4, <2>1
  <1>6. c \in Nat /\ c < P[n]
    <2>1. \A a \in Nat, b \in Nat : b # 0 => a % b \in Nat /\ a % b < b
      OBVIOUS
    <2>2. QED BY <1>4, <2>1
  <1>7. \A j, k \in 0..n : j <= k => P[j] <= P[k]
    <2> HIDE DEF w, n
    <2>1. SumsUpTo(P, w, n)
      BY DEF w, n
    <2>2. QED BY <1>2, <2>1, SumsGrow
  <1> HIDE DEF w, n, total, c
  <1> DEFINE known == [j \in 1..n |-> c - P[j - 1]]
  <1>8. \A j \in 1..n : j - 1 \in 0..n /\ P[j - 1] \in Nat /\ P[j] \in Nat
    <2>1. \A j \in 1..n : j - 1 \in 0..n /\ j \in 0..n
      BY <1>2
    <2>2. QED BY <1>3, <2>1
  <1>9. known = [j \in DOMAIN list |->
                   IF j = 1 THEN (seed % Modulus) % total
                            ELSE known[j - 1] - list[j - 1].weight]
    <2>1. \A j \in 1..n : known[j] = IF j = 1 THEN c ELSE known[j - 1] - list[j - 1].weight
      <3> SUFFICES ASSUME NEW j \in 1..n
                   PROVE  known[j] = IF j = 1 THEN c ELSE known[j - 1] - list[j - 1].weight
        OBVIOUS
      <3>1. CASE j = 1
        BY <1>3, <1>6, <3>1
      <3>2. CASE j # 1
        <4>1. j - 1 \in 1..n
          BY <1>2, <3>2
        <4>2. known[j] = c - P[j - 1] /\ known[j - 1] = c - P[(j - 1) - 1]
          BY <4>1
        <4>3. P[j - 1] = P[(j - 1) - 1] + list[j - 1].weight
          BY <1>2, <1>3, <4>1
        <4>4. P[(j - 1) - 1] \in Nat /\ list[j - 1].weight \in Nat
          BY <1>2, <1>8, <4>1
        <4> HIDE DEF known
        <4>5. QED BY <1>6, <3>2, <4>2, <4>3, <4>4
      <3>3. QED BY <3>1, <3>2
    <2>2. known = [j \in 1..n |-> known[j]]
      OBVIOUS
    <2> HIDE DEF known
    <2>3. QED BY <1>2, <1>5, <2>1, <2>2
  <1>10. cursor = [j \in DOMAIN list |->
                   IF j = 1 THEN (seed % Modulus) % total
                            ELSE cursor[j - 1] - list[j - 1].weight]
    <2>1. \E f : f = [j \in DOMAIN list |->
                   IF j = 1 THEN (seed % Modulus) % total
                            ELSE f[j - 1] - list[j - 1].weight]
      BY <1>9
    <2>2. QED BY <2>1, Zenon
  <1> HIDE DEF cursor
  <1>11. \A j \in 1..n : cursor[j] = c - P[j - 1]
    <2> DEFINE S == {j \in 1..n : cursor[j] # known[j]}
    <2>1. S \in SUBSET Nat
      OBVIOUS
    <2>2. ASSUME S # {} PROVE FALSE
      <3>1. PICK j \in S : \A k \in S : j <= k
        <4> HIDE DEF S
        <4>1. QED BY <2>1, <2>2, SmallestNat
      <3> HIDE DEF known
      <3>2. j # 1
        BY <1>2, <1>9, <1>10, <3>1
      <3>3. j - 1 \in 1..n /\ j - 1 \notin S
        BY <1>2, <3>1, <3>2
      <3>4. cursor[j - 1] = known[j - 1]
        BY <3>3
      <3>5. cursor[j] = cursor[j - 1] - list[j - 1].weight
        BY <1>2, <1>10, <3>1, <3>2
      <3>6. known[j] = known[j - 1] - list[j - 1].weight
        BY <1>2, <1>9, <3>1, <3>2
      <3>7. QED BY <3>1, <3>4, <3>5, <3>6
    <2>3. \A j \in 1..n : cursor[j] = known[j]
      BY <2>2
    <2>4. QED BY <2>3
  <1> HIDE DEF known
  <1>12. \A j \in 1..n : j \in hits <=> w[j] # 0 /\ c < P[j]
    BY <1>2, <1>3, <1>6, <1>8, <1>11
  <1>13. hits \in SUBSET 1..n
    BY <1>2
  <1> HIDE DEF hits
  <1>14. ASSUME NEW j \in 1..n, c < P[j - 1] PROVE \E k \in hits : k < j
    <2> DEFINE S == {k \in 0..(j - 1) : c < P[k]}
    <2>1. S \in SUBSET Nat /\ j - 1 \in S
      BY <1>2, <1>14
    <2>2. PICK k \in S : \A m \in S : k <= m
      <3> HIDE DEF S
      <3>1. QED BY <2>1, SmallestNat
    <2>3. k # 0
      BY <1>3, <1>6, <2>2
    <2>4. k \in 1..n /\ k < j /\ c < P[k] /\ k - 1 \in 0..(j - 1)
      BY <1>2, <2>2, <2>3
    <2>5. k - 1 \notin S
      BY <2>2, <2>4
    <2>6. ~(c < P[k - 1])
      BY <2>4, <2>5
    <2>7. w[k] # 0
      BY <1>2, <1>3, <1>6, <1>8, <2>4, <2>6
    <2>8. QED BY <1>12, <2>4, <2>7
  <1>15. hits # {}
    <2>1. n \in 1..n \/ n = 0
      BY <1>2
    <2> DEFINE S == {k \in 0..n : c < P[k]}
    <2>2. S \in SUBSET Nat /\ n \in S
      BY <1>2, <1>6
    <2>3. PICK k \in S : \A m \in S : k <= m
      <3> HIDE DEF S
      <3>1. QED BY <2>2, SmallestNat
    <2>4. k # 0
      BY <1>3, <1>6, <2>3
    <2>5. k \in 1..n /\ c < P[k] /\ k - 1 \in 0..n
      BY <1>2, <2>3, <2>4
    <2>6. k - 1 \notin S
      BY <2>3, <2>5
    <2>7. ~(c < P[k - 1])
      BY <2>5, <2>6
    <2>8. w[k] # 0
      BY <1>2, <1>3, <1>6, <1>8, <2>5, <2>7
    <2>9. QED BY <1>12, <2>5, <2>8
  <1>16. PickWeighted(list, seed) = Min(hits) /\ hits \in SUBSET Nat
    <2>1. hits \in SUBSET Nat
      BY <1>2, <1>13
    <2>2. QED BY <1>1, <1>4, <1>15, <2>1, Zenon
  <1>17. Min(hits) \in hits /\ \A y \in hits : Min(hits) <= y
    BY <1>15, <1>16, MinOfNats
  <1>18. ASSUME Min(hits) = i PROVE P[i - 1] <= c /\ c < P[i]
    <2>1. i \in hits /\ i \in 1..n /\ \A y \in hits : ~(y < i)
      BY <1>2, <1>13, <1>17, <1>18
    <2>2. ~(c < P[i - 1])
      BY <1>14, <2>1
    <2>3. QED BY <1>6, <1>8, <1>12, <2>1, <2>2
  <1>19. ASSUME P[i - 1] <= c, c < P[i] PROVE Min(hits) = i
    <2>1. i \in 1..n
      BY <1>2
    <2>2. i \in hits
      BY <1>2, <1>3, <1>6, <1>8, <1>12, <1>19, <2>1
    <2>3. ASSUME NEW y \in hits, y < i PROVE FALSE
      <3>1. y \in 1..n /\ c < P[y] /\ y \in 0..n /\ i - 1 \in 0..n /\ y <= i - 1
        BY <1>2, <1>12, <1>13, <2>1, <2>3
      <3>2. P[y] <= P[i - 1] /\ P[y] \in Nat /\ P[i - 1] \in Nat
        BY <1>7, <1>8, <2>1, <3>1
      <3>3. QED BY <1>6, <1>19, <3>1, <3>2
    <2>4. i \in Nat /\ Min(hits) \in Nat /\ Min(hits) <= i
      BY <1>16, <1>17, <2>2
    <2>5. ~(Min(hits) < i)
      BY <1>17, <2>3
    <2>6. QED BY <2>4, <2>5
  <1>20. QED BY <1>16, <1>18, <1>19 DEF c

\* T numbers in a row, seen modulo T: they run up to T - 1 and start again at 0.
LEMMA RowModulo ==
    ASSUME NEW q \in Nat, NEW T \in Nat \ {0}, NEW s \in q..(q + T - 1)
    PROVE  /\ q % T \in 0..(T - 1) /\ q % T <= q
           /\ s % T = LET x == s - q + (q % T) IN IF x < T THEN x ELSE x - T
  <1> DEFINE m == q % T
             k == q \div T
             r == s % T
             l == s \div T
             x == s - q + m
  <1>1. \A a \in Nat, b \in Nat \ {0} :
          /\ a % b \in Nat /\ a % b < b /\ a \div b \in Nat
          /\ a = b * (a \div b) + (a % b)
    OBVIOUS
  <1>2. /\ m \in Nat /\ m < T /\ k \in Nat /\ q = T * k + m
        /\ r \in Nat /\ r < T /\ l \in Nat /\ s = T * l + r
    BY <1>1
  <1> HIDE DEF m, k, r, l
  <1>3. T * (l - k) = x - r
    BY <1>2
  <1>4. x \in Nat /\ x < 2 * T
    BY <1>2
  <1> HIDE DEF x
  <1>5. \A d \in Int : d >= 2 => T * d >= 2 * T
    OBVIOUS
  <1>6. \A d \in Int : d <= -1 => T * d <= -T
    OBVIOUS
  <1>7. l - k \in {0, 1}
    BY <1>2, <1>3, <1>4, <1>5, <1>6
  <1>8. x - r \in {0, T}
    BY <1>2, <1>3, <1>7
  <1>9. r = IF x < T THEN x ELSE x - T
    BY <1>2, <1>4, <1>8
  <1>10. m <= q
    <2>1. T * k \in Nat
      BY <1>2
    <2>2. QED BY <1>2, <2>1
  <1>11. QED BY <1>2, <1>9, <1>10 DEF m, r, x

\* So every residue occurs among them once, and as many of them fall on lo..hi - 1 as
\* there are numbers there.
LEMMA ResiduesOnce ==
    ASSUME NEW q \in Nat, NEW T \in Nat \ {0}, NEW lo \in Nat, NEW hi \in Nat,
           lo <= hi, hi <= T
    PROVE  Cardinality({s \in q..(q + T - 1) : lo <= s % T /\ s % T < hi}) = hi - lo
  <1> DEFINE m == q % T
             D == {s \in q..(q + T - 1) : lo <= s % T /\ s % T < hi}
             at(c) == IF c < m THEN q - m + T + c ELSE q - m + c
             f == [c \in lo..(hi - 1) |-> at(c)]
  <1>1. m \in 0..(T - 1) /\ m <= q
    <2>1. q \in q..(q + T - 1)
      OBVIOUS
    <2>2. QED BY <2>1, RowModulo
  <1>2. \A s \in q..(q + T - 1) :
          s % T = IF s - q + m < T THEN s - q + m ELSE s - q + m - T
    <2> SUFFICES ASSUME NEW s \in q..(q + T - 1)
                 PROVE  s % T = IF s - q + m < T THEN s - q + m ELSE s - q + m - T
      OBVIOUS
    <2>1. s % T = LET x == s - q + (q % T) IN IF x < T THEN x ELSE x - T
      BY RowModulo
    <2>2. QED BY <2>1
  <1> HIDE DEF m
  <1>3. \A c \in 0..(T - 1) : at(c) \in q..(q + T - 1)
    BY <1>1
  <1>4. \A c \in 0..(T - 1) : at(c) % T = c
    <2> SUFFICES ASSUME NEW c \in 0..(T - 1) PROVE at(c) % T = c
      OBVIOUS
    <2> DEFINE s == at(c)
    <2>1. s \in q..(q + T - 1)
      BY <1>3
    <2>2. s - q + m = IF c < m THEN T + c ELSE c
      BY <1>1
    <2> HIDE DEF s
    <2>3. s % T = IF s - q + m < T THEN s - q + m ELSE s - q + m - T
      BY <1>2, <2>1
    <2>4. s % T = c
      BY <1>1, <2>1, <2>2, <2>3
    <2>5. QED BY <2>4 DEF s
  <1>5. \A s \in q..(q + T - 1) : s % T \in 0..(T - 1) /\ at(s % T) = s
    <2> SUFFICES ASSUME NEW s \in q..(q + T - 1)
                 PROVE  s % T \in 0..(T - 1) /\ at(s % T) = s
      OBVIOUS
    <2> DEFINE c == s % T
    <2>1. c = IF s - q + m < T THEN s - q + m ELSE s - q + m - T
      BY <1>2
    <2> HIDE DEF c
    <2>2. c \in 0..(T - 1) /\ at(c) = s
      BY <1>1, <2>1
    <2>3. QED BY <2>2 DEF c
  <1> HIDE DEF at
  <1>6. \A c \in lo..(hi - 1) : c \in 0..(T - 1) /\ lo <= c /\ c < hi
    OBVIOUS
  <1>7. f \in [lo..(hi - 1) -> D]
    BY <1>3, <1>4, <1>6
  <1>8. \A a, b \in lo..(hi - 1) : f[a] = f[b] => a = b
    BY <1>4, <1>6
  <1>9. \A s \in D : \E c \in lo..(hi - 1) : f[c] = s
    <2> SUFFICES ASSUME NEW s \in D PROVE \E c \in lo..(hi - 1) : f[c] = s
      OBVIOUS
    <2>1. s % T \in lo..(hi - 1) /\ at(s % T) = s
      BY <1>5
    <2>2. QED BY <2>1
  <1> HIDE DEF f, D
  <1> DEFINE I == lo..(hi - 1)
  <1> HIDE DEF I
  <1>10. f \in Bijection(I, D)
    BY <1>7, <1>8, <1>9, Fun_IsBij DEF I
  <1>11. ExistsBijection(I, D)
    BY <1>10, Fun_ExistsBij
  <1>12. IsFiniteSet(I) /\ Cardinality(I) = hi - lo
    <2>1. IsFiniteSet(I) /\ Cardinality(I) = IF lo > hi - 1 THEN 0 ELSE (hi - 1) - lo + 1
      BY FS_Interval DEF I
    <2>2. QED BY <2>1
  <1>13. QED BY <1>11, <1>12, FS_Bijection DEF D

\* Any round of requests is shared among the targets by their weights: as many
\* seeds in a row as the weights add up to, of which each target gets its weight's
\* worth (pick_weighted_target, balancer.rs:56-76).
LEMMA RoundIsShared ==
    ASSUME NEW list \in Seq(UpstreamTarget),
           NEW P, SumsUpTo(P, Weights(list), Len(list)),
           NEW q \in Nat, P[Len(list)] < Modulus, q + P[Len(list)] <= Modulus,
           NEW i \in DOMAIN list
    PROVE  Cardinality({s \in q..(q + P[Len(list)] - 1) : PickWeighted(list, s) = i})
           = list[i].weight
  <1> DEFINE n == Len(list)
             T == P[Len(list)]
             row == q..(q + T - 1)
  <1>1. /\ n \in Nat /\ Weights(list) \in [1..n -> Nat] /\ i \in 1..n
        /\ Weights(list)[i] = list[i].weight /\ list[i].weight \in Nat
    BY WeightsTyped
  <1>2. /\ P \in [0..n -> Nat]
        /\ \A j \in 1..n : P[j] = P[j - 1] + Weights(list)[j]
    BY DEF SumsUpTo
  <1>3. /\ i \in 0..n /\ i - 1 \in 0..n /\ n \in 0..n /\ i <= n
        /\ P[i] \in Nat /\ P[i - 1] \in Nat /\ T \in Nat
        /\ P[i] = P[i - 1] + list[i].weight
    <2>1. i \in 0..n /\ i - 1 \in 0..n /\ n \in 0..n /\ i <= n
      BY <1>1
    <2>2. QED BY <1>1, <1>2, <2>1
  <1>4. P[i] <= T
    <2> HIDE DEF n
    <2>1. SumsUpTo(P, Weights(list), n)
      BY DEF n
    <2>2. \A j, k \in 0..n : j <= k => P[j] <= P[k]
      BY <1>1, <2>1, SumsGrow
    <2>3. QED BY <1>3, <2>2 DEF n
  <1> HIDE DEF n
  <1>5. CASE T = 0
    <2>1. list[i].weight = 0
      BY <1>1, <1>3, <1>4, <1>5
    <2>2. row = {}
      BY <1>3, <1>5
    <2> HIDE DEF row
    <2>3. {s \in row : PickWeighted(list, s) = i} = {}
      BY <2>2
    <2>4. QED BY <2>1, <2>3, FS_EmptySet DEF row
  <1>6. CASE T # 0
    <2>1. \A s \in row : s \in Nat /\ s < Modulus
      BY <1>3, ModulusIsPositive
    <2>2. \A s \in row : PickWeighted(list, s) = i <=> P[i - 1] <= s % T /\ s % T < P[i]
      BY <1>6, <2>1, PickedBySums
    <2> DEFINE mine == {s \in row : PickWeighted(list, s) = i}
               lo == P[i - 1]
               hi == P[i]
               share == list[i].weight
    <2>3. /\ lo \in Nat /\ hi \in Nat /\ lo <= hi /\ hi <= T /\ T \in Nat \ {0}
          /\ hi - lo = share
      <3>1. lo \in Nat /\ hi \in Nat /\ share \in Nat /\ hi = lo + share
        BY <1>1, <1>3
      <3>2. hi <= T /\ T \in Nat \ {0}
        BY <1>3, <1>4, <1>6
      <3> HIDE DEF lo, hi, share, T
      <3>3. QED BY <3>1, <3>2
    <2>4. mine = {s \in row : lo <= s % T /\ s % T < hi}
      BY <2>2
    <2> HIDE DEF lo, hi, mine, T, share
    <2>5. Cardinality({s \in q..(q + T - 1) : lo <= s % T /\ s % T < hi}) = hi - lo
      BY <2>3, ResiduesOnce
    <2>6. Cardinality(mine) = share
      BY <2>3, <2>4, <2>5
    <2>7. QED BY <2>6 DEF mine, T, share
  <1>7. QED BY <1>5, <1>6
=============================================================================
