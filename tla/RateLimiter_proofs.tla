-------------------------- MODULE RateLimiter_proofs --------------------------
(***************************************************************************)
(* Proofs about the rate limiter, for any rules, any number of threads and *)
(* any delay of a thread between the clock and the lock.                   *)
(*                                                                         *)
(* First the policies as functions: what one check does to the state of a  *)
(* key, given the moments A at which requests of that key were admitted.   *)
(* Then the specification: every step does that to the keys of the context *)
(* that is checked, and nothing to the others.                             *)
(***************************************************************************)
EXTENDS RateLimiter, NatExtrema, FiniteSetTheorems, SequenceTheorems

-----------------------------------------------------------------------------
\* Moments.

\* The clock does not run backwards: A is in order, and nothing in it is later
\* than t.
InOrder(A, t) ==
    /\ \A i, j \in DOMAIN A : i <= j => A[i] <= A[j]
    /\ \A i \in DOMAIN A : A[i] <= t

\* Admitting one more request at t keeps the order.
LEMMA InOrderAppend ==
    ASSUME NEW A \in Seq(Nat), NEW t \in Nat, InOrder(A, t)
    PROVE  InOrder(Append(A, t), t)
  BY DEF InOrder

\* As many moments lie after b as there are at the end of A.
LEMMA RecentCount ==
    ASSUME NEW A \in Seq(Nat), NEW b \in Int, NEW c \in Nat, c <= Len(A),
           \A i \in (Len(A) - c + 1)..Len(A) : A[i] > b
    PROVE  Cardinality({i \in DOMAIN A : A[i] > b}) >= c
  <1> DEFINE n == Len(A)
             recent == {i \in DOMAIN A : A[i] > b}
  <1>1. n \in Nat /\ DOMAIN A = 1..n
    OBVIOUS
  <1>2. IsFiniteSet(1..n) /\ Cardinality((n - c + 1)..n) = c
    <2>1. n - c + 1 <= n => n - (n - c + 1) + 1 = c
      BY <1>1
    <2>2. n - c + 1 > n => c = 0
      BY <1>1
    <2>3. QED BY <1>1, <2>1, <2>2, FS_Interval
  <1>3. (n - c + 1)..n \subseteq recent /\ recent \subseteq 1..n
    BY <1>1
  <1> HIDE DEF recent, n
  <1>4. IsFiniteSet(recent)
    BY <1>2, <1>3, FS_Subset
  <1>5. Cardinality((n - c + 1)..n) <= Cardinality(recent)
    BY <1>3, <1>4, FS_Subset
  <1>6. Cardinality(recent) \in Nat
    BY <1>4, FS_CardinalityType
  <1>7. QED BY <1>2, <1>5, <1>6 DEF recent

-----------------------------------------------------------------------------
\* The sliding window.

\* G is what is left of H when p hits have been popped: they have expired, and
\* the first of the others has not.
PoppedTo(H, G, now, W, p) ==
    /\ G \in Seq(Nat)
    /\ p \in 0..Len(H) /\ Len(G) = Len(H) - p
    /\ \A j \in 1..Len(G) : G[j] = H[p + j]
    /\ \A j \in 1..p : H[j] + W <= now
    /\ p < Len(H) => H[p + 1] > now - W

\* What the loop of sliding_window leaves.
LEMMA Popped ==
    ASSUME NEW H \in Seq(Nat), NEW now \in Nat, NEW W \in Nat \ {0}
    PROVE  \E p : PoppedTo(H, PopExpired(H, now, W), now, W, p)
  <1> DEFINE live == {i \in DOMAIN H : DurationSince(now, H[i]) < W}
             first == CHOOSE i \in live : \A j \in live : i <= j
             G == PopExpired(H, now, W)
  <1>1. G = IF live = {} THEN <<>> ELSE SubSeq(H, first, Len(H))
    BY DEF PopExpired
  <1>2. \A i \in DOMAIN H : i \notin live => H[i] + W <= now
    BY DEF DurationSince
  <1>3. \A i \in live : i \in DOMAIN H /\ H[i] > now - W
    BY DEF DurationSince
  <1>4. live \subseteq Nat /\ DOMAIN H = 1..Len(H) /\ Len(H) \in Nat
    OBVIOUS
  <1> HIDE DEF live, G
  <1>5. CASE live = {}
    <2>1. G = <<>>
      BY <1>1, <1>5
    <2>2. G \in Seq(Nat) /\ Len(G) = Len(H) - Len(H)
      BY <1>4, <2>1
    <2>3. \A j \in 1..Len(H) : H[j] + W <= now
      BY <1>2, <1>4, <1>5
    <2>4. \A j \in 1..Len(G) : G[j] = H[Len(H) + j]
      BY <2>1
    <2>5. Len(H) \in 0..Len(H) /\ ~(Len(H) < Len(H))
      BY <1>4
    <2>6. PoppedTo(H, G, now, W, Len(H))
      BY <2>2, <2>3, <2>4, <2>5 DEF PoppedTo
    <2>7. QED BY <2>6 DEF G
  <1>6. CASE live # {}
    <2>1. first \in live /\ \A j \in live : first <= j
      <3>1. \E i \in live : \A j \in live : i <= j
        BY <1>4, <1>6, SmallestNat
      <3>2. QED BY <3>1
    <2> HIDE DEF first
    <2>2. first \in 1..Len(H) /\ H[first] > now - W
      BY <1>3, <1>4, <2>1
    <2>3. G = SubSeq(H, first, Len(H))
      BY <1>1, <1>6
    <2>4. /\ G \in Seq(Nat)
          /\ Len(G) = Len(H) - (first - 1)
          /\ \A j \in 1..Len(G) : G[j] = H[(first - 1) + j]
      BY <1>4, <2>2, <2>3
    <2>5. \A j \in 1..(first - 1) : H[j] + W <= now
      <3>1. \A j \in 1..(first - 1) : j \in DOMAIN H /\ j \notin live
        BY <1>4, <2>1, <2>2
      <3>2. QED BY <1>2, <3>1
    <2>6. first - 1 \in 0..Len(H) /\ (first - 1) + 1 = first
      BY <1>4, <2>2
    <2>7. PoppedTo(H, G, now, W, first - 1)
      BY <2>2, <2>4, <2>5, <2>6 DEF PoppedTo
    <2>8. QED BY <2>7 DEF G
  <1>7. QED BY <1>5, <1>6

\* The hits H that are kept are the last requests admitted, each as late as the
\* clock was read; the requests before them have left the window.
SlidingInv(H, A, L, W, t) ==
    LET gone == Len(A) - Len(H)
    IN  /\ gone >= 0
        /\ \A j \in 1..Len(H) : H[j] <= A[gone + j] /\ A[gone + j] <= H[j] + MaxDelay
        /\ \A i \in 1..gone : A[i] + W - MaxDelay <= t
        /\ Spread(A, L, W - MaxDelay)

\* A request that is admitted keeps that.
LEMMA SlidingAdmits ==
    ASSUME NEW H \in Seq(Nat), NEW A \in Seq(Nat), NEW L \in Nat, NEW W \in Nat \ {0},
           NEW now \in Nat, NEW t \in Nat, MaxDelay \in Nat, now <= t, t <= now + MaxDelay,
           SlidingInv(H, A, L, W, t), Len(PopExpired(H, now, W)) < L
    PROVE  SlidingInv(Append(PopExpired(H, now, W), now), Append(A, t), L, W, t)
  <1> DEFINE G == PopExpired(H, now, W)
             n == Len(A)
             m == Len(H)
             g == Len(G)
             gone == n - m
             H1 == Append(G, now)
             A1 == Append(A, t)
  <1>3. g < L
    OBVIOUS
  <1>0. PICK p : PoppedTo(H, G, now, W, p)
    BY Popped
  <1> HIDE DEF G
  <1>1. G \in Seq(Nat)
    BY <1>0 DEF PoppedTo
  <1>2. /\ p \in 0..m /\ g = m - p
        /\ \A j \in 1..g : G[j] = H[p + j]
        /\ \A j \in 1..p : H[j] + W <= now
    BY <1>0 DEF PoppedTo
  <1>4. /\ gone >= 0
        /\ \A j \in 1..m : H[j] <= A[gone + j] /\ A[gone + j] <= H[j] + MaxDelay
        /\ \A i \in 1..gone : A[i] + W - MaxDelay <= t
        /\ Spread(A, L, W - MaxDelay)
    BY DEF SlidingInv
  <1>5. n \in Nat /\ m \in Nat /\ g \in Nat /\ p \in Nat /\ DOMAIN A = 1..n
    BY <1>1, <1>2
  <1>6. /\ Len(H1) = g + 1 /\ Len(A1) = n + 1 /\ DOMAIN A1 = 1..(n + 1)
        /\ \A j \in 1..g : H1[j] = G[j]
        /\ H1[g + 1] = now
        /\ \A i \in 1..n : A1[i] = A[i]
        /\ A1[n + 1] = t
    BY <1>1
  <1>7. (\A i \in 1..n : A[i] \in Nat) /\ (\A j \in 1..m : H[j] \in Nat)
    OBVIOUS
  <1> HIDE DEF H1, A1, n, m, g
  <1>8. gone \in Nat /\ gone + p + g = n /\ gone + p <= n /\ p + g = m
    BY <1>2, <1>4, <1>5
  <1>9. gone + m = n
    BY <1>5
  <1> HIDE DEF gone
  <1>10. \A j \in 1..(g + 1) : /\ H1[j] <= A1[gone + p + j]
                               /\ A1[gone + p + j] <= H1[j] + MaxDelay
    <2> SUFFICES ASSUME NEW j \in 1..(g + 1)
                 PROVE  H1[j] <= A1[gone + p + j] /\ A1[gone + p + j] <= H1[j] + MaxDelay
      OBVIOUS
    <2>1. CASE j = g + 1
      <3>1. gone + p + j = n + 1
        BY <1>5, <1>8, <2>1
      <3>2. QED BY <1>6, <2>1, <3>1
    <2>2. CASE j # g + 1
      <3>1. j \in 1..g
        BY <1>5, <2>2
      <3>2. p + j \in 1..m /\ gone + (p + j) \in 1..n /\ gone + p + j = gone + (p + j)
        BY <1>5, <1>8, <1>9, <3>1
      <3>3. H1[j] = H[p + j] /\ A1[gone + p + j] = A[gone + (p + j)]
        BY <1>2, <1>6, <3>1, <3>2
      <3>4. QED BY <1>4, <3>2, <3>3
    <2>3. QED BY <2>1, <2>2
  <1>11. \A i \in 1..(gone + p) : A1[i] + W - MaxDelay <= t
    <2> SUFFICES ASSUME NEW i \in 1..(gone + p) PROVE A1[i] + W - MaxDelay <= t
      OBVIOUS
    <2>1. i \in 1..n
      BY <1>5, <1>8
    <2>2. A1[i] = A[i] /\ A[i] \in Nat
      BY <1>6, <1>7, <2>1
    <2>3. CASE i <= gone
      <3>1. i \in 1..gone
        BY <1>5, <1>8, <2>3
      <3>2. QED BY <1>4, <2>2, <3>1
    <2>4. CASE i > gone
      <3>1. i - gone \in 1..p /\ i - gone \in 1..m /\ i = gone + (i - gone)
        BY <1>5, <1>8, <2>4
      <3>2. PICK j \in 1..m : j \in 1..p /\ i = gone + j
        BY <3>1
      <3>3. A[i] <= H[j] + MaxDelay /\ H[j] + W <= now
        BY <1>2, <1>4, <3>2
      <3>4. H[j] \in Nat
        BY <1>7
      <3>5. \A x, y \in Nat : x <= y + MaxDelay /\ y + W <= now => x + W - MaxDelay <= t
        OBVIOUS
      <3>6. QED BY <2>2, <3>3, <3>4, <3>5
    <2>5. QED BY <1>8, <2>3, <2>4
  <1>12. Spread(A1, L, W - MaxDelay)
    <2> SUFFICES ASSUME NEW i \in 1..(n + 1), i + L \in 1..(n + 1)
                 PROVE  A1[i + L] - A1[i] >= W - MaxDelay
      BY <1>6 DEF Spread
    <2>1. CASE i + L \in 1..n
      <3>1. i \in 1..n
        BY <1>5, <2>1
      <3>2. QED BY <1>4, <1>5, <1>6, <2>1, <3>1 DEF Spread
    <2>2. CASE i + L = n + 1
      <3>1. i \in 1..(gone + p) /\ i \in 1..n
        BY <1>3, <1>5, <1>8, <2>2
      <3>2. A1[i] + W - MaxDelay <= t /\ A1[i] \in Nat
        BY <1>6, <1>7, <1>11, <3>1
      <3>3. QED BY <1>6, <2>2, <3>2
    <2>3. QED BY <1>5, <2>1, <2>2
  <1>13. Len(A1) - Len(H1) = gone + p /\ gone + p >= 0
    BY <1>5, <1>6, <1>8
  <1>14. SlidingInv(H1, A1, L, W, t)
    BY <1>6, <1>10, <1>11, <1>12, <1>13 DEF SlidingInv
  <1>15. QED BY <1>14 DEF H1, A1, G

\* A request that is refused meets a window full of requests.
LEMMA SlidingRefuses ==
    ASSUME NEW H \in Seq(Nat), NEW A \in Seq(Nat), NEW L \in Nat, NEW W \in Nat \ {0},
           NEW now \in Nat, NEW t \in Nat, MaxDelay \in Nat, InOrder(A, t),
           SlidingInv(H, A, L, W, t), ~(Len(PopExpired(H, now, W)) < L)
    PROVE  Cardinality({i \in DOMAIN A : A[i] > now - W}) >= L
  <1> DEFINE G == PopExpired(H, now, W)
             n == Len(A)
             m == Len(H)
             g == Len(G)
             gone == n - m
             recent == {i \in DOMAIN A : A[i] > now - W}
  <1>3. ~(g < L)
    OBVIOUS
  <1>0. PICK p : PoppedTo(H, G, now, W, p)
    BY Popped
  <1> HIDE DEF G
  <1>1. G \in Seq(Nat)
    BY <1>0 DEF PoppedTo
  <1>2. p \in 0..m /\ g = m - p /\ (p < m => H[p + 1] > now - W)
    BY <1>0 DEF PoppedTo
  <1>4. gone >= 0 /\ \A j \in 1..m : H[j] <= A[gone + j]
    BY DEF SlidingInv
  <1>5. n \in Nat /\ m \in Nat /\ g \in Nat /\ p \in Nat /\ DOMAIN A = 1..n
    BY <1>1, <1>2
  <1>6. (\A i \in 1..n : A[i] \in Nat) /\ (\A j \in 1..m : H[j] \in Nat)
    OBVIOUS
  <1> HIDE DEF n, m, g
  <1>7. gone + m = n /\ gone \in Nat /\ g <= n /\ g >= L
    BY <1>2, <1>3, <1>4, <1>5
  <1> HIDE DEF gone
  <1>8. \A i \in (n - g + 1)..n : A[i] > now - W
    <2> SUFFICES ASSUME NEW i \in (n - g + 1)..n PROVE A[i] > now - W
      OBVIOUS
    <2>1. p < m /\ p + 1 \in 1..m /\ i \in 1..n
      BY <1>2, <1>5, <1>7
    <2>2. gone + (p + 1) \in 1..n /\ gone + (p + 1) <= i
      BY <1>2, <1>5, <1>7, <2>1
    <2>3. H[p + 1] > now - W /\ H[p + 1] <= A[gone + (p + 1)]
      BY <1>2, <1>4, <2>1
    <2>4. A[gone + (p + 1)] <= A[i]
      BY <1>5, <2>1, <2>2 DEF InOrder
    <2>5. A[i] \in Nat /\ A[gone + (p + 1)] \in Nat /\ H[p + 1] \in Nat
      BY <1>6, <2>1, <2>2
    <2>6. \A x, y, z \in Nat : x > now - W /\ x <= y /\ y <= z => z > now - W
      OBVIOUS
    <2>7. QED BY <2>3, <2>4, <2>5, <2>6
  <1>9. Cardinality(recent) >= g
    <2>1. now - W \in Int
      OBVIOUS
    <2>2. QED BY <1>5, <1>7, <1>8, <2>1, RecentCount DEF n
  <1>10. Cardinality(recent) \in Nat
    <2>1. IsFiniteSet(1..n)
      BY <1>5, FS_Interval
    <2>2. recent \subseteq 1..n
      BY <1>5
    <2> HIDE DEF recent
    <2>3. QED BY <2>1, <2>2, FS_Subset, FS_CardinalityType
  <1> HIDE DEF recent
  <1>11. Cardinality(recent) >= L
    BY <1>5, <1>7, <1>9, <1>10
  <1>12. QED BY <1>11 DEF recent

-----------------------------------------------------------------------------
\* The fixed window.

\* The last c requests were admitted in the window that began at S, those before
\* them no later than it began, up to the delay of a thread, and all but limit
\* of those in windows that were over by then.
FixedInv(S, c, A, L, W, t) ==
    /\ c <= L /\ c <= Len(A)
    /\ S = Unset => Len(A) = 0
    /\ S # Unset =>
         /\ S <= t
         /\ \A i \in 1..(Len(A) - c) : A[i] <= S + MaxDelay
         /\ \A i \in 1..(Len(A) - c - L) : A[i] + W - MaxDelay <= S
         /\ \A i \in (Len(A) - c + 1)..Len(A) : A[i] >= S
    /\ Spread(A, 2 * L, W - MaxDelay)

\* What a check goes by: the window is over, and a new one begins now with a
\* count of 0, or it is not, and its beginning and its count stand.
FixedCases(S, c, W, now, S1, count) ==
    \/ S # Unset /\ S + W <= now /\ S1 = now /\ count = 0
    \/ S # Unset /\ S > now - W /\ S1 = S /\ count = c
    \/ S = Unset /\ S1 = now /\ count = c

\* A request that is admitted, in the window or as the first of a new one,
\* keeps that.
LEMMA FixedAdmits ==
    ASSUME NEW S \in Nat \union {Unset}, NEW c \in Nat, NEW A \in Seq(Nat),
           NEW L \in Nat, NEW W \in Nat \ {0}, NEW now \in Nat, NEW t \in Nat,
           MaxDelay \in Nat, now <= t, t <= now + MaxDelay, InOrder(A, t),
           FixedInv(S, c, A, L, W, t),
           NEW S1, NEW count, FixedCases(S, c, W, now, S1, count), count < L
    PROVE  FixedInv(S1, count + 1, Append(A, t), L, W, t)
  <1> DEFINE n == Len(A)
             A1 == Append(A, t)
  <1>1. n \in Nat /\ DOMAIN A = 1..n /\ (\A i \in 1..n : A[i] \in Nat)
    OBVIOUS
  <1>2. /\ Len(A1) = n + 1 /\ DOMAIN A1 = 1..(n + 1)
        /\ \A i \in 1..n : A1[i] = A[i]
        /\ A1[n + 1] = t
    OBVIOUS
  <1>3. /\ c <= L /\ c <= n
        /\ S = Unset => n = 0
        /\ S # Unset =>
             /\ S <= t
             /\ \A i \in 1..(n - c) : A[i] <= S + MaxDelay
             /\ \A i \in 1..(n - c - L) : A[i] + W - MaxDelay <= S
             /\ \A i \in (n - c + 1)..n : A[i] >= S
        /\ Spread(A, 2 * L, W - MaxDelay)
    BY DEF FixedInv
  <1>4. \A i \in 1..n : A[i] <= t
    BY <1>1 DEF InOrder
  <1>5. S1 \in Nat /\ count \in Nat /\ count + 1 <= L /\ S1 <= t /\ count <= c
    BY <1>3 DEF FixedCases, Unset
  <1> HIDE DEF A1, n
  <1>6. /\ \A i \in 1..(n - count) : A[i] <= S1 + MaxDelay
        /\ \A i \in 1..(n - count - L) : A[i] + W - MaxDelay <= S1
        /\ \A i \in (n - count + 1)..n : A[i] >= S1
    <2>1. CASE S # Unset /\ S + W <= now /\ S1 = now /\ count = 0
      <3>1. \A i \in 1..(n - count) : A[i] <= S1 + MaxDelay
        BY <1>1, <1>4, <2>1
      <3>2. \A i \in 1..(n - count - L) : A[i] + W - MaxDelay <= S1
        <4> SUFFICES ASSUME NEW i \in 1..(n - count - L) PROVE A[i] + W - MaxDelay <= S1
          OBVIOUS
        <4>1. i \in 1..(n - c) /\ S \in Nat /\ i \in 1..n
          BY <1>1, <1>3, <1>5, <2>1
        <4>2. A[i] <= S + MaxDelay /\ A[i] \in Nat
          BY <1>1, <1>3, <2>1, <4>1
        <4>3. QED BY <2>1, <4>1, <4>2
      <3>3. \A i \in (n - count + 1)..n : A[i] >= S1
        BY <1>1, <2>1
      <3>4. QED BY <3>1, <3>2, <3>3
    <2>2. CASE S # Unset /\ S1 = S /\ count = c
      BY <1>3, <2>2
    <2>3. CASE S = Unset
      <3>1. n = 0 /\ count = 0 /\ L >= 0
        BY <1>1, <1>3, <1>5, <2>3
      <3>2. QED BY <3>1
    <2>4. QED BY <2>1, <2>2, <2>3 DEF FixedCases
  <1>7. \A i \in 1..(n - count) : A1[i] <= S1 + MaxDelay
    <2>1. \A i \in 1..(n - count) : i \in 1..n
      BY <1>1, <1>5
    <2>2. QED BY <1>2, <1>6, <2>1
  <1>8. \A i \in 1..(n - count - L) : A1[i] + W - MaxDelay <= S1 /\ A1[i] \in Nat
    <2>1. \A i \in 1..(n - count - L) : i \in 1..n
      BY <1>1, <1>5
    <2>2. QED BY <1>1, <1>2, <1>6, <2>1
  <1>9. \A i \in (n - count + 1)..(n + 1) : A1[i] >= S1
    <2> SUFFICES ASSUME NEW i \in (n - count + 1)..(n + 1) PROVE A1[i] >= S1
      OBVIOUS
    <2>1. CASE i = n + 1
      BY <1>2, <1>5, <2>1
    <2>2. CASE i # n + 1
      <3>1. i \in (n - count + 1)..n /\ i \in 1..n
        BY <1>1, <1>3, <1>5, <2>2
      <3>2. QED BY <1>2, <1>6, <3>1
    <2>3. QED BY <2>1, <2>2
  <1>10. Spread(A1, 2 * L, W - MaxDelay)
    <2> SUFFICES ASSUME NEW i \in 1..(n + 1), i + 2 * L \in 1..(n + 1)
                 PROVE  A1[i + 2 * L] - A1[i] >= W - MaxDelay
      BY <1>2 DEF Spread
    <2>1. CASE i + 2 * L \in 1..n
      <3>1. i \in 1..n
        BY <1>1, <2>1
      <3>2. QED BY <1>1, <1>2, <1>3, <2>1, <3>1 DEF Spread
    <2>2. CASE i + 2 * L = n + 1
      <3>1. i \in 1..(n - count - L)
        BY <1>1, <1>5, <2>2
      <3>2. A1[i] + W - MaxDelay <= S1 /\ A1[i] \in Nat
        BY <1>8, <3>1
      <3>3. QED BY <1>2, <1>5, <2>2, <3>2
    <2>3. QED BY <1>1, <2>1, <2>2
  <1>11. /\ Len(A1) - (count + 1) = n - count
         /\ Len(A1) - (count + 1) - L = n - count - L
         /\ Len(A1) - (count + 1) + 1 = n - count + 1
         /\ count + 1 <= Len(A1)
         /\ S1 # Unset
    BY <1>1, <1>2, <1>3, <1>5 DEF Unset
  <1>12. /\ \A i \in 1..(Len(A1) - (count + 1)) : A1[i] <= S1 + MaxDelay
         /\ \A i \in 1..(Len(A1) - (count + 1) - L) : A1[i] + W - MaxDelay <= S1
         /\ \A i \in (Len(A1) - (count + 1) + 1)..Len(A1) : A1[i] >= S1
    <2>1. Len(A1) = n + 1
      BY <1>2
    <2>2. QED BY ONLY <1>7, <1>8, <1>9, <1>11, <2>1
  <1>13. FixedInv(S1, count + 1, A1, L, W, t)
    BY ONLY <1>5, <1>10, <1>11, <1>12 DEF FixedInv
  <1>14. QED BY <1>13 DEF A1

\* A request that is refused meets limit requests of the current window.
LEMMA FixedRefuses ==
    ASSUME NEW S \in Nat \union {Unset}, NEW c \in Nat, NEW A \in Seq(Nat),
           NEW L \in Nat, NEW W \in Nat \ {0}, NEW now \in Nat, NEW t \in Nat,
           MaxDelay \in Nat, FixedInv(S, c, A, L, W, t),
           NEW S1, NEW count, FixedCases(S, c, W, now, S1, count),
           ~(count < L), L # 0
    PROVE  L <= Len(A) /\ \A i \in (Len(A) - L + 1)..Len(A) : A[i] > now - W
  <1>1. /\ c <= L /\ c <= Len(A) /\ (S = Unset => Len(A) = 0)
        /\ S # Unset => \A i \in (Len(A) - c + 1)..Len(A) : A[i] >= S
    BY DEF FixedInv
  <1>2. c = L /\ Len(A) \in Nat
    BY <1>1 DEF FixedCases
  <1>3. S # Unset
    BY <1>1, <1>2
  <1>4. S > now - W
    BY <1>2, <1>3 DEF FixedCases
  <1>5. \A i \in (Len(A) - c + 1)..Len(A) : A[i] > now - W
    <2> SUFFICES ASSUME NEW i \in (Len(A) - c + 1)..Len(A) PROVE A[i] > now - W
      OBVIOUS
    <2>1. A[i] >= S /\ A[i] \in Nat
      BY <1>1, <1>2, <1>3
    <2>2. QED BY <1>3, <1>4, <2>1 DEF Unset
  <1>6. QED BY <1>1, <1>2, <1>5

-----------------------------------------------------------------------------
\* The token bucket.

\* Products, which the provers do not see through when they meet other things.
LEMMA Products ==
    /\ \A a, b \in Nat : a * b \in Nat
    /\ \A a, b \in Int : a * b \in Int
    /\ \A a \in Nat \ {0}, b \in Nat : b <= a * b
  <1>1. \A a, b \in Nat : a * b \in Nat
    OBVIOUS
  <1>2. \A a, b \in Int : a * b \in Int
    OBVIOUS
  <1>3. \A a \in Nat \ {0}, b \in Nat : b <= a * b
    OBVIOUS
  <1>4. QED BY <1>1, <1>2, <1>3

\* A longer span allows for more.
LEMMA LongerSpan ==
    ASSUME NEW P \in Int, NEW C \in Int, NEW rate \in Nat, NEW y \in Int, NEW z \in Int,
           P <= C + rate * y, y <= z
    PROVE  P <= C + rate * z
  <1>1. rate * y <= rate * z
    OBVIOUS
  <1>2. rate * y \in Int /\ rate * z \in Int
    OBVIOUS
  <1>3. QED BY <1>1, <1>2

\* The refill of d ticks pays for d more ticks.
LEMMA RefillPays ==
    ASSUME NEW full \in Int, NEW x \in Int, NEW P \in Int, NEW C \in Int, NEW rate \in Nat,
           NEW y \in Int, NEW d \in Nat,
           full <= x + d * rate, x + P <= C + rate * y
    PROVE  full + P <= C + rate * (y + d)
  <1>1. rate * (y + d) = rate * y + d * rate
    OBVIOUS
  <1>2. rate * y \in Int /\ d * rate \in Int
    OBVIOUS
  <1>3. QED BY <1>1, <1>2

\* The token a request takes is the one it is charged.
LEMMA TokenTaken ==
    ASSUME NEW full \in Int, NEW k \in Int, NEW unit \in Int, NEW Q, full + k * unit <= Q
    PROVE  (full - unit) + (k + 1) * unit <= Q
  <1>1. (k + 1) * unit = k * unit + unit /\ k * unit \in Int
    OBVIOUS
  <1>2. (full - unit) + (k + 1) * unit = full + k * unit
    BY <1>1
  <1>3. QED BY <1>2

\* Between any two moments no more than C and the refill of the time between.
Paid(A, C, rate, unit, slack) ==
    \A i, j \in 1..Len(A) : i <= j => (j - i + 1) * unit <= C + rate * (A[j] - A[i] + slack)

\* With x fractions of a token left at the moment last, the requests since any
\* of A, and the tokens that are left, are paid for by C, a full bucket, and the
\* refill since then.
TokenInv(x, last, A, C, rate, unit, slack) ==
    /\ last = Unset => Len(A) = 0
    /\ last # Unset =>
         \A i \in 1..Len(A) :
            x + (Len(A) - i + 1) * unit <= C + rate * (last - A[i] + slack)
    /\ Paid(A, C, rate, unit, slack)

\* A bucket with x left at the moment last holds no more than full at now.
Refilled(full, x, last, now, rate) ==
    last # Unset => full <= x + DurationSince(now, last) * rate

\* A check refills the bucket and keeps that; when it sets the time back, the
\* slack grows by as much.
LEMMA TokenRefill ==
    ASSUME NEW x \in Nat, NEW last \in Nat \union {Unset}, NEW A \in Seq(Nat),
           NEW C \in Nat, NEW rate \in Nat, NEW unit \in Nat \ {0},
           NEW now \in Nat, NEW slack \in Nat, NEW full \in Nat,
           TokenInv(x, last, A, C, rate, unit, slack), Refilled(full, x, last, now, rate)
    PROVE  TokenInv(full, now, A, C, rate, unit, slack + DurationSince(last, now))
  <1> DEFINE n == Len(A)
             slack1 == slack + DurationSince(last, now)
  <1>1. n \in Nat /\ \A i \in 1..n : A[i] \in Nat
    OBVIOUS
  <1>2. slack1 \in Nat /\ slack <= slack1 /\ now # Unset
    BY DEF DurationSince, Unset
  <1> HIDE DEF n, slack1
  <1>3. \A i \in 1..n : full + (n - i + 1) * unit <= C + rate * (now - A[i] + slack1)
    <2> SUFFICES ASSUME NEW i \in 1..n
                 PROVE  full + (n - i + 1) * unit <= C + rate * (now - A[i] + slack1)
      OBVIOUS
    <2> DEFINE a == A[i]
               d == DurationSince(now, last)
               P == (n - i + 1) * unit
    <2>1. a \in Nat
      BY <1>1
    <2>2. last \in Nat /\ last # Unset
      BY <1>1 DEF TokenInv, n
    <2>3. x + P <= C + rate * (last - a + slack)
      BY <2>2 DEF TokenInv, n
    <2>4. full <= x + d * rate
      BY <2>2 DEF Refilled
    <2>5. P \in Int
      BY <1>1, Products
    <2> HIDE DEF a, P, d
    <2>6. d \in Nat /\ now - a + slack1 = (last - a + slack) + d /\ last - a + slack \in Int
      <3>1. DurationSince(now, last) \in Nat
        BY <2>2 DEF DurationSince
      <3>2. now - a + (slack + DurationSince(last, now))
              = (last - a + slack) + DurationSince(now, last)
        <4>1. \A b \in Nat : now - b + (slack + DurationSince(last, now))
                               = (last - b + slack) + DurationSince(now, last)
          BY <2>2 DEF DurationSince
        <4>2. QED BY <2>1, <4>1
      <3>3. last - a + slack \in Int
        BY <2>1, <2>2
      <3>4. QED BY <3>1, <3>2, <3>3, Zenon DEF d, slack1
    <2>7. full + P <= C + rate * ((last - a + slack) + d)
      BY <2>3, <2>4, <2>5, <2>6, RefillPays
    <2>8. full + P <= C + rate * (now - a + slack1)
      BY <2>6, <2>7
    <2>9. QED BY <2>8 DEF P, a
  <1>4. Paid(A, C, rate, unit, slack1)
    <2> SUFFICES ASSUME NEW i \in 1..n, NEW j \in 1..n, i <= j
                 PROVE  (j - i + 1) * unit <= C + rate * (A[j] - A[i] + slack1)
      BY DEF Paid, n
    <2> DEFINE P == (j - i + 1) * unit
               y == A[j] - A[i] + slack
               z == A[j] - A[i] + slack1
    <2>1. P <= C + rate * y
      BY DEF TokenInv, Paid, n
    <2>2. P \in Int
      BY <1>1, Products
    <2>3. y \in Int /\ z \in Int /\ y <= z
      <3>1. A[i] \in Nat /\ A[j] \in Nat
        BY <1>1
      <3>2. \A b, c \in Nat : /\ c - b + slack \in Int /\ c - b + slack1 \in Int
                              /\ c - b + slack <= c - b + slack1
        BY <1>2
      <3>3. QED BY <3>1, <3>2
    <2> HIDE DEF P, y, z
    <2>4. P <= C + rate * z
      BY <2>1, <2>2, <2>3, LongerSpan
    <2>5. QED BY <2>4 DEF P, z
  <1>5. TokenInv(full, now, A, C, rate, unit, slack1)
    BY <1>2, <1>3, <1>4 DEF TokenInv, n
  <1>6. QED BY <1>5 DEF slack1

\* A request at the moment t takes a token out of the bucket.
LEMMA TokenTake ==
    ASSUME NEW A \in Seq(Nat), NEW C \in Nat, NEW rate \in Nat, NEW unit \in Nat \ {0},
           NEW now \in Nat, NEW t \in Nat, MaxDelay \in Nat, now <= t, t <= now + MaxDelay,
           NEW slack \in Nat, slack >= MaxDelay, NEW full \in Nat, full <= C, full >= unit,
           TokenInv(full, now, A, C, rate, unit, slack)
    PROVE  TokenInv(full - unit, now, Append(A, t), C, rate, unit, slack)
  <1> DEFINE n == Len(A)
             A1 == Append(A, t)
  <1>1. n \in Nat /\ \A i \in 1..n : A[i] \in Nat
    OBVIOUS
  <1>2. /\ Len(A1) = n + 1 /\ A1[n + 1] = t
        /\ \A i \in 1..n : A1[i] = A[i]
    OBVIOUS
  <1>3. now # Unset
    BY DEF Unset
  <1>4. /\ \A i \in 1..n : full + (n - i + 1) * unit <= C + rate * (now - A[i] + slack)
        /\ \A i, j \in 1..n : i <= j =>
             (j - i + 1) * unit <= C + rate * (A[j] - A[i] + slack)
    BY <1>3 DEF TokenInv, Paid
  <1> HIDE DEF n, A1
  <1>5. \A i \in 1..(n + 1) :
           (full - unit) + ((n + 1) - i + 1) * unit <= C + rate * (now - A1[i] + slack)
    <2> SUFFICES ASSUME NEW i \in 1..(n + 1)
                 PROVE  (full - unit) + ((n + 1) - i + 1) * unit
                          <= C + rate * (now - A1[i] + slack)
      OBVIOUS
    <2>1. CASE i \in 1..n
      <3> DEFINE Q == C + rate * (now - A[i] + slack)
      <3>1. n - i + 1 \in Int /\ (n + 1) - i + 1 = (n - i + 1) + 1 /\ A1[i] = A[i]
        BY <1>1, <1>2, <2>1
      <3>2. full + (n - i + 1) * unit <= Q
        BY <1>4, <2>1
      <3> HIDE DEF Q
      <3>3. (full - unit) + ((n - i + 1) + 1) * unit <= Q
        BY <3>1, <3>2, TokenTaken
      <3>4. QED BY <3>1, <3>3 DEF Q
    <2>2. CASE i = n + 1
      <3> DEFINE y == now - t + slack
      <3>1. y \in Nat
        OBVIOUS
      <3> HIDE DEF y
      <3>2. rate * y \in Nat
        BY <3>1, Products
      <3>3. (n + 1) - i + 1 = 1 /\ 1 * unit = unit /\ A1[i] = t
        BY <1>1, <1>2, <2>2
      <3>4. (full - unit) + unit = full /\ full <= C + rate * y
        BY <3>2
      <3>5. QED BY <3>3, <3>4 DEF y
    <2>3. QED BY <1>1, <2>1, <2>2
  <1>6. \A i, j \in 1..(n + 1) : i <= j =>
           (j - i + 1) * unit <= C + rate * (A1[j] - A1[i] + slack)
    <2> SUFFICES ASSUME NEW i \in 1..(n + 1), NEW j \in 1..(n + 1), i <= j
                 PROVE  (j - i + 1) * unit <= C + rate * (A1[j] - A1[i] + slack)
      OBVIOUS
    <2>1. CASE j \in 1..n
      <3>1. i \in 1..n
        BY <1>1, <2>1
      <3>2. QED BY <1>2, <1>4, <2>1, <3>1
    <2>2. CASE j = n + 1
      <3> DEFINE y == now - A1[i] + slack
                 z == A1[j] - A1[i] + slack
                 P == (j - i + 1) * unit
                 Q == C + rate * y
      <3>1. A1[i] \in Nat /\ A1[j] = t
        <4>1. i \in 1..n \/ i = n + 1
          BY <1>1
        <4>2. QED BY <1>1, <1>2, <2>2, <4>1
      <3>2. y \in Int /\ z \in Int /\ y <= z
        <4>1. \A a \in Nat : /\ now - a + slack \in Int /\ t - a + slack \in Int
                             /\ now - a + slack <= t - a + slack
          OBVIOUS
        <4>2. QED BY <3>1, <4>1
      <3>3. (full - unit) + P <= Q
        BY <1>5, <2>2
      <3>4. j - i + 1 \in Int /\ P \in Int
        BY <1>1, Products
      <3>5. Q \in Int
        BY <3>2, Products
      <3> HIDE DEF y, z, P, Q
      <3>6. P <= Q
        BY <3>3, <3>4, <3>5
      <3>7. P <= C + rate * z
        BY <3>2, <3>4, <3>6, LongerSpan DEF Q
      <3>8. QED BY <3>7 DEF P, z
    <2>3. QED BY <1>1, <2>1, <2>2
  <1>7. Paid(A1, C, rate, unit, slack)
    BY <1>2, <1>6 DEF Paid
  <1>8. QED BY <1>2, <1>3, <1>5, <1>7 DEF TokenInv, A1

-----------------------------------------------------------------------------
\* The policies on a state.

LimitState ==
    [ tokens: Nat, last_refill: Nat \union {Unset},
      fixed_window_start: Nat \union {Unset}, fixed_window_count: Nat,
      sliding_hits: Seq(Nat), accepted_total: Nat ]

\* Nothing in a state is later than t.
Timely(s, t) ==
    /\ s.last_refill <= t /\ s.fixed_window_start <= t
    /\ \A i \in DOMAIN s.sliding_hits : s.sliding_hits[i] <= t

\* What s1 keeps of s when a token bucket that holds full decides.
BucketDecides(s, s1, ok, now, C, rate, unit, full) ==
    /\ full \in Nat /\ full <= C
    /\ Refilled(full, s.tokens, s.last_refill, now, rate)
    /\ full < C => /\ s.last_refill # Unset
                   /\ full = s.tokens + DurationSince(now, s.last_refill) * rate
    /\ ok <=> full >= unit
    /\ s1.tokens = IF ok THEN full - unit ELSE full
    /\ s1.last_refill = now
    /\ s1.fixed_window_start = s.fixed_window_start
    /\ s1.fixed_window_count = s.fixed_window_count
    /\ s1.sliding_hits = s.sliding_hits
    /\ s1.accepted_total = s.accepted_total
    /\ s1 \in LimitState

\* The fields of a state.
LEMMA StateFields ==
    ASSUME NEW s \in LimitState
    PROVE  /\ s.tokens \in Nat /\ s.last_refill \in Nat \union {Unset}
           /\ s.fixed_window_start \in Nat \union {Unset}
           /\ s.fixed_window_count \in Nat /\ s.sliding_hits \in Seq(Nat)
           /\ s.accepted_total \in Nat
  BY DEF LimitState

\* A duration is never negative.
LEMMA DurationType ==
    ASSUME NEW x \in Nat \union {Unset}, NEW y \in Nat \union {Unset}
    PROVE  DurationSince(x, y) \in Nat
  BY DEF DurationSince, Unset

\* token_bucket and the legacy bucket.
LEMMA TokenBucketDecides ==
    ASSUME NEW s \in LimitState, NEW now \in Nat, NEW capacity \in Nat, NEW rate \in Nat,
           NEW unit \in Nat \ {0}
    PROVE  LET v == TokenBucket(s, now, capacity, rate, unit)
           IN  \E full : BucketDecides(s, v.state, v.ok, now, capacity * unit, rate, unit, full)
  <1> DEFINE C == capacity * unit
             last == s.last_refill
             held  == IF last = Unset THEN C ELSE s.tokens
             since == IF last = Unset THEN now ELSE last
             R == DurationSince(now, since) * rate
             more  == held + R
             full  == IF more > C THEN C ELSE more
             left == IF full >= unit THEN full - unit ELSE full
             s1 == [s EXCEPT !.tokens = left, !.last_refill = now]
  <1>1. TokenBucket(s, now, capacity, rate, unit) = [ok |-> full >= unit, state |-> s1]
    BY DEF TokenBucket, Verdict
  <1>2. s.tokens \in Nat /\ last \in Nat \union {Unset}
    BY StateFields
  <1>3. C \in Nat
    BY Products
  <1>4. since \in Nat /\ DurationSince(now, since) \in Nat
    BY <1>2 DEF DurationSince
  <1>5. R \in Nat
    BY <1>4, Products
  <1>6. last # Unset => R = DurationSince(now, last) * rate
    OBVIOUS
  <1> HIDE DEF C, R
  <1>7. held \in Nat /\ (last # Unset => held = s.tokens) /\ (last = Unset => held = C)
    BY <1>2, <1>3
  <1> HIDE DEF held
  <1>8. full \in Nat /\ full <= C /\ full <= held + R /\ (full < C => full = held + R)
    BY <1>3, <1>5, <1>7
  <1>9. full < C => last # Unset
    BY <1>3, <1>5, <1>7, <1>8
  <1> HIDE DEF full
  <1>10. Refilled(full, s.tokens, last, now, rate)
    BY <1>6, <1>7, <1>8 DEF Refilled
  <1>11. full < C => last # Unset /\ full = s.tokens + DurationSince(now, last) * rate
    BY <1>6, <1>7, <1>8, <1>9
  <1>12. left \in Nat
    BY <1>8
  <1> HIDE DEF left
  <1>13. s1 \in LimitState
    BY <1>12 DEF LimitState
  <1>14. /\ s1.tokens = left /\ s1.last_refill = now
         /\ s1.fixed_window_start = s.fixed_window_start
         /\ s1.fixed_window_count = s.fixed_window_count
         /\ s1.sliding_hits = s.sliding_hits
         /\ s1.accepted_total = s.accepted_total
    BY DEF LimitState
  <1> HIDE DEF s1
  <1>15. BucketDecides(s, s1, full >= unit, now, C, rate, unit, full)
    BY <1>8, <1>10, <1>11, <1>13, <1>14 DEF BucketDecides, left
  <1>16. QED BY <1>1, <1>15 DEF C

\* fixed_window, with count requests in the window it finds itself in.
WindowDecides(s, s1, ok, now, rule, count) ==
    /\ count \in Nat
    /\ FixedCases(s.fixed_window_start, s.fixed_window_count, WindowOf(rule),
                  now, s1.fixed_window_start, count)
    /\ ok <=> count < rule.limit
    /\ s1.fixed_window_count = IF ok THEN count + 1 ELSE count
    /\ s1.last_refill = s.last_refill
    /\ s1.sliding_hits = s.sliding_hits
    /\ s1.accepted_total = s.accepted_total
    /\ s1 \in LimitState

\* fixed_window_policy
LEMMA FixedWindowDecides ==
    ASSUME NEW s \in LimitState, NEW now \in Nat, NEW rule \in Rule
    PROVE  LET v == FixedWindowPolicy(s, now, rule)
           IN  \E count : WindowDecides(s, v.state, v.ok, now, rule, count)
  <1> DEFINE S == s.fixed_window_start
             W == WindowOf(rule)
             start   == IF S = Unset THEN now ELSE S
             count   == IF DurationSince(now, start) >= W THEN 0 ELSE s.fixed_window_count
             begin == IF DurationSince(now, start) >= W THEN now ELSE start
             used == IF count < rule.limit THEN count + 1 ELSE count
             s1 == [s EXCEPT !.fixed_window_start = begin, !.fixed_window_count = used]
  <1>1. FixedWindowPolicy(s, now, rule) = [ok |-> count < rule.limit, state |-> s1]
    BY DEF FixedWindowPolicy, Verdict
  <1>2. /\ S \in Nat \union {Unset} /\ s.fixed_window_count \in Nat
        /\ W \in Nat \ {0} /\ rule.limit \in Nat
    BY StateFields DEF WindowOf, AtLeastOne, Rule
  <1> HIDE DEF W
  <1>3. FixedCases(S, s.fixed_window_count, W, now, begin, count)
    <2>1. CASE S = Unset
      BY <1>2, <2>1 DEF FixedCases, DurationSince
    <2>2. CASE S # Unset
      <3>1. S \in Nat
        BY <1>2, <2>2
      <3>2. QED BY <1>2, <2>2, <3>1 DEF FixedCases, DurationSince
    <2>3. QED BY <2>1, <2>2
  <1>4. count \in Nat /\ begin \in Nat /\ used \in Nat
    BY <1>2 DEF DurationSince
  <1> HIDE DEF count, begin
  <1>5. used = IF count < rule.limit THEN count + 1 ELSE count
    OBVIOUS
  <1> HIDE DEF used
  <1>6. s1 \in LimitState
    BY <1>4 DEF LimitState
  <1>7. /\ s1.fixed_window_start = begin /\ s1.fixed_window_count = used
        /\ s1.last_refill = s.last_refill
        /\ s1.sliding_hits = s.sliding_hits
        /\ s1.accepted_total = s.accepted_total
    BY DEF LimitState
  <1> HIDE DEF s1
  <1> DEFINE v == FixedWindowPolicy(s, now, rule)
  <1>8. (v.ok <=> count < rule.limit) /\ v.state = s1
    <2>1. v.ok = (count < rule.limit)
      BY <1>1
    <2>2. v.state = s1
      BY <1>1
    <2>3. QED BY <2>1, <2>2, Zenon
  <1>9. v.state.fixed_window_count = IF v.ok THEN count + 1 ELSE count
    BY <1>5, <1>7, <1>8, Zenon
  <1> HIDE DEF v
  <1>10. /\ FixedCases(S, s.fixed_window_count, W, now, v.state.fixed_window_start, count)
         /\ v.state.last_refill = s.last_refill
         /\ v.state.sliding_hits = s.sliding_hits
         /\ v.state.accepted_total = s.accepted_total
         /\ v.state \in LimitState
    BY <1>3, <1>4, <1>6, <1>7, <1>8
  <1>11. WindowDecides(s, v.state, v.ok, now, rule, count)
    BY <1>4, <1>8, <1>9, <1>10, Zenon DEF W, WindowDecides
  <1>12. QED BY <1>11, Zenon DEF v

\* sliding_window, with the hits it has left after popping.
HitsDecide(s, s1, ok, now, rule, hits) ==
    /\ ok <=> Len(hits) < rule.limit
    /\ s1.sliding_hits = IF ok THEN Append(hits, now) ELSE hits
    /\ s1.last_refill = s.last_refill
    /\ s1.fixed_window_start = s.fixed_window_start
    /\ s1.accepted_total = s.accepted_total
    /\ s1 \in LimitState

\* sliding_window_policy
LEMMA SlidingWindowDecides ==
    ASSUME NEW s \in LimitState, NEW now \in Nat, NEW rule \in Rule
    PROVE  LET v == SlidingWindowPolicy(s, now, rule)
           IN  HitsDecide(s, v.state, v.ok, now, rule,
                          PopExpired(s.sliding_hits, now, WindowOf(rule)))
  <1> DEFINE hits == PopExpired(s.sliding_hits, now, WindowOf(rule))
             kept == IF Len(hits) < rule.limit THEN Append(hits, now) ELSE hits
             s1 == [s EXCEPT !.sliding_hits = kept]
  <1>1. SlidingWindowPolicy(s, now, rule) = [ok |-> Len(hits) < rule.limit, state |-> s1]
    BY DEF SlidingWindowPolicy, Verdict
  <1>2. s.sliding_hits \in Seq(Nat) /\ WindowOf(rule) \in Nat \ {0}
    BY StateFields DEF WindowOf, AtLeastOne, Rule
  <1>3. hits \in Seq(Nat)
    <2>1. PICK p : PoppedTo(s.sliding_hits, hits, now, WindowOf(rule), p)
      BY <1>2, Popped
    <2>2. QED BY <2>1 DEF PoppedTo
  <1> HIDE DEF hits
  <1>4. kept \in Seq(Nat)
    BY <1>3
  <1> HIDE DEF kept
  <1>5. s1 \in LimitState
    BY <1>4 DEF LimitState
  <1>6. /\ s1.sliding_hits = kept
        /\ s1.last_refill = s.last_refill
        /\ s1.fixed_window_start = s.fixed_window_start
        /\ s1.accepted_total = s.accepted_total
    BY DEF LimitState
  <1> HIDE DEF s1
  <1> DEFINE v == SlidingWindowPolicy(s, now, rule)
  <1>7. (v.ok <=> Len(hits) < rule.limit) /\ v.state = s1
    <2>1. v.ok = (Len(hits) < rule.limit)
      BY <1>1
    <2>2. v.state = s1
      BY <1>1
    <2>3. QED BY <2>1, <2>2, Zenon
  <1>8. v.state.sliding_hits = IF v.ok THEN Append(hits, now) ELSE hits
    BY <1>6, <1>7, Zenon DEF kept
  <1> HIDE DEF v
  <1>9. HitsDecide(s, v.state, v.ok, now, rule, hits)
    BY <1>5, <1>6, <1>7, <1>8, Zenon DEF HitsDecide
  <1>10. QED BY <1>9, Zenon DEF v, hits

-----------------------------------------------------------------------------
\* A rule on a state.

\* What a scoped rule keeps of the requests A of one key, with its state s.
Kept(policy, rule, s, A, g, t) ==
    /\ policy = "token_bucket" =>
         /\ TokenInv(s.tokens, s.last_refill, A, rule.limit * WindowOf(rule), rule.limit,
                     WindowOf(rule), MaxDelay + g)
         /\ s.last_refill # Unset => Len(A) # 0 /\ s.last_refill <= A[Len(A)]
    /\ policy = "fixed_window" =>
         FixedInv(s.fixed_window_start, s.fixed_window_count, A, rule.limit,
                  WindowOf(rule), t)
    /\ policy = "sliding_window" =>
         SlidingInv(s.sliding_hits, A, rule.limit, WindowOf(rule), t)

\* Likewise the bucket without scoped rules.  It stores its refill also when it
\* refuses; an empty bucket has been emptied by the last request admitted.
LegacyKept(capacity, rate, s, A, g) ==
    /\ TokenInv(s.tokens, s.last_refill, A, capacity * 1, rate, 1, MaxDelay + g)
    /\ capacity # 0 /\ rate # 0 /\ s.tokens = 0 /\ s.last_refill # Unset =>
         Len(A) # 0 /\ s.last_refill <= A[Len(A)]

\* The windows and limits of a rule.
LEMMA RuleFields ==
    ASSUME NEW rule \in Rule
    PROVE  /\ WindowOf(rule) \in Nat \ {0} /\ rule.limit \in Nat
           /\ rule.scope \in Scopes /\ rule.quota \in Nat \union {Unset}
           /\ rule.limit * WindowOf(rule) \in Nat
  <1>1. WindowOf(rule) \in Nat \ {0} /\ rule.limit \in Nat
    BY DEF Rule, WindowOf, AtLeastOne
  <1>2. rule.scope \in Scopes /\ rule.quota \in Nat \union {Unset}
    BY DEF Rule
  <1>3. QED BY <1>1, <1>2, Products

\* The verdict of a rule, and the state it would store, by policy.
LEMMA ApplyPolicyCases ==
    ASSUME NEW s, NEW now, NEW rule
    PROVE  /\ PolicyOf(rule) = "token_bucket" =>
                ApplyPolicy(s, now, rule)
                  = TokenBucket(s, now, rule.limit, rule.limit, WindowOf(rule))
           /\ PolicyOf(rule) = "fixed_window" =>
                ApplyPolicy(s, now, rule) = FixedWindowPolicy(s, now, rule)
           /\ PolicyOf(rule) = "sliding_window" =>
                ApplyPolicy(s, now, rule) = SlidingWindowPolicy(s, now, rule)
  BY DEF ApplyPolicy

\* Whatever the policy, the state is a state, and the total is left alone.
LEMMA PolicyTyped ==
    ASSUME NEW s \in LimitState, NEW now \in Nat, NEW t \in Nat, now <= t, Timely(s, t),
           NEW rule \in Rule, PolicyOf(rule) \in Policies
    PROVE  LET s1 == ApplyPolicy(s, now, rule).state
           IN  /\ s1 \in LimitState /\ s1.accepted_total = s.accepted_total
               /\ Timely(s1, t)
  <1> DEFINE v == ApplyPolicy(s, now, rule)
             W == WindowOf(rule)
  <1>1. W \in Nat \ {0} /\ rule.limit \in Nat
    BY RuleFields
  <1>2. /\ s.last_refill <= t /\ s.fixed_window_start <= t
        /\ \A i \in DOMAIN s.sliding_hits : s.sliding_hits[i] <= t
    BY DEF Timely
  <1>3. CASE PolicyOf(rule) = "token_bucket"
    <2>1. v = TokenBucket(s, now, rule.limit, rule.limit, W)
      BY <1>3, ApplyPolicyCases
    <2>2. PICK full : BucketDecides(s, v.state, v.ok, now, rule.limit * W, rule.limit, W, full)
      BY <1>1, <2>1, TokenBucketDecides
    <2> HIDE DEF v
    <2>3. /\ v.state \in LimitState /\ v.state.accepted_total = s.accepted_total
          /\ v.state.last_refill = now
          /\ v.state.fixed_window_start = s.fixed_window_start
          /\ v.state.sliding_hits = s.sliding_hits
      BY <2>2 DEF BucketDecides
    <2>4. Timely(v.state, t)
      BY <1>2, <2>3 DEF Timely
    <2>5. QED BY <2>3, <2>4 DEF v
  <1>4. CASE PolicyOf(rule) = "fixed_window"
    <2>1. v = FixedWindowPolicy(s, now, rule)
      BY <1>4, ApplyPolicyCases
    <2>2. PICK count : WindowDecides(s, v.state, v.ok, now, rule, count)
      BY <2>1, FixedWindowDecides
    <2> HIDE DEF v
    <2>3. /\ \/ v.state.fixed_window_start = now
             \/ v.state.fixed_window_start = s.fixed_window_start
          /\ v.state.last_refill = s.last_refill
          /\ v.state.sliding_hits = s.sliding_hits
          /\ v.state.accepted_total = s.accepted_total
          /\ v.state \in LimitState
      BY <2>2 DEF WindowDecides, FixedCases
    <2>4. Timely(v.state, t)
      BY <1>2, <2>3 DEF Timely
    <2>5. QED BY <2>3, <2>4 DEF v
  <1>5. CASE PolicyOf(rule) = "sliding_window"
    <2> DEFINE H == s.sliding_hits
               hits == PopExpired(H, now, W)
               H1 == v.state.sliding_hits
    <2>1. v = SlidingWindowPolicy(s, now, rule)
      BY <1>5, ApplyPolicyCases
    <2>2. HitsDecide(s, v.state, v.ok, now, rule, hits)
      BY <2>1, SlidingWindowDecides
    <2>3. H \in Seq(Nat)
      BY StateFields
    <2>4. PICK p : PoppedTo(H, hits, now, W, p)
      BY <1>1, <2>3, Popped
    <2> HIDE DEF hits, H, v
    <2>5. /\ p \in 0..Len(H) /\ Len(hits) = Len(H) - p /\ hits \in Seq(Nat)
          /\ \A j \in 1..Len(hits) : hits[j] = H[p + j]
      BY <2>4 DEF PoppedTo
    <2>6. \A j \in 1..Len(hits) : p + j \in 1..Len(H)
      BY <2>3, <2>5
    <2>7. \A j \in 1..Len(hits) : hits[j] <= t
      <3>1. \A i \in 1..Len(H) : H[i] <= t
        BY <1>2, <2>3 DEF H
      <3>2. QED BY ONLY <2>5, <2>6, <3>1
    <2>8. \A j \in DOMAIN H1 : H1[j] <= t
      <3>1. CASE H1 = hits
        BY <2>5, <2>7, <3>1
      <3>2. CASE H1 = Append(hits, now)
        BY <2>5, <2>7, <3>2
      <3>3. QED BY <2>2, <3>1, <3>2 DEF HitsDecide
    <2>9. /\ v.state.last_refill = s.last_refill
          /\ v.state.fixed_window_start = s.fixed_window_start
          /\ v.state.accepted_total = s.accepted_total
          /\ v.state \in LimitState
      BY <2>2 DEF HitsDecide
    <2>10. Timely(v.state, t)
      BY <1>2, <2>8, <2>9 DEF Timely
    <2>11. QED BY <2>9, <2>10 DEF v
  <1>6. QED BY <1>3, <1>4, <1>5 DEF Policies

\* A state with one more request in its total: no policy looks at that.
LEMMA TotalAdvanced ==
    ASSUME NEW s \in LimitState
    PROVE  LET s1 == [s EXCEPT !.accepted_total = @ + 1]
           IN  /\ s1 \in LimitState /\ s1.accepted_total = s.accepted_total + 1
               /\ s1.tokens = s.tokens /\ s1.last_refill = s.last_refill
               /\ s1.fixed_window_start = s.fixed_window_start
               /\ s1.fixed_window_count = s.fixed_window_count
               /\ s1.sliding_hits = s.sliding_hits
  <1> DEFINE n == s.accepted_total + 1
             s1 == [s EXCEPT !.accepted_total = n]
  <1>1. n \in Nat
    BY StateFields
  <1> HIDE DEF n
  <1>2. s1 \in LimitState
    BY <1>1 DEF LimitState
  <1>3. /\ s1.accepted_total = n
        /\ s1.tokens = s.tokens /\ s1.last_refill = s.last_refill
        /\ s1.fixed_window_start = s.fixed_window_start
        /\ s1.fixed_window_count = s.fixed_window_count
        /\ s1.sliding_hits = s.sliding_hits
    BY DEF LimitState
  <1> HIDE DEF s1
  <1>4. QED BY <1>2, <1>3 DEF n, s1

\* What a rule keeps, it keeps when it admits a request.
LEMMA RuleAdmits ==
    ASSUME NEW s \in LimitState, NEW A \in Seq(Nat), NEW g \in Nat, NEW rule \in Rule,
           NEW now \in Nat, NEW t \in Nat, MaxDelay \in Nat, now <= t, t <= now + MaxDelay,
           InOrder(A, t), PolicyOf(rule) \in Policies,
           Kept(PolicyOf(rule), rule, s, A, g, t), ApplyPolicy(s, now, rule).ok,
           NEW s1, s1.tokens = ApplyPolicy(s, now, rule).state.tokens,
           s1.last_refill = ApplyPolicy(s, now, rule).state.last_refill,
           s1.fixed_window_start = ApplyPolicy(s, now, rule).state.fixed_window_start,
           s1.fixed_window_count = ApplyPolicy(s, now, rule).state.fixed_window_count,
           s1.sliding_hits = ApplyPolicy(s, now, rule).state.sliding_hits
    PROVE  Kept(PolicyOf(rule), rule, s1, Append(A, t),
                g + DurationSince(s.last_refill, s1.last_refill), t)
  <1> DEFINE v == ApplyPolicy(s, now, rule)
             W == WindowOf(rule)
             L == rule.limit
             A1 == Append(A, t)
  <1>1. W \in Nat \ {0} /\ L \in Nat /\ L * W \in Nat
    BY RuleFields
  <1>2. A1 \in Seq(Nat) /\ Len(A1) # 0 /\ A1[Len(A1)] = t
    OBVIOUS
  <1> HIDE DEF A1
  <1>3. CASE PolicyOf(rule) = "token_bucket"
    <2> DEFINE last == s.last_refill
               slack == MaxDelay + g
               slack1 == MaxDelay + (g + DurationSince(last, now))
    <2>1. v = TokenBucket(s, now, L, L, W)
      BY <1>3, ApplyPolicyCases
    <2>2. PICK full : BucketDecides(s, v.state, v.ok, now, L * W, L, W, full)
      BY <1>1, <2>1, TokenBucketDecides
    <2> HIDE DEF v, W, L
    <2>3. /\ full \in Nat /\ full <= L * W /\ Refilled(full, s.tokens, last, now, L)
          /\ v.ok <=> full >= W
          /\ v.state.tokens = IF v.ok THEN full - W ELSE full
          /\ v.state.last_refill = now
      BY <2>2 DEF BucketDecides
    <2>4. v.ok
      BY DEF v
    <2>5. s1.tokens = full - W /\ s1.last_refill = now /\ full >= W
      BY <2>3, <2>4 DEF v
    <2>6. TokenInv(s.tokens, last, A, L * W, L, W, slack)
      BY <1>3 DEF Kept, L, W
    <2>7. s.tokens \in Nat /\ last \in Nat \union {Unset}
      BY StateFields
    <2>8. DurationSince(last, now) \in Nat
      BY <2>7, DurationType
    <2>9. slack \in Nat /\ slack1 \in Nat /\ slack1 >= MaxDelay
          /\ slack1 = slack + DurationSince(last, now)
      BY <2>8
    <2> DEFINE C == L * W
    <2> HIDE DEF C, slack, slack1, last
    <2>10. TokenInv(full, now, A, C, L, W, slack1)
      BY <1>1, <2>3, <2>6, <2>7, <2>9, TokenRefill DEF C
    <2>11. TokenInv(full - W, now, A1, C, L, W, slack1)
      BY <1>1, <2>3, <2>5, <2>9, <2>10, TokenTake DEF C, A1
    <2>12. s1.last_refill <= A1[Len(A1)]
      BY <1>2, <2>5
    <2>13. Kept("token_bucket", rule, s1, A1, g + DurationSince(last, s1.last_refill), t)
      BY <1>2, <2>5, <2>11, <2>12 DEF Kept, C, W, L, slack1
    <2>14. QED BY <1>3, <2>13 DEF last, A1
  <1>4. CASE PolicyOf(rule) = "fixed_window"
    <2> DEFINE S == s.fixed_window_start
               c == s.fixed_window_count
               g1 == g + DurationSince(s.last_refill, s1.last_refill)
    <2>1. v = FixedWindowPolicy(s, now, rule)
      BY <1>4, ApplyPolicyCases
    <2>2. PICK count : WindowDecides(s, v.state, v.ok, now, rule, count)
      BY <2>1, FixedWindowDecides
    <2> HIDE DEF v, g1
    <2>3. v.ok
      BY DEF v
    <2>4. /\ FixedCases(S, c, W, now, s1.fixed_window_start, count)
          /\ count < L /\ s1.fixed_window_count = count + 1
      BY <2>2, <2>3 DEF WindowDecides, v
    <2>5. FixedInv(S, c, A, L, W, t)
      BY <1>4 DEF Kept
    <2>6. S \in Nat \union {Unset} /\ c \in Nat
      BY StateFields
    <2> HIDE DEF S, c, W, L
    <2>7. FixedInv(s1.fixed_window_start, count + 1, A1, L, W, t)
      BY <1>1, <2>4, <2>5, <2>6, FixedAdmits DEF A1
    <2>8. Kept("fixed_window", rule, s1, A1, g1, t)
      BY <2>4, <2>7 DEF Kept, W, L
    <2>9. QED BY <1>4, <2>8 DEF A1, g1
  <1>5. CASE PolicyOf(rule) = "sliding_window"
    <2> DEFINE H == s.sliding_hits
               g1 == g + DurationSince(s.last_refill, s1.last_refill)
    <2>1. v = SlidingWindowPolicy(s, now, rule)
      BY <1>5, ApplyPolicyCases
    <2>2. HitsDecide(s, v.state, v.ok, now, rule, PopExpired(H, now, W))
      BY <2>1, SlidingWindowDecides
    <2> HIDE DEF v, g1
    <2>3. v.ok
      BY DEF v
    <2>4. /\ Len(PopExpired(H, now, W)) < L
          /\ s1.sliding_hits = Append(PopExpired(H, now, W), now)
      BY <2>2, <2>3 DEF HitsDecide, v
    <2>5. SlidingInv(H, A, L, W, t)
      BY <1>5 DEF Kept
    <2>6. H \in Seq(Nat)
      BY StateFields
    <2> HIDE DEF H, W, L
    <2>7. SlidingInv(s1.sliding_hits, A1, L, W, t)
      BY <1>1, <2>4, <2>5, <2>6, SlidingAdmits DEF A1
    <2>8. Kept("sliding_window", rule, s1, A1, g1, t)
      BY <2>7 DEF Kept, W, L
    <2>9. QED BY <1>5, <2>8 DEF A1, g1
  <1>6. QED BY <1>3, <1>4, <1>5 DEF Policies

\* A rule that refuses a request has been used up by the requests before it.
LEMMA RuleRefuses ==
    ASSUME NEW s \in LimitState, NEW A \in Seq(Nat), NEW g \in Nat, NEW rule \in Rule,
           NEW now \in Nat, NEW t \in Nat, MaxDelay \in Nat, InOrder(A, t),
           PolicyOf(rule) \in Policies,
           Kept(PolicyOf(rule), rule, s, A, g, t), ~ApplyPolicy(s, now, rule).ok,
           rule.limit # 0
    PROVE  LET recent == {i \in DOMAIN A : A[i] > now - WindowOf(rule)}
           IN  IF PolicyOf(rule) = "token_bucket" THEN recent # {}
               ELSE Cardinality(recent) >= rule.limit
  <1> DEFINE v == ApplyPolicy(s, now, rule)
             W == WindowOf(rule)
             L == rule.limit
             recent == {i \in DOMAIN A : A[i] > now - W}
  <1>1. W \in Nat \ {0} /\ L \in Nat /\ L * W \in Nat
    BY RuleFields
  <1>2. CASE PolicyOf(rule) = "token_bucket"
    <2> DEFINE last == s.last_refill
               d == DurationSince(now, last)
    <2>1. v = TokenBucket(s, now, L, L, W)
      BY <1>2, ApplyPolicyCases
    <2>2. PICK full : BucketDecides(s, v.state, v.ok, now, L * W, L, W, full)
      BY <1>1, <2>1, TokenBucketDecides
    <2> HIDE DEF v, L
    <2>3. ~v.ok /\ L # 0
      BY DEF v, L
    <2>4. /\ full \in Nat /\ ~(full >= W)
          /\ full < L * W => last # Unset /\ full = s.tokens + d * L
      BY <2>2, <2>3 DEF BucketDecides
    <2>5. W <= L * W
      BY <1>1, <2>3, Products
    <2>6. last # Unset /\ full = s.tokens + d * L
      BY <1>1, <2>4, <2>5
    <2>7. s.tokens \in Nat /\ last \in Nat
      BY <2>6, StateFields
    <2>8. d \in Nat
      BY <2>7, DurationType
    <2>9. last > now - W
      <3>1. d <= d * L /\ d * L \in Nat
        <4>1. \A a \in Nat, b \in Nat \ {0} : a <= a * b /\ a * b \in Nat
          OBVIOUS
        <4>2. QED BY <1>1, <2>3, <2>8, <4>1
      <3>2. d < W
        <4> HIDE DEF d
        <4>1. QED BY <1>1, <2>4, <2>6, <2>7, <2>8, <3>1
      <3>3. QED BY <1>1, <2>7, <3>2 DEF DurationSince
    <2>10. Len(A) # 0 /\ last <= A[Len(A)]
      BY <1>2, <2>6 DEF Kept
    <2>11. Len(A) \in DOMAIN A /\ A[Len(A)] \in Nat
      BY <2>10
    <2>12. A[Len(A)] > now - W
      BY <1>1, <2>7, <2>9, <2>10, <2>11
    <2>13. recent # {}
      BY <2>11, <2>12
    <2>14. QED BY <1>2, <2>13
  <1>3. CASE PolicyOf(rule) = "fixed_window"
    <2> DEFINE S == s.fixed_window_start
               c == s.fixed_window_count
    <2>1. v = FixedWindowPolicy(s, now, rule)
      BY <1>3, ApplyPolicyCases
    <2>2. PICK count : WindowDecides(s, v.state, v.ok, now, rule, count)
      BY <2>1, FixedWindowDecides
    <2> HIDE DEF v
    <2>3. ~v.ok
      BY DEF v
    <2>4. FixedCases(S, c, W, now, v.state.fixed_window_start, count) /\ ~(count < L)
      BY <2>2, <2>3 DEF WindowDecides
    <2>5. FixedInv(S, c, A, L, W, t)
      BY <1>3 DEF Kept
    <2>6. S \in Nat \union {Unset} /\ c \in Nat
      BY StateFields
    <2> DEFINE S1 == v.state.fixed_window_start
    <2>7. L # 0 /\ FixedCases(S, c, W, now, S1, count)
      BY <2>4
    <2> HIDE DEF S, c, W, L, S1
    <2>8. Cardinality(recent) >= L
      <3>1. L <= Len(A) /\ \A i \in (Len(A) - L + 1)..Len(A) : A[i] > now - W
        BY <1>1, <2>4, <2>5, <2>6, <2>7, FixedRefuses
      <3>2. now - W \in Int
        BY <1>1
      <3>3. QED BY <1>1, <3>1, <3>2, RecentCount
    <2>9. QED BY <1>3, <2>8 DEF W, L
  <1>4. CASE PolicyOf(rule) = "sliding_window"
    <2> DEFINE H == s.sliding_hits
    <2>1. v = SlidingWindowPolicy(s, now, rule)
      BY <1>4, ApplyPolicyCases
    <2>2. HitsDecide(s, v.state, v.ok, now, rule, PopExpired(H, now, W))
      BY <2>1, SlidingWindowDecides
    <2> HIDE DEF v
    <2>3. ~v.ok
      BY DEF v
    <2>4. ~(Len(PopExpired(H, now, W)) < L)
      BY <2>2, <2>3 DEF HitsDecide
    <2>5. SlidingInv(H, A, L, W, t)
      BY <1>4 DEF Kept
    <2>6. H \in Seq(Nat)
      BY StateFields
    <2> HIDE DEF H, W
    <2>7. Cardinality(recent) >= L
      BY <1>1, <2>4, <2>5, <2>6, SlidingRefuses
    <2>8. QED BY <1>4, <2>7 DEF W
  <1>5. QED BY <1>2, <1>3, <1>4 DEF Policies

\* The bucket without scoped rules keeps what it keeps, whether it admits or
\* refuses; when it refuses, it has been filled before, and emptied lately.
LEMMA LegacyStep ==
    ASSUME NEW s \in LimitState, NEW A \in Seq(Nat), NEW g \in Nat,
           NEW capacity \in Nat, NEW rate \in Nat,
           NEW now \in Nat, NEW t \in Nat, MaxDelay \in Nat, now <= t, t <= now + MaxDelay,
           LegacyKept(capacity, rate, s, A, g)
    PROVE  LET v  == TokenBucket(s, now, capacity, rate, 1)
               g1 == g + DurationSince(s.last_refill, v.state.last_refill)
           IN  /\ v.ok => LegacyKept(capacity, rate, v.state, Append(A, t), g1)
               /\ ~v.ok => LegacyKept(capacity, rate, v.state, A, g1)
               /\ ~v.ok /\ capacity # 0 /\ rate # 0 =>
                     {i \in DOMAIN A : A[i] > now - 1} # {}
  <1> DEFINE u == 1
  <1>0. u \in Nat \ {0} /\ u = 1
    OBVIOUS
  <1> HIDE DEF u
  <1> DEFINE v == TokenBucket(s, now, capacity, rate, u)
             A1 == Append(A, t)
             last == s.last_refill
             d == DurationSince(now, last)
             C == capacity * u
             slack == MaxDelay + g
             slack1 == MaxDelay + (g + DurationSince(last, now))
             g1 == g + DurationSince(last, v.state.last_refill)
             recent == {i \in DOMAIN A : A[i] > now - 1}
  <1>1. PICK full : BucketDecides(s, v.state, v.ok, now, C, rate, u, full)
    BY <1>0, TokenBucketDecides
  <1>2. C = capacity
    BY <1>0
  <1> HIDE DEF v, C
  <1>3. /\ full \in Nat /\ full <= C /\ Refilled(full, s.tokens, last, now, rate)
        /\ full < C => last # Unset /\ full = s.tokens + d * rate
        /\ v.ok <=> full >= 1
        /\ v.state.tokens = IF v.ok THEN full - 1 ELSE full
        /\ v.state.last_refill = now
    BY <1>0, <1>1 DEF BucketDecides
  <1>4. TokenInv(s.tokens, last, A, C, rate, u, slack)
    BY DEF LegacyKept, C, u
  <1>5. s.tokens \in Nat /\ last \in Nat \union {Unset}
    BY StateFields
  <1>6. DurationSince(last, now) \in Nat /\ now # Unset
    <2>1. now \in Nat \union {Unset} /\ now # Unset
      BY DEF Unset
    <2>2. QED BY <1>5, <2>1, DurationType
  <1>7. /\ slack \in Nat /\ slack1 \in Nat /\ slack1 >= MaxDelay
        /\ slack1 = slack + DurationSince(last, now)
        /\ MaxDelay + g1 = slack1
    BY <1>3, <1>6
  <1>8. A1 \in Seq(Nat) /\ Len(A1) # 0 /\ A1[Len(A1)] = t
    OBVIOUS
  <1> HIDE DEF A1, slack, slack1, g1
  <1>9. TokenInv(full, now, A, C, rate, u, slack1)
    <2> HIDE DEF last
    <2>1. /\ C \in Nat /\ full \in Nat /\ Refilled(full, s.tokens, last, now, rate)
          /\ s.tokens \in Nat /\ last \in Nat \union {Unset} /\ slack \in Nat
      BY <1>2, <1>3, <1>5, <1>7
    <2> DEFINE x == s.tokens
    <2>2. x \in Nat /\ TokenInv(x, last, A, C, rate, u, slack)
             /\ Refilled(full, x, last, now, rate)
      BY <1>4, <2>1
    <2> HIDE DEF x
    <2>3. TokenInv(full, now, A, C, rate, u, slack + DurationSince(last, now))
      BY <1>0, <2>1, <2>2, TokenRefill
    <2>4. QED BY <1>7, <2>3
  <1>10. v.ok => LegacyKept(capacity, rate, v.state, A1, g1)
    <2> SUFFICES ASSUME v.ok PROVE LegacyKept(capacity, rate, v.state, A1, g1)
      OBVIOUS
    <2>1. full >= 1 /\ v.state.tokens = full - 1
      BY <1>3
    <2>2. TokenInv(full - u, now, A1, C, rate, u, slack1)
      BY <1>0, <1>2, <1>3, <1>7, <1>9, <2>1, TokenTake DEF A1
    <2>3. v.state.last_refill <= A1[Len(A1)]
      BY <1>3, <1>8
    <2>4. QED BY <1>3, <1>7, <1>8, <2>1, <2>2, <2>3 DEF LegacyKept, C, u
  <1>11. ASSUME ~v.ok, capacity # 0, rate # 0
         PROVE  Len(A) # 0 /\ now <= last /\ last <= A[Len(A)] /\ last \in Nat
    <2>1. full = 0
      BY <1>3, <1>11
    <2>2. last # Unset /\ 0 = s.tokens + d * rate
      BY <1>2, <1>3, <1>11, <2>1
    <2>3. last \in Nat
      BY <1>5, <2>2
    <2>4. d \in Nat
      BY <2>3, DurationType
    <2>5. s.tokens = 0 /\ d = 0
      <3> HIDE DEF d
      <3>1. d <= d * rate /\ d * rate \in Nat
        <4>1. \A a \in Nat, b \in Nat \ {0} : a <= a * b /\ a * b \in Nat
          OBVIOUS
        <4>2. QED BY <1>11, <2>4, <4>1
      <3>2. QED BY <1>5, <2>2, <2>4, <3>1
    <2>6. now <= last
      BY <2>3, <2>5 DEF DurationSince
    <2>7. Len(A) # 0 /\ last <= A[Len(A)]
      BY <1>11, <2>2, <2>5 DEF LegacyKept
    <2>8. QED BY <2>3, <2>6, <2>7
  <1>12. ~v.ok => LegacyKept(capacity, rate, v.state, A, g1)
    <2> SUFFICES ASSUME ~v.ok PROVE LegacyKept(capacity, rate, v.state, A, g1)
      OBVIOUS
    <2>1. v.state.tokens = full
      BY <1>3
    <2>2. capacity # 0 /\ rate # 0 => Len(A) # 0 /\ now <= A[Len(A)]
      <3> SUFFICES ASSUME capacity # 0, rate # 0 PROVE Len(A) # 0 /\ now <= A[Len(A)]
        OBVIOUS
      <3>1. Len(A) # 0 /\ now <= last /\ last <= A[Len(A)] /\ last \in Nat
        BY <1>11
      <3>2. A[Len(A)] \in Nat
        BY <3>1
      <3>3. QED BY <3>1, <3>2
    <2>3. QED BY <1>3, <1>7, <1>9, <2>1, <2>2 DEF LegacyKept, C, u
  <1>13. ~v.ok /\ capacity # 0 /\ rate # 0 => recent # {}
    <2> SUFFICES ASSUME ~v.ok, capacity # 0, rate # 0 PROVE recent # {}
      OBVIOUS
    <2>1. Len(A) # 0 /\ now <= last /\ last <= A[Len(A)] /\ last \in Nat
      BY <1>11
    <2>2. Len(A) \in DOMAIN A /\ A[Len(A)] \in Nat
      BY <2>1
    <2>3. A[Len(A)] > now - 1
      BY <2>1, <2>2
    <2>4. QED BY <2>2, <2>3
  <1>14. QED BY <1>10, <1>12, <1>13, Zenon DEF v, A1, g1, recent, u

-----------------------------------------------------------------------------
\* Keys and rules.

\* A context has one key for each scope, and a key shows its scope.
LEMMA Keys ==
    /\ \A scope \in Scopes, ctx \in Context :
         StateKey(scope, ctx) \in StateKeys /\ StateKey(scope, ctx)[1] = scope
    /\ \A k \in StateKeys : k[1] \in Scopes
  <1>1. \A scope, ctx : StateKey(scope, ctx)[1] = scope
    BY DEF StateKey
  <1>2. QED BY <1>1 DEF StateKeys

\* The rules in force are rules.
LEMMA RulesTyped ==
    ASSUME config \in Configs
    PROVE  /\ config.scoped_limits \in Seq(Rule) /\ config.capacity \in Nat
           /\ config.refill_per_second \in Nat /\ config.policy \in Policies
           /\ EffectiveRules \in Seq(Rule)
           /\ \A rule \in Rule : PolicyOf(rule) \in Policies
           /\ DefaultRule \in Rule /\ PolicyOf(DefaultRule) = config.policy
  <1>1. config \in RateLimitConfig
    BY LimiterAssumption
  <1>2. /\ config.scoped_limits \in Seq(Rule) /\ config.capacity \in Nat
        /\ config.refill_per_second \in Nat /\ config.policy \in Policies
        /\ config.fixed_window_seconds \in Nat /\ config.sliding_window_seconds \in Nat
    BY <1>1 DEF RateLimitConfig
  <1> DEFINE w == CASE config.policy = "token_bucket"   -> 1
                    [] config.policy = "fixed_window"   -> config.fixed_window_seconds
                    [] config.policy = "sliding_window" -> config.sliding_window_seconds
  <1>3. w \in Nat
    BY <1>2 DEF Policies
  <1>4. DefaultRule = [ scope |-> "client", limit |-> config.capacity, quota |-> Unset,
                        window |-> w, policy |-> config.policy ]
    BY DEF DefaultRule
  <1> HIDE DEF w
  <1>5. DefaultRule \in Rule
    BY <1>2, <1>3, <1>4 DEF Rule, Scopes
  <1>6. PolicyOf(DefaultRule) = config.policy
    BY <1>2, <1>4 DEF PolicyOf
  <1>7. EffectiveRules \in Seq(Rule)
    BY <1>2, <1>5 DEF EffectiveRules
  <1>8. \A rule \in Rule : PolicyOf(rule) \in Policies
    <2>1. \A rule \in Rule : rule.policy \in Policies \union {"default"}
      BY DEF Rule
    <2>2. QED BY <1>2, <2>1 DEF PolicyOf
  <1>9. QED BY <1>2, <1>5, <1>6, <1>7, <1>8

-----------------------------------------------------------------------------
\* The inductive invariant, first the part that holds for any list of rules.

\* A call in progress has a context, and has read the clock no longer than
\* MaxDelay ago.
ThreadsTimely ==
    /\ thread \in [Thread -> [now: Nat \union {Unset}, ctx: Context \union {<<>>}]]
    /\ \A t \in Waiting : /\ thread[t].ctx \in Context
                          /\ thread[t].now <= clock /\ clock <= thread[t].now + MaxDelay

StatesTyped ==
    /\ states \in [StateKeys -> LimitState]
    /\ regress \in [StateKeys -> Nat]
    /\ \A k \in StateKeys :
         Timely(states[k], clock) /\ states[k].accepted_total <= log.total

LogTyped ==
    /\ log.total \in Nat
    /\ log.at \in [StateKeys -> Seq(Nat)]
    /\ \A k \in StateKeys : InOrder(log.at[k], clock)

\* The total of a state is the number of requests of its key, if there is a rule
\* for the key, and within the quota.
QuotaKept ==
    \A i \in DOMAIN config.scoped_limits, k \in StateKeys :
        config.scoped_limits[i].scope = k[1] =>
            /\ states[k].accepted_total = Len(log.at[k])
            /\ config.scoped_limits[i].quota # Unset =>
                 Len(log.at[k]) <= config.scoped_limits[i].quota

Inv ==
    /\ config \in Configs /\ clock \in 0..MaxClock
    /\ ThreadsTimely /\ StatesTyped /\ LogTyped
    /\ QuotaKept /\ EntriesEarned

\* What is known of the call a thread is about to complete.
LEMMA CallTimely ==
    ASSUME Inv, NEW t \in Waiting
    PROVE  /\ thread[t].ctx \in Context /\ thread[t].now \in Nat /\ clock \in Nat
           /\ thread[t].now <= clock /\ clock <= thread[t].now + MaxDelay
           /\ t \in Thread /\ MaxDelay \in Nat
  <1>1. t \in Thread /\ thread[t].now # Unset
    BY DEF Waiting
  <1>2. thread[t].now \in Nat \union {Unset}
    BY <1>1 DEF Inv, ThreadsTimely
  <1>3. MaxDelay \in Nat /\ clock \in Nat
    BY LimiterAssumption DEF Inv
  <1>4. QED BY <1>1, <1>2, <1>3 DEF Inv, ThreadsTimely

\* Admitting a request: the moments of its keys.
LEMMA LoggedTyped ==
    ASSUME Inv, NEW ctx \in Context
    PROVE  /\ Logged(ctx).total = log.total + 1
           /\ Logged(ctx).who = log.who \union {ctx}
           /\ Logged(ctx).at \in [StateKeys -> Seq(Nat)]
           /\ \A k \in StateKeys :
                /\ Logged(ctx).at[k] = IF StateKey(k[1], ctx) = k
                                       THEN Append(log.at[k], clock) ELSE log.at[k]
                /\ InOrder(Logged(ctx).at[k], clock)
  <1>1. clock \in Nat /\ log.at \in [StateKeys -> Seq(Nat)]
    BY LimiterAssumption DEF Inv, LogTyped
  <1> DEFINE at == [k \in StateKeys |-> IF StateKey(k[1], ctx) = k
                                        THEN Append(log.at[k], clock) ELSE log.at[k]]
  <1>2. Logged(ctx) = [total |-> log.total + 1, who |-> log.who \union {ctx}, at |-> at]
    BY DEF Logged
  <1>3. at \in [StateKeys -> Seq(Nat)]
    <2>1. \A k \in StateKeys : log.at[k] \in Seq(Nat)
      BY <1>1
    <2>2. \A A \in Seq(Nat) : Append(A, clock) \in Seq(Nat)
      BY <1>1
    <2>3. QED BY <2>1, <2>2
  <1>4. \A k \in StateKeys : at[k] = IF StateKey(k[1], ctx) = k
                                     THEN Append(log.at[k], clock) ELSE log.at[k]
    OBVIOUS
  <1>5. \A k \in StateKeys : InOrder(at[k], clock)
    <2> SUFFICES ASSUME NEW k \in StateKeys PROVE InOrder(at[k], clock)
      OBVIOUS
    <2>1. InOrder(log.at[k], clock) /\ log.at[k] \in Seq(Nat)
      BY <1>1 DEF Inv, LogTyped
    <2>2. InOrder(Append(log.at[k], clock), clock)
      BY <1>1, <2>1, InOrderAppend
    <2> HIDE DEF at
    <2>3. QED BY <1>4, <2>1, <2>2
  <1> HIDE DEF at
  <1>6. Logged(ctx).total = log.total + 1 /\ Logged(ctx).who = log.who \union {ctx}
          /\ Logged(ctx).at = at
    BY <1>2
  <1>7. QED BY <1>3, <1>4, <1>5, <1>6

\* The verdict of one rule and the state it stages.
LEMMA StagedTyped ==
    ASSUME Inv, NEW rule \in Rule, NEW ctx \in Context, NEW now \in Nat, now <= clock
    PROVE  LET s == states[StateKey(rule.scope, ctx)]
               v == ApplyPolicy(s, now, rule)
               st == Staged(rule, ctx, now)
           IN  /\ st.ok <=> (~QuotaUsedUp(s, rule) /\ v.ok)
               /\ st.state \in LimitState /\ Timely(st.state, clock)
               /\ st.state.accepted_total = s.accepted_total + 1
               /\ st.state.tokens = v.state.tokens
               /\ st.state.last_refill = v.state.last_refill
               /\ st.state.fixed_window_start = v.state.fixed_window_start
               /\ st.state.fixed_window_count = v.state.fixed_window_count
               /\ st.state.sliding_hits = v.state.sliding_hits
  <1> DEFINE s == states[StateKey(rule.scope, ctx)]
             v == ApplyPolicy(s, now, rule)
             st == Staged(rule, ctx, now)
             s1 == [v.state EXCEPT !.accepted_total = @ + 1]
  <1>1. StateKey(rule.scope, ctx) \in StateKeys
    BY RuleFields, Keys
  <1>2. s \in LimitState /\ Timely(s, clock) /\ clock \in Nat
    BY <1>1, LimiterAssumption DEF Inv, StatesTyped
  <1>3. PolicyOf(rule) \in Policies
    BY RulesTyped DEF Inv
  <1>4. st = [ok |-> ~QuotaUsedUp(s, rule) /\ v.ok, state |-> s1]
    BY DEF Staged
  <1> HIDE DEF s
  <1>5. v.state \in LimitState /\ v.state.accepted_total = s.accepted_total
          /\ Timely(v.state, clock)
    BY <1>2, <1>3, PolicyTyped
  <1> HIDE DEF v
  <1>6. /\ s1 \in LimitState /\ s1.accepted_total = v.state.accepted_total + 1
        /\ s1.tokens = v.state.tokens /\ s1.last_refill = v.state.last_refill
        /\ s1.fixed_window_start = v.state.fixed_window_start
        /\ s1.fixed_window_count = v.state.fixed_window_count
        /\ s1.sliding_hits = v.state.sliding_hits
    BY <1>5, TotalAdvanced
  <1> HIDE DEF s1, st
  <1>7. Timely(s1, clock)
    BY <1>5, <1>6 DEF Timely
  <1>8. st.ok <=> (~QuotaUsedUp(s, rule) /\ v.ok)
    <2>1. st.ok = (~QuotaUsedUp(s, rule) /\ v.ok)
      BY <1>4
    <2>2. QED BY <2>1, Zenon
  <1>9. st.state = s1
    BY <1>4
  <1>10. /\ st.state \in LimitState /\ Timely(st.state, clock)
         /\ st.state.accepted_total = s.accepted_total + 1
         /\ st.state.tokens = v.state.tokens
         /\ st.state.last_refill = v.state.last_refill
         /\ st.state.fixed_window_start = v.state.fixed_window_start
         /\ st.state.fixed_window_count = v.state.fixed_window_count
         /\ st.state.sliding_hits = v.state.sliding_hits
    BY <1>5, <1>6, <1>7, <1>9
  <1>11. QED BY <1>8, <1>10, Zenon DEF s, v, st

\* What is stored under a key is what some rule for it has staged, or, when there
\* is none, what was there.
LEMMA CommittedAt ==
    ASSUME Inv, NEW ctx \in Context, NEW now, NEW k \in StateKeys
    PROVE  /\ (\A i \in DOMAIN EffectiveRules :
                  StateKey(EffectiveRules[i].scope, ctx) # k) =>
                Committed(ctx, now)[k] = states[k]
           /\ (\E i \in DOMAIN EffectiveRules :
                  StateKey(EffectiveRules[i].scope, ctx) = k) =>
                \E i \in DOMAIN EffectiveRules :
                    /\ StateKey(EffectiveRules[i].scope, ctx) = k
                    /\ Committed(ctx, now)[k] = Staged(EffectiveRules[i], ctx, now).state
  <1> DEFINE mine == {i \in DOMAIN EffectiveRules :
                        StateKey(EffectiveRules[i].scope, ctx) = k}
             last == CHOOSE i \in mine : \A j \in mine : j <= i
  <1>1. Committed(ctx, now)[k] = IF mine = {} THEN states[k]
                                 ELSE Staged(EffectiveRules[last], ctx, now).state
    BY DEF Committed
  <1>2. mine \subseteq 0..Len(EffectiveRules) /\ Len(EffectiveRules) \in Nat
    BY RulesTyped DEF Inv
  <1>3. mine # {} => last \in mine
    <2> HIDE DEF mine
    <2>1. mine # {} => \E i \in mine : \A j \in mine : j <= i
      BY <1>2, LargestNat
    <2>2. QED BY <2>1
  <1> HIDE DEF last
  <1>4. QED BY <1>1, <1>3

\* The same by the scope of the key: a request that is admitted touches its own
\* keys only.
LEMMA AdmitAt ==
    ASSUME Inv, NEW ctx \in Context, NEW now, NEW k \in StateKeys
    PROVE  \/ /\ \A i \in DOMAIN EffectiveRules :
                    StateKey(k[1], ctx) = k => EffectiveRules[i].scope # k[1]
              /\ Committed(ctx, now)[k] = states[k]
           \/ /\ StateKey(k[1], ctx) = k
              /\ \E i \in DOMAIN EffectiveRules :
                    /\ EffectiveRules[i].scope = k[1]
                    /\ Committed(ctx, now)[k] = Staged(EffectiveRules[i], ctx, now).state
  <1>1. \A i \in DOMAIN EffectiveRules : EffectiveRules[i].scope \in Scopes
    BY RulesTyped, RuleFields DEF Inv
  <1>2. \A i \in DOMAIN EffectiveRules :
           StateKey(EffectiveRules[i].scope, ctx)[1] = EffectiveRules[i].scope
    BY <1>1, Keys
  <1>3. CASE \A i \in DOMAIN EffectiveRules : StateKey(EffectiveRules[i].scope, ctx) # k
    <2>1. Committed(ctx, now)[k] = states[k]
      BY <1>3, CommittedAt
    <2>2. \A i \in DOMAIN EffectiveRules :
             StateKey(k[1], ctx) = k => EffectiveRules[i].scope # k[1]
      BY <1>3
    <2>3. QED BY <2>1, <2>2
  <1>4. CASE \E i \in DOMAIN EffectiveRules : StateKey(EffectiveRules[i].scope, ctx) = k
    <2>1. PICK i \in DOMAIN EffectiveRules :
             /\ StateKey(EffectiveRules[i].scope, ctx) = k
             /\ Committed(ctx, now)[k] = Staged(EffectiveRules[i], ctx, now).state
      BY <1>4, CommittedAt
    <2>2. EffectiveRules[i].scope = k[1]
      BY <1>2, <2>1
    <2>3. StateKey(k[1], ctx) = k
      BY <2>1, <2>2
    <2>4. QED BY <2>1, <2>2, <2>3
  <1>5. QED BY <1>3, <1>4

\* The legacy bucket: it refuses nobody on the first check.
LEMMA LegacyTyped ==
    ASSUME Inv, NEW ctx \in Context, NEW now \in Nat, now <= clock
    PROVE  LET k == StateKey("client", ctx)
               s == states[k]
               v == TokenBucket(s, now, config.capacity, config.refill_per_second, 1)
           IN  /\ k \in StateKeys /\ k[1] = "client"
               /\ v.state \in LimitState /\ Timely(v.state, clock)
               /\ v.state.accepted_total = s.accepted_total
               /\ ~v.ok /\ config.capacity # 0 => s # LimitStateDefault
  <1> DEFINE u == 1
  <1>1. u \in Nat \ {0} /\ u = 1
    OBVIOUS
  <1> HIDE DEF u
  <1> DEFINE k == StateKey("client", ctx)
             s == states[k]
             C == config.capacity * u
             v == TokenBucket(s, now, config.capacity, config.refill_per_second, u)
  <1>2. k \in StateKeys /\ k[1] = "client"
    BY Keys DEF Scopes
  <1>3. s \in LimitState /\ Timely(s, clock) /\ clock \in Nat
    BY <1>2, LimiterAssumption DEF Inv, StatesTyped
  <1>4. config.capacity \in Nat /\ config.refill_per_second \in Nat
    BY RulesTyped DEF Inv
  <1> HIDE DEF k, s
  <1>5. PICK full : BucketDecides(s, v.state, v.ok, now, C, config.refill_per_second, u, full)
    BY <1>1, <1>3, <1>4, TokenBucketDecides
  <1> HIDE DEF v
  <1>6. /\ full \in Nat
        /\ full < C => s.last_refill # Unset
        /\ v.ok <=> full >= u
        /\ v.state.last_refill = now
        /\ v.state.fixed_window_start = s.fixed_window_start
        /\ v.state.sliding_hits = s.sliding_hits
        /\ v.state.accepted_total = s.accepted_total
        /\ v.state \in LimitState
    BY <1>5 DEF BucketDecides
  <1>7. Timely(v.state, clock)
    BY <1>3, <1>6 DEF Timely
  <1>8. ~v.ok /\ config.capacity # 0 => s # LimitStateDefault
    <2> SUFFICES ASSUME ~v.ok, config.capacity # 0 PROVE s # LimitStateDefault
      OBVIOUS
    <2>1. full < C
      BY <1>1, <1>4, <1>6
    <2>2. s.last_refill # Unset
      BY <1>6, <2>1
    <2>3. LimitStateDefault.last_refill = Unset
      BY DEF LimitStateDefault
    <2>4. QED BY <2>2, <2>3
  <1>9. QED BY <1>2, <1>6, <1>7, <1>8 DEF k, s, v, u

-----------------------------------------------------------------------------
\* The four ways in which a check can end.

Bucket(ctx, now) ==
    TokenBucket(states[StateKey("client", ctx)], now, config.capacity,
                config.refill_per_second, 1)

ScopedAdmits(ctx, now) ==
    /\ ~Legacy /\ \A i \in DOMAIN EffectiveRules : Staged(EffectiveRules[i], ctx, now).ok
    /\ states' = Committed(ctx, now) /\ log' = Logged(ctx)

ScopedRefuses(ctx, now) ==
    /\ ~Legacy /\ \E i \in DOMAIN EffectiveRules : ~Staged(EffectiveRules[i], ctx, now).ok
    /\ states' = states /\ log' = log

LegacyAdmits(ctx, now) ==
    /\ Legacy /\ Bucket(ctx, now).ok
    /\ states' = [states EXCEPT ![StateKey("client", ctx)] = Bucket(ctx, now).state]
    /\ log' = Logged(ctx)

LegacyRefuses(ctx, now) ==
    /\ Legacy /\ ~Bucket(ctx, now).ok
    /\ states' = [states EXCEPT ![StateKey("client", ctx)] = Bucket(ctx, now).state]
    /\ log' = log

\* There is no fifth way.
LEMMA CheckCases ==
    ASSUME NEW t \in Thread, Check(t)
    PROVE  LET ctx == thread[t].ctx
               now == thread[t].now
           IN  \/ ScopedAdmits(ctx, now) \/ ScopedRefuses(ctx, now)
               \/ LegacyAdmits(ctx, now) \/ LegacyRefuses(ctx, now)
  <1> DEFINE ctx == thread[t].ctx
             now == thread[t].now
  <1>1. IF Legacy THEN CheckLegacy(ctx, now) ELSE CheckScoped(ctx, now)
    BY DEF Check
  <1> HIDE DEF ctx, now
  <1>2. CASE Legacy
    <2>1. CheckLegacy(ctx, now)
      BY <1>1, <1>2
    <2>2. /\ states' = [states EXCEPT ![StateKey("client", ctx)] = Bucket(ctx, now).state]
          /\ log' = IF Bucket(ctx, now).ok THEN Logged(ctx) ELSE log
      BY <2>1 DEF CheckLegacy, Bucket
    <2>3. LegacyAdmits(ctx, now) \/ LegacyRefuses(ctx, now)
      BY <1>2, <2>2 DEF LegacyAdmits, LegacyRefuses
    <2>4. QED BY <2>3 DEF ctx, now
  <1>3. CASE ~Legacy
    <2>1. CheckScoped(ctx, now)
      BY <1>1, <1>3
    <2> DEFINE ok == \A i \in DOMAIN EffectiveRules : Staged(EffectiveRules[i], ctx, now).ok
    <2>2. /\ states' = IF ok THEN Committed(ctx, now) ELSE states
          /\ log' = IF ok THEN Logged(ctx) ELSE log
      BY <2>1 DEF CheckScoped
    <2>3. ScopedAdmits(ctx, now) \/ ScopedRefuses(ctx, now)
      BY <1>3, <2>2 DEF ScopedAdmits, ScopedRefuses
    <2>4. QED BY <2>3 DEF ctx, now
  <1>4. QED BY <1>2, <1>3

\* What is stored under a key is either left alone, or it is what a check of a
\* request with that key stores there.
LEMMA CheckTyped ==
    ASSUME Inv, NEW t \in Thread, Check(t)
    PROVE  /\ states' \in [StateKeys -> LimitState]
           /\ \A k \in StateKeys : /\ Timely(states'[k], clock)
                                   /\ states'[k].accepted_total <= log'.total
           /\ log'.total \in Nat /\ log'.at \in [StateKeys -> Seq(Nat)]
           /\ \A k \in StateKeys : InOrder(log'.at[k], clock)
  <1> DEFINE ctx == thread[t].ctx
             now == thread[t].now
             ck == StateKey("client", ctx)
  <1>1. t \in Waiting
    BY DEF Check
  <1>2. /\ ctx \in Context /\ now \in Nat /\ now <= clock /\ clock \in Nat
    BY <1>1, CallTimely
  <1>3. /\ log.total \in Nat /\ log.at \in [StateKeys -> Seq(Nat)]
        /\ \A k \in StateKeys : InOrder(log.at[k], clock)
    BY DEF Inv, LogTyped
  <1>4. \A k \in StateKeys : /\ states[k] \in LimitState /\ Timely(states[k], clock)
                             /\ states[k].accepted_total <= log.total
                             /\ states[k].accepted_total \in Nat
    BY StateFields DEF Inv, StatesTyped
  <1>5. states \in [StateKeys -> LimitState]
    BY DEF Inv, StatesTyped
  <1>6. ScopedAdmits(ctx, now) \/ ScopedRefuses(ctx, now) \/ LegacyAdmits(ctx, now)
          \/ LegacyRefuses(ctx, now)
    BY CheckCases
  <1> HIDE DEF ctx, now
  <1>7. ASSUME log' = Logged(ctx)
        PROVE  /\ log'.total = log.total + 1 /\ log'.at \in [StateKeys -> Seq(Nat)]
               /\ \A k \in StateKeys : InOrder(log'.at[k], clock)
    BY <1>2, <1>7, LoggedTyped
  <1>8. CASE ScopedRefuses(ctx, now)
    BY <1>3, <1>4, <1>5, <1>8 DEF ScopedRefuses
  <1>9. CASE ScopedAdmits(ctx, now)
    <2>1. states' = Committed(ctx, now) /\ log' = Logged(ctx)
      BY <1>9 DEF ScopedAdmits
    <2>2. ASSUME NEW k \in StateKeys
          PROVE  /\ states'[k] \in LimitState /\ Timely(states'[k], clock)
                 /\ states'[k].accepted_total <= log.total + 1
      <3>1. CASE Committed(ctx, now)[k] = states[k]
        <4>1. states[k].accepted_total <= log.total + 1
          BY <1>3, <1>4
        <4>2. QED BY <1>4, <2>1, <3>1, <4>1
      <3>2. CASE \E i \in DOMAIN EffectiveRules :
                    /\ EffectiveRules[i].scope = k[1]
                    /\ StateKey(k[1], ctx) = k
                    /\ Committed(ctx, now)[k] = Staged(EffectiveRules[i], ctx, now).state
        <4>1. PICK i \in DOMAIN EffectiveRules :
                    /\ EffectiveRules[i].scope = k[1]
                    /\ StateKey(k[1], ctx) = k
                    /\ Committed(ctx, now)[k] = Staged(EffectiveRules[i], ctx, now).state
          BY <3>2
        <4> DEFINE rule == EffectiveRules[i]
                   s1 == Staged(rule, ctx, now).state
        <4>2. rule \in Rule
          BY RulesTyped DEF Inv
        <4>3. StateKey(rule.scope, ctx) = k
          BY <4>1
        <4>4. states'[k] = s1
          BY <2>1, <4>1
        <4> HIDE DEF rule
        <4>5. s1 \in LimitState /\ Timely(s1, clock)
                /\ s1.accepted_total = states[k].accepted_total + 1
          BY <1>2, <4>2, <4>3, StagedTyped
        <4> HIDE DEF s1
        <4>6. s1.accepted_total <= log.total + 1
          BY <1>3, <1>4, <4>5
        <4>7. QED BY <4>4, <4>5, <4>6
      <3>3. QED BY <1>2, <3>1, <3>2, AdmitAt
    <2>3. states' \in [StateKeys -> LimitState]
      <3>1. states' = [k \in StateKeys |-> states'[k]]
        BY <2>1 DEF Committed
      <3>2. \A k \in StateKeys : states'[k] \in LimitState
        BY <2>2
      <3>3. QED BY <3>1, <3>2
    <2>4. QED BY <1>3, <1>7, <2>1, <2>2, <2>3
  <1>10. ASSUME states' = [states EXCEPT ![ck] = Bucket(ctx, now).state]
         PROVE  /\ states' \in [StateKeys -> LimitState]
                /\ \A k \in StateKeys : /\ Timely(states'[k], clock)
                                        /\ states'[k].accepted_total <= log.total
    <2> DEFINE b == Bucket(ctx, now).state
    <2>1. /\ ck \in StateKeys /\ b \in LimitState /\ Timely(b, clock)
          /\ b.accepted_total = states[ck].accepted_total
      BY <1>2, LegacyTyped DEF Bucket
    <2> HIDE DEF b, ck
    <2>2. states' = [states EXCEPT ![ck] = b]
      BY <1>10 DEF b, ck
    <2>3. states' \in [StateKeys -> LimitState]
      BY <1>5, <2>1, <2>2
    <2>4. \A k \in StateKeys : states'[k] = IF k = ck THEN b ELSE states[k]
      BY <1>5, <2>2
    <2>5. QED BY <1>4, <2>1, <2>3, <2>4
  <1>11. CASE LegacyAdmits(ctx, now)
    <2>1. /\ states' = [states EXCEPT ![ck] = Bucket(ctx, now).state] /\ log' = Logged(ctx)
      BY <1>11 DEF LegacyAdmits
    <2>2. \A k \in StateKeys : states'[k].accepted_total \in Nat
      BY <1>10, <2>1, StateFields
    <2>3. log.total \in Nat /\ log'.total = log.total + 1
      BY <1>3, <1>7, <2>1
    <2>4. \A k \in StateKeys : states'[k].accepted_total <= log'.total
      BY <1>10, <2>1, <2>2, <2>3
    <2>5. log'.total \in Nat
      BY <2>3
    <2>6. QED BY <1>7, <1>10, <2>1, <2>4, <2>5
  <1>12. CASE LegacyRefuses(ctx, now)
    <2>1. /\ states' = [states EXCEPT ![ck] = Bucket(ctx, now).state] /\ log' = log
      BY <1>12 DEF LegacyRefuses
    <2>2. QED BY <1>3, <1>10, <2>1
  <1>13. QED BY <1>6, <1>8, <1>9, <1>11, <1>12

\* How far the refill times have been set back remains a number.
LEMMA RegressTyped ==
    ASSUME Inv, NEW t \in Thread, Check(t)
    PROVE  /\ regress' \in [StateKeys -> Nat]
           /\ \A k \in StateKeys :
                regress'[k] = regress[k]
                    + DurationSince(states[k].last_refill, states'[k].last_refill)
  <1> DEFINE d(k) == DurationSince(states[k].last_refill, states'[k].last_refill)
  <1>1. regress' = [k \in StateKeys |-> regress[k] + d(k)]
    BY DEF Check
  <1>2. \A k \in StateKeys : states[k] \in LimitState /\ regress[k] \in Nat
    BY DEF Inv, StatesTyped
  <1>3. \A k \in StateKeys : states'[k] \in LimitState
    BY CheckTyped
  <1>4. \A k \in StateKeys : d(k) \in Nat
    BY <1>2, <1>3, StateFields, DurationType
  <1> HIDE DEF d
  <1>5. \A k \in StateKeys : regress[k] + d(k) \in Nat
    BY <1>2, <1>4
  <1>6. regress' \in [StateKeys -> Nat] /\ \A k \in StateKeys : regress'[k] = regress[k] + d(k)
    BY <1>1, <1>5
  <1>7. QED BY <1>6 DEF d

\* The totals of the states still count the requests admitted, and no quota is
\* overrun: the states are read and written in one step.
LEMMA QuotaStep ==
    ASSUME Inv, NEW t \in Thread, Check(t)
    PROVE  QuotaKept'
  <1> DEFINE ctx == thread[t].ctx
             now == thread[t].now
             limits == config.scoped_limits
  <1>1. t \in Waiting /\ config' = config
    BY DEF Check
  <1>2. ctx \in Context /\ now \in Nat /\ now <= clock /\ clock \in Nat
    BY <1>1, CallTimely
  <1>3. ScopedAdmits(ctx, now) \/ ScopedRefuses(ctx, now) \/ LegacyAdmits(ctx, now)
          \/ LegacyRefuses(ctx, now)
    BY CheckCases
  <1>4. limits \in Seq(Rule)
    BY RulesTyped DEF Inv
  <1> HIDE DEF ctx, now
  <1> SUFFICES ASSUME NEW i \in DOMAIN limits, NEW k \in StateKeys, limits[i].scope = k[1]
               PROVE  /\ states'[k].accepted_total = Len(log'.at[k])
                      /\ limits[i].quota # Unset => Len(log'.at[k]) <= limits[i].quota
    BY <1>1 DEF QuotaKept
  <1>5. /\ states[k].accepted_total = Len(log.at[k])
        /\ limits[i].quota # Unset => Len(log.at[k]) <= limits[i].quota
    BY DEF Inv, QuotaKept
  <1>6. limits # <<>> /\ EffectiveRules = limits /\ ~Legacy
    BY DEF EffectiveRules, Legacy
  <1>7. CASE ScopedRefuses(ctx, now)
    BY <1>5, <1>7 DEF ScopedRefuses
  <1>8. CASE ScopedAdmits(ctx, now)
    <2> DEFINE A == log.at[k]
               A1 == log'.at[k]
    <2>1. states' = Committed(ctx, now) /\ log' = Logged(ctx)
      BY <1>8 DEF ScopedAdmits
    <2>2. A1 = IF StateKey(k[1], ctx) = k THEN Append(A, clock) ELSE A
      BY <1>2, <2>1, LoggedTyped
    <2>3. A \in Seq(Nat)
      BY DEF Inv, LogTyped
    <2>4. CASE StateKey(k[1], ctx) # k
      <3>1. Committed(ctx, now)[k] = states[k]
        BY <1>2, <2>4, AdmitAt
      <3>2. QED BY <1>5, <2>1, <2>2, <2>4, <3>1
    <2>5. CASE StateKey(k[1], ctx) = k
      <3>1. Len(A1) = Len(A) + 1
        BY <1>2, <2>2, <2>3, <2>5
      <3>2. PICK j \in DOMAIN limits :
               /\ limits[j].scope = k[1]
               /\ Committed(ctx, now)[k] = Staged(limits[j], ctx, now).state
        BY <1>2, <1>6, <2>5, AdmitAt
      <3>3. limits[j] \in Rule /\ limits[i] \in Rule
        BY <1>4
      <3>4. StateKey(limits[j].scope, ctx) = k /\ StateKey(limits[i].scope, ctx) = k
        BY <2>5, <3>2
      <3>5. states'[k].accepted_total = states[k].accepted_total + 1
        BY <1>2, <2>1, <3>2, <3>3, <3>4, StagedTyped
      <3>6. ~QuotaUsedUp(states[k], limits[i])
        <4>1. Staged(limits[i], ctx, now).ok
          BY <1>6, <1>8 DEF ScopedAdmits
        <4>2. QED BY <1>2, <3>3, <3>4, <4>1, StagedTyped
      <3>7. limits[i].quota # Unset => Len(A1) <= limits[i].quota
        <4>1. limits[i].quota \in Nat \union {Unset}
          BY <3>3, RuleFields
        <4>2. Len(A) \in Nat
          BY <2>3
        <4>3. limits[i].quota # Unset => ~(Len(A) >= limits[i].quota)
          BY <1>5, <3>6 DEF QuotaUsedUp
        <4>4. QED BY <3>1, <4>1, <4>2, <4>3
      <3>8. QED BY <1>5, <3>1, <3>5, <3>7
    <2>6. QED BY <2>4, <2>5
  <1>9. QED BY <1>3, <1>6, <1>7, <1>8 DEF LegacyAdmits, LegacyRefuses

\* No state comes into being for a key unless a request is admitted under it.
LEMMA EntriesStep ==
    ASSUME Inv, NEW t \in Thread, Check(t)
    PROVE  EntriesEarned'
  <1> DEFINE ctx == thread[t].ctx
             now == thread[t].now
             ck == StateKey("client", ctx)
             Earned(k, who) == \E c \in who : StateKey(k[1], c) = k
  <1>1. t \in Waiting /\ config' = config
    BY DEF Check
  <1>2. ctx \in Context /\ now \in Nat /\ now <= clock /\ clock \in Nat
    BY <1>1, CallTimely
  <1>3. ScopedAdmits(ctx, now) \/ ScopedRefuses(ctx, now) \/ LegacyAdmits(ctx, now)
          \/ LegacyRefuses(ctx, now)
    BY CheckCases
  <1> HIDE DEF ctx, now
  <1> SUFFICES ASSUME NEW k \in StateKeys, states'[k] # LimitStateDefault,
                      ~(Legacy /\ config.capacity = 0)
               PROVE  Earned(k, log'.who)
    BY <1>1 DEF EntriesEarned, Legacy
  <1>4. states[k] # LimitStateDefault => Earned(k, log.who)
    BY DEF Inv, EntriesEarned
  <1>5. states \in [StateKeys -> LimitState]
    BY DEF Inv, StatesTyped
  <1>6. ck \in StateKeys /\ ck[1] = "client"
    BY <1>2, LegacyTyped
  <1>7. ASSUME log' = Logged(ctx), states'[k] = states[k] \/ StateKey(k[1], ctx) = k
        PROVE  Earned(k, log'.who)
    <2>1. log'.who = log.who \union {ctx}
      BY <1>2, <1>7, LoggedTyped
    <2>2. QED BY <1>4, <1>7, <2>1
  <1>8. CASE ScopedRefuses(ctx, now)
    BY <1>4, <1>8 DEF ScopedRefuses
  <1>9. CASE ScopedAdmits(ctx, now)
    <2>1. states' = Committed(ctx, now) /\ log' = Logged(ctx)
      BY <1>9 DEF ScopedAdmits
    <2>2. states'[k] = states[k] \/ StateKey(k[1], ctx) = k
      BY <1>2, <2>1, AdmitAt
    <2>3. QED BY <1>7, <2>1, <2>2
  <1>10. CASE LegacyAdmits(ctx, now)
    <2>1. states' = [states EXCEPT ![ck] = Bucket(ctx, now).state] /\ log' = Logged(ctx)
      BY <1>10 DEF LegacyAdmits
    <2>2. states'[k] = states[k] \/ k = ck
      BY <1>5, <2>1
    <2>3. k = ck => StateKey(k[1], ctx) = k
      BY <1>6
    <2>4. QED BY <1>7, <2>1, <2>2, <2>3
  <1>11. CASE LegacyRefuses(ctx, now)
    <2>1. /\ states' = [states EXCEPT ![ck] = Bucket(ctx, now).state] /\ log' = log
          /\ Legacy /\ ~Bucket(ctx, now).ok
      BY <1>11 DEF LegacyRefuses
    <2>2. CASE k = ck
      <3>1. states[ck] # LimitStateDefault
        <4>1. ~Bucket(ctx, now).ok /\ config.capacity # 0 => states[ck] # LimitStateDefault
          BY <1>2, LegacyTyped DEF Bucket
        <4>2. QED BY <2>1, <4>1
      <3>2. QED BY <1>4, <2>1, <2>2, <3>1
    <2>3. CASE k # ck
      <3>1. states'[k] = states[k]
        BY <1>5, <2>1, <2>3
      <3>2. QED BY <1>4, <2>1, <3>1
    <2>4. QED BY <2>2, <2>3
  <1>12. QED BY <1>3, <1>8, <1>9, <1>10, <1>11

-----------------------------------------------------------------------------
\* The invariant holds.

LEMMA InitInv ==
    ASSUME Init
    PROVE  Inv
  <1>1. config \in Configs /\ clock \in 0..MaxClock
    BY LimiterAssumption DEF Init
  <1>2. ThreadsTimely
    <2>1. thread \in [Thread -> [now: Nat \union {Unset}, ctx: Context \union {<<>>}]]
      BY DEF Init
    <2>2. Waiting = {}
      BY DEF Init, Waiting
    <2>3. QED BY <2>1, <2>2 DEF ThreadsTimely
  <1>3. /\ LimitStateDefault \in LimitState /\ LimitStateDefault.accepted_total = 0
        /\ Timely(LimitStateDefault, 0)
    BY DEF LimitStateDefault, LimitState, Timely, Unset
  <1>4. \A k \in StateKeys : states[k] = LimitStateDefault
    BY DEF Init
  <1>5. log.total = 0 /\ log.at = [k \in StateKeys |-> <<>>] /\ clock = 0
    BY DEF Init
  <1>6. \A k \in StateKeys : log.at[k] = <<>>
    BY <1>5
  <1>7. StatesTyped
    <2>1. states \in [StateKeys -> LimitState]
      BY <1>3 DEF Init
    <2>2. regress \in [StateKeys -> Nat]
      BY DEF Init
    <2>3. QED BY <1>3, <1>4, <1>5, <2>1, <2>2 DEF StatesTyped
  <1>8. LogTyped
    <2>1. log.at \in [StateKeys -> Seq(Nat)]
      BY <1>5
    <2>2. \A k \in StateKeys : InOrder(log.at[k], clock)
      BY <1>6 DEF InOrder
    <2>3. QED BY <1>5, <2>1, <2>2 DEF LogTyped
  <1>9. QuotaKept
    <2> SUFFICES ASSUME NEW i \in DOMAIN config.scoped_limits, NEW k \in StateKeys
                 PROVE  /\ states[k].accepted_total = Len(log.at[k])
                        /\ config.scoped_limits[i].quota # Unset =>
                             Len(log.at[k]) <= config.scoped_limits[i].quota
      BY DEF QuotaKept
    <2>1. Len(log.at[k]) = 0
      BY <1>6
    <2>2. config.scoped_limits[i].quota \in Nat \union {Unset}
      BY <1>1, RulesTyped, RuleFields
    <2>3. QED BY <1>3, <1>4, <2>1, <2>2
  <1>10. EntriesEarned
    BY <1>4 DEF EntriesEarned
  <1>11. QED BY <1>1, <1>2, <1>7, <1>8, <1>9, <1>10 DEF Inv

LEMMA CheckInv ==
    ASSUME Inv, NEW t \in Thread, Check(t)
    PROVE  Inv'
  <1>1. config' = config /\ clock' = clock
    BY DEF Check
  <1>2. ThreadsTimely'
    <2>1. thread' = [thread EXCEPT ![t] = [now |-> Unset, ctx |-> <<>>]]
      BY DEF Check
    <2>2. thread \in [Thread -> [now: Nat \union {Unset}, ctx: Context \union {<<>>}]]
      BY DEF Inv, ThreadsTimely
    <2>3. thread' \in [Thread -> [now: Nat \union {Unset}, ctx: Context \union {<<>>}]]
      BY <2>1, <2>2
    <2>4. \A u \in Waiting' : u \in Waiting /\ thread'[u] = thread[u]
      BY <2>1, <2>2 DEF Waiting
    <2>5. QED BY <1>1, <2>3, <2>4 DEF Inv, ThreadsTimely
  <1>3. StatesTyped'
    BY <1>1, CheckTyped, RegressTyped DEF StatesTyped
  <1>4. LogTyped'
    BY <1>1, CheckTyped DEF LogTyped
  <1>5. QuotaKept' /\ EntriesEarned'
    BY QuotaStep, EntriesStep
  <1>6. QED BY <1>1, <1>2, <1>3, <1>4, <1>5 DEF Inv

\* The parts of the invariant that only say something of the states and the log
\* stay as they are.
LEMMA StatesStay ==
    ASSUME Inv, UNCHANGED <<config, states, log, regress>>, clock' \in Nat, clock <= clock'
    PROVE  StatesTyped' /\ LogTyped' /\ QuotaKept' /\ EntriesEarned'
  <1>1. clock \in Nat
    BY LimiterAssumption DEF Inv
  <1>2. QuotaKept' /\ EntriesEarned'
    BY DEF Inv, QuotaKept, EntriesEarned, Legacy
  <1>3. StatesTyped'
    <2>1. \A k \in StateKeys : Timely(states[k], clock')
      <3> SUFFICES ASSUME NEW k \in StateKeys PROVE Timely(states[k], clock')
        OBVIOUS
      <3> DEFINE s == states[k]
      <3>1. s \in LimitState /\ Timely(s, clock)
        BY DEF Inv, StatesTyped
      <3> HIDE DEF s
      <3>2. /\ s.last_refill \in Int /\ s.fixed_window_start \in Int
            /\ \A i \in DOMAIN s.sliding_hits : s.sliding_hits[i] \in Nat
        BY <3>1, StateFields DEF Unset
      <3>3. Timely(s, clock')
        BY <1>1, <3>1, <3>2 DEF Timely
      <3>4. QED BY <3>3 DEF s
    <2>2. QED BY <2>1 DEF Inv, StatesTyped
  <1>4. LogTyped'
    <2>1. \A k \in StateKeys : InOrder(log.at[k], clock')
      <3> SUFFICES ASSUME NEW k \in StateKeys PROVE InOrder(log.at[k], clock')
        OBVIOUS
      <3> DEFINE A == log.at[k]
      <3>1. A \in Seq(Nat) /\ InOrder(A, clock)
        BY DEF Inv, LogTyped
      <3> HIDE DEF A
      <3>2. InOrder(A, clock')
        BY <1>1, <3>1 DEF InOrder
      <3>3. QED BY <3>2 DEF A
    <2>2. QED BY <2>1 DEF Inv, LogTyped
  <1>5. QED BY <1>2, <1>3, <1>4

LEMMA SampleInv ==
    ASSUME Inv, NEW t \in Thread, NEW ctx \in Context, Sample(t, ctx)
    PROVE  Inv'
  <1>1. UNCHANGED <<config, clock, states, log, regress>> /\ clock \in Nat
    BY LimiterAssumption DEF Inv, Sample
  <1>2. StatesTyped' /\ LogTyped' /\ QuotaKept' /\ EntriesEarned'
    BY <1>1, StatesStay
  <1>3. ThreadsTimely'
    <2>1. thread' = [thread EXCEPT ![t] = [now |-> clock, ctx |-> ctx]]
      BY DEF Sample
    <2>2. thread \in [Thread -> [now: Nat \union {Unset}, ctx: Context \union {<<>>}]]
      BY DEF Inv, ThreadsTimely
    <2>3. thread' \in [Thread -> [now: Nat \union {Unset}, ctx: Context \union {<<>>}]]
      BY <1>1, <2>1, <2>2
    <2>4. thread'[t].now = clock /\ thread'[t].ctx = ctx
      BY <2>1, <2>2
    <2>5. clock <= clock + MaxDelay
      BY <1>1, LimiterAssumption
    <2>6. \A u \in Waiting' : u = t \/ (u \in Waiting /\ thread'[u] = thread[u])
      BY <2>1, <2>2 DEF Waiting
    <2>7. QED BY <1>1, <2>3, <2>4, <2>5, <2>6 DEF Inv, ThreadsTimely
  <1>4. QED BY <1>1, <1>2, <1>3 DEF Inv

LEMMA TickInv ==
    ASSUME Inv, Tick
    PROVE  Inv'
  <1>1. /\ UNCHANGED <<config, states, thread, log, regress>> /\ clock' = clock + 1
        /\ clock \in Nat /\ clock' \in 0..MaxClock /\ MaxDelay \in Nat
    BY LimiterAssumption DEF Inv, Tick
  <1>2. StatesTyped' /\ LogTyped' /\ QuotaKept' /\ EntriesEarned'
    BY <1>1, StatesStay
  <1>3. ThreadsTimely'
    <2>1. \A t \in Waiting : thread[t].now \in Nat
      BY CallTimely
    <2>2. \A t \in Waiting : clock - thread[t].now < MaxDelay
      BY DEF Tick
    <2>3. \A t \in Waiting : /\ thread[t].ctx \in Context /\ thread[t].now <= clock'
                             /\ clock' <= thread[t].now + MaxDelay
      BY <1>1, <2>1, <2>2 DEF Inv, ThreadsTimely
    <2>4. Waiting' = Waiting
      BY <1>1 DEF Waiting
    <2>5. QED BY <1>1, <2>3, <2>4 DEF Inv, ThreadsTimely
  <1>4. QED BY <1>1, <1>2, <1>3 DEF Inv

LEMMA StutterInv ==
    ASSUME Inv, UNCHANGED vars
    PROVE  Inv'
  <1>1. UNCHANGED <<config, clock, states, thread, log, regress>> /\ clock \in Nat
    BY LimiterAssumption DEF Inv, vars
  <1>2. StatesTyped' /\ LogTyped' /\ QuotaKept' /\ EntriesEarned'
    BY <1>1, StatesStay
  <1>3. ThreadsTimely'
    BY <1>1 DEF Inv, ThreadsTimely, Waiting
  <1>4. QED BY <1>1, <1>2, <1>3 DEF Inv

\* The part of the invariant that needs nothing of the configuration: calls are
\* never held up for longer than MaxDelay, nothing in a state is later than the
\* clock, and the totals count the requests admitted (rate_limit.rs:124-200).
THEOREM Invariant == Spec => []Inv
  <1>1. Init => Inv
    BY InitInv
  <1>2. Inv /\ [Next]_vars => Inv'
    <2> SUFFICES ASSUME Inv, [Next]_vars PROVE Inv'
      OBVIOUS
    <2>1. ASSUME NEW t \in Thread, NEW ctx \in Context, Sample(t, ctx) PROVE Inv'
      BY <2>1, SampleInv
    <2>2. ASSUME NEW t \in Thread, Check(t) PROVE Inv'
      BY <2>2, CheckInv
    <2>3. CASE Tick
      BY <2>3, TickInv
    <2>4. CASE UNCHANGED vars
      BY <2>4, StutterInv
    <2>5. QED BY <2>1, <2>2, <2>3, <2>4 DEF Next
  <1>3. QED BY <1>1, <1>2, PTL DEF Spec

\* The types of the limiter's state (rate_limit.rs:92-104).
THEOREM TypeCorrect == Spec => []TypeOK
  <1>1. Inv => TypeOK
    <2> SUFFICES ASSUME Inv PROVE TypeOK
      OBVIOUS
    <2>1. clock \in Nat /\ MaxClock \in Nat /\ clock <= MaxClock
      BY LimiterAssumption DEF Inv
    <2>2. ASSUME NEW k \in StateKeys
          PROVE  /\ states[k].tokens \in Nat
                 /\ states[k].last_refill \in Unset..MaxClock
                 /\ states[k].fixed_window_start \in Unset..MaxClock
                 /\ states[k].accepted_total \in 0..log.total
                 /\ \A i \in DOMAIN states[k].sliding_hits :
                      states[k].sliding_hits[i] \in 0..MaxClock
      <3> DEFINE s == states[k]
      <3>1. s \in LimitState /\ Timely(s, clock) /\ s.accepted_total <= log.total
              /\ log.total \in Nat
        BY DEF Inv, StatesTyped, LogTyped
      <3> HIDE DEF s
      <3>2. /\ s.tokens \in Nat /\ s.last_refill \in Nat \union {Unset}
            /\ s.fixed_window_start \in Nat \union {Unset} /\ s.accepted_total \in Nat
            /\ \A i \in DOMAIN s.sliding_hits : s.sliding_hits[i] \in Nat
        BY <3>1, StateFields
      <3>3. s.last_refill \in Unset..MaxClock /\ s.fixed_window_start \in Unset..MaxClock
        BY <2>1, <3>1, <3>2 DEF Timely, Unset
      <3>4. \A i \in DOMAIN s.sliding_hits : s.sliding_hits[i] \in 0..MaxClock
        BY <2>1, <3>1, <3>2 DEF Timely
      <3>5. s.accepted_total \in 0..log.total
        BY <3>1, <3>2
      <3>6. QED BY <3>2, <3>3, <3>4, <3>5 DEF s
    <2>3. \A t \in Thread : thread[t].now \in Unset..clock
      <3> SUFFICES ASSUME NEW t \in Thread PROVE thread[t].now \in Unset..clock
        OBVIOUS
      <3>1. CASE t \in Waiting
        <4>1. thread[t].now \in Nat /\ thread[t].now <= clock
          BY <3>1, CallTimely
        <4>2. QED BY <2>1, <4>1 DEF Unset
      <3>2. CASE t \notin Waiting
        <4>1. thread[t].now = Unset
          BY <3>2 DEF Waiting
        <4>2. QED BY <2>1, <4>1 DEF Unset
      <3>3. QED BY <3>1, <3>2
    <2>4. DOMAIN states = StateKeys /\ config \in Configs /\ clock \in 0..MaxClock
      BY DEF Inv, StatesTyped
    <2>5. QED BY <2>2, <2>3, <2>4 DEF TypeOK
  <1>2. QED BY <1>1, Invariant, PTL

\* A quota is never overrun, however many threads use up the rest of it at the
\* same time, and a request that another rule refuses does not eat into it: the
\* states of all rules are read, and written, while the mutex is held
\* (rate_limit.rs:151-175).
THEOREM QuotaIsExact == Spec => []QuotaExact
  <1>1. Inv => QuotaExact
    <2> SUFFICES ASSUME Inv, NEW i \in DOMAIN config.scoped_limits,
                        NEW v \in Values(config.scoped_limits[i])
                 PROVE  LET rule == config.scoped_limits[i]
                            used == Len(Admitted(rule, v))
                        IN  /\ rule.quota # Unset => used <= rule.quota
                            /\ states[<<rule.scope, v>>].accepted_total = used
      BY DEF QuotaExact
    <2> DEFINE rule == config.scoped_limits[i]
               k == <<rule.scope, v>>
    <2>1. rule \in Rule
      BY RulesTyped DEF Inv
    <2>2. rule.scope \in Scopes
      BY <2>1, RuleFields
    <2>3. k \in StateKeys /\ rule.scope = k[1]
      BY <2>2 DEF Values, StateKeys, StateKey
    <2> HIDE DEF k
    <2>4. /\ rule.quota # Unset => Len(log.at[k]) <= rule.quota
          /\ states[k].accepted_total = Len(log.at[k])
      BY <2>3 DEF Inv, QuotaKept
    <2>5. QED BY <2>4 DEF k, Admitted
  <1>2. QED BY <1>1, Invariant, PTL

\* The map of states grows with the callers that have been admitted, not with the
\* requests that have been refused (rate_limit.rs:139-178).
THEOREM EntriesAreEarned == Spec => []EntriesEarned
  <1>1. Inv => EntriesEarned
    BY DEF Inv
  <1>2. QED BY <1>1, Invariant, PTL

-----------------------------------------------------------------------------
\* What the rules keep, as long as no two of them share a state.

\* There is one rule per scope.  Two rules of one scope overwrite each other's
\* state, and neither is kept (rate_limit.rs:139-175).
OneRulePerScope ==
    \A c \in Configs : \A i, j \in DOMAIN c.scoped_limits :
        c.scoped_limits[i].scope = c.scoped_limits[j].scope => i = j

RuleKept(rule, k) ==
    Kept(PolicyOf(rule), rule, states[k], log.at[k], regress[k], clock)

BucketKept(k) ==
    LegacyKept(config.capacity, config.refill_per_second, states[k], log.at[k], regress[k])

RulesKept ==
    /\ Legacy => \A k \in StateKeys : k[1] = "client" => BucketKept(k)
    /\ ~Legacy => \A i \in DOMAIN EffectiveRules, k \in StateKeys :
                    EffectiveRules[i].scope = k[1] => RuleKept(EffectiveRules[i], k)

\* The rules in force do not change, and no two of them have the same scope.
LEMMA RulesStay ==
    ASSUME Inv, OneRulePerScope
    PROVE  /\ \A i, j \in DOMAIN EffectiveRules :
                EffectiveRules[i].scope = EffectiveRules[j].scope => i = j
           /\ config' = config =>
                /\ EffectiveRules' = EffectiveRules /\ Legacy' = Legacy
                /\ \A rule : PolicyOf(rule)' = PolicyOf(rule)
  <1>1. \A i, j \in DOMAIN EffectiveRules :
           EffectiveRules[i].scope = EffectiveRules[j].scope => i = j
    <2>1. CASE config.scoped_limits = <<>>
      <3>1. DOMAIN EffectiveRules = {1}
        BY <2>1 DEF EffectiveRules
      <3>2. QED BY <3>1
    <2>2. CASE config.scoped_limits # <<>>
      BY <2>2 DEF EffectiveRules, OneRulePerScope, Inv
    <2>3. QED BY <2>1, <2>2
  <1>2. config' = config => EffectiveRules' = EffectiveRules /\ Legacy' = Legacy
    BY DEF EffectiveRules, DefaultRule, Legacy
  <1>3. config' = config => \A rule : PolicyOf(rule)' = PolicyOf(rule)
    BY DEF PolicyOf
  <1>4. QED BY <1>1, <1>2, <1>3

\* A state that nothing has been admitted under.
LEMMA KeptAtFirst ==
    ASSUME NEW rule \in Rule, NEW policy, NEW capacity \in Nat, NEW rate \in Nat, NEW A,
           A = <<>>
    PROVE  /\ Kept(policy, rule, LimitStateDefault, A, 0, 0)
           /\ LegacyKept(capacity, rate, LimitStateDefault, A, 0)
  <1> DEFINE s == LimitStateDefault
  <1>1. /\ s.last_refill = Unset /\ s.fixed_window_start = Unset /\ s.fixed_window_count = 0
        /\ s.sliding_hits = <<>>
    BY DEF LimitStateDefault
  <1>2. Len(A) = 0 /\ DOMAIN A = {}
    OBVIOUS
  <1>3. \A L, W : Spread(A, L, W)
    BY <1>2 DEF Spread
  <1>4. \A x, C, r, u, g : TokenInv(x, Unset, A, C, r, u, g)
    BY <1>2 DEF TokenInv, Paid
  <1>5. \A W : \A L \in Nat : FixedInv(Unset, 0, A, L, W, 0)
    BY <1>2, <1>3 DEF FixedInv
  <1>6. \A L, W : SlidingInv(<<>>, A, L, W, 0)
    BY <1>2, <1>3 DEF SlidingInv
  <1>7. rule.limit \in Nat
    BY RuleFields
  <1> HIDE DEF s
  <1>8. Kept(policy, rule, s, A, 0, 0)
    BY <1>1, <1>4, <1>5, <1>6, <1>7 DEF Kept
  <1>9. LegacyKept(capacity, rate, s, A, 0)
    BY <1>1, <1>4 DEF LegacyKept
  <1>10. QED BY <1>8, <1>9 DEF s

\* Time passes.
LEMMA KeptLater ==
    ASSUME NEW policy, NEW rule \in Rule, NEW s \in LimitState, NEW A \in Seq(Nat),
           NEW g \in Nat, NEW t \in Nat, NEW t1 \in Nat, t <= t1, MaxDelay \in Nat,
           Kept(policy, rule, s, A, g, t)
    PROVE  Kept(policy, rule, s, A, g, t1)
  <1> DEFINE W == WindowOf(rule)
             L == rule.limit
             S == s.fixed_window_start
             c == s.fixed_window_count
             H == s.sliding_hits
  <1>1. W \in Nat \ {0} /\ L \in Nat
    BY RuleFields
  <1>2. S \in Nat \union {Unset} /\ c \in Nat /\ H \in Seq(Nat)
    BY StateFields
  <1>3. policy = "fixed_window" => FixedInv(S, c, A, L, W, t1)
    <2> SUFFICES ASSUME policy = "fixed_window" PROVE FixedInv(S, c, A, L, W, t1)
      OBVIOUS
    <2>1. FixedInv(S, c, A, L, W, t)
      BY DEF Kept
    <2> HIDE DEF S, c, L, W
    <2>2. S # Unset => S <= t1
      BY <1>2, <2>1 DEF FixedInv
    <2>3. QED BY <2>1, <2>2 DEF FixedInv
  <1>4. policy = "sliding_window" => SlidingInv(H, A, L, W, t1)
    <2> SUFFICES ASSUME policy = "sliding_window" PROVE SlidingInv(H, A, L, W, t1)
      OBVIOUS
    <2>1. SlidingInv(H, A, L, W, t)
      BY DEF Kept
    <2> HIDE DEF H, L, W
    <2> DEFINE gone == Len(A) - Len(H)
    <2>2. \A i \in 1..gone : A[i] + W - MaxDelay <= t1
      <3> SUFFICES ASSUME NEW i \in 1..gone PROVE A[i] + W - MaxDelay <= t1
        OBVIOUS
      <3>1. A[i] + W - MaxDelay <= t
        BY <2>1 DEF SlidingInv
      <3>2. A[i] \in Nat
        <4>1. Len(A) \in Nat /\ Len(H) \in Nat
          BY <1>2
        <4>2. i \in 1..Len(A)
          BY <4>1
        <4>3. QED BY <4>2
      <3>3. QED BY <1>1, <3>1, <3>2
    <2>3. QED BY <2>1, <2>2 DEF SlidingInv
  <1>5. QED BY <1>3, <1>4 DEF Kept

LEMMA InitKept ==
    ASSUME Init, Inv
    PROVE  RulesKept
  <1>1. \A k \in StateKeys : /\ states[k] = LimitStateDefault /\ log.at[k] = <<>>
                             /\ regress[k] = 0
    BY DEF Init
  <1>2. clock = 0
    BY DEF Init
  <1>3. EffectiveRules \in Seq(Rule) /\ config.capacity \in Nat
          /\ config.refill_per_second \in Nat /\ DefaultRule \in Rule
    BY RulesTyped DEF Inv
  <1>4. ASSUME NEW k \in StateKeys PROVE BucketKept(k)
    BY <1>1, <1>3, KeptAtFirst DEF BucketKept
  <1>5. ASSUME NEW i \in DOMAIN EffectiveRules, NEW k \in StateKeys
        PROVE  RuleKept(EffectiveRules[i], k)
    <2>1. EffectiveRules[i] \in Rule
      BY <1>3
    <2>2. QED BY <1>1, <1>2, <1>3, <2>1, KeptAtFirst DEF RuleKept
  <1>6. QED BY <1>4, <1>5 DEF RulesKept

\* A step that does not touch the states, and lets time pass at most.
LEMMA LaterKept ==
    ASSUME Inv, RulesKept, OneRulePerScope, UNCHANGED <<config, states, log, regress>>,
           clock' \in Nat, clock <= clock'
    PROVE  RulesKept'
  <1>1. /\ EffectiveRules' = EffectiveRules /\ Legacy' = Legacy
        /\ \A rule : PolicyOf(rule)' = PolicyOf(rule)
    BY RulesStay
  <1>2. clock \in Nat /\ MaxDelay \in Nat
    BY LimiterAssumption DEF Inv
  <1>3. ASSUME Legacy, NEW k \in StateKeys, k[1] = "client" PROVE BucketKept(k)'
    BY <1>3 DEF RulesKept, BucketKept
  <1>4. ASSUME ~Legacy, NEW i \in DOMAIN EffectiveRules, NEW k \in StateKeys,
               EffectiveRules[i].scope = k[1]
        PROVE  RuleKept(EffectiveRules[i], k)'
    <2> DEFINE rule == EffectiveRules[i]
    <2>1. rule \in Rule
      BY RulesTyped DEF Inv
    <2>2. RuleKept(rule, k)
      BY <1>4 DEF RulesKept
    <2>3. states[k] \in LimitState /\ log.at[k] \in Seq(Nat) /\ regress[k] \in Nat
      BY DEF Inv, StatesTyped, LogTyped
    <2>4. rule' = rule /\ PolicyOf(rule)' = PolicyOf(rule)
      BY <1>1
    <2> HIDE DEF rule
    <2>5. Kept(PolicyOf(rule), rule, states[k], log.at[k], regress[k], clock')
      BY <1>2, <2>1, <2>2, <2>3, KeptLater DEF RuleKept
    <2>6. RuleKept(rule, k)'
      BY <2>4, <2>5 DEF RuleKept
    <2>7. QED BY <2>6 DEF rule
  <1>5. QED BY <1>1, <1>3, <1>4 DEF RulesKept

\* A check that leaves the state and the log of a key alone.
LEMMA KeyUntouched ==
    ASSUME Inv, NEW t \in Thread, Check(t), NEW k \in StateKeys, states'[k] = states[k]
    PROVE  regress'[k] = regress[k]
  <1>1. regress'[k] = regress[k] + DurationSince(states[k].last_refill, states[k].last_refill)
    BY RegressTyped
  <1>2. states[k] \in LimitState /\ regress[k] \in Nat
    BY DEF Inv, StatesTyped
  <1>3. states[k].last_refill \in Int
    BY <1>2, StateFields DEF Unset
  <1>4. DurationSince(states[k].last_refill, states[k].last_refill) = 0
    BY <1>3 DEF DurationSince
  <1>5. QED BY <1>1, <1>2, <1>4

\* A check by scoped rules keeps what each of them keeps.
LEMMA ScopedKept ==
    ASSUME Inv, RulesKept, OneRulePerScope, NEW t \in Thread, Check(t), ~Legacy,
           NEW i \in DOMAIN EffectiveRules, NEW k \in StateKeys,
           EffectiveRules[i].scope = k[1]
    PROVE  Kept(PolicyOf(EffectiveRules[i]), EffectiveRules[i], states'[k], log'.at[k],
                regress'[k], clock)
  <1> DEFINE ctx == thread[t].ctx
             now == thread[t].now
             rule == EffectiveRules[i]
             A == log.at[k]
             s == states[k]
             g == regress[k]
  <1>1. t \in Waiting
    BY DEF Check
  <1>2. /\ ctx \in Context /\ now \in Nat /\ clock \in Nat /\ MaxDelay \in Nat
        /\ now <= clock /\ clock <= now + MaxDelay
    BY <1>1, CallTimely
  <1>3. ScopedAdmits(ctx, now) \/ ScopedRefuses(ctx, now)
    BY CheckCases DEF LegacyAdmits, LegacyRefuses
  <1>4. Kept(PolicyOf(rule), rule, s, A, g, clock)
    BY DEF RulesKept, RuleKept
  <1>5. ASSUME states'[k] = states[k], log'.at[k] = log.at[k]
        PROVE  Kept(PolicyOf(rule), rule, states'[k], log'.at[k], regress'[k], clock)
    BY <1>4, <1>5, KeyUntouched
  <1> HIDE DEF ctx, now
  <1>6. CASE ScopedRefuses(ctx, now)
    BY <1>5, <1>6 DEF ScopedRefuses
  <1>7. CASE ScopedAdmits(ctx, now)
    <2>1. /\ states' = Committed(ctx, now) /\ log' = Logged(ctx)
          /\ Staged(rule, ctx, now).ok
      BY <1>7 DEF ScopedAdmits
    <2>2. log'.at[k] = IF StateKey(k[1], ctx) = k THEN Append(A, clock) ELSE A
      BY <1>2, <2>1, LoggedTyped
    <2>3. CASE StateKey(k[1], ctx) # k
      <3>1. Committed(ctx, now)[k] = states[k]
        BY <1>2, <2>3, AdmitAt
      <3>2. QED BY <1>5, <2>1, <2>2, <2>3, <3>1
    <2>4. CASE StateKey(k[1], ctx) = k
      <3>1. PICK j \in DOMAIN EffectiveRules :
               /\ EffectiveRules[j].scope = k[1]
               /\ Committed(ctx, now)[k] = Staged(EffectiveRules[j], ctx, now).state
        BY <1>2, <2>4, AdmitAt
      <3>2. j = i
        BY <3>1, RulesStay
      <3>3. states'[k] = Staged(rule, ctx, now).state
        BY <2>1, <3>1, <3>2
      <3>4. /\ rule \in Rule /\ PolicyOf(rule) \in Policies
            /\ StateKey(rule.scope, ctx) = k
        BY <2>4, RulesTyped DEF Inv
      <3>5. s \in LimitState /\ A \in Seq(Nat) /\ g \in Nat /\ InOrder(A, clock)
        BY DEF Inv, StatesTyped, LogTyped
      <3> DEFINE v == ApplyPolicy(s, now, rule)
                 s1 == states'[k]
      <3> HIDE DEF rule
      <3>6. /\ v.ok
            /\ s1.tokens = v.state.tokens /\ s1.last_refill = v.state.last_refill
            /\ s1.fixed_window_start = v.state.fixed_window_start
            /\ s1.fixed_window_count = v.state.fixed_window_count
            /\ s1.sliding_hits = v.state.sliding_hits
        BY <1>2, <2>1, <3>3, <3>4, StagedTyped
      <3>7. regress'[k] = g + DurationSince(s.last_refill, s1.last_refill)
        BY RegressTyped
      <3> HIDE DEF A, s, g, s1
      <3>8. Kept(PolicyOf(rule), rule, s1, Append(A, clock),
                 g + DurationSince(s.last_refill, s1.last_refill), clock)
        BY <1>2, <1>4, <3>4, <3>5, <3>6, RuleAdmits
      <3>9. QED BY <2>2, <2>4, <3>7, <3>8 DEF s1, rule
    <2>5. QED BY <2>3, <2>4
  <1>8. QED BY <1>3, <1>6, <1>7

\* So does a check by the bucket without scoped rules.
LEMMA BucketStep ==
    ASSUME Inv, RulesKept, NEW t \in Thread, Check(t), Legacy,
           NEW k \in StateKeys, k[1] = "client"
    PROVE  LegacyKept(config.capacity, config.refill_per_second, states'[k], log'.at[k],
                      regress'[k])
  <1> DEFINE ctx == thread[t].ctx
             now == thread[t].now
             ck == StateKey("client", ctx)
             A == log.at[k]
             s == states[k]
             g == regress[k]
             capacity == config.capacity
             rate == config.refill_per_second
  <1>1. t \in Waiting
    BY DEF Check
  <1>2. /\ ctx \in Context /\ now \in Nat /\ clock \in Nat /\ MaxDelay \in Nat
        /\ now <= clock /\ clock <= now + MaxDelay
    BY <1>1, CallTimely
  <1>3. LegacyAdmits(ctx, now) \/ LegacyRefuses(ctx, now)
    BY CheckCases DEF ScopedAdmits, ScopedRefuses
  <1> HIDE DEF ctx, now
  <1>4. LegacyKept(capacity, rate, s, A, g)
    BY DEF RulesKept, BucketKept
  <1>5. /\ states' = [states EXCEPT ![ck] = Bucket(ctx, now).state]
        /\ log' = IF Bucket(ctx, now).ok THEN Logged(ctx) ELSE log
    BY <1>3 DEF LegacyAdmits, LegacyRefuses
  <1>6. states \in [StateKeys -> LimitState]
    BY DEF Inv, StatesTyped
  <1>7. log'.at[k] = IF Bucket(ctx, now).ok /\ k = ck THEN Append(A, clock) ELSE A
    <2>1. Logged(ctx).at[k] = IF ck = k THEN Append(A, clock) ELSE A
      BY <1>2, LoggedTyped
    <2>2. QED BY <1>5, <2>1
  <1>8. CASE k # ck
    <2>1. states'[k] = states[k]
      BY <1>5, <1>6, <1>8
    <2>2. log'.at[k] = A
      BY <1>7, <1>8
    <2>3. QED BY <1>4, <2>1, <2>2, KeyUntouched
  <1>9. CASE k = ck
    <2> DEFINE v == TokenBucket(s, now, capacity, rate, 1)
    <2>1. Bucket(ctx, now) = v
      BY <1>9 DEF Bucket
    <2>2. states'[k] = v.state
      BY <1>5, <1>6, <1>9, <2>1
    <2>3. regress'[k] = g + DurationSince(s.last_refill, v.state.last_refill)
      BY <2>2, RegressTyped
    <2>4. s \in LimitState /\ A \in Seq(Nat) /\ g \in Nat
      BY DEF Inv, StatesTyped, LogTyped
    <2>5. capacity \in Nat /\ rate \in Nat
      BY RulesTyped DEF Inv
    <2>6. log'.at[k] = IF v.ok THEN Append(A, clock) ELSE A
      BY <1>7, <1>9, <2>1
    <2> HIDE DEF s, A, g, capacity, rate
    <2> DEFINE g1 == g + DurationSince(s.last_refill, v.state.last_refill)
    <2>7. /\ v.ok => LegacyKept(capacity, rate, v.state, Append(A, clock), g1)
          /\ ~v.ok => LegacyKept(capacity, rate, v.state, A, g1)
      BY <1>2, <1>4, <2>4, <2>5, LegacyStep
    <2>8. LegacyKept(capacity, rate, states'[k], log'.at[k], regress'[k])
      BY <2>2, <2>3, <2>6, <2>7
    <2>9. QED BY <2>8 DEF capacity, rate
  <1>10. QED BY <1>8, <1>9

LEMMA CheckKept ==
    ASSUME Inv, RulesKept, OneRulePerScope, NEW t \in Thread, Check(t)
    PROVE  RulesKept'
  <1>1. config' = config /\ clock' = clock
    BY DEF Check
  <1>2. /\ EffectiveRules' = EffectiveRules /\ Legacy' = Legacy
        /\ \A rule : PolicyOf(rule)' = PolicyOf(rule)
    BY <1>1, RulesStay
  <1>3. ASSUME Legacy, NEW k \in StateKeys, k[1] = "client" PROVE BucketKept(k)'
    BY <1>1, <1>3, BucketStep DEF BucketKept
  <1>4. ASSUME ~Legacy, NEW i \in DOMAIN EffectiveRules, NEW k \in StateKeys,
               EffectiveRules[i].scope = k[1]
        PROVE  RuleKept(EffectiveRules[i], k)'
    <2>1. PolicyOf(EffectiveRules[i])' = PolicyOf(EffectiveRules[i])
      BY <1>2
    <2>2. QED BY <1>1, <1>2, <1>4, <2>1, ScopedKept DEF RuleKept
  <1>5. QED BY <1>2, <1>3, <1>4 DEF RulesKept

\* Each rule keeps its part of the promise, when there is one rule per scope: the
\* states inserted at the end are those its own policy has staged
\* (rate_limit.rs:150-178,253-307).
THEOREM RulesInvariant ==
    ASSUME OneRulePerScope
    PROVE  Spec => []RulesKept
  <1>1. Init => Inv /\ RulesKept
    BY InitInv, InitKept
  <1>2. Inv /\ RulesKept /\ [Next]_vars => RulesKept'
    <2> SUFFICES ASSUME Inv, RulesKept, [Next]_vars PROVE RulesKept'
      OBVIOUS
    <2>1. clock \in Nat
      BY LimiterAssumption DEF Inv
    <2>2. ASSUME NEW t \in Thread, NEW ctx \in Context, Sample(t, ctx) PROVE RulesKept'
      <3>1. UNCHANGED <<config, states, log, regress>> /\ clock' = clock
        BY <2>2 DEF Sample
      <3>2. QED BY <2>1, <3>1, LaterKept
    <2>3. ASSUME NEW t \in Thread, Check(t) PROVE RulesKept'
      BY <2>3, CheckKept
    <2>4. CASE Tick
      <3>1. UNCHANGED <<config, states, log, regress>> /\ clock' = clock + 1
        BY <2>4 DEF Tick
      <3>2. QED BY <2>1, <3>1, LaterKept
    <2>5. CASE UNCHANGED vars
      <3>1. UNCHANGED <<config, states, log, regress>> /\ clock' = clock
        BY <2>5 DEF vars
      <3>2. QED BY <2>1, <3>1, LaterKept
    <2>6. QED BY <2>2, <2>3, <2>4, <2>5 DEF Next
  <1>3. QED BY <1>1, <1>2, Invariant, PTL DEF Spec

\* The key of the state that a rule keeps for one of its values.
LEMMA ValueKeys ==
    ASSUME NEW rule \in Rule, NEW v \in Values(rule)
    PROVE  /\ <<rule.scope, v>> \in StateKeys /\ rule.scope = <<rule.scope, v>>[1]
           /\ Admitted(rule, v) = log.at[<<rule.scope, v>>]
  <1>1. rule.scope \in Scopes
    BY RuleFields
  <1>2. QED BY <1>1 DEF Values, StateKeys, StateKey, Admitted

\* In any stretch as long as the window, less the time a thread can lose between
\* reading the clock and taking the lock, a sliding window admits at most its
\* limit and a fixed window at most twice its limit, for every limit, window,
\* number of threads and order in which they take the lock
\* (rate_limit.rs:135-136,274-307).
THEOREM WindowsAreKept ==
    ASSUME OneRulePerScope
    PROVE  Spec => []WindowsKept
  <1>1. Inv /\ RulesKept => WindowsKept
    <2> SUFFICES ASSUME Inv, RulesKept, NEW i \in DOMAIN EffectiveRules,
                        PolicyOf(EffectiveRules[i]) # "token_bucket",
                        NEW v \in Values(EffectiveRules[i])
                 PROVE  LET rule  == EffectiveRules[i]
                            limit == IF PolicyOf(rule) = "fixed_window"
                                     THEN 2 * rule.limit ELSE rule.limit
                        IN  Spread(Admitted(rule, v), limit, WindowOf(rule) - MaxDelay)
      BY DEF WindowsKept
    <2> DEFINE rule == EffectiveRules[i]
               k == <<rule.scope, v>>
               A == log.at[k]
    <2>1. rule \in Rule /\ PolicyOf(rule) \in Policies
      BY RulesTyped DEF Inv
    <2>2. ~Legacy
      <3>1. Legacy => rule = DefaultRule
        BY DEF Legacy, EffectiveRules
      <3>2. PolicyOf(DefaultRule) = config.policy
        BY RulesTyped DEF Inv
      <3>3. QED BY <3>1, <3>2 DEF Legacy
    <2>3. k \in StateKeys /\ rule.scope = k[1] /\ Admitted(rule, v) = A
      BY <2>1, ValueKeys
    <2>4. Kept(PolicyOf(rule), rule, states[k], A, regress[k], clock)
      BY <2>2, <2>3 DEF RulesKept, RuleKept
    <2> HIDE DEF rule, A, k
    <2>5. CASE PolicyOf(rule) = "fixed_window"
      <3>1. Spread(A, 2 * rule.limit, WindowOf(rule) - MaxDelay)
        BY <2>4, <2>5 DEF Kept, FixedInv
      <3>2. QED BY <2>3, <2>5, <3>1 DEF rule
    <2>6. CASE PolicyOf(rule) = "sliding_window"
      <3>1. Spread(A, rule.limit, WindowOf(rule) - MaxDelay)
        BY <2>4, <2>6 DEF Kept, SlidingInv
      <3>2. QED BY <2>3, <2>6, <3>1 DEF rule
    <2>7. PolicyOf(rule) # "token_bucket"
      BY DEF rule
    <2>8. QED BY <2>1, <2>5, <2>6, <2>7 DEF Policies
  <1>2. QED BY <1>1, Invariant, RulesInvariant, PTL

\* A token bucket admits, between any two moments, no more than a full bucket and
\* the refill of the time between, with a slack of MaxDelay and of the time by
\* which late threads have set last_refill back (rate_limit.rs:135,180-199,253-273).
THEOREM TokenBucketIsKept ==
    ASSUME OneRulePerScope
    PROVE  Spec => []TokenBucketKept
  <1>1. Inv /\ RulesKept => TokenBucketKept
    <2> SUFFICES ASSUME Inv, RulesKept, NEW i \in DOMAIN EffectiveRules,
                        PolicyOf(EffectiveRules[i]) = "token_bucket",
                        NEW v \in Values(EffectiveRules[i])
                 PROVE  LET rule == EffectiveRules[i]
                            rate == IF Legacy THEN config.refill_per_second ELSE rule.limit
                            unit == IF Legacy THEN 1 ELSE WindowOf(rule)
                        IN  TokensPaid(Admitted(rule, v), rule.limit, rate, unit,
                                       MaxDelay + regress[<<rule.scope, v>>])
      BY DEF TokenBucketKept, BucketsPaid
    <2> DEFINE rule == EffectiveRules[i]
               k == <<rule.scope, v>>
               A == log.at[k]
               slack == MaxDelay + regress[k]
    <2>1. rule \in Rule
      BY RulesTyped DEF Inv
    <2>2. k \in StateKeys /\ rule.scope = k[1] /\ Admitted(rule, v) = A
      BY <2>1, ValueKeys
    <2>3. A \in Seq(Nat)
      BY <2>2 DEF Inv, LogTyped
    <2>4. \A c, r, u : Paid(A, c * u, r, u, slack) => TokensPaid(A, c, r, u, slack)
      <3>1. DOMAIN A = 1..Len(A)
        BY <2>3
      <3>2. QED BY <3>1 DEF Paid, TokensPaid
    <2>5. CASE Legacy
      <3>1. rule = DefaultRule
        BY <2>5 DEF Legacy, EffectiveRules
      <3>2. rule.scope = "client" /\ rule.limit = config.capacity
        BY <3>1 DEF DefaultRule
      <3>3. BucketKept(k)
        BY <2>2, <2>5, <3>2 DEF RulesKept
      <3> HIDE DEF A, k, rule
      <3>4. Paid(A, config.capacity * 1, config.refill_per_second, 1, slack)
        BY <3>3 DEF BucketKept, LegacyKept, TokenInv, A
      <3>5. TokensPaid(A, config.capacity, config.refill_per_second, 1, slack)
        BY <2>4, <3>4
      <3>6. QED BY <2>2, <2>5, <3>2, <3>5 DEF rule, k
    <2>6. CASE ~Legacy
      <3>1. Kept("token_bucket", rule, states[k], A, regress[k], clock)
        BY <2>2, <2>6 DEF RulesKept, RuleKept
      <3> HIDE DEF A, k, rule
      <3>2. Paid(A, rule.limit * WindowOf(rule), rule.limit, WindowOf(rule), slack)
        BY <3>1 DEF Kept, TokenInv
      <3>3. TokensPaid(A, rule.limit, rule.limit, WindowOf(rule), slack)
        BY <2>4, <3>2
      <3>4. QED BY <2>2, <2>6, <3>3 DEF rule, k
    <2>7. QED BY <2>5, <2>6
  <1>2. QED BY <1>1, Invariant, RulesInvariant, PTL

\* A check that refuses finds a rule used up.
LEMMA RefusedByRule ==
    ASSUME Inv, RulesKept, NEW t \in Thread, Check(t), log' = log
    PROVE  \E i \in DOMAIN EffectiveRules :
             UsedUp(EffectiveRules[i], thread[t].ctx, thread[t].now)
  <1> DEFINE ctx == thread[t].ctx
             now == thread[t].now
  <1>1. t \in Waiting
    BY DEF Check
  <1>2. /\ ctx \in Context /\ now \in Nat /\ clock \in Nat /\ MaxDelay \in Nat
        /\ now <= clock /\ clock <= now + MaxDelay
    BY <1>1, CallTimely
  <1>3. log # Logged(ctx)
    <2>1. Logged(ctx).total = log.total + 1 /\ log.total \in Nat
      BY <1>2, LoggedTyped DEF Inv, LogTyped
    <2>2. QED BY <2>1
  <1>4. ScopedRefuses(ctx, now) \/ LegacyRefuses(ctx, now)
    BY <1>3, CheckCases DEF ScopedAdmits, LegacyAdmits
  <1> HIDE DEF ctx, now
  <1>5. CASE ScopedRefuses(ctx, now)
    <2>1. PICK i \in DOMAIN EffectiveRules : ~Staged(EffectiveRules[i], ctx, now).ok
      BY <1>5 DEF ScopedRefuses
    <2> DEFINE rule == EffectiveRules[i]
               k == StateKey(rule.scope, ctx)
               s == states[k]
               A == log.at[k]
               recent == {j \in DOMAIN A : A[j] > now - WindowOf(rule)}
    <2>2. rule \in Rule /\ PolicyOf(rule) \in Policies
      BY RulesTyped DEF Inv
    <2>3. rule.scope \in Scopes
      BY <2>2, RuleFields
    <2>4. k \in StateKeys /\ rule.scope = k[1]
      BY <1>2, <2>3, Keys
    <2>5. Admitted(rule, ValueKey(rule.scope, ctx)) = A
      BY DEF Admitted, StateKey
    <2>6. s \in LimitState /\ A \in Seq(Nat) /\ regress[k] \in Nat /\ InOrder(A, clock)
      BY <2>4 DEF Inv, StatesTyped, LogTyped
    <2>7. ~Legacy /\ Kept(PolicyOf(rule), rule, s, A, regress[k], clock)
      BY <1>5, <2>4 DEF RulesKept, RuleKept, ScopedRefuses
    <2>8. QuotaUsedUp(s, rule) \/ ~ApplyPolicy(s, now, rule).ok
      <3> HIDE DEF rule
      <3>1. ~Staged(rule, ctx, now).ok
        BY <2>1 DEF rule
      <3>2. QED BY <1>2, <2>2, <3>1, StagedTyped
    <2>9. CASE QuotaUsedUp(s, rule)
      <3>1. rule.quota # Unset /\ s.accepted_total >= rule.quota
        BY <2>9 DEF QuotaUsedUp
      <3>2. EffectiveRules = config.scoped_limits
        <4>1. config.scoped_limits = <<>> => rule = DefaultRule
          BY DEF EffectiveRules
        <4>2. config.scoped_limits = <<>> => rule.quota = Unset
          BY <4>1 DEF DefaultRule
        <4>3. QED BY <3>1, <4>2 DEF EffectiveRules
      <3>3. s.accepted_total = Len(A)
        BY <2>4, <3>2 DEF Inv, QuotaKept
      <3>4. Len(A) >= rule.quota
        BY <3>1, <3>3
      <3> HIDE DEF rule, A
      <3>5. UsedUp(rule, ctx, now)
        BY <2>5, <3>1, <3>4 DEF UsedUp
      <3>6. QED BY <3>5 DEF rule, ctx, now
    <2>10. CASE ~ApplyPolicy(s, now, rule).ok
      <3> HIDE DEF rule, s, A, k
      <3>1. rule.limit # 0 => IF PolicyOf(rule) = "token_bucket" THEN recent # {}
                              ELSE Cardinality(recent) >= rule.limit
        BY <1>2, <2>2, <2>6, <2>7, <2>10, RuleRefuses
      <3>2. UsedUp(rule, ctx, now)
        BY <2>5, <3>1 DEF UsedUp
      <3>3. QED BY <3>2 DEF rule, ctx, now
    <2>11. QED BY <2>8, <2>9, <2>10
  <1>6. CASE LegacyRefuses(ctx, now)
    <2> DEFINE rule == DefaultRule
               k == StateKey("client", ctx)
               s == states[k]
               A == log.at[k]
               capacity == config.capacity
               rate == config.refill_per_second
    <2>1. Legacy /\ ~Bucket(ctx, now).ok
      BY <1>6 DEF LegacyRefuses
    <2>2. 1 \in DOMAIN EffectiveRules /\ EffectiveRules[1] = rule
      BY <2>1 DEF Legacy, EffectiveRules
    <2>3. rule.scope = "client" /\ rule.limit = capacity /\ rule.window = 1
      BY <2>1 DEF DefaultRule, Legacy
    <2>4. WindowOf(rule) = 1 /\ PolicyOf(rule) = "token_bucket"
      <3>1. PolicyOf(rule) = config.policy
        BY RulesTyped DEF Inv
      <3>2. QED BY <2>1, <2>3, <3>1 DEF WindowOf, AtLeastOne, Legacy
    <2>5. k \in StateKeys /\ k[1] = "client"
      BY <1>2, Keys DEF Scopes
    <2>6. s \in LimitState /\ A \in Seq(Nat) /\ regress[k] \in Nat
      BY <2>5 DEF Inv, StatesTyped, LogTyped
    <2>7. LegacyKept(capacity, rate, s, A, regress[k])
      BY <2>1, <2>5 DEF RulesKept, BucketKept
    <2>8. capacity \in Nat /\ rate \in Nat
      BY RulesTyped DEF Inv
    <2>9. ~TokenBucket(s, now, capacity, rate, 1).ok
      BY <2>1 DEF Bucket
    <2> DEFINE recent == {j \in DOMAIN A : A[j] > now - 1}
    <2>10. Admitted(rule, ValueKey(rule.scope, ctx)) = A
      BY <2>3 DEF Admitted, StateKey
    <2> HIDE DEF rule, s, A, k, capacity, rate
    <2>11. capacity # 0 /\ rate # 0 => recent # {}
      BY <1>2, <2>6, <2>7, <2>8, <2>9, LegacyStep
    <2>12. UsedUp(rule, ctx, now)
      BY <2>1, <2>3, <2>4, <2>10, <2>11 DEF UsedUp, rate
    <2>13. QED BY <2>2, <2>12 DEF ctx, now
  <1>7. QED BY <1>4, <1>5, <1>6

\* Nobody is refused without a reason in the requests admitted under the caller's
\* own values: no refusal is a leftover of another caller's requests, or of the
\* order in which the threads took the lock (rate_limit.rs:135-178,253-307).
THEOREM RefusalsAreExplained ==
    ASSUME OneRulePerScope
    PROVE  Spec => RefusalExplained
  <1> DEFINE Explained ==
               \A t \in Thread : t \in Waiting /\ thread'[t].now = Unset /\ log' = log =>
                 \E i \in DOMAIN EffectiveRules :
                    UsedUp(EffectiveRules[i], thread[t].ctx, thread[t].now)
  <1>1. Inv /\ RulesKept /\ [Next]_vars => [Explained]_vars
    <2> SUFFICES ASSUME Inv, RulesKept, Next,
                        NEW t \in Thread, t \in Waiting, thread'[t].now = Unset, log' = log
                 PROVE  \E i \in DOMAIN EffectiveRules :
                          UsedUp(EffectiveRules[i], thread[t].ctx, thread[t].now)
      OBVIOUS
    <2>1. thread[t].now # Unset /\ DOMAIN thread = Thread
      BY DEF Waiting, Inv, ThreadsTimely
    <2>2. ASSUME NEW u \in Thread, NEW ctx \in Context, Sample(u, ctx) PROVE FALSE
      <3>1. u # t /\ thread' = [thread EXCEPT ![u] = [now |-> clock, ctx |-> ctx]]
        BY <2>2 DEF Sample
      <3>2. thread'[t] = thread[t]
        BY <2>1, <3>1
      <3>3. QED BY <2>1, <3>2
    <2>3. ASSUME NEW u \in Thread, Check(u) PROVE u = t
      <3> SUFFICES ASSUME u # t PROVE FALSE
        OBVIOUS
      <3>1. thread' = [thread EXCEPT ![u] = [now |-> Unset, ctx |-> <<>>]]
        BY <2>3 DEF Check
      <3>2. thread'[t] = thread[t]
        BY <2>1, <3>1
      <3>3. QED BY <2>1, <3>2
    <2>4. ~Tick
      BY <2>1 DEF Tick
    <2>5. Check(t)
      BY <2>2, <2>3, <2>4 DEF Next
    <2>6. QED BY <2>5, RefusedByRule
  <1>2. QED BY <1>1, Invariant, RulesInvariant, PTL DEF Spec, RefusalExplained

\* A rule with a limit does not refuse the first request.
LEMMA FirstAdmitted ==
    ASSUME NEW rule \in Rule, PolicyOf(rule) \in Policies, rule.limit # 0, NEW now \in Nat
    PROVE  ApplyPolicy(LimitStateDefault, now, rule).ok
  <1> SUFFICES ASSUME ~ApplyPolicy(LimitStateDefault, now, rule).ok PROVE FALSE
    OBVIOUS
  <1> DEFINE A == <<>>
             s == LimitStateDefault
             z == 0
  <1>1. A \in Seq(Nat) /\ DOMAIN A = {} /\ InOrder(A, z) /\ z \in Nat
    BY DEF InOrder
  <1>2. s \in LimitState
    BY DEF LimitState, LimitStateDefault
  <1>3. Kept(PolicyOf(rule), rule, s, A, z, z)
    <2>1. z \in Nat
      OBVIOUS
    <2>2. QED BY <2>1, KeptAtFirst
  <1>4. MaxDelay \in Nat
    BY LimiterAssumption
  <1> HIDE DEF A, s, z
  <1> DEFINE recent == {i \in DOMAIN A : A[i] > now - WindowOf(rule)}
  <1>5. ~ApplyPolicy(s, now, rule).ok
    BY DEF s
  <1>6. IF PolicyOf(rule) = "token_bucket" THEN recent # {}
        ELSE Cardinality(recent) >= rule.limit
    BY <1>1, <1>2, <1>3, <1>4, <1>5, RuleRefuses
  <1>7. recent = {}
    BY <1>1
  <1> HIDE DEF recent
  <1>8. Cardinality(recent) = 0
    BY <1>7, FS_EmptySet
  <1>9. rule.limit \in Nat
    BY RuleFields
  <1>10. QED BY <1>6, <1>7, <1>8, <1>9

\* Whoever is refused shares a key with somebody who has been admitted before, or
\* meets a rule that admits nobody; for any list of rules.
LEMMA RefusedAfterOthers ==
    ASSUME Inv, NEW t \in Thread, Check(t), log' = log
    PROVE  \E i \in DOMAIN EffectiveRules :
             LET rule == EffectiveRules[i]
             IN  \/ rule.limit = 0 \/ rule.quota = 0
                 \/ \E ctx \in log.who :
                      StateKey(rule.scope, ctx) = StateKey(rule.scope, thread[t].ctx)
  <1> DEFINE me == thread[t].ctx
             now == thread[t].now
  <1>1. t \in Waiting
    BY DEF Check
  <1>2. me \in Context /\ now \in Nat /\ now <= clock
    BY <1>1, CallTimely
  <1>3. log # Logged(me)
    <2>1. Logged(me).total = log.total + 1 /\ log.total \in Nat
      BY <1>2, LoggedTyped DEF Inv, LogTyped
    <2>2. QED BY <2>1
  <1>4. ScopedRefuses(me, now) \/ LegacyRefuses(me, now)
    BY <1>3, CheckCases DEF ScopedAdmits, LegacyAdmits
  <1> HIDE DEF me, now
  <1>5. CASE ScopedRefuses(me, now)
    <2>1. ~Legacy /\ \E i \in DOMAIN EffectiveRules : ~Staged(EffectiveRules[i], me, now).ok
      BY <1>5 DEF ScopedRefuses
    <2>2. PICK i \in DOMAIN EffectiveRules : ~Staged(EffectiveRules[i], me, now).ok
      BY <2>1
    <2> DEFINE rule == EffectiveRules[i]
               k == StateKey(rule.scope, me)
               s == states[k]
    <2>3. rule \in Rule /\ PolicyOf(rule) \in Policies
      BY RulesTyped DEF Inv
    <2>4. rule.scope \in Scopes /\ rule.quota \in Nat \union {Unset}
      BY <2>3, RuleFields
    <2>5. k \in StateKeys /\ rule.scope = k[1]
      BY <1>2, <2>4, Keys
    <2>6. ASSUME s # LimitStateDefault
          PROVE  \E ctx \in log.who : StateKey(rule.scope, ctx) = k
      <3>1. \E ctx \in log.who : StateKey(k[1], ctx) = k
        BY <2>1, <2>5, <2>6 DEF Inv, EntriesEarned
      <3>2. QED BY <2>5, <3>1
    <2>7. QuotaUsedUp(s, rule) \/ ~ApplyPolicy(s, now, rule).ok
      <3> HIDE DEF rule
      <3>1. ~Staged(rule, me, now).ok
        BY <2>2 DEF rule
      <3>2. QED BY <1>2, <2>3, <3>1, StagedTyped
    <2>8. s = LimitStateDefault => rule.limit = 0 \/ rule.quota = 0
      <3> SUFFICES ASSUME s = LimitStateDefault, rule.limit # 0 PROVE rule.quota = 0
        OBVIOUS
      <3>1. QuotaUsedUp(s, rule)
        BY <1>2, <2>3, <2>7, FirstAdmitted
      <3>2. rule.quota # Unset /\ s.accepted_total >= rule.quota
        BY <3>1 DEF QuotaUsedUp
      <3>3. s.accepted_total = 0
        BY DEF LimitStateDefault
      <3>4. QED BY <2>4, <3>2, <3>3
    <2>9. QED BY <2>6, <2>8 DEF me
  <1>6. CASE LegacyRefuses(me, now)
    <2> DEFINE k == StateKey("client", me)
    <2>1. Legacy /\ ~Bucket(me, now).ok
      BY <1>6 DEF LegacyRefuses
    <2>2. 1 \in DOMAIN EffectiveRules /\ EffectiveRules[1] = DefaultRule
      BY <2>1 DEF Legacy, EffectiveRules
    <2>3. DefaultRule.scope = "client" /\ DefaultRule.limit = config.capacity
      BY DEF DefaultRule
    <2>4. CASE config.capacity = 0
      BY <2>2, <2>3, <2>4
    <2>5. CASE config.capacity # 0
      <3>1. /\ k \in StateKeys /\ k[1] = "client"
            /\ ~Bucket(me, now).ok /\ config.capacity # 0 => states[k] # LimitStateDefault
        BY <1>2, LegacyTyped DEF Bucket
      <3>2. \E ctx \in log.who : StateKey(k[1], ctx) = k
        BY <2>1, <2>5, <3>1 DEF Inv, EntriesEarned
      <3>3. QED BY <2>2, <2>3, <3>1, <3>2 DEF me
    <2>6. QED BY <2>4, <2>5
  <1>7. QED BY <1>4, <1>5, <1>6
=============================================================================
