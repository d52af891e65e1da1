----------------------------- MODULE RatesProofs -----------------------------
(***************************************************************************)
(* For every rate, bucket, batch size and number of messages: the wait     *)
(* that a bee computes is long enough, so that no bee ever ends with       *)
(* "cannot get tokens after the wait", and the rates are kept over any     *)
(* stretch of time.  What an application without transactions emits is     *)
(* sent once and in order, whatever the outgoing rate.  Fairness plays no  *)
(* part in it.                                                             *)
(***************************************************************************)
EXTENDS Rates, TLAPS

\* A request for n tokens succeeds from time t on: k refills are due by then.
Enough(b, n, t) ==
  \E k \in Nat \ {0} : /\ k * b.resolution <= t - b.timestamp
                       /\ n <= b.tokens + k * b.quantum

\* At least x tokens can be added in t ticks.
Due(r, q, t, x) == \E k \in Nat : k * r <= t /\ x <= k * q

\* at lists when each token was taken from b: the tokens are no more than what
\* was added, from the beginning (at most one quantum for each resolution) and
\* since the i-th token (a full bucket besides).
Meter(tokens, max, q, r, timestamp, at, time) ==
  /\ at \in Seq(Nat)
  /\ timestamp <= time /\ tokens <= max
  /\ \A i \in DOMAIN at : at[i] <= time
  /\ \A i, j \in DOMAIN at : i <= j => at[i] <= at[j]
  /\ Due(r, q, timestamp, Len(at) + tokens)
  /\ \A i \in DOMAIN at :
       Due(r, q, timestamp - at[i] + r - 1, Len(at) - i + 1 + tokens - max)
  /\ \A i, j \in DOMAIN at : i <= j => j - i + 1 <= max + Ceil(at[j] - at[i], r) * q

Metered(b, at, time) ==
  Meter(b.tokens, b.max, b.quantum, b.resolution, b.timestamp, at, time)
-----------------------------------------------------------------------------
(* Division *)

LEMMA DivBounds ==
  ASSUME NEW a \in Nat, NEW r \in Nat \ {0}
  PROVE  /\ a \div r \in Nat
         /\ (a \div r) * r <= a
         /\ a < (a \div r) * r + r
OBVIOUS

LEMMA DivLargest ==
  ASSUME NEW a \in Nat, NEW r \in Nat \ {0}, NEW k \in Nat, k * r <= a
  PROVE  k <= a \div r
<1> DEFINE d == a \div r
<1>1. d \in Nat /\ a < d * r + r
  BY DivBounds
<1> HIDE DEF d
<1>2. SUFFICES ASSUME d < k PROVE FALSE
  BY <1>1 DEF d
<1>3. d + 1 <= k
  BY <1>1, <1>2
<1>4. (d + 1) * r <= k * r
  BY <1>1, <1>3
<1>5. (d + 1) * r = d * r + r
  BY <1>1
<1> QED
  BY <1>1, <1>4, <1>5

LEMMA LeMinus ==
  ASSUME NEW x \in Int, NEW y \in Int, NEW z \in Int, x <= y + z
  PROVE  x - y <= z
OBVIOUS

LEMMA CeilBounds ==
  ASSUME NEW t \in Nat, NEW q \in Nat \ {0}
  PROVE  /\ Ceil(t, q) \in Nat
         /\ t <= Ceil(t, q) * q
         /\ t > 0 => Ceil(t, q) > 0
BY DEF Ceil

\* Ceil(a, r) is at least each k with k * r <= a + r - 1.
LEMMA CeilLargest ==
  ASSUME NEW a \in Nat, NEW r \in Nat \ {0}, NEW k \in Nat, k * r <= a + r - 1
  PROVE  k <= Ceil(a, r)
<1> DEFINE c == Ceil(a, r)
<1>1. c \in Nat /\ a <= c * r
  BY CeilBounds
<1> HIDE DEF c
<1>2. SUFFICES ASSUME c < k PROVE FALSE
  BY <1>1 DEF c
<1>3. (c + 1) * r <= k * r
  BY <1>1, <1>2
<1>4. (c + 1) * r = c * r + r
  BY <1>1
<1> QED
  BY <1>1, <1>3, <1>4

LEMMA MulMono ==
  ASSUME NEW i \in Nat, NEW j \in Nat, i <= j, NEW q \in Nat
  PROVE  i * q \in Nat /\ j * q \in Nat /\ i * q <= j * q
OBVIOUS
-----------------------------------------------------------------------------
(* fill *)

LEMMA FillType ==
  ASSUME NEW b \in Buckets, NEW time \in Nat, b.timestamp <= time
  PROVE  /\ fill(b, time) \in Buckets
         /\ fill(b, time).max = b.max
         /\ fill(b, time).quantum = b.quantum
         /\ fill(b, time).resolution = b.resolution
         /\ fill(b, time).timestamp <= time
         /\ time - fill(b, time).timestamp < b.resolution
         /\ b.tokens <= b.max => fill(b, time).tokens <= b.max
<1> DEFINE d == time - b.timestamp
           e == d \div b.resolution
           t == b.tokens + e * b.quantum
<1>1. d \in Nat /\ b.resolution \in Nat \ {0} /\ b.quantum \in Nat
      /\ b.tokens \in Nat /\ b.max \in Nat
  BY DEF Buckets
<1>2. e \in Nat
  BY <1>1, DivBounds
<1> HIDE DEF e
<1>3. t \in Nat
  BY <1>1, <1>2
<1>4. fill(b, time) = IF d < b.resolution THEN b
        ELSE [b EXCEPT !.tokens = IF t < b.max THEN t ELSE b.max, !.timestamp = time]
  BY DEF fill, e
<1> HIDE DEF t
<1>5. CASE d < b.resolution
  BY <1>1, <1>4, <1>5
<1>6. CASE ~(d < b.resolution)
  <2> DEFINE u == IF t < b.max THEN t ELSE b.max
             f == [b EXCEPT !.tokens = u, !.timestamp = time]
  <2>1. fill(b, time) = f
    BY <1>4, <1>6
  <2>2. u \in Nat /\ u <= b.max
    BY <1>1, <1>3
  <2> HIDE DEF u
  <2>3. f \in Buckets /\ f.tokens = u /\ f.timestamp = time /\ f.max = b.max
        /\ f.quantum = b.quantum /\ f.resolution = b.resolution
    BY <2>2 DEF Buckets
  <2> HIDE DEF f
  <2> QED
    BY <1>1, <2>1, <2>2, <2>3
<1> QED
  BY <1>5, <1>6

\* fill adds e quanta at most, and e resolutions have passed.
LEMMA FillAdds ==
  ASSUME NEW b \in Buckets, NEW time \in Nat, b.timestamp <= time
  PROVE  Due(b.resolution, b.quantum, fill(b, time).timestamp - b.timestamp,
             fill(b, time).tokens - b.tokens)
<1> DEFINE d == time - b.timestamp
           e == d \div b.resolution
           t == b.tokens + e * b.quantum
<1>1. d \in Nat /\ b.resolution \in Nat \ {0} /\ b.quantum \in Nat
      /\ b.tokens \in Nat /\ b.max \in Nat /\ b.timestamp \in Nat
  BY DEF Buckets
<1>2. e \in Nat /\ e * b.resolution <= d
  BY <1>1, DivBounds
<1>3. fill(b, time) = IF d < b.resolution THEN b
        ELSE [b EXCEPT !.tokens = IF t < b.max THEN t ELSE b.max, !.timestamp = time]
  BY DEF fill
<1> HIDE DEF e
<1>4. CASE d < b.resolution
  <2>1. fill(b, time) = b
    BY <1>3, <1>4
  <2>2. 0 * b.resolution <= b.timestamp - b.timestamp /\ b.tokens - b.tokens <= 0 * b.quantum
    BY <1>1
  <2> QED
    BY <2>1, <2>2 DEF Due
<1>5. CASE ~(d < b.resolution)
  <2>1. t \in Nat
    BY <1>1, <1>2
  <2>2. fill(b, time).timestamp = time /\ fill(b, time).tokens <= t
    <3> HIDE DEF t
    <3> QED
      BY <1>1, <1>3, <1>5, <2>1 DEF Buckets
  <2>3. fill(b, time).tokens \in Nat /\ e * b.quantum \in Nat
    BY <1>1, <1>2, FillType DEF Buckets
  <2>4. fill(b, time).tokens - b.tokens <= e * b.quantum
    BY <1>1, <2>2, <2>3, LeMinus
  <2> QED
    BY <1>2, <2>2, <2>4 DEF Due
<1> QED
  BY <1>4, <1>5
-----------------------------------------------------------------------------
(* Get and When *)

LEMMA GotType ==
  ASSUME NEW b \in Buckets, NEW time \in Nat, b.timestamp <= time, NEW n \in Nat
  PROVE  /\ Got(b, n, time) \in Buckets
         /\ Got(b, n, time).max = b.max
         /\ Got(b, n, time).quantum = b.quantum
         /\ Got(b, n, time).resolution = b.resolution
         /\ Got(b, n, time).timestamp <= time
<1> DEFINE f == fill(b, time)
<1>1. f \in Buckets /\ f.max = b.max /\ f.quantum = b.quantum
      /\ f.resolution = b.resolution /\ f.timestamp <= time
  BY FillType
<1>2. Got(b, n, time) = IF Unlimited(b) THEN b
                       ELSE IF n <= f.tokens THEN [f EXCEPT !.tokens = f.tokens - n] ELSE f
  BY DEF Got, Ok
<1> HIDE DEF f
<1>3. CASE n <= f.tokens
  <2>1. f.tokens - n \in Nat
    BY <1>1, <1>3 DEF Buckets
  <2> QED
    BY <1>1, <1>2, <1>3, <2>1 DEF Buckets
<1>4. CASE ~(n <= f.tokens)
  BY <1>1, <1>2, <1>4
<1> QED
  BY <1>3, <1>4

\* When a request has to wait, When is long enough.
LEMMA WhenEnough ==
  ASSUME NEW b \in Buckets, NEW time \in Nat, b.timestamp <= time,
         NEW n \in Nat, ~Ok(b, n, time), n <= b.max
  PROVE  /\ When(b, n, time) \in Nat
         /\ Enough(Got(b, n, time), n, time + When(b, n, time))
<1> DEFINE f == fill(b, time)
           t == n - f.tokens
           k == Ceil(t, b.quantum)
<1>1. f \in Buckets /\ f.quantum = b.quantum /\ f.resolution = b.resolution
      /\ f.timestamp <= time
  BY FillType
<1>2. ~Unlimited(b) /\ ~(n <= f.tokens)
  BY DEF Ok
<1>3. b.quantum \in Nat \ {0} /\ b.resolution \in Nat \ {0} /\ b.max \in Nat
  BY <1>2 DEF Buckets, Unlimited
<1>4. Got(b, n, time) = f
  BY <1>2 DEF Got, Ok
<1>5. f.tokens \in Nat /\ f.timestamp \in Nat
  BY <1>1 DEF Buckets
<1>6. t \in Nat /\ t > 0
  BY <1>2, <1>5
<1>7. When(b, n, time) = k * b.resolution
  BY <1>2, <1>3, <1>6 DEF When, Ceil
<1>8. k \in Nat \ {0} /\ t <= k * b.quantum
  BY <1>3, <1>6, CeilBounds
<1> HIDE DEF f, k
<1>9. k * b.resolution \in Nat /\ k * b.quantum \in Nat
  BY <1>3, <1>8
<1>10. /\ k * f.resolution <= (time + When(b, n, time)) - f.timestamp
       /\ n <= f.tokens + k * f.quantum
  BY <1>1, <1>5, <1>7, <1>8, <1>9
<1> QED
  BY <1>4, <1>7, <1>8, <1>9, <1>10 DEF Enough

\* From then on the request succeeds: this is why the bee does not meet
\* "cannot get tokens after the wait".
LEMMA EnoughOk ==
  ASSUME NEW b \in Buckets, NEW n \in Nat, n <= b.max,
         NEW t \in Int, Enough(b, n, t), NEW time \in Nat, t <= time
  PROVE  Ok(b, n, time)
<1>1. PICK k \in Nat \ {0} : /\ k * b.resolution <= t - b.timestamp
                             /\ n <= b.tokens + k * b.quantum
  BY DEF Enough
<1> DEFINE d == time - b.timestamp
           e == d \div b.resolution
<1>2. b.resolution \in Nat \ {0} /\ b.quantum \in Nat /\ b.tokens \in Nat
      /\ b.max \in Nat /\ b.timestamp \in Nat
  BY DEF Buckets
<1>3. k * b.resolution \in Nat /\ b.resolution <= k * b.resolution
  BY <1>2
<1>4. d \in Nat /\ k * b.resolution <= d /\ ~(d < b.resolution)
  BY <1>1, <1>2, <1>3
<1>5. e \in Nat /\ k <= e
  BY <1>2, <1>4, DivBounds, DivLargest
<1>6. fill(b, time).tokens = IF b.tokens + e * b.quantum < b.max
                            THEN b.tokens + e * b.quantum ELSE b.max
  BY <1>4 DEF fill, Buckets
<1> HIDE DEF e, d
<1>7. k * b.quantum \in Nat /\ e * b.quantum \in Nat /\ k * b.quantum <= e * b.quantum
  BY <1>2, <1>5, MulMono
<1> QED
  BY <1>1, <1>2, <1>6, <1>7 DEF Ok
-----------------------------------------------------------------------------
(* The tokens that were taken *)

LEMMA DueSum ==
  ASSUME NEW r \in Nat, NEW q \in Nat, NEW t \in Int, NEW x \in Int,
         NEW d \in Int, NEW y \in Int, Due(r, q, t, x), Due(r, q, d, y)
  PROVE  Due(r, q, t + d, x + y)
<1>1. PICK k \in Nat : k * r <= t /\ x <= k * q
  BY DEF Due
<1>2. PICK e \in Nat : e * r <= d /\ y <= e * q
  BY DEF Due
<1> DEFINE kr == k * r
           er == e * r
           kq == k * q
           eq == e * q
<1>3. /\ (k + e) * r = kr + er /\ (k + e) * q = kq + eq /\ k + e \in Nat
      /\ {kr, er, kq, eq} \subseteq Int
  OBVIOUS
<1>4. kr <= t /\ x <= kq /\ er <= d /\ y <= eq
  BY <1>1, <1>2
<1> HIDE DEF kr, er, kq, eq
<1>5. kr + er <= t + d /\ x + y <= kq + eq
  BY <1>3, <1>4
<1> QED
  BY <1>3, <1>5 DEF Due

LEMMA MeteredLater ==
  ASSUME NEW b \in Buckets, NEW at, NEW time \in Nat, Metered(b, at, time),
         NEW later \in Nat, time <= later
  PROVE  Metered(b, at, later)
<1>1. /\ at \in Seq(Nat) /\ b.timestamp \in Nat /\ b.timestamp <= time
      /\ \A i \in DOMAIN at : at[i] <= time
  BY DEF Metered, Meter, Buckets
<1>2. b.timestamp <= later
  BY <1>1
<1>3. ASSUME NEW i \in DOMAIN at
      PROVE  at[i] <= later
  <2>1. at[i] \in Nat /\ at[i] <= time
    BY <1>1
  <2> QED
    BY <2>1
<1> QED
  BY <1>2, <1>3 DEF Metered, Meter

LEMMA DueSince ==
  ASSUME NEW r \in Nat, NEW q \in Nat, NEW t \in Nat, NEW u \in Nat,
         NEW m \in Nat, NEW n \in Nat, NEW max \in Nat,
         NEW a \in Nat, NEW i \in Nat, NEW len \in Nat,
         Due(r, q, t - a + r - 1, len - i + 1 + m - max), Due(r, q, u - t, n - m)
  PROVE  Due(r, q, u - a + r - 1, len - i + 1 + n - max)
<1>1. Due(r, q, (t - a + r - 1) + (u - t), (len - i + 1 + m - max) + (n - m))
  BY DueSum
<1>2. /\ (t - a + r - 1) + (u - t) = u - a + r - 1
      /\ (len - i + 1 + m - max) + (n - m) = len - i + 1 + n - max
  OBVIOUS
<1> QED
  BY <1>1, <1>2

LEMMA MeteredMore ==
  ASSUME NEW at, NEW time \in Nat, NEW r \in Nat, NEW q \in Nat, NEW max \in Nat,
         NEW t \in Nat, NEW m \in Nat, Meter(m, max, q, r, t, at, time),
         NEW u \in Nat, NEW n \in Nat, u <= time, n <= max,
         Due(r, q, u - t, n - m)
  PROVE  Meter(n, max, q, r, u, at, time)
<1>1. at \in Seq(Nat) /\ Len(at) \in Nat
  BY DEF Meter
<1>2. Due(r, q, u, Len(at) + n)
  <2>1. Due(r, q, t, Len(at) + m)
    BY DEF Meter
  <2>2. Due(r, q, t + (u - t), (Len(at) + m) + (n - m))
    BY <1>1, <2>1, DueSum
  <2>3. t + (u - t) = u /\ (Len(at) + m) + (n - m) = Len(at) + n
    BY <1>1
  <2> QED
    BY <2>2, <2>3
<1>3. ASSUME NEW i \in DOMAIN at
      PROVE  Due(r, q, u - at[i] + r - 1, Len(at) - i + 1 + n - max)
  <2>1. Due(r, q, t - at[i] + r - 1, Len(at) - i + 1 + m - max)
    BY DEF Meter
  <2>2. i \in Nat /\ at[i] \in Nat
    BY <1>1
  <2> QED
    BY <1>1, <2>1, <2>2, DueSince
<1> QED
  BY <1>1, <1>2, <1>3 DEF Meter

LEMMA MeteredFill ==
  ASSUME NEW b \in Buckets, NEW at, NEW time \in Nat, Metered(b, at, time)
  PROVE  Metered(fill(b, time), at, time)
<1>1. b.timestamp <= time /\ b.tokens <= b.max
  BY DEF Metered, Meter
<1>2. Due(b.resolution, b.quantum, fill(b, time).timestamp - b.timestamp,
          fill(b, time).tokens - b.tokens)
  BY <1>1, FillAdds
<1>3. /\ fill(b, time) \in Buckets /\ fill(b, time).max = b.max
      /\ fill(b, time).quantum = b.quantum /\ fill(b, time).resolution = b.resolution
      /\ fill(b, time).timestamp <= time /\ fill(b, time).tokens <= b.max
  BY <1>1, FillType
<1>4. /\ {b.resolution, b.quantum, b.max, b.timestamp, b.tokens} \subseteq Nat
      /\ {fill(b, time).timestamp, fill(b, time).tokens} \subseteq Nat
  BY <1>3 DEF Buckets
<1> QED
  BY <1>2, <1>3, <1>4, MeteredMore DEF Metered

LEMMA DueCeil ==
  ASSUME NEW r \in Nat \ {0}, NEW q \in Nat, NEW a \in Nat, NEW d \in Int, NEW x \in Int,
         d <= a, Due(r, q, d + r - 1, x)
  PROVE  x <= Ceil(a, r) * q
<1>1. PICK k \in Nat : k * r <= d + r - 1 /\ x <= k * q
  BY DEF Due
<1>2. k * r <= a + r - 1
  BY <1>1
<1>3. k <= Ceil(a, r) /\ Ceil(a, r) \in Nat
  BY <1>2, CeilLargest, CeilBounds
<1>4. k * q <= Ceil(a, r) * q
  BY <1>3, MulMono
<1>5. k * q \in Int /\ Ceil(a, r) * q \in Int
  BY <1>3
<1> QED
  BY <1>1, <1>4, <1>5

LEMMA DueCeilSince ==
  ASSUME NEW r \in Nat \ {0}, NEW q \in Nat, NEW t \in Nat, NEW time \in Nat, t <= time,
         NEW a \in Nat, a <= time, NEW i \in Nat, NEW len \in Nat, NEW m \in Nat,
         NEW max \in Nat, Due(r, q, t - a + r - 1, len - i + 1 + m - max)
  PROVE  len - i + 1 + m - max <= Ceil(time - a, r) * q
<1>1. time - a \in Nat /\ t - a \in Int /\ t - a <= time - a
  OBVIOUS
<1>2. len - i + 1 + m - max \in Int
  OBVIOUS
<1> QED
  BY <1>1, <1>2, DueCeil

LEMMA DueDiv ==
  ASSUME NEW r \in Nat \ {0}, NEW q \in Nat, NEW t \in Nat, NEW time \in Nat, t <= time,
         NEW x \in Int, Due(r, q, t, x)
  PROVE  x <= (time \div r) * q
<1>1. PICK k \in Nat : k * r <= t /\ x <= k * q
  BY DEF Due
<1>2. k * r <= time
  BY <1>1
<1>3. k <= time \div r /\ time \div r \in Nat
  BY <1>2, DivLargest, DivBounds
<1>4. k * q <= (time \div r) * q
  BY <1>3, MulMono
<1>5. k * q \in Int /\ (time \div r) * q \in Int
  BY <1>3
<1> QED
  BY <1>1, <1>4, <1>5

LEMMA MeteredWithin ==
  ASSUME NEW b \in Buckets, NEW at, NEW time \in Nat, Metered(b, at, time)
  PROVE  /\ Len(at) <= (time \div b.resolution) * b.quantum
         /\ \A i, j \in DOMAIN at : i <= j =>
              j - i + 1 <= b.max + Ceil(at[j] - at[i], b.resolution) * b.quantum
<1>1. /\ b.resolution \in Nat \ {0} /\ b.quantum \in Nat /\ b.timestamp \in Nat
      /\ b.tokens \in Nat /\ b.timestamp <= time
      /\ Due(b.resolution, b.quantum, b.timestamp, Len(at) + b.tokens)
      /\ Len(at) \in Nat
  BY DEF Metered, Meter, Buckets
<1>2. Len(at) + b.tokens \in Int
  BY <1>1
<1>3. Len(at) + b.tokens <= (time \div b.resolution) * b.quantum
  BY <1>1, <1>2, DueDiv
<1>4. (time \div b.resolution) * b.quantum \in Int
  BY <1>1, DivBounds
<1>5. Len(at) <= (time \div b.resolution) * b.quantum
  BY <1>1, <1>3, <1>4
<1> QED
  BY <1>5 DEF Metered, Meter

LEMMA LeSince ==
  ASSUME NEW i \in Nat, NEW j \in Nat, NEW len \in Nat, NEW n \in Nat, NEW m \in Nat,
         NEW max \in Nat, NEW c \in Nat,
         j <= len + n, n <= m, len - i + 1 + m - max <= c
  PROVE  j - i + 1 <= max + c
OBVIOUS

\* n tokens more are taken, at a time when the bucket is up to date.
LEMMA MeterTake ==
  ASSUME NEW at \in Seq(Nat), NEW time \in Nat, NEW r \in Nat \ {0}, NEW q \in Nat, NEW max \in Nat,
         NEW t \in Nat, NEW m \in Nat, Meter(m, max, q, r, t, at, time),
         NEW n \in Nat, n <= m, time - t < r
  PROVE  Meter(m - n, max, q, r, t, at \o [i \in 1..n |-> time], time)
<1> DEFINE new == [i \in 1..n |-> time]
           all == at \o new
<1>0. \A i \in DOMAIN at : at[i] <= time
  BY Zenon DEF Meter
<1>1. /\ at \in Seq(Nat) /\ Len(at) \in Nat /\ t <= time /\ m <= max
      /\ \A i \in DOMAIN at : at[i] \in Nat
  BY DEF Meter
<1>2. new \in Seq(Nat) /\ Len(new) = n
  OBVIOUS
<1>3. /\ all \in Seq(Nat) /\ Len(all) = Len(at) + n /\ DOMAIN all = 1..(Len(at) + n)
      /\ \A i \in DOMAIN at : all[i] = at[i]
      /\ \A i \in DOMAIN all : i \notin DOMAIN at => all[i] = time
      /\ DOMAIN at = 1..Len(at)
  BY <1>1, <1>2
<1> HIDE DEF new, all
<1>11. \A i \in DOMAIN all : i \in Nat /\ i <= Len(at) + n
  BY <1>1, <1>3
<1>4. \A i \in DOMAIN all : all[i] \in Nat /\ all[i] <= time
  <2> TAKE i \in DOMAIN all
  <2>1. CASE i \in DOMAIN at
    BY <1>0, <1>1, <1>3, <2>1
  <2>2. CASE i \notin DOMAIN at
    <3>1. all[i] = time
      BY <1>3, <2>2
    <3> QED
      BY <3>1
  <2> QED
    BY <2>1, <2>2
<1>5. \A i, j \in DOMAIN all : i <= j => all[i] <= all[j]
  <2>1. \A i, j \in DOMAIN at : i <= j => at[i] <= at[j]
    BY DEF Meter
  <2> SUFFICES ASSUME NEW i \in DOMAIN all, NEW j \in DOMAIN all, i <= j
               PROVE  all[i] <= all[j]
    OBVIOUS
  <2>2. CASE j \in DOMAIN at
    <3>1. i \in DOMAIN at
      BY <1>1, <1>3, <2>2
    <3> QED
      BY <1>3, <2>1, <2>2, <3>1
  <2>3. CASE j \notin DOMAIN at
    <3>1. all[j] = time
      BY <1>3, <2>3
    <3> QED
      BY <1>4, <3>1
  <2> QED
    BY <2>2, <2>3
<1>6. Due(r, q, t, Len(all) + (m - n))
  <2>1. Due(r, q, t, Len(at) + m)
    BY DEF Meter
  <2>2. Len(all) + (m - n) = Len(at) + m
    BY <1>1, <1>3
  <2> QED
    BY <2>1, <2>2
<1>7. ASSUME NEW i \in DOMAIN all
      PROVE  Due(r, q, t - all[i] + r - 1, Len(all) - i + 1 + (m - n) - max)
  <2>1. CASE i \in DOMAIN at
    <3>1. Due(r, q, t - at[i] + r - 1, Len(at) - i + 1 + m - max)
      BY <2>1 DEF Meter
    <3>2. i \in Nat
      BY <1>1, <2>1
    <3>3. Len(all) - i + 1 + (m - n) - max = Len(at) - i + 1 + m - max
      BY <1>1, <1>3, <3>2
    <3> QED
      BY <1>3, <2>1, <3>1, <3>3
  <2>2. CASE i \notin DOMAIN at
    <3>1. i \in Nat /\ Len(at) < i
      BY <1>1, <1>3, <2>2
    <3>2. Len(all) - i + 1 + (m - n) - max <= 0
      BY <1>1, <1>3, <3>1
    <3>3. 0 <= t - time + r - 1
      BY <1>1
    <3>4. 0 * r = 0 /\ 0 * q = 0
      OBVIOUS
    <3>5. Due(r, q, t - time + r - 1, Len(all) - i + 1 + (m - n) - max)
      BY <3>2, <3>3, <3>4 DEF Due
    <3> QED
      BY <1>3, <2>2, <3>5
  <2> QED
    BY <2>1, <2>2
<1>8. ASSUME NEW i \in DOMAIN all, NEW j \in DOMAIN all, i <= j
      PROVE  j - i + 1 <= max + Ceil(all[j] - all[i], r) * q
  <2>1. CASE j \in DOMAIN at
    <3>1. i \in DOMAIN at
      BY <1>1, <1>3, <1>8, <2>1
    <3> QED
      BY <1>3, <1>8, <2>1, <3>1 DEF Meter
  <2>2. CASE j \notin DOMAIN at /\ i \notin DOMAIN at
    <3>1. /\ i \in Nat /\ j \in Nat /\ Len(at) < i /\ j <= Len(at) + n
          /\ all[j] = time /\ all[i] = time
      BY <1>1, <1>3, <2>2
    <3>2. j - i + 1 <= max
      BY <1>1, <3>1
    <3>3. time - time = 0 /\ Ceil(0, r) \in Nat
      BY CeilBounds
    <3>4. Ceil(0, r) * q \in Nat
      BY <3>3
    <3>5. j - i + 1 <= max + Ceil(0, r) * q
      BY <3>1, <3>2, <3>4
    <3> QED
      BY <3>1, <3>3, <3>5
  <2>3. CASE j \notin DOMAIN at /\ i \in DOMAIN at
    <3>1. i \in Nat /\ j \in Nat /\ j <= Len(at) + n
      BY <1>11
    <3>2. PICK a \in Nat : a = at[i] /\ a <= time
      BY <1>0, <1>1, <2>3
    <3>3. all[j] = time /\ all[i] = a
      BY <1>3, <2>3, <3>2
    <3>4. Due(r, q, t - a + r - 1, Len(at) - i + 1 + m - max)
      BY <2>3, <3>2 DEF Meter
    <3>5. Len(at) - i + 1 + m - max <= Ceil(time - a, r) * q
      BY <1>1, <3>1, <3>2, <3>4, DueCeilSince
    <3>6. time - a \in Nat
      BY <3>2
    <3>7. Ceil(time - a, r) \in Nat
      BY <3>6, CeilBounds
    <3>8. Ceil(time - a, r) * q \in Nat
      BY <3>7
    <3>9. j - i + 1 <= max + Ceil(time - a, r) * q
      BY <1>1, <3>1, <3>5, <3>8, LeSince
    <3> QED
      BY <3>3, <3>9
  <2> QED
    BY <2>1, <2>2, <2>3
<1>9. m - n <= max
  BY <1>1
<1>10. Meter(m - n, max, q, r, t, all, time)
  BY <1>1, <1>3, <1>4, <1>5, <1>6, <1>7, <1>8, <1>9 DEF Meter
<1> QED
  BY <1>10 DEF all, new

LEMMA MeteredGot ==
  ASSUME NEW b \in Buckets, ~Unlimited(b), NEW at, NEW time \in Nat, Metered(b, at, time),
         NEW n \in Nat
  PROVE  IF Ok(b, n, time)
         THEN Metered(Got(b, n, time), at \o [i \in 1..n |-> time], time)
         ELSE Metered(Got(b, n, time), at, time)
<1>1. b.timestamp <= time /\ at \in Seq(Nat)
  BY DEF Metered, Meter
<1>2. Metered(fill(b, time), at, time)
  BY MeteredFill
<1>3. PICK f \in Buckets : f = fill(b, time) /\ time - f.timestamp < f.resolution
  BY <1>1, FillType
<1>4. CASE Ok(b, n, time)
  <2>1. n <= f.tokens
    BY <1>3, <1>4 DEF Ok
  <2>2. Got(b, n, time) = [f EXCEPT !.tokens = f.tokens - n]
    BY <1>3, <1>4 DEF Got
  <2>3. /\ Got(b, n, time).tokens = f.tokens - n /\ Got(b, n, time).max = f.max
        /\ Got(b, n, time).quantum = f.quantum /\ Got(b, n, time).resolution = f.resolution
        /\ Got(b, n, time).timestamp = f.timestamp
    BY <2>2 DEF Buckets
  <2>4. /\ f.tokens \in Nat /\ f.max \in Nat /\ f.quantum \in Nat
        /\ f.resolution \in Nat \ {0} /\ f.timestamp \in Nat
    BY DEF Buckets
  <2>5. Meter(f.tokens, f.max, f.quantum, f.resolution, f.timestamp, at, time)
    BY <1>2, <1>3 DEF Metered
  <2>6. Meter(f.tokens - n, f.max, f.quantum, f.resolution, f.timestamp,
              at \o [i \in 1..n |-> time], time)
    BY <1>1, <1>3, <2>1, <2>4, <2>5, MeterTake
  <2> QED
    BY <1>4, <2>3, <2>6 DEF Metered
<1>5. CASE ~Ok(b, n, time)
  BY <1>2, <1>5 DEF Got
<1> QED
  BY <1>4, <1>5
-----------------------------------------------------------------------------
(* The inductive invariant *)

\* A bucket and when its tokens were taken.
Meets(b, at, time) ==
  /\ b \in Buckets /\ b.timestamp <= time
  /\ ~Unlimited(b) => b.max > 0 /\ Metered(b, at, time)

\* A timer at t for n tokens of b is late enough.
Waits(b, t, n) ==
  t # NoTimer => /\ t \in Int /\ n \in Nat /\ ~Unlimited(b)
                 /\ n <= b.max /\ Enough(b, n, t)

\* No chunk of s is larger than max.
Fits(s, max) == \E S : s \in Seq(S) /\ \A c \in S : Size(c) \in 0..max

\* The inductive invariant: what is handled, and what is sent.
InInv ==
  /\ Meets(inB, in, now) /\ Waits(inB, inT, batch) /\ in \in Seq(Nat)
  /\ batchSize(app) \in Nat /\ (Unlimited(inB) \/ batchSize(app) <= inB.max)

OutInv ==
  /\ Meets(outB, outAt, now) /\ Waits(outB, outT, Size(outM))
  /\ IF Unlimited(outB) THEN chunks = <<>> /\ outCh = <<>>
     ELSE Fits(chunks, outB.max) /\ Fits(outCh, outB.max)

IInv == app \in App /\ now \in Nat /\ status = "started" /\ InInv /\ OutInv
-----------------------------------------------------------------------------
(* A bucket over time *)

LEMMA MeetsLater ==
  ASSUME NEW b, NEW at, NEW time \in Nat, Meets(b, at, time)
  PROVE  Meets(b, at, time + 1)
<1>1. b \in Buckets /\ b.timestamp <= time
  BY DEF Meets
<1>2. b.timestamp <= time + 1
  <2>1. b.timestamp \in Nat
    BY <1>1 DEF Buckets
  <2> QED
    BY <1>1, <2>1
<1>3. ASSUME ~Unlimited(b)
      PROVE  b.max > 0 /\ Metered(b, at, time + 1)
  <2>1. b.max > 0 /\ Metered(b, at, time)
    BY <1>3 DEF Meets
  <2>2. time + 1 \in Nat /\ time <= time + 1
    OBVIOUS
  <2> QED
    BY <1>1, <2>1, <2>2, MeteredLater
<1> QED
  BY <1>1, <1>2, <1>3 DEF Meets

\* Get takes the tokens, if they are there.
LEMMA MeetsGot ==
  ASSUME NEW b, NEW at, NEW time \in Nat, Meets(b, at, time), NEW n \in Nat
  PROVE  /\ Got(b, n, time).max = b.max
         /\ Unlimited(Got(b, n, time)) <=> Unlimited(b)
         /\ Ok(b, n, time) => Meets(Got(b, n, time), at \o [i \in 1..n |-> time], time)
         /\ ~Ok(b, n, time) => Meets(Got(b, n, time), at, time)
<1> DEFINE g == Got(b, n, time)
<1>1. b \in Buckets /\ b.timestamp <= time
  BY DEF Meets
<1>2. /\ g \in Buckets /\ g.max = b.max /\ g.quantum = b.quantum
      /\ g.timestamp <= time
  BY <1>1, GotType
<1>3. Unlimited(g) <=> Unlimited(b)
  BY <1>2 DEF Unlimited
<1>4. ASSUME ~Unlimited(b)
      PROVE  /\ g.max > 0
             /\ IF Ok(b, n, time) THEN Metered(g, at \o [i \in 1..n |-> time], time)
                ELSE Metered(g, at, time)
  <2>1. b.max > 0 /\ Metered(b, at, time)
    BY <1>4 DEF Meets
  <2> QED
    BY <1>1, <1>2, <1>4, <2>1, MeteredGot
<1> HIDE DEF g
<1>5. /\ Ok(b, n, time) => Meets(g, at \o [i \in 1..n |-> time], time)
      /\ ~Ok(b, n, time) => Meets(g, at, time)
  BY <1>2, <1>3, <1>4 DEF Meets
<1> QED
  BY <1>2, <1>3, <1>5 DEF g

\* When computes a wait that is long enough.
LEMMA WaitsWhen ==
  ASSUME NEW b, NEW at, NEW time \in Nat, Meets(b, at, time), NEW n \in Nat,
         ~Ok(b, n, time), n <= b.max
  PROVE  Waits(Got(b, n, time), time + When(b, n, time), n)
<1>1. b \in Buckets /\ b.timestamp <= time /\ ~Unlimited(b)
  BY DEF Meets, Ok
<1>2. When(b, n, time) \in Nat /\ Enough(Got(b, n, time), n, time + When(b, n, time))
  BY <1>1, WhenEnough
<1>3. time + When(b, n, time) \in Int
  BY <1>2
<1> QED
  BY <1>1, <1>2, <1>3, MeetsGot, Zenon DEF Waits

LEMMA WaitsOk ==
  ASSUME NEW b, NEW at, NEW time \in Nat, Meets(b, at, time), NEW t, NEW n,
         Waits(b, t, n), t # NoTimer, t <= time
  PROVE  n \in Nat /\ Ok(b, n, time)
<1>1. b \in Buckets
  BY DEF Meets
<1>2. t \in Int /\ n \in Nat /\ n <= b.max /\ Enough(b, n, t)
  BY DEF Waits
<1> QED
  BY <1>1, <1>2, EnoughOk
-----------------------------------------------------------------------------
(* Chunks *)

LEMMA FitsEmpty == ASSUME NEW max PROVE Fits(<<>>, max)
<1>1. PICK S : S = {}
  BY Zenon
<1>2. <<>> \in Seq(S) /\ \A c \in S : Size(c) \in 0..max
  BY <1>1
<1> QED
  BY <1>2 DEF Fits

LEMMA FitsHead ==
  ASSUME NEW s, s # <<>>, NEW max, Fits(s, max)
  PROVE  Size(Head(s)) \in 0..max /\ Fits(Tail(s), max)
<1>1. PICK S : s \in Seq(S) /\ \A c \in S : Size(c) \in 0..max
  BY DEF Fits
<1>2. Head(s) \in S /\ Tail(s) \in Seq(S)
  BY <1>1
<1> QED
  BY <1>1, <1>2 DEF Fits

LEMMA FitsAppend ==
  ASSUME NEW s, NEW max, Fits(s, max), NEW c, Size(c) \in 0..max
  PROVE  Fits(Append(s, c), max)
<1>1. PICK S : s \in Seq(S) /\ \A d \in S : Size(d) \in 0..max
  BY DEF Fits
<1>2. s \in Seq(S \cup {c})
  BY <1>1
<1>3. Append(s, c) \in Seq(S \cup {c})
  BY <1>2
<1>4. \A d \in S \cup {c} : Size(d) \in 0..max
  BY <1>1
<1> QED
  BY <1>3, <1>4 DEF Fits

LEMMA Steps ==
  ASSUME NEW i \in Nat \ {0}, NEW max \in Nat
  PROVE  (i - 1) * max \in Nat /\ i * max \in Nat /\ i * max = (i - 1) * max + max
OBVIOUS

LEMMA CeilFits ==
  ASSUME NEW n \in Nat, NEW max \in Nat \ {0}, NEW i \in 1..Ceil(n, max)
  PROVE  (i - 1) * max < n
<1> DEFINE d == n \div max
           m == n % max
<1>1. d \in Nat /\ m \in Nat /\ n = d * max + m
  OBVIOUS
<1>2. i \in Nat \ {0} /\ i <= d + (IF m = 0 THEN 0 ELSE 1)
  BY <1>1 DEF Ceil
<1> HIDE DEF d, m
<1>3. i - 1 \in Nat
  BY <1>2
<1>4. CASE m = 0
  <2>1. i - 1 <= d - 1 /\ d - 1 \in Nat
    BY <1>1, <1>2, <1>4
  <2>2. (i - 1) * max <= (d - 1) * max
    BY <1>3, <2>1, MulMono
  <2>3. (d - 1) * max = d * max - max
    BY <1>1
  <2>4. (i - 1) * max \in Nat /\ d * max \in Nat
    BY <1>1, <1>3
  <2> QED
    BY <1>1, <1>4, <2>2, <2>3, <2>4
<1>5. CASE m # 0
  <2>1. i - 1 <= d
    BY <1>1, <1>2, <1>5
  <2>2. (i - 1) * max <= d * max
    BY <1>1, <1>3, <2>1, MulMono
  <2>4. (i - 1) * max \in Nat /\ d * max \in Nat
    BY <1>1, <1>3
  <2> QED
    BY <1>1, <1>5, <2>2, <2>4
<1> QED
  BY <1>4, <1>5

\* The chunks that throttle cuts are no larger than the bucket.
LEMMA CutFits ==
  ASSUME NEW arr, NEW n \in Nat, NEW max \in Nat \ {0}
  PROVE  Fits(Cut(arr, n, max), max)
<1> DEFINE k == Ceil(n, max)
           e(i) == [arr |-> arr, from |-> (i - 1) * max + 1,
                    to |-> IF i * max < n THEN i * max ELSE n]
           S == {e(i) : i \in 1..k}
<1>1. k \in Nat
  BY CeilBounds
<1>2. Cut(arr, n, max) \in Seq(S)
  <2>1. Cut(arr, n, max) = [i \in 1..k |-> e(i)]
    BY DEF Cut
  <2>2. \A i \in 1..k : e(i) \in S
    OBVIOUS
  <2> HIDE DEF k, e, S
  <2>3. [i \in 1..k |-> e(i)] \in Seq(S)
    BY <1>1, <2>2
  <2> QED
    BY <2>1, <2>3
<1>3. ASSUME NEW i \in 1..k
      PROVE  /\ (i - 1) * max \in Nat /\ i * max \in Nat
             /\ i * max = (i - 1) * max + max /\ (i - 1) * max < n
  <2>1. (i - 1) * max < n
    BY CeilFits
  <2>2. i \in Nat \ {0}
    BY <1>1
  <2>3. (i - 1) * max \in Nat /\ i * max \in Nat /\ i * max = (i - 1) * max + max
    BY <2>2, Steps
  <2> QED
    BY <2>1, <2>3
<1>4. ASSUME NEW c \in S
      PROVE  Size(c) \in 0..max
  <2>1. PICK i \in 1..k : c = [arr |-> arr, from |-> (i - 1) * max + 1,
                               to |-> IF i * max < n THEN i * max ELSE n]
    BY <1>4
  <2>2. c.from = (i - 1) * max + 1 /\ c.to = IF i * max < n THEN i * max ELSE n
    BY <2>1
  <2>3. PICK x \in Nat, y \in Nat : /\ x = (i - 1) * max /\ y = i * max
                                    /\ y = x + max /\ x < n
    BY <1>3
  <2>4. c.from = x + 1 /\ c.to = IF y < n THEN y ELSE n
    BY <2>2, <2>3
  <2>5. /\ (IF y < n THEN y ELSE n) - (x + 1) + 1 \in 0..max
    BY <2>3
  <2> QED
    BY <2>4, <2>5 DEF Size
<1> QED
  BY <1>2, <1>4 DEF Fits

LEMMA OnesFit ==
  ASSUME NEW n \in Nat, NEW first \in Int, NEW max \in Nat \ {0}
  PROVE  Fits([i \in 1..n |-> [arr |-> 0, from |-> first + i - 1, to |-> first + i - 1]], max)
<1> DEFINE S == {[arr |-> 0, from |-> x, to |-> x] : x \in Int}
           s == [i \in 1..n |-> [arr |-> 0, from |-> first + i - 1, to |-> first + i - 1]]
<1>1. \A i \in 1..n : [arr |-> 0, from |-> first + i - 1, to |-> first + i - 1] \in S
  OBVIOUS
<1>2. \A c \in S : Size(c) \in 0..max
  BY DEF Size
<1> HIDE DEF S
<1>3. s \in Seq(S)
  BY <1>1
<1> QED
  BY <1>2, <1>3, Zenon DEF Fits
-----------------------------------------------------------------------------
(* The invariant *)

LEMMA NewMeets ==
  ASSUME NEW rate \in Nat, NEW max \in Nat,
         rate # 0 => gcd[<<rate, Second>>] \in 1..rate /\ gcd[<<rate, Second>>] \in 1..Second
  PROVE  /\ New(rate, max, Second, MaxUint) \in Buckets
         /\ Meets(Reset(New(rate, max, Second, MaxUint), 0), <<>>, 0)
         /\ Reset(New(rate, max, Second, MaxUint), 0) = New(rate, max, Second, MaxUint)
<1> DEFINE g == gcd[<<rate, Second>>]
           b == New(rate, max, Second, MaxUint)
<1>1. CASE rate = 0
  <2>1. b = [tokens |-> 0, max |-> 0, quantum |-> 0, resolution |-> 1, timestamp |-> 0]
    BY <1>1 DEF New, Nil
  <2>2. b \in Buckets /\ Unlimited(b) /\ b.timestamp <= 0
    BY <2>1 DEF Buckets, Unlimited
  <2> QED
    BY <2>2 DEF Reset, Meets
<1>2. CASE rate # 0
  <2>1. g \in 1..rate /\ g \in 1..Second /\ Second \in Nat \ {0} /\ MaxUint \in Nat \ {0}
    BY <1>2, RatesAssumption
  <2> HIDE DEF g
  <2>0. g \in Nat \ {0}
    BY <2>1
  <2>2. PICK q \in Nat, r \in Nat : q = rate \div g /\ r = Second \div g
    <3>1. rate \div g \in Nat /\ Second \div g \in Nat
      BY <2>0, <2>1, DivBounds
    <3> QED
      BY <3>1
  <2>3. 1 <= q /\ 1 <= r
    <3>1. 1 * g <= rate /\ 1 * g <= Second /\ g \in Nat \ {0}
      BY <2>1
    <3> QED
      BY <2>1, <2>2, <3>1, DivLargest
  <2>4. PICK m \in Nat \ {0} : m = IF max = 0 THEN MaxUint ELSE max
    BY <2>1
  <2>5. b = [tokens |-> 0, max |-> m, quantum |-> q, resolution |-> r, timestamp |-> 0]
    BY <1>2, <2>2, <2>4 DEF New, g
  <2> HIDE DEF b
  <2>6. b \in Buckets /\ ~Unlimited(b) /\ b.timestamp <= 0 /\ b.max > 0
    BY <2>3, <2>5 DEF Buckets, Unlimited
  <2>7. Reset(b, 0) = b
    <3>1. Reset(b, 0) = [b EXCEPT !.tokens = 0, !.timestamp = 0]
      BY <2>6 DEF Reset
    <3>2. b.tokens = 0 /\ b.timestamp = 0
      BY <2>5
    <3> QED
      BY <2>6, <3>1, <3>2, Zenon DEF Buckets
  <2>8. Meter(0, m, q, r, 0, <<>>, 0)
    <3>1. /\ <<>> \in Seq(Nat) /\ Len(<<>>) + 0 = 0 /\ DOMAIN <<>> = {} /\ 0 <= m
      OBVIOUS
    <3>2. 0 * r <= 0 /\ 0 <= 0 * q
      OBVIOUS
    <3>3. Due(r, q, 0, Len(<<>>) + 0)
      BY <3>1, <3>2 DEF Due
    <3> QED
      BY <3>1, <3>3 DEF Meter
  <2>9. Metered(b, <<>>, 0)
    BY <2>5, <2>8 DEF Metered
  <2>10. Meets(b, <<>>, 0)
    BY <2>6, <2>9 DEF Meets
  <2> QED
    BY <2>6, <2>7, <2>10 DEF b
<1> QED
  BY <1>1, <1>2

LEMMA InitIInv == Init => IInv
<1> SUFFICES ASSUME Init PROVE IInv
  OBVIOUS
<1> DEFINE i == New(app.inRate, app.inMax, Second, MaxUint)
           o == New(app.outRate, app.outMax, Second, MaxUint)
<1>1. /\ app \in App
      /\ {app.inRate, app.inMax, app.outRate, app.outMax} \subseteq Nat
      /\ app.batch \in Nat \ {0}
      /\ MaxUint \in Nat
  BY RatesAssumption DEF Init
<1>2. /\ app.inRate # 0 => gcd[<<app.inRate, Second>>] \in 1..app.inRate
                           /\ gcd[<<app.inRate, Second>>] \in 1..Second
      /\ app.outRate # 0 => gcd[<<app.outRate, Second>>] \in 1..app.outRate
                            /\ gcd[<<app.outRate, Second>>] \in 1..Second
  BY <1>1, GcdAssumption
<1>3. i \in Buckets /\ Meets(Reset(i, 0), <<>>, 0) /\ Reset(i, 0) = i
  BY <1>1, <1>2, NewMeets, Zenon
<1>4. o \in Buckets /\ Meets(Reset(o, 0), <<>>, 0)
  BY <1>1, <1>2, NewMeets, Zenon
<1>5. batchSize(app) = LET m == MaxTokens(i, MaxUint) IN IF m < app.batch THEN m ELSE app.batch
  BY DEF batchSize
<1> HIDE DEF i, o
<1>6. i.max \in Nat
  BY <1>3 DEF Buckets
<1>7. batchSize(app) \in Nat /\ (Unlimited(i) \/ batchSize(app) <= i.max)
  BY <1>1, <1>5, <1>6 DEF MaxTokens
<1>8. /\ now = 0 /\ status = "started" /\ inB = Reset(i, 0) /\ outB = Reset(o, 0)
      /\ inT = NoTimer /\ outT = NoTimer /\ chunks = <<>> /\ outCh = <<>>
      /\ in = <<>> /\ outAt = <<>>
  BY DEF Init, i, o
<1>9. Fits(<<>>, outB.max)
  BY FitsEmpty
<1>10. Waits(inB, inT, batch) /\ Waits(outB, outT, Size(outM))
  BY <1>8 DEF Waits
<1> QED
  BY <1>1, <1>3, <1>4, <1>7, <1>8, <1>9, <1>10 DEF IInv, InInv, OutInv

LEMMA HandleMsg ==
  ASSUME IInv, Selecting, now' = now, NEW n \in Nat, handleMsg(n)
  PROVE  OutInv' /\ in' = in \o [i \in 1..n |-> now]
<1>1. /\ Meets(outB, outAt, now) /\ Waits(outB, outT, Size(outM))
      /\ outB \in Buckets /\ chunks = <<>>
  BY DEF IInv, OutInv, Meets, Selecting
<1>2. in' = in \o [i \in 1..n |-> now] /\ UNCHANGED <<outB, outT, outCh, outM>>
  BY DEF handleMsg
<1>3. Waits(outB', outT', Size(outM'))
  BY <1>1, <1>2
<1>4. CASE Unlimited(outB)
  <2>1. chunks' = chunks
    BY <1>4 DEF handleMsg
  <2>2. Meets(outB', outAt', now')
    BY <1>1, <1>2, <1>4 DEF Meets
  <2>3. chunks' = <<>> /\ outCh' = <<>>
    BY <1>1, <1>2, <1>4, <2>1 DEF IInv, OutInv
  <2> QED
    BY <1>2, <1>3, <1>4, <2>2, <2>3, SMTT(20) DEF OutInv
<1>5. CASE ~Unlimited(outB)
  <2> DEFINE first == Len(in) * app.emits + 1
             k == n * app.emits
  <2>1. outAt' = outAt /\ Meets(outB', outAt', now')
    <3>1. outAt' = outAt
      BY <1>5 DEF handleMsg
    <3> QED
      BY <1>1, <1>2, <3>1
  <2>2. outB.max \in Nat \ {0} /\ Fits(outCh, outB.max)
    BY <1>1, <1>5 DEF Meets, Buckets, IInv, OutInv
  <2>3. app.emits \in Nat
    BY RatesAssumption DEF IInv
  <2>4. k \in Nat
    BY <2>3
  <2>5. CASE app.tx
    <3>1. chunks' = Cut(Len(heap'), k, outB.max)
      BY <1>5, <2>5 DEF handleMsg
    <3> HIDE DEF k
    <3>2. Fits(chunks', outB.max)
      BY <2>2, <2>4, <3>1, CutFits
    <3> QED
      BY <1>2, <1>3, <1>5, <2>1, <2>2, <3>2 DEF OutInv
  <2>6. CASE ~app.tx
    <3>1. chunks' = [i \in 1..k |-> [arr |-> 0, from |-> first + i - 1, to |-> first + i - 1]]
      BY <1>5, <2>6 DEF handleMsg
    <3>2. first \in Int
      <4>1. Len(in) \in Nat
        BY DEF IInv, InInv
      <4> QED
        BY <2>3, <4>1
    <3> HIDE DEF k, first
    <3>3. Fits(chunks', outB.max)
      BY <2>2, <2>4, <3>1, <3>2, OnesFit, Zenon
    <3> QED
      BY <1>2, <1>3, <1>5, <2>1, <2>2, <3>3 DEF OutInv
  <2> QED
    BY <2>5, <2>6, Zenon
<1> QED
  BY <1>4, <1>5, Zenon

LEMMA NowSeq ==
  ASSUME NEW s \in Seq(Nat), NEW n \in Nat, NEW time \in Nat
  PROVE  s \o [i \in 1..n |-> time] \in Seq(Nat)
<1>1. [i \in 1..n |-> time] \in Seq(Nat)
  OBVIOUS
<1> QED
  BY <1>1

LEMMA NextIInv == IInv /\ [Next]_vars => IInv'
<1> SUFFICES ASSUME IInv, [Next]_vars PROVE IInv'
  OBVIOUS
<1>0. /\ app \in App /\ now \in Nat /\ status = "started" /\ InInv /\ OutInv
      /\ Meets(inB, in, now) /\ Waits(inB, inT, batch) /\ in \in Seq(Nat)
      /\ batchSize(app) \in Nat /\ (Unlimited(inB) \/ batchSize(app) <= inB.max)
      /\ Meets(outB, outAt, now) /\ Waits(outB, outT, Size(outM))
  BY DEF IInv, InInv, OutInv
<1>1. CASE Tick
  <2>1. /\ now' = now + 1
        /\ UNCHANGED <<app, status, inB, inT, batch, in, outB, outT, outM, outCh, outAt, chunks>>
    BY <1>1 DEF Tick, inVars, outVars
  <2>2. Meets(inB, in, now + 1) /\ Meets(outB, outAt, now + 1) /\ now + 1 \in Nat
    BY <1>0, MeetsLater
  <2> QED
    BY <1>0, <2>1, <2>2 DEF IInv, InInv, OutInv, batchSize
<1>2. CASE Arrive
  BY <1>0, <1>2 DEF Arrive, outVars, IInv, InInv, OutInv, batchSize
<1>3. CASE RcvData
  <2>1. PICK n \in 1..batchSize(app) :
          /\ inB' = Got(inB, n, now)
          /\ IF Ok(inB, n, now)
             THEN handleMsg(n) /\ UNCHANGED <<batch, inT, status>>
             ELSE /\ batch' = n /\ inT' = now + When(inB, n, now)
                  /\ status' = IF TooMany(inB, n) THEN "fatal" ELSE status
                  /\ UNCHANGED <<in, heap, chunks, outVars>>
    BY <1>3 DEF RcvData
  <2>2. Selecting /\ inT = NoTimer /\ UNCHANGED <<app, now>>
    BY <1>3 DEF RcvData
  <2>3. n \in Nat /\ n <= batchSize(app)
    BY <1>0
  <2>4. /\ inB'.max = inB.max /\ (Unlimited(inB') <=> Unlimited(inB))
        /\ Ok(inB, n, now) => Meets(inB', in \o [i \in 1..n |-> now], now)
        /\ ~Ok(inB, n, now) => Meets(inB', in, now)
    BY <1>0, <2>1, <2>3, MeetsGot, Zenon
  <2>5. Unlimited(inB') \/ batchSize(app)' <= inB'.max
    BY <1>0, <2>2, <2>4 DEF batchSize
  <2>6. batchSize(app)' \in Nat
    BY <1>0, <2>2 DEF batchSize
  <2>7. CASE Ok(inB, n, now)
    <3>1. OutInv' /\ in' = in \o [i \in 1..n |-> now] /\ UNCHANGED <<batch, inT, status>>
      BY <2>1, <2>2, <2>3, <2>7, HandleMsg
    <3>2. in' \in Seq(Nat)
      BY <1>0, <2>3, <3>1, NowSeq
    <3>3. Waits(inB', inT', batch')
      BY <2>2, <3>1 DEF Waits
    <3> QED
      BY <1>0, <2>2, <2>4, <2>5, <2>6, <2>7, <3>1, <3>2, <3>3 DEF IInv, InInv
  <2>8. CASE ~Ok(inB, n, now)
    <3>1. ~Unlimited(inB)
      BY <2>8 DEF Ok
    <3>2. n <= inB.max
      <4>1. inB.max \in Nat
        BY <1>0 DEF Meets, Buckets
      <4> QED
        BY <1>0, <2>3, <3>1, <4>1
    <3>3. /\ batch' = n /\ inT' = now + When(inB, n, now)
          /\ UNCHANGED <<in, outB, outT, outM, outCh, outAt, chunks>>
          /\ status' = IF TooMany(inB, n) THEN "fatal" ELSE status
      BY <2>1, <2>8 DEF outVars
    <3>4. ~TooMany(inB, n)
      <4>1. inB.max \in Nat
        BY <1>0 DEF Meets, Buckets
      <4> QED
        BY <2>3, <3>2, <4>1 DEF TooMany
    <3>5. Waits(inB', inT', batch')
      BY <1>0, <2>1, <2>3, <2>8, <3>2, <3>3, WaitsWhen
    <3>6. InInv'
      BY <1>0, <2>2, <2>4, <2>5, <2>6, <2>8, <3>3, <3>5 DEF InInv
    <3>7. OutInv'
      BY <1>0, <2>2, <3>3 DEF OutInv
    <3> QED
      BY <1>0, <2>2, <3>3, <3>4, <3>6, <3>7 DEF IInv
  <2> QED
    BY <2>7, <2>8
<1>4. CASE InTimer
  <2>1. Selecting /\ inT # NoTimer /\ inT <= now /\ UNCHANGED <<app, now>>
    BY <1>4 DEF InTimer
  <2>2. batch \in Nat /\ Ok(inB, batch, now)
    BY <1>0, <2>1, WaitsOk
  <2>3. /\ inB' = Got(inB, batch, now) /\ handleMsg(batch)
        /\ inT' = NoTimer /\ UNCHANGED status
    BY <1>4, <2>2 DEF InTimer
  <2>4. OutInv' /\ in' = in \o [i \in 1..batch |-> now]
    BY <2>1, <2>2, <2>3, HandleMsg, Zenon
  <2>5. /\ inB'.max = inB.max /\ (Unlimited(inB') <=> Unlimited(inB))
        /\ Meets(inB', in', now')
    BY <1>0, <2>1, <2>2, <2>3, <2>4, MeetsGot, Zenon
  <2>6. in' \in Seq(Nat)
    BY <1>0, <2>2, <2>4, NowSeq
  <2>7. batchSize(app)' \in Nat /\ (Unlimited(inB') \/ batchSize(app)' <= inB'.max)
    BY <1>0, <2>1, <2>5 DEF batchSize
  <2>8. Waits(inB', inT', batch')
    BY <2>3 DEF Waits
  <2> QED
    BY <1>0, <2>1, <2>3, <2>4, <2>5, <2>6, <2>7, <2>8 DEF IInv, InInv
<1>5. CASE Throttle
  <2>1. /\ chunks # <<>> /\ chunks' = Tail(chunks) /\ outCh' = Append(outCh, Head(chunks))
        /\ UNCHANGED <<app, now, status, batch, inB, inT, in, outB, outT, outM, outAt>>
    BY <1>5 DEF Throttle, inVars
  <2>2. ~Unlimited(outB) /\ Fits(chunks, outB.max) /\ Fits(outCh, outB.max)
    BY <1>0, <2>1 DEF OutInv
  <2>3. Fits(chunks', outB.max) /\ Fits(outCh', outB.max)
    BY <2>1, <2>2, FitsHead, FitsAppend
  <2>4. InInv'
    BY <1>0, <2>1 DEF InInv, batchSize
  <2>5. OutInv'
    BY <1>0, <2>1, <2>2, <2>3 DEF OutInv
  <2> QED
    BY <1>0, <2>1, <2>4, <2>5 DEF IInv
<1>6. CASE RcvOut
  <2> DEFINE c == Head(outCh)
             n == Size(c)
  <2>1. /\ outCh # <<>> /\ outCh' = Tail(outCh) /\ outB' = Got(outB, n, now)
        /\ outT = NoTimer
        /\ status' = IF TooMany(outB, n) THEN "fatal" ELSE status
        /\ IF Ok(outB, n, now)
           THEN doEmit(c) /\ UNCHANGED <<outM, outT>>
           ELSE outM' = c /\ outT' = now + When(outB, n, now) /\ UNCHANGED <<out, outAt>>
        /\ UNCHANGED <<app, now, batch, inB, inT, in, chunks>>
    BY <1>6 DEF RcvOut, inVars
  <2>2. ~Unlimited(outB) /\ Fits(chunks, outB.max) /\ Fits(outCh, outB.max)
    BY <1>0, <2>1 DEF OutInv
  <2>3. n \in 0..outB.max /\ Fits(outCh', outB.max) /\ outB.max \in Nat
    BY <1>0, <2>1, <2>2, FitsHead, SMTT(20) DEF Meets, Buckets
  <2>4. doEmit(c) => outAt' = outAt \o [i \in 1..n |-> now]
    BY DEF doEmit
  <2> HIDE DEF c, n
  <2>5. n \in Nat /\ n <= outB.max /\ ~TooMany(outB, n)
    BY <2>3 DEF TooMany
  <2>6. /\ outB'.max = outB.max /\ ~Unlimited(outB')
        /\ Ok(outB, n, now) => Meets(outB', outAt \o [i \in 1..n |-> now], now)
        /\ ~Ok(outB, n, now) => Meets(outB', outAt, now)
    <3>1. outB' = Got(outB, n, now)
      BY <2>1
    <3>2. now \in Nat /\ n \in Nat /\ Meets(outB, outAt, now)
      BY <1>0, <2>5
    <3> QED
      BY <2>2, <3>1, <3>2, MeetsGot
  <2>7. Meets(outB', outAt', now')
    BY <2>1, <2>4, <2>6, Zenon
  <2>8. Waits(outB', outT', Size(outM'))
    <3>1. CASE Ok(outB, n, now)
      BY <2>1, <3>1 DEF Waits
    <3>2. CASE ~Ok(outB, n, now)
      <4>1. Size(outM') = n /\ outT' = now + When(outB, n, now)
        BY <2>1, <3>2 DEF n
      <4> QED
        BY <1>0, <2>1, <2>5, <3>2, <4>1, WaitsWhen
    <3> QED
      BY <3>1, <3>2
  <2>9. OutInv'
    BY <2>1, <2>2, <2>3, <2>6, <2>7, <2>8, SMTT(20) DEF OutInv
  <2>10. InInv'
    BY <1>0, <2>1 DEF InInv, batchSize
  <2> QED
    BY <1>0, <2>1, <2>5, <2>9, <2>10 DEF IInv
<1>7. CASE OutTimer
  <2>1. /\ Selecting /\ outT # NoTimer /\ outT <= now
        /\ UNCHANGED <<app, now, batch, inB, inT, in, chunks, outCh>>
        /\ outB' = Got(outB, Size(outM), now)
    BY <1>7 DEF OutTimer, inVars
  <2>2. Size(outM) \in Nat /\ Ok(outB, Size(outM), now)
    BY <1>0, <2>1, WaitsOk
  <2>3. doEmit(outM) /\ outT' = NoTimer /\ UNCHANGED status
    BY <1>7, <2>2 DEF OutTimer
  <2>4. outAt' = outAt \o [i \in 1..Size(outM) |-> now]
    BY <2>3 DEF doEmit
  <2>5. /\ outB'.max = outB.max /\ (Unlimited(outB') <=> Unlimited(outB))
        /\ Meets(outB', outAt', now')
    BY <1>0, <2>1, <2>2, <2>4, MeetsGot, Zenon
  <2>6. Waits(outB', outT', Size(outM'))
    BY <2>3 DEF Waits
  <2>7. OutInv'
    BY <1>0, <2>1, <2>5, <2>6 DEF OutInv
  <2>8. InInv'
    BY <1>0, <2>1, SMTT(20) DEF InInv, batchSize
  <2> QED
    BY <1>0, <2>1, <2>3, <2>7, <2>8 DEF IInv
<1>8. CASE UNCHANGED vars
  BY <1>0, <1>8 DEF vars, IInv, InInv, OutInv, batchSize
<1> QED
  BY <1>1, <1>2, <1>3, <1>4, <1>5, <1>6, <1>7, <1>8 DEF Next
-----------------------------------------------------------------------------
\* No bee ever ends with "cannot get tokens after the wait" (bee.start), nor
\* asks a bucket for more than it can have (Bucket.Get panics then), whatever
\* the rates, the maxima, the batch size and the load.
THEOREM NoFatalAlways == Spec => []NoFatal
<1>1. IInv => NoFatal
  BY DEF IInv, NoFatal
<1> QED
  BY InitIInv, NextIInv, <1>1, PTL DEF Spec

\* The messages that a bee handles, and those that it sends, in any stretch of
\* time are no more than a full bucket and what is added to it meanwhile
\* (Bucket.fill), and at first no more than what is added.
THEOREM RatesAlwaysKept == Spec => []RatesKept
<1>1. IInv => RatesKept
  <2> SUFFICES ASSUME IInv PROVE RatesKept
    OBVIOUS
  <2>1. now \in Nat /\ Meets(inB, in, now) /\ Meets(outB, outAt, now)
    BY DEF IInv, InInv, OutInv
  <2>2. ASSUME NEW b, NEW at, Meets(b, at, now)
        PROVE  Within(at, b)
    <3> SUFFICES ASSUME ~Unlimited(b) PROVE Within(at, b)
      BY DEF Within
    <3>1. b \in Buckets /\ Metered(b, at, now)
      BY <2>2 DEF Meets
    <3> QED
      BY <2>1, <3>1, MeteredWithin DEF Within
  <2> QED
    BY <2>1, <2>2 DEF RatesKept
<1> QED
  BY InitIInv, NextIInv, <1>1, PTL DEF Spec
-----------------------------------------------------------------------------
(* Sent in order *)

\* throttle shares no array: there are no transactions, or no outgoing rate.
Unshared == ~app.tx \/ Unlimited(outB)

Single(m) == [arr |-> 0, from |-> m, to |-> m]
Singles == {Single(m) : m \in Nat}

\* Chunks of one message each: the ones after message m.
Run(s, m) == s \in Seq(Singles) /\ \A j \in 1..Len(s) : s[j] = Single(m + j)

\* How many chunks wait for tokens.
Held == IF outT = NoTimer THEN 0 ELSE 1

\* The messages sent, the one that waits for tokens, the ones on outCh and the
\* ones in throttle follow each other, and are all that was emitted.
Queue(o, h, m, q, c, n) ==
  /\ o \in Seq(Nat) /\ \A i \in 1..Len(o) : o[i] = i
  /\ h = 1 => m = Single(Len(o) + 1)
  /\ Run(q, Len(o) + h) /\ Run(c, Len(o) + h + Len(q))
  /\ Len(o) + h + Len(q) + Len(c) = n

InOrder == Unshared => Queue(out, Held, outM, outCh, chunks, Len(in) * app.emits)

LEMMA Cat ==
  ASSUME NEW a \in Seq(Nat), NEW b \in Seq(Nat)
  PROVE  /\ a \o b \in Seq(Nat) /\ Len(a \o b) = Len(a) + Len(b)
         /\ \A i \in 1..Len(a) : (a \o b)[i] = a[i]
         /\ \A i \in 1..Len(b) : (a \o b)[Len(a) + i] = b[i]
OBVIOUS

LEMMA ProductNat == ASSUME NEW a \in Nat, NEW b \in Nat PROVE a * b \in Nat
OBVIOUS

LEMMA FunctionSeq ==
  ASSUME NEW S, NEW k \in Nat, NEW f \in [1..k -> S]
  PROVE  f \in Seq(S) /\ Len(f) = k
OBVIOUS

LEMMA RunEmpty == ASSUME NEW m PROVE Run(<<>>, m)
BY DEF Run

LEMMA RunTail ==
  ASSUME NEW s, NEW m \in Nat, Run(s, m), s # <<>>
  PROVE  /\ Head(s) = Single(m + 1) /\ Run(Tail(s), m + 1)
         /\ Len(s) \in Nat /\ Len(Tail(s)) = Len(s) - 1
<1>1. s \in Seq(Singles) /\ \A j \in 1..Len(s) : s[j] = Single(m + j)
  BY DEF Run
<1>2. /\ Head(s) = s[1] /\ Len(s) \in Nat \ {0} /\ Tail(s) \in Seq(Singles)
      /\ Len(Tail(s)) = Len(s) - 1
      /\ \A j \in 1..Len(Tail(s)) : Tail(s)[j] = s[j + 1]
  BY <1>1
<1>3. ASSUME NEW j \in 1..Len(Tail(s)) PROVE Tail(s)[j] = Single((m + 1) + j)
  <2>1. j + 1 \in 1..Len(s) /\ m + (j + 1) = (m + 1) + j
    BY <1>2
  <2> QED
    BY <1>1, <1>2, <2>1
<1>4. Head(s) = Single(m + 1)
  BY <1>1, <1>2
<1> QED
  BY <1>2, <1>3, <1>4 DEF Run

LEMMA RunAppend ==
  ASSUME NEW s, NEW m \in Nat, Run(s, m), NEW c, c = Single(m + Len(s) + 1)
  PROVE  Run(Append(s, c), m) /\ Len(Append(s, c)) = Len(s) + 1 /\ Len(s) \in Nat
<1>1. s \in Seq(Singles) /\ \A j \in 1..Len(s) : s[j] = Single(m + j)
  BY DEF Run
<1>2. Len(s) \in Nat /\ m + Len(s) + 1 \in Nat
  BY <1>1
<1>3. c \in Singles
  BY <1>2 DEF Singles
<1> DEFINE t == Append(s, c)
<1>4. /\ t \in Seq(Singles) /\ Len(t) = Len(s) + 1 /\ t[Len(s) + 1] = c
      /\ \A j \in 1..Len(s) : t[j] = s[j]
  BY <1>1, <1>3
<1> HIDE DEF t
<1>5. ASSUME NEW j \in 1..Len(t) PROVE t[j] = Single(m + j)
  <2>1. CASE j \in 1..Len(s)
    BY <1>1, <1>4, <2>1
  <2>2. CASE j = Len(s) + 1
    <3>1. m + j = m + Len(s) + 1
      BY <1>2, <2>2
    <3> QED
      BY <1>4, <2>2, <3>1
  <2> QED
    BY <1>2, <1>4, <2>1, <2>2
<1> QED
  BY <1>2, <1>4, <1>5 DEF Run, t

LEMMA NextNumber ==
  ASSUME NEW o \in Seq(Nat), \A i \in 1..Len(o) : o[i] = i,
         NEW e \in Seq(Nat), Len(e) = 1, e[1] = Len(o) + 1
  PROVE  /\ o \o e \in Seq(Nat) /\ Len(o \o e) = Len(o) + 1 /\ Len(o) \in Nat
         /\ \A i \in 1..Len(o \o e) : (o \o e)[i] = i
<1>1. PICK n : n = o \o e
  OBVIOUS
<1>2. /\ n \in Seq(Nat) /\ Len(n) = Len(o) + 1 /\ Len(o) \in Nat
      /\ \A i \in 1..Len(o) : n[i] = o[i]
      /\ \A i \in 1..1 : n[Len(o) + i] = e[i]
  <2>1. /\ n \in Seq(Nat) /\ Len(n) = Len(o) + Len(e)
        /\ \A i \in 1..Len(o) : n[i] = o[i]
        /\ \A i \in 1..Len(e) : n[Len(o) + i] = e[i]
    BY <1>1, Cat, Zenon
  <2> QED
    BY <2>1
<1>3. n[Len(o) + 1] = Len(o) + 1
  BY <1>2
<1>4. ASSUME NEW i \in 1..(Len(o) + 1) PROVE n[i] = i
  <2>1. i \in 1..Len(o) \/ i = Len(o) + 1
    BY <1>2
  <2> QED
    BY <1>2, <1>3, <2>1
<1> QED
  BY <1>1, <1>2, <1>4

\* doEmit of a single message, the next one.
LEMMA EmitSingle ==
  ASSUME out \in Seq(Nat), \A i \in 1..Len(out) : out[i] = i,
         NEW c, c = Single(Len(out) + 1), doEmit(c)
  PROVE  /\ out' \in Seq(Nat) /\ Len(out') = Len(out) + 1 /\ Len(out) \in Nat
         /\ \A i \in 1..Len(out') : out'[i] = i
<1>1. Len(out) \in Nat
  OBVIOUS
<1>2. c.arr = 0 /\ c.from = Len(out) + 1 /\ c.to = Len(out) + 1
  BY DEF Single
<1>3. Size(c) = 1
  BY <1>1, <1>2 DEF Size
<1>4. PICK e : /\ out' = out \o e
               /\ e = [i \in 1..Size(c) |->
                        IF c.arr = 0 THEN c.from ELSE heap[c.arr][c.from + i - 1]]
  BY DEF doEmit
<1>5. e = [i \in 1..1 |-> Len(out) + 1]
  BY <1>2, <1>3, <1>4
<1>6. e \in [1..1 -> Nat] /\ e[1] = Len(out) + 1
  BY <1>1, <1>5
<1>7. e \in Seq(Nat) /\ Len(e) = 1
  BY <1>6, FunctionSeq
<1> QED
  BY <1>4, <1>6, <1>7, NextNumber

\* handleMsg: what the batch emits comes after all that was emitted before.
LEMMA HandleInOrder ==
  ASSUME IInv, InOrder, Selecting, UNCHANGED app, NEW n \in Nat, handleMsg(n)
  PROVE  InOrder'
<1> DEFINE first == Len(in) * app.emits + 1
           k == n * app.emits
           new == [i \in 1..k |-> first + i - 1]
           ones == [i \in 1..k |-> [arr |-> 0, from |-> first + i - 1,
                                    to |-> first + i - 1]]
<1>1. app.emits \in Nat /\ in \in Seq(Nat) /\ now \in Nat
  BY RatesAssumption DEF IInv, InInv
<1>2. k \in Nat /\ first \in Nat \ {0} /\ Len(in) \in Nat
  <2>1. Len(in) \in Nat
    BY <1>1
  <2>2. k \in Nat
    BY <1>1, ProductNat, Zenon
  <2>3. PICK p \in Nat : p = Len(in) * app.emits
    BY <1>1, <2>1, ProductNat, Zenon
  <2>4. p + 1 \in Nat \ {0}
    OBVIOUS
  <2> QED
    BY <2>1, <2>2, <2>3, <2>4, Zenon
<1>3. in' = in \o [i \in 1..n |-> now] /\ UNCHANGED <<outB, outT, outCh, outM>>
  BY DEF handleMsg
<1>4. Len(in') = Len(in) + n
  <2>1. [i \in 1..n |-> now] \in Seq(Nat) /\ Len([i \in 1..n |-> now]) = n
    BY <1>1
  <2> QED
    BY <1>1, <1>3, <2>1
<1>5. Len(in') * app'.emits = first - 1 + k
  BY <1>1, <1>2, <1>4
<1> HIDE DEF first, k
<1> SUFFICES ASSUME Unshared' PROVE Queue(out, Held, outM, outCh, chunks, Len(in) * app.emits)'
  BY DEF InOrder
<1>6. Unshared /\ Held' = Held /\ chunks = <<>>
  BY <1>3 DEF Unshared, Held, Selecting
<1>7. /\ out \in Seq(Nat) /\ \A i \in 1..Len(out) : out[i] = i
      /\ Held = 1 => outM = Single(Len(out) + 1)
      /\ Run(outCh, Len(out) + Held) /\ Len(out) + Held + Len(outCh) = first - 1
  <2>1. Queue(out, Held, outM, outCh, chunks, first - 1)
    BY <1>1, <1>2, <1>6 DEF InOrder, first
  <2>2. Len(out) + Held + Len(outCh) + Len(chunks) = first - 1 /\ Len(chunks) = 0
    BY <1>6, <2>1 DEF Queue
  <2>3. outCh \in Seq(Singles) /\ out \in Seq(Nat) /\ Held \in {0, 1}
    BY <2>1 DEF Queue, Run, Held
  <2> QED
    BY <2>1, <2>2, <2>3 DEF Queue
<1>8. CASE Unlimited(outB)
  <2>1. Held = 0 /\ outCh = <<>>
    BY <1>8 DEF IInv, OutInv, Waits, Held
  <2>2. out' = out \o new /\ chunks' = chunks
    BY <1>8 DEF handleMsg, first, k
  <2>3. Len(out) = first - 1 /\ Len(out) \in Nat
    BY <1>2, <1>7, <2>1
  <2>4. new \in Seq(Nat) /\ Len(new) = k /\ \A i \in 1..k : new[i] = Len(out) + i
    BY <1>2, <2>3
  <2> HIDE DEF new
  <2>5. /\ out' \in Seq(Nat) /\ Len(out') = Len(out) + k
        /\ \A i \in 1..Len(out) : out'[i] = out[i]
        /\ \A i \in 1..k : out'[Len(out) + i] = new[i]
    BY <1>2, <1>7, <2>2, <2>4, Cat
  <2>6. ASSUME NEW i \in 1..Len(out') PROVE out'[i] = i
    <3>1. CASE i \in 1..Len(out)
      BY <1>7, <2>5, <3>1
    <3>2. CASE i \notin 1..Len(out)
      <4>1. PICK o \in Nat, j \in Nat : o = Len(out) /\ j = k
        BY <1>2, <2>3, Zenon
      <4>2. i \in 1..(o + j) /\ i \notin 1..o
        BY <2>5, <3>2, <4>1
      <4>3. i - o \in 1..j /\ o + (i - o) = i
        BY <4>2
      <4>4. PICK x \in 1..j : o + x = i
        BY <4>3
      <4>5. out'[o + x] = new[x] /\ new[x] = o + x
        BY <2>4, <2>5, <4>1, <4>4
      <4> QED
        BY <4>4, <4>5
    <3> QED
      BY <3>1, <3>2
  <2>7. outCh' = <<>> /\ chunks' = <<>> /\ Held' = 0 /\ Run(<<>>, Len(out') + 0)
        /\ Run(<<>>, Len(out') + 0 + Len(<<>>))
    BY <1>3, <1>6, <2>1, <2>2, RunEmpty
  <2>8. Len(out') + 0 + Len(<<>>) + Len(<<>>) = first - 1 + k
    BY <1>2, <2>3, <2>5
  <2> QED
    BY <1>5, <2>5, <2>6, <2>7, <2>8 DEF Queue
<1>9. CASE ~Unlimited(outB)
  <2>1. UNCHANGED out /\ chunks' = ones
    BY <1>6, <1>9 DEF handleMsg, Unshared, first, k
  <2>2. \A i \in 1..k : ones[i] = Single(first - 1 + i) /\ first - 1 + i \in Nat
    BY <1>2 DEF Single
  <2>3. \A i \in 1..k : ones[i] \in Singles
    BY <2>2 DEF Singles
  <2>4. ones \in Seq(Singles) /\ Len(ones) = k
    <3>1. ones \in [1..k -> Singles]
      BY <2>3
    <3> QED
      BY <1>2, <3>1, FunctionSeq
  <2> HIDE DEF ones
  <2>5. Run(ones, first - 1)
    BY <2>2, <2>4 DEF Run
  <2>6. Run(chunks', Len(out) + Held + Len(outCh))
    BY <1>7, <2>1, <2>5
  <2>7. Len(out) + Held + Len(outCh) + Len(chunks') = first - 1 + k
    BY <1>7, <2>1, <2>4
  <2> QED
    BY <1>3, <1>5, <1>6, <1>7, <2>1, <2>6, <2>7 DEF Queue
<1> QED
  BY <1>8, <1>9

LEMMA NextInOrder == IInv /\ InOrder /\ [Next]_vars => InOrder'
<1> SUFFICES ASSUME IInv, InOrder, [Next]_vars PROVE InOrder'
  OBVIOUS
<1>0. /\ now \in Nat /\ status = "started"
      /\ Meets(inB, in, now) /\ Waits(inB, inT, batch) /\ batchSize(app) \in Nat
      /\ Meets(outB, outAt, now) /\ Waits(outB, outT, Size(outM))
  BY DEF IInv, InInv, OutInv
<1>1. CASE UNCHANGED <<app, outB, outT, outM, outCh, out, chunks, in>>
  BY <1>1 DEF InOrder, Unshared, Held, Queue, Run
<1>2. CASE Tick
  BY <1>1, <1>2 DEF Tick, inVars, outVars
<1>3. CASE Arrive
  BY <1>1, <1>3 DEF Arrive, outVars
<1>4. CASE RcvData
  <2>1. PICK n \in 1..batchSize(app) :
          IF Ok(inB, n, now) THEN handleMsg(n)
          ELSE UNCHANGED <<in, heap, chunks, outVars>>
    BY <1>4 DEF RcvData
  <2>2. Selecting /\ UNCHANGED app /\ n \in Nat
    BY <1>0, <1>4 DEF RcvData
  <2>3. CASE Ok(inB, n, now)
    BY <2>1, <2>2, <2>3, HandleInOrder
  <2>4. CASE ~Ok(inB, n, now)
    BY <1>1, <2>1, <2>2, <2>4 DEF outVars
  <2> QED
    BY <2>3, <2>4
<1>5. CASE InTimer
  <2>1. Selecting /\ inT # NoTimer /\ inT <= now /\ UNCHANGED app
    BY <1>5 DEF InTimer
  <2>2. batch \in Nat /\ Ok(inB, batch, now)
    BY <1>0, <2>1, WaitsOk
  <2>3. handleMsg(batch)
    BY <1>5, <2>2 DEF InTimer
  <2> QED
    BY <2>1, <2>2, <2>3, HandleInOrder
<1>6. CASE Throttle
  <2>1. /\ chunks # <<>> /\ chunks' = Tail(chunks) /\ outCh' = Append(outCh, Head(chunks))
        /\ UNCHANGED <<app, in, outB, outT, outM, out>>
    BY <1>6 DEF Throttle, inVars
  <2> SUFFICES ASSUME Unshared' PROVE Queue(out, Held, outM, outCh, chunks, Len(in) * app.emits)'
    BY DEF InOrder
  <2>2. Held' = Held /\ Queue(out, Held, outM, outCh, chunks, Len(in) * app.emits)
    BY <2>1 DEF InOrder, Unshared, Held
  <2>3. /\ out \in Seq(Nat) /\ \A i \in 1..Len(out) : out[i] = i
        /\ Held = 1 => outM = Single(Len(out) + 1)
        /\ Run(outCh, Len(out) + Held) /\ Run(chunks, Len(out) + Held + Len(outCh))
        /\ Len(out) + Held + Len(outCh) + Len(chunks) = Len(in) * app.emits
    BY <2>2 DEF Queue
  <2>4. Held \in {0, 1} /\ outCh \in Seq(Singles) /\ Len(out) \in Nat
    BY <2>3 DEF Held, Run
  <2>5. Len(outCh) \in Nat /\ Len(out) + Held \in Nat /\ Len(out) + Held + Len(outCh) \in Nat
    BY <2>4
  <2>6. /\ Head(chunks) = Single((Len(out) + Held + Len(outCh)) + 1)
        /\ Run(Tail(chunks), (Len(out) + Held + Len(outCh)) + 1)
        /\ Len(chunks) \in Nat /\ Len(Tail(chunks)) = Len(chunks) - 1
    BY <2>1, <2>3, <2>5, RunTail
  <2>7. /\ Run(outCh', Len(out) + Held) /\ Len(outCh') = Len(outCh) + 1
    BY <2>1, <2>3, <2>5, <2>6, RunAppend
  <2>8. /\ Len(out) + Held + Len(outCh') = (Len(out) + Held + Len(outCh)) + 1
        /\ Len(out) + Held + Len(outCh') + Len(chunks') = Len(in) * app.emits
    BY <2>1, <2>3, <2>4, <2>5, <2>6, <2>7
  <2>9. Run(chunks', Len(out) + Held + Len(outCh'))
    BY <2>1, <2>6, <2>8
  <2> QED
    BY <2>1, <2>2, <2>3, <2>7, <2>8, <2>9 DEF Queue
<1>7. CASE RcvOut
  <2> DEFINE c == Head(outCh)
  <2>1. /\ outCh # <<>> /\ outCh' = Tail(outCh) /\ outB' = Got(outB, Size(c), now)
        /\ outT = NoTimer
        /\ IF Ok(outB, Size(c), now)
           THEN doEmit(c) /\ UNCHANGED <<outM, outT>>
           ELSE outM' = c /\ outT' = now + When(outB, Size(c), now) /\ UNCHANGED out
        /\ UNCHANGED <<app, in, chunks>>
    BY <1>7 DEF RcvOut, inVars
  <2>2. ~Unlimited(outB) /\ Fits(outCh, outB.max) /\ Held = 0 /\ chunks = <<>>
    BY <1>7, <2>1 DEF IInv, OutInv, Held, RcvOut, Selecting
  <2>3. Size(c) \in 0..outB.max /\ outB \in Buckets
    BY <1>0, <2>1, <2>2, FitsHead DEF Meets
  <2>4. outB.max \in Nat /\ Size(c) \in Nat /\ Size(c) <= outB.max
    BY <2>3 DEF Buckets
  <2>5. ~Unlimited(outB')
    BY <1>0, <2>1, <2>2, <2>4, MeetsGot
  <2> SUFFICES ASSUME Unshared' PROVE Queue(out, Held, outM, outCh, chunks, Len(in) * app.emits)'
    BY DEF InOrder
  <2>6. Queue(out, 0, outM, outCh, <<>>, Len(in) * app.emits)
    BY <2>1, <2>2, <2>5 DEF InOrder, Unshared
  <2>7. /\ out \in Seq(Nat) /\ \A i \in 1..Len(out) : out[i] = i
        /\ Run(outCh, Len(out) + 0)
        /\ Len(out) + 0 + Len(outCh) + 0 = Len(in) * app.emits
    BY <2>6 DEF Queue
  <2>8. Len(out) \in Nat /\ Len(out) + 0 = Len(out)
    BY <2>7
  <2>9. /\ c = Single(Len(out) + 1) /\ Run(outCh', Len(out) + 1)
        /\ Len(outCh) \in Nat /\ Len(outCh') = Len(outCh) - 1
    BY <2>1, <2>7, <2>8, RunTail
  <2>10. Len(out) + 1 + Len(outCh') = Len(in) * app.emits
    BY <2>7, <2>8, <2>9
  <2> HIDE DEF c
  <2>11. CASE Ok(outB, Size(c), now)
    <3>1. doEmit(c) /\ Held' = 0 /\ outT' = NoTimer
      BY <2>1, <2>11 DEF Held
    <3>2. /\ out' \in Seq(Nat) /\ Len(out') = Len(out) + 1
          /\ \A i \in 1..Len(out') : out'[i] = i
      BY <2>7, <2>9, <3>1, EmitSingle
    <3>3. Len(out') + 0 = Len(out) + 1 /\ Len(out') + 0 + Len(outCh') + Len(<<>>) = Len(in) * app.emits
      BY <2>8, <2>9, <2>10, <3>2
    <3>4. Run(outCh', Len(out') + 0) /\ Run(<<>>, Len(out') + 0 + Len(outCh'))
      BY <2>9, <3>3, RunEmpty
    <3> QED
      BY <2>1, <2>2, <3>1, <3>2, <3>3, <3>4 DEF Queue
  <2>12. CASE ~Ok(outB, Size(c), now)
    <3>1. /\ outM' = c /\ outT' = now + When(outB, Size(c), now) /\ UNCHANGED out
      BY <2>1, <2>12
    <3>2. When(outB, Size(c), now) \in Nat
      BY <1>0, <2>2, <2>3, <2>4, <2>12, WhenEnough DEF Meets
    <3>3. Held' = 1
      BY <1>0, <3>1, <3>2 DEF Held, NoTimer
    <3>4. /\ outM' = Single(Len(out') + 1) /\ Run(outCh', Len(out') + 1)
          /\ Len(out') + 1 + Len(outCh') + Len(<<>>) = Len(in') * app'.emits
      BY <2>1, <2>8, <2>9, <2>10, <3>1
    <3>5. Run(chunks', Len(out') + 1 + Len(outCh')) /\ chunks' = <<>>
      BY <2>1, <2>2, RunEmpty
    <3> QED
      BY <2>7, <3>1, <3>3, <3>4, <3>5 DEF Queue
  <2> QED
    BY <2>11, <2>12
<1>8. CASE OutTimer
  <2>1. /\ Selecting /\ outT # NoTimer /\ outT <= now
        /\ UNCHANGED <<app, in, chunks, outCh>>
        /\ outB' = Got(outB, Size(outM), now)
    BY <1>8 DEF OutTimer, inVars
  <2>2. Size(outM) \in Nat /\ Ok(outB, Size(outM), now)
    BY <1>0, <2>1, WaitsOk
  <2>3. doEmit(outM) /\ outT' = NoTimer
    BY <1>8, <2>2 DEF OutTimer
  <2>4. Unlimited(outB') <=> Unlimited(outB)
    BY <1>0, <2>1, <2>2, MeetsGot
  <2> SUFFICES ASSUME Unshared' PROVE Queue(out, Held, outM, outCh, chunks, Len(in) * app.emits)'
    BY DEF InOrder
  <2>5. Held = 1 /\ Held' = 0 /\ Queue(out, Held, outM, outCh, chunks, Len(in) * app.emits)
    BY <2>1, <2>3, <2>4 DEF InOrder, Unshared, Held
  <2>6. /\ out \in Seq(Nat) /\ \A i \in 1..Len(out) : out[i] = i
        /\ outM = Single(Len(out) + 1)
        /\ Run(outCh, Len(out) + 1) /\ Run(chunks, Len(out) + 1 + Len(outCh))
        /\ Len(out) + 1 + Len(outCh) + Len(chunks) = Len(in) * app.emits
    BY <2>5 DEF Queue
  <2>7. /\ out' \in Seq(Nat) /\ Len(out') = Len(out) + 1 /\ Len(out) \in Nat
        /\ \A i \in 1..Len(out') : out'[i] = i
    BY <2>3, <2>6, EmitSingle
  <2>8. Len(out') + 0 = Len(out) + 1
    BY <2>7
  <2>9. /\ Run(outCh', Len(out') + 0) /\ Run(chunks', Len(out') + 0 + Len(outCh'))
        /\ Len(out') + 0 + Len(outCh') + Len(chunks') = Len(in') * app'.emits
    BY <2>1, <2>6, <2>8
  <2> QED
    BY <2>5, <2>7, <2>9 DEF Queue
<1>9. CASE UNCHANGED vars
  BY <1>1, <1>9 DEF vars
<1> QED
  BY <1>2, <1>3, <1>4, <1>5, <1>6, <1>7, <1>8, <1>9 DEF Next

LEMMA InitInOrder == Init => InOrder
<1> SUFFICES ASSUME Init PROVE InOrder
  OBVIOUS
<1>1. /\ app.emits \in Nat /\ in = <<>> /\ out = <<>> /\ outCh = <<>>
      /\ chunks = <<>> /\ Held = 0
  BY RatesAssumption DEF Init, Held
<1>2. Len(in) * app.emits = 0
  BY <1>1
<1>3. out \in Seq(Nat) /\ \A i \in 1..Len(out) : out[i] = i
  BY <1>1
<1>4. /\ Run(outCh, Len(out) + Held) /\ Run(chunks, Len(out) + Held + Len(outCh))
      /\ Len(out) + Held + Len(outCh) + Len(chunks) = 0
  BY <1>1, RunEmpty
<1> QED
  BY <1>1, <1>2, <1>3, <1>4 DEF InOrder, Queue

\* What the handlers of an application without transactions emit is sent once
\* and in the order it was emitted (bee.throttle, bee.start), and so it is for
\* any application without an outgoing rate (bee.emit).  With both, throttle
\* puts on outCh a part of the array of msgBufL1 that resetTx clears, and the
\* messages may be lost.
THEOREM SentOnceInOrder == Spec => [](Unshared => SentInOrder)
<1>1. InOrder => (Unshared => SentInOrder)
  <2> SUFFICES ASSUME InOrder, Unshared PROVE SentInOrder
    OBVIOUS
  <2>1. out \in Seq(Nat) /\ \A i \in 1..Len(out) : out[i] = i
    BY DEF InOrder, Queue
  <2> QED
    BY <2>1 DEF SentInOrder
<1> QED
  BY InitIInv, NextIInv, InitInOrder, NextInOrder, <1>1, PTL DEF Spec
=============================================================================
