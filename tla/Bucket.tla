------------------------------- MODULE Bucket -------------------------------
(***************************************************************************)
(* The token bucket of bucket/bucket.go: a bucket is a record, time is a   *)
(* number of ticks, and each operator gives the bucket after the call or   *)
(* its answer at the time now.                                             *)
(***************************************************************************)
EXTENDS Integers

\* a divided by b, rounded up.
Ceil(a, b) == (a \div b) + (IF a % b = 0 THEN 0 ELSE 1)

\* The nil bucket, which is never short of tokens.
Nil == [tokens |-> 0, max |-> 0, quantum |-> 0, resolution |-> 1, timestamp |-> 0]
Unlimited(b) == b.quantum = 0

Buckets == [tokens: Nat, max: Nat, quantum: Nat, resolution: Nat \ {0}, timestamp: Nat]

\* Euclid's algorithm, as the code runs it.
gcd[p \in Nat \X Nat] ==
  LET a == p[1]
      b == p[2]
  IN  CASE a < b -> gcd[<<b, a>>]
        [] a >= b /\ b = 0 -> a
        [] a >= b /\ b = 1 -> 1
        [] OTHER -> gcd[<<b, a % b>>]

\* A bucket of rate tokens per second, with the fewest ticks between two
\* refills; second is the number of ticks in a second and top the largest
\* number of tokens, which is the maximum of a bucket without one.
New(rate, max, second, top) ==
  IF rate = 0 THEN Nil
  ELSE [tokens |-> 0, max |-> IF max = 0 THEN top ELSE max,
        quantum |-> rate \div gcd[<<rate, second>>],
        resolution |-> second \div gcd[<<rate, second>>],
        timestamp |-> 0]

Reset(b, now) ==
  IF Unlimited(b) THEN b ELSE [b EXCEPT !.tokens = 0, !.timestamp = now]

\* Mutant: the time of the refill is not kept.
fillAgain(b, now) ==
  LET d == now - b.timestamp
      t == b.tokens + (d \div b.resolution) * b.quantum
  IN  IF d < b.resolution THEN b
      ELSE [b EXCEPT !.tokens = IF t < b.max THEN t ELSE b.max]

\* Tokens are added for whole multiples of the resolution; the time left over
\* is forgotten.
fill(b, now) ==
  LET d == now - b.timestamp
      t == b.tokens + (d \div b.resolution) * b.quantum
  IN  IF d < b.resolution THEN b
      ELSE [b EXCEPT !.tokens = IF t < b.max THEN t ELSE b.max, !.timestamp = now]

MaxTokens(b, top) == IF Unlimited(b) THEN top ELSE b.max

\* Mutant: the division is rounded down.
WhenFloor(b, n, now) ==
  LET t == n - fill(b, now).tokens
  IN  IF Unlimited(b) \/ b.max < n \/ t <= 0 THEN 0
      ELSE (t \div b.quantum) * b.resolution

\* How long to wait for n tokens, from now on.
When(b, n, now) ==
  LET t == n - fill(b, now).tokens
  IN  IF Unlimited(b) \/ b.max < n \/ t <= 0 THEN 0
      ELSE Ceil(t, b.quantum) * b.resolution

\* Get: whether n tokens are there, the bucket afterwards, and whether the
\* request is more than the bucket can ever have, which panics.
Ok(b, n, now) == Unlimited(b) \/ n <= fill(b, now).tokens

Got(b, n, now) ==
  IF Unlimited(b) THEN b
  ELSE IF Ok(b, n, now) THEN [fill(b, now) EXCEPT !.tokens = @ - n]
  ELSE fill(b, now)

TooMany(b, n) == ~Unlimited(b) /\ b.max < n
=============================================================================
