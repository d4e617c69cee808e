-------------------------- MODULE JobRangesProofs --------------------------
(***************************************************************************)
(* Arithmetic of jobs.  The job ranges of residual_search.c partition the  *)
(* prefixes, for every number of prefixes and jobs; and what the strides   *)
(* of the other two searches are.                                          *)
(***************************************************************************)
EXTENDS JobRanges, TLAPS

(* A larger factor gives a larger product. *)
LEMMA ProductMonotone ==
    ASSUME NEW a \in Nat, NEW b \in Nat, NEW c \in Nat, a <= b
    PROVE  a * c <= b * c
<1>1. (b - a) * c >= 0
  OBVIOUS
<1>2. b * c = a * c + (b - a) * c
  OBVIOUS
<1> QED BY <1>1, <1>2

(* The quotient and remainder the C operators / and % compute. *)
LEMMA Division ==
    ASSUME NEW n \in Nat, NEW d \in Nat \ {0}
    PROVE  /\ n \div d \in Nat /\ n % d \in 0 .. d - 1
           /\ n = d * (n \div d) + (n % d)
  OBVIOUS

-----------------------------------------------------------------------------
(* The ranges of residual_search.c.                                       *)

(* A range ends where the next one begins, the first begins at 0 and the   *)
(* last one ends at the number of prefixes.                                *)
LEMMA RangesAdjoin ==
    ASSUME NEW count \in Nat, NEW jobs \in Nat \ {0}
    PROVE  /\ RangeBegin(count, jobs, 0) = 0
           /\ RangeBegin(count, jobs, jobs) = count
           /\ \A job \in Nat :
                  RangeEnd(count, jobs, job) = RangeBegin(count, jobs, job + 1)
<1> DEFINE b == count \div jobs
           e == count % jobs
<1>1. b \in Nat /\ e \in 0 .. jobs - 1 /\ count = jobs * b + e
  BY Division
<1>2. RangeBegin(count, jobs, 0) = 0
  <2>1. 0 * b = 0
    BY <1>1
  <2> QED BY <1>1, <2>1 DEF RangeBegin
<1>3. RangeBegin(count, jobs, jobs) = count
  BY <1>1 DEF RangeBegin
<1>4. ASSUME NEW job \in Nat
      PROVE  RangeEnd(count, jobs, job) = RangeBegin(count, jobs, job + 1)
  <2>1. (job + 1) * b = job * b + b
    BY <1>1
  <2>2. job * b \in Nat
    BY <1>1
  <2> HIDE DEF b, e
  <2>3. RangeBegin(count, jobs, job) = job * b + (IF job < e THEN job ELSE e)
    BY DEF RangeBegin, b, e
  <2>4. RangeBegin(count, jobs, job + 1)
            = (job + 1) * b + (IF job + 1 < e THEN job + 1 ELSE e)
    BY DEF RangeBegin, b, e
  <2>5. RangeEnd(count, jobs, job)
            = RangeBegin(count, jobs, job) + b + (IF job < e THEN 1 ELSE 0)
    BY DEF RangeEnd, b, e
  <2>6. CASE job + 1 < e
    BY <1>1, <2>1, <2>2, <2>3, <2>4, <2>5, <2>6
  <2>7. CASE job + 1 = e
    BY <1>1, <2>1, <2>2, <2>3, <2>4, <2>5, <2>7
  <2>8. CASE job + 1 > e
    BY <1>1, <2>1, <2>2, <2>3, <2>4, <2>5, <2>8
  <2> QED BY <1>1, <2>6, <2>7, <2>8
<1> QED BY <1>2, <1>3, <1>4

(* Later jobs begin later. *)
LEMMA RangeBeginMonotone ==
    ASSUME NEW count \in Nat, NEW jobs \in Nat \ {0},
           NEW i \in Nat, NEW j \in Nat, i <= j
    PROVE  /\ RangeBegin(count, jobs, i) \in Nat
           /\ RangeBegin(count, jobs, i) <= RangeBegin(count, jobs, j)
<1> DEFINE b == count \div jobs
           e == count % jobs
<1>1. b \in Nat /\ e \in Nat
  BY Division
<1>2. i * b \in Nat /\ j * b \in Nat
  BY <1>1
<1>3. i * b <= j * b
  BY <1>1, ProductMonotone
<1> HIDE DEF b, e
<1>4. RangeBegin(count, jobs, i) = i * b + (IF i < e THEN i ELSE e)
  BY DEF RangeBegin, b, e
<1>5. RangeBegin(count, jobs, j) = j * b + (IF j < e THEN j ELSE e)
  BY DEF RangeBegin, b, e
<1> QED BY <1>1, <1>2, <1>3, <1>4, <1>5

(* Every range lies within the prefixes. *)
LEMMA RangeWithin ==
    ASSUME NEW count \in Nat, NEW jobs \in Nat \ {0}, NEW job \in 0 .. jobs - 1
    PROVE  /\ RangeBegin(count, jobs, job) \in Nat
           /\ RangeEnd(count, jobs, job) \in Nat
           /\ RangeBegin(count, jobs, job) <= RangeEnd(count, jobs, job)
           /\ RangeEnd(count, jobs, job) <= count
<1>1. RangeEnd(count, jobs, job) = RangeBegin(count, jobs, job + 1)
  BY RangesAdjoin
<1>2. RangeBegin(count, jobs, job + 1) <= RangeBegin(count, jobs, jobs)
  BY RangeBeginMonotone
<1>3. RangeBegin(count, jobs, job) <= RangeBegin(count, jobs, job + 1)
  BY RangeBeginMonotone
<1>4. \A k \in Nat : RangeBegin(count, jobs, k) \in Nat
  <2>1. ASSUME NEW k \in Nat PROVE RangeBegin(count, jobs, k) \in Nat
    <3>1. k <= k
      OBVIOUS
    <3> QED BY <3>1, RangeBeginMonotone
  <2> QED BY <2>1
<1> QED BY <1>1, <1>2, <1>3, <1>4, RangesAdjoin

(* job_prefix_range never gives a prefix to two jobs. *)
THEOREM RangesDisjoint ==
    ASSUME NEW count \in Nat, NEW jobs \in Nat \ {0},
           NEW i \in 0 .. jobs - 1, NEW j \in 0 .. jobs - 1, NEW p \in Int,
           RangeBegin(count, jobs, i) <= p, p < RangeEnd(count, jobs, i),
           RangeBegin(count, jobs, j) <= p, p < RangeEnd(count, jobs, j)
    PROVE  i = j
<1>1. ASSUME NEW k \in 0 .. jobs - 1, NEW l \in 0 .. jobs - 1, k < l
      PROVE  RangeEnd(count, jobs, k) <= RangeBegin(count, jobs, l)
  <2>1. RangeEnd(count, jobs, k) = RangeBegin(count, jobs, k + 1)
    BY RangesAdjoin
  <2> QED BY <1>1, <2>1, RangeBeginMonotone
<1>2. /\ RangeBegin(count, jobs, i) \in Nat /\ RangeEnd(count, jobs, i) \in Nat
      /\ RangeBegin(count, jobs, j) \in Nat /\ RangeEnd(count, jobs, j) \in Nat
  BY RangeWithin
<1>3. CASE i < j
  BY <1>1, <1>2, <1>3
<1>4. CASE j < i
  BY <1>1, <1>2, <1>4
<1> QED BY <1>3, <1>4

(* job_prefix_range leaves no prefix out: with at least as many prefixes as *)
(* jobs, each prefix is in the range of a job.                              *)
THEOREM RangesCover ==
    ASSUME NEW count \in Nat, NEW jobs \in Nat \ {0}, jobs <= count,
           NEW p \in 0 .. count - 1
    PROVE  \E job \in 0 .. jobs - 1 :
               RangeBegin(count, jobs, job) <= p /\ p < RangeEnd(count, jobs, job)
<1> DEFINE b == count \div jobs
           e == count % jobs
<1>1. b \in Nat /\ e \in 0 .. jobs - 1 /\ count = jobs * b + e
  BY Division
<1>2. b >= 1
  <2>1. SUFFICES ASSUME b = 0 PROVE FALSE
    BY <1>1
  <2> QED BY <1>1, <2>1
<1>3. CASE p < e * (b + 1)
  <2> DEFINE q == p \div (b + 1)
             r == p % (b + 1)
  <2>1. q \in Nat /\ r \in 0 .. b /\ p = (b + 1) * q + r
    <3>1. p \in Nat /\ b + 1 \in Nat \ {0}
      BY <1>1
    <3> DEFINE d == b + 1
    <3>2. d \in Nat \ {0}
      BY <3>1
    <3> HIDE DEF d
    <3>3. p \div d \in Nat /\ p % d \in 0 .. d - 1 /\ p = d * (p \div d) + (p % d)
      BY <3>1, <3>2, Division
    <3>4. d - 1 = b
      BY <1>1 DEF d
    <3> HIDE DEF b
    <3> QED BY <3>3, <3>4 DEF d
  <2> HIDE DEF b, e, q, r
  <2>2. q < e
    <3>1. SUFFICES ASSUME e <= q PROVE FALSE
      BY <1>1, <2>1
    <3>2. e * (b + 1) <= q * (b + 1)
      BY <1>1, <2>1, <3>1, ProductMonotone
    <3>3. (b + 1) * q = q * (b + 1)
      BY <1>1, <2>1
    <3>4. q * (b + 1) \in Nat /\ e * (b + 1) \in Nat
      BY <1>1, <2>1
    <3> QED BY <1>1, <1>3, <2>1, <3>2, <3>3, <3>4
  <2>3. RangeBegin(count, jobs, q) = q * b + q
    BY <2>2 DEF RangeBegin, b, e
  <2>4. RangeEnd(count, jobs, q) = q * b + q + b + 1
    BY <2>2, <2>3 DEF RangeEnd, b, e
  <2>5. (b + 1) * q = q * b + q
    BY <1>1, <2>1
  <2>6. q \in 0 .. jobs - 1
    BY <1>1, <2>1, <2>2
  <2>7. q * b \in Nat
    BY <1>1, <2>1
  <2> QED BY <1>1, <2>1, <2>3, <2>4, <2>5, <2>6, <2>7
<1>4. CASE e * (b + 1) <= p
  <2> DEFINE m == p - e * (b + 1)
             q == m \div b
             r == m % b
             j == e + q
  <2>0. e * (b + 1) \in Nat
    BY <1>1
  <2>1. m \in Nat
    BY <1>1, <1>4, <2>0
  <2>2. q \in Nat /\ r \in 0 .. b - 1 /\ m = b * q + r
    <3>1. b \in Nat \ {0}
      BY <1>1, <1>2
    <3> HIDE DEF m, b
    <3> QED BY <2>1, <3>1, Division
  <2>3. p = m + e * (b + 1)
    BY <1>1, <2>0
  <2> HIDE DEF b, e, q, r, m
  <2>4. e * (b + 1) = e * b + e
    BY <1>1
  <2>5. j * b = e * b + q * b
    BY <1>1, <2>2
  <2>6. e * b \in Nat /\ q * b \in Nat /\ b * q = q * b /\ jobs * b \in Nat
    BY <1>1, <2>2
  <2>7. j < jobs
    <3>1. SUFFICES ASSUME jobs <= j PROVE FALSE
      BY <1>1, <2>2
    <3>2. jobs * b <= j * b
      BY <1>1, <2>2, <3>1, ProductMonotone
    <3>3. p >= e * b + q * b + e
      BY <1>1, <2>2, <2>3, <2>4, <2>6
    <3>4. p < jobs * b + e
      BY <1>1, <2>6
    <3> HIDE DEF j
    <3> QED BY <1>1, <2>5, <2>6, <3>2, <3>3, <3>4
  <2>8. RangeBegin(count, jobs, j) = j * b + e
    BY <1>1, <2>2 DEF RangeBegin, b, e
  <2>9. RangeEnd(count, jobs, j) = j * b + e + b
    <3>1. ~(j < e)
      BY <1>1, <2>2
    <3>2. j * b + e + b \in Int
      BY <1>1, <2>5, <2>6
    <3> HIDE DEF j
    <3> QED BY <1>1, <2>5, <2>6, <2>8, <3>1, <3>2 DEF RangeEnd, b, e
  <2>10. j \in 0 .. jobs - 1
    BY <1>1, <2>2, <2>7
  <2> HIDE DEF j
  <2> QED BY <1>1, <2>2, <2>3, <2>4, <2>5, <2>6, <2>8, <2>9, <2>10
<1> QED BY <1>1, <1>3, <1>4

-----------------------------------------------------------------------------
(* The strides of weave_search.c and column_search.c: job j has the        *)
(* prefixes j, j + job_count, ..., those with the remainder j.             *)

(* A number has one remainder only.                                        *)
LEMMA NextMultiple ==
    ASSUME NEW n \in Nat \ {0}, NEW q \in Int, NEW r \in Int, q < r
    PROVE  n * q + n <= n * r
  OBVIOUS

LEMMA RemainderUnique ==
    ASSUME NEW n \in Nat \ {0}, NEW q \in Int, NEW r \in Int,
           NEW s \in 0 .. n - 1, NEW t \in 0 .. n - 1, n * q + s = n * r + t
    PROVE  s = t
<1>1. CASE q < r
  BY <1>1, NextMultiple
<1>2. CASE r < q
  BY <1>2, NextMultiple
<1>3. CASE q = r
  BY <1>3
<1> QED BY <1>1, <1>2, <1>3

LEMMA SmallRemainder ==
    ASSUME NEW n \in Nat \ {0}, NEW a \in Nat, a < n
    PROVE  a % n = a
  OBVIOUS

LEMMA StrideKeepsRemainder ==
    ASSUME NEW n \in Nat \ {0}, NEW a \in Nat
    PROVE  (a + n) % n = a % n
<1> DEFINE q == a \div n
           r == (a + n) \div n
           s == a % n
           t == (a + n) % n
<1>1. /\ q \in Nat /\ s \in 0 .. n - 1 /\ a = n * q + s
      /\ r \in Nat /\ t \in 0 .. n - 1 /\ a + n = n * r + t
  <2>1. a + n \in Nat
    OBVIOUS
  <2>2. q \in Nat /\ s \in 0 .. n - 1 /\ a = n * q + s
    BY Division
  <2> DEFINE m == a + n
  <2>3. m \in Nat
    BY <2>1
  <2> HIDE DEF m
  <2>4. m \div n \in Nat /\ m % n \in 0 .. n - 1 /\ m = n * (m \div n) + (m % n)
    BY <2>3, Division
  <2> QED BY <2>2, <2>4 DEF m
<1> HIDE DEF q, r, s, t
<1>2. n * (q + 1) = n * q + n
  BY <1>1
<1>3. n * (q + 1) + s = n * r + t /\ q + 1 \in Int /\ r \in Int
  BY <1>1, <1>2
<1>4. s = t
  BY <1>1, <1>3, RemainderUnique
<1> QED BY <1>4 DEF s, t

(* Between two numbers of the same remainder lies at least one stride.     *)
LEMMA StrideApart ==
    ASSUME NEW n \in Nat \ {0}, NEW a \in Nat, NEW b \in Nat, a % n = b % n, a < b
    PROVE  a + n <= b
<1> DEFINE q == a \div n
           r == b \div n
           s == a % n
<1>1. /\ q \in Nat /\ r \in Nat /\ s \in 0 .. n - 1
      /\ a = n * q + s /\ b = n * r + s
  BY Division
<1> HIDE DEF q, r, s
<1>2. q < r
  <2>1. CASE r < q
    BY <1>1, <2>1, NextMultiple
  <2>2. CASE r = q
    BY <1>1, <2>2
  <2> QED BY <1>1, <2>1, <2>2
<1>3. n * q + n <= n * r
  BY <1>1, <1>2, NextMultiple
<1> QED BY <1>1, <1>3
=============================================================================
