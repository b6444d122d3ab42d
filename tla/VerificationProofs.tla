------------------------- MODULE VerificationProofs -------------------------
(***************************************************************************)
(* Proofs about one scenario run and its verdict (ScenarioVerdict), the    *)
(* trace of one order and its contracts (OrderTrace), and both together    *)
(* (Verification).                                                         *)
(*                                                                         *)
(* The first part is about the plan of a workload step.  Rates and times   *)
(* are fractions; int() leaves of a part's product a whole number, at most *)
(* one below it when the machine's product is inexact (TruncatedIs), so    *)
(* that evenly planned requests stay within their part (EvenlyWithin,      *)
(* SpikeParts) and the parts follow one another (SpikeSchedule).  From     *)
(* this come the plan's order and the number of requests in each part, for *)
(* every step the schema accepts (SpikeOffsets, PlanIs).                   *)
(*                                                                         *)
(* The second part is an inductive invariant of a run, Shape and Bounded:  *)
(* the answers are ones the scenario can give, the semaphore bounds the    *)
(* open ones, and every request sent was given to one pod.                 *)
(*                                                                         *)
(* The third part adds what the verdict relies on.  Settled: all answers   *)
(* are in before the orders are read back.  Tallied: what a counter counts *)
(* is in its reading or still to be seen, whatever was scraped when.       *)
(* Disturbed: the pods that served requests tell how far the Kubernetes    *)
(* event had gone.  JudgedTrue shows that the checks then imply the        *)
(* evidence; the leak through the gateway is found by counting: the        *)
(* accepted requests are among the arrived ones, and as many as the        *)
(* reading, so the leaked ones are among the arrivals it had not seen.     *)
(*                                                                         *)
(* The fourth part is an inductive invariant of one order, OrderInv.       *)
(* Course: which stages have run, and how they ended, follows from where   *)
(* the order is.  Kept: each stage has left its own span and those of its  *)
(* attempts, and nothing else.  Timeline: when the stages ran.  Payments:  *)
(* the payment's books agree with the spans.  Whole and Left: what the     *)
(* spans around the stages are, and what the pipeline may have done to     *)
(* the trace.                                                              *)
(*                                                                         *)
(* The fifth part reads a stored trace with the contracts.  What each      *)
(* contract asks for is one formula (NormalOrderIs and its like).  A       *)
(* trace that passes shows how its order went (AcceptedIsTrue): the        *)
(* recorded states can only be those of one course, and a single loss      *)
(* takes a span some check misses.  A trace that is stored as recorded     *)
(* passes (TruthfulIsAccepted): every span has its caller and lies within  *)
(* it, and the calls of a stage, sorted by start, are its attempts.        *)
(*                                                                         *)
(* The last part puts the run and the order together.                      *)
(***************************************************************************)
EXTENDS Verification, TLAPS, FiniteSetTheorems, SequenceTheorems

-----------------------------------------------------------------------------
(* The plan of a step.                                                      *)

\* What whole division does.
LEMMA Division ==
  ASSUME NEW a \in Nat, NEW b \in Nat \ {0}
  PROVE  /\ a \div b \in Nat
         /\ b * (a \div b) <= a
         /\ a < b * (a \div b) + b
  OBVIOUS

LEMMA Product ==
  ASSUME NEW a \in Nat, NEW b \in Nat, a <= b, NEW c \in Nat
  PROVE  a * c \in Nat /\ b * c \in Nat /\ a * c <= b * c
<1>1. PICK d \in Nat : b = a + d
  <2>1. b - a \in Nat /\ b = a + (b - a)
    OBVIOUS
  <2> QED
    BY <2>1
<1>2. b * c = a * c + d * c /\ d * c \in Nat /\ a * c \in Nat
  BY <1>1
<1> QED
  BY <1>2

\* What int() cuts off is less than one request, or one where a whole product
\* comes out a shade too low.
LEMMA TruncatedIs ==
  ASSUME NEW s, NEW part, NEW product \in Nat \ {0}, NEW over \in Nat \ {0}
  PROVE  LET n == Truncated(s, part, product, over)
         IN  /\ n \in Nat /\ n * over <= product /\ product <= (n + 1) * over
             /\ product = (n + 1) * over => part \in s.inexact
<1> DEFINE x == IF part \in s.inexact THEN 1 ELSE 0
           a == product - x
           n == a \div over
<1>1. x \in {0, 1} /\ (x = 1 => part \in s.inexact)
  OBVIOUS
<1>2. Truncated(s, part, product, over) = n
  BY DEF Truncated
<1> HIDE DEF x
<1>3. a \in Nat /\ product = a + x
  BY <1>1
<1> HIDE DEF a
<1>4. n \in Nat /\ over * n <= a /\ a < over * n + over
  BY <1>3, Division
<1> HIDE DEF n
<1>5. n * over = over * n /\ (n + 1) * over = over * n + over /\ over * n \in Nat
  BY <1>4
<1> QED
  BY <1>1, <1>2, <1>3, <1>4, <1>5

LEMMA EvenlyIs ==
  ASSUME NEW from \in Nat, NEW gap \in Nat, NEW n \in Nat
  PROVE  /\ Evenly(from, gap, n) \in Seq(Nat)
         /\ Len(Evenly(from, gap, n)) = n
         /\ \A i \in 1..n : Evenly(from, gap, n)[i] = from + (i - 1) * gap /\ Evenly(from, gap, n)[i] >= from
<1>1. ASSUME NEW i \in 1..n PROVE (i - 1) * gap \in Nat
  <2>1. i - 1 \in Nat
    OBVIOUS
  <2> QED
    BY <2>1
<1>2. \A i \in 1..n : from + (i - 1) * gap \in Nat /\ from + (i - 1) * gap >= from
  BY <1>1
<1> QED
  BY <1>2 DEF Evenly

\* An evenly planned part stays within its time.
LEMMA EvenlyWithin ==
  ASSUME NEW from \in Nat, NEW gap \in Nat \ {0}, NEW n \in Nat, NEW length \in Nat, n * gap <= length
  PROVE  /\ \A i \in 1..n : Evenly(from, gap, n)[i] < from + length
         /\ \A i, j \in 1..n : i <= j => Evenly(from, gap, n)[i] <= Evenly(from, gap, n)[j]
<1>0. \A i \in 1..n : Evenly(from, gap, n)[i] = from + (i - 1) * gap
  BY EvenlyIs
<1>1. ASSUME NEW i \in 1..n PROVE (i - 1) * gap \in Nat /\ (i - 1) * gap < length
  <2>1. i - 1 \in Nat /\ i - 1 <= n - 1 /\ n - 1 \in Nat /\ gap \in Nat
    OBVIOUS
  <2>2. (i - 1) * gap \in Nat /\ (n - 1) * gap \in Nat /\ (i - 1) * gap <= (n - 1) * gap
    BY <2>1, Product
  <2>3. n * gap = (n - 1) * gap + gap
    OBVIOUS
  <2> QED
    BY <2>2, <2>3
<1>2. ASSUME NEW i \in 1..n, NEW j \in 1..n, i <= j PROVE (i - 1) * gap <= (j - 1) * gap
  <2>1. i - 1 \in Nat /\ j - 1 \in Nat /\ i - 1 <= j - 1 /\ gap \in Nat
    BY <1>2
  <2> QED
    BY <2>1, Product
<1>3. ASSUME NEW i \in 1..n PROVE Evenly(from, gap, n)[i] < from + length
  <2> DEFINE x == (i - 1) * gap
  <2>1. x \in Nat /\ x < length /\ Evenly(from, gap, n)[i] = from + x
    BY <1>0, <1>1
  <2> HIDE DEF x
  <2> QED
    BY <2>1
<1>4. ASSUME NEW i \in 1..n, NEW j \in 1..n, i <= j PROVE Evenly(from, gap, n)[i] <= Evenly(from, gap, n)[j]
  <2> DEFINE x == (i - 1) * gap
             y == (j - 1) * gap
  <2>1. x \in Nat /\ y \in Nat /\ x <= y
    BY <1>1, <1>2, <1>4
  <2>2. Evenly(from, gap, n)[i] = from + x /\ Evenly(from, gap, n)[j] = from + y
    BY <1>0
  <2> HIDE DEF x, y
  <2> QED
    BY <2>1, <2>2
<1> QED
  BY <1>3, <1>4

\* A plan that is the parts one after the other.
LEMMA Appended ==
  ASSUME NEW A \in Seq(Nat), NEW B \in Seq(Nat)
  PROVE  /\ A \o B \in Seq(Nat)
         /\ Len(A \o B) = Len(A) + Len(B)
         /\ \A i \in 1..Len(A) : (A \o B)[i] = A[i]
         /\ \A i \in Len(A) + 1..Len(A) + Len(B) : (A \o B)[i] = B[i - Len(A)]
  OBVIOUS

LEMMA Joined ==
  ASSUME NEW A \in Seq(Nat), NEW B \in Seq(Nat), NEW C \in Seq(Nat)
  PROVE  /\ A \o B \o C \in Seq(Nat)
         /\ Len(A \o B \o C) = Len(A) + Len(B) + Len(C)
         /\ \A i \in 1..Len(A) : (A \o B \o C)[i] = A[i]
         /\ \A i \in Len(A) + 1..Len(A) + Len(B) : (A \o B \o C)[i] = B[i - Len(A)]
         /\ \A i \in Len(A) + Len(B) + 1..Len(A) + Len(B) + Len(C) : (A \o B \o C)[i] = C[i - (Len(A) + Len(B))]
<1> DEFINE D == A \o B
<1>1. /\ D \in Seq(Nat) /\ Len(D) = Len(A) + Len(B)
      /\ \A i \in 1..Len(A) : D[i] = A[i]
      /\ \A i \in Len(A) + 1..Len(A) + Len(B) : D[i] = B[i - Len(A)]
  BY Appended, Zenon
<1> HIDE DEF D
<1> DEFINE E == D \o C
<1>2. /\ E \in Seq(Nat) /\ Len(E) = Len(D) + Len(C)
      /\ \A i \in 1..Len(D) : E[i] = D[i]
      /\ \A i \in Len(D) + 1..Len(D) + Len(C) : E[i] = C[i - Len(D)]
  BY <1>1, Appended, Zenon
<1> HIDE DEF E
<1>3. /\ Len(A) \in Nat /\ Len(B) \in Nat /\ Len(C) \in Nat
  OBVIOUS
<1>4. \A i \in 1..Len(A) : E[i] = A[i]
  BY <1>1, <1>2, <1>3
<1>5. \A i \in Len(A) + 1..Len(A) + Len(B) : E[i] = B[i - Len(A)]
  BY <1>1, <1>2, <1>3
<1>6. \A i \in Len(A) + Len(B) + 1..Len(A) + Len(B) + Len(C) : E[i] = C[i - (Len(A) + Len(B))]
  BY <1>1, <1>2, <1>3
<1>7. Len(E) = Len(A) + Len(B) + Len(C)
  BY <1>1, <1>2, <1>3
<1> QED
  BY <1>2, <1>4, <1>5, <1>6, <1>7, Zenon DEF E, D

Square == Scale * Scale
SpikeTime(s) == 2 * s.spikeSeconds * s.rate * s.spikeRate
QuietCount(s, part) == Truncated(s, part, s.rate * (s.duration - s.spikeSeconds), 2 * Square)
SpikeCount(s) == Truncated(s, "spike", s.spikeRate * s.spikeSeconds, Square)
SteadyCount(s) == Truncated(s, "start", s.rate * s.duration, Square)

StepFields(s) ==
  /\ s.profile \in {"single", "burst", "concurrent", "steady", "spike"}
  /\ s.requests \in Nat \ {0} /\ s.concurrency \in Nat \ {0}
  /\ s.rate \in Nat /\ s.duration \in Nat /\ s.spikeRate \in Nat /\ s.spikeSeconds \in Nat

LEMMA FieldsOf == \A s \in Steps : StepFields(s)
<1> SUFFICES ASSUME NEW s \in Steps PROVE StepFields(s)
  OBVIOUS
<1>1. s \in [profile : {"single", "burst", "concurrent", "steady", "spike"}, requests : Nat \ {0},
             concurrency : Nat \ {0}, rate : Nat, duration : Nat, spikeRate : Nat, spikeSeconds : Nat,
             inexact : SUBSET {"start", "spike", "tail"}, debug : BOOLEAN, identity : STRING]
  BY StepsAssumption
<1> QED
  BY <1>1 DEF StepFields

LEMMA SquareIs == Square \in Nat \ {0} /\ 2 * Square \in Nat \ {0}
<1>1. Scale \in Nat \ {0}
  BY ScaleAssumption
<1>2. Scale * Scale \in Nat /\ Scale * Scale # 0
  BY <1>1
<1> QED
  BY <1>2 DEF Square

\* The times of a spike's parts: the quiet ones are as long, and the gaps of
\* each part's requests fit into it.
LEMMA SpikeParts ==
  ASSUME NEW r \in Nat \ {0}, NEW p \in Nat \ {0}, NEW m \in Nat \ {0}, NEW w \in Nat \ {0}, NEW q \in Nat \ {0},
         NEW a \in Nat, a * (2 * q) <= r * m, NEW b \in Nat, b * q <= p * w
  PROVE  /\ m * r * p \in Nat /\ 2 * w * r * p \in Nat
         /\ a * (2 * q * p) <= m * r * p /\ b * (2 * q * r) <= 2 * w * r * p
         /\ 2 * q * p \in Nat \ {0} /\ 2 * q * r \in Nat \ {0}
         /\ (m + w + w) * r * p = m * r * p + 2 * w * r * p
         /\ 2 * (m + w) * r * p = m * r * p + 2 * w * r * p + m * r * p
<1>1. a * (2 * q) \in Nat /\ r * m \in Nat /\ b * q \in Nat /\ p * w \in Nat
  OBVIOUS
<1>2. (a * (2 * q)) * p <= (r * m) * p
  BY <1>1, Product
<1>3. (b * q) * (2 * r) <= (p * w) * (2 * r)
  <2>1. 2 * r \in Nat
    OBVIOUS
  <2> QED
    BY <1>1, <2>1, Product
<1>4. a * (2 * q * p) = (a * (2 * q)) * p /\ m * r * p = (r * m) * p
  OBVIOUS
<1>5. b * (2 * q * r) = (b * q) * (2 * r) /\ 2 * w * r * p = (p * w) * (2 * r)
  OBVIOUS
<1>6. (r * m) * p \in Nat /\ (p * w) * (2 * r) \in Nat
  BY <1>1
<1>7. q * p \in Nat \ {0} /\ q * r \in Nat \ {0}
  OBVIOUS
<1>8. 2 * q * p = 2 * (q * p) /\ 2 * q * r = 2 * (q * r)
  OBVIOUS
<1>9. 2 * (q * p) \in Nat \ {0} /\ 2 * (q * r) \in Nat \ {0}
  BY <1>7
<1>10. /\ (m + w + w) * r * p = m * r * p + 2 * w * r * p
       /\ 2 * (m + w) * r * p = m * r * p + 2 * w * r * p + m * r * p
  OBVIOUS
<1> QED
  BY <1>2, <1>3, <1>4, <1>5, <1>6, <1>8, <1>9, <1>10

\* A spike is a quiet part, the spike, and as long a quiet part again.
LEMMA SpikeTimes ==
  ASSUME NEW s, StepFields(s), ValidStep(s), s.profile = "spike"
  PROVE  /\ SpikeStart(s) \in Nat /\ SpikeTime(s) \in Nat
         /\ TailStart(s) = SpikeStart(s) + SpikeTime(s)
         /\ 2 * s.duration * s.rate * s.spikeRate = TailStart(s) + SpikeStart(s)
         /\ 2 * Square * s.spikeRate \in Nat \ {0} /\ 2 * Square * s.rate \in Nat \ {0}
         /\ \A part : /\ QuietCount(s, part) \in Nat
                      /\ QuietCount(s, part) * (2 * Square * s.spikeRate) <= SpikeStart(s)
         /\ SpikeCount(s) \in Nat /\ SpikeCount(s) * (2 * Square * s.rate) <= SpikeTime(s)
<1> DEFINE r == s.rate
           p == s.spikeRate
           w == s.spikeSeconds
           m == s.duration - s.spikeSeconds
<1>1. r \in Nat \ {0} /\ p \in Nat \ {0} /\ m \in Nat \ {0} /\ w \in Nat \ {0} /\ s.duration = m + w
  BY DEF StepFields, ValidStep
<1>2. s.duration + s.spikeSeconds = m + w + w
  BY <1>1
<1>3. /\ SpikeStart(s) = m * r * p /\ SpikeTime(s) = 2 * w * r * p
      /\ TailStart(s) = (m + w + w) * r * p /\ 2 * s.duration * s.rate * s.spikeRate = 2 * (m + w) * r * p
  <2>1. SpikeStart(s) = m * r * p
    BY DEF SpikeStart
  <2>2. SpikeTime(s) = 2 * w * r * p
    BY DEF SpikeTime
  <2>3. TailStart(s) = (s.duration + s.spikeSeconds) * r * p
    BY DEF TailStart
  <2>4. 2 * s.duration * s.rate * s.spikeRate = 2 * (m + w) * r * p
    BY <1>1, Zenon
  <2> QED
    BY <1>2, <2>1, <2>2, <2>3, <2>4, Zenon
<1>4. /\ \A part : QuietCount(s, part) = Truncated(s, part, r * m, 2 * Square)
      /\ SpikeCount(s) = Truncated(s, "spike", p * w, Square)
  BY DEF QuietCount, SpikeCount
<1> HIDE DEF r, p, w, m
<1>5. r * m \in Nat \ {0} /\ p * w \in Nat \ {0}
  BY <1>1
<1>6. /\ \A part : QuietCount(s, part) \in Nat /\ QuietCount(s, part) * (2 * Square) <= r * m
      /\ SpikeCount(s) \in Nat /\ SpikeCount(s) * Square <= p * w
  <2> DEFINE x == r * m
             y == p * w
             z == 2 * Square
  <2>1. x \in Nat \ {0} /\ y \in Nat \ {0} /\ z \in Nat \ {0} /\ Square \in Nat \ {0}
    BY <1>5, SquareIs
  <2>2. /\ \A part : QuietCount(s, part) = Truncated(s, part, x, z)
        /\ SpikeCount(s) = Truncated(s, "spike", y, Square)
    BY <1>4, Zenon
  <2> HIDE DEF x, y, z
  <2>3. \A part : Truncated(s, part, x, z) \in Nat /\ Truncated(s, part, x, z) * z <= x
    BY <2>1, TruncatedIs
  <2>4. Truncated(s, "spike", y, Square) \in Nat /\ Truncated(s, "spike", y, Square) * Square <= y
    BY <2>1, TruncatedIs
  <2> QED
    BY <2>2, <2>3, <2>4, Zenon DEF x, y, z
<1>7. Square \in Nat \ {0}
  BY SquareIs
<1>8. ASSUME NEW part
      PROVE  /\ m * r * p \in Nat /\ 2 * w * r * p \in Nat
             /\ QuietCount(s, part) * (2 * Square * p) <= m * r * p /\ SpikeCount(s) * (2 * Square * r) <= 2 * w * r * p
             /\ 2 * Square * p \in Nat \ {0} /\ 2 * Square * r \in Nat \ {0}
             /\ (m + w + w) * r * p = m * r * p + 2 * w * r * p
             /\ 2 * (m + w) * r * p = m * r * p + 2 * w * r * p + m * r * p
  <2> DEFINE a == QuietCount(s, part)
             b == SpikeCount(s)
             q == Square
  <2>1. a \in Nat /\ a * (2 * q) <= r * m /\ b \in Nat /\ b * q <= p * w /\ q \in Nat \ {0}
    BY <1>6, <1>7, Zenon
  <2> HIDE DEF a, b, q
  <2>2. /\ m * r * p \in Nat /\ 2 * w * r * p \in Nat
        /\ a * (2 * q * p) <= m * r * p /\ b * (2 * q * r) <= 2 * w * r * p
        /\ 2 * q * p \in Nat \ {0} /\ 2 * q * r \in Nat \ {0}
        /\ (m + w + w) * r * p = m * r * p + 2 * w * r * p
        /\ 2 * (m + w) * r * p = m * r * p + 2 * w * r * p + m * r * p
    BY <1>1, <2>1, SpikeParts
  <2> QED
    BY <2>2, Zenon DEF a, b, q
<1>9. p = s.spikeRate /\ r = s.rate
  BY DEF p, r
<1> QED
  BY <1>3, <1>6, <1>8, <1>9, Zenon

\* The three parts of a spike, each within its time.
LEMMA SpikeSchedule ==
  ASSUME NEW s, StepFields(s), ValidStep(s), s.profile = "spike"
  PROVE  LET n == QuietCount(s, "start")
             m == SpikeCount(s)
             k == QuietCount(s, "tail")
         IN  /\ Schedule(s) \in Seq(Nat)
             /\ Len(Schedule(s)) = n + m + k
             /\ \A i \in 1..n : Schedule(s)[i] < SpikeStart(s)
             /\ \A i \in n + 1..n + m : SpikeStart(s) <= Schedule(s)[i] /\ Schedule(s)[i] < SpikeStart(s) + SpikeTime(s)
             /\ \A i \in n + m + 1..n + m + k :
                  /\ SpikeStart(s) + SpikeTime(s) <= Schedule(s)[i]
                  /\ Schedule(s)[i] < SpikeStart(s) + SpikeTime(s) + SpikeStart(s)
             /\ \A i, j \in 1..n + m + k : i <= j => Schedule(s)[i] <= Schedule(s)[j]
<1> DEFINE q == SpikeStart(s)
           t == SpikeTime(s)
           n == QuietCount(s, "start")
           m == SpikeCount(s)
           k == QuietCount(s, "tail")
           g == 2 * Square * s.spikeRate
           h == 2 * Square * s.rate
           A == Evenly(0, g, n)
           B == Evenly(q, h, m)
           C == Evenly(q + t, g, k)
<1>1. /\ g \in Nat \ {0} /\ h \in Nat \ {0} /\ q \in Nat /\ t \in Nat /\ n \in Nat /\ m \in Nat /\ k \in Nat
      /\ n * g <= q /\ m * h <= t /\ k * g <= q
  BY SpikeTimes, Zenon
<1>3. Schedule(s) = A \o B \o C
  <2>1. TailStart(s) = q + t
    BY SpikeTimes, Zenon
  <2>2. s.profile \notin {"single", "burst", "concurrent", "steady"}
    OBVIOUS
  <2>3. Schedule(s) = Evenly(0, 2 * Square * s.spikeRate, n) \o Evenly(q, 2 * Square * s.rate, m)
                        \o Evenly(TailStart(s), 2 * Square * s.spikeRate, k)
    BY <2>2 DEF Schedule, Square, QuietCount, SpikeCount
  <2> QED
    BY <2>1, <2>3, Zenon
<1>4. g \in Nat /\ h \in Nat /\ 0 \in Nat /\ q + t \in Nat
  BY <1>1
<1> HIDE DEF q, t, n, m, k, g, h
<1>5. /\ A \in Seq(Nat) /\ Len(A) = n /\ B \in Seq(Nat) /\ Len(B) = m /\ C \in Seq(Nat) /\ Len(C) = k
      /\ \A i \in 1..n : A[i] >= 0
      /\ \A i \in 1..m : B[i] >= q
      /\ \A i \in 1..k : C[i] >= q + t
  <2>1. A \in Seq(Nat)
    BY <1>1, <1>4, EvenlyIs, Zenon
  <2>2. Len(A) = n
    BY <1>1 DEF Evenly
  <2>3. \A i \in 1..n : A[i] >= 0
    BY <1>1, <1>4, EvenlyIs, Zenon
  <2>4. B \in Seq(Nat)
    BY <1>1, <1>4, EvenlyIs, Zenon
  <2>5. Len(B) = m
    BY <1>1 DEF Evenly
  <2>6. \A i \in 1..m : B[i] >= q
    BY <1>1, <1>4, EvenlyIs, Zenon
  <2>7. C \in Seq(Nat)
    BY <1>1, <1>4, EvenlyIs, Zenon
  <2>8. Len(C) = k
    BY <1>1 DEF Evenly
  <2>9. \A i \in 1..k : C[i] >= q + t
    BY <1>1, <1>4, EvenlyIs, Zenon
  <2> QED
    BY <2>1, <2>2, <2>3, <2>4, <2>5, <2>6, <2>7, <2>8, <2>9
<1>6. /\ \A i \in 1..n : A[i] < 0 + q
      /\ \A i, j \in 1..n : i <= j => A[i] <= A[j]
  BY <1>1, <1>4, EvenlyWithin, Zenon
<1>7. /\ \A i \in 1..m : B[i] < q + t
      /\ \A i, j \in 1..m : i <= j => B[i] <= B[j]
  BY <1>1, <1>4, EvenlyWithin, Zenon
<1>8. /\ \A i \in 1..k : C[i] < q + t + q
      /\ \A i, j \in 1..k : i <= j => C[i] <= C[j]
  BY <1>1, <1>4, EvenlyWithin, Zenon
<1> HIDE DEF A, B, C
<1> DEFINE S == A \o B \o C
<1>9. /\ S \in Seq(Nat) /\ Len(S) = n + m + k
      /\ \A i \in 1..n : S[i] = A[i]
      /\ \A i \in n + 1..n + m : S[i] = B[i - n]
      /\ \A i \in n + m + 1..n + m + k : S[i] = C[i - (n + m)]
  <2>1. /\ S \in Seq(Nat) /\ Len(S) = Len(A) + Len(B) + Len(C)
        /\ \A i \in 1..Len(A) : S[i] = A[i]
        /\ \A i \in Len(A) + 1..Len(A) + Len(B) : S[i] = B[i - Len(A)]
        /\ \A i \in Len(A) + Len(B) + 1..Len(A) + Len(B) + Len(C) : S[i] = C[i - (Len(A) + Len(B))]
    BY <1>5, Joined, Zenon
  <2> HIDE DEF S
  <2> QED
    BY <1>5, <2>1
<1> HIDE DEF S
<1>10. \A i \in 1..n : S[i] \in Nat /\ S[i] < q
  <2> TAKE i \in 1..n
  <2>1. S[i] = A[i] /\ A[i] < 0 + q /\ A[i] \in Nat
    BY <1>1, <1>5, <1>6, <1>9
  <2> QED
    BY <2>1, <1>1
<1>11. \A i \in n + 1..n + m : S[i] \in Nat /\ q <= S[i] /\ S[i] < q + t
  <2> TAKE i \in n + 1..n + m
  <2>1. i - n \in 1..m
    BY <1>1
  <2> DEFINE l == i - n
  <2>2. S[i] = B[l] /\ l \in 1..m
    BY <1>9, <2>1
  <2> HIDE DEF l
  <2>3. B[l] < q + t /\ B[l] >= q /\ B[l] \in Nat
    BY <1>5, <1>7, <2>2
  <2> QED
    BY <2>2, <2>3, <1>1
<1>12. \A i \in n + m + 1..n + m + k : S[i] \in Nat /\ q + t <= S[i] /\ S[i] < q + t + q
  <2> TAKE i \in n + m + 1..n + m + k
  <2>1. i - (n + m) \in 1..k
    BY <1>1
  <2> DEFINE l == i - (n + m)
  <2>2. S[i] = C[l] /\ l \in 1..k
    BY <1>9, <2>1
  <2> HIDE DEF l
  <2>3. C[l] < q + t + q /\ C[l] >= q + t /\ C[l] \in Nat
    BY <1>5, <1>8, <2>2
  <2> QED
    BY <2>2, <2>3, <1>1
<1>13. ASSUME NEW i \in 1..n + m + k, NEW j \in 1..n + m + k, i <= j
       PROVE  S[i] <= S[j]
  <2>1. CASE j \in 1..n
    <3>1. i \in 1..n
      BY <1>13, <1>1, <2>1
    <3> QED
      BY <1>6, <1>9, <1>13, <2>1, <3>1
  <2>2. CASE j \in n + 1..n + m
    <3>1. CASE i \in 1..n
      BY <1>1, <1>10, <1>11, <2>2, <3>1
    <3>2. CASE i \in n + 1..n + m
      <4>1. i - n \in 1..m /\ j - n \in 1..m /\ i - n <= j - n
        BY <1>1, <1>13, <2>2, <3>2
      <4> QED
        BY <1>7, <1>9, <2>2, <3>2, <4>1
    <3> QED
      BY <1>1, <1>13, <2>2, <3>1, <3>2
  <2>3. CASE j \in n + m + 1..n + m + k
    <3>1. CASE i \in 1..n
      BY <1>1, <1>10, <1>12, <2>3, <3>1
    <3>2. CASE i \in n + 1..n + m
      BY <1>1, <1>11, <1>12, <2>3, <3>2
    <3>3. CASE i \in n + m + 1..n + m + k
      <4>1. i - (n + m) \in 1..k /\ j - (n + m) \in 1..k /\ i - (n + m) <= j - (n + m)
        BY <1>1, <1>13, <2>3, <3>3
      <4> QED
        BY <1>8, <1>9, <2>3, <3>3, <4>1
    <3> QED
      BY <1>1, <1>13, <2>3, <3>1, <3>2, <3>3
  <2> QED
    BY <1>1, <2>1, <2>2, <2>3
<1>14. Schedule(s) = S
  BY <1>3 DEF S, A, B, C
<1> QED
  BY <1>9, <1>10, <1>11, <1>12, <1>13, <1>14 DEF q, t, n, m, k

\* A steady plan, within its time.
LEMMA SteadySchedule ==
  ASSUME NEW s, StepFields(s), ValidStep(s), s.profile = "steady"
  PROVE  LET n == SteadyCount(s)
         IN  /\ n \in Nat /\ 2 * s.duration * s.rate \in Nat
             /\ Schedule(s) \in Seq(Nat)
             /\ Len(Schedule(s)) = n
             /\ \A i \in 1..n : Schedule(s)[i] < 2 * s.duration * s.rate
             /\ \A i, j \in 1..n : i <= j => Schedule(s)[i] <= Schedule(s)[j]
<1> DEFINE r == s.rate
           d == s.duration
           n == SteadyCount(s)
           q == Square
           g == 2 * Square
           l == 2 * d * r
           S == Evenly(0, g, n)
<1>1. r \in Nat \ {0} /\ d \in Nat \ {0} /\ q \in Nat \ {0} /\ g \in Nat \ {0} /\ g = 2 * q
  BY SquareIs DEF StepFields, ValidStep
<1>2. n = Truncated(s, "start", r * d, q)
  BY DEF SteadyCount
<1>3. Schedule(s) = S
  BY DEF Schedule, SteadyCount, Square
<1>4. l = 2 * d * r
  OBVIOUS
<1> HIDE DEF r, d, n, q, g, l
<1>5. r * d \in Nat \ {0}
  BY <1>1
<1>6. n \in Nat /\ n * q <= r * d
  <2> DEFINE x == r * d
  <2>1. x \in Nat \ {0}
    BY <1>5
  <2>2. n = Truncated(s, "start", x, q)
    BY <1>2
  <2> HIDE DEF x
  <2>3. n \in Nat /\ n * q <= x
    BY <1>1, <2>1, <2>2, TruncatedIs
  <2> QED
    BY <2>3 DEF x
<1>7. n * g <= l /\ l \in Nat
  <2>1. n * q \in Nat /\ r * d \in Nat
    BY <1>1, <1>6
  <2>2. (n * q) * 2 <= (r * d) * 2
    BY <1>6, <2>1, Product
  <2>3. n * g = (n * q) * 2 /\ l = (r * d) * 2
    BY <1>1, <1>4, <1>6
  <2> QED
    BY <2>1, <2>2, <2>3
<1>8. 0 \in Nat /\ g \in Nat
  BY <1>1
<1>9. S \in Seq(Nat) /\ Len(S) = n
  BY <1>6, <1>8, EvenlyIs, Zenon
<1>10. /\ \A i \in 1..n : S[i] < 0 + l
       /\ \A i, j \in 1..n : i <= j => S[i] <= S[j]
  BY <1>1, <1>6, <1>7, <1>8, EvenlyWithin, Zenon
<1> HIDE DEF S
<1>11. \A i \in 1..n : S[i] < l
  BY <1>7, <1>10
<1>12. l = 2 * s.duration * s.rate
  BY <1>4 DEF d, r
<1> QED
  BY <1>3, <1>6, <1>7, <1>9, <1>10, <1>11, <1>12, Zenon DEF n

\* Whatever the profile, a plan is a sequence of times that never runs backwards.
LEMMA ScheduleIs ==
  ASSUME NEW s, StepFields(s), ValidStep(s)
  PROVE  /\ Schedule(s) \in Seq(Nat)
         /\ \A i, j \in 1..Len(Schedule(s)) : i <= j => Schedule(s)[i] <= Schedule(s)[j]
<1>1. CASE s.profile = "single"
  BY <1>1 DEF Schedule
<1>2. CASE s.profile \in {"burst", "concurrent"}
  <2> DEFINE S == [i \in 1..s.requests |-> 0]
  <2>1. s.requests \in Nat
    BY DEF StepFields
  <2>2. S \in Seq(Nat) /\ Len(S) = s.requests
    BY <2>1
  <2>3. Schedule(s) = S
    BY <1>2 DEF Schedule
  <2> QED
    BY <2>1, <2>2, <2>3
<1>3. CASE s.profile = "steady"
  BY <1>3, SteadySchedule, Zenon
<1>4. CASE s.profile = "spike"
  BY <1>4, SpikeSchedule, Zenon
<1> QED
  BY <1>1, <1>2, <1>3, <1>4 DEF StepFields

-----------------------------------------------------------------------------
(* The traffic is the planned one.                                          *)

Sent == {i \in Planned : answers[i] # "unsent"}

Shape ==
  /\ kind \in Kinds /\ step \in Steps /\ ValidStep(step)
  /\ phase \in {"traffic", "readback", "settle", "done"}
  /\ answers \in [Planned -> {"unsent", "waiting"} \cup FatesOf(kind)]
  /\ served \in Seq([pod : {"old", "new", "faulty", "healthy"}, slow : BOOLEAN, late : BOOLEAN])
  /\ world \in {"before", "during", "after"}
  /\ counted \in [MetricKeys(kind) -> Nat] /\ lag \in [MetricKeys(kind) -> Nat]
  /\ missing \subseteq Planned /\ status \in {"running", "passed", "failed"}

\* Every request that was sent is one that a pod was chosen for, and the step's
\* semaphore bounds the open ones.
Bounded ==
  /\ Cardinality(Waiting) <= Limit(step)
  /\ Len(served) = Cardinality(Sent)

LEMMA PlannedIs ==
  ASSUME step \in Steps, ValidStep(step)
  PROVE  /\ StepFields(step) /\ Schedule(step) \in Seq(Nat)
         /\ Planned = 1..Len(Schedule(step)) /\ Len(Schedule(step)) \in Nat
         /\ IsFiniteSet(Planned) /\ Cardinality(Planned) = Len(Schedule(step))
         /\ Limit(step) \in Nat
         /\ \A i, j \in Planned : i <= j => Schedule(step)[i] <= Schedule(step)[j]
<1>1. StepFields(step)
  BY FieldsOf
<1>2. /\ Schedule(step) \in Seq(Nat)
      /\ \A i, j \in 1..Len(Schedule(step)) : i <= j => Schedule(step)[i] <= Schedule(step)[j]
  BY <1>1, ScheduleIs, Zenon
<1>3. Len(Schedule(step)) \in Nat
  BY <1>2
<1>4. IsFiniteSet(Planned) /\ Cardinality(Planned) = Len(Schedule(step))
  <2> DEFINE l == Len(Schedule(step))
  <2>1. l \in Nat
    BY <1>3
  <2> HIDE DEF l
  <2>2. IsFiniteSet(1..l) /\ Cardinality(1..l) = l
    BY <2>1, FS_Interval
  <2> QED
    BY <2>2 DEF l, Planned
<1>5. Limit(step) \in Nat
  BY <1>1 DEF StepFields, Limit
<1> QED
  BY <1>1, <1>2, <1>3, <1>4, <1>5 DEF Planned

LEMMA FatesKnown == \A k : FatesOf(k) \subseteq DOMAIN Fates /\ {"unsent", "waiting"} \cap DOMAIN Fates = {}
  BY DEF FatesOf, Fates

LEMMA Beginning ==
  ASSUME VerdictInit
  PROVE  Shape /\ Bounded
<1>1. PICK k \in Kinds, s \in {x \in Steps : ValidStep(x)} : Fresh(k, s)
  BY DEF VerdictInit
<1>2. /\ kind = k /\ step = s /\ phase = "traffic" /\ answers = [i \in 1..Len(Schedule(s)) |-> "unsent"]
      /\ served = << >> /\ world = "before" /\ missing = {} /\ status = "running"
      /\ counted = [c \in MetricKeys(k) |-> 0] /\ lag \in [MetricKeys(k) -> 0..MaxCarried]
  BY <1>1 DEF Fresh
<1>3. answers = [i \in Planned |-> "unsent"]
  BY <1>2 DEF Planned
<1>4. Shape
  <2>1. counted \in [MetricKeys(kind) -> Nat] /\ lag \in [MetricKeys(kind) -> Nat]
    <3>1. 0..MaxCarried \subseteq Nat
      BY ScaleAssumption
    <3> QED
      BY <1>2, <3>1
  <2>2. served \in Seq([pod : {"old", "new", "faulty", "healthy"}, slow : BOOLEAN, late : BOOLEAN])
    BY <1>2
  <2>3. step \in Steps /\ ValidStep(step) /\ kind \in Kinds
    BY <1>1, <1>2
  <2> QED
    BY <1>2, <1>3, <2>1, <2>2, <2>3 DEF Shape
<1>5. Waiting = {} /\ Sent = {}
  BY <1>3 DEF Waiting, Sent
<1>6. Limit(step) \in Nat
  BY <1>4, PlannedIs DEF Shape
<1>7. Bounded
  BY <1>2, <1>5, <1>6, FS_EmptySet DEF Bounded
<1> QED
  BY <1>4, <1>7

\* What the answers and the pods say of the counts, one action at a time.
LEMMA SendKeeps ==
  ASSUME Shape, Bounded, NEW i \in Planned, NEW pod \in {"old", "new", "faulty", "healthy"}, Send(i, pod)
  PROVE  Shape' /\ Bounded'
<1>1. /\ answers[i] = "unsent" /\ Cardinality(Waiting) < Limit(step)
      /\ answers' = [answers EXCEPT ![i] = "waiting"]
      /\ served' = Append(served, [pod |-> pod, slow |-> pod = "faulty", late |-> world = "after"])
      /\ UNCHANGED <<kind, step, phase, world, counted, lag, missing, status>>
  BY DEF Send
<1>2. /\ Planned' = Planned /\ Limit(step)' = Limit(step)
  BY <1>1 DEF Planned
<1>3. Shape'
  <2>1. answers' \in [Planned -> {"unsent", "waiting"} \cup FatesOf(kind)]
    BY <1>1 DEF Shape
  <2>2. served' \in Seq([pod : {"old", "new", "faulty", "healthy"}, slow : BOOLEAN, late : BOOLEAN])
    <3> DEFINE x == [pod |-> pod, slow |-> pod = "faulty", late |-> world = "after"]
               X == [pod : {"old", "new", "faulty", "healthy"}, slow : BOOLEAN, late : BOOLEAN]
    <3>1. x \in X
      OBVIOUS
    <3>2. served \in Seq(X) /\ served' = Append(served, x)
      BY <1>1 DEF Shape
    <3> HIDE DEF x, X
    <3>3. served' \in Seq(X)
      BY <3>1, <3>2
    <3> QED
      BY <3>3 DEF X
  <2> QED
    BY <1>1, <1>2, <2>1, <2>2 DEF Shape
<1>4. /\ IsFiniteSet(Planned) /\ Limit(step) \in Nat
  BY PlannedIs DEF Shape
<1>5. Waiting' = Waiting \cup {i} /\ i \notin Waiting
  BY <1>1, <1>2 DEF Waiting, Shape
<1>6. Sent' = Sent \cup {i} /\ i \notin Sent
  BY <1>1, <1>2 DEF Sent, Shape
<1>7. IsFiniteSet(Waiting) /\ IsFiniteSet(Sent)
  <2>1. Waiting \subseteq Planned /\ Sent \subseteq Planned
    BY DEF Waiting, Sent
  <2> QED
    BY <1>4, <2>1, FS_Subset
<1>8. Cardinality(Waiting') = Cardinality(Waiting) + 1 /\ Cardinality(Waiting) \in Nat
  BY <1>5, <1>7, FS_AddElement, FS_CardinalityType
<1>9. Cardinality(Sent') = Cardinality(Sent) + 1
  BY <1>6, <1>7, FS_AddElement
<1>10. Len(served') = Len(served) + 1
  BY <1>1 DEF Shape
<1>11. Cardinality(Waiting') <= Limit(step)
  BY <1>1, <1>4, <1>8
<1>12. Len(served') = Cardinality(Sent')
  BY <1>9, <1>10 DEF Bounded
<1> QED
  BY <1>2, <1>3, <1>11, <1>12 DEF Bounded

LEMMA ReplyKeeps ==
  ASSUME Shape, Bounded, NEW i \in Planned, NEW fate \in DOMAIN Fates, Reply(i, fate)
  PROVE  Shape' /\ Bounded'
<1>1. /\ answers[i] = "waiting" /\ fate \in FatesOf(kind)
      /\ answers' = [answers EXCEPT ![i] = fate]
      /\ lag' = [c \in MetricKeys(kind) |-> lag[c] + (IF Counts(c, Fates[fate]) THEN 1 ELSE 0)]
      /\ UNCHANGED <<kind, step, phase, served, world, counted, missing, status>>
  BY DEF Reply
<1>2. /\ Planned' = Planned /\ Limit(step)' = Limit(step)
  BY <1>1 DEF Planned
<1>3. Shape'
  <2>1. answers' \in [Planned -> {"unsent", "waiting"} \cup FatesOf(kind)]
    BY <1>1 DEF Shape
  <2>2. lag' \in [MetricKeys(kind) -> Nat]
    <3>1. \A c \in MetricKeys(kind) : lag[c] + (IF Counts(c, Fates[fate]) THEN 1 ELSE 0) \in Nat
      BY DEF Shape
    <3> QED
      BY <1>1, <3>1
  <2> QED
    BY <1>1, <1>2, <2>1, <2>2 DEF Shape
<1>4. /\ IsFiniteSet(Planned) /\ Limit(step) \in Nat
  BY PlannedIs DEF Shape
<1>5. fate # "waiting" /\ fate # "unsent"
  BY FatesKnown
<1>6. Waiting' = Waiting \ {i} /\ i \in Waiting
  BY <1>1, <1>2, <1>5 DEF Waiting, Shape
<1>7. Sent' = Sent
  BY <1>1, <1>2, <1>5 DEF Sent, Shape
<1>8. IsFiniteSet(Waiting)
  <2>1. Waiting \subseteq Planned
    BY DEF Waiting
  <2> QED
    BY <1>4, <2>1, FS_Subset
<1>9. Cardinality(Waiting') = Cardinality(Waiting) - 1 /\ Cardinality(Waiting) \in Nat
  BY <1>6, <1>8, FS_RemoveElement, FS_CardinalityType
<1>10. Cardinality(Waiting') <= Limit(step)
  BY <1>4, <1>9 DEF Bounded
<1> QED
  BY <1>1, <1>2, <1>3, <1>7, <1>10 DEF Bounded

\* Every other step leaves the plan, the answers and the pods alone.
LEMMA OthersKeep ==
  ASSUME Shape, Bounded, UNCHANGED <<kind, step, answers, served>>,
         phase' \in {"traffic", "readback", "settle", "done"}, world' \in {"before", "during", "after"},
         counted' \in [MetricKeys(kind) -> Nat], lag' \in [MetricKeys(kind) -> Nat],
         missing' \subseteq Planned, status' \in {"running", "passed", "failed"}
  PROVE  Shape' /\ Bounded'
<1>1. Planned' = Planned
  BY DEF Planned
<1>2. Waiting' = Waiting /\ Sent' = Sent
  BY <1>1 DEF Waiting, Sent
<1> QED
  BY <1>1, <1>2 DEF Shape, Bounded

\* A reading is what was counted at the time or after the last scrape.
LEMMA ReadIs ==
  ASSUME NEW first \in Nat, NEW more \in Nat, NEW expected \in Nat
  PROVE  /\ WaitMetricDelta(<<first, first + more>>, 0, expected) \in {first, first + more}
<1> DEFINE r == <<first, first + more>>
           enough == {i \in DOMAIN r : MetricDelta(r[i], 0) >= expected}
           n == IF enough = {} THEN Len(r) ELSE Min(enough)
<1>1. DOMAIN r = 1..2 /\ Len(r) = 2 /\ r[1] = first /\ r[2] = first + more
  OBVIOUS
<1>2. n \in {1, 2}
  <2>1. enough \subseteq {1, 2}
    BY <1>1
  <2>2. CASE enough = {}
    BY <1>1, <2>2
  <2>3. CASE enough # {}
    <3>1. enough = {1} \/ enough = {2} \/ enough = {1, 2}
      BY <2>1, <2>3
    <3>2. Min({1}) = 1 /\ Min({2}) = 2 /\ Min({1, 2}) = 1
      BY DEF Min
    <3> QED
      BY <3>1, <3>2
  <2> QED
    BY <2>2, <2>3
<1>3. WaitMetricDelta(r, 0, expected) = MetricDelta(r[n], 0)
  BY DEF WaitMetricDelta
<1> HIDE DEF n
<1>4. MetricDelta(r[n], 0) = r[n] - 0
  BY DEF MetricDelta
<1>5. r[n] \in {first, first + more}
  BY <1>1, <1>2
<1> HIDE DEF r
<1> QED
  BY <1>3, <1>4, <1>5 DEF r

LEMMA AwaitedIs ==
  ASSUME Shape, NEW c
  PROVE  Awaited(c) \in Nat
<1>1. \A S : S \subseteq Planned => Cardinality(S) \in Nat
  BY PlannedIs, FS_Subset, FS_CardinalityType DEF Shape
<1>2. \A codes : AnsweredAs(codes) \in Nat
  <2> TAKE codes
  <2>1. AnsweredAs(codes) = Cardinality({i \in Planned : FateOf(i).status \in codes})
    BY Zenon DEF AnsweredAs, CountWith
  <2>2. {i \in Planned : FateOf(i).status \in codes} \subseteq Planned
    BY Zenon
  <2> QED
    BY <1>1, <2>1, <2>2, Zenon
<1>3. CountWith(LAMBDA i : FateOf(i).status \notin {EdgeStatus(kind), 0}) \in Nat
  <2>1. CountWith(LAMBDA i : FateOf(i).status \notin {EdgeStatus(kind), 0})
          = Cardinality({i \in Planned : FateOf(i).status \notin {EdgeStatus(kind), 0}})
    BY Zenon DEF CountWith
  <2>2. {i \in Planned : FateOf(i).status \notin {EdgeStatus(kind), 0}} \subseteq Planned
    BY Zenon
  <2> QED
    BY <1>1, <2>1, <2>2, Zenon
<1>4. 0 \in Nat
  OBVIOUS
<1> QED
  BY <1>2, <1>3, <1>4, Zenon DEF Awaited

\* What the verdict goes by is among the readings, and what it has not seen is
\* the rest.
LEMMA ReadingIs ==
  ASSUME Shape, NEW caught, NEW c \in MetricKeys(kind)
  PROVE  /\ Read(c, Readings(caught)) \in Nat
         /\ counted[c] + lag[c] - Read(c, Readings(caught)) \in Nat
<1> DEFINE first == counted[c]
           more == IF c \in caught THEN lag[c] ELSE 0
           expected == Awaited(c)
<1>1. first \in Nat /\ lag[c] \in Nat /\ more \in {0, lag[c]}
  BY DEF Shape
<1>2. expected \in Nat
  BY AwaitedIs
<1>3. Read(c, Readings(caught)) = WaitMetricDelta(<<first, first + more>>, 0, expected)
  BY Zenon DEF Read, Readings
<1> HIDE DEF first, more, expected
<1>4. more \in Nat
  BY <1>1
<1>5. Read(c, Readings(caught)) \in {first, first + more}
  BY <1>1, <1>2, <1>3, <1>4, ReadIs
<1> QED
  BY <1>1, <1>4, <1>5 DEF first

LEMMA ScrapeKeeps ==
  ASSUME Shape, NEW c \in MetricKeys(kind), NEW n \in 1..lag[c], Scrape(c, n)
  PROVE  counted' \in [MetricKeys(kind) -> Nat] /\ lag' \in [MetricKeys(kind) -> Nat]
<1>1. counted[c] \in Nat /\ lag[c] \in Nat
  BY DEF Shape
<1>2. counted[c] + n \in Nat /\ lag[c] - n \in Nat
  BY <1>1
<1>3. counted' = [counted EXCEPT ![c] = counted[c] + n] /\ lag' = [lag EXCEPT ![c] = lag[c] - n]
  BY DEF Scrape
<1> QED
  BY <1>2, <1>3 DEF Shape

LEMMA JudgeKeeps ==
  ASSUME Shape, NEW kept, NEW ready, NEW caught, Judge(kept, ready, caught)
  PROVE  /\ counted' \in [MetricKeys(kind) -> Nat] /\ lag' \in [MetricKeys(kind) -> Nat]
         /\ phase' = "done" /\ status' \in {"running", "passed", "failed"}
         /\ UNCHANGED <<kind, step, answers, served, world, missing>>
<1>1. /\ counted' = [c \in MetricKeys(kind) |-> Read(c, Readings(caught))]
      /\ lag' = [c \in MetricKeys(kind) |-> counted[c] + lag[c] - Read(c, Readings(caught))]
      /\ phase' = "done" /\ UNCHANGED <<kind, step, answers, served, world, missing>>
  BY Zenon DEF Judge
<1>2. status' \in {"passed", "failed"}
  BY Zenon DEF Judge
<1>3. \A c \in MetricKeys(kind) : /\ Read(c, Readings(caught)) \in Nat
                                  /\ counted[c] + lag[c] - Read(c, Readings(caught)) \in Nat
  BY ReadingIs, Zenon
<1> QED
  BY <1>1, <1>2, <1>3

LEMMA Planning ==
  ASSUME Shape, Bounded, [VerdictNext]_verdictVars
  PROVE  Shape' /\ Bounded'
<1>1. CASE \E i \in Planned, pod \in {"old", "new", "faulty", "healthy"} : Send(i, pod)
  BY <1>1, SendKeeps
<1>2. CASE \E i \in Planned, fate \in DOMAIN Fates : Reply(i, fate)
  BY <1>2, ReplyKeeps
<1>3. CASE Disturb
  <2>1. world' \in {"before", "during", "after"}
    BY <1>3 DEF Disturb, Shape
  <2> QED
    BY <1>3, <2>1, OthersKeep DEF Disturb, Shape
<1>4. CASE \E c \in MetricKeys(kind) : \E n \in 1..lag[c] : Scrape(c, n)
  <2>0. PICK c \in MetricKeys(kind) : \E n \in 1..lag[c] : Scrape(c, n)
    BY <1>4
  <2>1. PICK n \in 1..lag[c] : Scrape(c, n)
    BY <2>0
  <2>2. counted' \in [MetricKeys(kind) -> Nat] /\ lag' \in [MetricKeys(kind) -> Nat]
    BY <2>1, ScrapeKeeps
  <2>3. UNCHANGED <<kind, step, phase, answers, served, world, missing, status>>
    BY <2>1 DEF Scrape
  <2> QED
    BY <2>2, <2>3, OthersKeep DEF Shape
<1>5. CASE Finish
  BY <1>5, OthersKeep DEF Finish, Shape
<1>6. CASE \E lost \in SUBSET Planned : ReadBack(lost)
  BY <1>6, OthersKeep DEF ReadBack, Shape
<1>7. CASE \E kept, ready, caught : Judge(kept, ready, caught)
  BY <1>7, JudgeKeeps, OthersKeep DEF Shape
<1>8. CASE UNCHANGED verdictVars
  BY <1>8, OthersKeep DEF verdictVars, Shape
<1> QED
  BY <1>1, <1>2, <1>3, <1>4, <1>5, <1>6, <1>7, <1>8, Zenon DEF VerdictNext

-----------------------------------------------------------------------------
(* The plan against the clock.                                              *)

\* The three parts of a spike, one after the other, and nothing else.
LEMMA SpikeOffsets ==
  ASSUME step \in Steps, ValidStep(step), step.profile = "spike"
  PROVE  /\ Cardinality(Offsets(0, SpikeStart(step))) = QuietCount(step, "start")
         /\ Cardinality(Offsets(SpikeStart(step), TailStart(step))) = SpikeCount(step)
         /\ Cardinality(Offsets(TailStart(step), 2 * step.duration * step.rate * step.spikeRate)) = QuietCount(step, "tail")
         /\ Offsets(0, 2 * step.duration * step.rate * step.spikeRate) = Planned
<1> DEFINE q == SpikeStart(step)
           t == SpikeTime(step)
           n == QuietCount(step, "start")
           m == SpikeCount(step)
           k == QuietCount(step, "tail")
           end == 2 * step.duration * step.rate * step.spikeRate
           S == Schedule(step)
<1>0. StepFields(step)
  BY FieldsOf
<1>1. /\ q \in Nat /\ t \in Nat /\ n \in Nat /\ m \in Nat /\ k \in Nat
      /\ TailStart(step) = q + t /\ end = TailStart(step) + q
  BY <1>0, SpikeTimes, Zenon
<1>2. /\ S \in Seq(Nat)
      /\ Len(S) = n + m + k
      /\ \A i \in 1..n : S[i] < q
      /\ \A i \in n + 1..n + m : q <= S[i] /\ S[i] < q + t
      /\ \A i \in n + m + 1..n + m + k : q + t <= S[i] /\ S[i] < q + t + q
  BY <1>0, SpikeSchedule, Zenon
<1> DEFINE P(from, to) == {i \in 1..n + m + k : from <= S[i] /\ S[i] < to}
<1>4. Planned = 1..n + m + k /\ \A from, to : Offsets(from, to) = P(from, to)
  BY <1>2, Zenon DEF Planned, Offsets
<1>5. TailStart(step) = q + t /\ end = q + t + q
  <2> HIDE DEF q, t, end
  <2> QED
    BY <1>1
<1> HIDE DEF q, t, n, m, k, end, S
<1>6. /\ \A i \in 1..n : S[i] \in Nat /\ S[i] < q
      /\ \A i \in n + 1..n + m : S[i] \in Nat /\ q <= S[i] /\ S[i] < q + t
      /\ \A i \in n + m + 1..n + m + k : S[i] \in Nat /\ q + t <= S[i] /\ S[i] < q + t + q
  BY <1>1, <1>2
<1>7. \A i \in 1..n + m + k : i \in 1..n \/ i \in n + 1..n + m \/ i \in n + m + 1..n + m + k
  BY <1>1
<1>8. P(q, q + t) = n + 1..n + m
  <2>1. ASSUME NEW i \in P(q, q + t) PROVE i \in n + 1..n + m
    BY <1>1, <1>6, <1>7
  <2>2. ASSUME NEW i \in n + 1..n + m PROVE i \in P(q, q + t)
    BY <1>1, <1>6
  <2> QED
    BY <2>1, <2>2
<1>9. P(0, q) = 1..n
  <2>1. ASSUME NEW i \in P(0, q) PROVE i \in 1..n
    BY <1>1, <1>6, <1>7
  <2>2. ASSUME NEW i \in 1..n PROVE i \in P(0, q)
    BY <1>1, <1>6
  <2> QED
    BY <2>1, <2>2
<1>10. P(q + t, q + t + q) = n + m + 1..n + m + k
  <2>1. ASSUME NEW i \in P(q + t, q + t + q) PROVE i \in n + m + 1..n + m + k
    BY <1>1, <1>6, <1>7
  <2>2. ASSUME NEW i \in n + m + 1..n + m + k PROVE i \in P(q + t, q + t + q)
    BY <1>1, <1>6
  <2> QED
    BY <2>1, <2>2
<1>11. P(0, q + t + q) = 1..n + m + k
  <2>1. ASSUME NEW i \in 1..n + m + k PROVE i \in P(0, q + t + q)
    BY <1>1, <1>6, <1>7
  <2> QED
    BY <2>1
<1>12. /\ Cardinality(n + 1..n + m) = m
       /\ Cardinality(1..n) = n /\ Cardinality(n + m + 1..n + m + k) = k
  <2>1. n + 1 \in Int /\ n + m \in Int /\ 1 \in Int /\ n \in Int /\ n + m + 1 \in Int /\ n + m + k \in Int
    BY <1>1
  <2>2. Cardinality(n + 1..n + m) = IF n + 1 > n + m THEN 0 ELSE (n + m) - (n + 1) + 1
    BY <2>1, FS_Interval, Zenon
  <2>3. Cardinality(1..n) = IF 1 > n THEN 0 ELSE n - 1 + 1
    BY <2>1, FS_Interval, Zenon
  <2>4. Cardinality(n + m + 1..n + m + k) = IF n + m + 1 > n + m + k THEN 0 ELSE (n + m + k) - (n + m + 1) + 1
    BY <2>1, FS_Interval, Zenon
  <2> QED
    BY <1>1, <2>2, <2>3, <2>4
<1> HIDE DEF P
<1>13. /\ Cardinality(Offsets(0, q)) = n /\ Cardinality(Offsets(q, TailStart(step))) = m
       /\ Cardinality(Offsets(TailStart(step), end)) = k /\ Offsets(0, end) = Planned
  BY <1>4, <1>5, <1>8, <1>9, <1>10, <1>11, <1>12, Zenon
<1> QED
  BY <1>13, Zenon DEF q, n, m, k, end

LEMMA SteadyOffsets ==
  ASSUME step \in Steps, ValidStep(step), step.profile = "steady"
  PROVE  /\ Offsets(0, 2 * step.duration * step.rate) = Planned
         /\ Cardinality(Planned) = SteadyCount(step)
<1> DEFINE n == SteadyCount(step)
           end == 2 * step.duration * step.rate
           S == Schedule(step)
<1>1. /\ n \in Nat /\ end \in Nat /\ S \in Seq(Nat) /\ Len(S) = n
      /\ \A i \in 1..n : S[i] < end
  BY FieldsOf, SteadySchedule, Zenon
<1>2. Planned = 1..n /\ Offsets(0, end) = {i \in 1..n : 0 <= S[i] /\ S[i] < end}
  BY <1>1, Zenon DEF Planned, Offsets
<1> HIDE DEF n, end, S
<1>3. \A i \in 1..n : S[i] \in Nat
  BY <1>1
<1>4. {i \in 1..n : 0 <= S[i] /\ S[i] < end} = 1..n
  BY <1>1, <1>3
<1>5. Cardinality(1..n) = n
  BY <1>1, FS_Interval
<1>6. Offsets(0, end) = Planned /\ Cardinality(Planned) = n
  BY <1>2, <1>4, <1>5
<1> QED
  BY <1>6 DEF n, end

\* What int() leaves of a part is what is planned in its time.
LEMMA PartIs ==
  ASSUME NEW part, NEW from, NEW to, NEW product \in Nat \ {0}, NEW over \in Nat \ {0},
         Cardinality(Offsets(from, to)) = Truncated(step, part, product, over)
  PROVE  PartAsPlanned(part, from, to, product, over)
<1> DEFINE n == Truncated(step, part, product, over)
<1>1. /\ n \in Nat /\ n * over <= product /\ product <= (n + 1) * over
      /\ product = (n + 1) * over => part \in step.inexact
  BY TruncatedIs, Zenon
<1> HIDE DEF n
<1>2. Cardinality(Offsets(from, to)) = n
  BY DEF n
<1> QED
  BY <1>1, <1>2, Zenon DEF PartAsPlanned

LEMMA PlanIs ==
  ASSUME step \in Steps, ValidStep(step)
  PROVE  TrafficAsPlanned
<1>0. StepFields(step)
  BY FieldsOf
<1>1. \A i, j \in Planned : i < j => Schedule(step)[i] <= Schedule(step)[j]
  BY PlannedIs DEF Planned
<1>2. 2 * (Scale * Scale) \in Nat \ {0} /\ Scale * Scale \in Nat \ {0} /\ 2 * Square = 2 * (Scale * Scale) /\ Square = Scale * Scale
  BY SquareIs DEF Square
<1>3. ASSUME step.profile = "steady"
      PROVE  /\ Offsets(0, 2 * step.duration * step.rate) = Planned
             /\ PartAsPlanned("start", 0, 2 * step.duration * step.rate, step.rate * step.duration, Scale * Scale)
  <2>1. step.rate * step.duration \in Nat \ {0}
    <3>1. step.rate \in Nat \ {0} /\ step.duration \in Nat \ {0}
      BY <1>0, <1>3 DEF StepFields, ValidStep
    <3> QED
      BY <3>1
  <2>2. Offsets(0, 2 * step.duration * step.rate) = Planned /\ Cardinality(Planned) = SteadyCount(step)
    BY <1>3, SteadyOffsets
  <2>3. SteadyCount(step) = Truncated(step, "start", step.rate * step.duration, Scale * Scale)
    BY Zenon DEF SteadyCount, Square
  <2>4. Cardinality(Offsets(0, 2 * step.duration * step.rate)) = Truncated(step, "start", step.rate * step.duration, Scale * Scale)
    BY <2>2, <2>3, Zenon
  <2> QED
    BY <1>2, <2>1, <2>2, <2>4, PartIs, Zenon
<1>4. ASSUME step.profile = "spike"
      PROVE  /\ Offsets(0, 2 * step.duration * step.rate * step.spikeRate) = Planned
             /\ PartAsPlanned("start", 0, SpikeStart(step), step.rate * (step.duration - step.spikeSeconds), 2 * (Scale * Scale))
             /\ PartAsPlanned("spike", SpikeStart(step), TailStart(step), step.spikeRate * step.spikeSeconds, Scale * Scale)
             /\ PartAsPlanned("tail", TailStart(step), 2 * step.duration * step.rate * step.spikeRate,
                              step.rate * (step.duration - step.spikeSeconds), 2 * (Scale * Scale))
  <2>1. step.rate * (step.duration - step.spikeSeconds) \in Nat \ {0} /\ step.spikeRate * step.spikeSeconds \in Nat \ {0}
    <3>1. /\ step.rate \in Nat \ {0} /\ step.duration - step.spikeSeconds \in Nat \ {0}
          /\ step.spikeRate \in Nat \ {0} /\ step.spikeSeconds \in Nat \ {0}
      BY <1>0, <1>4 DEF StepFields, ValidStep
    <3>2. \A a, b \in Nat \ {0} : a * b \in Nat \ {0}
      OBVIOUS
    <3> QED
      BY <3>1, <3>2, Zenon
  <2>2. /\ QuietCount(step, "start") = Truncated(step, "start", step.rate * (step.duration - step.spikeSeconds), 2 * (Scale * Scale))
        /\ QuietCount(step, "tail") = Truncated(step, "tail", step.rate * (step.duration - step.spikeSeconds), 2 * (Scale * Scale))
        /\ SpikeCount(step) = Truncated(step, "spike", step.spikeRate * step.spikeSeconds, Scale * Scale)
    BY Zenon DEF QuietCount, SpikeCount, Square
  <2>3. /\ Cardinality(Offsets(0, SpikeStart(step))) = QuietCount(step, "start")
        /\ Cardinality(Offsets(SpikeStart(step), TailStart(step))) = SpikeCount(step)
        /\ Cardinality(Offsets(TailStart(step), 2 * step.duration * step.rate * step.spikeRate)) = QuietCount(step, "tail")
        /\ Offsets(0, 2 * step.duration * step.rate * step.spikeRate) = Planned
    BY <1>4, SpikeOffsets, Zenon
  <2>4. PartAsPlanned("start", 0, SpikeStart(step), step.rate * (step.duration - step.spikeSeconds), 2 * (Scale * Scale))
    BY <1>2, <2>1, <2>2, <2>3, PartIs, Zenon
  <2>5. PartAsPlanned("spike", SpikeStart(step), TailStart(step), step.spikeRate * step.spikeSeconds, Scale * Scale)
    BY <1>2, <2>1, <2>2, <2>3, PartIs, Zenon
  <2>6. PartAsPlanned("tail", TailStart(step), 2 * step.duration * step.rate * step.spikeRate,
                      step.rate * (step.duration - step.spikeSeconds), 2 * (Scale * Scale))
    BY <1>2, <2>1, <2>2, <2>3, PartIs, Zenon
  <2> QED
    BY <2>3, <2>4, <2>5, <2>6, Zenon
<1> QED
  BY <1>1, <1>3, <1>4, Zenon DEF TrafficAsPlanned

LEMMA ShapeMeans ==
  ASSUME Shape, Bounded
  PROVE  TrafficAsPlanned /\ VerdictTypeOK
<1>1. /\ Len(Schedule(step)) \in Nat /\ IsFiniteSet(Planned) /\ Cardinality(Planned) = Len(Schedule(step))
  BY PlannedIs DEF Shape
<1>2. TrafficAsPlanned
  BY PlanIs DEF Shape
<1>3. VerdictTypeOK
  <2>1. Cardinality(Sent) <= Cardinality(Planned)
    <3>1. Sent \subseteq Planned
      BY DEF Sent
    <3> QED
      BY <1>1, <3>1, FS_Subset
  <2>2. \A i \in Planned : answers[i] \in {"unsent", "waiting"} \cup DOMAIN Fates
    BY FatesKnown DEF Shape
  <2>3. Len(served) <= Len(Schedule(step))
    BY <1>1, <2>1 DEF Bounded
  <2> QED
    BY <2>2, <2>3, Zenon DEF VerdictTypeOK, Shape, Bounded
<1> QED
  BY <1>2, <1>3

\* The state of a scenario's run is well typed: a request has one outcome of
\* the kinds the scenario can give it, the semaphore bounds the open requests
\* in whatever order they start and are answered, no more of them reached a pod
\* than the step planned, and no counter runs ahead of what happened
\* (scenarios/workload.py).
THEOREM Typing == VerdictSpec => []VerdictTypeOK
<1>1. VerdictInit => Shape /\ Bounded
  BY Beginning
<1>2. Shape /\ Bounded /\ [VerdictNext]_verdictVars => Shape' /\ Bounded'
  BY Planning
<1>3. Shape /\ Bounded => VerdictTypeOK
  BY ShapeMeans
<1> QED
  BY <1>1, <1>2, <1>3, PTL DEF VerdictSpec

\* For every step the schema accepts, whatever fractions its rates and times
\* are and whichever of their products the machine rounds down, the plan is the
\* traffic it describes: it never runs backwards, each request falls into its
\* own part of the step and none past the end, and each part has its rate but
\* for the fraction int() cuts off, or the one request an inexact product loses
\* (workload.py, schema.py).
THEOREM TrafficIsPlanned == VerdictSpec => []TrafficAsPlanned
<1>1. VerdictInit => Shape /\ Bounded
  BY Beginning
<1>2. Shape /\ Bounded /\ [VerdictNext]_verdictVars => Shape' /\ Bounded'
  BY Planning
<1>3. Shape /\ Bounded => TrafficAsPlanned
  BY ShapeMeans
<1> QED
  BY <1>1, <1>2, <1>3, PTL DEF VerdictSpec

-----------------------------------------------------------------------------
(* A run that passed is evidence.                                           *)

\* What the end of a run relies on: all answers are in before the orders are
\* read back.
Settled ==
  /\ phase # "traffic" => \A i \in Planned : answers[i] \in FatesOf(kind)
  /\ phase # "done" => status = "running"

\* The requests a counter counts: each of them is in the counter or on its way.
Tally(c) == {i \in Planned : answers[i] \in DOMAIN Fates /\ Counts(c, Fates[answers[i]])}
Tallied == \A c \in MetricKeys(kind) : Cardinality(Tally(c)) <= counted[c] + lag[c]

\* What the pods that served requests tell of the Kubernetes event.
Disturbed ==
  /\ \A n \in 1..Len(served) : served[n].late => world = "after"
  /\ kind \in {"rolling-restart", "pod-deletion"} /\ world = "before" => \A n \in 1..Len(served) : served[n].pod = "old"

LEMMA BeginningSettled ==
  ASSUME VerdictInit
  PROVE  Settled /\ Tallied /\ Disturbed /\ PassedMeansTrue
<1>1. PICK k \in Kinds, s \in {x \in Steps : ValidStep(x)} : Fresh(k, s)
  BY DEF VerdictInit
<1>2. phase = "traffic" /\ served = << >> /\ status = "running" /\ answers = [i \in Planned |-> "unsent"]
  BY <1>1 DEF Fresh, Planned
<1>3. Shape
  BY Beginning
<1>4. Tallied
  <2> SUFFICES ASSUME NEW c \in MetricKeys(kind) PROVE Cardinality(Tally(c)) <= counted[c] + lag[c]
    BY DEF Tallied
  <2>1. Tally(c) = {}
    BY <1>2, FatesKnown DEF Tally
  <2>2. counted[c] \in Nat /\ lag[c] \in Nat
    BY <1>3 DEF Shape
  <2> QED
    BY <2>1, <2>2, FS_EmptySet
<1>5. Disturbed
  BY <1>2 DEF Disturbed
<1>6. PassedMeansTrue
  BY <1>2, "running" # "passed", Zenon DEF PassedMeansTrue
<1> QED
  BY <1>2, <1>4, <1>5, <1>6, Zenon DEF Settled

LEMMA SettledStep ==
  ASSUME Shape, Settled, [VerdictNext]_verdictVars
  PROVE  Settled'
<1>1. ASSUME NEW i \in Planned, NEW pod, Send(i, pod) PROVE Settled'
  BY <1>1 DEF Send, Settled
<1>2. ASSUME NEW i \in Planned, NEW fate, Reply(i, fate) PROVE Settled'
  <2>1. phase = "traffic"
    <3>1. answers[i] = "waiting" /\ "waiting" \notin FatesOf(kind)
      BY <1>2, FatesKnown DEF Reply
    <3> QED
      BY <3>1 DEF Settled
  <2> QED
    BY <1>2, <2>1 DEF Reply, Settled
<1>3. CASE Disturb
  BY <1>3 DEF Disturb, Settled, Planned
<1>4. ASSUME NEW c, NEW n, Scrape(c, n) PROVE Settled'
  <2>1. UNCHANGED <<kind, step, phase, answers, status>>
    BY <1>4 DEF Scrape
  <2> QED
    BY <2>1 DEF Settled, Planned
<1>5. CASE Finish
  <2>1. \A i \in Planned : answers[i] \in FatesOf(kind)
    <3> TAKE i \in Planned
    <3>1. answers[i] \in DOMAIN Fates
      BY <1>5 DEF Finish
    <3> QED
      BY <3>1, FatesKnown DEF Shape
  <2>2. Planned' = Planned
    BY <1>5 DEF Finish, Planned
  <2> QED
    BY <1>5, <2>1, <2>2 DEF Finish, Settled
<1>6. ASSUME NEW lost, ReadBack(lost) PROVE Settled'
  <2>1. Planned' = Planned
    BY <1>6 DEF ReadBack, Planned
  <2> QED
    BY <1>6, <2>1 DEF ReadBack, Settled
<1>7. ASSUME NEW kept, NEW ready, NEW caught, Judge(kept, ready, caught) PROVE Settled'
  <2>1. phase = "settle" /\ phase' = "done" /\ UNCHANGED <<kind, step, answers>>
    BY <1>7, Zenon DEF Judge
  <2> QED
    BY <2>1 DEF Settled, Planned
<1>8. CASE UNCHANGED verdictVars
  <2>1. Planned' = Planned
    BY <1>8 DEF verdictVars, Planned
  <2> QED
    BY <1>8, <2>1 DEF verdictVars, Settled
<1> QED
  BY <1>1, <1>2, <1>3, <1>4, <1>5, <1>6, <1>7, <1>8, Zenon DEF VerdictNext

\* An answer is on its way to the counters, and no reading makes one get lost.
LEMMA ReplyTallied ==
  ASSUME Shape, Tallied, NEW i \in Planned, NEW fate \in DOMAIN Fates, Reply(i, fate)
  PROVE  Tallied'
<1>1. /\ answers[i] = "waiting" /\ answers' = [answers EXCEPT ![i] = fate]
      /\ lag' = [c \in MetricKeys(kind) |-> lag[c] + (IF Counts(c, Fates[fate]) THEN 1 ELSE 0)]
      /\ UNCHANGED <<kind, step, counted>>
  BY DEF Reply
<1>2. SUFFICES ASSUME NEW c \in MetricKeys(kind) PROVE Cardinality(Tally(c)') <= counted[c] + lag'[c]
  BY <1>1 DEF Tallied
<1> DEFINE T == Tally(c)
<1>3. counted[c] \in Nat /\ lag[c] \in Nat /\ Cardinality(T) <= counted[c] + lag[c]
  BY DEF Shape, Tallied
<1>4. Planned' = Planned
  BY <1>1 DEF Planned
<1>5. i \notin T
  BY <1>1, FatesKnown DEF Tally
<1>6. IsFiniteSet(T) /\ Cardinality(T) \in Nat
  <2>1. T \subseteq Planned /\ IsFiniteSet(Planned)
    BY PlannedIs DEF Tally, Shape
  <2> QED
    BY <2>1, FS_Subset, FS_CardinalityType
<1>7. \A j \in Planned : answers'[j] = IF j = i THEN fate ELSE answers[j]
  BY <1>1 DEF Shape
<1>8. CASE Counts(c, Fates[fate])
  <2>1. Tally(c)' = T \cup {i}
    BY <1>4, <1>7, <1>8 DEF Tally
  <2>2. lag'[c] = lag[c] + 1
    BY <1>1, <1>8
  <2> HIDE DEF T
  <2>3. Cardinality(T \cup {i}) = Cardinality(T) + 1
    BY <1>5, <1>6, FS_AddElement
  <2> QED
    BY <1>3, <1>6, <2>1, <2>2, <2>3
<1>9. CASE ~Counts(c, Fates[fate])
  <2>1. Tally(c)' = T
    BY <1>1, <1>4, <1>7, <1>9, FatesKnown DEF Tally
  <2>2. lag'[c] = lag[c]
    BY <1>1, <1>3, <1>9
  <2> QED
    BY <1>3, <2>1, <2>2
<1> QED
  BY <1>8, <1>9

LEMMA TalliedStep ==
  ASSUME Shape, Tallied, [VerdictNext]_verdictVars
  PROVE  Tallied'
<1>1. ASSUME NEW i \in Planned, NEW pod, Send(i, pod) PROVE Tallied'
  <2>1. /\ answers[i] = "unsent" /\ answers' = [answers EXCEPT ![i] = "waiting"]
        /\ UNCHANGED <<kind, step, counted, lag>>
    BY <1>1 DEF Send
  <2>2. Planned' = Planned
    BY <2>1 DEF Planned
  <2>3. \A j \in Planned : answers'[j] = IF j = i THEN "waiting" ELSE answers[j]
    BY <2>1 DEF Shape
  <2>4. \A c : Tally(c)' = Tally(c)
    BY <2>1, <2>2, <2>3, FatesKnown DEF Tally
  <2> QED
    BY <2>1, <2>4 DEF Tallied
<1>2. ASSUME NEW i \in Planned, NEW fate \in DOMAIN Fates, Reply(i, fate) PROVE Tallied'
  BY <1>2, ReplyTallied
<1>3. ASSUME NEW c \in MetricKeys(kind), NEW n \in 1..lag[c], Scrape(c, n) PROVE Tallied'
  <2>1. /\ counted' = [counted EXCEPT ![c] = counted[c] + n] /\ lag' = [lag EXCEPT ![c] = lag[c] - n]
        /\ UNCHANGED <<kind, step, answers>>
    BY <1>3 DEF Scrape
  <2>2. \A b : Tally(b)' = Tally(b)
    BY <2>1 DEF Tally, Planned
  <2>3. \A b \in MetricKeys(kind) : counted'[b] + lag'[b] = counted[b] + lag[b]
    <3> TAKE b \in MetricKeys(kind)
    <3>1. counted[b] \in Nat /\ lag[b] \in Nat /\ counted[c] \in Nat /\ lag[c] \in Nat
      BY DEF Shape
    <3>2. counted'[b] = (IF b = c THEN counted[c] + n ELSE counted[b]) /\ lag'[b] = (IF b = c THEN lag[c] - n ELSE lag[b])
      BY <2>1 DEF Shape
    <3> QED
      BY <3>1, <3>2
  <2> QED
    BY <2>1, <2>2, <2>3 DEF Tallied
<1>4. ASSUME NEW kept, NEW ready, NEW caught, Judge(kept, ready, caught) PROVE Tallied'
  <2>1. /\ counted' = [c \in MetricKeys(kind) |-> Read(c, Readings(caught))]
        /\ lag' = [c \in MetricKeys(kind) |-> counted[c] + lag[c] - Read(c, Readings(caught))]
        /\ UNCHANGED <<kind, step, answers>>
    BY <1>4, Zenon DEF Judge
  <2>2. \A b : Tally(b)' = Tally(b)
    BY <2>1 DEF Tally, Planned
  <2>3. \A b \in MetricKeys(kind) : counted'[b] + lag'[b] = counted[b] + lag[b]
    <3> TAKE b \in MetricKeys(kind)
    <3> DEFINE r == Read(b, Readings(caught))
    <3>1. counted[b] \in Nat /\ lag[b] \in Nat /\ r \in Nat
      BY ReadingIs DEF Shape
    <3>2. counted'[b] = r /\ lag'[b] = counted[b] + lag[b] - r
      BY <2>1
    <3> HIDE DEF r
    <3> QED
      BY <3>1, <3>2
  <2> QED
    BY <2>1, <2>2, <2>3 DEF Tallied
<1>5. CASE UNCHANGED <<kind, step, answers, counted, lag>>
  <2>1. \A b : Tally(b)' = Tally(b)
    BY <1>5 DEF Tally, Planned
  <2> QED
    BY <1>5, <2>1 DEF Tallied
<1>6. \/ \E i \in Planned, pod \in {"old", "new", "faulty", "healthy"} : Send(i, pod)
      \/ \E i \in Planned, fate \in DOMAIN Fates : Reply(i, fate)
      \/ \E c \in MetricKeys(kind) : \E n \in 1..lag[c] : Scrape(c, n)
      \/ \E kept, ready, caught : Judge(kept, ready, caught)
      \/ UNCHANGED <<kind, step, answers, counted, lag>>
  BY Zenon DEF VerdictNext, Disturb, Finish, ReadBack, verdictVars
<1> QED
  BY <1>1, <1>2, <1>3, <1>4, <1>5, <1>6

LEMMA DisturbedStep ==
  ASSUME Shape, Disturbed, [VerdictNext]_verdictVars
  PROVE  Disturbed'
<1>1. ASSUME NEW i \in Planned, NEW pod, Send(i, pod) PROVE Disturbed'
  <2>1. /\ served' = Append(served, [pod |-> pod, slow |-> pod = "faulty", late |-> world = "after"])
        /\ kind' = kind /\ world' = world /\ pod \in PodsNow
    BY <1>1 DEF Send
  <2> DEFINE x == [pod |-> pod, slow |-> pod = "faulty", late |-> world = "after"]
  <2>2. /\ x.pod = pod /\ (x.late => world = "after")
        /\ kind \in {"rolling-restart", "pod-deletion"} /\ world = "before" => pod = "old"
    <3>1. x.pod = pod
      OBVIOUS
    <3>2. x.late = (world = "after")
      OBVIOUS
    <3>3. ASSUME kind \in {"rolling-restart", "pod-deletion"}, world = "before" PROVE pod = "old"
      <4>1. PodsNow = [before |-> {"old"}, during |-> {"old", "new"}, after |-> {"new"}]["before"]
        BY <3>3, Zenon DEF PodsNow
      <4>2. PodsNow = {"old"}
        BY <4>1
      <4> QED
        BY <2>1, <4>2
    <3> QED
      BY <3>1, <3>2, <3>3, Zenon
  <2> HIDE DEF x
  <2>3. /\ Len(served) \in Nat /\ Len(Append(served, x)) = Len(served) + 1
        /\ \A n \in 1..Len(served) + 1 : Append(served, x)[n] = IF n = Len(served) + 1 THEN x ELSE served[n]
    <3> DEFINE X == [pod : {"old", "new", "faulty", "healthy"}, slow : BOOLEAN, late : BOOLEAN]
    <3>1. served \in Seq(X)
      BY DEF Shape
    <3> HIDE DEF X
    <3> QED
      BY <3>1
  <2>4. \A n \in 1..Len(served) + 1 : n = Len(served) + 1 \/ n \in 1..Len(served)
    BY <2>3
  <2>5. served' = Append(served, x)
    BY <2>1 DEF x
  <2> QED
    BY <2>1, <2>2, <2>3, <2>4, <2>5 DEF Disturbed
<1>2. CASE UNCHANGED <<kind, served>> /\ (world' = world \/ Disturb)
  <2>1. world' = world \/ (world' \in {"during", "after"} /\ world # "after")
    BY <1>2 DEF Disturb, Shape
  <2> QED
    BY <1>2, <2>1 DEF Disturbed
<1>3. \A kept, ready, caught : Judge(kept, ready, caught) => UNCHANGED <<kind, served, world>>
  BY Zenon DEF Judge
<1>4. (\E i \in Planned, pod \in {"old", "new", "faulty", "healthy"} : Send(i, pod))
        \/ (UNCHANGED <<kind, served>> /\ (world' = world \/ Disturb))
  BY <1>3, Zenon DEF VerdictNext, Reply, Disturb, Scrape, Finish, ReadBack, verdictVars
<1> QED
  BY <1>1, <1>2, <1>4

\* What the expectations of the scenarios say (expectations.py, the YAML files).
LEMMA ExpectedTable ==
  ASSUME NEW k
  PROVE  /\ 0 \notin DOMAIN Expected(k).statuses
         /\ k = "kong-rate-limit" => DOMAIN Expected(k).statuses = {201, 429}
         /\ k = "oversized-request" => DOMAIN Expected(k).statuses = {413}
         /\ k = "auth-denied" => DOMAIN Expected(k).statuses = {401, 403}
         /\ k \notin {"oversized-request", "auth-denied"} => Expected(k).states # << >>
<1>1. CASE k = "normal-order"
  BY <1>1 DEF Expected, Only, Two
<1>2. CASE k = "oversized-request"
  BY <1>2 DEF Expected, Only, Two
<1>3. CASE k = "auth-denied"
  BY <1>3 DEF Expected, Only, Two
<1>4. CASE k \in {"kong-rate-limit", "traffic-spike"}
  BY <1>4 DEF Expected, Only, Two
<1>5. CASE k \in {"pod-deletion", "payment-timeout"}
  BY <1>5 DEF Expected, Only, Two
<1>6. CASE k \notin {"normal-order", "oversized-request", "auth-denied", "kong-rate-limit", "traffic-spike", "pod-deletion",
                    "payment-timeout"}
  BY <1>6 DEF Expected, Only, Two
<1> QED
  BY <1>1, <1>2, <1>3, <1>4, <1>5, <1>6

\* An answer without an order, a name of its own: the provers' arithmetic does
\* not know the empty string.
Unordered == ""

\* What the answers say of the truth behind them.
LEMMA FateTable ==
  ASSUME NEW f \in DOMAIN Fates
  PROVE  /\ Fates[f].status = 201 => Fates[f].arrived = TRUE
         /\ Fates[f].status = 401 => Fates[f].order = Unordered
<1>1. Fates["completed"].arrived = TRUE /\ Fates["completed"].status = 201
  BY DEF Fates, Outcome
<1>2. Fates["charged_twice"].arrived = TRUE /\ Fates["charged_twice"].status = 201
  BY DEF Fates, Outcome
<1>3. Fates["unanswered"].status = 0
  BY DEF Fates, Outcome
<1>4. Fates["over_limit"].status = 429
  BY DEF Fates, Outcome
<1>5. Fates["too_large"].status = 413
  BY DEF Fates, Outcome
<1>6. Fates["over_limit_leaked"].status = 429
  BY DEF Fates, Outcome
<1>7. Fates["too_large_leaked"].status = 413
  BY DEF Fates, Outcome
<1>8. Fates["dropped_by_kong"].status = 504
  BY DEF Fates, Outcome
<1>9. Fates["payment_failed"].status = 503
  BY DEF Fates, Outcome
<1>10. Fates["no_token"].order = Unordered /\ Fates["no_token"].status = 401
  BY DEF Fates, Outcome, Unordered
<1>11. Fates["no_permission"].status = 403
  BY DEF Fates, Outcome
<1>12. Fates["refused_too_late"].status = 403
  BY DEF Fates, Outcome
<1>13. /\ Fates["undo_failed"].status = 504 /\ Fates["payment_late"].status = 504
       /\ Fates["charged_late"].status = 504 /\ Fates["fraud_failed"].status = 503
  BY DEF Fates, Outcome
<1>14. \/ f \in {"completed", "charged_twice"}
      \/ f = "no_token"
      \/ f \in {"unanswered", "over_limit", "too_large", "over_limit_leaked", "too_large_leaked", "dropped_by_kong", "payment_failed",
             "no_permission", "refused_too_late", "undo_failed", "payment_late", "charged_late", "fraud_failed"}
  BY DEF Fates
<1>15. CASE f \in {"completed", "charged_twice"}
  BY <1>1, <1>2, <1>15
<1>16. CASE f = "no_token"
  BY <1>10, <1>16
<1>17. CASE f \in {"unanswered", "over_limit", "too_large", "over_limit_leaked", "too_large_leaked", "dropped_by_kong", "payment_failed",
             "no_permission", "refused_too_late", "undo_failed", "payment_late", "charged_late", "fraud_failed"}
  <2>1. Fates[f].status \in {0, 403, 413, 429, 503, 504}
    BY <1>3, <1>4, <1>5, <1>6, <1>7, <1>8, <1>9, <1>11, <1>12, <1>13, <1>17
  <2> QED
    BY <2>1
<1> QED
  BY <1>14, <1>15, <1>16, <1>17

LEMMA ResultIs ==
  ASSUME NEW n, NEW P \in BOOLEAN
  PROVE  Result(n, P).passed = P
  BY DEF Result

\* A run passed only with each of its checks.
LEMMA Passing ==
  ASSUME NEW R, Verdict(R), NEW n, NEW P \in BOOLEAN, Result(n, P) \in R
  PROVE  P = TRUE
<1>1. Result(n, P).passed
  BY DEF Verdict
<1> QED
  BY <1>1, ResultIs

LEMMA PassingApplication ==
  ASSUME NEW e, NEW ready, NEW R, Verdict(ApplicationChecks(e, ready) \cup R)
  PROVE  /\ EvaluateStatuses(e) /\ EvaluateStates(e) /\ EvaluateCompensation(e)
         /\ EvaluateAuthorizations(e, PaymentAuthorizations(ready))
<1> DEFINE all == ApplicationChecks(e, ready) \cup R
<1>1. /\ Result("HTTP statuses", EvaluateStatuses(e)) \in all /\ Result("order states", EvaluateStates(e)) \in all
      /\ Result("compensation", EvaluateCompensation(e)) \in all
      /\ Result("payment authorizations", EvaluateAuthorizations(e, PaymentAuthorizations(ready))) \in all
  BY DEF ApplicationChecks
<1>2. /\ EvaluateStatuses(e) \in BOOLEAN /\ EvaluateStates(e) \in BOOLEAN /\ EvaluateCompensation(e) \in BOOLEAN
      /\ EvaluateAuthorizations(e, PaymentAuthorizations(ready)) \in BOOLEAN
  BY Zenon DEF EvaluateStatuses, EvaluateStates, EvaluateCompensation, EvaluateAuthorizations, EvaluateCounts
<1>3. Verdict(all)
  OBVIOUS
<1> HIDE DEF all
<1>4. EvaluateStatuses(e) = TRUE
  BY <1>1, <1>2, <1>3, Passing, Zenon
<1>5. EvaluateStates(e) = TRUE
  BY <1>1, <1>2, <1>3, Passing, Zenon
<1>6. EvaluateCompensation(e) = TRUE
  BY <1>1, <1>2, <1>3, Passing, Zenon
<1>7. EvaluateAuthorizations(e, PaymentAuthorizations(ready)) = TRUE
  BY <1>1, <1>2, <1>3, Passing, Zenon
<1> QED
  BY <1>4, <1>5, <1>6, <1>7, Zenon

\* Every request was answered with a status the scenario allows.
LEMMA StatusesTrue ==
  ASSUME EvaluateStatuses(Expected(kind)), NEW i \in Planned
  PROVE  FateOf(i).status \in DOMAIN Expected(kind).statuses /\ FateOf(i).status # 0
<1>1. {[j \in Planned |-> FateOf(j).status][k] : k \in DOMAIN [j \in Planned |-> FateOf(j).status]}
        \subseteq DOMAIN Expected(kind).statuses
  BY Zenon DEF EvaluateStatuses, EvaluateCounts
<1>2. FateOf(i).status \in DOMAIN Expected(kind).statuses
  BY <1>1
<1> QED
  BY <1>2, ExpectedTable

\* Every order that was read back ended as the scenario says.
LEMMA OrdersTrue ==
  ASSUME Shape, \A i \in Planned : answers[i] \in FatesOf(kind),
         EvaluateStatuses(Expected(kind)), EvaluateStates(Expected(kind)), EvaluateCompensation(Expected(kind)),
         NEW ready \in BOOLEAN, EvaluateAuthorizations(Expected(kind), PaymentAuthorizations(ready)),
         NEW i \in Orders
  PROVE  /\ FateOf(i).order \in DOMAIN Expected(kind).states
         /\ Expected(kind).authorizations # -1 => FateOf(i).authorizations = Expected(kind).authorizations
         /\ FateOf(i).order = "PaymentFailed" /\ Expected(kind).compensation # <<"any">> =>
              FateOf(i).undone = Expected(kind).compensation
<1>1. i \in Planned /\ FateOf(i).status \notin {0, 403, 413, 429} /\ FateOf(i).order # Unordered
  BY Zenon DEF Orders, Referenced, Unordered
<1>2. FateOf(i).status \in DOMAIN Expected(kind).statuses
  BY <1>1, StatusesTrue
<1>3. FateOf(i).status = 401 => FateOf(i).order = Unordered
  <2>1. answers[i] \in DOMAIN Fates
    BY <1>1, FatesKnown
  <2> QED
    BY <2>1, FateTable DEF FateOf
<1>4. kind \notin {"oversized-request", "auth-denied"}
  <2>1. kind # "oversized-request"
    BY <1>1, <1>2, ExpectedTable
  <2>2. kind # "auth-denied"
    BY <1>1, <1>2, <1>3, ExpectedTable
  <2> QED
    BY <2>1, <2>2
<1>5. FateOf(i).order \in DOMAIN Expected(kind).states
  <2>1. Expected(kind).states # << >>
    BY <1>4, ExpectedTable
  <2>2. {[j \in Orders |-> FateOf(j).order][k] : k \in DOMAIN [j \in Orders |-> FateOf(j).order]}
          \subseteq DOMAIN Expected(kind).states
    BY <2>1, Zenon DEF EvaluateStates, EvaluateCounts
  <2> QED
    BY <2>2
<1>6. ASSUME Expected(kind).authorizations # -1 PROVE FateOf(i).authorizations = Expected(kind).authorizations
  <2>1. /\ \A j \in DOMAIN PaymentAuthorizations(ready) : PaymentAuthorizations(ready)[j] = Expected(kind).authorizations
        /\ DOMAIN PaymentAuthorizations(ready) # {}
    BY <1>6, Zenon DEF EvaluateAuthorizations
  <2>2. PaymentAuthorizations(ready) = [j \in IF ready THEN Orders ELSE {} |-> FateOf(j).authorizations]
    BY DEF PaymentAuthorizations
  <2>3. DOMAIN PaymentAuthorizations(ready) = IF ready THEN Orders ELSE {}
    BY <2>2
  <2>4. ready
    BY <2>1, <2>3
  <2>5. PaymentAuthorizations(ready)[i] = FateOf(i).authorizations /\ i \in DOMAIN PaymentAuthorizations(ready)
    BY <2>2, <2>3, <2>4
  <2> QED
    BY <2>1, <2>5
<1>7. ASSUME FateOf(i).order = "PaymentFailed", Expected(kind).compensation # <<"any">>
      PROVE  FateOf(i).undone = Expected(kind).compensation
  <2>1. \A j \in {k \in Orders : FateOf(k).order = "PaymentFailed"} : FateOf(j).undone = Expected(kind).compensation
    BY <1>7, Zenon DEF EvaluateCompensation
  <2> QED
    BY <1>7, <2>1
<1> QED
  BY <1>5, <1>6, <1>7

\* The reading of order_posts is the number of accepted requests, all of which
\* reached OrderService; the rejected ones that did are among the arrivals it
\* has not seen.
LEMMA EdgeTrue ==
  ASSUME Shape, Tallied, \A i \in Planned : answers[i] \in FatesOf(kind), kind \in EdgeKinds,
         EvaluateStatuses(Expected(kind)), NEW readings, NEW kong, NEW kept,
         EdgeRejection(StatusList, EdgeStatus(kind), kong, readings["order_posts"], 0, 0, kept)
  PROVE  Cardinality({i \in Planned : FateOf(i).status = EdgeStatus(kind) /\ FateOf(i).arrived})
           <= counted["order_posts"] + lag["order_posts"] - Read("order_posts", readings)
<1> DEFINE Arr == Tally("order_posts")
           Acc == {i \in Planned : FateOf(i).status \notin {EdgeStatus(kind), 0}}
           Leak == {i \in Planned : FateOf(i).status = EdgeStatus(kind) /\ FateOf(i).arrived}
<1>0. "order_posts" \in MetricKeys(kind)
  BY DEF MetricKeys, EdgeKinds
<1>1. IsFiniteSet(Planned)
  BY PlannedIs DEF Shape
<1>2. \A i \in Planned : answers[i] \in DOMAIN Fates
  BY FatesKnown
<1>3. \A i \in Planned : FateOf(i).arrived => i \in Arr
  BY <1>2, Zenon DEF Tally, Counts, FateOf
<1>4. Acc \subseteq Arr
  <2> SUFFICES ASSUME NEW i \in Acc PROVE i \in Arr
    OBVIOUS
  <2>1. i \in Planned /\ FateOf(i).status # EdgeStatus(kind)
    OBVIOUS
  <2>2. FateOf(i).status \in DOMAIN Expected(kind).statuses
    BY <2>1, StatusesTrue
  <2>3. FateOf(i).status = 201
    BY <2>1, <2>2, ExpectedTable DEF EdgeKinds, EdgeStatus
  <2>4. FateOf(i).arrived = TRUE
    BY <1>2, <2>1, <2>3, FateTable DEF FateOf
  <2> QED
    BY <1>3, <2>1, <2>4, Zenon
<1>5. Leak \subseteq Arr /\ Acc \cap Leak = {}
  BY <1>3, Zenon
<1>6. Acc \subseteq Planned /\ Leak \subseteq Planned /\ Arr \subseteq Planned
  BY Zenon DEF Tally
<1>7. Cardinality(Arr) <= counted["order_posts"] + lag["order_posts"]
      /\ counted["order_posts"] \in Nat /\ lag["order_posts"] \in Nat
  BY <1>0 DEF Tallied, Shape
<1>8. Read("order_posts", readings) = Cardinality(Acc)
  <2>1. {i \in DOMAIN StatusList : StatusList[i] \notin {EdgeStatus(kind), 0}} = Acc
    <3>1. DOMAIN StatusList = Planned /\ \A i \in Planned : StatusList[i] = FateOf(i).status
      BY Zenon DEF StatusList
    <3> QED
      BY <3>1
  <2>2. WaitMetricDelta(readings["order_posts"], 0, Cardinality(Acc)) = Cardinality(Acc)
    BY <2>1, Zenon DEF EdgeRejection
  <2>3. Awaited("order_posts") = Cardinality(Acc)
    BY DEF Awaited, CountWith
  <2> QED
    BY <2>2, <2>3, Zenon DEF Read
<1> DEFINE goal == Leak = {i \in Planned : FateOf(i).status = EdgeStatus(kind) /\ FateOf(i).arrived}
<1>9. goal
  OBVIOUS
<1> HIDE DEF Arr, Acc, Leak
<1>10. IsFiniteSet(Acc) /\ IsFiniteSet(Leak) /\ IsFiniteSet(Arr)
  BY <1>1, <1>6, FS_Subset
<1>11. Cardinality(Acc \cup Leak) = Cardinality(Acc) + Cardinality(Leak) - Cardinality(Acc \cap Leak)
  BY <1>10, FS_Union
<1>12. Cardinality(Acc \cup Leak) <= Cardinality(Arr)
  BY <1>4, <1>5, <1>10, FS_Subset
<1>13. Cardinality(Acc \cap Leak) = 0
  BY <1>5, FS_EmptySet
<1>14. Cardinality(Acc) \in Nat /\ Cardinality(Leak) \in Nat /\ Cardinality(Arr) \in Nat
  BY <1>10, FS_CardinalityType
<1>15. Cardinality(Leak) <= counted["order_posts"] + lag["order_posts"] - Read("order_posts", readings)
  BY <1>7, <1>8, <1>11, <1>12, <1>13, <1>14
<1> QED
  BY <1>9, <1>15, Zenon

\* What the telemetry checks of a run that passed say, scenario by scenario.
LEMMA TelemetryTrue ==
  ASSUME NEW kept, NEW readings, NEW R, Verdict(R \cup TelemetryChecks(kept, readings))
  PROVE  /\ kind \in EdgeKinds =>
              EdgeRejection(StatusList, EdgeStatus(kind), readings[IF kind = "oversized-request" THEN "kong_413" ELSE "kong_429"],
                            readings["order_posts"], 0, 0, {ServicesOf(i) : i \in kept})
         /\ kind = "auth-denied" =>
              AuthDenied(StatusList, [code \in {401, 403} |-> readings[IF code = 401 THEN "order_401" ELSE "order_403"]],
                         Read("inventory_calls", readings))
         /\ kind = "rolling-restart" => RollingRestart(served, {"old"})
         /\ kind = "readiness-loss" => ReadinessLoss(served, "faulty")
         /\ kind = "pod-deletion" => PodDeletion(served, "old")
<1> DEFINE all == R \cup TelemetryChecks(kept, readings)
<1>1. Verdict(all)
  OBVIOUS
<1>2. TelemetryChecks(kept, readings) \subseteq all
  OBVIOUS
<1> HIDE DEF all
<1>3. ASSUME kind \in EdgeKinds
      PROVE  EdgeRejection(StatusList, EdgeStatus(kind), readings[IF kind = "oversized-request" THEN "kong_413" ELSE "kong_429"],
                           readings["order_posts"], 0, 0, {ServicesOf(i) : i \in kept})
  <2> DEFINE P == EdgeRejection(StatusList, EdgeStatus(kind),
                                readings[IF kind = "oversized-request" THEN "kong_413" ELSE "kong_429"],
                                readings["order_posts"], 0, 0, {ServicesOf(i) : i \in kept})
  <2>1. P \in BOOLEAN
    BY Zenon DEF EdgeRejection
  <2>2. TelemetryChecks(kept, readings) = {Result("edge", P)}
    BY <1>3, Zenon DEF TelemetryChecks, EdgeKinds
  <2> HIDE DEF P
  <2>3. P = TRUE
    BY <1>1, <1>2, <2>1, <2>2, Passing, Zenon
  <2> QED
    BY <2>3, Zenon DEF P
<1>4. ASSUME kind = "auth-denied"
      PROVE  AuthDenied(StatusList, [code \in {401, 403} |-> readings[IF code = 401 THEN "order_401" ELSE "order_403"]],
                        Read("inventory_calls", readings))
  <2> DEFINE P == AuthDenied(StatusList, [code \in {401, 403} |-> readings[IF code = 401 THEN "order_401" ELSE "order_403"]],
                             Read("inventory_calls", readings))
  <2>1. P \in BOOLEAN
    BY Zenon DEF AuthDenied
  <2>2. TelemetryChecks(kept, readings) = {Result("denied", P)}
    BY <1>4, Zenon DEF TelemetryChecks, EdgeKinds
  <2> HIDE DEF P
  <2>3. P = TRUE
    BY <1>1, <1>2, <2>1, <2>2, Passing, Zenon
  <2> QED
    BY <2>3, Zenon DEF P
<1>5. ASSUME kind = "rolling-restart" PROVE RollingRestart(served, {"old"})
  <2>1. RollingRestart(served, {"old"}) \in BOOLEAN
    BY Zenon DEF RollingRestart
  <2>2. Result("traffic moved", RollingRestart(served, {"old"})) \in TelemetryChecks(kept, readings)
    BY <1>5, Zenon DEF TelemetryChecks, EdgeKinds
  <2>3. RollingRestart(served, {"old"}) = TRUE
    BY <1>1, <1>2, <2>1, <2>2, Passing, Zenon
  <2> QED
    BY <2>3, Zenon
<1>6. ASSUME kind = "readiness-loss" PROVE ReadinessLoss(served, "faulty")
  <2>1. ReadinessLoss(served, "faulty") \in BOOLEAN
    BY Zenon DEF ReadinessLoss
  <2>2. Result("unready replica removed", ReadinessLoss(served, "faulty")) \in TelemetryChecks(kept, readings)
    BY <1>6, Zenon DEF TelemetryChecks, EdgeKinds
  <2>3. ReadinessLoss(served, "faulty") = TRUE
    BY <1>1, <1>2, <2>1, <2>2, Passing, Zenon
  <2> QED
    BY <2>3, Zenon
<1>7. ASSUME kind = "pod-deletion" PROVE PodDeletion(served, "old")
  <2>1. PodDeletion(served, "old") \in BOOLEAN
    BY Zenon DEF PodDeletion
  <2>2. Result("workload attribution", PodDeletion(served, "old")) \in TelemetryChecks(kept, readings)
    BY <1>7, Zenon DEF TelemetryChecks, EdgeKinds
  <2>3. PodDeletion(served, "old") = TRUE
    BY <1>1, <1>2, <2>1, <2>2, Passing, Zenon
  <2> QED
    BY <2>3, Zenon
<1> QED
  BY <1>3, <1>4, <1>5, <1>6, <1>7, Zenon

\* A pod other than the disturbed ones shows that the event happened.
LEMMA PodsTrue ==
  ASSUME Shape, Disturbed
  PROVE  /\ kind = "rolling-restart" /\ RollingRestart(served, {"old"}) => world # "before"
         /\ kind = "pod-deletion" /\ PodDeletion(served, "old") => world # "before"
         /\ ReadinessLoss(served, "faulty") => world = "after"
<1> DEFINE X == [pod : {"old", "new", "faulty", "healthy"}, slow : BOOLEAN, late : BOOLEAN]
<1>1. served \in Seq(X) /\ DOMAIN served = 1..Len(served) /\ Len(served) \in Nat
  BY DEF Shape
<1> HIDE DEF X
<1>2. ASSUME kind = "rolling-restart", RollingRestart(served, {"old"}), world = "before" PROVE FALSE
  <2>1. served # << >> /\ served[Len(served)].pod # "old"
    BY <1>2, Zenon DEF RollingRestart, Last
  <2>2. Len(served) \in 1..Len(served)
    BY <1>1, <2>1
  <2> QED
    BY <1>2, <2>1, <2>2, Zenon DEF Disturbed
<1>3. ASSUME kind = "pod-deletion", PodDeletion(served, "old"), world = "before" PROVE FALSE
  <2>1. PICK n \in 1..Len(served) : served[n].pod # "old"
    BY <1>1, <1>3 DEF PodDeletion, Pods
  <2> QED
    BY <1>3, <2>1, Zenon DEF Disturbed
<1>4. ASSUME ReadinessLoss(served, "faulty") PROVE world = "after"
  <2>1. PICK n \in DOMAIN served : served[n].late
    BY <1>4, Zenon DEF ReadinessLoss
  <2> QED
    BY <1>1, <2>1, Zenon DEF Disturbed
<1> QED
  BY <1>2, <1>3, <1>4

\* No call of InventoryService had been seen when the denied requests were
\* judged.
LEMMA DeniedTrue ==
  ASSUME Shape, Tallied, \A i \in Planned : answers[i] \in FatesOf(kind), kind = "auth-denied",
         NEW r, NEW readings, AuthDenied(StatusList, r, Read("inventory_calls", readings))
  PROVE  Cardinality({i \in Planned : FateOf(i).order # Unordered})
           <= counted["inventory_calls"] + lag["inventory_calls"] - Read("inventory_calls", readings)
<1> DEFINE Some == {i \in Planned : FateOf(i).order # Unordered}
           T == Tally("inventory_calls")
<1>1. IsFiniteSet(Planned)
  BY PlannedIs DEF Shape
<1>2. "inventory_calls" \in MetricKeys(kind)
  BY DEF MetricKeys
<1>3. Read("inventory_calls", readings) = 0
  BY Zenon DEF AuthDenied
<1>4. \A i \in Planned : answers[i] \in DOMAIN Fates
  BY FatesKnown
<1>5. Some \subseteq T /\ T \subseteq Planned
  BY <1>4, Zenon DEF Tally, Counts, FateOf, Unordered
<1>6. /\ Cardinality(T) <= counted["inventory_calls"] + lag["inventory_calls"]
      /\ counted["inventory_calls"] \in Nat /\ lag["inventory_calls"] \in Nat
  BY <1>2 DEF Tallied, Shape
<1>7. Some = {i \in Planned : FateOf(i).order # Unordered}
  OBVIOUS
<1> HIDE DEF Some, T
<1>8. Cardinality(Some) <= Cardinality(T)
  BY <1>1, <1>5, FS_Subset
<1>9. Cardinality(Some) \in Nat /\ Cardinality(T) \in Nat
  BY <1>1, <1>5, FS_Subset, FS_CardinalityType
<1>10. Cardinality(Some) <= counted["inventory_calls"] + lag["inventory_calls"] - Read("inventory_calls", readings)
  BY <1>3, <1>6, <1>8, <1>9
<1> QED
  BY <1>7, <1>10, Zenon

\* What PassedMeansTrue says of a run that passed, when the readings had not
\* seen so many arrivals and so many calls.
Evidence(arrivals, calls) ==
  /\ \A i \in Planned : FateOf(i).status # 0
  /\ missing = {} => \A i \in Orders :
       /\ FateOf(i).order \in DOMAIN Expected(kind).states
       /\ Expected(kind).authorizations # -1 => FateOf(i).authorizations = Expected(kind).authorizations
       /\ FateOf(i).order = "PaymentFailed" /\ Expected(kind).compensation # <<"any">> =>
            FateOf(i).undone = Expected(kind).compensation
  /\ kind \in EdgeKinds =>
       Cardinality({i \in Planned : FateOf(i).status = EdgeStatus(kind) /\ FateOf(i).arrived}) <= arrivals
  /\ kind = "auth-denied" => Cardinality({i \in Planned : FateOf(i).order # Unordered}) <= calls
  /\ kind \in {"rolling-restart", "pod-deletion"} => world # "before"
  /\ kind = "readiness-loss" => world = "after"

LEMMA EvidenceIs == PassedMeansTrue <=> (status = "passed" => Evidence(lag["order_posts"], lag["inventory_calls"]))
  BY Zenon DEF PassedMeansTrue, Evidence, CountWith, Unordered

LEMMA JudgedTrue ==
  ASSUME Shape, Settled, Tallied, Disturbed, NEW kept, NEW ready \in BOOLEAN, NEW caught,
         Judge(kept, ready, caught), status' = "passed"
  PROVE  Evidence(lag'["order_posts"], lag'["inventory_calls"])
<1> DEFINE readings == Readings(caught)
<1>1. /\ phase = "settle"
      /\ lag' = [c \in MetricKeys(kind) |-> counted[c] + lag[c] - Read(c, readings)]
      /\ status' = IF Verdict(ApplicationChecks(Expected(kind), ready) \cup TelemetryChecks(kept, readings))
                   THEN "passed" ELSE "failed"
  BY Zenon DEF Judge
<1>2. \A c \in MetricKeys(kind) : lag'[c] = counted[c] + lag[c] - Read(c, readings)
  BY <1>1, Zenon
<1> HIDE DEF readings
<1>3. Verdict(ApplicationChecks(Expected(kind), ready) \cup TelemetryChecks(kept, readings))
  BY <1>1, "passed" # "failed", Zenon
<1>4. \A i \in Planned : answers[i] \in FatesOf(kind)
  BY <1>1 DEF Settled
<1>5. /\ EvaluateStatuses(Expected(kind)) /\ EvaluateStates(Expected(kind)) /\ EvaluateCompensation(Expected(kind))
      /\ EvaluateAuthorizations(Expected(kind), PaymentAuthorizations(ready))
  BY <1>3, PassingApplication, Zenon
<1>6. \A i \in Planned : FateOf(i).status # 0
  BY <1>5, StatusesTrue, Zenon
<1>7. \A i \in Orders :
        /\ FateOf(i).order \in DOMAIN Expected(kind).states
        /\ Expected(kind).authorizations # -1 => FateOf(i).authorizations = Expected(kind).authorizations
        /\ FateOf(i).order = "PaymentFailed" /\ Expected(kind).compensation # <<"any">> =>
             FateOf(i).undone = Expected(kind).compensation
  BY <1>4, <1>5, OrdersTrue, Zenon
<1>8. kind \in EdgeKinds =>
        Cardinality({i \in Planned : FateOf(i).status = EdgeStatus(kind) /\ FateOf(i).arrived}) <= lag'["order_posts"]
  <2> SUFFICES ASSUME kind \in EdgeKinds
               PROVE  Cardinality({i \in Planned : FateOf(i).status = EdgeStatus(kind) /\ FateOf(i).arrived}) <= lag'["order_posts"]
    OBVIOUS
  <2>1. lag'["order_posts"] = counted["order_posts"] + lag["order_posts"] - Read("order_posts", readings)
    <3>1. "order_posts" \in MetricKeys(kind)
      BY DEF MetricKeys, EdgeKinds
    <3> QED
      BY <1>2, <3>1, Zenon
  <2>2. EdgeRejection(StatusList, EdgeStatus(kind), readings[IF kind = "oversized-request" THEN "kong_413" ELSE "kong_429"],
                      readings["order_posts"], 0, 0, {ServicesOf(i) : i \in kept})
    BY <1>3, TelemetryTrue, Zenon
  <2>3. Cardinality({i \in Planned : FateOf(i).status = EdgeStatus(kind) /\ FateOf(i).arrived})
          <= counted["order_posts"] + lag["order_posts"] - Read("order_posts", readings)
    BY <1>4, <1>5, <2>2, EdgeTrue, Zenon
  <2> QED
    BY <2>1, <2>3, Zenon
<1>9. kind = "auth-denied" => Cardinality({i \in Planned : FateOf(i).order # Unordered}) <= lag'["inventory_calls"]
  <2> SUFFICES ASSUME kind = "auth-denied"
               PROVE  Cardinality({i \in Planned : FateOf(i).order # Unordered}) <= lag'["inventory_calls"]
    OBVIOUS
  <2>1. lag'["inventory_calls"] = counted["inventory_calls"] + lag["inventory_calls"] - Read("inventory_calls", readings)
    <3>1. "inventory_calls" \in MetricKeys(kind)
      BY DEF MetricKeys
    <3> QED
      BY <1>2, <3>1, Zenon
  <2>2. AuthDenied(StatusList, [code \in {401, 403} |-> readings[IF code = 401 THEN "order_401" ELSE "order_403"]],
                   Read("inventory_calls", readings))
    BY <1>3, TelemetryTrue, Zenon
  <2>3. Cardinality({i \in Planned : FateOf(i).order # Unordered})
          <= counted["inventory_calls"] + lag["inventory_calls"] - Read("inventory_calls", readings)
    BY <1>4, <2>2, DeniedTrue, Zenon
  <2> QED
    BY <2>1, <2>3, Zenon
<1>10. kind \in {"rolling-restart", "pod-deletion"} => world # "before"
  BY <1>3, TelemetryTrue, PodsTrue, Zenon
<1>11. kind = "readiness-loss" => world = "after"
  BY <1>3, TelemetryTrue, PodsTrue, Zenon
<1> QED
  BY <1>6, <1>7, <1>8, <1>9, <1>10, <1>11, Zenon DEF Evidence

\* The record's status is written once, and nothing moves after it.
LEMMA PassedStep ==
  ASSUME Shape, Settled, Tallied, Disturbed, PassedMeansTrue, [VerdictNext]_verdictVars
  PROVE  PassedMeansTrue'
<1>1. PICK a, b : a = lag'["order_posts"] /\ b = lag'["inventory_calls"]
  OBVIOUS
<1>2. SUFFICES ASSUME status' = "passed" PROVE Evidence(a, b)'
  BY <1>1, Zenon DEF PassedMeansTrue, Evidence, CountWith, Unordered
<1>3. UNCHANGED <<kind, step, answers, world, missing>> /\ Evidence(a, b)
  <2>1. CASE \E ready \in BOOLEAN : \E kept, caught : Judge(kept, ready, caught)
    <3>1. PICK ready \in BOOLEAN : \E kept, caught : Judge(kept, ready, caught)
      BY <2>1, Zenon
    <3>2. PICK kept, caught : Judge(kept, ready, caught)
      BY <3>1, Zenon
    <3>3. UNCHANGED <<kind, step, answers, world, missing>>
      BY <3>2, Zenon DEF Judge
    <3>4. Evidence(lag'["order_posts"], lag'["inventory_calls"])
      BY <1>2, <3>2, JudgedTrue, Zenon
    <3> QED
      BY <1>1, <3>3, <3>4, Zenon
  <2>2. CASE ~\E ready \in BOOLEAN : \E kept, caught : Judge(kept, ready, caught)
    <3>1. \/ \E i \in Planned, pod \in {"old", "new", "faulty", "healthy"} : Send(i, pod)
          \/ \E i \in Planned, fate \in DOMAIN Fates : Reply(i, fate)
          \/ Disturb \/ Finish
          \/ \E c, n : Scrape(c, n)
          \/ \E lost : ReadBack(lost)
          \/ UNCHANGED verdictVars
      <4>1. MayBeReady(kind) \subseteq BOOLEAN
        BY DEF MayBeReady
      <4> QED
        BY <2>2, <4>1, Zenon DEF VerdictNext
    <3>2. status' = status
      BY <3>1, Zenon DEF Send, Reply, Disturb, Scrape, Finish, ReadBack, verdictVars
    <3>3. status = "passed" /\ phase = "done"
      BY <1>2, <3>2 DEF Settled
    <3>4. \A i \in Planned : answers[i] # "waiting"
      BY <3>3, FatesKnown DEF Settled
    <3>5. UNCHANGED <<kind, step, answers, world, missing, lag>>
      BY <3>1, <3>3, <3>4 DEF Send, Reply, Disturb, Scrape, Finish, ReadBack, verdictVars
    <3>6. Evidence(lag["order_posts"], lag["inventory_calls"])
      BY <3>3, EvidenceIs, Zenon
    <3> QED
      BY <1>1, <3>5, <3>6, Zenon
  <2> QED
    BY <2>1, <2>2
<1>4. Planned' = Planned
  BY <1>3 DEF Planned
<1>5. \A i : FateOf(i)' = FateOf(i)
  BY <1>3, Zenon DEF FateOf
<1>6. Orders' = Orders
  <2>1. \A i : Referenced(i)' <=> Referenced(i)
    BY <1>5, Zenon DEF Referenced
  <2> QED
    BY <1>3, <1>4, <2>1, Zenon DEF Orders
<1>7. kind' = kind /\ world' = world /\ missing' = missing /\ Evidence(a, b)
  BY <1>3
<1> QED
  BY <1>4, <1>5, <1>6, <1>7, Zenon DEF Evidence

\* A run is recorded as passed only when what really happened is what its
\* scenario promises, for any number of requests, any order of answers, scrapes
\* and events, any kept traces and any counter that has not caught up when it is
\* read: every request answered, every order that was read back ended, charged
\* and, where the scenario says so, undone as expected, no more rejected or
\* denied requests passed on than the verdict's readings had missed, and the
\* pods disturbed while the traffic ran (engine.py, expectations.py,
\* contracts.py).
THEOREM PassedIsTrue == VerdictSpec => []PassedMeansTrue
<1> DEFINE Inv == Shape /\ Bounded /\ Settled /\ Tallied /\ Disturbed /\ PassedMeansTrue
<1>1. VerdictInit => Inv
  BY Beginning, BeginningSettled
<1>2. Inv /\ [VerdictNext]_verdictVars => Inv'
  BY Planning, SettledStep, TalliedStep, DisturbedStep, PassedStep
<1>3. Inv => PassedMeansTrue
  OBVIOUS
<1> QED
  BY <1>1, <1>2, <1>3, PTL DEF VerdictSpec

-----------------------------------------------------------------------------
(* An order and its spans.                                                  *)

\* Where an order is once its stages are over.
Ended == {"answer", "export", "judged"}
\* How a stage can end.
Endings == {"ok", "rejected", "error", "unavailable", "timeout"}

\* What the profile of each stage allows.
LEMMA ProfileIs ==
  /\ Profile \in [AllStages -> [service : Downstream, timeout : 5..15, max : {2, 3},
       outcomes : {InventoryOutcomes, FraudOutcomes, PaymentOutcomes, ShippingOutcomes, UndoOutcomes}]]
  /\ Profile["inventory.reserve"].service = "inventory-service"
  /\ Profile["fraud.evaluate"].service = "fraud-service"
  /\ Profile["payment.authorize"].service = "payment-service" /\ Profile["payment.authorize"].max = 3
  /\ Profile["payment.authorize"].timeout = 15
  /\ Profile["shipping.create"].service = "shipping-service" /\ Profile["shipping.create"].max = 3
  BY DEF Profile, AllStages, Stages, CompensationStages, Downstream

\* What an outcome does.
LEMMA OutcomeIs ==
  ASSUME NEW s \in AllStages, NEW o \in Outcomes
  PROVE  /\ ResultOf(o) \in Endings /\ Ticks(s, o) \in 0..15
         /\ Sends(o) => Ticks(s, o) >= 1
         /\ Reaches(o) => Sends(o)
         /\ ShouldRetry(o) => Sends(o)
         /\ ~Sends(o) => ResultOf(o) = "unavailable"
         /\ ResultOf(o) \in {"ok", "rejected", "error"} => Reaches(o)
         /\ ResultOf(o) = "timeout" => ShouldRetry(o)
  BY ProfileIs DEF Outcomes, ResultOf, Ticks, Sends, Reaches, ShouldRetry, TimesOut, Endings, SlowTicks

\* The paths of an order are put together from short pieces.
LEMMA Splice2 ==
  ASSUME NEW S, NEW a \in S, NEW b \in S
  PROVE  <<a>> \o <<b>> = <<a, b>>
<1> DEFINE q == <<a>> \o <<b>>
<1>1. q \in Seq(S) /\ Len(q) = 2 /\ q[1] = a /\ q[2] = b
  OBVIOUS
<1> HIDE DEF q
<1>2. q = <<a, b>>
  BY <1>1
<1> QED
  BY <1>2 DEF q

\* The same for longer paths.
LEMMA Splice3 ==
  ASSUME NEW S, NEW a \in S, NEW b \in S, NEW c \in S
  PROVE  <<a, b>> \o <<c>> = <<a, b, c>>
<1> DEFINE q == <<a, b>> \o <<c>>
<1>1. q \in Seq(S) /\ Len(q) = 3 /\ q[1] = a /\ q[2] = b /\ q[3] = c
  OBVIOUS
<1> HIDE DEF q
<1>2. q = <<a, b, c>>
  BY <1>1
<1> QED
  BY <1>2 DEF q

LEMMA Splice4 ==
  ASSUME NEW S, NEW a \in S, NEW b \in S, NEW c \in S, NEW d \in S
  PROVE  <<a, b>> \o <<c, d>> = <<a, b, c, d>>
<1> DEFINE q == <<a, b>> \o <<c, d>>
<1>1. q \in Seq(S) /\ Len(q) = 4 /\ q[1] = a /\ q[2] = b /\ q[3] = c /\ q[4] = d
  OBVIOUS
<1> HIDE DEF q
<1>2. q = <<a, b, c, d>>
  BY <1>1
<1> QED
  BY <1>2 DEF q

\* A span of the order, with its pod's name and nothing secret, between two moments.
Plain(x) ==
    /\ x.request = Request.id /\ x.run = Request.run /\ x.order = Request.order /\ ~x.secret /\ x.k8s
    /\ x.start \in Nat /\ x.end \in Nat

\* The failure a span shows for a stage that ended with r.
FailureOf(x, r) == (r = "ok" => x.failureKind = "") /\ (r # "ok" => x.failureKind = r)

\* x is the span of stage s itself.
StageLike(x, s) ==
    /\ x.id = <<s, 0>> /\ x.parent = <<"order.transaction", 0>> /\ x.service = OrderService
    /\ x.name = s /\ x.kind = "INTERNAL" /\ x.retryEvents = x.retryCount /\ x.start <= x.end /\ Plain(x)

\* x is the span of the k-th call of stage s, as its caller records it.
ClientLike(x, s, k) ==
    /\ x.id = <<s, k>> /\ x.parent = <<s, 0>> /\ x.service = OrderService
    /\ x.name = "POST" /\ x.kind = "CLIENT" /\ x.attempt = k /\ x.start < x.end /\ Plain(x)

\* x is the span of the k-th call of stage s, as its service records it.
ServerLike(x, s, k) ==
    /\ x.id = <<s, 9 + k>> /\ x.parent = <<s, k>> /\ x.service = Profile[s].service
    /\ (s = "payment.authorize" => x.name = "POST /authorizations") /\ (s # "payment.authorize" => x.name = "server")
    /\ x.kind = "SERVER" /\ x.start < x.end /\ Plain(x)

\* The spans an attempt makes look the way they are described.
LEMMA StageIs ==
  ASSUME NEW s \in AllStages, NEW r, NEW end \in Nat, attempt \in 0..2, opened \in Nat, opened <= end
  PROVE  LET x == StageSpan(s, r, end)
         IN  /\ StageLike(x, s) /\ x.start = opened /\ x.end = end /\ x.retryCount = attempt
             /\ FailureOf(x, r)
  BY DEF StageSpan, MakeSpan, FailureOf, StageLike, Plain, Request

LEMMA ClientIs ==
  ASSUME NEW s \in AllStages, NEW o \in Outcomes, attempt \in 0..2, clock \in Nat, Sends(o)
  PROVE  LET x == ClientSpan(s, o)
         IN  ClientLike(x, s, attempt + 1) /\ x.start = clock /\ x.end = clock + Ticks(s, o)
<1>1. Ticks(s, o) \in Nat \ {0}
  BY OutcomeIs
<1> HIDE DEF Ticks
<1> QED
  BY <1>1 DEF ClientSpan, MakeSpan, ClientLike, Plain, Request

LEMMA ServerIs ==
  ASSUME NEW s \in AllStages, NEW o \in Outcomes, attempt \in 0..2, clock \in Nat, Reaches(o)
  PROVE  LET x == ServerSpan(s, o)
         IN  /\ ServerLike(x, s, attempt + 1) /\ x.start = clock /\ x.end = clock + Ticks(s, o)
             /\ x.recorded = Records(s, o) /\ x.replay = Replays(s, o)
<1>1. Ticks(s, o) \in Nat \ {0}
  BY OutcomeIs
<1> QED
  BY <1>1 DEF ServerSpan, MakeSpan, ServerLike, Plain, Request

-----------------------------------------------------------------------------
(* The course of an order.                                                  *)

\* The types of an order's own state, as far as the proof needs them.
Typed ==
    /\ pc \in AllStages \cup Ended /\ clock \in Nat /\ opened \in Nat /\ joined \in Nat /\ attempt \in 0..2
    /\ results \in [AllStages -> Endings \cup {""}] /\ reached \in [AllStages -> Nat]
    /\ response \in {"none", "authorized", "declined"} /\ restarts \in 0..Restarts /\ authorized \in Nat
    /\ damage \in {"none", "lost", "batch", "attribute"}

\* The stages that run before s.
StagesBefore(s) ==
    CASE s = "inventory.reserve" -> {} [] s = "fraud.evaluate" -> {"inventory.reserve"}
      [] s = "payment.authorize" -> {"inventory.reserve", "fraud.evaluate"}
      [] OTHER -> {"inventory.reserve", "fraud.evaluate", "payment.authorize"}

\* The states of an order that has come as far as s.
PathTo(s) ==
    CASE s \in {"inventory.reserve", "fraud.evaluate"} -> << >> [] s = "payment.authorize" -> <<"InventoryReserved">>
      [] OTHER -> <<"InventoryReserved", "PaymentAuthorized">>

\* The states of an order that failed at s.
PathOf(s) ==
    CASE s = "inventory.reserve" -> <<"InventoryFailed">> [] s = "fraud.evaluate" -> <<"FraudFailed">>
      [] s = "payment.authorize" -> <<"InventoryReserved", "PaymentFailed">>
      [] OTHER -> <<"InventoryReserved", "PaymentAuthorized", "ShippingFailed">>

\* The undo steps that the failure of s asks for.
Voids(s) == s = "shipping.create" \/ (s = "payment.authorize" /\ results[s] # "rejected")
Releases(s) == ~(s = "inventory.reserve" /\ results[s] = "rejected")
Void == "compensation.payment.void"
Release == "compensation.inventory.release"

JustRelease == <<Release>>
VoidAndRelease == <<Void, Release>>

\* No stage has failed, but for the inventory while the fraud check still runs.
GoesWell ==
    /\ undo = << >> /\ results[Void] = "" /\ results[Release] = ""
    /\ \/ /\ pc \in Stages /\ path = PathTo(pc)
          /\ \A s \in Stages : s \in StagesBefore(pc) <=> results[s] # ""
          /\ pc # "fraud.evaluate" => \A s \in StagesBefore(pc) : results[s] = "ok"
       \/ pc \in Ended /\ path = FullPath /\ \A s \in Stages : results[s] = "ok"

\* The order has failed at stage s; what is not undone yet is in undo.
FailedAt(s) ==
    /\ path = PathOf(s) /\ results[s] \notin {"", "ok"}
    /\ \A b \in StagesBefore(s) : results[b] = "ok"
    /\ s = "inventory.reserve" => results["fraud.evaluate"] # ""
    /\ \A b \in Stages \ (StagesBefore(s) \cup {s, "fraud.evaluate"}) : results[b] = ""
    /\ undo \in {<< >>, JustRelease, VoidAndRelease}
    /\ (undo = VoidAndRelease => Voids(s)) /\ (undo # << >> => Releases(s))
    /\ results[Void] # "" <=> Voids(s) /\ undo # VoidAndRelease
    /\ results[Release] # "" <=> Releases(s) /\ undo = << >>
    /\ (undo = << >> => pc \in Ended) /\ (undo # << >> => pc = undo[1])

\* Where an order is tells which stages have run, and how.
Course == GoesWell \/ \E s \in Stages : FailedAt(s)

\* The stages by name.
LEMMA StageNames ==
  /\ AllStages = {"inventory.reserve", "fraud.evaluate", "payment.authorize", "shipping.create", Void, Release}
  /\ Stages = {"inventory.reserve", "fraud.evaluate", "payment.authorize", "shipping.create"}
  /\ CompensationStages = {Void, Release} /\ AllStages \cap Ended = {}
  /\ \A s \in Stages : s # Void /\ s # Release
  BY DEF AllStages, Stages, CompensationStages, Void, Release, Ended

\* The paths and plans of an order, put together piece by piece.
LEMMA Paths ==
  /\ << >> \o << >> = << >> /\ << >> \o <<"InventoryReserved">> = <<"InventoryReserved">>
  /\ << >> \o <<"InventoryFailed">> = <<"InventoryFailed">> /\ << >> \o <<"FraudFailed">> = <<"FraudFailed">>
  /\ <<"InventoryReserved">> \o <<"PaymentAuthorized">> = <<"InventoryReserved", "PaymentAuthorized">>
  /\ <<"InventoryReserved">> \o <<"PaymentFailed">> = <<"InventoryReserved", "PaymentFailed">>
  /\ <<"InventoryReserved", "PaymentAuthorized">> \o <<"ShippingFailed">>
       = <<"InventoryReserved", "PaymentAuthorized", "ShippingFailed">>
  /\ <<"InventoryReserved", "PaymentAuthorized">> \o <<"ShipmentCreated", "Completed">> = FullPath
  /\ \A s \in Stages : PathOf(s) \o << >> = PathOf(s)
<1> DEFINE S == {"InventoryReserved", "PaymentAuthorized", "ShipmentCreated", "Completed", "InventoryFailed",
                 "FraudFailed", "PaymentFailed", "ShippingFailed"}
<1>1. /\ "InventoryReserved" \in S /\ "PaymentAuthorized" \in S /\ "ShipmentCreated" \in S /\ "Completed" \in S
      /\ "InventoryFailed" \in S /\ "FraudFailed" \in S /\ "PaymentFailed" \in S /\ "ShippingFailed" \in S
  OBVIOUS
<1>2. << >> \in Seq(S) /\ <<"InventoryReserved">> \in Seq(S) /\ <<"InventoryFailed">> \in Seq(S) /\ <<"FraudFailed">> \in Seq(S)
  BY <1>1
<1>3. <<"InventoryReserved", "PaymentFailed">> \in Seq(S)
  BY <1>1
<1>4. <<"InventoryReserved", "PaymentAuthorized", "ShippingFailed">> \in Seq(S)
  BY <1>1
<1> HIDE DEF S
<1>5. /\ << >> \o << >> = << >> /\ << >> \o <<"InventoryReserved">> = <<"InventoryReserved">>
      /\ << >> \o <<"InventoryFailed">> = <<"InventoryFailed">> /\ << >> \o <<"FraudFailed">> = <<"FraudFailed">>
  BY <1>2, ConcatEmptySeq, Zenon
<1>6. /\ <<"InventoryReserved">> \o <<"PaymentAuthorized">> = <<"InventoryReserved", "PaymentAuthorized">>
      /\ <<"InventoryReserved">> \o <<"PaymentFailed">> = <<"InventoryReserved", "PaymentFailed">>
  BY <1>1, Splice2, Zenon
<1>7. <<"InventoryReserved", "PaymentAuthorized">> \o <<"ShippingFailed">>
        = <<"InventoryReserved", "PaymentAuthorized", "ShippingFailed">>
  BY <1>1, Splice3, Zenon
<1>8. <<"InventoryReserved", "PaymentAuthorized">> \o <<"ShipmentCreated", "Completed">>
        = <<"InventoryReserved", "PaymentAuthorized", "ShipmentCreated", "Completed">>
  BY <1>1, Splice4
<1>9. ASSUME NEW s \in Stages PROVE PathOf(s) \o << >> = PathOf(s)
  <2>1. PathOf(s) \in Seq(S)
    BY <1>2, <1>3, <1>4, Zenon DEF PathOf
  <2> QED
    BY <2>1, ConcatEmptySeq
<1> QED
  BY <1>5, <1>6, <1>7, <1>8, <1>9, Zenon DEF FullPath

\* The plans.
LEMMA Plans ==
  /\ Tail(JustRelease) = << >> /\ Tail(VoidAndRelease) = JustRelease /\ JustRelease[1] = Release /\ VoidAndRelease[1] = Void
  /\ JustRelease # << >> /\ VoidAndRelease # << >> /\ JustRelease # VoidAndRelease
<1>1. ASSUME NEW a, NEW b PROVE Tail(<<a>>) = << >> /\ Tail(<<b, a>>) = <<a>>
  OBVIOUS
<1>2. ASSUME NEW a, NEW b PROVE <<a>> # << >> /\ <<b, a>> # << >>
  OBVIOUS
<1>3. ASSUME NEW a, NEW b PROVE <<a>> # <<b, a>>
  OBVIOUS
<1>4. ASSUME NEW a, NEW b PROVE <<a>>[1] = a /\ <<b, a>>[1] = b
  OBVIOUS
<1> QED
  BY <1>1, <1>2, <1>3, <1>4, Zenon DEF JustRelease, VoidAndRelease

\* A failed order is undone or answered.
LEMMA FailedPlace ==
  ASSUME NEW s \in Stages, FailedAt(s)
  PROVE  pc \in {Void, Release} \cup Ended
  BY Plans DEF FailedAt

\* What a failure leads to.
LEMMA FailIs ==
  ASSUME NEW s \in Stages, NEW r \in Endings, Fail(s, r), path = PathTo(s), results' \in [AllStages -> Endings \cup {""}],
         results'[s] = r, r # "ok", \A b \in StagesBefore(s) : results'[b] = "ok",
         s = "inventory.reserve" => results'["fraud.evaluate"] # "",
         \A b \in Stages \ (StagesBefore(s) \cup {s, "fraud.evaluate"}) : results'[b] = "",
         results'[Void] = "", results'[Release] = ""
  PROVE  FailedAt(s)'
<1> DEFINE p == Plan(s, r)
<1>1. /\ path' = path \o <<FailureState(s)>> /\ undo' = p
      /\ pc' = IF p = << >> THEN "answer" ELSE p[1]
  BY DEF Fail, Step, GoOn
<1>2. path' = PathOf(s)
  BY <1>1, Paths DEF PathTo, PathOf, FailureState, Stages
<1>3. /\ p \in {<< >>, JustRelease, VoidAndRelease}
      /\ p = VoidAndRelease <=> s = "shipping.create" \/ (s = "payment.authorize" /\ r # "rejected")
      /\ p = << >> <=> s = "inventory.reserve" /\ r = "rejected"
  <2>1. UndoStage("VoidPayment") = Void /\ UndoStage("ReleaseInventory") = Release
    BY DEF UndoStage, Void, Release
  <2>2. Plan(s, r) = (IF s = "inventory.reserve" /\ r = "rejected" THEN << >>
                      ELSE IF s \in {"inventory.reserve", "fraud.evaluate"} \/ (s = "payment.authorize" /\ r = "rejected")
                      THEN JustRelease ELSE VoidAndRelease)
    BY <2>1, Zenon DEF Plan, JustRelease, VoidAndRelease
  <2> QED
    <3>1. CASE s = "inventory.reserve" /\ r = "rejected"
      <4>1. p = << >>
        BY <2>2, <3>1
      <4> QED
        BY <3>1, <4>1, Plans
    <3>2. CASE /\ ~(s = "inventory.reserve" /\ r = "rejected")
               /\ s \in {"inventory.reserve", "fraud.evaluate"} \/ (s = "payment.authorize" /\ r = "rejected")
      <4>1. p = JustRelease
        BY <2>2, <3>2
      <4> QED
        BY <3>2, <4>1, Plans
    <3>3. CASE s = "shipping.create" \/ (s = "payment.authorize" /\ r # "rejected")
      <4>1. p = VoidAndRelease
        BY <2>2, <3>3
      <4> QED
        BY <3>3, <4>1, Plans
    <3>4. \/ s = "inventory.reserve" /\ r = "rejected"
          \/ /\ ~(s = "inventory.reserve" /\ r = "rejected")
             /\ s \in {"inventory.reserve", "fraud.evaluate"} \/ (s = "payment.authorize" /\ r = "rejected")
          \/ s = "shipping.create" \/ (s = "payment.authorize" /\ r # "rejected")
      BY DEF Stages
    <3> QED
      BY <3>1, <3>2, <3>3, <3>4, Zenon
<1>4. (p = << >> => pc' \in Ended) /\ (p # << >> => pc' = p[1])
  BY <1>1 DEF Ended
<1> HIDE DEF p
<1> QED
  <2>1. Voids(s)' <=> p = VoidAndRelease
    BY <1>3 DEF Voids
  <2>2. Releases(s)' <=> p # << >>
    BY <1>3 DEF Releases
  <2> QED
    BY <1>1, <1>2, <1>3, <1>4, <2>1, <2>2, Plans DEF FailedAt, Endings

\* What follows the end of a stage.
LEMMA CourseAfter ==
  ASSUME Typed, Course, pc \in AllStages, NEW r \in Endings, results' = [results EXCEPT ![pc] = r], After(pc, r)
  PROVE  Course' /\ pc' \in AllStages \cup {"answer"}
<1>0. /\ results' \in [AllStages -> Endings \cup {""}] /\ results'[pc] = r /\ r # ""
      /\ \A s \in AllStages \ {pc} : results'[s] = results[s]
  BY DEF Typed, Endings
<1>u. Void \in AllStages /\ Release \in AllStages /\ Stages \subseteq AllStages
  BY StageNames
<1>1. CASE pc = "inventory.reserve"
  <2>1. GoesWell /\ path = << >>
    BY <1>1, FailedPlace, StageNames DEF Course, GoesWell, PathTo, Ended
  <2>2. pc' = "fraud.evaluate" /\ path' = path \o << >> /\ undo' = << >>
    BY <1>1 DEF After, Step
  <2>3. path' = << >>
    BY <2>1, <2>2, Paths
  <2> QED
    BY <1>0, <1>1, <2>1, <2>2, <2>3, StageNames DEF Course, GoesWell, PathTo, StagesBefore
<1>2. CASE pc = "fraud.evaluate"
  <2>1. /\ GoesWell /\ path = << >> /\ results["inventory.reserve"] # "" /\ results["payment.authorize"] = ""
        /\ results["shipping.create"] = "" /\ results[Void] = "" /\ results[Release] = ""
    BY <1>2, FailedPlace, StageNames DEF Course, GoesWell, PathTo, StagesBefore, Ended
  <2>2. CASE results["inventory.reserve"] # "ok"
    <3>1. Fail("inventory.reserve", results["inventory.reserve"])
      BY <1>2, <2>2 DEF After
    <3>2. FailedAt("inventory.reserve")'
      <4>1. /\ results'["inventory.reserve"] = results["inventory.reserve"] /\ results["inventory.reserve"] \in Endings
            /\ results'["payment.authorize"] = "" /\ results'["shipping.create"] = "" /\ results'["fraud.evaluate"] # ""
            /\ results'[Void] = "" /\ results'[Release] = ""
        BY <1>0, <1>2, <2>1, StageNames DEF Typed
      <4> QED
        BY <1>0, <2>1, <2>2, <3>1, <4>1, FailIs, StageNames DEF PathTo, StagesBefore
    <3>3. pc' \in AllStages \cup {"answer"}
      BY <3>1, StageNames DEF Fail, Step, GoOn, Plan, UndoStage, Void, Release
    <3> QED
      BY <3>2, <3>3, StageNames DEF Course
  <2>3. CASE results["inventory.reserve"] = "ok" /\ r # "ok"
    <3>1. Fail("fraud.evaluate", r)
      BY <1>2, <2>3, StageNames DEF After
    <3>2. FailedAt("fraud.evaluate")'
      <4>1. /\ results'["inventory.reserve"] = "ok" /\ results'["fraud.evaluate"] = r
            /\ results'["payment.authorize"] = "" /\ results'["shipping.create"] = ""
            /\ results'[Void] = "" /\ results'[Release] = ""
        BY <1>0, <1>2, <2>1, <2>3, StageNames
      <4> QED
        BY <1>0, <2>1, <2>3, <3>1, <4>1, FailIs, StageNames DEF PathTo, StagesBefore
    <3>3. pc' \in AllStages \cup {"answer"}
      BY <3>1, StageNames DEF Fail, Step, GoOn, Plan, UndoStage, Void, Release
    <3> QED
      BY <3>2, <3>3, StageNames DEF Course
  <2>4. CASE results["inventory.reserve"] = "ok" /\ r = "ok"
    <3>1. pc' = "payment.authorize" /\ path' = path \o <<"InventoryReserved">> /\ undo' = << >>
      BY <1>2, <2>4, StageNames DEF After, Step
    <3>2. path' = <<"InventoryReserved">>
      BY <2>1, <3>1, Paths
    <3> QED
      BY <1>0, <1>2, <2>1, <2>4, <3>1, <3>2, StageNames DEF Course, GoesWell, PathTo, StagesBefore
  <2> QED
    BY <2>2, <2>3, <2>4
<1>3. CASE pc = "payment.authorize"
  <2>1. /\ GoesWell /\ path = <<"InventoryReserved">> /\ results["inventory.reserve"] = "ok" /\ results["fraud.evaluate"] = "ok"
        /\ results["shipping.create"] = "" /\ results[Void] = "" /\ results[Release] = ""
    BY <1>3, FailedPlace, StageNames DEF Course, GoesWell, PathTo, StagesBefore, Ended
  <2>2. CASE r # "ok"
    <3>1. Fail("payment.authorize", r)
      BY <1>3, <2>2, StageNames DEF After
    <3>2. FailedAt("payment.authorize")'
      <4>1. /\ results'["inventory.reserve"] = "ok" /\ results'["fraud.evaluate"] = "ok" /\ results'["shipping.create"] = ""
            /\ results'["payment.authorize"] = r /\ results'[Void] = "" /\ results'[Release] = ""
        BY <1>0, <1>3, <2>1, StageNames
      <4> QED
        BY <1>0, <2>1, <2>2, <3>1, <4>1, FailIs, StageNames DEF PathTo, StagesBefore
    <3>3. pc' \in AllStages \cup {"answer"}
      BY <3>1, StageNames DEF Fail, Step, GoOn, Plan, UndoStage, Void, Release
    <3> QED
      BY <3>2, <3>3, StageNames DEF Course
  <2>3. CASE r = "ok"
    <3>1. pc' = "shipping.create" /\ path' = path \o <<"PaymentAuthorized">> /\ undo' = << >>
      BY <1>3, <2>3, StageNames DEF After, Step
    <3>2. path' = <<"InventoryReserved", "PaymentAuthorized">>
      BY <2>1, <3>1, Paths
    <3> QED
      BY <1>0, <1>3, <2>1, <2>3, <3>1, <3>2, StageNames DEF Course, GoesWell, PathTo, StagesBefore
  <2> QED
    BY <2>2, <2>3
<1>4. CASE pc = "shipping.create"
  <2>1. /\ GoesWell /\ path = <<"InventoryReserved", "PaymentAuthorized">> /\ results[Void] = "" /\ results[Release] = ""
        /\ results["inventory.reserve"] = "ok" /\ results["fraud.evaluate"] = "ok" /\ results["payment.authorize"] = "ok"
    BY <1>4, FailedPlace, StageNames DEF Course, GoesWell, PathTo, StagesBefore, Ended
  <2>2. CASE r # "ok"
    <3>1. Fail("shipping.create", r)
      BY <1>4, <2>2, StageNames DEF After
    <3>2. FailedAt("shipping.create")'
      <4>1. /\ results'["inventory.reserve"] = "ok" /\ results'["fraud.evaluate"] = "ok" /\ results'["payment.authorize"] = "ok"
            /\ results'["shipping.create"] = r /\ results'[Void] = "" /\ results'[Release] = ""
        BY <1>0, <1>4, <2>1, StageNames
      <4> QED
        BY <1>0, <2>1, <2>2, <3>1, <4>1, FailIs, StageNames DEF PathTo, StagesBefore
    <3>3. pc' \in AllStages \cup {"answer"}
      BY <3>1, StageNames DEF Fail, Step, GoOn, Plan, UndoStage, Void, Release
    <3> QED
      BY <3>2, <3>3, StageNames DEF Course
  <2>3. CASE r = "ok"
    <3>1. pc' = "answer" /\ path' = path \o <<"ShipmentCreated", "Completed">> /\ undo' = << >>
      BY <1>4, <2>3, StageNames DEF After, Step
    <3>2. path' = FullPath
      BY <2>1, <3>1, Paths
    <3> QED
      BY <1>0, <1>4, <2>1, <2>3, <3>1, <3>2, StageNames DEF Course, GoesWell, Ended
  <2> QED
    BY <2>2, <2>3
<1>5. CASE pc \in {Void, Release}
  <2>1. PICK s \in Stages : FailedAt(s)
    BY <1>5, StageNames DEF Course, GoesWell
  <2>2. /\ pc' = (IF Tail(undo) = << >> THEN "answer" ELSE Tail(undo)[1]) /\ path' = path \o << >> /\ undo' = Tail(undo)
    BY <1>5, StageNames DEF After, Step, GoOn, Void, Release
  <2>3. path' = path
    BY <2>1, <2>2, Paths DEF FailedAt, PathOf
  <2>4. \/ undo = VoidAndRelease /\ pc = Void /\ undo' = JustRelease /\ pc' = Release
        \/ undo = JustRelease /\ pc = Release /\ undo' = << >> /\ pc' = "answer"
    BY <1>5, <2>1, <2>2, Plans, StageNames DEF FailedAt, Ended
  <2>5. Void # Release
    BY DEF Void, Release
  <2>6. \A x \in Stages : results'[x] = results[x]
    BY <1>0, <1>5, StageNames
  <2>7. (Voids(s) <=> Voids(s)') /\ (Releases(s) <=> Releases(s)')
    BY <2>6 DEF Voids, Releases
  <2>8. path' = PathOf(s) /\ results'[s] \notin {"", "ok"} /\ (\A b \in StagesBefore(s) : results'[b] = "ok")
    BY <2>1, <2>3, <2>6, StageNames DEF FailedAt, StagesBefore
  <2>9. /\ s = "inventory.reserve" => results'["fraud.evaluate"] # ""
        /\ \A b \in Stages \ (StagesBefore(s) \cup {s, "fraud.evaluate"}) : results'[b] = ""
    BY <2>1, <2>6, StageNames DEF FailedAt
  <2>10. FailedAt(s)'
    <3>1. CASE pc = Void
      <4>1. results'[Void] # "" /\ results'[Release] = results[Release]
        BY <1>0, <1>u, <2>5, <3>1
      <4> QED
        BY <2>1, <2>4, <2>5, <2>7, <2>8, <2>9, <3>1, <4>1, Plans DEF FailedAt
    <3>2. CASE pc = Release
      <4>1. results'[Release] # "" /\ results'[Void] = results[Void]
        BY <1>0, <1>u, <2>5, <3>2
      <4> QED
        BY <2>1, <2>4, <2>5, <2>7, <2>8, <2>9, <3>2, <4>1, Plans DEF FailedAt, Ended
    <3> QED
      BY <1>5, <3>1, <3>2
  <2> QED
    BY <2>1, <2>4, <2>10, StageNames DEF Course
<1> QED
  BY <1>1, <1>2, <1>3, <1>4, <1>5, StageNames

-----------------------------------------------------------------------------
(* The spans of one stage.                                                  *)

\* A span with id i is in t; the spans of stage s in t.
HasId(t, i) == \E x \in t : x.id = i
Of(t, s) == {x \in t : x.id[1] = s}
Bit(b) == IF b THEN 1 ELSE 0

\* What m attempts of stage s leave behind, between two moments.
Attempted(u, s, m, from, upto) ==
    /\ \A x \in u : \E k \in 1..m : ClientLike(x, s, k) \/ ServerLike(x, s, k)
    /\ \A x, y \in u : x.id = y.id => x = y
    /\ \A k \in 1..m : HasId(u, <<s, k>>)
    /\ \A x \in u : from <= x.start /\ x.end <= upto
    /\ \A k \in 1..m : \A x, y \in u : x.id = <<s, k>> /\ y.id = <<s, 9 + k>> => x.start = y.start /\ x.end = y.end
    /\ \A k, j \in 1..m : k < j => \A x, y \in u : x.id = <<s, k>> /\ y.id = <<s, j>> => x.end + 2 <= y.start

\* No attempt leaves nothing behind.
LEMMA NothingAttempted ==
  ASSUME NEW s, NEW from, NEW upto
  PROVE  Attempted({}, s, 0, from, upto)
  BY DEF Attempted

\* One more attempt, with what came of it.
LEMMA OneMore ==
  ASSUME NEW u, NEW s \in AllStages, NEW m \in 0..2, NEW from \in Nat, NEW upto \in Int, Attempted(u, s, m, from, upto),
         NEW c, ClientLike(c, s, m + 1), from <= c.start, upto + 2 <= c.start,
         NEW d, ServerLike(d, s, m + 1), d.start = c.start, d.end = c.end, NEW v, v \in {{}, {d}}
  PROVE  Attempted(u \cup {c} \cup v, s, m + 1, from, c.end)
<1> DEFINE w == u \cup {c} \cup v
<1>1. \A x \in w : x \in u \/ x = c \/ (x = d /\ v = {d})
  OBVIOUS
<1>2. c.id = <<s, m + 1>> /\ d.id = <<s, 10 + m>> /\ c.start < c.end /\ c.start \in Nat /\ c.end \in Nat
  <2>1. 9 + (m + 1) = 10 + m
    OBVIOUS
  <2> QED
    BY <2>1 DEF ClientLike, ServerLike, Plain
<1>3. \A x \in u : \E k \in 1..m : x.id = <<s, k>> \/ x.id = <<s, 9 + k>>
  BY DEF Attempted, ClientLike, ServerLike
<1>4. \A x \in u : x.id # c.id /\ x.id # d.id
  BY <1>2, <1>3
<1>5. c.id # d.id
  BY <1>2
<1>6. \A x \in u : x.start \in Nat /\ x.end \in Nat
  BY DEF Attempted, ClientLike, ServerLike, Plain
<1> HIDE DEF w
<1>7. \A x \in w : \E k \in 1..(m + 1) : ClientLike(x, s, k) \/ ServerLike(x, s, k)
  <2> SUFFICES ASSUME NEW x \in w PROVE \E k \in 1..(m + 1) : ClientLike(x, s, k) \/ ServerLike(x, s, k)
    OBVIOUS
  <2>1. CASE x \in u
    <3>1. PICK k \in 1..m : ClientLike(x, s, k) \/ ServerLike(x, s, k)
      BY <2>1 DEF Attempted
    <3>2. k \in 1..(m + 1)
      OBVIOUS
    <3> QED
      BY <3>1, <3>2
  <2>2. CASE x \in {c, d}
    <3>1. m + 1 \in 1..(m + 1)
      OBVIOUS
    <3> QED
      BY <2>2, <3>1
  <2> QED
    BY <1>1, <2>1, <2>2
<1>8. \A x, y \in w : x.id = y.id => x = y
  BY <1>1, <1>4, <1>5 DEF Attempted
<1>9. \A k \in 1..(m + 1) : HasId(w, <<s, k>>)
  <2> SUFFICES ASSUME NEW k \in 1..(m + 1) PROVE HasId(w, <<s, k>>)
    OBVIOUS
  <2>1. CASE k = m + 1
    BY <1>2, <2>1 DEF w, HasId
  <2>2. CASE k \in 1..m
    BY <2>2 DEF w, HasId, Attempted
  <2> QED
    BY <2>1, <2>2
<1>10. \A x \in w : from <= x.start /\ x.end <= c.end
  BY <1>1, <1>2, <1>6 DEF Attempted
<1>11. ASSUME NEW k \in 1..(m + 1), NEW x \in w, NEW y \in w, x.id = <<s, k>>, y.id = <<s, 9 + k>>
       PROVE  x.start = y.start /\ x.end = y.end
  <2>1. CASE k \in 1..m
    <3>1. x \in u /\ y \in u
      BY <1>1, <1>2, <1>11, <2>1
    <3> QED
      BY <1>11, <2>1, <3>1 DEF Attempted
  <2>2. CASE k = m + 1
    <3>1. x = c /\ y = d
      BY <1>1, <1>2, <1>3, <1>11, <2>2
    <3> QED
      BY <3>1
  <2> QED
    BY <2>1, <2>2
<1>12. ASSUME NEW k \in 1..(m + 1), NEW j \in 1..(m + 1), k < j, NEW x \in w, NEW y \in w, x.id = <<s, k>>, y.id = <<s, j>>
       PROVE  x.end + 2 <= y.start
  <2>0. k \in 1..m /\ x \in u
    BY <1>1, <1>2, <1>12
  <2>1. CASE j \in 1..m
    <3>1. y \in u
      BY <1>1, <1>2, <1>12, <2>1
    <3> QED
      BY <1>12, <2>0, <2>1, <3>1 DEF Attempted
  <2>2. CASE j = m + 1
    <3>1. y = c
      BY <1>1, <1>2, <1>3, <1>12, <2>2
    <3>2. x.end <= upto
      BY <2>0 DEF Attempted
    <3> QED
      BY <1>2, <1>6, <2>0, <3>1, <3>2
  <2> QED
    BY <2>1, <2>2
<1> QED
  BY <1>7, <1>8, <1>9, <1>10, <1>11, <1>12 DEF w, Attempted

\* A stage that has ended: its span, its attempts, and how it ended.
Closed(u, s, r, x, m) ==
    /\ x \in u /\ StageLike(x, s) /\ FailureOf(x, r)
    /\ m \in 0..3 /\ x.retryCount \in 0..2 /\ Attempted(u \ {x}, s, m, x.start, x.end)
    /\ m = x.retryCount + 1 \/ (m = x.retryCount /\ r = "unavailable")
    /\ r \in {"ok", "rejected", "error"} => HasId(u, <<s, 9 + m>>)
    /\ r = "timeout" => x.retryCount = Profile[s].max - 1
    /\ x.retryCount = 0 => \A y \in u : y.id = <<s, 1>> => y.start = x.start /\ y.end = x.end

\* A stage that runs.
Running(u, s) ==
    /\ Attempted(u, s, attempt, opened, clock - 2) /\ attempt < Profile[s].max
    /\ opened <= clock /\ (attempt = 0 => clock = opened)

\* Each stage's part of t is what the stage has left behind so far.
Kept(t) ==
    \A s \in AllStages :
      /\ s = pc => results[s] = "" /\ Running(Of(t, s), s)
      /\ results[s] # "" => \E x \in t, m \in 0..3 : Closed(Of(t, s), s, results[s], x, m)
      /\ results[s] = "" /\ s # pc => Of(t, s) = {}

\* Every span of t belongs to a stage.
Strangers(t) == \A x \in t : x.id[1] \in AllStages

\* Numbers of an order's state.
LEMMA NextNumber == \A n \in Nat : n + 1 \in Nat
  OBVIOUS

LEMMA TypedNumbers == Typed => attempt \in 0..2 /\ attempt \in 0..3 /\ clock \in Nat /\ opened \in Nat /\ joined \in Nat
<1>1. \A a \in 0..2 : a \in 0..3
  OBVIOUS
<1>2. Typed => attempt \in 0..2 /\ clock \in Nat /\ opened \in Nat /\ joined \in Nat
  BY DEF Typed
<1> QED
  BY <1>1, <1>2

\* Attempts that were made by one moment were made by a later one.
LEMMA Later ==
  ASSUME NEW u, NEW s, NEW m, NEW from, NEW a \in Int, NEW b \in Int, a <= b, Attempted(u, s, m, from, a), m \in 0..3
  PROVE  Attempted(u, s, m, from, b)
<1>1. \A x \in u : x.end \in Int
  <2> SUFFICES ASSUME NEW x \in u PROVE x.end \in Int
    OBVIOUS
  <2>1. PICK k \in 1..m : ClientLike(x, s, k) \/ ServerLike(x, s, k)
    BY DEF Attempted
  <2>2. Plain(x)
    BY <2>1 DEF ClientLike, ServerLike
  <2> QED
    BY <2>2 DEF Plain
<1>2. \A x \in u : from <= x.start /\ x.end <= b
  BY <1>1 DEF Attempted
<1> QED
  BY <1>2 DEF Attempted

\* The spans so far, and those that an attempt with outcome o adds.
MadeBy(o) ==
    spans \cup (IF Sends(o) THEN {ClientSpan(pc, o)} ELSE {}) \cup (IF Reaches(o) THEN {ServerSpan(pc, o)} ELSE {})

\* One attempt of the stage that runs.
LEMMA AttemptAdds ==
  ASSUME Typed, pc \in AllStages, NEW o \in Outcomes, Running(Of(spans, pc), pc), Strangers(spans)
  PROVE  /\ Sends(o) => Attempted(Of(MadeBy(o), pc), pc, attempt + 1, opened, clock + Ticks(pc, o))
         /\ ~Sends(o) => Attempted(Of(MadeBy(o), pc), pc, attempt, opened, clock + Ticks(pc, o))
         /\ \A z \in AllStages \ {pc} : Of(MadeBy(o), z) = Of(spans, z)
         /\ Strangers(MadeBy(o))
         /\ Reaches(o) => HasId(Of(MadeBy(o), pc), <<pc, 10 + attempt>>)
         /\ attempt = 0 => \A y \in Of(MadeBy(o), pc) : y.id = <<pc, 1>> => y.start = opened /\ y.end = clock + Ticks(pc, o)
<1> DEFINE c == ClientSpan(pc, o)
<1> DEFINE d == ServerSpan(pc, o)
<1> DEFINE u == Of(spans, pc)
<1>0. attempt \in 0..2 /\ clock \in Nat /\ opened \in Nat /\ opened <= clock /\ Ticks(pc, o) \in Nat
  <2>1. Ticks(pc, o) \in 0..15
    BY OutcomeIs
  <2>2. attempt \in 0..2 /\ clock \in Nat /\ opened \in Nat
    BY DEF Typed
  <2>3. opened <= clock
    BY DEF Running
  <2> QED
    BY <2>1, <2>2, <2>3
<1>1. ASSUME Sends(o) PROVE ClientLike(c, pc, attempt + 1) /\ c.start = clock /\ c.end = clock + Ticks(pc, o)
  BY <1>0, <1>1, ClientIs
<1>2. ASSUME Reaches(o)
      PROVE  ServerLike(d, pc, attempt + 1) /\ d.start = clock /\ d.end = clock + Ticks(pc, o) /\ Sends(o)
  BY <1>0, <1>2, ServerIs, OutcomeIs
<1>3. Reaches(o) => Sends(o)
  BY OutcomeIs
<1>4. c.id = <<pc, attempt + 1>> /\ d.id = <<pc, 10 + attempt>> /\ d.start = clock /\ d.end = clock + Ticks(pc, o)
  BY DEF ClientSpan, ServerSpan, MakeSpan
<1>5. Attempted(u, pc, attempt, opened, clock - 2)
  BY DEF Running
<1>6. Of(MadeBy(o), pc) = u \cup (IF Sends(o) THEN {c} ELSE {}) \cup (IF Reaches(o) THEN {d} ELSE {})
  BY <1>4 DEF MadeBy, Of
<1>7. \A z \in AllStages \ {pc} : Of(MadeBy(o), z) = Of(spans, z)
  BY <1>4 DEF MadeBy, Of
<1>8. Strangers(MadeBy(o))
  BY <1>4 DEF MadeBy, Strangers
<1> HIDE DEF c, d, u
<1>9. ASSUME Sends(o) PROVE Attempted(Of(MadeBy(o), pc), pc, attempt + 1, opened, clock + Ticks(pc, o))
  <2>0. clock - 2 \in Int
    BY <1>0
  <2>1. CASE Reaches(o)
    <3>1. Of(MadeBy(o), pc) = u \cup {c} \cup {d}
      BY <1>6, <1>9, <2>1
    <3>2. ClientLike(c, pc, attempt + 1) /\ ServerLike(d, pc, attempt + 1) /\ opened <= c.start /\ (clock - 2) + 2 <= c.start
      BY <1>0, <1>1, <1>2, <1>9, <2>1
    <3>3. Attempted(u \cup {c} \cup {d}, pc, attempt + 1, opened, c.end)
      BY <1>0, <1>1, <1>2, <1>5, <1>9, <2>1, <2>0, <3>2, OneMore
    <3> QED
      BY <1>1, <1>9, <3>1, <3>3
  <2>2. CASE ~Reaches(o)
    <3>1. Of(MadeBy(o), pc) = u \cup {c} \cup {}
      BY <1>6, <1>9, <2>2
    <3>2. ClientLike(c, pc, attempt + 1) /\ opened <= c.start /\ (clock - 2) + 2 <= c.start
      BY <1>0, <1>1, <1>9
    <3>3. PICK e : ServerLike(e, pc, attempt + 1) /\ e.start = c.start /\ e.end = c.end
      <4>1. Ticks(pc, o) >= 1
        BY <1>9, OutcomeIs
      <4> DEFINE e == MakeSpan(<<pc, 9 + (attempt + 1)>>, <<pc, attempt + 1>>, Profile[pc].service,
                        IF pc = "payment.authorize" THEN "POST /authorizations" ELSE "server", "SERVER", clock, clock + Ticks(pc, o))
      <4>2. ServerLike(e, pc, attempt + 1) /\ e.start = clock /\ e.end = clock + Ticks(pc, o)
        BY <1>0, <4>1 DEF MakeSpan, ServerLike, Plain, Request
      <4> HIDE DEF e
      <4> QED
        BY <1>1, <1>9, <4>2
    <3>4. Attempted(u \cup {c} \cup {}, pc, attempt + 1, opened, c.end)
      BY <1>0, <1>5, <2>0, <3>2, <3>3, OneMore
    <3> QED
      BY <1>1, <1>9, <3>1, <3>4
  <2> QED
    BY <2>1, <2>2
<1>10. ASSUME ~Sends(o) PROVE Attempted(Of(MadeBy(o), pc), pc, attempt, opened, clock + Ticks(pc, o))
  <2>1. Of(MadeBy(o), pc) = u
    BY <1>3, <1>6, <1>10
  <2> QED
    BY <1>0, <1>5, <2>1, Later
<1>11. Reaches(o) => HasId(Of(MadeBy(o), pc), <<pc, 10 + attempt>>)
  BY <1>4, <1>6 DEF HasId
<1>12. ASSUME attempt = 0, NEW y \in Of(MadeBy(o), pc), y.id = <<pc, 1>>
       PROVE  y.start = opened /\ y.end = clock + Ticks(pc, o)
  <2>1. u = {} /\ clock = opened
    BY <1>5, <1>12 DEF Attempted, Running, u
  <2>2. Sends(o) /\ y = c
    BY <1>3, <1>4, <1>6, <1>12, <2>1
  <2> QED
    BY <1>1, <2>1, <2>2
<1> QED
  BY <1>7, <1>8, <1>9, <1>10, <1>11, <1>12

\* A stage that runs has not ended yet.
LEMMA FreshStage == Typed /\ Course /\ pc \in AllStages => results[pc] = ""
<1> SUFFICES ASSUME Typed, Course, pc \in AllStages PROVE results[pc] = ""
  OBVIOUS
<1>1. CASE GoesWell
  BY <1>1, StageNames DEF GoesWell, StagesBefore, Typed
<1>2. CASE \E s \in Stages : FailedAt(s)
  <2>1. PICK s \in Stages : FailedAt(s)
    BY <1>2
  <2>2. pc \in {Void, Release}
    BY <2>1, FailedPlace, StageNames
  <2>3. Void \in AllStages /\ Release \in AllStages
    BY StageNames
  <2>4. undo # << >> /\ (undo = VoidAndRelease \/ undo = JustRelease) /\ pc = undo[1]
    BY <2>1, <2>2, StageNames DEF FailedAt
  <2>5. Void # Release
    BY DEF Void, Release
  <2> QED
    BY <2>1, <2>2, <2>3, <2>4, <2>5, Plans DEF FailedAt
<1> QED
  BY <1>1, <1>2 DEF Course

\* An attempt that is tried again.
LEMMA KeptTryingAgain ==
  ASSUME Typed, pc \in AllStages, NEW o \in Outcomes, Kept(spans), Strangers(spans), ShouldRetry(o),
         attempt + 1 < Profile[pc].max, spans' = MadeBy(o), attempt' = attempt + 1,
         clock' = (clock + Ticks(pc, o)) + Backoff, UNCHANGED <<pc, results, opened>>
  PROVE  Kept(spans)' /\ Strangers(spans)'
<1>1. Running(Of(spans, pc), pc) /\ results[pc] = ""
  BY DEF Kept
<1>2. Sends(o) /\ Ticks(pc, o) \in Nat
  BY OutcomeIs
<1>3. Attempted(Of(MadeBy(o), pc), pc, attempt + 1, opened, clock + Ticks(pc, o))
  BY <1>1, <1>2, AttemptAdds
<1>4. (\A z \in AllStages \ {pc} : Of(MadeBy(o), z) = Of(spans, z)) /\ Strangers(MadeBy(o))
  BY <1>1, AttemptAdds
<1>5. clock \in Nat /\ opened \in Nat /\ attempt \in 0..2 /\ opened <= clock
  BY <1>1 DEF Typed, Running
<1>6. clock' - 2 = clock + Ticks(pc, o) /\ opened <= clock' /\ attempt' # 0
  BY <1>2, <1>5 DEF Backoff
<1>7. Running(Of(spans, pc), pc)'
  <2>1. Attempted(Of(spans, pc), pc, attempt, opened, clock - 2)'
    BY <1>3, <1>6
  <2> QED
    BY <1>6, <2>1 DEF Running
<1>8. spans \subseteq spans'
  BY DEF MadeBy
<1>9. ASSUME NEW s \in AllStages, results[s] # ""
      PROVE  \E x \in spans', m \in 0..3 : Closed(Of(spans', s), s, results[s], x, m)
  <2>1. s # pc
    BY <1>1, <1>9
  <2>2. Of(spans', s) = Of(spans, s)
    BY <1>4, <2>1
  <2>3. PICK x \in spans, m \in 0..3 : Closed(Of(spans, s), s, results[s], x, m)
    BY <1>9 DEF Kept
  <2> QED
    BY <1>8, <2>2, <2>3
<1>10. Kept(spans)'
  BY <1>1, <1>4, <1>7, <1>9 DEF Kept
<1> QED
  BY <1>4, <1>10 DEF Strangers

\* The last attempt of a stage: what the stage leaves behind.
LEMMA ClosedBy ==
  ASSUME Typed, pc \in AllStages, NEW o \in Outcomes, Running(Of(spans, pc), pc), Strangers(spans),
         ~(ShouldRetry(o) /\ attempt + 1 < Profile[pc].max),
         NEW x, x = StageSpan(pc, ResultOf(o), clock + Ticks(pc, o)), NEW t, t = MadeBy(o) \cup {x}
  PROVE  /\ \E m \in 0..3 : Closed(Of(t, pc), pc, ResultOf(o), x, m)
         /\ x \in t /\ x.start = opened /\ x.end = clock + Ticks(pc, o) /\ x.retryCount = attempt /\ x.id = <<pc, 0>>
         /\ \A z \in AllStages \ {pc} : Of(t, z) = Of(spans, z)
         /\ Strangers(t) /\ spans \subseteq t
<1> DEFINE end == clock + Ticks(pc, o)
<1> DEFINE m == attempt + Bit(Sends(o))
<1> DEFINE w == Of(MadeBy(o), pc)
<1>1. attempt \in 0..2 /\ clock \in Nat /\ opened \in Nat /\ opened <= clock /\ Ticks(pc, o) \in Nat
  <2>1. attempt \in 0..2 /\ clock \in Nat /\ opened \in Nat
    BY DEF Typed
  <2>2. opened <= clock
    BY DEF Running
  <2> QED
    BY <2>1, <2>2, OutcomeIs
<1>2. end \in Nat /\ opened <= end
  BY <1>1
<1>3. /\ StageLike(x, pc) /\ x.start = opened /\ x.end = end /\ x.retryCount = attempt /\ x.id = <<pc, 0>>
      /\ FailureOf(x, ResultOf(o))
  <2> HIDE DEF end
  <2>1. x = StageSpan(pc, ResultOf(o), end)
    BY DEF end
  <2>2. /\ StageLike(x, pc) /\ x.start = opened /\ x.end = end /\ x.retryCount = attempt
        /\ FailureOf(x, ResultOf(o))
    BY <1>1, <1>2, <2>1, StageIs
  <2> QED
    BY <2>2 DEF StageLike
<1>4. Of(t, pc) = w \cup {x}
  BY <1>3 DEF Of
<1>5. (\A z \in AllStages \ {pc} : Of(t, z) = Of(spans, z)) /\ Strangers(t)
  <2>1. (\A z \in AllStages \ {pc} : Of(MadeBy(o), z) = Of(spans, z)) /\ Strangers(MadeBy(o))
    BY AttemptAdds
  <2>2. x.id[1] = pc
    BY <1>3
  <2> QED
    BY <2>1, <2>2 DEF Of, Strangers
<1>6. m \in 0..3 /\ Attempted(w, pc, m, opened, end)
  <2>1. CASE Sends(o)
    <3>1. m = attempt + 1
      BY <2>1 DEF Bit
    <3>2. Attempted(w, pc, attempt + 1, opened, end)
      BY <2>1, AttemptAdds
    <3> HIDE DEF m, w, end
    <3> QED
      BY <1>1, <3>1, <3>2
  <2>2. CASE ~Sends(o)
    <3>1. m = attempt
      BY <1>1, <2>2 DEF Bit
    <3>2. Attempted(w, pc, attempt, opened, end)
      BY <2>2, AttemptAdds
    <3> HIDE DEF m, w, end
    <3> QED
      BY <1>1, <3>1, <3>2
  <2> QED
    BY <2>1, <2>2
<1>7. x \notin w
  <2>1. \A y \in w : \E k \in 1..m : y.id = <<pc, k>> \/ y.id = <<pc, 9 + k>>
    BY <1>6 DEF Attempted, ClientLike, ServerLike
  <2> QED
    BY <1>3, <1>6, <2>1
<1>8. Of(t, pc) \ {x} = w
  BY <1>4, <1>7
<1>9. m = attempt + 1 \/ (m = attempt /\ ResultOf(o) = "unavailable")
  BY <1>1, OutcomeIs DEF Bit
<1>10. ASSUME ResultOf(o) \in {"ok", "rejected", "error"} PROVE HasId(Of(t, pc), <<pc, 9 + m>>)
  <2>1. Reaches(o) /\ Sends(o)
    BY <1>10, OutcomeIs
  <2>2. 9 + m = 10 + attempt
    BY <1>1, <2>1 DEF Bit
  <2>3. HasId(w, <<pc, 10 + attempt>>)
    BY <2>1, AttemptAdds
  <2> QED
    BY <1>4, <2>2, <2>3 DEF HasId
<1>11. ASSUME ResultOf(o) = "timeout" PROVE attempt = Profile[pc].max - 1
  <2>1. ~(attempt + 1 < Profile[pc].max) /\ attempt < Profile[pc].max
    BY <1>11, OutcomeIs DEF Running
  <2>2. Profile[pc].max \in {2, 3}
    BY ProfileIs
  <2> QED
    BY <1>1, <2>1, <2>2
<1>12. ASSUME attempt = 0, NEW y \in Of(t, pc), y.id = <<pc, 1>> PROVE y.start = x.start /\ y.end = x.end
  <2>1. y \in w
    BY <1>3, <1>4, <1>12
  <2> QED
    BY <1>3, <1>12, <2>1, AttemptAdds
<1> HIDE DEF end, m, w
<1>13. Closed(Of(t, pc), pc, ResultOf(o), x, m)
  BY <1>1, <1>3, <1>4, <1>6, <1>8, <1>9, <1>10, <1>11, <1>12 DEF Closed
<1> QED
  BY <1>3, <1>5, <1>6, <1>13 DEF end, MadeBy

\* The end of a stage leaves each stage's part in place.
LEMMA KeptAfter ==
  ASSUME Typed, pc \in AllStages, NEW o \in Outcomes, Kept(spans), Strangers(spans), Course', Typed',
         ~(ShouldRetry(o) /\ attempt + 1 < Profile[pc].max),
         spans' = MadeBy(o) \cup {StageSpan(pc, ResultOf(o), clock + Ticks(pc, o))},
         results' = [results EXCEPT ![pc] = ResultOf(o)], opened' = clock', attempt' = 0
  PROVE  Kept(spans)' /\ Strangers(spans)'
<1>0. PICK x : x = StageSpan(pc, ResultOf(o), clock + Ticks(pc, o)) /\ spans' = MadeBy(o) \cup {x}
  OBVIOUS
<1>1. Running(Of(spans, pc), pc) /\ results[pc] = ""
  BY DEF Kept
<1>2. /\ \E m \in 0..3 : Closed(Of(spans', pc), pc, ResultOf(o), x, m)
      /\ x \in spans' /\ \A z \in AllStages \ {pc} : Of(spans', z) = Of(spans, z)
      /\ Strangers(spans') /\ spans \subseteq spans'
  <2>0. /\ Typed /\ pc \in AllStages /\ o \in Outcomes /\ Strangers(spans)
        /\ Running(Of(spans, pc), pc) /\ ~(ShouldRetry(o) /\ attempt + 1 < Profile[pc].max)
    BY <1>1
  <2>1. \E m \in 0..3 : Closed(Of(spans', pc), pc, ResultOf(o), x, m)
    BY ONLY <1>0, <2>0, ClosedBy
  <2>2. \A z \in AllStages \ {pc} : Of(spans', z) = Of(spans, z)
    BY ONLY <1>0, <2>0, ClosedBy
  <2>3. Strangers(spans')
    BY ONLY <1>0, <2>0, ClosedBy
  <2>4. x \in spans' /\ spans \subseteq spans'
    BY <1>0 DEF MadeBy
  <2> QED
    BY <2>1, <2>2, <2>3, <2>4
<1>3. ResultOf(o) \in Endings /\ ResultOf(o) # ""
  BY OutcomeIs DEF Endings
<1>4. results'[pc] = ResultOf(o) /\ \A z \in AllStages \ {pc} : results'[z] = results[z]
  BY DEF Typed
<1>5. ASSUME NEW s \in AllStages, s = pc' PROVE results'[s] = "" /\ Running(Of(spans, s), s)'
  <2>1. results'[s] = ""
    <3>1. (Typed /\ Course /\ pc \in AllStages => results[pc] = "")'
      BY FreshStage, PTL
    <3> QED
      BY <1>5, <3>1
  <2>2. s # pc /\ results[s] = ""
    BY <1>3, <1>4, <2>1
  <2>3. Of(spans', s) = {}
    BY <1>2, <2>2 DEF Kept
  <2>4. Attempted({}, s, 0, opened', clock' - 2)
    BY NothingAttempted
  <2>5. Attempted(Of(spans, s), s, attempt, opened, clock - 2)'
    BY <2>3, <2>4
  <2>6. Profile[s].max \in {2, 3} /\ clock' \in Nat
    BY ProfileIs DEF Typed
  <2>7. opened' <= clock' /\ (attempt < Profile[s].max)'
    BY <2>6
  <2> QED
    BY <2>1, <2>5, <2>7 DEF Running
<1>6. ASSUME NEW s \in AllStages, results'[s] # ""
      PROVE  \E y \in spans', m \in 0..3 : Closed(Of(spans', s), s, results'[s], y, m)
  <2>1. CASE s = pc
    BY <1>2, <1>4, <2>1
  <2>2. CASE s # pc
    <3>1. PICK y \in spans, m \in 0..3 : Closed(Of(spans, s), s, results[s], y, m)
      BY <1>4, <1>6, <2>2 DEF Kept
    <3> QED
      BY <1>2, <1>4, <2>2, <3>1
  <2> QED
    BY <2>1, <2>2
<1>7. ASSUME NEW s \in AllStages, results'[s] = "", s # pc' PROVE Of(spans', s) = {}
  BY <1>2, <1>3, <1>4, <1>7 DEF Kept
<1>8. Kept(spans)'
  BY <1>5, <1>6, <1>7 DEF Kept
<1> QED
  BY <1>2, <1>8 DEF Strangers

\* The span of a stage is there once the stage has ended, and is one span.
LEMMA StageHere ==
  ASSUME Typed, NEW t, Kept(t), NEW s \in AllStages, NEW x \in t, x.id = <<s, 0>>
  PROVE  /\ results[s] # "" /\ StageLike(x, s) /\ \E m \in 0..3 : Closed(Of(t, s), s, results[s], x, m)
         /\ \A y \in t : y.id = <<s, 0>> => y = x
<1>0. \A y \in t : y.id = <<s, 0>> => y \in Of(t, s)
  BY DEF Of
<1>1. x \in Of(t, s)
  BY <1>0
<1>2. ASSUME NEW u, NEW m, NEW a, NEW b, Attempted(u, s, m, a, b), m \in 0..3, NEW y, y.id = <<s, 0>>
      PROVE  y \notin u
  <2> SUFFICES ASSUME y \in u PROVE FALSE
    OBVIOUS
  <2>1. PICK k \in 1..m : y.id = <<s, k>> \/ y.id = <<s, 9 + k>>
    BY <1>2 DEF Attempted, ClientLike, ServerLike
  <2> QED
    BY <1>2, <2>1
<1>3. results[s] # ""
  <2> SUFFICES ASSUME results[s] = "" PROVE FALSE
    OBVIOUS
  <2>1. s = pc
    BY <1>1 DEF Kept
  <2>2. Attempted(Of(t, s), s, attempt, opened, clock - 2) /\ attempt < Profile[s].max
    BY <2>1 DEF Kept, Running
  <2>3. attempt \in 0..3
    BY TypedNumbers
  <2> QED
    BY <1>1, <1>2, <2>2, <2>3
<1>4. PICK y \in t, m \in 0..3 : Closed(Of(t, s), s, results[s], y, m)
  BY <1>3 DEF Kept
<1>5. Attempted(Of(t, s) \ {y}, s, m, y.start, y.end) /\ StageLike(y, s)
  BY <1>4 DEF Closed
<1>6. \A z \in Of(t, s) : z.id = <<s, 0>> => z = y
  BY <1>2, <1>5
<1> QED
  BY <1>0, <1>1, <1>3, <1>4, <1>5, <1>6

-----------------------------------------------------------------------------
(* When the stages ran.                                                     *)

\* The order in which stages run; the first two run at once.
Rank(s) ==
    CASE s \in {"inventory.reserve", "fraud.evaluate"} -> 1 [] s = "payment.authorize" -> 2
      [] s = "shipping.create" -> 3 [] s = Void -> 4 [] OTHER -> 5

\* x is the span of stage s in t.
StageAt(t, s, x) == x \in t /\ x.id = <<s, 0>>

\* When the stages ran: the two checks side by side from the start, every
\* later stage from the end of one before it.
Timeline(t) ==
    /\ 3 <= joined /\ (pc = "inventory.reserve" => joined = 3)
    /\ pc \in {"inventory.reserve", "fraud.evaluate"} => opened = 3
    /\ pc \in AllStages \ {"inventory.reserve", "fraud.evaluate"} => opened = joined
    /\ pc \in Ended => clock = joined
    /\ \A s \in AllStages, x \in t : StageAt(t, s, x) => x.end <= joined
    /\ \A s \in {"inventory.reserve", "fraud.evaluate"}, x \in t : StageAt(t, s, x) => x.start = 3
    /\ \A s, z \in AllStages : Rank(s) < Rank(z) =>
         \A x, y \in t : StageAt(t, s, x) /\ StageAt(t, z, y) => x.end <= y.start
    /\ \A x \in t : StageAt(t, "inventory.reserve", x) /\ pc = "fraud.evaluate" => joined = x.end
    /\ \A x, y \in t : StageAt(t, "inventory.reserve", x) /\ StageAt(t, "fraud.evaluate", y) =>
         /\ pc = "payment.authorize" => joined \in {x.end, y.end}
         /\ \A z \in t : StageAt(t, "payment.authorize", z) => z.start \in {x.end, y.end}
    /\ \A x \in t : StageAt(t, "payment.authorize", x) =>
         /\ pc = "shipping.create" => joined = x.end
         /\ \A z \in t : StageAt(t, "shipping.create", z) => z.start = x.end
    /\ \A x \in t : StageAt(t, "shipping.create", x) /\ results["shipping.create"] = "ok" => joined = x.end

\* The ranks by name.
LEMMA RankIs ==
  /\ Rank("inventory.reserve") = 1 /\ Rank("fraud.evaluate") = 1 /\ Rank("payment.authorize") = 2
  /\ Rank("shipping.create") = 3 /\ Rank(Void) = 4 /\ Rank(Release) = 5
  /\ \A s \in AllStages : Rank(s) \in 1..5
  BY StageNames DEF Rank, Void, Release

\* No later stage has been called, and what may run next.
LEMMA LaterStages ==
  ASSUME Typed, Course, pc \in AllStages
  PROVE  /\ \A s \in AllStages : Rank(pc) < Rank(s) => results[s] = ""
         /\ results["shipping.create"] # "ok"
<1>1. CASE GoesWell
  <2>1. pc \in Stages
    BY <1>1, StageNames DEF GoesWell
  <2>2. \A s \in Stages : Rank(pc) < Rank(s) => s \notin StagesBefore(pc)
    BY <2>1, RankIs, StageNames DEF StagesBefore
  <2>3. "shipping.create" \notin StagesBefore(pc)
    BY DEF StagesBefore
  <2> QED
    BY <1>1, <2>1, <2>2, <2>3, StageNames DEF GoesWell, Ended
<1>2. CASE \E s \in Stages : FailedAt(s)
  <2>1. PICK s \in Stages : FailedAt(s)
    BY <1>2
  <2>2. pc \in {Void, Release}
    BY <2>1, FailedPlace, StageNames
  <2>3. pc = Void => results[Release] = ""
    BY <2>1, <2>2, Plans, StageNames DEF FailedAt
  <2>4. results["shipping.create"] # "ok"
    BY <2>1, StageNames DEF FailedAt, StagesBefore
  <2>5. \A z \in AllStages : Rank(pc) < Rank(z) => pc = Void /\ z = Release
    BY <2>2, RankIs, StageNames
  <2> QED
    BY <2>3, <2>4, <2>5
<1> QED
  BY <1>1, <1>2 DEF Course

\* What has not run yet.
LEMMA StagesToCome ==
  ASSUME Typed, Course, pc \in AllStages
  PROVE  /\ \A s \in AllStages : Rank(pc) < Rank(s) => results[s] = ""
         /\ results["shipping.create"] # "ok"
         /\ pc \in {"inventory.reserve", "fraud.evaluate"} => results["payment.authorize"] = ""
         /\ pc = "payment.authorize" => results["shipping.create"] = ""
<1>1. pc \in {"inventory.reserve", "fraud.evaluate"} => Rank(pc) < Rank("payment.authorize")
  BY RankIs
<1>2. pc = "payment.authorize" => Rank(pc) < Rank("shipping.create")
  BY RankIs
<1> QED
  BY <1>1, <1>2, LaterStages, StageNames

\* Where an order goes after a stage.
LEMMA NextStage ==
  ASSUME Typed, Course, pc \in AllStages, NEW r \in Endings, After(pc, r), Course', pc' \in AllStages \cup {"answer"}
  PROVE  /\ pc' # "inventory.reserve" /\ (pc' = "fraud.evaluate" <=> pc = "inventory.reserve")
         /\ pc' = "payment.authorize" => pc = "fraud.evaluate"
         /\ pc' = "shipping.create" => pc = "payment.authorize"
<1>1. ASSUME NEW s, NEW q, Fail(s, q) PROVE pc' \in {Void, Release, "answer"}
  BY <1>1 DEF Fail, Step, GoOn, Plan, UndoStage, Void, Release
<1>2. CASE pc \in {Void, Release}
  <2>1. PICK s \in Stages : FailedAt(s)
    BY <1>2, StageNames DEF Course, GoesWell
  <2>2. pc' = (IF Tail(undo) = << >> THEN "answer" ELSE Tail(undo)[1])
    BY <1>2, StageNames DEF After, Step, GoOn, Void, Release
  <2>3. undo \in {JustRelease, VoidAndRelease}
    BY <1>2, <2>1, StageNames DEF FailedAt, Ended
  <2>4. pc' \in {Release, "answer"}
    BY <2>2, <2>3, Plans
  <2> QED
    BY <1>2, <2>4, StageNames DEF Void, Release
<1>3. CASE pc = "inventory.reserve"
  BY <1>3 DEF After, Step
<1>4. CASE pc = "fraud.evaluate"
  <2>1. pc' \in {Void, Release, "answer", "payment.authorize"}
    BY <1>1, <1>4, StageNames DEF After, Step
  <2> QED
    BY <1>4, <2>1, StageNames DEF Void, Release
<1>5. CASE pc = "payment.authorize"
  <2>1. pc' \in {Void, Release, "answer", "shipping.create"}
    BY <1>1, <1>5, StageNames DEF After, Step
  <2> QED
    BY <1>5, <2>1, StageNames DEF Void, Release
<1>6. CASE pc = "shipping.create"
  <2>1. pc' \in {Void, Release, "answer"}
    BY <1>1, <1>6, StageNames DEF After, Step
  <2> QED
    BY <1>6, <2>1, StageNames DEF Void, Release
<1> QED
  BY <1>2, <1>3, <1>4, <1>5, <1>6, StageNames

\* The times when a stage ends with span x.
EndsAt(x, end) ==
    /\ StageAt(spans', pc, x) /\ x.start = opened /\ x.end = end
    /\ \A z \in AllStages, y \in spans' : y.id = <<z, 0>> => (z = pc /\ y = x) \/ (z # pc /\ y \in spans)
    /\ joined' \in {end, joined} /\ joined <= joined' /\ end <= joined'
    /\ (pc = "inventory.reserve" => clock' = 3) /\ (pc # "inventory.reserve" => clock' = joined') /\ opened' = clock'

\* The end of a stage keeps the order of events.
LEMMA TimelineAfter ==
  ASSUME Typed, Course, pc \in AllStages, NEW r \in Endings, After(pc, r), Course', Typed', pc' \in AllStages \cup {"answer"},
         Kept(spans), Timeline(spans), results' = [results EXCEPT ![pc] = r], NEW end \in Nat, opened <= end, NEW x, EndsAt(x, end)
  PROVE  Timeline(spans)'
<1>0. /\ StageAt(spans', pc, x) /\ x.start = opened /\ x.end = end
      /\ \A z \in AllStages, y \in spans' : y.id = <<z, 0>> => (z = pc /\ y = x) \/ (z # pc /\ y \in spans)
      /\ joined' \in {end, joined} /\ joined <= joined' /\ end <= joined'
      /\ (pc = "inventory.reserve" => clock' = 3) /\ (pc # "inventory.reserve" => clock' = joined') /\ opened' = clock'
  BY DEF EndsAt
<1>1. joined \in Nat /\ opened \in Nat /\ clock \in Nat /\ joined' \in Nat /\ joined <= joined' /\ end <= joined'
  BY <1>0 DEF Typed
<1>2. ASSUME NEW z \in AllStages, NEW y, StageAt(spans', z, y)
      PROVE  \/ z = pc /\ y = x
             \/ z # pc /\ StageAt(spans, z, y) /\ results[z] # "" /\ y.start \in Nat /\ y.end \in Nat /\ y.start <= y.end
  <2>1. y.id = <<z, 0>> /\ y \in spans'
    BY <1>2 DEF StageAt
  <2>2. CASE z # pc
    <3>1. y \in spans /\ StageAt(spans, z, y)
      BY <1>0, <2>1, <2>2 DEF StageAt
    <3>2. results[z] # "" /\ StageLike(y, z)
      BY <2>1, <3>1, StageHere
    <3> QED
      BY <2>2, <3>1, <3>2 DEF StageLike, Plain
  <2> QED
    BY <1>0, <2>1, <2>2
<1>3. /\ pc' # "inventory.reserve" /\ (pc' = "fraud.evaluate" <=> pc = "inventory.reserve")
      /\ pc' = "payment.authorize" => pc = "fraud.evaluate"
      /\ pc' = "shipping.create" => pc = "payment.authorize"
  BY NextStage
<1>4. /\ \A s \in AllStages : Rank(pc) < Rank(s) => results[s] = ""
      /\ results["shipping.create"] # "ok"
      /\ pc \in {"inventory.reserve", "fraud.evaluate"} => results["payment.authorize"] = ""
      /\ pc = "payment.authorize" => results["shipping.create"] = ""
  BY StagesToCome
<1>5. opened' = clock' /\ (pc = "inventory.reserve" => clock' = 3) /\ (pc # "inventory.reserve" => clock' = joined')
  BY <1>0
<1>6. 3 <= joined /\ (pc = "inventory.reserve" => joined = 3)
  BY DEF Timeline
<1>7. pc \in {"inventory.reserve", "fraud.evaluate"} => opened = 3
  BY DEF Timeline
<1>8. pc \in AllStages \ {"inventory.reserve", "fraud.evaluate"} => opened = joined /\ joined' = end
  BY <1>0, <1>1 DEF Timeline
<1>9. 3 <= joined' /\ (pc = "inventory.reserve" => joined' = end)
  BY <1>0, <1>1, <1>6, <1>7
<1>10. "answer" \notin AllStages /\ (pc' \in Ended => pc' = "answer") /\ pc' # pc
  <2>1. results'[pc] # ""
    BY DEF Typed, Endings
  <2>2. (Typed /\ Course /\ pc \in AllStages => results[pc] = "")'
    BY FreshStage, PTL
  <2> QED
    BY <1>3, <2>1, <2>2, StageNames DEF Ended
<1>11. ASSUME NEW s \in AllStages, NEW y, StageAt(spans', s, y) PROVE y.end <= joined'
  <2>1. CASE y = x
    BY <1>0, <1>1, <2>1
  <2>2. CASE StageAt(spans, s, y) /\ y.end \in Nat
    <3>1. y.end <= joined
      BY <2>2 DEF Timeline, StageAt
    <3> QED
      BY <1>1, <2>2, <3>1
  <2> QED
    BY <1>2, <1>11, <2>1, <2>2
<1>12. ASSUME NEW s \in {"inventory.reserve", "fraud.evaluate"}, NEW y, StageAt(spans', s, y) PROVE y.start = 3
  <2>1. s \in AllStages
    BY StageNames
  <2>2. CASE y = x /\ s = pc
    BY <1>0, <1>7, <2>2
  <2>3. CASE StageAt(spans, s, y)
    BY <2>3 DEF Timeline, StageAt
  <2> QED
    BY <1>2, <1>12, <2>1, <2>2, <2>3
<1>13. ASSUME NEW s \in AllStages, NEW z \in AllStages, Rank(s) < Rank(z), NEW y, NEW w, StageAt(spans', s, y), StageAt(spans', z, w)
       PROVE  y.end <= w.start
  <2>1. ~(s = pc /\ StageAt(spans, z, w) /\ results[z] # "")
    BY <1>4, <1>13
  <2>2. CASE z = pc /\ w = x
    <3>1. s # pc
      BY <1>13, <2>2, RankIs
    <3>2. StageAt(spans, s, y)
      BY <1>2, <1>13, <3>1
    <3>3. y.end <= joined
      BY <3>2 DEF Timeline, StageAt
    <3>4. pc \notin {"inventory.reserve", "fraud.evaluate"}
      BY <1>13, <2>2, RankIs
    <3> QED
      BY <1>0, <1>8, <2>2, <3>3, <3>4
  <2>3. CASE s # pc /\ z # pc
    <3>1. StageAt(spans, s, y) /\ StageAt(spans, z, w)
      BY <1>2, <1>13, <2>3
    <3> QED
      BY <1>13, <3>1 DEF Timeline, StageAt
  <2>4. CASE s = pc /\ z # pc
    BY <1>2, <1>13, <2>1, <2>4
  <2>5. z = pc => w = x
    BY <1>2, <1>13
  <2> QED
    BY <2>2, <2>3, <2>4, <2>5
<1>14. ASSUME NEW y, StageAt(spans', "inventory.reserve", y), pc' = "fraud.evaluate" PROVE joined' = y.end
  BY <1>0, <1>2, <1>3, <1>9, <1>14, StageNames
<1>15. ASSUME NEW y, NEW w, StageAt(spans', "inventory.reserve", y), StageAt(spans', "fraud.evaluate", w), pc' = "payment.authorize"
       PROVE  joined' \in {y.end, w.end}
  <2>1. pc = "fraud.evaluate" /\ w = x /\ StageAt(spans, "inventory.reserve", y)
    BY <1>2, <1>3, <1>15, StageNames
  <2>2. joined = y.end
    BY <2>1 DEF Timeline, StageAt
  <2> QED
    BY <1>0, <2>1, <2>2
<1>16. ASSUME NEW y, NEW w, NEW v, StageAt(spans', "inventory.reserve", y), StageAt(spans', "fraud.evaluate", w),
              StageAt(spans', "payment.authorize", v)
       PROVE  v.start \in {y.end, w.end}
  <2>1. pc # "inventory.reserve" /\ pc # "fraud.evaluate"
    BY <1>2, <1>4, <1>16, StageNames
  <2>2. StageAt(spans, "inventory.reserve", y) /\ StageAt(spans, "fraud.evaluate", w)
    BY <1>2, <1>16, <2>1, StageNames
  <2>3. CASE pc = "payment.authorize"
    <3>1. v = x /\ opened = joined
      BY <1>2, <1>8, <1>16, <2>3, StageNames
    <3>2. joined \in {y.end, w.end}
      BY <2>2, <2>3 DEF Timeline, StageAt
    <3> QED
      BY <1>0, <3>1, <3>2
  <2>4. CASE pc # "payment.authorize"
    <3>1. StageAt(spans, "payment.authorize", v)
      BY <1>2, <1>16, <2>4, StageNames
    <3> QED
      BY <2>2, <3>1 DEF Timeline, StageAt
  <2> QED
    BY <2>3, <2>4
<1>17. ASSUME NEW y, StageAt(spans', "payment.authorize", y), pc' = "shipping.create" PROVE joined' = y.end
  BY <1>0, <1>2, <1>3, <1>8, <1>17, StageNames
<1>18. ASSUME NEW y, NEW w, StageAt(spans', "payment.authorize", y), StageAt(spans', "shipping.create", w)
       PROVE  w.start = y.end
  <2>1. pc # "payment.authorize"
    BY <1>2, <1>4, <1>18, StageNames
  <2>2. StageAt(spans, "payment.authorize", y)
    BY <1>2, <1>18, <2>1, StageNames
  <2>3. CASE pc = "shipping.create"
    <3>1. w = x /\ opened = joined
      BY <1>2, <1>8, <1>18, <2>3, StageNames
    <3>2. joined = y.end
      BY <2>2, <2>3 DEF Timeline, StageAt
    <3> QED
      BY <1>0, <3>1, <3>2
  <2>4. CASE pc # "shipping.create"
    <3>1. StageAt(spans, "shipping.create", w)
      BY <1>2, <1>18, <2>4, StageNames
    <3> QED
      BY <2>2, <3>1 DEF Timeline, StageAt
  <2> QED
    BY <2>3, <2>4
<1>19. ASSUME NEW y, StageAt(spans', "shipping.create", y), results'["shipping.create"] = "ok" PROVE joined' = y.end
  <2>1. pc = "shipping.create"
    BY <1>4, <1>19, StageNames DEF Typed
  <2> QED
    BY <1>0, <1>2, <1>8, <1>19, <2>1, StageNames
<1>20. pc' \in {"inventory.reserve", "fraud.evaluate"} => opened' = 3
  BY <1>3, <1>5
<1>21. pc' \notin {"inventory.reserve", "fraud.evaluate"} => opened' = joined' /\ clock' = joined'
  BY <1>3, <1>5
<1> QED
  BY <1>3, <1>9, <1>11, <1>12, <1>13, <1>14, <1>15, <1>16, <1>17, <1>18, <1>19, <1>20, <1>21, StageNames DEF Timeline

-----------------------------------------------------------------------------
(* What the services did.                                                   *)

\* The stage whose calls are recorded, its k-th call's record, and whether
\* the k-th call of stage s arrived.
Pay == "payment.authorize"
Recorded(t, k) == \E x \in t : x.id = <<Pay, 9 + k>> /\ x.recorded
Reach(t, s, k) == IF HasId(t, <<s, 9 + k>>) THEN 1 ELSE 0
Record(t, k) == IF Recorded(t, k) THEN 1 ELSE 0
Remembered(r) == IF r = "authorized" THEN 1 ELSE 0

\* The ghost counters and the payment's entry are what the spans tell: one
\* authorization per recorded span, at most one per life of PaymentService, and
\* a success shows either the record or its replay.
Payments(t) ==
    /\ authorized = Record(t, 1) + Record(t, 2) + Record(t, 3)
    /\ authorized <= restarts + Remembered(response)
    /\ response = "authorized" => authorized >= 1
    /\ \A k \in 1..3, x \in t :
         x.id = <<Pay, 9 + k>> /\ x.recorded /\ (pc = Pay \/ HasId(t, <<Pay, k + 1>>)) => x.end = x.start + 15
    /\ results[Pay] = "ok" =>
         authorized >= 1 /\ \A x, y \in t : StageAt(t, Pay, x) /\ y.id = <<Pay, 10 + x.retryCount>> => y.recorded \/ y.replay
    /\ \A s \in AllStages : reached[s] = Reach(t, s, 1) + Reach(t, s, 2) + Reach(t, s, 3)

\* What an attempt with outcome o adds to the services' spans,
ServersAdded(t, o) ==
    /\ \A y \in spans : y.id # <<pc, 10 + attempt>> /\ y.id # <<pc, attempt + 2>>
    /\ Reaches(o) => ServerSpan(pc, o) \in t /\ ServerSpan(pc, o).id = <<pc, 10 + attempt>>
    /\ \A y \in t : y.id # <<pc, attempt + 2>>
    /\ \A s \in AllStages, k \in 1..3, y \in t : y.id = <<s, 9 + k>> =>
         y \in spans \/ (s = pc /\ k = attempt + 1 /\ Reaches(o) /\ y = ServerSpan(pc, o))
    /\ \A s \in AllStages \ {pc}, k \in 0..12, y \in t : y.id = <<s, k>> => y \in spans
    /\ spans \subseteq t

\* The server spans after an attempt.
LEMMA ServersAfter ==
  ASSUME Typed, pc \in AllStages, NEW o \in Outcomes, Running(Of(spans, pc), pc), NEW x, x.id = <<pc, 0>>,
         NEW t, t = MadeBy(o) \/ t = MadeBy(o) \cup {x}
  PROVE  ServersAdded(t, o)
<1> DEFINE c == ClientSpan(pc, o)
<1> DEFINE d == ServerSpan(pc, o)
<1>1. attempt \in 0..2
  BY TypedNumbers
<1>2. c.id = <<pc, attempt + 1>> /\ d.id = <<pc, 10 + attempt>>
  BY DEF ClientSpan, ServerSpan, MakeSpan
<1>3. \A y \in t : y \in spans \/ y = c \/ (y = d /\ Reaches(o)) \/ y = x
  BY DEF MadeBy
<1>4. spans \subseteq t /\ (Reaches(o) => d \in t)
  BY DEF MadeBy
<1>5. Attempted(Of(spans, pc), pc, attempt, opened, clock - 2)
  BY DEF Running
<1> HIDE DEF c, d
<1>6. ASSUME NEW y \in spans, y.id = <<pc, 10 + attempt>> \/ y.id = <<pc, attempt + 2>> PROVE FALSE
  <2>1. y \in Of(spans, pc)
    BY <1>6 DEF Of
  <2>2. PICK k \in 1..attempt : y.id = <<pc, k>> \/ y.id = <<pc, 9 + k>>
    BY <1>5, <2>1 DEF Attempted, ClientLike, ServerLike
  <2> QED
    BY <1>1, <1>6, <2>2
<1>7. \A y \in t : y.id # <<pc, attempt + 2>>
  BY <1>1, <1>2, <1>3, <1>6
<1>8. ASSUME NEW s \in AllStages, NEW k \in 1..3, NEW y \in t, y.id = <<s, 9 + k>>, y \notin spans
      PROVE  s = pc /\ k = attempt + 1 /\ Reaches(o) /\ y = d
  BY <1>1, <1>2, <1>3, <1>8
<1>9. ASSUME NEW s \in AllStages \ {pc}, NEW k \in 0..12, NEW y \in t, y.id = <<s, k>>
      PROVE  y \in spans
  BY <1>2, <1>3, <1>9
<1> QED
  BY <1>2, <1>4, <1>6, <1>7, <1>8, <1>9 DEF d, ServersAdded

\* to the calls that arrived,
ReachAdded(t, o) ==
    /\ \A s \in AllStages, k \in 1..3 : s # pc \/ k # attempt + 1 \/ ~Reaches(o) => Reach(t, s, k) = Reach(spans, s, k)
    /\ Reach(spans, pc, attempt + 1) = 0
    /\ Reaches(o) => Reach(t, pc, attempt + 1) = 1

\* What an attempt adds is counted once.
LEMMA ReachAfter ==
  ASSUME Typed, pc \in AllStages, NEW o \in Outcomes, Running(Of(spans, pc), pc), NEW x, x.id = <<pc, 0>>,
         NEW t, t = MadeBy(o) \/ t = MadeBy(o) \cup {x}
  PROVE  ReachAdded(t, o)
<1>0. ServersAdded(t, o)
  BY ServersAfter
<1>1. attempt \in 0..2 /\ 9 + (attempt + 1) = 10 + attempt
  BY TypedNumbers
<1>2. ASSUME NEW s \in AllStages, NEW k \in 1..3, s # pc \/ k # attempt + 1 \/ ~Reaches(o)
      PROVE  HasId(t, <<s, 9 + k>>) <=> HasId(spans, <<s, 9 + k>>)
  BY <1>2, <1>0 DEF ServersAdded, HasId
<1>3. ~HasId(spans, <<pc, 9 + (attempt + 1)>>)
  BY <1>1, <1>0 DEF ServersAdded, HasId
<1>4. Reaches(o) => HasId(t, <<pc, 9 + (attempt + 1)>>)
  BY <1>1, <1>0 DEF ServersAdded, HasId
<1> QED
  BY <1>2, <1>3, <1>4 DEF Reach, ReachAdded

\* and to the authorizations recorded.
RecordAdded(t, o) ==
    /\ \A k \in 1..3 : pc # Pay \/ k # attempt + 1 => Record(t, k) = Record(spans, k)
    /\ pc = Pay => Record(spans, attempt + 1) = 0 /\ Record(t, attempt + 1) = IF Records(pc, o) THEN 1 ELSE 0

LEMMA RecordAfter ==
  ASSUME Typed, pc \in AllStages, NEW o \in Outcomes, Running(Of(spans, pc), pc), NEW x, x.id = <<pc, 0>>,
         NEW t, t = MadeBy(o) \/ t = MadeBy(o) \cup {x}
  PROVE  RecordAdded(t, o)
<1>0. ServersAdded(t, o)
  BY ServersAfter
<1>1. attempt \in 0..2 /\ 9 + (attempt + 1) = 10 + attempt
  BY TypedNumbers
<1>2. Pay \in AllStages
  BY StageNames DEF Pay
<1>3. ASSUME NEW k \in 1..3, pc # Pay \/ k # attempt + 1
      PROVE  Recorded(t, k) <=> Recorded(spans, k)
  BY <1>2, <1>3, <1>0 DEF ServersAdded, Recorded
<1>4. pc = Pay => ~Recorded(spans, attempt + 1)
  BY <1>1, <1>0 DEF ServersAdded, Recorded
<1>5. ServerSpan(pc, o).recorded = Records(pc, o)
  BY DEF ServerSpan, MakeSpan
<1>6. Records(pc, o) => Reaches(o)
  BY DEF Records, Reaches
<1>7. ASSUME pc = Pay, Records(pc, o) PROVE Recorded(t, attempt + 1)
  <2>1. ServerSpan(pc, o) \in t /\ ServerSpan(pc, o).id = <<Pay, 9 + (attempt + 1)>>
    BY <1>1, <1>6, <1>7, <1>0 DEF ServersAdded
  <2> QED
    BY <1>5, <1>7, <2>1 DEF Recorded
<1>8. ASSUME pc = Pay, ~Records(pc, o) PROVE ~Recorded(t, attempt + 1)
  <2> SUFFICES ASSUME NEW y \in t, y.id = <<Pay, 9 + (attempt + 1)>> PROVE ~y.recorded
    BY DEF Recorded
  <2>1. y = ServerSpan(pc, o)
    <3>1. attempt + 1 \in 1..3 /\ y \notin spans
      BY <1>1, <1>8, <1>0 DEF ServersAdded
    <3> QED
      BY <1>2, <3>1, <1>0 DEF ServersAdded
  <2> QED
    BY <1>5, <1>8, <2>1
<1> QED
  BY <1>3, <1>4, <1>7, <1>8 DEF Record, RecordAdded

\* What an attempt leaves in the books, and what comes after it.
Booked(o) ==
    /\ Records(pc, o) => authorized' = authorized + 1 /\ response' = "authorized"
    /\ ~Records(pc, o) => authorized' = authorized
    /\ ~Records(pc, o) => response' = response \/ (pc = Pay /\ o = "rejected" /\ response' = "declined")
    /\ Reaches(o) => reached' = [reached EXCEPT ![pc] = @ + 1]
    /\ ~Reaches(o) => reached' = reached
    /\ restarts' = restarts

\* The end of a stage with outcome o and span x.
GoneOn(o, x) ==
    /\ x.id = <<pc, 0>> /\ x.retryCount = attempt
    /\ \/ spans' = MadeBy(o) /\ pc' = pc /\ results' = results /\ ShouldRetry(o)
       \/ /\ spans' = MadeBy(o) \cup {x} /\ pc' # pc /\ (pc' = Pay => results[Pay] = "")
          /\ results' = [results EXCEPT ![pc] = ResultOf(o)]

\* The books after an attempt, whether it is tried again or the last one.
LEMMA PaymentsAfter ==
  ASSUME Typed, pc \in AllStages, NEW o \in Outcomes, Kept(spans), Payments(spans), Meets(pc, o),
         NEW x, GoneOn(o, x), Booked(o)
  PROVE  Payments(spans)'
<1>1. attempt \in 0..2 /\ attempt + 1 \in 1..3
  <2>1. attempt \in 0..2
    BY TypedNumbers
  <2> QED
    BY <2>1
<1>2. Pay \in AllStages /\ pc \in AllStages
  BY StageNames DEF Pay
<1>3. spans' \in {MadeBy(o), MadeBy(o) \cup {x}} /\ x.id = <<pc, 0>>
  BY DEF GoneOn
<1>4. Running(Of(spans, pc), pc) /\ results[pc] = ""
  BY DEF Kept
<1>pre. /\ Typed /\ pc \in AllStages /\ o \in Outcomes /\ Running(Of(spans, pc), pc) /\ x.id = <<pc, 0>>
        /\ spans' = MadeBy(o) \/ spans' = MadeBy(o) \cup {x}
  BY <1>3, <1>4
<1>a. ServersAdded(spans', o)
  BY ONLY <1>pre, ServersAfter
<1>b. ReachAdded(spans', o)
  BY ONLY <1>pre, ReachAfter
<1>c. RecordAdded(spans', o)
  BY ONLY <1>pre, RecordAfter
<1>5. authorized \in Nat /\ restarts \in Nat /\ reached \in [AllStages -> Nat] /\ response \in {"none", "authorized", "declined"}
  <2>1. \A n \in 0..Restarts : n \in Nat
    OBVIOUS
  <2> QED
    BY <2>1 DEF Typed
<1>6. Records(pc, o) <=> pc = Pay /\ response = "none" /\ o \in {"ok", "slow", "late"}
  BY DEF Records, Pay
<1>7. \A s \in AllStages, k \in 1..3 : Reach(spans, s, k) \in {0, 1} /\ Record(spans, k) \in {0, 1}
  BY DEF Reach, Record
<1>8. authorized' = Record(spans', 1) + Record(spans', 2) + Record(spans', 3)
  <2>0. authorized = Record(spans, 1) + Record(spans, 2) + Record(spans, 3)
    BY DEF Payments
  <2>1. /\ \A k \in 1..3 : pc # Pay \/ k # attempt + 1 => Record(spans', k) = Record(spans, k)
        /\ pc = Pay => Record(spans, attempt + 1) = 0 /\ Record(spans', attempt + 1) = IF Records(pc, o) THEN 1 ELSE 0
    BY <1>3, <1>4, <1>c DEF RecordAdded
  <2>2. CASE pc # Pay
    BY <1>6, <2>0, <2>1, <2>2 DEF Booked
  <2>3. CASE pc = Pay /\ ~Records(pc, o)
    <3>1. \A k \in 1..3 : Record(spans', k) = Record(spans, k)
      BY <1>1, <2>1, <2>3
    <3> QED
      BY <2>0, <2>3, <3>1 DEF Booked
  <2>4. CASE pc = Pay /\ Records(pc, o)
    <3>1. Record(spans, attempt + 1) = 0 /\ Record(spans', attempt + 1) = 1 /\ authorized' = authorized + 1
      BY <2>1, <2>4 DEF Booked
    <3>2. attempt + 1 = 1 \/ attempt + 1 = 2 \/ attempt + 1 = 3
      BY <1>1
    <3> QED
      BY <1>2, <1>7, <2>0, <2>1, <3>1, <3>2
  <2> QED
    BY <2>2, <2>3, <2>4
<1>9. authorized' <= restarts' + Remembered(response') /\ (response' = "authorized" => authorized' >= 1)
  <2>1. authorized <= restarts + Remembered(response) /\ (response = "authorized" => authorized >= 1)
    BY DEF Payments
  <2>2. CASE Records(pc, o)
    BY <1>5, <1>6, <2>1, <2>2 DEF Remembered, Booked
  <2>3. CASE ~Records(pc, o) /\ response' = response
    BY <2>1, <2>3 DEF Booked
  <2>4. CASE ~Records(pc, o) /\ pc = Pay /\ o = "rejected" /\ response' = "declined"
    <3>1. response # "authorized"
      BY <2>4 DEF Meets, Pay
    <3> QED
      BY <1>5, <2>1, <2>4, <3>1 DEF Remembered, Booked
  <2> QED
    BY <2>2, <2>3, <2>4 DEF Booked
<1>10. ASSUME NEW k \in 1..3, NEW y \in spans', y.id = <<Pay, 9 + k>>, y.recorded, pc' = Pay \/ HasId(spans', <<Pay, k + 1>>)
       PROVE  y.end = y.start + 15
  <2>1. CASE pc = Pay
    <3>1. CASE y \in spans
      BY <1>10, <2>1, <3>1 DEF Payments
    <3>2. CASE y \notin spans
      <4>1. k = attempt + 1 /\ y = ServerSpan(pc, o)
        BY <1>2, <1>3, <1>4, <1>10, <3>2, <1>a DEF ServersAdded
      <4>2. Records(pc, o) /\ y.start = clock /\ y.end = clock + Ticks(pc, o)
        BY <1>10, <4>1 DEF ServerSpan, MakeSpan
      <4>3. pc' = Pay
        <5>1. k + 1 = attempt + 2
          BY <1>1, <4>1
        <5>2. ~HasId(spans', <<Pay, k + 1>>)
          BY <1>3, <1>4, <2>1, <5>1, <1>a DEF ServersAdded, HasId
        <5> QED
          BY <1>10, <5>2
      <4>4. o = "late"
        BY <1>6, <2>1, <4>2, <4>3 DEF GoneOn, ShouldRetry, TimesOut
      <4>5. Ticks(pc, o) = 15
        BY <2>1, <4>4, ProfileIs DEF Ticks, TimesOut, Pay
      <4> QED
        BY <4>2, <4>5
    <3> QED
      BY <3>1, <3>2
  <2>2. CASE pc # Pay
    <3>1. y \in spans
      BY <1>2, <1>3, <1>4, <1>10, <2>2, <1>a DEF ServersAdded
    <3>2. pc' # Pay
      <4>1. ASSUME results[Pay] = "" PROVE FALSE
        <5>1. Of(spans, Pay) = {}
          BY <1>2, <2>2, <4>1 DEF Kept
        <5> QED
          BY <1>10, <3>1, <5>1 DEF Of
      <4> QED
        BY <2>2, <4>1 DEF GoneOn
    <3>3. PICK z \in spans' : z.id = <<Pay, k + 1>>
      BY <1>10, <3>2 DEF HasId
    <3>4. z \in spans
      <4>1. k + 1 \in 0..12
        OBVIOUS
      <4> QED
        BY <1>2, <1>3, <1>4, <2>2, <3>3, <4>1, <1>a DEF ServersAdded
    <3> QED
      BY <1>10, <3>1, <3>3, <3>4 DEF Payments, HasId
  <2> QED
    BY <2>1, <2>2
<1>11. ASSUME results'[Pay] = "ok"
       PROVE  /\ authorized' >= 1
              /\ \A y, z \in spans' : StageAt(spans', Pay, y) /\ z.id = <<Pay, 10 + y.retryCount>> => z.recorded \/ z.replay
  <2>1. CASE pc = Pay
    <3>1. /\ spans' = MadeBy(o) \cup {x} /\ ResultOf(o) = "ok"
      BY <1>4, <1>11, <2>1 DEF Typed, GoneOn
    <3>2. o \in {"ok", "slow"}
      BY <3>1 DEF ResultOf, Outcomes
    <3>3. Records(pc, o) \/ (Replays(pc, o) /\ response = "authorized")
      BY <1>5, <1>6, <2>1, <3>2 DEF Meets, Replays, Pay
    <3>4. authorized' >= 1
      BY <1>5, <3>3 DEF Payments, Booked
    <3>5. ASSUME NEW y \in spans', NEW z \in spans', StageAt(spans', Pay, y), z.id = <<Pay, 10 + y.retryCount>>
          PROVE  z.recorded \/ z.replay
      <4>1. y = x
        <5>1. y \notin spans
          <6>1. \A w \in spans : w.id # <<pc, 0>>
            BY <1>2, <1>4, StageHere
          <6> QED
            BY <2>1, <3>5, <6>1 DEF StageAt
        <5>2. y \notin MadeBy(o)
          <6>1. ClientSpan(pc, o).id = <<pc, attempt + 1>> /\ ServerSpan(pc, o).id = <<pc, 10 + attempt>>
            BY DEF ClientSpan, ServerSpan, MakeSpan
          <6>2. y.id = <<pc, 0>>
            BY <2>1, <3>5 DEF StageAt
          <6>3. y # ClientSpan(pc, o) /\ y # ServerSpan(pc, o)
            BY <1>1, <6>1, <6>2
          <6> QED
            BY <5>1, <6>3 DEF MadeBy
        <5> QED
          BY <3>1, <5>2
      <4>2. z.id = <<pc, 10 + attempt>> /\ z.id = <<pc, 9 + (attempt + 1)>>
        <5>1. x.retryCount = attempt
          BY DEF GoneOn
        <5>2. 10 + attempt = 9 + (attempt + 1)
          BY <1>1
        <5>3. z.id = <<pc, 10 + x.retryCount>>
          BY <2>1, <3>5, <4>1
        <5> QED
          BY <5>1, <5>2, <5>3
      <4>3. z \notin spans
        BY <1>3, <1>4, <4>2, <1>a DEF ServersAdded
      <4>4. z = ServerSpan(pc, o)
        BY <1>1, <1>3, <1>4, <4>2, <4>3, <1>a DEF ServersAdded
      <4> QED
        BY <3>3, <4>4 DEF ServerSpan, MakeSpan
    <3> QED
      BY <3>4, <3>5
  <2>2. CASE pc # Pay
    <3>1. results[Pay] = "ok"
      BY <1>2, <1>11, <2>2 DEF Typed, GoneOn
    <3>2. authorized >= 1 /\ authorized' = authorized
      BY <1>6, <2>2, <3>1 DEF Payments, Booked
    <3>3. ASSUME NEW y \in spans', NEW z \in spans', StageAt(spans', Pay, y), z.id = <<Pay, 10 + y.retryCount>>
          PROVE  z.recorded \/ z.replay
      <4>1. y \in spans /\ StageAt(spans, Pay, y)
        <5>1. y \in spans' /\ y.id = <<Pay, 0>> /\ 0 \in 0..12
          BY <3>3 DEF StageAt
        <5>2. y \in spans
          BY <1>2, <2>2, <5>1, <1>a DEF ServersAdded
        <5> QED
          BY <5>1, <5>2 DEF StageAt
      <4>2. PICK m \in 0..3 : Closed(Of(spans, Pay), Pay, results[Pay], y, m)
        BY <1>2, <4>1, StageHere DEF StageAt
      <4>3. y.retryCount \in 0..2
        BY <4>2 DEF Closed
      <4>4. 10 + y.retryCount \in 0..12
        BY <4>3
      <4>5. z \in spans
        BY <1>2, <1>3, <1>4, <2>2, <3>3, <4>4, <1>a DEF ServersAdded
      <4> QED
        BY <3>1, <3>3, <4>1, <4>5 DEF Payments
    <3> QED
      BY <3>2, <3>3
  <2> QED
    BY <2>1, <2>2
<1>12. ASSUME NEW s \in AllStages
       PROVE  reached'[s] = Reach(spans', s, 1) + Reach(spans', s, 2) + Reach(spans', s, 3)
  <2>0. reached[s] = Reach(spans, s, 1) + Reach(spans, s, 2) + Reach(spans, s, 3)
    BY DEF Payments
  <2>1. /\ \A k \in 1..3 : s # pc \/ k # attempt + 1 \/ ~Reaches(o) => Reach(spans', s, k) = Reach(spans, s, k)
        /\ Reach(spans, pc, attempt + 1) = 0
        /\ Reaches(o) => Reach(spans', pc, attempt + 1) = 1
    BY <1>3, <1>4, <1>b DEF ReachAdded
  <2>2. CASE s # pc \/ ~Reaches(o)
    <3>1. reached'[s] = reached[s]
      BY <1>5, <2>2 DEF Booked
    <3>2. \A k \in 1..3 : Reach(spans', s, k) = Reach(spans, s, k)
      BY <2>1, <2>2
    <3> QED
      BY <2>0, <3>1, <3>2
  <2>3. CASE s = pc /\ Reaches(o)
    <3>1. reached'[s] = reached[s] + 1
      BY <1>5, <2>3 DEF Booked
    <3>2. attempt + 1 = 1 \/ attempt + 1 = 2 \/ attempt + 1 = 3
      BY <1>1
    <3> QED
      BY <1>7, <2>0, <2>1, <2>3, <3>1, <3>2
  <2> QED
    BY <2>2, <2>3
<1> QED
  BY <1>8, <1>9, <1>10, <1>11, <1>12 DEF Payments

-----------------------------------------------------------------------------
(* An order from its first stage to its answer.                             *)

\* An attempt that will be repeated.
Again(o) ==
    /\ ShouldRetry(o) /\ attempt + 1 < Profile[pc].max /\ spans' = MadeBy(o) /\ attempt' = attempt + 1
    /\ clock' = (clock + Ticks(pc, o)) + Backoff /\ UNCHANGED <<pc, path, undo, results, opened, joined>>

\* An attempt that ends its stage.
LastOne(o) ==
    /\ ~(ShouldRetry(o) /\ attempt + 1 < Profile[pc].max)
    /\ spans' = MadeBy(o) \cup {StageSpan(pc, ResultOf(o), clock + Ticks(pc, o))}
    /\ results' = [results EXCEPT ![pc] = ResultOf(o)] /\ After(pc, ResultOf(o))
    /\ joined' = IF clock + Ticks(pc, o) > joined THEN clock + Ticks(pc, o) ELSE joined
    /\ clock' = (IF pc = "inventory.reserve" THEN 3 ELSE joined')
    /\ opened' = clock' /\ attempt' = 0

\* An attempt is repeated or ends its stage, and is booked either way.
LEMMA TryIs ==
  ASSUME NEW o \in Outcomes, Try(o), Typed
  PROVE  /\ pc \in AllStages /\ Meets(pc, o) /\ Booked(o) /\ UNCHANGED <<restarts, damage>>
         /\ Again(o) \/ LastOne(o)
<1>1. /\ pc \in AllStages /\ Meets(pc, o) /\ UNCHANGED <<restarts, damage>>
  BY DEF Try
<1>2. Again(o) \/ LastOne(o)
  <2>1. CASE ShouldRetry(o) /\ attempt + 1 < Profile[pc].max
    BY <2>1, Zenon DEF Try, Again, MadeBy
  <2>2. CASE ~(ShouldRetry(o) /\ attempt + 1 < Profile[pc].max)
    BY <2>2, Zenon DEF Try, LastOne, MadeBy
  <2> QED
    BY <2>1, <2>2
<1>3. /\ authorized' = authorized + (IF Records(pc, o) THEN 1 ELSE 0)
      /\ response' = (IF Records(pc, o) THEN "authorized"
                     ELSE IF pc = "payment.authorize" /\ o = "rejected" THEN "declined" ELSE response)
      /\ reached' = [reached EXCEPT ![pc] = @ + (IF Reaches(o) THEN 1 ELSE 0)]
  BY DEF Try
<1>4. authorized \in Nat /\ reached \in [AllStages -> Nat]
  BY DEF Typed
<1>5. Records(pc, o) => authorized' = authorized + 1 /\ response' = "authorized"
  BY <1>3
<1>6. ~Records(pc, o) => authorized' = authorized
  BY <1>3, <1>4
<1>7. ~Records(pc, o) => response' = response \/ (pc = Pay /\ o = "rejected" /\ response' = "declined")
  BY <1>3 DEF Pay
<1>8. Reaches(o) => reached' = [reached EXCEPT ![pc] = @ + 1]
  BY <1>3
<1>9. ~Reaches(o) => reached' = reached
  BY <1>1, <1>3, <1>4
<1> QED
  BY <1>1, <1>2, <1>5, <1>6, <1>7, <1>8, <1>9 DEF Booked

\* Everything the spans of the stages say.
Logged(t) == Kept(t) /\ Strangers(t) /\ Timeline(t) /\ Payments(t)

\* An attempt keeps the types.
LEMMA TypedAfter ==
  ASSUME Typed, pc \in AllStages, NEW o \in Outcomes, Booked(o), damage' = damage, pc' \in AllStages \cup Ended,
         attempt' \in 0..2, clock' \in Nat, opened' \in Nat, joined' \in Nat, results' \in [AllStages -> Endings \cup {""}]
  PROVE  Typed'
<1>0. \A n \in Nat : n + 1 \in Nat
  BY NextNumber
<1>1. authorized' \in Nat /\ response' \in {"none", "authorized", "declined"} /\ restarts' \in 0..Restarts
  <2>1. authorized \in Nat /\ response \in {"none", "authorized", "declined"} /\ restarts \in 0..Restarts
    BY DEF Typed
  <2>2. CASE Records(pc, o)
    <3>1. authorized' = authorized + 1 /\ response' = "authorized" /\ restarts' = restarts
      BY <2>2 DEF Booked
    <3>2. authorized + 1 \in Nat
      BY <1>0, <2>1
    <3> QED
      BY <2>1, <3>1, <3>2
  <2>3. CASE ~Records(pc, o)
    BY <2>1, <2>3 DEF Booked
  <2> QED
    BY <2>2, <2>3
<1>2. reached' \in [AllStages -> Nat]
  <2>1. reached \in [AllStages -> Nat]
    BY DEF Typed
  <2>2. CASE Reaches(o)
    <3>1. reached' = [reached EXCEPT ![pc] = @ + 1]
      BY <2>2 DEF Booked
    <3>2. reached[pc] + 1 \in Nat
      BY <1>0, <2>1
    <3> QED
      BY <2>1, <3>1, <3>2
  <2>3. CASE ~Reaches(o)
    BY <2>1, <2>3 DEF Booked
  <2> QED
    BY <2>2, <2>3
<1>3. damage' \in {"none", "lost", "batch", "attribute"}
  BY DEF Typed
<1> QED
  BY <1>1, <1>2, <1>3 DEF Typed

\* A repeated attempt keeps the order of events.
LEMMA TimelineAgain ==
  ASSUME Typed, NEW o \in Outcomes, Timeline(spans), Again(o), pc \in AllStages
  PROVE  Timeline(spans)'
<1>1. spans' = MadeBy(o) /\ pc' = pc /\ results' = results /\ opened' = opened /\ joined' = joined
  BY DEF Again
<1>2. attempt \in 0..2
  BY TypedNumbers
<1>3. ClientSpan(pc, o).id = <<pc, attempt + 1>> /\ ServerSpan(pc, o).id = <<pc, 10 + attempt>>
  BY DEF ClientSpan, ServerSpan, MakeSpan
<1>4. \A s \in AllStages : ClientSpan(pc, o).id # <<s, 0>> /\ ServerSpan(pc, o).id # <<s, 0>>
  BY <1>2, <1>3
<1>5. \A s \in AllStages : \A x : StageAt(spans', s, x) <=> StageAt(spans, s, x)
  BY <1>1, <1>4 DEF StageAt, MadeBy
<1>6. pc \notin Ended /\ pc' \notin Ended
  BY <1>1, StageNames
<1>7. \A t, s, x : StageAt(t, s, x) => x \in t
  BY DEF StageAt
<1>8. spans \subseteq spans'
  BY <1>1 DEF MadeBy
<1>9. 3 <= joined' /\ (pc' = "inventory.reserve" => joined' = 3)
  BY <1>1 DEF Timeline
<1>10. /\ pc' \in {"inventory.reserve", "fraud.evaluate"} => opened' = 3
       /\ pc' \in AllStages \ {"inventory.reserve", "fraud.evaluate"} => opened' = joined'
  BY <1>1 DEF Timeline
<1>11. \A s \in AllStages, x \in spans' : StageAt(spans', s, x) => x.end <= joined'
  BY <1>1, <1>5, <1>7 DEF Timeline
<1>12. \A s \in {"inventory.reserve", "fraud.evaluate"}, x \in spans' : StageAt(spans', s, x) => x.start = 3
  BY <1>5, <1>7, StageNames DEF Timeline
<1>13. \A s, z \in AllStages : Rank(s) < Rank(z) =>
         \A x, y \in spans' : StageAt(spans', s, x) /\ StageAt(spans', z, y) => x.end <= y.start
  BY <1>5, <1>7 DEF Timeline
<1>14. \A x \in spans' : StageAt(spans', "inventory.reserve", x) /\ pc' = "fraud.evaluate" => joined' = x.end
  BY <1>1, <1>5, <1>7, StageNames DEF Timeline
<1>15. \A x, y \in spans' : StageAt(spans', "inventory.reserve", x) /\ StageAt(spans', "fraud.evaluate", y) =>
         /\ pc' = "payment.authorize" => joined' \in {x.end, y.end}
         /\ \A z \in spans' : StageAt(spans', "payment.authorize", z) => z.start \in {x.end, y.end}
  BY <1>1, <1>5, <1>7, StageNames DEF Timeline
<1>16. \A x \in spans' : StageAt(spans', "payment.authorize", x) =>
         /\ pc' = "shipping.create" => joined' = x.end
         /\ \A z \in spans' : StageAt(spans', "shipping.create", z) => z.start = x.end
  BY <1>1, <1>5, <1>7, StageNames DEF Timeline
<1>17. \A x \in spans' : StageAt(spans', "shipping.create", x) /\ results'["shipping.create"] = "ok" => joined' = x.end
  BY <1>1, <1>5, <1>7, StageNames DEF Timeline
<1> QED
  BY <1>6, <1>9, <1>10, <1>11, <1>12, <1>13, <1>14, <1>15, <1>16, <1>17 DEF Timeline

\* A repeated attempt keeps everything.
LEMMA AgainKeeps ==
  ASSUME Typed, Course, NEW o \in Outcomes, pc \in AllStages, Logged(spans), Meets(pc, o), Booked(o),
         UNCHANGED <<restarts, damage>>, Again(o)
  PROVE  Typed' /\ Course' /\ Logged(spans)' /\ pc' = pc
<1>1. attempt \in 0..2 /\ clock \in Nat /\ Ticks(pc, o) \in Nat /\ opened \in Nat /\ joined \in Nat
  <2>1. attempt \in 0..2 /\ clock \in Nat /\ opened \in Nat /\ joined \in Nat
    BY TypedNumbers
  <2> QED
    BY <2>1, OutcomeIs
<1>2. Kept(spans) /\ Strangers(spans) /\ Timeline(spans) /\ Payments(spans)
  BY DEF Logged
<1>3. /\ ShouldRetry(o) /\ attempt + 1 < Profile[pc].max /\ spans' = MadeBy(o) /\ attempt' = attempt + 1
      /\ clock' = (clock + Ticks(pc, o)) + Backoff /\ UNCHANGED <<pc, path, undo, results, opened, joined>>
  BY DEF Again
<1>4. Profile[pc].max \in {2, 3}
  BY ProfileIs
<1>5. attempt' \in 0..2 /\ clock' \in Nat
  BY <1>1, <1>3, <1>4 DEF Backoff
<1>6. Typed'
  <2>1. /\ pc' \in AllStages \cup Ended /\ opened' \in Nat /\ joined' \in Nat
        /\ results' \in [AllStages -> Endings \cup {""}] /\ damage' = damage
    BY <1>1, <1>3 DEF Typed
  <2> QED
    BY <1>5, <2>1, TypedAfter
<1>7. Course'
  BY <1>3 DEF Course, GoesWell, FailedAt, Voids, Releases
<1>8. Kept(spans)' /\ Strangers(spans)'
  BY <1>2, <1>3, KeptTryingAgain
<1>9. Timeline(spans)'
  BY <1>2, TimelineAgain
<1>10. Payments(spans)'
  <2>1. PICK x : x = StageSpan(pc, "", 0)
    OBVIOUS
  <2>2. x.id = <<pc, 0>> /\ x.retryCount = attempt
    BY <2>1 DEF StageSpan, MakeSpan
  <2>3. GoneOn(o, x)
    BY <1>3, <2>2 DEF GoneOn
  <2> QED
    BY <1>2, <2>3, PaymentsAfter
<1> QED
  BY <1>3, <1>6, <1>7, <1>8, <1>9, <1>10 DEF Logged

\* The end of a stage keeps everything.
LEMMA LastOneKeeps ==
  ASSUME Typed, Course, NEW o \in Outcomes, pc \in AllStages, Logged(spans), Meets(pc, o), Booked(o),
         UNCHANGED <<restarts, damage>>, LastOne(o)
  PROVE  Typed' /\ Course' /\ Logged(spans)' /\ pc' \in AllStages \cup {"answer"}
<1> DEFINE end == clock + Ticks(pc, o)
<1>1. attempt \in 0..2 /\ clock \in Nat /\ Ticks(pc, o) \in Nat /\ opened \in Nat /\ joined \in Nat
  <2>1. attempt \in 0..2 /\ clock \in Nat /\ opened \in Nat /\ joined \in Nat
    BY TypedNumbers
  <2> QED
    BY <2>1, OutcomeIs
<1>2. Kept(spans) /\ Strangers(spans) /\ Timeline(spans) /\ Payments(spans)
  BY DEF Logged
<1>3. /\ ~(ShouldRetry(o) /\ attempt + 1 < Profile[pc].max)
      /\ spans' = MadeBy(o) \cup {StageSpan(pc, ResultOf(o), clock + Ticks(pc, o))}
      /\ results' = [results EXCEPT ![pc] = ResultOf(o)] /\ After(pc, ResultOf(o))
      /\ opened' = clock' /\ attempt' = 0
  BY DEF LastOne
<1>4. end \in Nat /\ opened <= end
  <2>1. opened <= clock
    BY <1>2 DEF Kept, Running
  <2> QED
    BY <1>1, <2>1
<1>5. /\ joined' = IF end > joined THEN end ELSE joined
      /\ clock' = (IF pc = "inventory.reserve" THEN 3 ELSE joined')
  BY DEF LastOne
<1>6. ResultOf(o) \in Endings
  BY OutcomeIs
<1>7. Course' /\ pc' \in AllStages \cup {"answer"}
  BY <1>3, <1>6, CourseAfter
<1> HIDE DEF end
<1>8. joined' \in {end, joined} /\ joined <= joined' /\ end <= joined' /\ joined' \in Nat
  BY <1>1, <1>4, <1>5
<1>9. (pc = "inventory.reserve" => clock' = 3) /\ (pc # "inventory.reserve" => clock' = joined')
  BY <1>5
<1>10. Typed'
  <2>1. clock' \in Nat /\ opened' \in Nat /\ attempt' \in 0..2
    BY <1>3, <1>8, <1>9
  <2>2. results' \in [AllStages -> Endings \cup {""}] /\ damage' = damage /\ pc' \in AllStages \cup Ended
    BY <1>3, <1>6, <1>7 DEF Typed, Ended
  <2> QED
    BY <1>8, <2>1, <2>2, TypedAfter
<1>11. Kept(spans)' /\ Strangers(spans)'
  BY <1>2, <1>3, <1>7, <1>10, KeptAfter
<1>12. PICK x : x = StageSpan(pc, ResultOf(o), end)
  OBVIOUS
<1>13. x.id = <<pc, 0>> /\ x.retryCount = attempt /\ x.start = opened /\ x.end = end
  BY <1>12 DEF StageSpan, MakeSpan
<1>14. spans' = MadeBy(o) \cup {x}
  BY <1>3, <1>12 DEF end
<1>15. results[pc] = "" /\ results'[pc] # ""
  <2>1. results[pc] = ""
    BY FreshStage
  <2>2. results'[pc] = ResultOf(o)
    BY <1>3 DEF Typed
  <2> QED
    BY <1>6, <2>1, <2>2 DEF Endings
<1>16. pc' # pc /\ \A z \in AllStages : z = pc' => results[z] = ""
  <2>1. (Typed /\ Course /\ pc \in AllStages => results[pc] = "")'
    BY FreshStage, PTL
  <2>2. pc' \in AllStages => results'[pc'] = ""
    BY <1>7, <1>10, <2>1
  <2>3. pc' # pc
    BY <1>15, <2>2
  <2>4. \A z \in AllStages : z # pc => results'[z] = results[z]
    BY <1>3 DEF Typed
  <2> QED
    BY <2>2, <2>3, <2>4
<1>17. Timeline(spans)'
  <2>1. StageAt(spans', pc, x)
    BY <1>13, <1>14 DEF StageAt
  <2>2. ASSUME NEW z \in AllStages, NEW y \in spans', y.id = <<z, 0>>
        PROVE  (z = pc /\ y = x) \/ (z # pc /\ y \in spans)
    <3>1. ClientSpan(pc, o).id = <<pc, attempt + 1>> /\ ServerSpan(pc, o).id = <<pc, 10 + attempt>>
      BY DEF ClientSpan, ServerSpan, MakeSpan
    <3>2. y # ClientSpan(pc, o) /\ y # ServerSpan(pc, o)
      BY <1>1, <2>2, <3>1
    <3>3. y \in spans \/ y = x
      BY <1>14, <3>2 DEF MadeBy
    <3>4. CASE y \in spans
      <4>1. results[z] # ""
        BY <1>2, <2>2, <3>4, StageHere
      <4> QED
        BY <1>15, <3>4, <4>1
    <3>5. CASE y = x
      BY <1>13, <2>2, <3>5
    <3> QED
      BY <3>3, <3>4, <3>5
  <2>3. /\ Typed /\ Course /\ pc \in AllStages /\ ResultOf(o) \in Endings /\ After(pc, ResultOf(o)) /\ Course' /\ Typed'
        /\ pc' \in AllStages \cup {"answer"} /\ Kept(spans) /\ Timeline(spans) /\ results' = [results EXCEPT ![pc] = ResultOf(o)]
        /\ opened' = clock'
    BY <1>2, <1>3, <1>6, <1>7, <1>10
  <2>4. EndsAt(x, end)
    BY <1>3, <1>8, <1>9, <1>13, <2>1, <2>2 DEF EndsAt
  <2> QED
    BY ONLY <1>4, <2>3, <2>4, TimelineAfter
<1>18. Payments(spans)'
  <2>1. pc' = Pay => results[Pay] = ""
    BY <1>16, StageNames DEF Pay
  <2>2. GoneOn(o, x)
    BY <1>3, <1>13, <1>14, <1>16, <2>1 DEF GoneOn
  <2> QED
    BY <1>2, <2>2, PaymentsAfter
<1> QED
  BY <1>7, <1>10, <1>11, <1>17, <1>18 DEF Logged

-----------------------------------------------------------------------------
(* The stored trace of an order.                                            *)

\* The order service's span of the request.
ServerSpanOf == MakeSpan(<<"order.server", 0>>, <<"kong.balancer", 0>>, OrderService, "POST /orders", "SERVER", 1, clock + 1)
\* The spans around those of the stages.
Frame == {TransactionSpan} \cup KongSpans \cup {ServerSpanOf}

\* The whole trace: what the stages recorded, and the spans around them.
Whole(full) == \E t : Logged(t) /\ full = t \cup Frame

\* What the pipeline made of it.
Left(full) ==
    \/ damage = "none" /\ spans = full
    \/ damage = "lost" /\ \E x \in full : spans = full \ {x}
    \/ damage = "batch" /\ \E service \in Services(full) : spans = {x \in full : x.service # service}
    \/ damage = "attribute" /\ \E x \in full : \E y :
         /\ spans = (full \ {x}) \cup {y}
         /\ y.service = x.service /\ y.start = x.start /\ y.end = x.end
         /\ ~y.k8s \/ y.secret \/ (y.run # Request.run /\ y.kind = "SERVER" /\ y.service # Edge)

\* The inductive invariant of one order: its types, its course, and what its
\* spans say, while it runs, when it is answered and when its trace is judged.
OrderInv ==
    /\ Typed /\ Course
    /\ pc \in AllStages \cup {"answer"} => Logged(spans) /\ damage = "none"
    /\ pc = "export" => Whole(spans) /\ damage = "none"
    /\ pc = "judged" => \E full : Whole(full) /\ Left(full)

\* The steps after the answer change nothing of what the stages did.
LEMMA LoggedStays ==
  ASSUME NEW t, Logged(t), pc \in Ended, pc' \in Ended,
         UNCHANGED <<clock, joined, attempt, opened, results, path, undo, response, restarts, authorized, reached>>
  PROVE  Logged(t)'
<1>1. pc \notin AllStages /\ pc' \notin AllStages
  BY StageNames
<1>2. \A s \in AllStages : s # pc /\ s # pc'
  BY <1>1
<1>3. Kept(t)'
  BY <1>2 DEF Logged, Kept
<1>4. Strangers(t)'
  BY DEF Logged, Strangers
<1>5. Timeline(t)'
  BY <1>1, StageNames DEF Logged, Timeline, StageAt, Ended
<1>6. Payments(t)'
  <2>1. Pay # pc /\ Pay # pc'
    BY <1>2, StageNames DEF Pay
  <2> QED
    BY <2>1 DEF Logged, Payments, StageAt
<1> QED
  BY <1>3, <1>4, <1>5, <1>6 DEF Logged

LEMMA FrameStays ==
  ASSUME UNCHANGED <<clock, path, results>>
  PROVE  Frame' = Frame
<1>1. Final' = Final /\ FailedStage' = FailedStage
  BY Zenon DEF Final, FailedStage
<1>2. StatusCode' = StatusCode
  BY <1>1 DEF StatusCode
<1>3. Technical' = Technical
  BY <1>2, Zenon DEF Technical
<1>4. TransactionSpan' = TransactionSpan
  BY <1>1, <1>3, Zenon DEF TransactionSpan
<1>5. KongSpans' = KongSpans
  BY <1>2, <1>3, Zenon DEF KongSpans
<1>6. ServerSpanOf' = ServerSpanOf
  BY Zenon DEF ServerSpanOf
<1> QED
  BY <1>4, <1>5, <1>6 DEF Frame

LEMMA CourseStays ==
  ASSUME Course, pc \in Ended, pc' \in Ended, UNCHANGED <<results, path, undo>>
  PROVE  Course'
<1>1. CASE GoesWell
  BY <1>1, StageNames DEF Course, GoesWell
<1>2. CASE \E s \in Stages : FailedAt(s)
  <2>1. PICK s \in Stages : FailedAt(s)
    BY <1>2
  <2>2. undo = << >>
    BY <2>1, Plans, StageNames DEF FailedAt, Void, Release, Ended
  <2>3. FailedAt(s)'
    BY <2>1, <2>2 DEF FailedAt, Voids, Releases
  <2> QED
    BY <2>3 DEF Course
<1> QED
  BY <1>1, <1>2 DEF Course

\* Nothing is booked before the first attempt.
LEMMA NothingBooked ==
  /\ 0 <= 0 + Remembered("none") /\ Record({}, 1) + Record({}, 2) + Record({}, 3) = 0
  /\ \A s \in AllStages : Reach({}, s, 1) + Reach({}, s, 2) + Reach({}, s, 3) = 0
<1>1. Remembered("none") = 0
  BY DEF Remembered
<1>2. \A k : Record({}, k) = 0
  BY DEF Record, Recorded
<1>3. \A s, k : Reach({}, s, k) = 0
  BY DEF Reach, HasId
<1> QED
  BY <1>1, <1>2, <1>3

\* The invariant holds at the start,
LEMMA OrderStarts == TraceInit => OrderInv
<1> SUFFICES ASSUME TraceInit PROVE OrderInv
  OBVIOUS
<1>0. "inventory.reserve" \in AllStages /\ "inventory.reserve" \in Stages /\ "inventory.reserve" \notin Ended /\ Pay \in AllStages
  BY StageNames DEF Pay
<1>1. Typed
  <2>1. restarts \in 0..Restarts
    <3>1. 0 \in 0..Restarts
      BY TroubleAssumption
    <3> QED
      BY <3>1 DEF TraceInit
  <2>2. results \in [AllStages -> Endings \cup {""}] /\ reached \in [AllStages -> Nat]
    BY DEF TraceInit
  <2>3. pc \in AllStages \cup Ended /\ clock \in Nat /\ opened \in Nat /\ joined \in Nat /\ attempt \in 0..2
    <3>1. pc = "inventory.reserve" /\ clock = 3 /\ opened = 3 /\ joined = 3 /\ attempt = 0
      BY DEF TraceInit
    <3> QED
      BY <1>0, <3>1
  <2>4. response \in {"none", "authorized", "declined"} /\ authorized \in Nat /\ damage \in {"none", "lost", "batch", "attribute"}
    BY DEF TraceInit
  <2> QED
    BY <2>1, <2>2, <2>3, <2>4 DEF Typed
<1>2. Course
  <2>1. GoesWell
    BY <1>0, StageNames DEF TraceInit, GoesWell, PathTo, StagesBefore
  <2> QED
    BY <2>1 DEF Course
<1>3. Kept({})
  <2>1. ASSUME NEW s \in AllStages PROVE Of({}, s) = {} /\ results[s] = ""
    BY DEF TraceInit, Of
  <2>2. Running({}, "inventory.reserve")
    <3>1. attempt = 0 /\ clock = 3 /\ opened = 3
      BY DEF TraceInit
    <3>2. Attempted({}, "inventory.reserve", 0, opened, clock - 2)
      BY NothingAttempted
    <3>3. Profile["inventory.reserve"].max \in {2, 3}
      BY <1>0, ProfileIs
    <3> QED
      BY <3>1, <3>2, <3>3 DEF Running
  <2>3. pc = "inventory.reserve"
    BY DEF TraceInit
  <2> QED
    BY <2>1, <2>2, <2>3 DEF Kept
<1>4. Timeline({})
  <2>1. pc = "inventory.reserve" /\ joined = 3 /\ opened = 3
    BY DEF TraceInit
  <2> QED
    BY <1>0, <2>1 DEF Timeline
<1>5. Payments({})
  <2>3. authorized = 0 /\ restarts = 0 /\ response = "none" /\ results[Pay] = "" /\ \A s \in AllStages : reached[s] = 0
    BY <1>0 DEF TraceInit
  <2>4. authorized <= restarts + Remembered(response)
    BY <2>3, NothingBooked
  <2>5. authorized = Record({}, 1) + Record({}, 2) + Record({}, 3)
    BY <2>3, NothingBooked
  <2>6. \A s \in AllStages : reached[s] = Reach({}, s, 1) + Reach({}, s, 2) + Reach({}, s, 3)
    BY <2>3, NothingBooked
  <2>7. response # "authorized" /\ results[Pay] # "ok"
    BY <2>3
  <2> QED
    BY <2>4, <2>5, <2>6, <2>7, Zenon DEF Payments
<1>6. spans = {} /\ damage = "none" /\ pc = "inventory.reserve"
  BY DEF TraceInit
<1> QED
  BY <1>0, <1>1, <1>2, <1>3, <1>4, <1>5, <1>6 DEF OrderInv, Logged, Strangers

\* and every step keeps it: an attempt of a stage,
LEMMA TryKeeps ==
  ASSUME OrderInv, NEW o \in Outcomes, Try(o)
  PROVE  OrderInv'
<1>1. /\ pc \in AllStages /\ Meets(pc, o) /\ Booked(o) /\ UNCHANGED <<restarts, damage>>
      /\ Again(o) \/ LastOne(o)
  BY TryIs DEF OrderInv
<1>2. Typed /\ Course /\ Logged(spans) /\ damage = "none"
  BY <1>1 DEF OrderInv
<1>3. Typed' /\ Course' /\ Logged(spans)' /\ pc' \in AllStages \cup {"answer"}
  <2>1. CASE Again(o)
    BY <1>1, <1>2, <2>1, AgainKeeps
  <2>2. CASE LastOne(o)
    BY <1>1, <1>2, <2>2, LastOneKeeps
  <2> QED
    BY <1>1, <2>1, <2>2
<1>4. pc' \notin {"export", "judged"} /\ damage' = "none"
  BY <1>1, <1>2, <1>3, StageNames DEF Ended
<1> QED
  BY <1>3, <1>4 DEF OrderInv

\* a restart of PaymentService,
LEMMA RestartKeeps ==
  ASSUME OrderInv, ServiceRestart
  PROVE  OrderInv'
<1>1. /\ /\ pc = "payment.authorize" /\ pc \in AllStages /\ restarts < Restarts /\ response # "none"
      /\ restarts' = restarts + 1 /\ response' = "none"
      /\ UNCHANGED <<pc, clock, joined, attempt, opened, results, path, undo, spans, trouble, authorized, reached, damage>>
  BY StageNames DEF ServiceRestart
<1>2. Typed /\ Course /\ Logged(spans) /\ damage = "none"
  BY <1>1 DEF OrderInv
<1>3. restarts \in Nat /\ restarts' \in 0..Restarts /\ authorized \in Nat
  <2>1. \A n \in 0..Restarts : n < Restarts => n + 1 \in 0..Restarts /\ n \in Nat
    BY TroubleAssumption
  <2>2. restarts \in 0..Restarts /\ authorized \in Nat
    BY <1>2 DEF Typed
  <2> QED
    BY <1>1, <2>1, <2>2
<1>4. Typed'
  BY <1>1, <1>2, <1>3 DEF Typed
<1>5. Course'
  <2>1. UNCHANGED <<pc, undo, path, results>>
    BY <1>1
  <2>2. Course
    BY <1>2
  <2> QED
    BY <2>1, <2>2, Zenon DEF Course, GoesWell, FailedAt, Voids, Releases
<1>6. Kept(spans)' /\ Strangers(spans)' /\ Timeline(spans)'
  <2>1. Kept(spans)'
    BY <1>1, <1>2 DEF Logged, Kept, Running
  <2>2. Strangers(spans)'
    BY <1>1, <1>2 DEF Logged, Strangers
  <2>3. Timeline(spans)'
    BY <1>1, <1>2 DEF Logged, Timeline, StageAt
  <2> QED
    BY <2>1, <2>2, <2>3
<1>7. Payments(spans)'
  <2>1. authorized <= restarts' + Remembered(response')
    <3>1. authorized <= restarts + Remembered(response)
      BY <1>2 DEF Logged, Payments
    <3>2. Remembered(response) \in {0, 1} /\ Remembered(response') = 0 /\ restarts' = restarts + 1
      BY <1>1 DEF Remembered
    <3> QED
      BY <1>3, <3>1, <3>2
  <2> QED
    BY <1>1, <1>2, <2>1 DEF Logged, Payments, StageAt
<1>8. pc' \notin {"export", "judged"} /\ damage' = "none"
  BY <1>1, <1>2
<1> QED
  BY <1>4, <1>5, <1>6, <1>7, <1>8 DEF OrderInv, Logged

\* the answer, which adds the spans around the stages,
LEMMA AnswerKeeps ==
  ASSUME OrderInv, Answer
  PROVE  OrderInv'
<1>1. /\ pc = "answer" /\ pc' = "export" /\ spans' = spans \cup Frame
      /\ UNCHANGED <<clock, joined, attempt, opened, results, path, undo, response, restarts, trouble, authorized, reached, damage>>
  <2>1. spans \cup {TransactionSpan} \cup KongSpans \cup {ServerSpanOf} = spans \cup Frame
    BY DEF Frame
  <2>2. /\ pc = "answer" /\ pc' = "export" /\ spans' = spans \cup {TransactionSpan} \cup KongSpans \cup {ServerSpanOf}
        /\ UNCHANGED <<clock, joined, attempt, opened, results, path, undo, response, restarts, trouble, authorized, reached, damage>>
    BY DEF Answer, ServerSpanOf
  <2> QED
    BY <2>1, <2>2
<1>2. Typed /\ Course /\ Logged(spans) /\ damage = "none"
  BY <1>1 DEF OrderInv
<1>3. pc \in Ended /\ pc' \in Ended
  BY <1>1 DEF Ended
<1>4. Course'
  BY <1>1, <1>2, <1>3, CourseStays
<1>5. Typed'
  BY <1>1, <1>2, <1>3 DEF Typed
<1>6. PICK t : t = spans
  OBVIOUS
<1>7. Logged(t)'
  BY <1>1, <1>2, <1>3, <1>6, LoggedStays
<1>8. Frame' = Frame
  BY <1>1, FrameStays
<1>9. Whole(spans)'
  BY <1>1, <1>6, <1>7, <1>8 DEF Whole
<1>10. pc' \notin AllStages \cup {"answer"} /\ pc' # "judged" /\ damage' = "none"
  BY <1>1, <1>2, StageNames DEF Ended
<1> QED
  BY <1>4, <1>5, <1>9, <1>10 DEF OrderInv

\* and the telemetry pipeline, which may damage the trace.
LEMMA ExportKeeps ==
  ASSUME OrderInv, Export
  PROVE  OrderInv'
<1>1. PICK what, trace : Store(what, trace) /\
        \/ what = "none" /\ trace = spans
        \/ what = "lost" /\ \E x \in spans : trace = spans \ {x}
        \/ what = "batch" /\ \E service \in Services(spans) : trace = {x \in spans : x.service # service}
        \/ what = "attribute" /\ \E x \in spans : \E y :
             /\ trace = (spans \ {x}) \cup {y}
             /\ \/ y = [x EXCEPT !.k8s = FALSE] \/ y = [x EXCEPT !.secret = TRUE]
                \/ y = [x EXCEPT !.run = "other"] /\ x.kind = "SERVER" /\ x.service # Edge
  <2>1. CASE Store("none", spans)
    BY <2>1
  <2>2. CASE \E s \in spans : Store("lost", spans \ {s})
    BY <2>2
  <2>3. CASE \E service \in Services(spans) : Store("batch", {s \in spans : s.service # service})
    BY <2>3
  <2>4. CASE \E s \in spans : Store("attribute", (spans \ {s}) \cup {[s EXCEPT !.k8s = FALSE]})
    BY <2>4
  <2>5. CASE \E s \in spans : Store("attribute", (spans \ {s}) \cup {[s EXCEPT !.secret = TRUE]})
    BY <2>5
  <2>6. CASE \E s \in {x \in spans : x.kind = "SERVER" /\ x.service # Edge} :
               Store("attribute", (spans \ {s}) \cup {[s EXCEPT !.run = "other"]})
    BY <2>6
  <2> QED
    BY <2>1, <2>2, <2>3, <2>4, <2>5, <2>6 DEF Export
<1>2. /\ pc = "export" /\ pc' = "judged" /\ damage' = what /\ spans' = trace
      /\ UNCHANGED <<clock, joined, attempt, opened, results, path, undo, response, restarts, trouble, authorized, reached>>
  BY <1>1 DEF Store
<1>3. Typed /\ Course /\ Whole(spans)
  BY <1>2 DEF OrderInv
<1>4. pc \in Ended /\ pc' \in Ended
  BY <1>2 DEF Ended
<1>5. Course'
  BY <1>2, <1>3, <1>4, CourseStays
<1>6. Typed'
  BY <1>1, <1>2, <1>3, <1>4 DEF Typed
<1>7. PICK t : Logged(t) /\ spans = t \cup Frame
  BY <1>3 DEF Whole
<1>8. Logged(t)'
  BY <1>2, <1>4, <1>7, LoggedStays
<1>9. Frame' = Frame
  BY <1>2, FrameStays
<1>10. PICK full : full = spans
  OBVIOUS
<1>11. Whole(full)'
  BY <1>7, <1>8, <1>9, <1>10 DEF Whole
<1>12. Left(full)'
  <2>1. CASE what = "none" /\ trace = full
    BY <1>2, <2>1 DEF Left
  <2>2. CASE what = "lost" /\ \E x \in full : trace = full \ {x}
    BY <1>2, <2>2 DEF Left
  <2>3. CASE what = "batch" /\ \E service \in Services(full) : trace = {x \in full : x.service # service}
    BY <1>2, <2>3 DEF Left
  <2>4. ASSUME what = "attribute", NEW x \in full, NEW y, trace = (full \ {x}) \cup {y},
               \/ y = [x EXCEPT !.k8s = FALSE] \/ y = [x EXCEPT !.secret = TRUE]
               \/ y = [x EXCEPT !.run = "other"] /\ x.kind = "SERVER" /\ x.service # Edge
        PROVE  Left(full)'
    <3> DEFINE Spoilt == /\ y.service = x.service /\ y.start = x.start /\ y.end = x.end
                         /\ ~y.k8s \/ y.secret \/ (y.run # Request.run /\ y.kind = "SERVER" /\ y.service # Edge)
    <3>1. ASSUME y = [x EXCEPT !.k8s = FALSE] PROVE Spoilt
      BY <3>1
    <3>2. ASSUME y = [x EXCEPT !.secret = TRUE] PROVE Spoilt
      BY <3>2
    <3>3. ASSUME y = [x EXCEPT !.run = "other"], x.kind = "SERVER", x.service # Edge PROVE Spoilt
      BY <3>3 DEF Request
    <3>4. Spoilt
      BY <2>4, <3>1, <3>2, <3>3
    <3> QED
      BY <1>2, <2>4, <3>4 DEF Left
  <2> QED
    BY <1>1, <1>10, <2>1, <2>2, <2>3, <2>4
<1>13. pc' \notin AllStages \cup {"answer"} /\ pc' # "export"
  BY <1>2, StageNames DEF Ended
<1> QED
  BY <1>5, <1>6, <1>11, <1>12, <1>13 DEF OrderInv

\* The invariant of an order holds from step to step.
LEMMA OrderGoesOn == OrderInv /\ [TraceNext]_traceVars => OrderInv'
<1> SUFFICES ASSUME OrderInv, [TraceNext]_traceVars PROVE OrderInv'
  OBVIOUS
<1>1. CASE TraceNext
  BY <1>1, TryKeeps, RestartKeeps, AnswerKeeps, ExportKeeps DEF TraceNext
<1>2. CASE UNCHANGED traceVars
  <2>1. UNCHANGED <<pc, clock, joined, attempt, opened, results, path, undo, spans, response, restarts, trouble, authorized, reached, damage>>
    BY <1>2 DEF traceVars
  <2>2. Typed' /\ Course'
    <3>1. Typed /\ Course
      BY DEF OrderInv
    <3>2. Typed'
      BY <2>1, <3>1 DEF Typed
    <3>3. Course'
      BY <2>1, <3>1, Zenon DEF Course, GoesWell, FailedAt, Voids, Releases
    <3> QED
      BY <3>2, <3>3
  <2>3. ASSUME NEW t PROVE Logged(t)' = Logged(t)
    <3>1. Kept(t)' = Kept(t) /\ Strangers(t)' = Strangers(t)
      BY <2>1, Zenon DEF Kept, Running, Strangers
    <3>2. Timeline(t)' = Timeline(t)
      BY <2>1, Zenon DEF Timeline, StageAt
    <3>3. Payments(t)' = Payments(t)
      BY <2>1, Zenon DEF Payments, StageAt
    <3> QED
      BY <3>1, <3>2, <3>3, Zenon DEF Logged
  <2>4. Frame' = Frame
    BY <2>1, FrameStays
  <2>5. ASSUME NEW full PROVE Whole(full)' = Whole(full) /\ Left(full)' = Left(full)
    BY <2>1, <2>3, <2>4 DEF Whole, Left
  <2>6. Logged(spans)' = Logged(spans) /\ Whole(spans)' = Whole(spans)
    <3>1. PICK t : t = spans
      OBVIOUS
    <3> QED
      BY <2>1, <2>3, <2>5, <3>1
  <2> QED
    BY <2>1, <2>2, <2>5, <2>6 DEF OrderInv
<1> QED
  BY <1>1, <1>2

-----------------------------------------------------------------------------
(* What the spans look like.                                                *)

\* Every span recorded by the stages belongs to a stage, one of its calls, or
\* the service behind it.
LEMMA SpanKinds ==
  ASSUME Typed, NEW t, Logged(t), NEW x \in t
  PROVE  \E s \in AllStages : StageLike(x, s) \/ \E k \in 1..3 : ClientLike(x, s, k) \/ ServerLike(x, s, k)
<1>1. PICK s : s = x.id[1]
  OBVIOUS
<1>2. s \in AllStages /\ x \in Of(t, s)
  BY <1>1 DEF Logged, Strangers, Of
<1>3. ASSUME NEW u, NEW m, m \in 0..3, NEW a, NEW b, Attempted(u, s, m, a, b), x \in u
      PROVE  \E k \in 1..3 : ClientLike(x, s, k) \/ ServerLike(x, s, k)
  <2>1. PICK k \in 1..m : ClientLike(x, s, k) \/ ServerLike(x, s, k)
    BY <1>3 DEF Attempted
  <2>2. k \in 1..3
    BY <1>3
  <2> QED
    BY <2>1, <2>2
<1>4. CASE results[s] # ""
  <2>1. PICK y \in t, m \in 0..3 : Closed(Of(t, s), s, results[s], y, m)
    BY <1>2, <1>4 DEF Logged, Kept
  <2>2. StageLike(y, s) /\ Attempted(Of(t, s) \ {y}, s, m, y.start, y.end)
    BY <2>1 DEF Closed
  <2>3. x = y \/ x \in Of(t, s) \ {y}
    BY <1>2
  <2> QED
    BY <1>2, <1>3, <2>2, <2>3
<1>5. CASE results[s] = ""
  <2>1. s = pc
    BY <1>2, <1>5 DEF Logged, Kept
  <2>2. Attempted(Of(t, s), s, attempt, opened, clock - 2)
    BY <1>2, <2>1 DEF Logged, Kept, Running
  <2>3. attempt \in 0..3
    BY TypedNumbers
  <2> QED
    BY <1>2, <1>3, <2>2, <2>3
<1> QED
  BY <1>4, <1>5

\* What sets the spans of the stages apart from those around them.
Fits(x) ==
    /\ x.service \in {OrderService} \cup Downstream /\ x.start \in Nat /\ x.end \in Nat /\ x.start <= x.end
    /\ x.id[1] \in AllStages /\ Plain(x) /\ (x.kind = "SERVER" => x.service \in Downstream)
    /\ x.parent[1] \in AllStages \cup {"order.transaction"}

\* The spans of the stages are none of those around them.
LEMMA SpanFits ==
  ASSUME NEW x, NEW s \in AllStages, NEW k \in 1..3, StageLike(x, s) \/ ClientLike(x, s, k) \/ ServerLike(x, s, k)
  PROVE  Fits(x)
<1>1. Profile[s].service \in Downstream
  BY ProfileIs
<1>2. CASE StageLike(x, s)
  BY <1>2 DEF StageLike, Fits, Plain
<1>3. CASE ClientLike(x, s, k)
  BY <1>3 DEF ClientLike, Fits, Plain
<1>4. CASE ServerLike(x, s, k)
  <2>1. x.service \in Downstream /\ x.id[1] = s /\ x.parent[1] = s /\ x.start < x.end /\ Plain(x) /\ x.kind = "SERVER"
    <3>1. \A a, b : <<a, b>>[1] = a
      OBVIOUS
    <3>2. /\ x.service = Profile[s].service /\ x.id = <<s, 9 + k>> /\ x.parent = <<s, k>>
          /\ x.start < x.end /\ Plain(x) /\ x.kind = "SERVER"
      BY <1>4, Zenon DEF ServerLike
    <3> QED
      BY <1>1, <3>1, <3>2
  <2> QED
    BY <2>1 DEF Fits, Plain
<1> QED
  BY <1>2, <1>3, <1>4

LEMMA SpansFit ==
  ASSUME Typed, NEW t, Logged(t), NEW x \in t
  PROVE  Fits(x)
<1>1. PICK s \in AllStages : StageLike(x, s) \/ \E k \in 1..3 : ClientLike(x, s, k) \/ ServerLike(x, s, k)
  BY SpanKinds
<1>2. 1 \in 1..3
  OBVIOUS
<1> QED
  BY <1>1, <1>2, SpanFits

\* There is always a record of the stages behind the trace.
LEMMA LogThere == OrderInv => \E t : Logged(t)
<1> SUFFICES ASSUME OrderInv PROVE \E t : Logged(t)
  OBVIOUS
<1>1. pc \in AllStages \cup {"answer", "export", "judged"}
  BY DEF OrderInv, Typed, Ended
<1>2. CASE pc \in AllStages \cup {"answer"}
  BY <1>2 DEF OrderInv
<1>3. CASE pc = "export"
  BY <1>3 DEF OrderInv, Whole
<1>4. CASE pc = "judged"
  BY <1>4 DEF OrderInv, Whole
<1> QED
  BY <1>1, <1>2, <1>3, <1>4

-----------------------------------------------------------------------------
(* What it takes for a contract to pass.                                    *)

\* A check passes when its condition holds.
LEMMA Told ==
  ASSUME NEW n, NEW P \in BOOLEAN
  PROVE  Result(n, P).passed <=> P
  BY DEF Result

\* The request of the order, as the contracts see it.
Seen(label) ==
    [status |-> StatusCode, label |-> label, id |-> Request.id, run |-> Request.run, order |-> Request.order,
     trace |-> spans]

\* The contracts see the order's one request.
LEMMA SeenIs ==
  ASSUME NEW label
  PROVE  /\ TheRequest(label) = {Seen(label)} /\ Seen(label).trace = spans
         /\ Labelled(TheRequest(label), label) = {Seen(label)} /\ Seen(label).status = StatusCode
  BY DEF TheRequest, Seen, Labelled

LEMMA SeenWith ==
  ASSUME NEW label, NEW code
  PROVE  /\ StatusCode = code => WithStatus(TheRequest(label), code) = {Seen(label)}
         /\ StatusCode # code => WithStatus(TheRequest(label), code) = {}
<1>1. TheRequest(label) = {Seen(label)} /\ Seen(label).status = StatusCode
  BY SeenIs
<1>2. ASSUME NEW x, x.status = StatusCode
      PROVE  /\ StatusCode = code => WithStatus({x}, code) = {x}
             /\ StatusCode # code => WithStatus({x}, code) = {}
  BY <1>2 DEF WithStatus
<1> QED
  BY <1>1, <1>2

\* The checks every contract makes.
Fine ==
    Integrity(spans) /\ KubernetesMetadata(spans) /\ Correlation(spans, Request) /\ SensitiveData(spans)

\* What the checks that every contract makes ask for.
LEMMA CommonIs ==
  ASSUME NEW label
  PROVE  Common(Seen(label)) # {} /\ ((\A x \in Common(Seen(label)) : x.passed) <=> Fine)
<1> DEFINE r == Seen(label)
<1>1. r.trace = spans /\ r.id = Request.id /\ r.run = Request.run /\ r.order = Request.order
  BY DEF Seen
<1>2. Correlation(r.trace, r) <=> Correlation(spans, Request)
  BY <1>1, Zenon DEF Correlation
<1> HIDE DEF r
<1>3. /\ Integrity(r.trace) \in BOOLEAN /\ KubernetesMetadata(r.trace) \in BOOLEAN
      /\ Correlation(r.trace, r) \in BOOLEAN /\ SensitiveData(r.trace) \in BOOLEAN
  BY Zenon DEF Integrity, KubernetesMetadata, Correlation, SensitiveData
<1>4. /\ Result("trace integrity", Integrity(r.trace)).passed <=> Integrity(r.trace)
      /\ Result("kubernetes metadata", KubernetesMetadata(r.trace)).passed <=> KubernetesMetadata(r.trace)
      /\ Result("correlation", Correlation(r.trace, r)).passed <=> Correlation(r.trace, r)
      /\ Result("sensitive data", SensitiveData(r.trace)).passed <=> SensitiveData(r.trace)
  BY <1>3, Told, Zenon
<1>5. (\A x \in Common(r) : x.passed) <=>
        /\ Result("trace integrity", Integrity(r.trace)).passed
        /\ Result("kubernetes metadata", KubernetesMetadata(r.trace)).passed
        /\ Result("correlation", Correlation(r.trace, r)).passed
        /\ Result("sensitive data", SensitiveData(r.trace)).passed
  BY Zenon DEF Common
<1>6. Common(r) # {}
  BY Zenon DEF Common
<1> QED
  BY <1>1, <1>2, <1>4, <1>5, <1>6, Zenon DEF r, Fine

\* The checks on one stored trace, or the one that says it is missing.
LEMMA Judging ==
  ASSUME NEW C, C # {}, NEW S, NEW P \in BOOLEAN, NEW n, P => S = C, ~P => S = {Result(n, FALSE)}
  PROVE  Verdict(S) <=> P /\ \A x \in C : x.passed
<1>1. CASE P
  BY <1>1, Zenon DEF Verdict
<1>2. CASE ~P
  <2>1. ~Result(n, FALSE).passed
    BY DEF Result
  <2> QED
    BY <1>2, <2>1, Zenon DEF Verdict
<1> QED
  BY <1>1, <1>2

\* Every check is a truth value.
LEMMA Truths ==
  ASSUME NEW t, NEW a, NEW b, NEW c, NEW d
  PROVE  /\ Topology(t, a, b) \in BOOLEAN /\ StagesPresent(t, a, b) \in BOOLEAN /\ StageOrder(t) \in BOOLEAN
         /\ StatePath(t, a) \in BOOLEAN /\ ErrorMarking(t, a) \in BOOLEAN /\ Retries(t, a, b) \in BOOLEAN
         /\ IdempotentReplay(t) \in BOOLEAN /\ LatencyDominance(t, a, b, c) \in BOOLEAN
<1>1. Topology(t, a, b) \in BOOLEAN
  BY Zenon DEF Topology
<1>2. StagesPresent(t, a, b) \in BOOLEAN
  BY Zenon DEF StagesPresent
<1>3. StageOrder(t) \in BOOLEAN
  BY Zenon DEF StageOrder
<1>4. StatePath(t, a) \in BOOLEAN
  BY Zenon DEF StatePath
<1>5. ErrorMarking(t, a) \in BOOLEAN
  BY Zenon DEF ErrorMarking
<1>6. Retries(t, a, b) \in BOOLEAN
  BY Zenon DEF Retries
<1>7. IdempotentReplay(t) \in BOOLEAN
  BY Zenon DEF IdempotentReplay
<1>8. LatencyDominance(t, a, b, c) \in BOOLEAN
  BY Zenon DEF LatencyDominance
<1> QED
  BY <1>1, <1>2, <1>3, <1>4, <1>5, <1>6, <1>7, <1>8

\* What each contract asks for, in one formula.
LEMMA NormalOrderIs ==
  Verdict(NormalOrder(TheRequest(""))) <=>
    /\ StatusCode = 201 /\ spans # {} /\ AllServices \subseteq Services(spans) /\ Fine
    /\ Topology(spans, AllServices, {}) /\ StageOrder(spans) /\ StatePath(spans, FullPath) /\ ErrorMarking(spans, FALSE)
<1> DEFINE r == Seen("")
<1> DEFINE W == WithStatus(TheRequest(""), 201)
<1> DEFINE Asked == AllServices
<1> DEFINE OwnOf(q) == {Result("topology", Topology(q.trace, AllServices, {})),
         Result("stage order", StageOrder(q.trace)),
         Result("state events", StatePath(q.trace, FullPath)),
         Result("error marking", ErrorMarking(q.trace, FALSE))}
<1> DEFINE S == NormalOrder(TheRequest(""))
<1>0. S = NotKept(W, Asked, "traces kept") \cup UNION {Common(q) \cup OwnOf(q) : q \in {p \in W : Stored(p, Asked)}}
  BY Zenon DEF NormalOrder, StoredTraces
<1>1. r.trace = spans /\ Common(r) # {} /\ ((\A x \in Common(r) : x.passed) <=> Fine)
  BY SeenIs, CommonIs
<1>2. Stored(r, Asked) <=> spans # {} /\ AllServices \subseteq Services(spans)
  BY <1>1, Zenon DEF Stored
<1>3. (\A x \in OwnOf(r) : x.passed) <=>
          /\ Topology(spans, AllServices, {}) /\ StageOrder(spans) /\ StatePath(spans, FullPath)
          /\ ErrorMarking(spans, FALSE)
  <2>1. /\ Topology(spans, AllServices, {}) \in BOOLEAN /\ StageOrder(spans) \in BOOLEAN
        /\ StatePath(spans, FullPath) \in BOOLEAN /\ ErrorMarking(spans, FALSE) \in BOOLEAN
    BY Truths
  <2>2. Result("topology", Topology(spans, AllServices, {})).passed <=> Topology(spans, AllServices, {})
    BY <2>1, Told
  <2>3. Result("stage order", StageOrder(spans)).passed <=> StageOrder(spans)
    BY <2>1, Told
  <2>4. Result("state events", StatePath(spans, FullPath)).passed <=> StatePath(spans, FullPath)
    BY <2>1, Told
  <2>5. Result("error marking", ErrorMarking(spans, FALSE)).passed <=> ErrorMarking(spans, FALSE)
    BY <2>1, Told
  <2> HIDE DEF r
  <2> QED
    BY <1>1, <2>2, <2>3, <2>4, <2>5, Zenon
<1>4. CASE ~(StatusCode = 201)
  <2>1. W = {}
    BY <1>4, SeenWith, Zenon
  <2> HIDE DEF W, S, OwnOf, Asked
  <2>2. S = {}
    BY <1>0, <2>1 DEF NotKept
  <2> QED
    BY <1>4, <2>2, Zenon DEF Verdict, S
<1>5. CASE StatusCode = 201
  <2>1. W = {r}
    BY <1>5, SeenWith, Zenon
  <2> HIDE DEF W, S, OwnOf, Asked, r
  <2>2. Stored(r, Asked) => S = Common(r) \cup OwnOf(r)
    BY <1>0, <2>1 DEF NotKept
  <2>3. ~Stored(r, Asked) => S = {Result("traces kept", FALSE)}
    BY <1>0, <2>1 DEF NotKept
  <2>4. Stored(r, Asked) \in BOOLEAN
    BY Zenon DEF Stored
  <2>5. /\ Common(r) \cup OwnOf(r) # {}
        /\ (\A x \in Common(r) \cup OwnOf(r) : x.passed) <=> (\A x \in Common(r) : x.passed) /\ \A x \in OwnOf(r) : x.passed
    BY <1>1, Zenon
  <2>6. Verdict(S) <=> Stored(r, Asked) /\ \A x \in Common(r) \cup OwnOf(r) : x.passed
    BY <2>2, <2>3, <2>4, <2>5, Judging
  <2> QED
    BY <1>1, <1>2, <1>3, <1>5, <2>5, <2>6, Zenon DEF S
<1> QED
  BY <1>4, <1>5

LEMMA SlowPaymentIs ==
  Verdict(SlowPayment(TheRequest(""), 10)) <=>
    /\ StatusCode = 201 /\ spans # {} /\ AllServices \subseteq Services(spans) /\ Fine
    /\ LatencyDominance(spans, "payment.authorize", 60, 10) /\ StatePath(spans, FullPath)
<1> DEFINE r == Seen("")
<1> DEFINE W == WithStatus(TheRequest(""), 201)
<1> DEFINE Asked == AllServices
<1> DEFINE OwnOf(q) == {Result("latency attribution", LatencyDominance(q.trace, "payment.authorize", 60, 10)),
         Result("state events", StatePath(q.trace, FullPath))}
<1> DEFINE S == SlowPayment(TheRequest(""), 10)
<1>0. S = NotKept(W, Asked, "slow traces kept without debug") \cup UNION {Common(q) \cup OwnOf(q) : q \in {p \in W : Stored(p, Asked)}}
  BY Zenon DEF SlowPayment, StoredTraces
<1>1. r.trace = spans /\ Common(r) # {} /\ ((\A x \in Common(r) : x.passed) <=> Fine)
  BY SeenIs, CommonIs
<1>2. Stored(r, Asked) <=> spans # {} /\ AllServices \subseteq Services(spans)
  BY <1>1, Zenon DEF Stored
<1>3. (\A x \in OwnOf(r) : x.passed) <=> LatencyDominance(spans, "payment.authorize", 60, 10) /\ StatePath(spans, FullPath)
  <2>1. LatencyDominance(spans, "payment.authorize", 60, 10) \in BOOLEAN /\ StatePath(spans, FullPath) \in BOOLEAN
    BY Truths
  <2>2. Result("latency attribution", LatencyDominance(spans, "payment.authorize", 60, 10)).passed <=> LatencyDominance(spans, "payment.authorize", 60, 10)
    BY <2>1, Told
  <2>3. Result("state events", StatePath(spans, FullPath)).passed <=> StatePath(spans, FullPath)
    BY <2>1, Told
  <2> HIDE DEF r
  <2> QED
    BY <1>1, <2>2, <2>3, Zenon
<1>4. CASE ~(StatusCode = 201)
  <2>1. W = {}
    BY <1>4, SeenWith, Zenon
  <2> HIDE DEF W, S, OwnOf, Asked
  <2>2. S = {}
    BY <1>0, <2>1 DEF NotKept
  <2> QED
    BY <1>4, <2>2, Zenon DEF Verdict, S
<1>5. CASE StatusCode = 201
  <2>1. W = {r}
    BY <1>5, SeenWith, Zenon
  <2> HIDE DEF W, S, OwnOf, Asked, r
  <2>2. Stored(r, Asked) => S = Common(r) \cup OwnOf(r)
    BY <1>0, <2>1 DEF NotKept
  <2>3. ~Stored(r, Asked) => S = {Result("slow traces kept without debug", FALSE)}
    BY <1>0, <2>1 DEF NotKept
  <2>4. Stored(r, Asked) \in BOOLEAN
    BY Zenon DEF Stored
  <2>5. /\ Common(r) \cup OwnOf(r) # {}
        /\ (\A x \in Common(r) \cup OwnOf(r) : x.passed) <=> (\A x \in Common(r) : x.passed) /\ \A x \in OwnOf(r) : x.passed
    BY <1>1, Zenon
  <2>6. Verdict(S) <=> Stored(r, Asked) /\ \A x \in Common(r) \cup OwnOf(r) : x.passed
    BY <2>2, <2>3, <2>4, <2>5, Judging
  <2> QED
    BY <1>1, <1>2, <1>3, <1>5, <2>5, <2>6, Zenon DEF S
<1> QED
  BY <1>4, <1>5

LEMMA PaymentRetryIs ==
  Verdict(PaymentRetry(TheRequest(""), 15)) <=>
    /\ StatusCode = 201 /\ spans # {} /\ AllServices \subseteq Services(spans) /\ Fine
    /\ Retries(spans, "payment.authorize", 2) /\ IdempotentReplay(spans)
    /\ LatencyDominance(spans, "payment.authorize", 50, 15) /\ StatePath(spans, FullPath)
<1> DEFINE r == Seen("")
<1> DEFINE W == WithStatus(TheRequest(""), 201)
<1> DEFINE Asked == AllServices
<1> DEFINE OwnOf(q) == {Result("retry attempts", Retries(q.trace, "payment.authorize", 2)),
         Result("idempotent replay", IdempotentReplay(q.trace)),
         Result("accumulated latency", LatencyDominance(q.trace, "payment.authorize", 50, 15)),
         Result("state events", StatePath(q.trace, FullPath))}
<1> DEFINE S == PaymentRetry(TheRequest(""), 15)
<1>0. S = NotKept(W, Asked, "retried traces kept") \cup UNION {Common(q) \cup OwnOf(q) : q \in {p \in W : Stored(p, Asked)}}
  BY Zenon DEF PaymentRetry, StoredTraces
<1>1. r.trace = spans /\ Common(r) # {} /\ ((\A x \in Common(r) : x.passed) <=> Fine)
  BY SeenIs, CommonIs
<1>2. Stored(r, Asked) <=> spans # {} /\ AllServices \subseteq Services(spans)
  BY <1>1, Zenon DEF Stored
<1>3. (\A x \in OwnOf(r) : x.passed) <=>
          /\ Retries(spans, "payment.authorize", 2) /\ IdempotentReplay(spans)
          /\ LatencyDominance(spans, "payment.authorize", 50, 15) /\ StatePath(spans, FullPath)
  <2>1. /\ Retries(spans, "payment.authorize", 2) \in BOOLEAN /\ IdempotentReplay(spans) \in BOOLEAN
        /\ LatencyDominance(spans, "payment.authorize", 50, 15) \in BOOLEAN
        /\ StatePath(spans, FullPath) \in BOOLEAN
    BY Truths
  <2>2. Result("retry attempts", Retries(spans, "payment.authorize", 2)).passed <=> Retries(spans, "payment.authorize", 2)
    BY <2>1, Told
  <2>3. Result("idempotent replay", IdempotentReplay(spans)).passed <=> IdempotentReplay(spans)
    BY <2>1, Told
  <2>4. Result("accumulated latency", LatencyDominance(spans, "payment.authorize", 50, 15)).passed <=> LatencyDominance(spans, "payment.authorize", 50, 15)
    BY <2>1, Told
  <2>5. Result("state events", StatePath(spans, FullPath)).passed <=> StatePath(spans, FullPath)
    BY <2>1, Told
  <2> HIDE DEF r
  <2> QED
    BY <1>1, <2>2, <2>3, <2>4, <2>5, Zenon
<1>4. CASE ~(StatusCode = 201)
  <2>1. W = {}
    BY <1>4, SeenWith, Zenon
  <2> HIDE DEF W, S, OwnOf, Asked
  <2>2. S = {}
    BY <1>0, <2>1 DEF NotKept
  <2> QED
    BY <1>4, <2>2, Zenon DEF Verdict, S
<1>5. CASE StatusCode = 201
  <2>1. W = {r}
    BY <1>5, SeenWith, Zenon
  <2> HIDE DEF W, S, OwnOf, Asked, r
  <2>2. Stored(r, Asked) => S = Common(r) \cup OwnOf(r)
    BY <1>0, <2>1 DEF NotKept
  <2>3. ~Stored(r, Asked) => S = {Result("retried traces kept", FALSE)}
    BY <1>0, <2>1 DEF NotKept
  <2>4. Stored(r, Asked) \in BOOLEAN
    BY Zenon DEF Stored
  <2>5. /\ Common(r) \cup OwnOf(r) # {}
        /\ (\A x \in Common(r) \cup OwnOf(r) : x.passed) <=> (\A x \in Common(r) : x.passed) /\ \A x \in OwnOf(r) : x.passed
    BY <1>1, Zenon
  <2>6. Verdict(S) <=> Stored(r, Asked) /\ \A x \in Common(r) \cup OwnOf(r) : x.passed
    BY <2>2, <2>3, <2>4, <2>5, Judging
  <2> QED
    BY <1>1, <1>2, <1>3, <1>5, <2>5, <2>6, Zenon DEF S
<1> QED
  BY <1>4, <1>5

LEMMA FailedFlowIs ==
  ASSUME NEW e
  PROVE  Verdict(FailedFlow(TheRequest(""), e)) <=>
    /\ StatusCode = e.status /\ spans # {} /\ e.required \subseteq Services(spans) /\ Fine
    /\ Topology(spans, e.required, e.forbidden) /\ StagesPresent(spans, e.stages, e.forbiddenStages) /\ StageOrder(spans) /\ StatePath(spans, e.path) /\ ErrorMarking(spans, e.technical) /\ (e.retried > 0 => Retries(spans, "payment.authorize", e.retried))
<1> DEFINE r == Seen("")
<1> DEFINE W == WithStatus(TheRequest(""), e.status)
<1> DEFINE Asked == e.required
<1> DEFINE OwnOf(q) == {Result("topology", Topology(q.trace, e.required, e.forbidden)),
         Result("stages", StagesPresent(q.trace, e.stages, e.forbiddenStages)),
         Result("stage order", StageOrder(q.trace)),
         Result("state events", StatePath(q.trace, e.path)),
         Result("error marking", ErrorMarking(q.trace, e.technical)),
         Result("retry attempts", (e.retried > 0 => Retries(q.trace, "payment.authorize", e.retried)))}
<1> DEFINE S == FailedFlow(TheRequest(""), e)
<1>0. S = {Result("traces kept", FALSE) : x \in {y \in {0} : W = {}}} \cup
            (NotKept(W, Asked, "failure traces kept") \cup UNION {Common(q) \cup OwnOf(q) : q \in {p \in W : Stored(p, Asked)}})
  BY Zenon DEF FailedFlow, StoredTraces
<1>1. r.trace = spans /\ Common(r) # {} /\ ((\A x \in Common(r) : x.passed) <=> Fine)
  BY SeenIs, CommonIs
<1>2. Stored(r, Asked) <=> spans # {} /\ e.required \subseteq Services(spans)
  BY <1>1, Zenon DEF Stored
<1>3. (\A x \in OwnOf(r) : x.passed) <=>
          /\ Topology(spans, e.required, e.forbidden) /\ StagesPresent(spans, e.stages, e.forbiddenStages)
          /\ StageOrder(spans) /\ StatePath(spans, e.path) /\ ErrorMarking(spans, e.technical)
          /\ (e.retried > 0 => Retries(spans, "payment.authorize", e.retried))
  <2>1. /\ Topology(spans, e.required, e.forbidden) \in BOOLEAN
        /\ StagesPresent(spans, e.stages, e.forbiddenStages) \in BOOLEAN /\ StageOrder(spans) \in BOOLEAN
        /\ StatePath(spans, e.path) \in BOOLEAN /\ ErrorMarking(spans, e.technical) \in BOOLEAN
        /\ (e.retried > 0 => Retries(spans, "payment.authorize", e.retried)) \in BOOLEAN
    BY Truths
  <2>2. Result("topology", Topology(spans, e.required, e.forbidden)).passed <=> Topology(spans, e.required, e.forbidden)
    BY <2>1, Told
  <2>3. Result("stages", StagesPresent(spans, e.stages, e.forbiddenStages)).passed <=> StagesPresent(spans, e.stages, e.forbiddenStages)
    BY <2>1, Told
  <2>4. Result("stage order", StageOrder(spans)).passed <=> StageOrder(spans)
    BY <2>1, Told
  <2>5. Result("state events", StatePath(spans, e.path)).passed <=> StatePath(spans, e.path)
    BY <2>1, Told
  <2>6. Result("error marking", ErrorMarking(spans, e.technical)).passed <=> ErrorMarking(spans, e.technical)
    BY <2>1, Told
  <2>7. Result("retry attempts", (e.retried > 0 => Retries(spans, "payment.authorize", e.retried))).passed <=> (e.retried > 0 => Retries(spans, "payment.authorize", e.retried))
    BY <2>1, Told
  <2> HIDE DEF r
  <2> QED
    BY <1>1, <2>2, <2>3, <2>4, <2>5, <2>6, <2>7, Zenon
<1>4. CASE ~(StatusCode = e.status)
  <2>1. W = {}
    BY <1>4, SeenWith, Zenon
  <2> HIDE DEF W, S, OwnOf, Asked
  <2>2. S = {Result("traces kept", FALSE)}
    BY <1>0, <2>1 DEF NotKept
  <2>3. ~Result("traces kept", FALSE).passed
    BY DEF Result
  <2> QED
    BY <1>4, <2>2, <2>3, Zenon DEF Verdict, S
<1>5. CASE StatusCode = e.status
  <2>1. W = {r}
    BY <1>5, SeenWith, Zenon
  <2> HIDE DEF W, S, OwnOf, Asked, r
  <2>2. Stored(r, Asked) => S = Common(r) \cup OwnOf(r)
    BY <1>0, <2>1 DEF NotKept
  <2>3. ~Stored(r, Asked) => S = {Result("failure traces kept", FALSE)}
    BY <1>0, <2>1 DEF NotKept
  <2>4. Stored(r, Asked) \in BOOLEAN
    BY Zenon DEF Stored
  <2>5. /\ Common(r) \cup OwnOf(r) # {}
        /\ (\A x \in Common(r) \cup OwnOf(r) : x.passed) <=> (\A x \in Common(r) : x.passed) /\ \A x \in OwnOf(r) : x.passed
    BY <1>1, Zenon
  <2>6. Verdict(S) <=> Stored(r, Asked) /\ \A x \in Common(r) \cup OwnOf(r) : x.passed
    BY <2>2, <2>3, <2>4, <2>5, Judging
  <2> QED
    BY <1>1, <1>2, <1>3, <1>5, <2>5, <2>6, Zenon DEF S
<1> QED
  BY <1>4, <1>5

LEMMA DependencyUnavailableIs ==
  Verdict(DependencyUnavailable(TheRequest(""))) <=>
    /\ StatusCode = 504 /\ spans # {} /\ {Edge, OrderService, "payment-service"} \subseteq Services(spans) /\ Fine
    /\ ShippingMissing(spans) /\ Retries(spans, "shipping.create", 3) /\ StagesPresent(spans, CompensationStages, {})
<1> DEFINE r == Seen("")
<1> DEFINE W == WithStatus(TheRequest(""), 504)
<1> DEFINE Asked == {Edge, OrderService, "payment-service"}
<1> DEFINE OwnOf(q) == {Result("missing dependency visible", ShippingMissing(q.trace)),
         Result("retry attempts", Retries(q.trace, "shipping.create", 3)),
         Result("stages", StagesPresent(q.trace, CompensationStages, {}))}
<1> DEFINE S == DependencyUnavailable(TheRequest(""))
<1>0. S = {Result("missing dependency visible", FALSE) : x \in {y \in {0} : W = {}}} \cup
            (NotKept(W, Asked, "failure traces kept") \cup UNION {Common(q) \cup OwnOf(q) : q \in {p \in W : Stored(p, Asked)}})
  BY Zenon DEF DependencyUnavailable, StoredTraces
<1>1. r.trace = spans /\ Common(r) # {} /\ ((\A x \in Common(r) : x.passed) <=> Fine)
  BY SeenIs, CommonIs
<1>2. Stored(r, Asked) <=> spans # {} /\ {Edge, OrderService, "payment-service"} \subseteq Services(spans)
  BY <1>1, Zenon DEF Stored
<1>3. (\A x \in OwnOf(r) : x.passed) <=>
          /\ ShippingMissing(spans) /\ Retries(spans, "shipping.create", 3)
          /\ StagesPresent(spans, CompensationStages, {})
  <2>1. Retries(spans, "shipping.create", 3) \in BOOLEAN /\ StagesPresent(spans, CompensationStages, {}) \in BOOLEAN
    BY Truths
  <2>2. Result("missing dependency visible", ShippingMissing(spans)).passed <=> ShippingMissing(spans)
    BY Told, Zenon DEF ShippingMissing
  <2>3. Result("retry attempts", Retries(spans, "shipping.create", 3)).passed <=> Retries(spans, "shipping.create", 3)
    BY <2>1, Told
  <2>4. Result("stages", StagesPresent(spans, CompensationStages, {})).passed <=> StagesPresent(spans, CompensationStages, {})
    BY <2>1, Told
  <2> HIDE DEF r
  <2> QED
    BY <1>1, <2>2, <2>3, <2>4, Zenon
<1>4. CASE ~(StatusCode = 504)
  <2>1. W = {}
    <3>1. PICK n : n = 504
      OBVIOUS
    <3>2. W = WithStatus(TheRequest(""), n) /\ StatusCode # n
      BY <1>4, <3>1
    <3> HIDE DEF W
    <3> QED
      BY <3>2, SeenWith, Zenon
  <2> HIDE DEF W, S, OwnOf, Asked
  <2>2. S = {Result("missing dependency visible", FALSE)}
    BY <1>0, <2>1 DEF NotKept
  <2>3. ~Result("missing dependency visible", FALSE).passed
    BY DEF Result
  <2> QED
    BY <1>4, <2>2, <2>3, Zenon DEF Verdict, S
<1>5. CASE StatusCode = 504
  <2>1. W = {r}
    <3>1. PICK n : n = 504
      OBVIOUS
    <3>2. W = WithStatus(TheRequest(""), n) /\ StatusCode = n
      BY <1>5, <3>1
    <3> HIDE DEF W, r
    <3>3. r = Seen("")
      BY DEF r
    <3> QED
      BY <3>2, <3>3, SeenWith, Zenon
  <2> HIDE DEF W, S, OwnOf, Asked, r
  <2>2. Stored(r, Asked) => S = Common(r) \cup OwnOf(r)
    BY <1>0, <2>1 DEF NotKept
  <2>3. ~Stored(r, Asked) => S = {Result("failure traces kept", FALSE)}
    BY <1>0, <2>1 DEF NotKept
  <2>4. Stored(r, Asked) \in BOOLEAN
    BY Zenon DEF Stored
  <2>5. /\ Common(r) \cup OwnOf(r) # {}
        /\ (\A x \in Common(r) \cup OwnOf(r) : x.passed) <=> (\A x \in Common(r) : x.passed) /\ \A x \in OwnOf(r) : x.passed
    BY <1>1, Zenon
  <2>6. Verdict(S) <=> Stored(r, Asked) /\ \A x \in Common(r) \cup OwnOf(r) : x.passed
    BY <2>2, <2>3, <2>4, <2>5, Judging
  <2> QED
    BY <1>1, <1>2, <1>3, <1>5, <2>5, <2>6, Zenon DEF S
<1> QED
  BY <1>4, <1>5

LEMMA PodDeletionIs ==
  Verdict(FailuresKept(TheRequest(""))) <=>
    /\ StatusCode \in {503, 504} /\ spans # {} /\ {OrderService} \subseteq Services(spans) /\ Fine
<1> DEFINE r == Seen("")
<1> DEFINE W == {x \in TheRequest("") : x.status \in {503, 504}}
<1> DEFINE S == FailuresKept(TheRequest(""))
<1>0. S = NotKept(W, {OrderService}, "failure traces kept") \cup UNION {Common(q) : q \in {p \in W : Stored(p, {OrderService})}}
  BY Zenon DEF FailuresKept, StoredTraces
<1>1. TheRequest("") = {r} /\ r.status = StatusCode /\ r.trace = spans
  BY SeenIs
<1>2. Common(r) # {} /\ ((\A x \in Common(r) : x.passed) <=> Fine)
  BY CommonIs
<1>3. Stored(r, {OrderService}) <=> spans # {} /\ {OrderService} \subseteq Services(spans)
  BY <1>1, Zenon DEF Stored
<1>4. CASE StatusCode \notin {503, 504}
  <2>1. W = {}
    BY <1>1, <1>4
  <2> HIDE DEF W, S
  <2>2. S = {}
    BY <1>0, <2>1 DEF NotKept
  <2> QED
    BY <1>4, <2>2, Zenon DEF Verdict, S
<1>5. CASE StatusCode \in {503, 504}
  <2>1. W = {r}
    <3>1. \A x : x \in W <=> x \in TheRequest("") /\ x.status \in {503, 504}
      BY Zenon
    <3> HIDE DEF W, r
    <3>2. \A x \in W : x = r
      BY <1>1, <3>1, Zenon
    <3>3. r.status \in {503, 504}
      BY <1>1, <1>5
    <3>4. r \in TheRequest("")
      BY <1>1
    <3>5. r \in W
      BY <3>1, <3>3, <3>4
    <3> QED
      BY <3>2, <3>5, Zenon
  <2> HIDE DEF W, S, r
  <2>2. Stored(r, {OrderService}) => S = Common(r)
    BY <1>0, <2>1 DEF NotKept
  <2>3. ~Stored(r, {OrderService}) => S = {Result("failure traces kept", FALSE)}
    BY <1>0, <2>1 DEF NotKept
  <2>4. Stored(r, {OrderService}) \in BOOLEAN
    BY Zenon DEF Stored
  <2>5. Verdict(S) <=> Stored(r, {OrderService}) /\ \A x \in Common(r) : x.passed
    BY <1>2, <2>2, <2>3, <2>4, Judging
  <2> QED
    BY <1>2, <1>3, <1>5, <2>5, Zenon DEF S
<1> QED
  BY <1>4, <1>5

\* The checks of a trace that has to be complete.
LEMMA CompleteIs ==
  ASSUME NEW label
  PROVE  /\ Complete(TheRequest(label), label) # {}
         /\ (\A x \in Complete(TheRequest(label), label) : x.passed) <=>
              spans # {} /\ AllServices \subseteq Services(spans) /\ Fine /\ StatePath(spans, FullPath)
<1> DEFINE r == Seen(label)
<1> DEFINE W == Labelled(TheRequest(label), label)
<1> DEFINE Own == {Result("state events", StatePath(r.trace, FullPath))}
<1> DEFINE OwnOf(q) == {Result("state events", StatePath(q.trace, FullPath))}
<1> DEFINE S == Complete(TheRequest(label), label)
<1>0. S = NotKept(W, AllServices, "complete traces")
            \cup UNION {Common(q) \cup OwnOf(q) : q \in {p \in W : Stored(p, AllServices)}}
  BY Zenon DEF Complete, StoredTraces
<1>1. W = {r} /\ r.trace = spans
  BY SeenIs
<1>2. Common(r) # {} /\ ((\A x \in Common(r) : x.passed) <=> Fine)
  BY CommonIs
<1>3. Stored(r, AllServices) <=> spans # {} /\ AllServices \subseteq Services(spans)
  BY <1>1, Zenon DEF Stored
<1>4. (\A x \in Own : x.passed) <=> StatePath(spans, FullPath)
  <2>1. StatePath(spans, FullPath) \in BOOLEAN
    BY Truths
  <2>2. Result("state events", StatePath(spans, FullPath)).passed <=> StatePath(spans, FullPath)
    BY <2>1, Told
  <2> QED
    BY <1>1, <2>2, Zenon
<1>5. OwnOf(r) = Own
  OBVIOUS
<1> HIDE DEF W, S, r, Own, OwnOf
<1>6. CASE Stored(r, AllServices)
  <2>1. S = Common(r) \cup Own
    BY <1>0, <1>1, <1>5, <1>6 DEF NotKept
  <2> QED
    BY <1>2, <1>3, <1>4, <1>6, <2>1, Zenon DEF S
<1>7. CASE ~Stored(r, AllServices)
  <2>1. S = {Result("complete traces", FALSE)}
    BY <1>0, <1>1, <1>7 DEF NotKept
  <2>2. ~Result("complete traces", FALSE).passed
    BY DEF Result
  <2> QED
    BY <1>3, <1>7, <2>1, <2>2, Zenon DEF S
<1> QED
  BY <1>6, <1>7

LEMMA StorageOutageIs ==
  Verdict(TraceStorageOutage(TheRequest("during-outage"), 1, 2)) <=>
    spans # {} /\ AllServices \subseteq Services(spans) /\ Fine /\ StatePath(spans, FullPath)
<1> DEFINE label == "during-outage"
<1> DEFINE C == Complete(TheRequest(label), label)
<1>1. /\ C # {}
      /\ (\A x \in C : x.passed) <=>
           spans # {} /\ AllServices \subseteq Services(spans) /\ Fine /\ StatePath(spans, FullPath)
  BY CompleteIs
<1>2. Result("traces from the outage delivered later", Labelled(TheRequest(label), label) # {}).passed
  <2>1. Labelled(TheRequest(label), label) # {}
    BY SeenIs
  <2> QED
    BY <2>1, Told
<1>3. Result("writes waited in a bounded queue while the storage was down", 1 > 0 /\ (2 = 0 \/ 1 < 2)).passed
  <2> DEFINE Q == 1 > 0 /\ (2 = 0 \/ 1 < 2)
  <2>1. Q \in BOOLEAN /\ Q
    OBVIOUS
  <2> HIDE DEF Q
  <2>2. Result("writes waited in a bounded queue while the storage was down", Q).passed
    BY <2>1, Told
  <2> QED
    BY <2>2 DEF Q
<1>4. Verdict(TraceStorageOutage(TheRequest(label), 1, 2)) <=> \A x \in C : x.passed
  BY <1>2, <1>3, Zenon DEF Verdict, TraceStorageOutage
<1> QED
  BY <1>1, <1>4, Zenon

LEMMA CollectorOutageIs ==
  ASSUME Verdict(CollectorOutage(TheRequest("during-outage")))
  PROVE  OrderService \notin Services(spans)
<1> DEFINE r == Seen("during-outage")
<1> DEFINE during == Labelled(TheRequest("during-outage"), "during-outage")
<1> DEFINE P == during # {} /\ \A x \in during : OrderService \notin Services(x.trace)
<1>1. during = {r} /\ r.trace = spans
  BY SeenIs
<1>2. Result("spans from the outage window are missing", P).passed
  BY Zenon DEF Verdict, CollectorOutage
<1>3. P \in BOOLEAN
  OBVIOUS
<1>4. P
  <2> HIDE DEF P
  <2> QED
    BY <1>2, <1>3, Told
<1> QED
  BY <1>1, <1>4, Zenon

-----------------------------------------------------------------------------
(* How an order has ended.                                                  *)

\* A completed order.
Went == path = FullPath /\ Final = "Completed" /\ StatusCode = 201 /\ ~Technical /\ (\A s \in Stages : results[s] = "ok")
        /\ results[Void] = "" /\ results[Release] = ""

\* The answer for a failure with result r.
CodeFor(r) == [rejected |-> 422, error |-> 502, unavailable |-> 503, timeout |-> 504][r]

\* An order that failed at stage s, after its undo steps.
Gone(s) ==
    /\ path = PathOf(s) /\ Final = FailureState(s) /\ FailedStage = s
    /\ results[s] \in {"rejected", "error", "unavailable", "timeout"}
    /\ StatusCode = CodeFor(results[s])
    /\ \A b \in StagesBefore(s) : results[b] = "ok"
    /\ s = "inventory.reserve" => results["fraud.evaluate"] # ""
    /\ \A b \in Stages \ (StagesBefore(s) \cup {s, "fraud.evaluate"}) : results[b] = ""
    /\ results[Void] # "" <=> Voids(s)
    /\ results[Release] # "" <=> Releases(s)

\* The last states of the paths.
LEMMA LastStates ==
  /\ Last(FullPath) = "Completed"
  /\ \A s \in Stages : Last(PathOf(s)) = FailureState(s)
<1>1. /\ \A a : Last(<<a>>) = a
      /\ \A a, b : Last(<<a, b>>) = b
      /\ \A a, b, c : Last(<<a, b, c>>) = c
      /\ \A a, b, c, d : Last(<<a, b, c, d>>) = d
  BY DEF Last
<1>2. Last(FullPath) = "Completed"
  BY <1>1 DEF FullPath
<1>3. ASSUME NEW s \in Stages PROVE Last(PathOf(s)) = FailureState(s)
  <2>1. CASE s = "inventory.reserve"
    BY <1>1, <2>1 DEF PathOf, FailureState
  <2>2. CASE s = "fraud.evaluate"
    BY <1>1, <2>2 DEF PathOf, FailureState
  <2>3. CASE s = "payment.authorize"
    <3>1. PathOf(s) = <<"InventoryReserved", "PaymentFailed">> /\ FailureState(s) = "PaymentFailed"
      BY <2>3 DEF PathOf, FailureState
    <3>2. Last(<<"InventoryReserved", "PaymentFailed">>) = "PaymentFailed"
      BY <1>1
    <3> QED
      BY <3>1, <3>2, Zenon
  <2>4. CASE s = "shipping.create"
    <3>1. PathOf(s) = <<"InventoryReserved", "PaymentAuthorized", "ShippingFailed">> /\ FailureState(s) = "ShippingFailed"
      BY <2>4 DEF PathOf, FailureState
    <3>2. Last(<<"InventoryReserved", "PaymentAuthorized", "ShippingFailed">>) = "ShippingFailed"
      BY <1>1
    <3> QED
      BY <3>1, <3>2, Zenon
  <2> QED
    BY <2>1, <2>2, <2>3, <2>4 DEF Stages
<1> QED
  BY <1>2, <1>3

\* An order's last state tells at which stage it failed.
LEMMA StatesDiffer ==
  /\ \A s \in Stages : FailureState(s) # "Completed" /\ \A z \in Stages : FailureState(s) = FailureState(z) => s = z
  /\ \A s \in Stages : PathOf(s) # FullPath /\ \A z \in Stages : PathOf(s) = PathOf(z) => s = z
<1>1. \A s \in Stages : FailureState(s) # "Completed" /\ \A z \in Stages : FailureState(s) = FailureState(z) => s = z
  BY DEF FailureState, Stages
<1>2. \A s \in Stages : PathOf(s) # FullPath /\ \A z \in Stages : PathOf(s) = PathOf(z) => s = z
  BY <1>1, LastStates
<1> QED
  BY <1>1, <1>2

\* The answer is a server error exactly for the technical failures.
LEMMA CodeIs ==
  ASSUME NEW r \in {"rejected", "error", "unavailable", "timeout"}
  PROVE  LET code == CodeFor(r)
         IN  /\ code \in {422, 502, 503, 504} /\ (code >= 500 <=> r # "rejected")
             /\ (code = 502 <=> r = "error") /\ (code = 504 <=> r = "timeout") /\ (code = 503 <=> r = "unavailable")
             /\ (code = 422 <=> r = "rejected")
<1>1. CASE r = "rejected"
  BY <1>1 DEF CodeFor
<1>2. CASE r = "error"
  BY <1>2 DEF CodeFor
<1>3. CASE r = "unavailable"
  BY <1>3 DEF CodeFor
<1>4. CASE r = "timeout"
  BY <1>4 DEF CodeFor
<1> QED
  BY <1>1, <1>2, <1>3, <1>4

\* An answered order was completed or failed at one stage.
LEMMA EndIs ==
  ASSUME Typed, Course, pc \in Ended
  PROVE  Went \/ \E s \in Stages : Gone(s)
<1>1. pc \notin AllStages
  BY StageNames
<1>2. CASE GoesWell
  <2>1. path = FullPath /\ (\A s \in Stages : results[s] = "ok") /\ results[Void] = "" /\ results[Release] = ""
    BY <1>1, <1>2, StageNames DEF GoesWell
  <2>2. Final = "Completed"
    BY <2>1, LastStates DEF Final
  <2>3. StatusCode = 201 /\ ~Technical
    BY <2>2 DEF StatusCode, Technical
  <2> QED
    BY <2>1, <2>2, <2>3 DEF Went
<1>3. CASE \E s \in Stages : FailedAt(s)
  <2>1. PICK s \in Stages : FailedAt(s)
    BY <1>3
  <2>2. undo = << >>
    BY <1>1, <2>1, Plans, StageNames DEF FailedAt
  <2>3. Final = FailureState(s)
    BY <2>1, LastStates DEF Final, FailedAt
  <2>4. FailedStage = s
    <3>1. FailedStage \in Stages /\ FailureState(FailedStage) = Final
      BY <2>3, Zenon DEF FailedStage
    <3>2. \A z \in Stages : FailureState(s) = FailureState(z) => s = z
      BY StatesDiffer
    <3> QED
      BY <2>3, <3>1, <3>2, Zenon
  <2>5. results[s] \in {"rejected", "error", "unavailable", "timeout"}
    <3>1. s \in AllStages /\ results[s] # "" /\ results[s] # "ok"
      BY <2>1, StageNames DEF FailedAt
    <3>2. results[s] \in Endings \cup {""}
      BY <3>1 DEF Typed
    <3> QED
      BY <3>1, <3>2 DEF Endings
  <2>6. StatusCode = CodeFor(results[s])
    <3>1. Final # "Completed"
      BY <2>3, StatesDiffer
    <3>2. StatusCode = IF Final = "Completed" THEN 201 ELSE CodeFor(results[FailedStage])
      BY Zenon DEF StatusCode, CodeFor
    <3> QED
      BY <2>4, <3>1, <3>2
  <2>7. /\ path = PathOf(s)
        /\ \A b \in StagesBefore(s) : results[b] = "ok"
        /\ s = "inventory.reserve" => results["fraud.evaluate"] # ""
        /\ \A b \in Stages \ (StagesBefore(s) \cup {s, "fraud.evaluate"}) : results[b] = ""
        /\ results[Void] # "" <=> Voids(s)
        /\ results[Release] # "" <=> Releases(s)
    BY <2>1, <2>2, Plans DEF FailedAt
  <2> QED
    BY <2>3, <2>4, <2>5, <2>6, <2>7 DEF Gone
<1> QED
  BY <1>2, <1>3 DEF Course

-----------------------------------------------------------------------------
(* The spans around those of the stages, one by one.                        *)

\* Kong's spans.
Root == MakeSpan(<<"kong", 0>>, NoParent, Edge, "kong", "SERVER", 0, clock + 2)
Balancer ==
    [MakeSpan(<<"kong.balancer", IF Technical THEN 1 ELSE 0>>, <<"kong", 0>>, Edge, "kong.balancer", "CLIENT", 1, clock + 1) EXCEPT
       !.httpStatus = StatusCode, !.status = IF Technical THEN "ERROR" ELSE "UNSET"]

\* The spans around those of the stages, by name,
LEMMA FrameSpans == Frame = {TransactionSpan, Root, Balancer, ServerSpanOf}
<1>1. KongSpans = {Root, Balancer}
  BY Zenon DEF KongSpans, Root, Balancer
<1> QED
  BY <1>1 DEF Frame

\* What the spans around the stages are, each by itself.
RootIs ==
    /\ Root.id = <<"kong", 0>> /\ Root.parent = NoParent /\ Root.service = Edge /\ Root.name = "kong"
    /\ Root.kind = "SERVER" /\ Root.start = 0 /\ Root.end = clock + 2 /\ Plain(Root)

BalancerIs ==
    /\ Balancer.parent = <<"kong", 0>> /\ Balancer.service = Edge /\ Balancer.name = "kong.balancer"
    /\ (Technical => Balancer.id = <<"kong.balancer", 1>>) /\ (~Technical => Balancer.id = <<"kong.balancer", 0>>)
    /\ Balancer.kind = "CLIENT" /\ Balancer.start = 1 /\ Balancer.end = clock + 1
    /\ Balancer.httpStatus = StatusCode /\ (Technical => Balancer.status = "ERROR") /\ Plain(Balancer)

ServerIsOf ==
    /\ ServerSpanOf.id = <<"order.server", 0>> /\ ServerSpanOf.parent = <<"kong.balancer", 0>>
    /\ ServerSpanOf.service = OrderService /\ ServerSpanOf.name = "POST /orders" /\ ServerSpanOf.kind = "SERVER"
    /\ ServerSpanOf.start = 1 /\ ServerSpanOf.end = clock + 1 /\ Plain(ServerSpanOf)

TransactionIs ==
    /\ TransactionSpan.id = <<"order.transaction", 0>> /\ TransactionSpan.parent = <<"order.server", 0>>
    /\ TransactionSpan.service = OrderService /\ TransactionSpan.name = "order.transaction"
    /\ TransactionSpan.kind = "INTERNAL" /\ TransactionSpan.start = 2 /\ TransactionSpan.end = clock
    /\ TransactionSpan.states = path /\ TransactionSpan.state = Final
    /\ (TransactionSpan.status = "ERROR" <=> Technical) /\ Plain(TransactionSpan)

\* and what they show.
LEMMA FrameFacts ==
  ASSUME Typed
  PROVE  RootIs /\ BalancerIs /\ ServerIsOf /\ TransactionIs
<1>1. clock \in Nat
  BY TypedNumbers
<1>2. clock + 1 \in Nat /\ clock + 2 \in Nat
  BY <1>1
<1>3. RootIs
  BY <1>2 DEF RootIs, Root, MakeSpan, Plain, Request
<1>4. BalancerIs
  <2>1. CASE Technical
    BY <1>2, <2>1 DEF BalancerIs, Balancer, MakeSpan, Plain, Request
  <2>2. CASE ~Technical
    BY <1>2, <2>2 DEF BalancerIs, Balancer, MakeSpan, Plain, Request
  <2> QED
    BY <2>1, <2>2
<1>5. ServerIsOf
  BY <1>2 DEF ServerIsOf, ServerSpanOf, MakeSpan, Plain, Request
<1>6. TransactionIs
  <2>1. CASE Technical
    BY <1>1, <2>1 DEF TransactionIs, TransactionSpan, MakeSpan, Plain, Request
  <2>2. CASE ~Technical
    BY <1>1, <2>2 DEF TransactionIs, TransactionSpan, MakeSpan, Plain, Request
  <2> QED
    BY <2>1, <2>2
<1> QED
  BY <1>3, <1>4, <1>5, <1>6

\* The names tell the spans of the stages from each other and from the rest.
LEMMA NamesTell ==
  ASSUME Typed, NEW t, Logged(t), NEW x \in t
  PROVE  /\ x.name \in AllStages \cup {"POST", "server", "POST /authorizations"}
         /\ \A s \in AllStages : x.name = s => x.id = <<s, 0>> /\ StageLike(x, s)
<1>1. PICK s \in AllStages : StageLike(x, s) \/ \E k \in 1..3 : ClientLike(x, s, k) \/ ServerLike(x, s, k)
  BY SpanKinds
<1>2. \A z \in AllStages : z \notin {"POST", "server", "POST /authorizations"}
  BY StageNames DEF Void, Release
<1>3. CASE StageLike(x, s)
  BY <1>3 DEF StageLike
<1>4. CASE ~StageLike(x, s)
  <2>1. PICK k \in 1..3 : ClientLike(x, s, k) \/ ServerLike(x, s, k)
    BY <1>1, <1>4
  <2>2. x.name \in {"POST", "server", "POST /authorizations"}
    BY <2>1 DEF ClientLike, ServerLike
  <2> QED
    BY <1>2, <2>2
<1> QED
  BY <1>3, <1>4

\* The identifiers tell what a span of a stage is.
LEMMA IdsTell ==
  ASSUME Typed, NEW t, Logged(t), NEW x \in t, NEW s \in AllStages, NEW k \in 1..3
  PROVE  /\ x.id = <<s, k>> => ClientLike(x, s, k)
         /\ x.id = <<s, 9 + k>> => ServerLike(x, s, k)
         /\ x.id = <<s, 0>> => StageLike(x, s)
<1>1. PICK z \in AllStages : StageLike(x, z) \/ \E j \in 1..3 : ClientLike(x, z, j) \/ ServerLike(x, z, j)
  BY SpanKinds
<1>2. \A a, b, c, d : <<a, b>> = <<c, d>> => a = c /\ b = d
  OBVIOUS
<1>3. CASE StageLike(x, z)
  <2>1. x.id = <<z, 0>> /\ k # 0 /\ 9 + k # 0
    BY <1>3 DEF StageLike
  <2> QED
    BY <1>2, <1>3, <2>1
<1>4. ASSUME NEW j \in 1..3, ClientLike(x, z, j)
      PROVE  /\ x.id = <<s, k>> => ClientLike(x, s, k)
             /\ x.id # <<s, 9 + k>> /\ x.id # <<s, 0>>
  <2>1. x.id = <<z, j>> /\ j # 0 /\ 9 + k # j
    BY <1>4 DEF ClientLike
  <2> QED
    BY <1>2, <1>4, <2>1
<1>5. ASSUME NEW j \in 1..3, ServerLike(x, z, j)
      PROVE  /\ x.id = <<s, 9 + k>> => ServerLike(x, s, k)
             /\ x.id # <<s, k>> /\ x.id # <<s, 0>>
  <2>1. x.id = <<z, 9 + j>>
    BY <1>5 DEF ServerLike
  <2>2. 9 + j # 0 /\ 9 + j # k /\ (9 + j = 9 + k => j = k)
    OBVIOUS
  <2> QED
    BY <1>2, <1>5, <2>1, <2>2
<1> QED
  BY <1>1, <1>3, <1>4, <1>5

-----------------------------------------------------------------------------
(* The types of an order and its trace.                                     *)

\* The members of short lists.
LEMMA RangeIs ==
  /\ Range(<< >>) = {} /\ \A a : Range(<<a>>) = {a}
  /\ \A a, b : Range(<<a, b>>) = {a, b}
  /\ \A a, b, c : Range(<<a, b, c>>) = {a, b, c}
  /\ \A a, b, c, d : Range(<<a, b, c, d>>) = {a, b, c, d}
<1>1. ASSUME NEW a, NEW b, NEW c, NEW d
      PROVE  /\ DOMAIN << >> = {} /\ DOMAIN <<a>> = {1} /\ DOMAIN <<a, b>> = {1, 2}
             /\ DOMAIN <<a, b, c>> = {1, 2, 3} /\ DOMAIN <<a, b, c, d>> = {1, 2, 3, 4}
  OBVIOUS
<1> QED
  BY <1>1 DEF Range

\* What an order was and became.
LEMMA CourseTyped ==
  ASSUME Course
  PROVE  /\ Range(path) \subseteq Range(FullPath) \cup {FailureState(s) : s \in Stages}
         /\ Range(undo) \subseteq CompensationStages
<1>1. Range(FullPath) = {"InventoryReserved", "PaymentAuthorized", "ShipmentCreated", "Completed"}
  BY RangeIs DEF FullPath
<1>2. \A s \in Stages : FailureState(s) \in {FailureState(z) : z \in Stages}
  OBVIOUS
<1>3. ASSUME NEW s \in Stages
      PROVE  /\ Range(PathTo(s)) \subseteq Range(FullPath)
             /\ Range(PathOf(s)) \subseteq Range(FullPath) \cup {FailureState(s)}
  <2>1. Range(PathTo(s)) \subseteq {"InventoryReserved", "PaymentAuthorized"}
    <3>1. PathTo(s) \in {<< >>, <<"InventoryReserved">>, <<"InventoryReserved", "PaymentAuthorized">>}
      BY DEF PathTo
    <3>2. Range(PathTo(s)) \in {{}, {"InventoryReserved"}, {"InventoryReserved", "PaymentAuthorized"}}
      BY <3>1, RangeIs
    <3> QED
      BY <3>2
  <2>2. Range(PathOf(s)) \subseteq {"InventoryReserved", "PaymentAuthorized", FailureState(s)}
    <3>1. \/ PathOf(s) = <<FailureState(s)>> \/ PathOf(s) = <<"InventoryReserved", FailureState(s)>>
          \/ PathOf(s) = <<"InventoryReserved", "PaymentAuthorized", FailureState(s)>>
      BY DEF PathOf, FailureState, Stages
    <3>2. PICK f : f = FailureState(s)
      OBVIOUS
    <3>3. /\ Range(<<f>>) = {f} /\ Range(<<"InventoryReserved", f>>) = {"InventoryReserved", f}
          /\ Range(<<"InventoryReserved", "PaymentAuthorized", f>>) = {"InventoryReserved", "PaymentAuthorized", f}
      BY RangeIs
    <3>4. Range(PathOf(s)) \in {{f}, {"InventoryReserved", f}, {"InventoryReserved", "PaymentAuthorized", f}}
      BY <3>1, <3>2, <3>3, Zenon
    <3> QED
      BY <3>2, <3>4
  <2> QED
    BY <1>1, <2>1, <2>2
<1>4. CASE GoesWell
  <2>1. Range(path) \subseteq Range(FullPath)
    BY <1>3, <1>4 DEF GoesWell
  <2>2. Range(undo) = {}
    BY <1>4, RangeIs DEF GoesWell
  <2> QED
    BY <2>1, <2>2
<1>5. CASE \E s \in Stages : FailedAt(s)
  <2>1. PICK s \in Stages : FailedAt(s)
    BY <1>5
  <2>2. Range(path) \subseteq Range(FullPath) \cup {FailureState(s)}
    BY <1>3, <2>1 DEF FailedAt
  <2>3. undo \in {<< >>, JustRelease, VoidAndRelease}
    BY <2>1 DEF FailedAt
  <2>4. Range(undo) \subseteq {Void, Release}
    <3>1. Range(undo) \in {{}, {Release}, {Void, Release}}
      BY <2>3, RangeIs DEF JustRelease, VoidAndRelease
    <3> QED
      BY <3>1
  <2> QED
    BY <1>2, <2>2, <2>4, StageNames
<1> QED
  BY <1>4, <1>5 DEF Course

\* The spans around those of the stages.
Surrounds(x) ==
    /\ x.service \in {Edge, OrderService} /\ x.start \in Nat /\ x.end \in Nat /\ x.start <= x.end
    /\ x.id[1] \in {"order.transaction", "order.server", "kong", "kong.balancer"} /\ Plain(x)

\* The spans around those of the stages fit around them.
LEMMA FrameIs ==
  ASSUME Typed, 2 <= clock
  PROVE  \A x \in Frame : Surrounds(x)
<1>1. clock \in Nat /\ 1 <= clock + 1 /\ 0 <= clock + 2 /\ clock + 1 \in Nat /\ clock + 2 \in Nat
  BY TypedNumbers
<1>2. RootIs /\ BalancerIs /\ ServerIsOf /\ TransactionIs /\ \A a, b : <<a, b>>[1] = a
  BY FrameFacts
<1>3. Surrounds(Root)
  <2>1. Root.service = Edge /\ Root.start = 0 /\ Root.end = clock + 2 /\ Plain(Root)
    BY <1>2, Zenon DEF RootIs
  <2>2. \E n : Root.id = <<"kong", n>>
    BY <1>2, Zenon DEF RootIs
  <2>3. Root.id[1] = "kong"
    BY <1>2, <2>2
  <2>4. Root.start \in Nat /\ Root.end \in Nat /\ Root.start <= Root.end
    BY <1>1, <2>1
  <2> QED
    BY <2>1, <2>3, <2>4 DEF Surrounds
<1>4. Surrounds(Balancer)
  <2>1. Balancer.service = Edge /\ Balancer.start = 1 /\ Balancer.end = clock + 1 /\ Plain(Balancer)
    BY <1>2, Zenon DEF BalancerIs
  <2>2. \E n : Balancer.id = <<"kong.balancer", n>>
    BY <1>2, Zenon DEF BalancerIs
  <2>3. Balancer.id[1] = "kong.balancer"
    BY <1>2, <2>2
  <2>4. Balancer.start \in Nat /\ Balancer.end \in Nat /\ Balancer.start <= Balancer.end
    BY <1>1, <2>1
  <2> QED
    BY <2>1, <2>3, <2>4 DEF Surrounds
<1>5. Surrounds(ServerSpanOf)
  <2>1. ServerSpanOf.service = OrderService /\ ServerSpanOf.start = 1 /\ ServerSpanOf.end = clock + 1 /\ Plain(ServerSpanOf)
    BY <1>2, Zenon DEF ServerIsOf
  <2>2. \E n : ServerSpanOf.id = <<"order.server", n>>
    BY <1>2, Zenon DEF ServerIsOf
  <2>3. ServerSpanOf.id[1] = "order.server"
    BY <1>2, <2>2
  <2>4. ServerSpanOf.start \in Nat /\ ServerSpanOf.end \in Nat /\ ServerSpanOf.start <= ServerSpanOf.end
    BY <1>1, <2>1
  <2> QED
    BY <2>1, <2>3, <2>4 DEF Surrounds
<1>6. Surrounds(TransactionSpan)
  <2>1. TransactionSpan.service = OrderService /\ TransactionSpan.start = 2 /\ TransactionSpan.end = clock /\ Plain(TransactionSpan)
    BY <1>2, Zenon DEF TransactionIs
  <2>2. \E n : TransactionSpan.id = <<"order.transaction", n>>
    BY <1>2, Zenon DEF TransactionIs
  <2>3. TransactionSpan.id[1] = "order.transaction"
    BY <1>2, <2>2
  <2>4. TransactionSpan.start \in Nat /\ TransactionSpan.end \in Nat /\ TransactionSpan.start <= TransactionSpan.end
    BY <1>1, <2>1
  <2> QED
    BY <2>1, <2>3, <2>4 DEF Surrounds
<1> QED
  BY <1>3, <1>4, <1>5, <1>6, FrameSpans

\* What is left of the trace after the pipeline, span by span.
LEMMA SpansOfTrace ==
  ASSUME OrderInv, NEW x \in spans
  PROVE  x.service \in AllServices /\ x.start <= x.end
<1>1. Typed
  BY DEF OrderInv
<1>2. ASSUME NEW full, Whole(full), pc \in Ended, NEW y \in full PROVE y.service \in AllServices /\ y.start <= y.end
  <2>1. PICK t : Logged(t) /\ full = t \cup Frame
    BY <1>2 DEF Whole
  <2>2. 2 <= clock
    <3>1. clock = joined /\ 3 <= joined
      BY <1>2, <2>1 DEF Logged, Timeline
    <3>2. clock \in Nat
      BY <1>1, TypedNumbers
    <3> QED
      BY <3>1, <3>2
  <2>3. Fits(y) \/ Surrounds(y)
    BY <1>1, <1>2, <2>1, <2>2, SpansFit, FrameIs
  <2> QED
    BY <2>3 DEF Fits, Surrounds, AllServices
<1>3. CASE pc \in AllStages \cup {"answer"}
  <2>1. Logged(spans)
    BY <1>3 DEF OrderInv
  <2>2. Fits(x)
    BY <1>1, <2>1, SpansFit
  <2> QED
    BY <2>2 DEF Fits, AllServices
<1>4. CASE pc = "export"
  BY <1>2, <1>4 DEF OrderInv, Ended
<1>5. CASE pc = "judged"
  <2>1. PICK full : Whole(full) /\ Left(full)
    BY <1>5 DEF OrderInv
  <2>2. \E y \in full : x.service = y.service /\ x.start = y.start /\ x.end = y.end
    BY <2>1 DEF Left
  <2>3. pc \in Ended
    BY <1>5 DEF Ended
  <2>4. PICK y \in full : x.service = y.service /\ x.start = y.start /\ x.end = y.end
    BY <2>2
  <2>5. y.service \in AllServices /\ y.start <= y.end
    BY <1>2, <2>1, <2>3, <2>4
  <2> QED
    BY <2>4, <2>5
<1> QED
  BY <1>1, <1>3, <1>4, <1>5 DEF Typed, Ended

\* The invariant implies the types of the order and its trace.
LEMMA TraceTyping == OrderInv => TraceTypeOK
<1> SUFFICES ASSUME OrderInv PROVE TraceTypeOK
  OBVIOUS
<1>1. Typed /\ Course
  BY DEF OrderInv
<1>2. \A s \in spans : s.service \in AllServices /\ s.start <= s.end
  BY SpansOfTrace
<1>3. authorized \in 0..(Restarts + 1)
  <2>1. PICK t : Logged(t)
    BY LogThere
  <2>2. authorized <= restarts + Remembered(response)
    BY <2>1 DEF Logged, Payments
  <2>3. Remembered(response) \in {0, 1}
    BY DEF Remembered
  <2>4. authorized \in Nat /\ restarts \in 0..Restarts
    BY <1>1 DEF Typed
  <2> QED
    BY <2>2, <2>3, <2>4, TroubleAssumption
<1>4. pc \in AllStages \cup {"answer", "export", "judged"}
  BY <1>1 DEF Typed, Ended
<1>5. \A s \in AllStages : results[s] \in {"", "ok", "rejected", "error", "unavailable", "timeout"}
  BY <1>1 DEF Typed, Endings
<1>6. clock \in Nat /\ opened \in Nat /\ joined \in Nat /\ attempt \in 0..2
  BY <1>1 DEF Typed
<1>7. response \in {"none", "authorized", "declined"} /\ restarts \in 0..Restarts /\ damage \in {"none", "lost", "batch", "attribute"}
  BY <1>1 DEF Typed
<1> QED
  BY <1>1, <1>2, <1>3, <1>4, <1>5, <1>6, <1>7, CourseTyped DEF TraceTypeOK

-----------------------------------------------------------------------------
(* Reading a stored trace.                                                  *)

\* The trace of an order that has been answered: t from its stages.
Answered(t, full) == Typed /\ Course /\ pc \in Ended /\ Logged(t) /\ full = t \cup Frame

\* A judged trace is what the pipeline left of a whole one.
LEMMA JudgedTrace ==
  ASSUME OrderInv, pc = "judged"
  PROVE  \E t, full : Answered(t, full) /\ Left(full)
<1>1. PICK full : Whole(full) /\ Left(full)
  BY DEF OrderInv
<1>2. PICK t : Logged(t) /\ full = t \cup Frame
  BY <1>1 DEF Whole
<1> QED
  BY <1>1, <1>2 DEF OrderInv, Answered, Ended

\* Which span is which.
LEMMA Which ==
  ASSUME NEW t, NEW full, Answered(t, full), NEW x \in full
  PROVE  /\ x.kind = "SERVER" /\ x.service = OrderService => x = ServerSpanOf
         /\ x.name = "kong.balancer" => x = Balancer
         /\ x.name = "order.transaction" => x = TransactionSpan
         /\ \A s \in AllStages : x.name = s => x \in t /\ StageLike(x, s)
         /\ x.parent = NoParent => x = Root
         /\ x.service = Edge => x \in {Root, Balancer}
         /\ x.service \in Downstream => x \in t
         /\ x.service \in AllServices
<1>1. Typed /\ Logged(t) /\ full = t \cup {TransactionSpan, Root, Balancer, ServerSpanOf}
  BY FrameSpans DEF Answered
<1>2. RootIs /\ BalancerIs /\ ServerIsOf /\ TransactionIs
  BY <1>1, FrameFacts
<1>3. Edge # OrderService /\ Edge \notin Downstream /\ OrderService \notin Downstream
  BY DEF Edge, OrderService, Downstream
<1>4. \A s \in AllStages : s \notin {"kong", "kong.balancer", "order.transaction", "POST /orders", ""}
  BY StageNames DEF Void, Release
<1>n. NoParent[1] = "" /\ <<"kong", 0>> # NoParent /\ <<"kong.balancer", 0>> # NoParent /\ <<"order.server", 0>> # NoParent
  <2>1. \A a : a # "" => <<a, 0>> # <<"", 0>>
    OBVIOUS
  <2>2. "kong" # "" /\ "kong.balancer" # "" /\ "order.server" # ""
    OBVIOUS
  <2>3. <<"kong", 0>> # <<"", 0>> /\ <<"kong.balancer", 0>> # <<"", 0>> /\ <<"order.server", 0>> # <<"", 0>>
    BY <2>1, <2>2, Zenon
  <2>4. NoParent[1] = ""
    BY DEF NoParent
  <2> QED
    BY <2>3, <2>4, Zenon DEF NoParent
<1>5. CASE x \in t
  <2>1. Fits(x)
    BY <1>1, <1>5, SpansFit
  <2>2. x.parent # NoParent
    <3>1. x.parent[1] \in AllStages \cup {"order.transaction"}
      BY <2>1 DEF Fits
    <3> QED
      BY <1>4, <1>n, <3>1
  <2>3. x.name \in AllStages \cup {"POST", "server", "POST /authorizations"} /\ \A s \in AllStages : x.name = s => StageLike(x, s)
    BY <1>1, <1>5, NamesTell
  <2>4. x.name # "kong.balancer" /\ x.name # "order.transaction"
    BY <1>4, <2>3
  <2>5. x.service \in {OrderService} \cup Downstream /\ (x.kind = "SERVER" => x.service \in Downstream)
    BY <2>1 DEF Fits
  <2> QED
    BY <1>3, <1>5, <2>2, <2>3, <2>4, <2>5 DEF AllServices
<1>6. CASE x = Root
  <2>1. x.service = Edge /\ x.name = "kong"
    BY <1>2, <1>6 DEF RootIs
  <2> QED
    BY <1>3, <1>4, <1>6, <2>1 DEF AllServices
<1>7. CASE x = Balancer
  <2>1. x.service = Edge /\ x.name = "kong.balancer" /\ x.parent = <<"kong", 0>>
    BY <1>2, <1>7 DEF BalancerIs
  <2>2. x.parent # NoParent
    BY <1>n, <2>1
  <2> QED
    BY <1>3, <1>4, <1>7, <2>1, <2>2 DEF AllServices
<1>8. CASE x = TransactionSpan
  <2>1. x.service = OrderService /\ x.name = "order.transaction" /\ x.parent = <<"order.server", 0>> /\ x.kind = "INTERNAL"
    BY <1>2, <1>8 DEF TransactionIs
  <2>2. x.parent # NoParent
    BY <1>n, <2>1
  <2> QED
    BY <1>3, <1>4, <1>8, <2>1, <2>2 DEF AllServices
<1>9. CASE x = ServerSpanOf
  <2>1. x.service = OrderService /\ x.name = "POST /orders" /\ x.parent = <<"kong.balancer", 0>>
    BY <1>2, <1>9 DEF ServerIsOf
  <2>2. x.parent # NoParent
    BY <1>n, <2>1
  <2> QED
    BY <1>3, <1>4, <1>9, <2>1, <2>2 DEF AllServices
<1> QED
  BY <1>1, <1>5, <1>6, <1>7, <1>8, <1>9

\* No slip of an attribute gets past the checks that every contract makes.
LEMMA NothingSlips ==
  ASSUME NEW t, NEW full, Answered(t, full), Left(full), Fine
  PROVE  damage # "attribute" /\ spans \subseteq full
<1>1. KubernetesMetadata(spans) /\ Correlation(spans, Request) /\ SensitiveData(spans)
  BY Zenon DEF Fine
<1>2. ASSUME damage = "attribute" PROVE FALSE
  <2>0. PICK x \in full : \E y :
          /\ spans = (full \ {x}) \cup {y} /\ y.service = x.service
          /\ ~y.k8s \/ y.secret \/ (y.run # Request.run /\ y.kind = "SERVER" /\ y.service # Edge)
    BY <1>2 DEF Left
  <2>1. PICK y :
          /\ spans = (full \ {x}) \cup {y} /\ y.service = x.service
          /\ ~y.k8s \/ y.secret \/ (y.run # Request.run /\ y.kind = "SERVER" /\ y.service # Edge)
    BY <2>0
  <2>2. y \in spans /\ y.service \in AllServices
    BY <2>1, Which
  <2>3. y.k8s /\ ~y.secret
    BY <1>1, <2>2 DEF KubernetesMetadata, SensitiveData
  <2>4. y.run # Request.run /\ y.kind = "SERVER" /\ y.service \in {OrderService} \cup Downstream
    BY <2>1, <2>2, <2>3 DEF AllServices
  <2>5. \/ y \in ByService(spans, OrderService, "SERVER")
        \/ y.service \in Downstream /\ y.kind = "SERVER"
    BY <2>2, <2>4 DEF ByService
  <2> QED
    BY <1>1, <2>2, <2>4, <2>5 DEF Correlation
<1>3. damage # "attribute" => spans \subseteq full
  BY DEF Left
<1> QED
  BY <1>2, <1>3

\* A trace that is whole by the check has no span without its caller.
LEMMA CallersAreKept ==
  ASSUME NEW t, NEW full, Answered(t, full), spans \subseteq full, Integrity(spans)
  PROVE  CallersKept
<1> SUFFICES ASSUME NEW s \in spans, s.parent # NoParent, s.parent \notin Known(spans)
             PROVE  Technical /\ s.name = "POST /orders"
  BY DEF CallersKept
<1>1. s \in GatewaySpanGaps(spans)
  BY DEF Integrity
<1> DEFINE balancers == {b \in ByService(spans, Edge, "CLIENT") : b.name = "kong.balancer"}
<1>2. /\ s \in ByService(spans, OrderService, "SERVER") /\ Cardinality(balancers) = 1
      /\ \A b \in balancers : b.httpStatus >= 500
  BY <1>1 DEF GatewaySpanGaps
<1>3. s = ServerSpanOf
  BY <1>2, Which DEF ByService
<1>4. RootIs /\ BalancerIs /\ ServerIsOf /\ TransactionIs
  BY FrameFacts DEF Answered
<1>5. \A b \in balancers : b \in full /\ b.name = "kong.balancer"
  BY DEF ByService
<1> HIDE DEF balancers
<1>6. balancers # {}
  BY <1>2, FS_EmptySet
<1>7. PICK b \in balancers : TRUE
  BY <1>6
<1>8. b = Balancer
  BY <1>5, <1>7, Which
<1>9. StatusCode >= 500
  BY <1>2, <1>4, <1>7, <1>8 DEF BalancerIs
<1> QED
  BY <1>3, <1>4, <1>9 DEF Technical, ServerIsOf

-----------------------------------------------------------------------------
(* Small sets and their order.                                              *)

\* Sets of up to two members are counted,
LEMMA Counted ==
  /\ Cardinality({}) = 0
  /\ \A a : Cardinality({a}) = 1 /\ IsFiniteSet({a})
  /\ \A a, b : a # b => Cardinality({a, b}) = 2 /\ IsFiniteSet({a, b})
<1>1. Cardinality({}) = 0 /\ IsFiniteSet({})
  BY FS_EmptySet
<1>2. ASSUME NEW a PROVE Cardinality({a}) = 1 /\ IsFiniteSet({a})
  BY FS_Singleton
<1>3. ASSUME NEW a, NEW b, a # b PROVE Cardinality({a, b}) = 2 /\ IsFiniteSet({a, b})
  <2>1. {a} \cup {b} = {a, b} /\ b \notin {a}
    BY <1>3
  <2>2. IsFiniteSet({a} \cup {b}) /\ Cardinality({a} \cup {b}) = Cardinality({a}) + 1
    BY <1>2, <2>1, FS_AddElement
  <2> QED
    BY <1>2, <2>1, <2>2
<1> QED
  BY <1>1, <1>2, <1>3

\* and a set counted as one has one member.
LEMMA OneMember ==
  ASSUME NEW S, Cardinality(S) = 1, IsFiniteSet(S)
  PROVE  \E a : S = {a}
  BY FS_Singleton

\* A list by start.
InOrder(q) == \A i, j \in DOMAIN q : i < j => q[i].start <= q[j].start

\* The order of the spans is one of those that fit, when there is one.
LEMMA Ordered ==
  ASSUME NEW S, NEW q \in SetToSeqs(S), InOrder(q)
  PROVE  ByStart(S) \in SetToSeqs(S) /\ InOrder(ByStart(S))
<1>1. ByStart(S) = CHOOSE p \in SetToSeqs(S) : InOrder(p)
  BY Zenon DEF ByStart, InOrder
<1>2. \E p \in SetToSeqs(S) : InOrder(p)
  OBVIOUS
<1> QED
  BY <1>1, <1>2, Zenon

\* Short lists by start, and the one that ByStart finds.
LEMMA ListOfNone ==
  << >> \in SetToSeqs({}) /\ InOrder(<< >>)
<1>1. Cardinality({}) = 0 /\ 1..0 = {}
  BY Counted
<1> QED
  BY <1>1 DEF SetToSeqs, InOrder

LEMMA ListOfOne ==
  ASSUME NEW a
  PROVE  <<a>> \in SetToSeqs({a}) /\ InOrder(<<a>>)
<1>1. Cardinality({a}) = 1 /\ 1..1 = {1}
  <2>1. Cardinality({a}) = 1
    BY Counted, Zenon
  <2> QED
    BY <2>1
<1> QED
  BY <1>1 DEF SetToSeqs, InOrder

LEMMA ListOfTwo ==
  ASSUME NEW a, NEW b, a # b, a.start <= b.start
  PROVE  <<a, b>> \in SetToSeqs({a, b}) /\ InOrder(<<a, b>>)
<1>1. Cardinality({a, b}) = 2 /\ 1..2 = {1, 2}
  <2>1. Cardinality({a, b}) = 2
    BY Counted, Zenon
  <2> QED
    BY <2>1
<1>2. <<a, b>> \in [1..2 -> {a, b}]
  BY <1>1
<1>3. \A i, j \in 1..2 : i # j => <<a, b>>[i] # <<a, b>>[j]
  BY <1>1
<1>4. <<a, b>> \in SetToSeqs({a, b})
  BY <1>1, <1>2, <1>3 DEF SetToSeqs
<1>5. InOrder(<<a, b>>)
  BY <1>1 DEF InOrder
<1> QED
  BY <1>4, <1>5

\* As many in the list as in the set.
LEMMA ListIs ==
  ASSUME NEW S, NEW q \in SetToSeqs(S), IsFiniteSet(S)
  PROVE  /\ q \in [1..Cardinality(S) -> S] /\ Len(q) = Cardinality(S) /\ Cardinality(S) \in Nat
         /\ \A i, j \in 1..Cardinality(S) : i # j => q[i] # q[j]
<1>1. Cardinality(S) \in Nat
  BY FS_CardinalityType
<1>2. q \in [1..Cardinality(S) -> S] /\ \A i, j \in 1..Cardinality(S) : i # j => q[i] # q[j]
  BY Zenon DEF SetToSeqs
<1>3. q \in Seq(S)
  BY <1>1, <1>2
<1>4. Len(q) = Cardinality(S)
  BY <1>1, <1>2, <1>3
<1> QED
  BY <1>1, <1>2, <1>4

LEMMA ListOfPair ==
  ASSUME NEW a, NEW b, NEW S, S \subseteq {a, b}, \A x \in S : x.start \in Nat
  PROVE  /\ ByStart(S) \in SetToSeqs(S) /\ InOrder(ByStart(S)) /\ IsFiniteSet(S)
         /\ Cardinality(S) >= 2 => a # b /\ S = {a, b}
<1>1. CASE S = {}
  BY <1>1, ListOfNone, Ordered, Counted, FS_EmptySet
<1>2. CASE \E c : S = {c}
  <2>1. PICK c : S = {c}
    BY <1>2
  <2>2. <<c>> \in SetToSeqs(S) /\ InOrder(<<c>>)
    BY <2>1, ListOfOne
  <2>3. Cardinality(S) = 1 /\ IsFiniteSet(S)
    BY <2>1, Counted
  <2> QED
    BY <2>2, <2>3, Ordered
<1>3. CASE a # b /\ S = {a, b}
  <2>1. \E q \in SetToSeqs(S) : InOrder(q)
    <3>1. a.start \in Nat /\ b.start \in Nat
      BY <1>3
    <3>2. CASE a.start <= b.start
      BY <1>3, <3>2, ListOfTwo
    <3>3. CASE b.start <= a.start
      <4>1. S = {b, a}
        BY <1>3
      <4> QED
        BY <1>3, <3>3, <4>1, ListOfTwo
    <3> QED
      BY <3>1, <3>2, <3>3
  <2>2. IsFiniteSet(S)
    BY <1>3, Counted
  <2> QED
    BY <1>3, <2>1, <2>2, Ordered
<1>4. S = {} \/ (\E c : S = {c}) \/ (a # b /\ S = {a, b})
  OBVIOUS
<1> QED
  BY <1>1, <1>2, <1>3, <1>4

-----------------------------------------------------------------------------
(* What a trace that passed says of its order.                              *)

\* The spans of the payment's authorizations.
Authorizations(t) == {s \in ByService(t, "payment-service", "SERVER") : s.name = "POST /authorizations"}

\* The authorization spans of a trace are the payment's service spans.
LEMMA AuthorizationsAre ==
  ASSUME NEW t, NEW full, Answered(t, full), NEW x \in full
  PROVE  x \in Authorizations(full) <=> x \in t /\ \E k \in 1..3 : ServerLike(x, Pay, k)
<1>1. ASSUME x \in Authorizations(full) PROVE x \in t /\ \E k \in 1..3 : ServerLike(x, Pay, k)
  <2>1. x.service = "payment-service" /\ x.kind = "SERVER" /\ x.name = "POST /authorizations"
    BY <1>1 DEF Authorizations, ByService
  <2>2. x \in t
    BY <2>1, Which DEF Downstream
  <2>3. PICK s \in AllStages : StageLike(x, s) \/ \E k \in 1..3 : ClientLike(x, s, k) \/ ServerLike(x, s, k)
    BY <2>2, SpanKinds DEF Answered
  <2>4. PICK k \in 1..3 : ServerLike(x, s, k)
    BY <2>1, <2>3 DEF StageLike, ClientLike
  <2>5. s = Pay
    BY <2>1, <2>4 DEF ServerLike, Pay
  <2> QED
    BY <2>2, <2>4, <2>5
<1>2. ASSUME x \in t, NEW k \in 1..3, ServerLike(x, Pay, k) PROVE x \in Authorizations(full)
  <2>1. Profile[Pay].service = "payment-service"
    BY ProfileIs DEF Pay
  <2>2. x.service = "payment-service" /\ x.kind = "SERVER" /\ x.name = "POST /authorizations"
    BY <1>2, <2>1 DEF ServerLike, Pay
  <2> QED
    BY <2>2 DEF Authorizations, ByService
<1> QED
  BY <1>1, <1>2

\* What the end of a stage says of the spans it left.
LEMMA StageEnded ==
  ASSUME NEW t, NEW full, Answered(t, full), NEW s \in AllStages
  PROVE  /\ results[s] # "" => \E x \in t, m \in 0..3 : Closed(Of(t, s), s, results[s], x, m)
         /\ results[s] = "" => Of(t, s) = {}
<1>1. s # pc /\ Kept(t)
  BY StageNames DEF Answered, Logged
<1> QED
  BY <1>1 DEF Kept

\* Nothing is authorized without a call, and a success was authorized.
LEMMA PaidOnlyIfCalled ==
  ASSUME NEW t, NEW full, Answered(t, full)
  PROVE  /\ results[Pay] = "" => authorized = 0
         /\ results[Pay] = "ok" => authorized >= 1
<1>1. Payments(t) /\ Pay \in AllStages
  BY StageNames DEF Answered, Logged, Pay
<1>2. ASSUME results[Pay] = "" PROVE authorized = 0
  <2>1. Of(t, Pay) = {}
    BY <1>1, <1>2, StageEnded
  <2>2. \A k : ~Recorded(t, k)
    <3>1. \A a, b : <<a, b>>[1] = a
      OBVIOUS
    <3> QED
      BY <2>1, <3>1 DEF Of, Recorded
  <2>3. Record(t, 1) = 0 /\ Record(t, 2) = 0 /\ Record(t, 3) = 0
    BY <2>2 DEF Record
  <2> QED
    BY <1>1, <2>3 DEF Payments
<1>3. results[Pay] = "ok" => authorized >= 1
  BY <1>1 DEF Payments
<1> QED
  BY <1>2, <1>3

\* The path a trace shows is the path of the order.
LEMMA PathShown ==
  ASSUME NEW t, NEW full, Answered(t, full), spans \subseteq full, NEW p, StatePath(spans, p)
  PROVE  path = p
<1>1. Cardinality(SpansNamed(spans, "order.transaction")) = 1 /\ Transaction(spans).states = p
  BY Zenon DEF StatePath, HasTransaction, IsSingle
<1>2. SpansNamed(spans, "order.transaction") # {}
  BY <1>1, Counted
<1>3. Transaction(spans) \in SpansNamed(spans, "order.transaction")
  BY <1>2, Zenon DEF Transaction, Single
<1>4. Transaction(spans) = TransactionSpan
  BY <1>3, Which DEF SpansNamed
<1>5. TransactionIs
  BY FrameFacts DEF Answered
<1> QED
  BY <1>1, <1>4, <1>5 DEF TransactionIs

\* A stored retry with its replay: two calls reached the service, and one of
\* them recorded the authorization.
LEMMA RetriedTrue ==
  ASSUME NEW t, NEW full, Answered(t, full), spans \subseteq full, results[Pay] = "ok",
         Retries(spans, Pay, 2), IdempotentReplay(spans)
  PROVE  authorized = 1 /\ reached[Pay] = 2
<1> DEFINE x == Single(spans, Pay)
<1> DEFINE S == Authorizations(spans)
<1> DEFINE q == ByStart(S)
<1>0. Pay \in AllStages /\ Typed /\ Logged(t) /\ Kept(t) /\ Payments(t)
  BY StageNames DEF Pay, Answered, Logged
<1>1. x \in t /\ StageLike(x, Pay) /\ x.id = <<Pay, 0>> /\ x.retryCount = 1
  <2>1. Cardinality(SpansNamed(spans, Pay)) = 1 /\ x.retryEvents = 2 - 1
    BY Zenon DEF Retries, IsSingle
  <2>2. SpansNamed(spans, Pay) # {}
    BY <2>1, Counted
  <2>3. x \in SpansNamed(spans, Pay)
    BY <2>2, Zenon DEF Single
  <2>4. x \in t /\ StageLike(x, Pay)
    BY <1>0, <2>3, Which DEF SpansNamed
  <2> QED
    BY <2>1, <2>4 DEF StageLike
<1> HIDE DEF x
<1>2. Attempted(Of(t, Pay) \ {x}, Pay, 2, x.start, x.end)
  <2>1. PICK m \in 0..3 : Closed(Of(t, Pay), Pay, "ok", x, m)
    <3>1. \E m \in 0..3 : Closed(Of(t, Pay), Pay, results[Pay], x, m)
      BY <1>0, <1>1, StageHere
    <3> QED
      BY <3>1
  <2>2. m = 2
    BY <1>1, <2>1 DEF Closed
  <2> QED
    BY <2>1, <2>2 DEF Closed
<1>3. \A z \in S : z \in Of(t, Pay) \ {x} /\ z.id \in {<<Pay, 10>>, <<Pay, 11>>} /\ z.start \in Nat
  <2> SUFFICES ASSUME NEW z \in S PROVE z \in Of(t, Pay) \ {x} /\ z.id \in {<<Pay, 10>>, <<Pay, 11>>} /\ z.start \in Nat
    OBVIOUS
  <2>1. z \in full /\ z \in Authorizations(full)
    BY DEF Authorizations, ByService
  <2>2. PICK k \in 1..3 : z \in t /\ ServerLike(z, Pay, k)
    BY <2>1, AuthorizationsAre
  <2>3. z.id = <<Pay, 9 + k>> /\ z.start \in Nat /\ z # x
    <3>1. z.kind = "SERVER" /\ x.kind = "INTERNAL"
      BY <1>1, <2>2 DEF ServerLike, StageLike
    <3> QED
      BY <2>2, <3>1 DEF ServerLike, Plain
  <2>4. z \in Of(t, Pay)
    BY <2>2, <2>3 DEF Of
  <2>5. PICK j \in 1..2 : ClientLike(z, Pay, j) \/ ServerLike(z, Pay, j)
    BY <1>2, <2>3, <2>4 DEF Attempted
  <2>6. z.id = <<Pay, 9 + j>>
    BY <2>2, <2>5 DEF ClientLike, ServerLike
  <2>7. 9 + j \in {10, 11}
    OBVIOUS
  <2> QED
    BY <2>3, <2>4, <2>6, <2>7
<1>4. \A z, w \in Of(t, Pay) \ {x} : z.id = w.id => z = w
  BY <1>2 DEF Attempted
<1>5. PICK a : \A z \in S : z.id = <<Pay, 10>> => z = a
  BY <1>3, <1>4
<1>6. PICK b : \A z \in S : z.id = <<Pay, 11>> => z = b
  BY <1>3, <1>4
<1>7. q \in SetToSeqs(S) /\ IsFiniteSet(S) /\ (Cardinality(S) >= 2 => a # b /\ S = {a, b})
  <2>1. S \subseteq {a, b}
    BY <1>3, <1>5, <1>6
  <2>2. \A z \in S : z.start \in Nat
    BY <1>3
  <2> HIDE DEF S
  <2> QED
    BY <2>1, <2>2, ListOfPair
<1>8. Len(q) >= 2 /\ Cardinality({i \in 1..Len(q) : q[i].recorded}) = 1
  BY Zenon DEF IdempotentReplay, Authorizations
<1> HIDE DEF S, q
<1>9. q \in [1..2 -> {a, b}] /\ q[1] # q[2] /\ Len(q) = 2 /\ a # b /\ S = {a, b}
  <2>1. q \in [1..Cardinality(S) -> S] /\ Len(q) = Cardinality(S) /\ \A i, j \in 1..Cardinality(S) : i # j => q[i] # q[j]
    BY <1>7, ListIs
  <2>2. a # b /\ S = {a, b}
    BY <1>7, <1>8, <2>1
  <2>3. Cardinality(S) = 2
    BY <2>2, Counted
  <2> QED
    BY <2>1, <2>2, <2>3
<1>10. Cardinality({i \in 1..2 : q[i].recorded}) = 1
  BY <1>8, <1>9
<1>11. a.recorded <=> ~b.recorded
  <2>1. CASE a.recorded /\ b.recorded
    <3>1. {i \in 1..2 : q[i].recorded} = {1, 2} /\ 1 # 2
      BY <1>9, <2>1
    <3>2. Cardinality({1, 2}) = 2
      BY <3>1, Counted, Zenon
    <3> QED
      BY <1>10, <3>1, <3>2
  <2>2. CASE ~a.recorded /\ ~b.recorded
    <3>1. {i \in 1..2 : q[i].recorded} = {}
      BY <1>9, <2>2
    <3>2. Cardinality({}) = 0
      BY Counted, Zenon
    <3> QED
      BY <1>10, <3>1, <3>2
  <2> QED
    BY <2>1, <2>2
<1>12. a.id = <<Pay, 10>> /\ b.id = <<Pay, 11>> /\ a \in t /\ b \in t
  BY <1>3, <1>5, <1>6, <1>9 DEF Of
<1>13. \A z \in t : /\ z.id = <<Pay, 10>> => z = a
                    /\ z.id = <<Pay, 11>> => z = b
                    /\ z.id # <<Pay, 12>>
  <2> SUFFICES ASSUME NEW z \in t
               PROVE  (z.id = <<Pay, 10>> => z = a) /\ (z.id = <<Pay, 11>> => z = b) /\ z.id # <<Pay, 12>>
    OBVIOUS
  <2>1. z.id \in {<<Pay, 10>>, <<Pay, 11>>, <<Pay, 12>>} => z \in Of(t, Pay) \ {x}
    BY <1>1 DEF Of
  <2>2. a \in Of(t, Pay) \ {x} /\ b \in Of(t, Pay) \ {x}
    BY <1>3, <1>9
  <2>3. ASSUME z.id = <<Pay, 12>> PROVE FALSE
    <3>1. PICK j \in 1..2 : ClientLike(z, Pay, j) \/ ServerLike(z, Pay, j)
      BY <1>2, <2>1, <2>3 DEF Attempted
    <3>2. j # 12 /\ 9 + j # 12
      OBVIOUS
    <3>3. z.id = <<Pay, j>> \/ z.id = <<Pay, 9 + j>>
      BY <3>1 DEF ClientLike, ServerLike
    <3>4. \A c, d, e : <<c, d>> = <<c, e>> => d = e
      OBVIOUS
    <3> QED
      BY <2>3, <3>2, <3>3, <3>4
  <2> QED
    BY <1>4, <1>12, <2>1, <2>2, <2>3
<1>14. 9 + 1 = 10 /\ 9 + 2 = 11 /\ 9 + 3 = 12
  OBVIOUS
<1>15. (Recorded(t, 1) <=> a.recorded) /\ (Recorded(t, 2) <=> b.recorded) /\ ~Recorded(t, 3)
  BY <1>12, <1>13, <1>14, Zenon DEF Recorded
<1>16. HasId(t, <<Pay, 9 + 1>>) /\ HasId(t, <<Pay, 9 + 2>>) /\ ~HasId(t, <<Pay, 9 + 3>>)
  BY <1>12, <1>13, <1>14, Zenon DEF HasId
<1>17. Record(t, 1) + Record(t, 2) + Record(t, 3) = 1
  BY <1>11, <1>15 DEF Record
<1>18. Reach(t, Pay, 1) + Reach(t, Pay, 2) + Reach(t, Pay, 3) = 2
  BY <1>16 DEF Reach
<1> QED
  BY <1>0, <1>17, <1>18 DEF Payments

\* The contracts one by one.
LEMMA AcceptsIs ==
  /\ Accepts("normal_order") <=> Verdict(NormalOrder(TheRequest("")))
  /\ Accepts("slow_payment") <=> Verdict(SlowPayment(TheRequest(""), 10))
  /\ Accepts("payment_retry") <=> Verdict(PaymentRetry(TheRequest(""), 15))
  /\ Accepts("dependency_unavailable") <=> Verdict(DependencyUnavailable(TheRequest("")))
  /\ Accepts("collector_outage") <=> Verdict(CollectorOutage(TheRequest("during-outage")))
  /\ Accepts("trace_storage_outage") <=> Verdict(TraceStorageOutage(TheRequest("during-outage"), 1, 2))
  /\ Accepts("pod_deletion") <=> Verdict(FailuresKept(TheRequest("")))
  /\ \A c \in FlowNames : Accepts(c) <=> Verdict(FailedFlow(TheRequest(""), FailedFlows[c]))
<1>1. FlowNames = {"payment_timeout", "inventory_failure", "fraud_rejection", "shipping_failure"}
  BY DEF FlowNames, FailedFlows
<1>2. ASSUME NEW c \in FlowNames PROVE Accepts(c) <=> Verdict(FailedFlow(TheRequest(""), FailedFlows[c]))
  <2>1. c \notin {"normal_order", "slow_payment", "payment_retry", "dependency_unavailable",
                  "collector_outage", "trace_storage_outage", "pod_deletion"}
    BY <1>1
  <2> QED
    BY <2>1 DEF Accepts
<1> QED
  BY <1>2 DEF Accepts

\* The failed flows by name.
LEMMA FlowsAre ==
  /\ FlowNames = {"payment_timeout", "inventory_failure", "fraud_rejection", "shipping_failure"}
  /\ FailedFlows["payment_timeout"].status = 504 /\ FailedFlows["payment_timeout"].path = PathOf("payment.authorize")
  /\ FailedFlows["inventory_failure"].status = 502 /\ FailedFlows["inventory_failure"].path = PathOf("inventory.reserve")
  /\ FailedFlows["fraud_rejection"].status = 422 /\ FailedFlows["fraud_rejection"].path = PathOf("fraud.evaluate")
  /\ FailedFlows["shipping_failure"].status = 502 /\ FailedFlows["shipping_failure"].path = PathOf("shipping.create")
  /\ \A c \in FlowNames : OrderService \in FailedFlows[c].required
<1>1. FlowNames = {"payment_timeout", "inventory_failure", "fraud_rejection", "shipping_failure"}
  BY DEF FlowNames, FailedFlows
<1>2. /\ FailedFlows["payment_timeout"].status = 504 /\ FailedFlows["payment_timeout"].path = PathOf("payment.authorize")
      /\ FailedFlows["inventory_failure"].status = 502 /\ FailedFlows["inventory_failure"].path = PathOf("inventory.reserve")
      /\ FailedFlows["fraud_rejection"].status = 422 /\ FailedFlows["fraud_rejection"].path = PathOf("fraud.evaluate")
      /\ FailedFlows["shipping_failure"].status = 502 /\ FailedFlows["shipping_failure"].path = PathOf("shipping.create")
  BY DEF FailedFlows, PathOf
<1>3. \A c \in FlowNames : OrderService \in FailedFlows[c].required
  BY <1>1 DEF FailedFlows, FanOut, AllServices
<1> QED
  BY <1>1, <1>2, <1>3

\* All that the contracts have in common.
LEMMA AcceptedIsFine ==
  ASSUME NEW c \in TraceContracts, Accepts(c), c # "collector_outage"
  PROVE  Fine
<1>1. c \in FlowNames \cup {"normal_order", "slow_payment", "payment_retry", "dependency_unavailable",
                            "trace_storage_outage", "pod_deletion"}
  BY DEF TraceContracts
<1>2. CASE c \in FlowNames
  BY <1>2, AcceptsIs, FailedFlowIs
<1>3. CASE c = "normal_order"
  BY <1>3, AcceptsIs, NormalOrderIs, Zenon
<1>4. CASE c = "slow_payment"
  BY <1>4, AcceptsIs, SlowPaymentIs, Zenon
<1>5. CASE c = "payment_retry"
  BY <1>5, AcceptsIs, PaymentRetryIs, Zenon
<1>6. CASE c = "dependency_unavailable"
  BY <1>6, AcceptsIs, DependencyUnavailableIs, Zenon
<1>7. CASE c = "trace_storage_outage"
  BY <1>7, AcceptsIs, StorageOutageIs, Zenon
<1>8. CASE c = "pod_deletion"
  BY <1>8, AcceptsIs, PodDeletionIs, Zenon
<1> QED
  BY <1>1, <1>2, <1>3, <1>4, <1>5, <1>6, <1>7, <1>8

\* The spans of OrderService are missing only when its batch was lost.
LEMMA OutageTrue ==
  ASSUME NEW t, NEW full, Answered(t, full), Left(full), OrderService \notin Services(spans)
  PROVE  damage = "batch"
<1>1. TransactionSpan \in full /\ ServerSpanOf \in full
  BY FrameSpans DEF Answered
<1>2. /\ TransactionSpan.service = OrderService /\ ServerSpanOf.service = OrderService
      /\ TransactionSpan.name # ServerSpanOf.name
  <2>1. ServerIsOf /\ TransactionIs
    BY FrameFacts DEF Answered
  <2> QED
    BY <2>1 DEF ServerIsOf, TransactionIs
<1>3. \A x \in spans : x.service # OrderService
  BY DEF Services
<1>4. CASE damage = "none"
  BY <1>1, <1>2, <1>3, <1>4 DEF Left
<1>5. CASE damage = "lost"
  BY <1>1, <1>2, <1>3, <1>5 DEF Left
<1>6. CASE damage = "attribute"
  BY <1>1, <1>2, <1>3, <1>6 DEF Left
<1> QED
  BY <1>4, <1>5, <1>6 DEF Left

\* A completed order, and the failure a path shows.
LEMMA EndShown ==
  ASSUME NEW t, NEW full, Answered(t, full)
  PROVE  /\ StatusCode = 201 => Went
         /\ path = FullPath => Went
         /\ \A s \in Stages : path = PathOf(s) => Gone(s)
         /\ \A s \in Stages : StatusCode = 504 /\ Gone(s) => results[s] = "timeout"
<1>1. Went \/ \E s \in Stages : Gone(s)
  BY EndIs DEF Answered
<1>2. \A s \in Stages : Gone(s) => StatusCode # 201 /\ path # FullPath /\ \A z \in Stages : path = PathOf(z) => z = s
  <2> SUFFICES ASSUME NEW s \in Stages, Gone(s)
               PROVE  StatusCode # 201 /\ path # FullPath /\ \A z \in Stages : path = PathOf(z) => z = s
    OBVIOUS
  <2>1. StatusCode \in {422, 502, 503, 504}
    <3>1. PICK r \in {"rejected", "error", "unavailable", "timeout"} : r = results[s]
      BY DEF Gone
    <3>2. StatusCode = CodeFor(r)
      BY <3>1, Zenon DEF Gone
    <3> QED
      BY <3>2, CodeIs
  <2>2. path = PathOf(s)
    BY DEF Gone
  <2> QED
    BY <2>1, <2>2, StatesDiffer
<1>3. \A s \in Stages : Went => path # PathOf(s)
  <2>1. Went => path = FullPath
    BY Zenon DEF Went
  <2> QED
    BY <2>1, StatesDiffer, Zenon
<1>4. ASSUME NEW s \in Stages, StatusCode = 504, Gone(s) PROVE results[s] = "timeout"
  <2>1. PICK r \in {"rejected", "error", "unavailable", "timeout"} : r = results[s]
    BY <1>4 DEF Gone
  <2>2. StatusCode = CodeFor(r)
    <3>1. Gone(s)
      BY <1>4
    <3> QED
      BY <2>1, <3>1, Zenon DEF Gone
  <2>3. (StatusCode = 504 <=> r = "timeout")
    BY <2>1, <2>2, CodeIs
  <2> QED
    BY <1>4, <2>1, <2>3
<1> QED
  BY <1>1, <1>2, <1>3, <1>4

\* The undo steps of a failed payment or shipment were tried.
LEMMA UndoneIs ==
  ASSUME NEW s \in {"payment.authorize", "shipping.create"}, Gone(s), s = "payment.authorize" => results[s] # "rejected"
  PROVE  UndoTried
<1>1. Voids(s) /\ Releases(s)
  BY DEF Voids, Releases
<1> QED
  BY <1>1, StageNames DEF Gone, UndoTried, Called

\* The flows that fail.
LEMMA FlowTrue ==
  ASSUME NEW t, NEW full, Answered(t, full), spans \subseteq full, NEW c \in FlowNames, Accepts(c)
  PROVE  Happened(c)
<1>1. StatusCode = FailedFlows[c].status /\ StatePath(spans, FailedFlows[c].path)
  BY AcceptsIs, FailedFlowIs
<1>2. path = FailedFlows[c].path
  BY <1>1, PathShown
<1>3. CASE c = "payment_timeout"
  <2>1. StatusCode = 504 /\ path = PathOf("payment.authorize") /\ "payment.authorize" \in Stages
    BY <1>1, <1>2, <1>3, FlowsAre, StageNames
  <2>2. Gone("payment.authorize") /\ results["payment.authorize"] = "timeout"
    BY <2>1, EndShown
  <2>3. Final = "PaymentFailed" /\ results["shipping.create"] = ""
    BY <2>2, StageNames DEF Gone, FailureState, StagesBefore
  <2>4. UndoTried
    BY <2>2, UndoneIs
  <2> QED
    BY <1>3, <2>2, <2>3, <2>4 DEF Happened, Never, Called
<1>4. CASE c = "inventory_failure"
  <2>1. path = PathOf("inventory.reserve") /\ "inventory.reserve" \in Stages
    BY <1>2, <1>4, FlowsAre, StageNames
  <2>2. Gone("inventory.reserve")
    BY <2>1, EndShown
  <2>3. Final = "InventoryFailed" /\ results["payment.authorize"] = ""
    BY <2>2, StageNames DEF Gone, FailureState, StagesBefore
  <2>4. authorized = 0
    BY <2>3, PaidOnlyIfCalled DEF Pay
  <2> QED
    BY <1>4, <2>3, <2>4 DEF Happened, Never, Called
<1>5. CASE c = "fraud_rejection"
  <2>1. path = PathOf("fraud.evaluate") /\ "fraud.evaluate" \in Stages
    BY <1>2, <1>5, FlowsAre, StageNames
  <2>2. Gone("fraud.evaluate")
    BY <2>1, EndShown
  <2>3. Final = "FraudFailed" /\ results["payment.authorize"] = ""
    BY <2>2, StageNames DEF Gone, FailureState, StagesBefore
  <2>4. authorized = 0
    BY <2>3, PaidOnlyIfCalled DEF Pay
  <2>5. results["compensation.inventory.release"] # ""
    BY <2>2 DEF Gone, Releases, Release
  <2> QED
    BY <1>5, <2>3, <2>4, <2>5 DEF Happened, Called
<1>6. CASE c = "shipping_failure"
  <2>1. path = PathOf("shipping.create") /\ "shipping.create" \in Stages
    BY <1>2, <1>6, FlowsAre, StageNames
  <2>2. Gone("shipping.create")
    BY <2>1, EndShown
  <2>3. Final = "ShippingFailed" /\ results["payment.authorize"] = "ok"
    BY <2>2, StageNames DEF Gone, FailureState, StagesBefore
  <2>4. authorized >= 1
    BY <2>3, PaidOnlyIfCalled DEF Pay
  <2>5. UndoTried
    BY <2>2, UndoneIs
  <2> QED
    BY <1>6, <2>3, <2>4, <2>5 DEF Happened
<1> QED
  BY <1>3, <1>4, <1>5, <1>6, FlowsAre

\* The shipment that timed out everywhere.
LEMMA MissingTrue ==
  ASSUME NEW t, NEW full, Answered(t, full), Left(full), spans \subseteq full, Accepts("dependency_unavailable")
  PROVE  Happened("dependency_unavailable")
<1> DEFINE ship == "shipping.create"
<1>0. ship \in AllStages /\ ship \in Stages /\ Typed /\ Logged(t) /\ Kept(t) /\ Payments(t)
  BY StageNames DEF Answered, Logged
<1>1. ShippingMissing(spans)
  BY AcceptsIs, DependencyUnavailableIs, Zenon
<1>2. PICK x \in spans : x.name = ship /\ x.failureKind = "timeout"
  BY <1>1 DEF ShippingMissing, SpansNamed
<1>3. x \in t /\ x.id = <<ship, 0>>
  <2>1. x \in t /\ StageLike(x, ship)
    BY <1>0, <1>2, Which
  <2> QED
    BY <2>1 DEF StageLike
<1>4. results[ship] = "timeout"
  <2>1. PICK m \in 0..3 : Closed(Of(t, ship), ship, results[ship], x, m)
    BY <1>0, <1>3, StageHere
  <2>2. FailureOf(x, results[ship])
    BY <2>1 DEF Closed
  <2> QED
    BY <1>2, <2>2 DEF FailureOf
<1>5. Gone(ship)
  <2>1. ~Went
    BY <1>0, <1>4 DEF Went
  <2>2. PICK s \in Stages : Gone(s)
    BY <2>1, EndIs DEF Answered
  <2>3. s = ship
    <3>1. \A b \in Stages \ (StagesBefore(s) \cup {s, "fraud.evaluate"}) : results[b] = ""
      BY <2>2 DEF Gone
    <3>2. ship \notin StagesBefore(s) /\ ship # "fraud.evaluate"
      BY DEF StagesBefore
    <3> QED
      BY <1>0, <1>4, <3>1, <3>2
  <2> QED
    BY <2>2, <2>3
<1>6. Final = "ShippingFailed" /\ UndoTried
  BY <1>5, UndoneIs DEF Gone, FailureState
<1>7. ASSUME damage = "none" PROVE reached[ship] = 0
  <2>1. t \subseteq spans
    BY <1>7 DEF Left, Answered
  <2>2. ASSUME NEW k \in 1..3 PROVE ~HasId(t, <<ship, 9 + k>>)
    <3>1. ASSUME NEW y \in t, y.id = <<ship, 9 + k>> PROVE FALSE
      <4>1. ServerLike(y, ship, k)
        BY <1>0, <3>1, IdsTell
      <4>2. y.service = "shipping-service" /\ y.kind = "SERVER"
        BY <4>1, ProfileIs DEF ServerLike
      <4>3. y \in ByService(spans, "shipping-service", "SERVER")
        BY <2>1, <4>2 DEF ByService
      <4> QED
        BY <1>1, <4>3 DEF ShippingMissing
    <3> QED
      BY <3>1 DEF HasId
  <2>3. Reach(t, ship, 1) = 0 /\ Reach(t, ship, 2) = 0 /\ Reach(t, ship, 3) = 0
    <3>1. 1 \in 1..3 /\ 2 \in 1..3 /\ 3 \in 1..3
      OBVIOUS
    <3>2. ~HasId(t, <<ship, 9 + 1>>) /\ ~HasId(t, <<ship, 9 + 2>>) /\ ~HasId(t, <<ship, 9 + 3>>)
      BY <2>2, <3>1
    <3> QED
      BY <3>2, Zenon DEF Reach
  <2>4. reached[ship] = Reach(t, ship, 1) + Reach(t, ship, 2) + Reach(t, ship, 3)
    BY <1>0 DEF Payments
  <2> QED
    BY <2>3, <2>4
<1> QED
  BY <1>6, <1>7 DEF Happened

\* What a contract claims of the order it passed did happen.
LEMMA HappenedTrue ==
  ASSUME NEW t, NEW full, Answered(t, full), Left(full), spans \subseteq full, NEW c \in TraceContracts, Accepts(c),
         c # "collector_outage"
  PROVE  Happened(c)
<1>1. c \in FlowNames \cup {"normal_order", "slow_payment", "payment_retry", "dependency_unavailable",
                            "trace_storage_outage", "pod_deletion"}
  BY DEF TraceContracts
<1>2. "payment.authorize" \in Stages
  BY StageNames
<1>3. CASE c = "normal_order"
  <2>1. Went
    BY <1>3, AcceptsIs, NormalOrderIs, EndShown, Zenon
  <2>2. Final = "Completed" /\ authorized >= 1
    BY <1>2, <2>1, PaidOnlyIfCalled DEF Went, Pay
  <2> QED
    BY <1>3, <2>2 DEF Happened
<1>4. CASE c = "slow_payment"
  <2>1. Went
    BY <1>4, AcceptsIs, SlowPaymentIs, EndShown, Zenon
  <2> QED
    BY <1>4, <2>1 DEF Happened, Went
<1>5. CASE c = "payment_retry"
  <2>1. /\ StatusCode = 201 /\ Retries(spans, "payment.authorize", 2) /\ IdempotentReplay(spans)
    BY <1>5, AcceptsIs, PaymentRetryIs, Zenon
  <2>2. Went
    BY <2>1, EndShown
  <2>3. authorized = 1 /\ reached["payment.authorize"] = 2
    <3>1. results[Pay] = "ok" /\ Pay = "payment.authorize"
      BY <1>2, <2>2 DEF Went, Pay
    <3> QED
      BY <2>1, <3>1, RetriedTrue
  <2> QED
    BY <1>5, <2>2, <2>3 DEF Happened, Went
<1>6. CASE c = "dependency_unavailable"
  BY <1>6, MissingTrue
<1>7. CASE c = "trace_storage_outage"
  <2>1. StatePath(spans, FullPath)
    BY <1>7, AcceptsIs, StorageOutageIs, Zenon
  <2>2. Went
    BY <2>1, PathShown, EndShown
  <2> QED
    BY <1>7, <2>2 DEF Happened, Went
<1>8. CASE c = "pod_deletion"
  <2>1. StatusCode \in {503, 504}
    BY <1>8, AcceptsIs, PodDeletionIs, Zenon
  <2> QED
    BY <1>8, <2>1 DEF Happened
<1>9. CASE c \in FlowNames
  BY <1>9, FlowTrue
<1> QED
  BY <1>1, <1>3, <1>4, <1>5, <1>6, <1>7, <1>8, <1>9

\* No contract passes an order that went another way, damaged trace or not.
LEMMA AcceptedIsTrue == OrderInv => AcceptedMeansTrue
<1> SUFFICES ASSUME OrderInv, pc = "judged", NEW c \in TraceContracts, Accepts(c)
             PROVE  /\ Happened(c) /\ damage # "attribute"
                    /\ c # "collector_outage" => CallersKept
  BY Zenon DEF AcceptedMeansTrue
<1>1. PICK t, full : Answered(t, full) /\ Left(full)
  BY JudgedTrace
<1>2. CASE c = "collector_outage"
  <2>1. Verdict(CollectorOutage(TheRequest("during-outage")))
    BY <1>2, AcceptsIs, Zenon
  <2>2. damage = "batch"
    BY <1>1, <2>1, CollectorOutageIs, OutageTrue
  <2> QED
    BY <1>2, <2>2 DEF Happened
<1>3. CASE c # "collector_outage"
  <2>1. Fine
    BY <1>3, AcceptedIsFine
  <2>2. damage # "attribute" /\ spans \subseteq full
    BY <1>1, <2>1, NothingSlips
  <2>3. CallersKept
    BY <1>1, <2>1, <2>2, CallersAreKept, Zenon DEF Fine
  <2>4. Happened(c)
    BY <1>1, <1>3, <2>2, HappenedTrue
  <2> QED
    BY <1>3, <2>2, <2>3, <2>4
<1> QED
  BY <1>2, <1>3

-----------------------------------------------------------------------------
(* A trace that is stored as it was recorded.                               *)

\* The span of a stage that was called, and what it says.
StageOf(t, s, x, m) ==
    /\ x \in t /\ x.id = <<s, 0>> /\ StageLike(x, s) /\ m \in 0..3 /\ Closed(Of(t, s), s, results[s], x, m)

\* The span of a stage is there exactly when the stage was called.
LEMMA StageOfCalled ==
  ASSUME NEW t, NEW full, Answered(t, full), NEW s \in AllStages
  PROVE  /\ results[s] # "" => \E x, m : StageOf(t, s, x, m)
         /\ results[s] = "" => Of(t, s) = {}
<1>1. ASSUME results[s] # "" PROVE \E x, m : StageOf(t, s, x, m)
  <2>1. PICK x \in t, m \in 0..3 : Closed(Of(t, s), s, results[s], x, m)
    BY <1>1, StageEnded
  <2>2. StageLike(x, s)
    BY <2>1 DEF Closed
  <2>3. x.id = <<s, 0>>
    BY <2>2 DEF StageLike
  <2> QED
    BY <2>1, <2>2, <2>3 DEF StageOf
<1> QED
  BY <1>1, StageEnded

\* A stage that was called has one span of its name, another one has none.
LEMMA StageNamed ==
  ASSUME NEW t, NEW full, Answered(t, full), NEW s \in AllStages
  PROVE  /\ \A x, m : StageOf(t, s, x, m) => SpansNamed(full, s) = {x} /\ IsSingle(full, s) /\ Single(full, s) = x
         /\ results[s] = "" => SpansNamed(full, s) = {} /\ ~IsSingle(full, s)
<1>0. Typed /\ Logged(t) /\ Kept(t) /\ t \subseteq full
  BY DEF Answered, Logged
<1>1. ASSUME NEW x, NEW m, StageOf(t, s, x, m)
      PROVE  SpansNamed(full, s) = {x} /\ IsSingle(full, s) /\ Single(full, s) = x
  <2>1. x \in t /\ x.id = <<s, 0>> /\ x.name = s
    BY <1>1 DEF StageOf, StageLike
  <2>2. ASSUME NEW y \in full, y.name = s PROVE y = x
    <3>1. y \in t /\ y.id = <<s, 0>>
      BY <2>2, Which DEF StageLike
    <3> QED
      BY <1>0, <2>1, <3>1, StageHere
  <2>3. SpansNamed(full, s) = {x}
    BY <1>0, <2>1, <2>2 DEF SpansNamed
  <2>4. Cardinality({x}) = 1
    BY Counted
  <2>5. \E y \in {x} : TRUE
    OBVIOUS
  <2>6. (CHOOSE y \in {x} : TRUE) = x
    BY <2>5
  <2> QED
    BY <2>3, <2>4, <2>6 DEF IsSingle, Single
<1>2. ASSUME results[s] = "" PROVE SpansNamed(full, s) = {} /\ ~IsSingle(full, s)
  <2>1. ASSUME NEW y \in full, y.name = s PROVE FALSE
    <3>1. y \in t /\ y.id = <<s, 0>>
      BY <2>1, Which DEF StageLike
    <3>2. y \in Of(t, s)
      BY <3>1 DEF Of
    <3> QED
      BY <1>2, <3>2, StageEnded
  <2>2. SpansNamed(full, s) = {}
    BY <2>1 DEF SpansNamed
  <2> QED
    BY <2>2, Counted DEF IsSingle
<1> QED
  BY <1>1, <1>2

\* The caller of a span is there, and it is the one of the same stage.
LEMMA CallerOf ==
  ASSUME NEW t, NEW full, Answered(t, full), NEW y \in t
  PROVE  \E s \in AllStages :
           \/ StageLike(y, s)
           \/ \E k \in 1..3 : ClientLike(y, s, k) /\ \E x \in t : StageLike(x, s)
           \/ \E k \in 1..3 : ServerLike(y, s, k) /\ \E x \in t : ClientLike(x, s, k)
<1>0. Typed /\ Logged(t)
  BY DEF Answered
<1>1. PICK s \in AllStages : StageLike(y, s) \/ \E k \in 1..3 : ClientLike(y, s, k) \/ ServerLike(y, s, k)
  BY <1>0, SpanKinds
<1>2. CASE StageLike(y, s)
  BY <1>2
<1>3. ASSUME NEW k \in 1..3, ClientLike(y, s, k) \/ ServerLike(y, s, k)
      PROVE  \/ ClientLike(y, s, k) /\ \E x \in t : StageLike(x, s)
             \/ ServerLike(y, s, k) /\ \E x \in t : ClientLike(x, s, k)
  <2>1. y.id[1] = s
    <3>1. \A a, b : <<a, b>>[1] = a
      OBVIOUS
    <3>2. y.id = <<s, k>> \/ y.id = <<s, 9 + k>>
      BY <1>3 DEF ClientLike, ServerLike
    <3> QED
      BY <3>1, <3>2, Zenon
  <2>2. Of(t, s) # {}
    BY <2>1 DEF Of
  <2>3. PICK x, m : StageOf(t, s, x, m)
    BY <2>2, StageOfCalled
  <2>4. x \in t /\ StageLike(x, s) /\ m \in 0..3 /\ Attempted(Of(t, s) \ {x}, s, m, x.start, x.end)
    BY <2>3 DEF StageOf, Closed
  <2>5. y # x
    BY <1>3, <2>4 DEF StageLike, ClientLike, ServerLike
  <2>6. y \in Of(t, s) \ {x}
    BY <2>1, <2>5 DEF Of
  <2>7. PICK j \in 1..m : ClientLike(y, s, j) \/ ServerLike(y, s, j)
    BY <2>4, <2>6 DEF Attempted
  <2>8. CASE ClientLike(y, s, k)
    BY <2>4, <2>8
  <2>9. CASE ServerLike(y, s, k)
    <3>1. y.id = <<s, 9 + k>> /\ y.kind = "SERVER"
      BY <2>9 DEF ServerLike
    <3>2. y.id = <<s, 9 + j>>
      BY <2>7, <3>1 DEF ClientLike, ServerLike
    <3>3. \A a, b, c : <<a, b>> = <<a, c>> => b = c
      OBVIOUS
    <3>4. 9 + j = 9 + k
      BY <3>1, <3>2, <3>3
    <3>5. k \in 1..m
      BY <2>4, <3>4
    <3>6. HasId(Of(t, s) \ {x}, <<s, k>>)
      BY <2>4, <3>5 DEF Attempted
    <3>7. PICK z \in t : z.id = <<s, k>>
      BY <3>6 DEF HasId, Of
    <3>8. ClientLike(z, s, k)
      BY <1>0, <3>7, IdsTell
    <3> QED
      BY <2>9, <3>8
  <2> QED
    BY <1>3, <2>8, <2>9
<1> QED
  BY <1>1, <1>2, <1>3

\* The span of the transaction tells the path and the end of the order.
LEMMA TransactionStored ==
  ASSUME NEW t, NEW full, Answered(t, full)
  PROVE  /\ HasTransaction(full) /\ Transaction(full) = TransactionSpan
         /\ StatePath(full, path)
         /\ ErrorMarking(full, TRUE) <=> Technical
         /\ ErrorMarking(full, FALSE) <=> ~Technical
<1>1. TransactionIs
  BY FrameFacts DEF Answered
<1>2. SpansNamed(full, "order.transaction") = {TransactionSpan}
  <2>1. TransactionSpan \in full
    BY FrameSpans DEF Answered
  <2>2. \A x \in full : x.name = "order.transaction" => x = TransactionSpan
    BY Which
  <2> QED
    BY <1>1, <2>1, <2>2 DEF SpansNamed, TransactionIs
<1>3. HasTransaction(full) /\ Transaction(full) = TransactionSpan
  <2>1. Cardinality({TransactionSpan}) = 1
    BY Counted
  <2>2. (CHOOSE y \in {TransactionSpan} : TRUE) = TransactionSpan
    OBVIOUS
  <2> QED
    BY <1>2, <2>1, <2>2, Zenon DEF HasTransaction, IsSingle, Transaction, Single
<1>4. StatePath(full, path)
  BY <1>1, <1>3 DEF StatePath, TransactionIs, Final
<1>5. ErrorMarking(full, TRUE) <=> Technical
  BY <1>1, <1>3 DEF ErrorMarking, TransactionIs
<1>6. ErrorMarking(full, FALSE) <=> ~Technical
  BY <1>1, <1>3 DEF ErrorMarking, TransactionIs
<1> QED
  BY <1>3, <1>4, <1>5, <1>6

\* The identifiers of the spans around those of the stages.
LEMMA FrameNumbers ==
  ASSUME NEW t, NEW full, Answered(t, full), NEW x \in full
  PROVE  /\ x.id # <<"", 0>>
         /\ x.id = <<"kong", 0>> => x = Root
         /\ x.id = <<"order.transaction", 0>> => x = TransactionSpan
         /\ x.id = <<"order.server", 0>> => x = ServerSpanOf
         /\ x.id = <<"kong.balancer", 0>> => x = Balancer /\ ~Technical
<1>1. RootIs /\ BalancerIs /\ ServerIsOf /\ TransactionIs
  BY FrameFacts DEF Answered
<1>2. \A a, b, c, d : <<a, b>> = <<c, d>> => a = c /\ b = d
  OBVIOUS
<1>3. CASE x \in t
  <2>1. x.id[1] \in AllStages
    BY <1>3, SpansFit DEF Answered, Fits
  <2>2. \A s \in AllStages : s \notin {"kong", "kong.balancer", "order.transaction", "order.server", ""}
    BY StageNames DEF Void, Release
  <2>3. \A a, b : <<a, b>>[1] = a
    OBVIOUS
  <2>4. \A a \in {"kong", "kong.balancer", "order.transaction", "order.server", ""} : x.id # <<a, 0>>
    BY <2>1, <2>2, <2>3, Zenon
  <2> QED
    BY <2>4
<1>4. CASE x \in {Root, Balancer, TransactionSpan, ServerSpanOf}
  <2>1. "kong" # "" /\ "kong.balancer" # "" /\ "order.transaction" # "" /\ "order.server" # ""
        /\ "kong" # "kong.balancer" /\ "kong" # "order.transaction" /\ "kong" # "order.server"
        /\ "kong.balancer" # "order.transaction" /\ "kong.balancer" # "order.server" /\ "order.transaction" # "order.server" /\ 1 # 0
    OBVIOUS
  <2>2. CASE x = Root
    <3>1. x.id = <<"kong", 0>>
      BY <1>1, <2>2 DEF RootIs
    <3> QED
      BY <1>2, <2>1, <2>2, <3>1, Zenon
  <2>3. CASE x = TransactionSpan
    <3>1. x.id = <<"order.transaction", 0>>
      BY <1>1, <2>3 DEF TransactionIs
    <3> QED
      BY <1>2, <2>1, <2>3, <3>1, Zenon
  <2>4. CASE x = ServerSpanOf
    <3>1. x.id = <<"order.server", 0>>
      BY <1>1, <2>4 DEF ServerIsOf
    <3> QED
      BY <1>2, <2>1, <2>4, <3>1, Zenon
  <2>5. CASE x = Balancer
    <3>1. (Technical => x.id = <<"kong.balancer", 1>>) /\ (~Technical => x.id = <<"kong.balancer", 0>>)
      BY <1>1, <2>5 DEF BalancerIs
    <3> QED
      BY <1>2, <2>1, <2>5, <3>1, Zenon
  <2> QED
    BY <1>4, <2>2, <2>3, <2>4, <2>5
<1> QED
  BY <1>3, <1>4, FrameSpans DEF Answered

\* Only the spans of the stages have the names of stages in their identifiers.
LEMMA OwnNumbers ==
  ASSUME NEW t, NEW full, Answered(t, full), NEW x \in full, x.id[1] \in AllStages
  PROVE  x \in t
<1>1. RootIs /\ BalancerIs /\ ServerIsOf /\ TransactionIs
  BY FrameFacts DEF Answered
<1>2. ASSUME x \in {Root, Balancer, TransactionSpan, ServerSpanOf} PROVE FALSE
  <2>1. \A a, b : <<a, b>>[1] = a
    OBVIOUS
  <2>2. x.id \in {<<"kong", 0>>, <<"kong.balancer", 0>>, <<"kong.balancer", 1>>, <<"order.transaction", 0>>, <<"order.server", 0>>}
    BY <1>1, <1>2 DEF RootIs, BalancerIs, TransactionIs, ServerIsOf
  <2>3. x.id[1] \in {"kong", "kong.balancer", "order.transaction", "order.server"}
    BY <2>1, <2>2, Zenon
  <2> QED
    BY <2>3, StageNames DEF Void, Release
<1> QED
  BY <1>2, FrameSpans DEF Answered

\* The spans a stage or a service answers to are OrderService's.
LEMMA CallersService ==
  ASSUME NEW t, NEW full, Answered(t, full), NEW x \in full, NEW s \in AllStages, NEW k \in 0..3, x.id = <<s, k>>
  PROVE  x \in t /\ x.service = OrderService
<1>1. x \in t
  <2>1. \A a, b : <<a, b>>[1] = a
    OBVIOUS
  <2>2. x.id[1] = s
    BY <2>1, Zenon
  <2> QED
    BY <2>2, OwnNumbers
<1>2. k = 0 => StageLike(x, s)
  <2>1. 1 \in 1..3
    OBVIOUS
  <2> QED
    BY <1>1, <2>1, IdsTell DEF Answered
<1>3. k # 0 => ClientLike(x, s, k)
  <2>1. k # 0 => k \in 1..3
    OBVIOUS
  <2> QED
    BY <1>1, <2>1, IdsTell DEF Answered
<1> QED
  BY <1>1, <1>2, <1>3 DEF StageLike, ClientLike

\* A stage is served by a service downstream.
LEMMA ServiceBehind == \A s \in AllStages : Profile[s].service \in Downstream
<1> TAKE s \in AllStages
<1>1. Profile[s] \in [service : Downstream, timeout : 5..15, max : {2, 3},
       outcomes : {InventoryOutcomes, FraudOutcomes, PaymentOutcomes, ShippingOutcomes, UndoOutcomes}]
  BY ProfileIs
<1> QED
  BY <1>1

\* Whose caller is which: the edges of a trace.
LEMMA CallerIs ==
  ASSUME NEW t, NEW full, Answered(t, full), NEW y \in full
  PROVE  \/ y = Root
         \/ y = Balancer /\ y.parent = <<"kong", 0>>
         \/ y = ServerSpanOf
         \/ y = TransactionSpan /\ y.parent = <<"order.server", 0>>
         \/ y \in t /\ y.parent = <<"order.transaction", 0>> /\ y.service = OrderService
         \/ /\ y \in t /\ y.service \in {OrderService} \cup Downstream
            /\ \E x \in t : x.id = y.parent
            /\ \A x \in full : x.id = y.parent => x.service = OrderService
<1>1. RootIs /\ BalancerIs /\ ServerIsOf /\ TransactionIs
  BY FrameFacts DEF Answered
<1>2. CASE y \in t
  <2>1. PICK s \in AllStages :
           \/ StageLike(y, s)
           \/ \E k \in 1..3 : ClientLike(y, s, k) /\ \E x \in t : StageLike(x, s)
           \/ \E k \in 1..3 : ServerLike(y, s, k) /\ \E x \in t : ClientLike(x, s, k)
    BY <1>2, CallerOf
  <2>2. CASE StageLike(y, s)
    BY <1>2, <2>2 DEF StageLike
  <2>3. ASSUME NEW k \in 1..3, ClientLike(y, s, k), NEW x \in t, StageLike(x, s)
        PROVE  /\ y.service = OrderService /\ x.id = y.parent
               /\ \A z \in full : z.id = y.parent => z.service = OrderService
    <3>1. y.parent = <<s, 0>> /\ 0 \in 0..3
      BY <2>3 DEF ClientLike
    <3> QED
      BY <2>3, <3>1, CallersService DEF ClientLike, StageLike
  <2>4. ASSUME NEW k \in 1..3, ServerLike(y, s, k), NEW x \in t, ClientLike(x, s, k)
        PROVE  /\ y.service \in Downstream /\ x.id = y.parent
               /\ \A z \in full : z.id = y.parent => z.service = OrderService
    <3>1. Profile[s].service \in Downstream
      BY ServiceBehind
    <3>2. y.parent = <<s, k>> /\ y.service = Profile[s].service
      BY <2>4, Zenon DEF ServerLike
    <3>3. k \in 0..3
      OBVIOUS
    <3>4. x.id = <<s, k>>
      BY <2>4, Zenon DEF ClientLike
    <3>5. \A z \in full : z.id = y.parent => z.service = OrderService
      BY <3>2, <3>3, CallersService
    <3> QED
      BY <3>1, <3>2, <3>4, <3>5
  <2> QED
    BY <1>2, <2>1, <2>2, <2>3, <2>4
<1>3. CASE y \in {Root, Balancer, ServerSpanOf, TransactionSpan}
  BY <1>1, <1>3 DEF RootIs, BalancerIs, ServerIsOf, TransactionIs
<1> QED
  BY <1>2, <1>3, FrameSpans DEF Answered

\* Every edge between services is one the platform knows.
LEMMA EdgesAllowed ==
  ASSUME NEW t, NEW full, Answered(t, full)
  PROVE  ServiceEdges(full) \subseteq AllowedEdges
<1>1. RootIs /\ BalancerIs /\ ServerIsOf /\ TransactionIs
  BY FrameFacts DEF Answered
<1>2. ASSUME NEW a \in full, NEW b \in full, b.parent = a.id, a.service # b.service
      PROVE  <<a.service, b.service>> \in AllowedEdges
  <2>1. CASE b = Root
    <3>1. a.id = <<"", 0>>
      BY <1>1, <1>2, <2>1 DEF RootIs, NoParent
    <3> QED
      BY <3>1, FrameNumbers
  <2>2. CASE b = Balancer /\ b.parent = <<"kong", 0>>
    <3>1. a = Root
      BY <1>2, <2>2, FrameNumbers
    <3> QED
      BY <1>1, <1>2, <2>2, <3>1 DEF RootIs, BalancerIs
  <2>3. CASE b = ServerSpanOf
    <3>1. a.id = <<"kong.balancer", 0>>
      BY <1>1, <1>2, <2>3 DEF ServerIsOf
    <3>2. a = Balancer
      BY <3>1, FrameNumbers
    <3>3. a.service = Edge /\ b.service = OrderService
      BY <1>1, <2>3, <3>2 DEF ServerIsOf, BalancerIs
    <3> QED
      BY <3>3 DEF AllowedEdges
  <2>4. CASE b = TransactionSpan /\ b.parent = <<"order.server", 0>>
    <3>1. a = ServerSpanOf
      BY <1>2, <2>4, FrameNumbers
    <3> QED
      BY <1>1, <1>2, <2>4, <3>1 DEF ServerIsOf, TransactionIs
  <2>5. CASE b.parent = <<"order.transaction", 0>> /\ b.service = OrderService
    <3>1. a = TransactionSpan
      BY <1>2, <2>5, FrameNumbers
    <3> QED
      BY <1>1, <1>2, <2>5, <3>1 DEF TransactionIs
  <2>6. CASE b.service \in {OrderService} \cup Downstream /\ \A x \in full : x.id = b.parent => x.service = OrderService
    <3>1. a.service = OrderService /\ b.service \in Downstream
      BY <1>2, <2>6
    <3> QED
      BY <3>1 DEF AllowedEdges
  <2>7. \/ b = Root
        \/ b = Balancer /\ b.parent = <<"kong", 0>>
        \/ b = ServerSpanOf
        \/ b = TransactionSpan /\ b.parent = <<"order.server", 0>>
        \/ b.parent = <<"order.transaction", 0>> /\ b.service = OrderService
        \/ b.service \in {OrderService} \cup Downstream /\ \A x \in full : x.id = b.parent => x.service = OrderService
    BY CallerIs
  <2> QED
    BY <2>1, <2>2, <2>3, <2>4, <2>5, <2>6, <2>7
<1>3. ASSUME NEW e \in ServiceEdges(full) PROVE e \in AllowedEdges
  <2>1. PICK q \in full \X full : q[2].parent = q[1].id /\ q[1].service # q[2].service /\ e = <<q[1].service, q[2].service>>
    BY Zenon DEF ServiceEdges
  <2>2. q[1] \in full /\ q[2] \in full
    OBVIOUS
  <2> QED
    BY <1>2, <2>1, <2>2
<1> QED
  BY <1>3

\* Kong's own span is the one root of a trace, and a caller is missing only
\* where Kong has replaced its balancer span after a server error.
LEMMA IntegrityStored ==
  ASSUME NEW t, NEW full, Answered(t, full)
  PROVE  Integrity(full)
<1>0. full = t \cup {TransactionSpan, Root, Balancer, ServerSpanOf}
  BY FrameSpans DEF Answered
<1>1. RootIs /\ BalancerIs /\ ServerIsOf /\ TransactionIs
  BY FrameFacts DEF Answered
<1>2. {s \in full : s.parent = NoParent} = {Root}
  <2>1. \A s \in full : s.parent = NoParent => s = Root
    BY Which
  <2> QED
    BY <1>0, <1>1, <2>1 DEF RootIs
<1>3. Cardinality({Root}) = 1 /\ Cardinality({Balancer}) = 1
  BY Counted
<1>4. ASSUME Technical PROVE ServerSpanOf \in GatewaySpanGaps(full)
  <2>1. {s \in ByService(full, Edge, "CLIENT") : s.name = "kong.balancer"} = {Balancer}
    <3>1. \A s \in full : s.name = "kong.balancer" => s = Balancer
      BY Which
    <3> QED
      BY <1>0, <1>1, <3>1 DEF ByService, BalancerIs
  <2>2. {s \in ByService(full, Edge, "SERVER") : s.parent = NoParent} = {Root}
    <3>1. Root \in full /\ Root.service = Edge /\ Root.kind = "SERVER" /\ Root.parent = NoParent
      BY <1>0, <1>1 DEF RootIs
    <3> QED
      BY <1>2, <3>1 DEF ByService
  <2>3. ServerSpanOf \in ByService(full, OrderService, "SERVER")
    BY <1>0, <1>1 DEF ByService, ServerIsOf
  <2>4. ServerSpanOf.parent \notin Known(full)
    <3>1. ASSUME NEW x \in full, x.id = ServerSpanOf.parent PROVE FALSE
      <4>1. x.id = <<"kong.balancer", 0>>
        BY <1>1, <3>1 DEF ServerIsOf
      <4> QED
        BY <1>4, <4>1, FrameNumbers
    <3> QED
      BY <3>1 DEF Known
  <2>5. Balancer.status = "ERROR" /\ Balancer.httpStatus >= 500
    BY <1>1, <1>4 DEF BalancerIs, Technical
  <2>6. ServerSpanOf.request = Root.request
    BY <1>1, Zenon DEF ServerIsOf, RootIs, Plain
  <2>7. Root.start <= ServerSpanOf.start
    <3>1. Root.start = 0 /\ ServerSpanOf.start = 1
      BY <1>1, Zenon DEF ServerIsOf, RootIs
    <3> QED
      BY <3>1
  <2> QED
    BY <1>3, <2>1, <2>2, <2>3, <2>4, <2>5, <2>6, <2>7 DEF GatewaySpanGaps
<1>5. ASSUME NEW s \in full PROVE s.parent = NoParent \/ s.parent \in Known(full) \/ s \in GatewaySpanGaps(full)
  <2>1. \/ s = Root
        \/ s = Balancer /\ s.parent = <<"kong", 0>>
        \/ s = ServerSpanOf
        \/ s.parent = <<"order.server", 0>>
        \/ s.parent = <<"order.transaction", 0>>
        \/ \E x \in t : x.id = s.parent
    BY CallerIs
  <2>2. CASE s = Root
    BY <1>1, <2>2 DEF RootIs
  <2>3. CASE s = Balancer /\ s.parent = <<"kong", 0>>
    BY <1>0, <1>1, <2>3 DEF RootIs, Known
  <2>4. CASE s = ServerSpanOf
    <3>1. CASE Technical
      BY <1>4, <2>4, <3>1
    <3>2. CASE ~Technical
      BY <1>0, <1>1, <2>4, <3>2 DEF ServerIsOf, BalancerIs, Known
    <3> QED
      BY <3>1, <3>2
  <2>5. CASE s.parent = <<"order.server", 0>>
    BY <1>0, <1>1, <2>5 DEF ServerIsOf, Known
  <2>6. CASE s.parent = <<"order.transaction", 0>>
    BY <1>0, <1>1, <2>6 DEF TransactionIs, Known
  <2>7. CASE \E x \in t : x.id = s.parent
    BY <1>0, <2>7 DEF Known
  <2> QED
    BY <2>1, <2>2, <2>3, <2>4, <2>5, <2>6, <2>7
<1>6. Root.service = Edge
  BY <1>1 DEF RootIs
<1> QED
  BY <1>2, <1>3, <1>5, <1>6 DEF Integrity

\* The checks that every contract makes pass on a trace stored as recorded.
LEMMA FineStored ==
  ASSUME NEW t, Answered(t, spans)
  PROVE  Fine /\ spans # {}
<1>0. spans = t \cup {TransactionSpan, Root, Balancer, ServerSpanOf}
  BY FrameSpans DEF Answered
<1>1. RootIs /\ BalancerIs /\ ServerIsOf /\ TransactionIs
  BY FrameFacts DEF Answered
<1>2. ASSUME NEW x \in spans PROVE Plain(x)
  <2>1. CASE x \in t
    BY <2>1, SpansFit DEF Answered, Fits
  <2>2. CASE x \in {TransactionSpan, Root, Balancer, ServerSpanOf}
    BY <1>1, <2>2 DEF RootIs, BalancerIs, ServerIsOf, TransactionIs
  <2> QED
    BY <1>0, <2>1, <2>2
<1>3. Integrity(spans)
  BY IntegrityStored
<1>4. KubernetesMetadata(spans) /\ SensitiveData(spans)
  BY <1>2 DEF KubernetesMetadata, SensitiveData, Plain
<1>5. Correlation(spans, Request)
  <2>1. ServerSpanOf \in ByService(spans, OrderService, "SERVER")
    BY <1>0, <1>1 DEF ByService, ServerIsOf
  <2>2. \A s \in ByService(spans, OrderService, "SERVER") : s.request = Request.id /\ s.run = Request.run
    BY <1>2 DEF ByService, Plain
  <2>3. Transaction(spans).order = Request.order
    <3>1. Transaction(spans) = TransactionSpan /\ TransactionSpan \in spans
      BY <1>0, TransactionStored
    <3> QED
      BY <1>2, <3>1 DEF Plain
  <2>4. \A s \in spans : s.service \in Downstream /\ s.kind = "SERVER" => s.run = Request.run
    BY <1>2 DEF Plain
  <2> QED
    BY <2>1, <2>2, <2>3, <2>4 DEF Correlation
<1> QED
  BY <1>0, <1>3, <1>4, <1>5 DEF Fine

\* The services behind the stages.
LEMMA ServicesBehind ==
  /\ Profile["inventory.reserve"].service = "inventory-service" /\ Profile["fraud.evaluate"].service = "fraud-service"
  /\ Profile["payment.authorize"].service = "payment-service" /\ Profile["shipping.create"].service = "shipping-service"
  /\ Profile[Void].service = "payment-service" /\ Profile[Release].service = "inventory-service"
<1>1. Profile[Void].service = "payment-service" /\ Profile[Release].service = "inventory-service"
  BY DEF Profile, Void, Release, AllStages, Stages, CompensationStages
<1> QED
  BY <1>1, ProfileIs

\* A call that reached its service left a span of that service.
LEMMA ReachedStored ==
  ASSUME NEW t, NEW full, Answered(t, full), NEW s \in AllStages, NEW k \in 1..3, HasId(t, <<s, 9 + k>>)
  PROVE  /\ \E y \in t : ServerLike(y, s, k) /\ y.id[1] = s
         /\ Profile[s].service \in Services(full)
<1>1. PICK y \in t : y.id = <<s, 9 + k>>
  BY DEF HasId
<1>2. ServerLike(y, s, k)
  BY <1>1, IdsTell DEF Answered
<1>3. y.id[1] = s
  <2>1. \A a, b : <<a, b>>[1] = a
    OBVIOUS
  <2> QED
    BY <1>1, <2>1, Zenon
<1>4. y.service = Profile[s].service /\ y \in full
  BY <1>2, Zenon DEF ServerLike, Answered
<1> QED
  BY <1>2, <1>3, <1>4 DEF Services

\* Calls that were counted have their spans.
LEMMA CountedCalls ==
  ASSUME NEW t, NEW full, Answered(t, full), NEW s \in AllStages, reached[s] > 0
  PROVE  \E k \in 1..3 : HasId(t, <<s, 9 + k>>)
<1>1. reached[s] = Reach(t, s, 1) + Reach(t, s, 2) + Reach(t, s, 3)
  BY DEF Answered, Logged, Payments
<1>2. \A k \in {1, 2, 3} : ~HasId(t, <<s, 9 + k>>) => Reach(t, s, k) = 0
  BY Zenon DEF Reach
<1>3. 1..3 = {1, 2, 3}
  OBVIOUS
<1> QED
  BY <1>1, <1>2, <1>3

\* A stage that got an answer made a call.
LEMMA CallMade ==
  ASSUME NEW t, NEW full, Answered(t, full), NEW s \in AllStages, NEW x, NEW m, StageOf(t, s, x, m),
         results[s] \in {"ok", "rejected", "error"} \/ reached[s] > 0
  PROVE  /\ \E k \in 1..3 : HasId(t, <<s, 9 + k>>)
         /\ x.start < x.end
<1>1. /\ x \in t /\ x.id = <<s, 0>> /\ StageLike(x, s) /\ m \in 0..3 /\ Closed(Of(t, s), s, results[s], x, m)
  BY Zenon DEF StageOf
<1>2. Attempted(Of(t, s) \ {x}, s, m, x.start, x.end) /\ x.start \in Nat /\ x.end \in Nat
  BY <1>1, Zenon DEF Closed, StageLike, Plain
<1>3. \E k \in 1..3 : HasId(t, <<s, 9 + k>>)
  <2>1. CASE results[s] \in {"ok", "rejected", "error"}
    <3>1. m = x.retryCount + 1 /\ x.retryCount \in 0..2 /\ HasId(Of(t, s), <<s, 9 + m>>)
      BY <1>1, <2>1 DEF Closed
    <3>2. m \in 1..3
      BY <3>1
    <3> QED
      BY <3>1, <3>2 DEF HasId, Of
  <2>2. CASE reached[s] > 0
    BY <2>2, CountedCalls
  <2> QED
    BY <2>1, <2>2
<1>4. m >= 1
  <2>1. PICK k \in 1..3 : HasId(t, <<s, 9 + k>>)
    BY <1>3
  <2>2. PICK y \in t : ServerLike(y, s, k) /\ y.id[1] = s
    BY <2>1, ReachedStored
  <2>3. y # x
    BY <1>1, <2>2 DEF ServerLike, StageLike
  <2>4. y \in Of(t, s) \ {x}
    BY <2>2, <2>3 DEF Of
  <2>5. \E j \in 1..m : TRUE
    BY <1>2, <2>4, Zenon DEF Attempted
  <2> QED
    BY <1>1, <2>5
<1>5. HasId(Of(t, s) \ {x}, <<s, 1>>)
  <2>1. 1 \in 1..m
    BY <1>1, <1>4
  <2> QED
    BY <1>2, <2>1, Zenon DEF Attempted
<1>6. PICK c \in Of(t, s) \ {x} : c.id = <<s, 1>>
  BY <1>5, Zenon DEF HasId
<1>7. c.start \in Nat /\ c.end \in Nat /\ c.start < c.end
  <2>1. 1 \in 1..3 /\ c \in t
    BY <1>6 DEF Of
  <2>2. ClientLike(c, s, 1)
    BY <1>6, <2>1, IdsTell DEF Answered
  <2> QED
    BY <2>2, Zenon DEF ClientLike, Plain
<1>8. x.start <= c.start /\ c.end <= x.end
  BY <1>2, <1>6, Zenon DEF Attempted
<1> QED
  BY <1>2, <1>3, <1>7, <1>8

\* Which services a trace shows.
LEMMA ServicesStored ==
  ASSUME NEW t, NEW full, Answered(t, full)
  PROVE  /\ {Edge, OrderService} \subseteq Services(full)
         /\ \A s \in AllStages : results[s] \in {"ok", "rejected", "error"} \/ reached[s] > 0 => Profile[s].service \in Services(full)
         /\ \A v \in Downstream : (\A s \in AllStages : Profile[s].service = v => results[s] = "") => v \notin Services(full)
<1>1. {Edge, OrderService} \subseteq Services(full)
  <2>1. Root \in full /\ ServerSpanOf \in full
    BY FrameSpans DEF Answered
  <2>2. Root.service = Edge /\ ServerSpanOf.service = OrderService
    BY FrameFacts DEF Answered, RootIs, ServerIsOf
  <2> QED
    BY <2>1, <2>2 DEF Services
<1>2. ASSUME NEW s \in AllStages, results[s] \in {"ok", "rejected", "error"} \/ reached[s] > 0
      PROVE  Profile[s].service \in Services(full)
  <2>1. \E k \in 1..3 : HasId(t, <<s, 9 + k>>)
    <3>1. CASE results[s] \in {"ok", "rejected", "error"}
      <4>1. results[s] # ""
        BY <3>1
      <4>2. PICK x, m : StageOf(t, s, x, m)
        BY <4>1, StageOfCalled
      <4> QED
        BY <3>1, <4>2, CallMade
    <3>2. CASE reached[s] > 0
      BY <3>2, CountedCalls
    <3> QED
      BY <1>2, <3>1, <3>2
  <2> QED
    BY <2>1, ReachedStored
<1>3. ASSUME NEW v \in Downstream, \A s \in AllStages : Profile[s].service = v => results[s] = "", v \in Services(full)
      PROVE  FALSE
  <2>1. PICK x \in full : x.service = v
    BY <1>3 DEF Services
  <2>2. x \in t
    BY <2>1, Which
  <2>3. PICK s \in AllStages : StageLike(x, s) \/ \E k \in 1..3 : ClientLike(x, s, k) \/ ServerLike(x, s, k)
    BY <2>2, SpanKinds DEF Answered
  <2>4. x.service # OrderService
    BY <2>1 DEF Downstream, OrderService
  <2>5. PICK k \in 1..3 : ServerLike(x, s, k)
    BY <2>3, <2>4 DEF StageLike, ClientLike
  <2>6. Profile[s].service = v /\ x.id = <<s, 9 + k>>
    BY <2>1, <2>5, Zenon DEF ServerLike
  <2>7. x \in Of(t, s)
    <3>1. \A a, b : <<a, b>>[1] = a
      OBVIOUS
    <3> QED
      BY <2>2, <2>6, <3>1 DEF Of
  <2> QED
    BY <1>3, <2>3, <2>6, <2>7, StageOfCalled
<1> QED
  BY <1>1, <1>2, <1>3

\* A stage that got an answer, or whose call reached its service.
Met(s) == results[s] # "" /\ (results[s] \in {"ok", "rejected", "error"} \/ reached[s] > 0)

\* The stages of a trace ran in the order they should.
LEMMA StageOrderStored ==
  ASSUME NEW t, NEW full, Answered(t, full), Met("inventory.reserve"), Met("fraud.evaluate")
  PROVE  StageOrder(full)
<1> DEFINE inv == "inventory.reserve"
<1> DEFINE fraud == "fraud.evaluate"
<1> DEFINE ship == "shipping.create"
<1> DEFINE business == UNION {SpansNamed(full, name) : name \in Stages}
<1>0. /\ inv \in AllStages /\ fraud \in AllStages /\ Pay \in AllStages /\ ship \in AllStages
      /\ Typed /\ Logged(t) /\ Timeline(t)
  BY StageNames DEF Answered, Logged, Pay
<1>1. PICK i, mi : StageOf(t, inv, i, mi)
  BY <1>0, StageOfCalled DEF Met
<1>2. PICK f, mf : StageOf(t, fraud, f, mf)
  BY <1>0, StageOfCalled DEF Met
<1>3. /\ IsSingle(full, inv) /\ Single(full, inv) = i /\ IsSingle(full, fraud) /\ Single(full, fraud) = f
      /\ StageAt(t, inv, i) /\ StageAt(t, fraud, f)
  <2>1. IsSingle(full, inv) /\ Single(full, inv) = i
    BY <1>0, <1>1, StageNamed
  <2>2. IsSingle(full, fraud) /\ Single(full, fraud) = f
    BY <1>0, <1>2, StageNamed
  <2> QED
    BY <1>1, <1>2, <2>1, <2>2, Zenon DEF StageOf, StageAt
<1>4. Overlaps(i, f)
  <2>1. i.start < i.end
    BY <1>0, <1>1, CallMade DEF Met
  <2>2. f.start < f.end
    BY <1>0, <1>2, CallMade DEF Met
  <2>3. i.start = 3 /\ f.start = 3
    BY <1>3 DEF StageAt, Timeline, Answered, Logged
  <2> QED
    BY <2>1, <2>2, <2>3 DEF Overlaps
<1>5. \A s, z \in AllStages : Rank(s) < Rank(z) => \A x, y \in t : StageAt(t, s, x) /\ StageAt(t, z, y) => y.start >= x.end
  <2> SUFFICES ASSUME NEW s \in AllStages, NEW z \in AllStages, Rank(s) < Rank(z), NEW x \in t, NEW y \in t,
                      StageAt(t, s, x), StageAt(t, z, y)
               PROVE  y.start >= x.end
    OBVIOUS
  <2>1. x.end <= y.start
    BY <1>0 DEF Timeline
  <2>2. x.end \in Nat /\ y.start \in Nat
    <3>1. Fits(x) /\ Fits(y)
      BY <1>0, SpansFit
    <3> QED
      BY <3>1 DEF Fits
  <2> QED
    BY <2>1, <2>2
<1>6. \A s \in AllStages, x \in full : x.name = s => x \in t /\ StageAt(t, s, x)
  BY Which DEF StageLike, StageAt
<1>7. ASSUME NEW s \in AllStages, IsSingle(full, s) PROVE Single(full, s) \in t /\ StageAt(t, s, Single(full, s))
  <2>1. results[s] # ""
    BY <1>7, StageNamed
  <2>2. PICK x, m : StageOf(t, s, x, m)
    BY <2>1, StageOfCalled
  <2> QED
    BY <2>2, StageNamed DEF StageOf, StageAt
<1>8. IsSingle(full, Pay) => Single(full, Pay).start >= i.end /\ Single(full, Pay).start >= f.end
  <2>1. Rank(inv) < Rank(Pay) /\ Rank(fraud) < Rank(Pay)
    BY RankIs DEF Pay
  <2> QED
    BY <1>0, <1>3, <1>5, <1>7, <2>1 DEF StageAt
<1>9. IsSingle(full, Pay) /\ IsSingle(full, ship) => Single(full, ship).start >= Single(full, Pay).end
  <2>1. Rank(Pay) < Rank(ship)
    BY RankIs DEF Pay
  <2> QED
    BY <1>0, <1>5, <1>7, <2>1
<1>10. \A name \in CompensationStages : \A c \in SpansNamed(full, name), s \in business : c.start >= s.end
  <2> SUFFICES ASSUME NEW name \in CompensationStages, NEW c \in SpansNamed(full, name), NEW s \in business
               PROVE  c.start >= s.end
    OBVIOUS
  <2>1. PICK z \in Stages : s \in SpansNamed(full, z)
    OBVIOUS
  <2>2. z \in AllStages /\ name \in AllStages /\ Rank(z) < Rank(name)
    <3>1. name \in {Void, Release} /\ z \in {"inventory.reserve", "fraud.evaluate", "payment.authorize", "shipping.create"}
      BY <2>1, StageNames
    <3>2. Rank(name) \in {4, 5} /\ Rank(z) \in {1, 2, 3}
      BY <3>1, RankIs
    <3> QED
      BY <3>1, <3>2, StageNames
  <2>3. StageAt(t, z, s) /\ s \in t
    BY <1>6, <2>1, <2>2 DEF SpansNamed
  <2>4. StageAt(t, name, c) /\ c \in t
    BY <1>6, <2>2 DEF SpansNamed
  <2> QED
    BY <1>5, <2>2, <2>3, <2>4
<1>11. Pay = "payment.authorize"
  BY DEF Pay
<1> QED
  BY <1>3, <1>4, <1>8, <1>9, <1>10, <1>11, Zenon DEF StageOrder

\* The spans of the stages are there or not, as the stages were called or not.
LEMMA StagesStored ==
  ASSUME NEW t, NEW full, Answered(t, full), NEW A \in SUBSET AllStages, NEW B \in SUBSET AllStages,
         \A s \in A : results[s] # "", \A s \in B : results[s] = ""
  PROVE  StagesPresent(full, A, B)
<1>1. ASSUME NEW s \in A PROVE SpansNamed(full, s) # {}
  <2>1. PICK x, m : StageOf(t, s, x, m)
    BY StageOfCalled
  <2>2. SpansNamed(full, s) = {x}
    BY <2>1, StageNamed
  <2> QED
    BY <2>2
<1>2. ASSUME NEW s \in B PROVE SpansNamed(full, s) = {}
  BY StageNamed
<1> QED
  BY <1>1, <1>2 DEF StagesPresent

\* A set of three members.
LEMMA CountedThree ==
  ASSUME NEW a, NEW b, NEW c, a # b, a # c, b # c
  PROVE  Cardinality({a, b, c}) = 3 /\ IsFiniteSet({a, b, c})
<1>1. Cardinality({a, b}) = 2 /\ IsFiniteSet({a, b})
  BY Counted, Zenon
<1>2. {a, b} \cup {c} = {a, b, c} /\ c \notin {a, b}
  OBVIOUS
<1>3. IsFiniteSet({a, b} \cup {c}) /\ Cardinality({a, b} \cup {c}) = Cardinality({a, b}) + 1
  BY <1>1, <1>2, FS_AddElement
<1> QED
  BY <1>1, <1>2, <1>3

\* Spans that start one after the other are listed in that order.
LEMMA Sorted ==
  ASSUME NEW n \in {2, 3}, NEW C, NEW c \in [1..n -> C], \A z \in C : \E k \in 1..n : z = c[k],
         \A k \in 1..n : c[k].start \in Nat, \A i, j \in 1..n : i < j => c[i].start < c[j].start
  PROVE  ByStart(C) = c /\ Len(c) = n
<1> DEFINE q == ByStart(C)
<1>1. \A i, j \in 1..n : i # j => c[i] # c[j]
  <2> SUFFICES ASSUME NEW i \in 1..n, NEW j \in 1..n, i < j PROVE c[i] # c[j]
    OBVIOUS
  <2> QED
    OBVIOUS
<1>2. IsFiniteSet(C) /\ Cardinality(C) = n
  <2>1. CASE n = 2
    <3>1. PICK a, b : a = c[1] /\ b = c[2]
      OBVIOUS
    <3>2. C = {a, b} /\ a # b
      BY <1>1, <2>1, <3>1
    <3>3. IsFiniteSet(C) /\ Cardinality(C) = 2
      BY <3>2, Counted, Zenon
    <3> QED
      BY <2>1, <3>3
  <2>2. CASE n = 3
    <3>1. PICK a, b, d : a = c[1] /\ b = c[2] /\ d = c[3]
      OBVIOUS
    <3>2. C = {a, b, d} /\ a # b /\ a # d /\ b # d
      BY <1>1, <2>2, <3>1
    <3>3. IsFiniteSet({a, b, d}) /\ Cardinality({a, b, d}) = 3
      <4> HIDE DEF q
      <4>1. a # b /\ a # d /\ b # d
        BY <3>2
      <4> QED
        BY <4>1, CountedThree
    <3> QED
      BY <2>2, <3>2, <3>3
  <2> QED
    BY <2>1, <2>2
<1>3. c \in SetToSeqs(C)
  BY <1>1, <1>2 DEF SetToSeqs
<1>4. InOrder(c)
  BY DEF InOrder
<1>5. q \in SetToSeqs(C) /\ InOrder(q)
  BY <1>3, <1>4, Ordered
<1>6. q \in [1..n -> C] /\ \A i, j \in 1..n : i # j => q[i] # q[j]
  <2>1. /\ q \in [1..Cardinality(C) -> C]
        /\ \A i, j \in 1..Cardinality(C) : i # j => q[i] # q[j]
    <3> HIDE DEF q
    <3> QED
      BY <1>2, <1>5, ListIs, Zenon
  <2> QED
    BY <1>2, <2>1, Zenon
<1>7. \A i, j \in 1..n : i < j => q[i].start <= q[j].start
  BY <1>5, <1>6 DEF InOrder
<1> HIDE DEF q
<1> DEFINE p == [i \in 1..n |-> CHOOSE k \in 1..n : q[i] = c[k]]
<1>8. p \in [1..n -> 1..n] /\ \A i \in 1..n : q[i] = c[p[i]]
  <2>1. \A i \in 1..n : \E k \in 1..n : q[i] = c[k]
    BY <1>6
  <2> QED
    BY <2>1
<1> HIDE DEF p
<1>9. ASSUME NEW i \in 1..n, NEW j \in 1..n, i < j PROVE p[i] < p[j]
  <2>1. p[i] \in 1..n /\ p[j] \in 1..n /\ p[i] # p[j]
    <3>1. q[i] # q[j]
      BY <1>6, <1>9
    <3> QED
      BY <1>8, <3>1
  <2>2. c[p[i]].start <= c[p[j]].start
    BY <1>7, <1>8, <1>9
  <2>3. ~(p[j] < p[i])
    <3>1. p[j] < p[i] => c[p[j]].start < c[p[i]].start
      BY <2>1
    <3>2. c[p[i]].start \in Nat /\ c[p[j]].start \in Nat
      BY <2>1
    <3> QED
      BY <2>2, <3>1, <3>2, SMTT(20)
  <2> QED
    BY <2>1, <2>3
<1>10. \A i \in 1..n : p[i] = i
  <2>1. CASE n = 2
    <3>1. p[1] \in 1..2 /\ p[2] \in 1..2 /\ p[1] < p[2]
      BY <1>8, <1>9, <2>1
    <3>2. p[1] = 1 /\ p[2] = 2
      BY <3>1
    <3> QED
      BY <2>1, <3>2
  <2>2. CASE n = 3
    <3>1. p[1] \in 1..3 /\ p[2] \in 1..3 /\ p[3] \in 1..3 /\ p[1] < p[2] /\ p[2] < p[3]
      BY <1>8, <1>9, <2>2
    <3>2. p[1] = 1 /\ p[2] = 2 /\ p[3] = 3
      BY <3>1
    <3> QED
      BY <2>2, <3>2
  <2> QED
    BY <2>1, <2>2
<1>11. q = c
  BY <1>6, <1>8, <1>10
<1>12. Len(c) = n
  OBVIOUS
<1> QED
  BY <1>11, <1>12 DEF q

\* The calls of a stage, as its retries are read from a trace.
Calls(t, x) == {c \in ChildrenOf(t, x) : c.kind = "CLIENT"}

\* The calls found below a stage's span are its attempts.
LEMMA CallsAre ==
  ASSUME NEW t, NEW full, Answered(t, full), NEW s \in AllStages, NEW x, NEW m, StageOf(t, s, x, m), NEW z \in Calls(full, x)
  PROVE  z \in t /\ \E k \in 1..m : ClientLike(z, s, k)
<1>0. /\ x \in t /\ x.id = <<s, 0>> /\ StageLike(x, s) /\ m \in 0..3 /\ Closed(Of(t, s), s, results[s], x, m)
  BY Zenon DEF StageOf
<1>1. z \in full /\ z.parent = <<s, 0>> /\ z.kind = "CLIENT"
  BY <1>0 DEF Calls, ChildrenOf
<1>2. \A a, b, c, d : <<a, b>> = <<c, d>> => a = c /\ b = d
  OBVIOUS
<1>3. z \in t
  <2>1. RootIs /\ BalancerIs /\ ServerIsOf /\ TransactionIs
    BY FrameFacts DEF Answered
  <2>2. z \notin {Root, ServerSpanOf, TransactionSpan}
    BY <1>1, <2>1 DEF RootIs, ServerIsOf, TransactionIs
  <2>3. z # Balancer
    <3>1. s # "kong"
      BY StageNames DEF Void, Release
    <3>2. Balancer.parent = <<"kong", 0>>
      BY <2>1, Zenon DEF BalancerIs
    <3> QED
      BY <1>1, <1>2, <3>1, <3>2, Zenon
  <2> QED
    BY <1>1, <2>2, <2>3, FrameSpans DEF Answered
<1>4. PICK w \in AllStages : StageLike(z, w) \/ \E k \in 1..3 : ClientLike(z, w, k) \/ ServerLike(z, w, k)
  BY <1>3, SpanKinds DEF Answered
<1>5. PICK k \in 1..3 : ClientLike(z, w, k)
  BY <1>1, <1>4 DEF StageLike, ServerLike
<1>6. w = s /\ z.id = <<s, k>>
  <2>1. z.parent = <<w, 0>> /\ z.id = <<w, k>>
    BY <1>5, Zenon DEF ClientLike
  <2>2. <<w, 0>> = <<s, 0>>
    BY <1>1, <2>1
  <2>3. w = s
    BY <1>2, <2>2, Zenon
  <2> QED
    BY <2>1, <2>3
<1>7. z \in Of(t, s) \ {x}
  <2>1. \A a, b : <<a, b>>[1] = a
    OBVIOUS
  <2>2. z # x
    BY <1>0, <1>1 DEF StageLike
  <2> QED
    BY <1>3, <1>6, <2>1, <2>2 DEF Of
<1>8. PICK j \in 1..m : ClientLike(z, s, j) \/ ServerLike(z, s, j)
  BY <1>0, <1>7, Zenon DEF Closed, Attempted
<1> QED
  BY <1>1, <1>3, <1>8 DEF ServerLike

\* A stage with n attempts, all shown, has the retries of its contract.
LEMMA RetriesStored ==
  ASSUME NEW t, NEW full, Answered(t, full), NEW s \in AllStages, NEW n \in {2, 3}, NEW x, StageOf(t, s, x, n), x.retryCount = n - 1
  PROVE  Retries(full, s, n)
<1>0. /\ x \in t /\ x.id = <<s, 0>> /\ StageLike(x, s) /\ Closed(Of(t, s), s, results[s], x, n)
  BY Zenon DEF StageOf
<1>1. Attempted(Of(t, s) \ {x}, s, n, x.start, x.end)
  BY <1>0, Zenon DEF Closed
<1>2. t \subseteq full /\ n \in 0..3 /\ 1..n \subseteq 1..3
  BY DEF Answered
<1> DEFINE c == [k \in 1..n |-> CHOOSE y \in Of(t, s) \ {x} : y.id = <<s, k>>]
<1>3. ASSUME NEW k \in 1..n PROVE c[k] \in Of(t, s) \ {x} /\ c[k].id = <<s, k>> /\ ClientLike(c[k], s, k)
  <2>1. \E y \in Of(t, s) \ {x} : y.id = <<s, k>>
    BY <1>1, Zenon DEF Attempted, HasId
  <2>2. c[k] \in Of(t, s) \ {x} /\ c[k].id = <<s, k>>
    BY <2>1, Zenon
  <2>3. c[k] \in t
    BY <2>2 DEF Of
  <2> HIDE DEF c
  <2> QED
    BY <1>2, <2>2, <2>3, IdsTell DEF Answered
<1> HIDE DEF c
<1>4. \A k \in 1..n : c[k].start \in Nat /\ c[k].end \in Nat /\ c[k].start < c[k].end /\ c[k].attempt = k
  BY <1>3, Zenon DEF ClientLike, Plain
<1>5. c \in [1..n -> Calls(full, x)]
  <2>1. DOMAIN c = 1..n /\ c = [k \in 1..n |-> c[k]]
    BY DEF c
  <2>2. \A k \in 1..n : c[k] \in Calls(full, x)
    <3> TAKE k \in 1..n
    <3>1. c[k] \in full
      BY <1>2, <1>3 DEF Of
    <3>2. c[k].parent = x.id /\ c[k].kind = "CLIENT"
      BY <1>0, <1>3, Zenon DEF ClientLike
    <3> QED
      BY <3>1, <3>2 DEF Calls, ChildrenOf
  <2> QED
    BY <2>1, <2>2
<1>6. \A z \in Calls(full, x) : \E k \in 1..n : z = c[k]
  <2> TAKE z \in Calls(full, x)
  <2>1. z \in t /\ \E k \in 1..n : ClientLike(z, s, k)
    BY CallsAre
  <2>2. PICK k \in 1..n : ClientLike(z, s, k)
    BY <2>1
  <2>3. z.id = <<s, k>> /\ z # x
    BY <1>0, <2>2 DEF ClientLike, StageLike
  <2>4. z \in Of(t, s) \ {x}
    <3>1. \A a, b : <<a, b>>[1] = a
      OBVIOUS
    <3> QED
      BY <2>1, <2>3, <3>1 DEF Of
  <2>5. z = c[k]
    BY <1>1, <1>3, <2>3, <2>4, Zenon DEF Attempted
  <2> QED
    BY <2>5
<1>7. \A i, j \in 1..n : i < j => c[i].start < c[j].start
  <2> SUFFICES ASSUME NEW i \in 1..n, NEW j \in 1..n, i < j PROVE c[i].start < c[j].start
    OBVIOUS
  <2>1. c[i].end + 2 <= c[j].start
    <3>1. c[i] \in Of(t, s) \ {x} /\ c[i].id = <<s, i>> /\ c[j] \in Of(t, s) \ {x} /\ c[j].id = <<s, j>>
      BY <1>3
    <3> QED
      BY <1>1, <3>1, Zenon DEF Attempted
  <2> QED
    BY <1>4, <2>1
<1>8. ByStart(Calls(full, x)) = c /\ Len(c) = n
  <2>1. \A k \in 1..n : c[k].start \in Nat
    BY <1>4
  <2> QED
    BY <1>5, <1>6, <1>7, <2>1, Sorted, Zenon
<1>9. IsSingle(full, s) /\ Single(full, s) = x
  BY <1>2, StageNamed
<1>10. Attempts(full, s) = c
  BY <1>8, <1>9, Zenon DEF Attempts, Calls
<1>11. [i \in 1..n |-> c[i].attempt] = [i \in 1..n |-> i]
  BY <1>4
<1>12. x.retryEvents = n - 1
  BY <1>0 DEF StageLike
<1> QED
  BY <1>8, <1>9, <1>10, <1>11, <1>12, Zenon DEF Retries

\* Two authorizations, the first recorded and the second a replay.
LEMMA ReplayStored ==
  ASSUME NEW t, NEW full, Answered(t, full), NEW x, StageOf(t, Pay, x, 2), x.retryCount = 1, results[Pay] = "ok",
         authorized = 1, NEW a \in t, NEW b \in t, a.id = <<Pay, 10>>, b.id = <<Pay, 11>>, a.recorded
  PROVE  IdempotentReplay(full)
<1> DEFINE u == Of(t, Pay) \ {x}
<1> DEFINE S == Authorizations(full)
<1>0. /\ x \in t /\ x.id = <<Pay, 0>> /\ StageLike(x, Pay) /\ Closed(Of(t, Pay), Pay, results[Pay], x, 2)
      /\ Pay \in AllStages /\ Typed /\ Logged(t) /\ Payments(t)
  BY StageNames, Zenon DEF StageOf, Pay, Answered, Logged
<1>1. Attempted(u, Pay, 2, x.start, x.end)
  BY <1>0, Zenon DEF Closed
<1>2. 9 + 1 = 10 /\ 9 + 2 = 11 /\ 9 + 3 = 12 /\ 10 + 1 = 11 /\ 1 \in 1..2 /\ 2 \in 1..2 /\ 1 \in 1..3 /\ 2 \in 1..3
  OBVIOUS
<1>3. ServerLike(a, Pay, 1) /\ ServerLike(b, Pay, 2)
  <2>1. a.id = <<Pay, 9 + 1>> /\ b.id = <<Pay, 9 + 2>>
    BY <1>2
  <2> QED
    BY <1>0, <1>2, <2>1, IdsTell
<1>4. \A z \in t : z.id[1] = Pay /\ z.kind # "INTERNAL" => z \in u
  BY <1>0 DEF Of, StageLike
<1>5. a \in u /\ b \in u
  <2>1. \A c, d : <<c, d>>[1] = c
    OBVIOUS
  <2>2. a.id[1] = Pay /\ b.id[1] = Pay
    BY <2>1
  <2>3. a.kind # "INTERNAL" /\ b.kind # "INTERNAL"
    BY <1>3 DEF ServerLike
  <2> HIDE DEF u
  <2> QED
    BY <1>4, <2>2, <2>3
<1> HIDE DEF u
<1>6. \A z \in S : z = a \/ z = b
  <2> SUFFICES ASSUME NEW z \in S PROVE z = a \/ z = b
    OBVIOUS
  <2>1. z \in full /\ z \in Authorizations(full)
    BY DEF Authorizations, ByService
  <2>2. PICK k \in 1..3 : z \in t /\ ServerLike(z, Pay, k)
    BY <2>1, AuthorizationsAre
  <2>3. z.id = <<Pay, 9 + k>> /\ z.kind = "SERVER"
    BY <2>2, Zenon DEF ServerLike
  <2>4. z \in u
    <3>1. \A c, d : <<c, d>>[1] = c
      OBVIOUS
    <3>2. z.id[1] = Pay
      BY <2>3, <3>1
    <3>3. z.kind # "INTERNAL"
      BY <2>3
    <3> QED
      BY <1>4, <2>2, <3>2, <3>3, Zenon
  <2>5. PICK j \in 1..2 : ClientLike(z, Pay, j) \/ ServerLike(z, Pay, j)
    BY <1>1, <2>4, Zenon DEF Attempted
  <2>6. z.id = <<Pay, 9 + j>>
    BY <2>3, <2>5 DEF ClientLike, ServerLike
  <2>7. z.id = <<Pay, 10>> \/ z.id = <<Pay, 11>>
    <3>1. j = 1 \/ j = 2
      OBVIOUS
    <3> QED
      BY <1>2, <2>6, <3>1, Zenon
  <2>8. \A y, w \in u : y.id = w.id => y = w
    BY <1>1, Zenon DEF Attempted
  <2>9. z.id = a.id \/ z.id = b.id
    BY <2>7
  <2> QED
    BY <1>5, <2>4, <2>8, <2>9, Zenon
<1>7. a \in S /\ b \in S
  <2>1. a \in full /\ b \in full
    BY DEF Answered
  <2> QED
    BY <1>2, <1>3, <2>1, AuthorizationsAre
<1>8. a.start < b.start /\ a.start \in Nat /\ b.start \in Nat
  <2>1. HasId(u, <<Pay, 1>>) /\ HasId(u, <<Pay, 2>>)
    BY <1>1, <1>2, Zenon DEF Attempted
  <2>2. PICK c \in u : c.id = <<Pay, 1>>
    BY <2>1, Zenon DEF HasId
  <2>3. PICK d \in u : d.id = <<Pay, 2>>
    BY <2>1, Zenon DEF HasId
  <2>4. a.id = <<Pay, 9 + 1>> /\ b.id = <<Pay, 9 + 2>>
    BY <1>2
  <2>5. c.start = a.start /\ c.end = a.end /\ d.start = b.start
    <3>1. \A k \in 1..2 : \A y, z \in u : y.id = <<Pay, k>> /\ z.id = <<Pay, 9 + k>> => y.start = z.start /\ y.end = z.end
      BY <1>1, Zenon DEF Attempted
    <3>2. 1 \in 1..2 /\ 2 \in 1..2
      OBVIOUS
    <3>3. c.start = a.start /\ c.end = a.end
      BY <1>5, <2>2, <2>4, <3>1, <3>2
    <3>4. d.start = b.start
      BY <1>5, <2>3, <2>4, <3>1, <3>2
    <3> QED
      BY <3>3, <3>4
  <2>6. c.end + 2 <= d.start
    <3>1. 1 < 2
      OBVIOUS
    <3> QED
      BY <1>1, <1>2, <2>2, <2>3, <3>1, Zenon DEF Attempted
  <2>7. a.start < a.end /\ a.start \in Nat /\ a.end \in Nat /\ b.start \in Nat
    BY <1>3, Zenon DEF ServerLike, Plain
  <2> QED
    BY <2>5, <2>6, <2>7
<1>9. ~b.recorded /\ b.replay
  <2>1. Recorded(t, 1)
    BY <1>2, Zenon DEF Recorded
  <2>2. Record(t, 1) = 1 /\ Record(t, 2) \in {0, 1} /\ Record(t, 3) \in {0, 1}
    BY <2>1 DEF Record
  <2>3. authorized = Record(t, 1) + Record(t, 2) + Record(t, 3)
    BY <1>0, Zenon DEF Payments
  <2>4. Record(t, 2) = 0
    BY <2>2, <2>3
  <2>5. ~Recorded(t, 2)
    BY <2>4 DEF Record
  <2>6. ~b.recorded
    BY <1>2, <2>5, Zenon DEF Recorded
  <2>7. b.id = <<Pay, 10 + x.retryCount>> /\ StageAt(t, Pay, x)
    BY <1>0, <1>2 DEF StageAt
  <2>8. b.recorded \/ b.replay
    BY <1>0, <2>7, Zenon DEF Payments
  <2> QED
    BY <2>6, <2>8
<1> HIDE DEF S
<1> DEFINE q == <<a, b>>
<1>10. ByStart(S) = q /\ Len(q) = 2
  <2>1. q \in [1..2 -> S] /\ q[1] = a /\ q[2] = b
    BY <1>7
  <2> HIDE DEF q
  <2>2. \A z \in S : \E k \in 1..2 : z = q[k]
    BY <1>2, <1>6, <2>1
  <2>3. \A k \in 1..2 : q[k].start \in Nat
    <3>1. \A k \in 1..2 : k = 1 \/ k = 2
      OBVIOUS
    <3> QED
      BY <1>8, <2>1, <3>1, Zenon
  <2>4. \A i, j \in 1..2 : i < j => q[i].start < q[j].start
    <3>1. \A i, j \in 1..2 : i < j => i = 1 /\ j = 2
      OBVIOUS
    <3> QED
      BY <1>8, <2>1, <3>1, Zenon
  <2>5. PICK n \in {2, 3} : n = 2
    OBVIOUS
  <2>6. ByStart(S) = q /\ Len(q) = n
    <3>1. q \in [1..n -> S] /\ (\A z \in S : \E k \in 1..n : z = q[k]) /\ (\A k \in 1..n : q[k].start \in Nat)
      BY <2>1, <2>2, <2>3, <2>5, Zenon
    <3>2. \A i, j \in 1..n : i < j => q[i].start < q[j].start
      BY <2>4, <2>5, Zenon
    <3> HIDE DEF S
    <3> QED
      BY <3>1, <3>2, Sorted, Zenon
  <2> QED
    BY <2>5, <2>6
<1>11. {i \in 1..2 : q[i].recorded} = {1}
  <2>1. q[1] = a /\ q[2] = b
    OBVIOUS
  <2>2. \A i \in 1..2 : i = 1 \/ i = 2
    OBVIOUS
  <2>3. 1 # 2
    OBVIOUS
  <2> HIDE DEF q
  <2>4. \A i \in 1..2 : q[i].recorded <=> i = 1
    BY <1>9, <2>1, <2>2, <2>3, Zenon
  <2> QED
    BY <1>2, <2>4
<1>12. Last(q) = b
  BY DEF Last
<1> HIDE DEF q
<1>13. Cardinality({1}) = 1
  BY Counted, Zenon
<1>14. ByStart({s \in ByService(full, "payment-service", "SERVER") : s.name = "POST /authorizations"}) = q
  BY <1>10, Zenon DEF S, Authorizations
<1>15. Len(q) >= 2
  BY <1>10
<1>16. Cardinality({i \in 1..Len(q) : q[i].recorded}) = 1
  BY <1>10, <1>11, <1>13, Zenon
<1> QED
  BY <1>9, <1>12, <1>14, <1>15, <1>16, Zenon DEF IdempotentReplay

\* A stage whose span takes one tick.
Brief(x) == x.end = x.start + 1

\* A completed order in which only the payment took long: the times of its
\* stages, and the payment as the longest of them.
LEMMA LatencyStored ==
  ASSUME NEW t, NEW full, Answered(t, full), Went,
         NEW i, NEW mi, StageOf(t, "inventory.reserve", i, mi), Brief(i), NEW f, NEW mf, StageOf(t, "fraud.evaluate", f, mf), Brief(f),
         NEW x, NEW m, StageOf(t, Pay, x, m), NEW h, NEW mh, StageOf(t, "shipping.create", h, mh), Brief(h),
         NEW D \in Nat, x.end = x.start + D, D >= 1,
         NEW percent \in Nat, NEW least \in Nat, 100 * D >= percent * (D + 3), D + 7 >= least
  PROVE  LatencyDominance(full, Pay, percent, least)
<1>0. /\ "inventory.reserve" \in AllStages /\ "fraud.evaluate" \in AllStages /\ Pay \in AllStages /\ "shipping.create" \in AllStages
      /\ Typed /\ Logged(t) /\ Timeline(t) /\ pc \in Ended /\ Pay = "payment.authorize" /\ results["shipping.create"] = "ok"
  BY StageNames DEF Answered, Logged, Pay, Went
<1>1. /\ StageAt(t, "inventory.reserve", i) /\ StageAt(t, "fraud.evaluate", f)
      /\ StageAt(t, Pay, x) /\ StageAt(t, "shipping.create", h)
      /\ i \in t /\ f \in t /\ x \in t /\ h \in t
  BY Zenon DEF StageOf, StageAt
<1>2. i.start = 3 /\ f.start = 3 /\ x.start \in {i.end, f.end} /\ h.start = x.end /\ clock = joined /\ joined = h.end
  <2>1. i.start = 3 /\ f.start = 3
    BY <1>0, <1>1 DEF Timeline
  <2>2. x.start \in {i.end, f.end}
    BY <1>0, <1>1 DEF Timeline
  <2>3. h.start = x.end
    BY <1>0, <1>1 DEF Timeline
  <2>4. clock = joined /\ joined = h.end
    BY <1>0, <1>1 DEF Timeline
  <2> QED
    BY <2>1, <2>2, <2>3, <2>4
<1>3. x.start = 4 /\ x.end = 4 + D /\ h.start = 4 + D /\ clock = 5 + D
  <2>1. x.start = 4
    BY <1>2 DEF Brief
  <2>2. x.end = 4 + D /\ h.start = 4 + D
    BY <1>2, <2>1
  <2> QED
    BY <1>2, <2>1, <2>2 DEF Brief
<1>4. DurationOf(i) = 1 /\ DurationOf(f) = 1 /\ DurationOf(h) = 1 /\ DurationOf(x) = D
  BY <1>2, <1>3 DEF DurationOf, Brief
<1>5. DurationOf(TransactionSpan) = D + 3 /\ DurationOf(Root) = D + 7 /\ TransactionSpan.id = <<"order.transaction", 0>>
  <2>1. TransactionSpan.start = 2 /\ TransactionSpan.end = clock /\ TransactionSpan.id = <<"order.transaction", 0>>
    BY FrameFacts, Zenon DEF Answered, TransactionIs
  <2>2. Root.start = 0 /\ Root.end = clock + 2
    BY FrameFacts, Zenon DEF Answered, RootIs
  <2> QED
    BY <1>3, <2>1, <2>2 DEF DurationOf
<1>6. IsSingle(full, Pay) /\ Single(full, Pay) = x
  BY <1>0, StageNamed
<1>7. HasTransaction(full) /\ Transaction(full) = TransactionSpan
  BY TransactionStored
<1>8. ASSUME NEW c \in ChildrenOf(full, TransactionSpan) PROVE DurationOf(c) <= D
  <2>1. c \in full /\ c.parent = <<"order.transaction", 0>>
    BY <1>5 DEF ChildrenOf
  <2>2. \A a, b, d, e : <<a, b>> = <<d, e>> => a = d
    OBVIOUS
  <2>3. c \in t
    <3>1. RootIs /\ BalancerIs /\ ServerIsOf /\ TransactionIs
      BY FrameFacts DEF Answered
    <3>2. c \in {Root, Balancer, ServerSpanOf, TransactionSpan} =>
            c.parent \in {<<"", 0>>, <<"kong", 0>>, <<"kong.balancer", 0>>, <<"order.server", 0>>}
      BY <3>1 DEF RootIs, BalancerIs, ServerIsOf, TransactionIs, NoParent
    <3>3. "order.transaction" \notin {"", "kong", "kong.balancer", "order.server"}
      OBVIOUS
    <3>4. c.parent \notin {<<"", 0>>, <<"kong", 0>>, <<"kong.balancer", 0>>, <<"order.server", 0>>}
      BY <2>1, <2>2, <3>3, Zenon
    <3> QED
      BY <2>1, <3>2, <3>4, FrameSpans DEF Answered
  <2>4. PICK s \in AllStages : StageLike(c, s) \/ \E k \in 1..3 : ClientLike(c, s, k) \/ ServerLike(c, s, k)
    BY <2>3, SpanKinds DEF Answered
  <2>5. s # "order.transaction"
    BY <2>4, StageNames DEF Void, Release
  <2>6. StageLike(c, s)
    <3>1. \A k \in 1..3 : ClientLike(c, s, k) \/ ServerLike(c, s, k) => \E j : c.parent = <<s, j>>
      BY Zenon DEF ClientLike, ServerLike
    <3>2. \A j : c.parent # <<s, j>>
      BY <2>1, <2>2, <2>5, Zenon
    <3> QED
      BY <2>4, <3>1, <3>2, Zenon
  <2>7. c.id = <<s, 0>>
    BY <2>6, Zenon DEF StageLike
  <2>8. results[s] # ""
    BY <1>0, <2>3, <2>4, <2>7, StageHere DEF Logged
  <2>9. s \in {"inventory.reserve", "fraud.evaluate", "payment.authorize", "shipping.create"}
    BY <2>4, <2>8, StageNames DEF Went
  <2>10. c \in {i, f, x, h}
    <3>1. \A z \in AllStages, y \in t : y.id = <<z, 0>> => \A w \in t : w.id = <<z, 0>> => w = y
      BY <1>0, StageHere DEF Logged
    <3> QED
      BY <1>0, <1>1, <2>3, <2>7, <2>9, <3>1 DEF StageAt
  <2> QED
    BY <1>4, <2>10
<1>9. \A r \in {s \in full : s.parent = NoParent} : DurationOf(r) >= least
  <2>1. \A r \in {s \in full : s.parent = NoParent} : r = Root
    BY Which
  <2>2. DurationOf(Root) >= least
    BY <1>5
  <2> QED
    BY <2>1, <2>2
<1>10. 100 * DurationOf(x) >= percent * DurationOf(TransactionSpan)
  BY <1>4, <1>5
<1> QED
  BY <1>4, <1>6, <1>7, <1>8, <1>9, <1>10, Zenon DEF LatencyDominance

\* The one span of an identifier of a stage.
LEMMA TheSpanIs ==
  ASSUME NEW t, Answered(t, spans)
  PROVE  /\ \A s \in AllStages : \A x, m : StageOf(t, s, x, m) => TheSpan(<<s, 0>>) = x
         /\ \A y \in t : y.id = <<Pay, 10>> => FirstAuthorization \in t /\ FirstAuthorization.id = <<Pay, 10>>
<1>0. Typed /\ Logged(t) /\ Kept(t) /\ t \subseteq spans /\ Pay \in AllStages /\ Pay = "payment.authorize"
  BY StageNames DEF Answered, Logged, Pay
<1>1. ASSUME NEW s \in AllStages, NEW x, NEW m, StageOf(t, s, x, m) PROVE TheSpan(<<s, 0>>) = x
  <2>1. x \in t /\ x.id = <<s, 0>>
    BY <1>1, Zenon DEF StageOf
  <2>2. ASSUME NEW y \in spans, y.id = <<s, 0>> PROVE y = x
    <3>1. y \in t
      <4>1. 0 \in 0..3
        OBVIOUS
      <4> QED
        BY <2>2, <4>1, CallersService
    <3> QED
      BY <1>0, <2>1, <2>2, <3>1, StageHere
  <2>3. TheSpan(<<s, 0>>) \in spans /\ TheSpan(<<s, 0>>).id = <<s, 0>>
    BY <1>0, <2>1, Zenon DEF TheSpan
  <2> QED
    BY <2>2, <2>3
<1>2. ASSUME NEW y \in t, y.id = <<Pay, 10>> PROVE FirstAuthorization \in t /\ FirstAuthorization.id = <<Pay, 10>>
  <2>1. FirstAuthorization = TheSpan(<<Pay, 10>>)
    BY <1>0 DEF FirstAuthorization
  <2>2. TheSpan(<<Pay, 10>>) \in spans /\ TheSpan(<<Pay, 10>>).id = <<Pay, 10>>
    <3>1. PICK i : i = <<Pay, 10>>
      OBVIOUS
    <3>2. TheSpan(i) \in spans /\ TheSpan(i).id = i
      BY <1>0, <1>2, <3>1, Zenon DEF TheSpan
    <3> QED
      BY <3>1, <3>2
  <2>3. TheSpan(<<Pay, 10>>).id[1] = Pay
    <3>1. \A a, b : <<a, b>>[1] = a
      OBVIOUS
    <3> QED
      BY <2>2, <3>1
  <2>4. TheSpan(<<Pay, 10>>) \in t
    BY <1>0, <2>2, <2>3, OwnNumbers
  <2> QED
    BY <2>1, <2>2, <2>4
<1> QED
  BY <1>1, <1>2

-----------------------------------------------------------------------------
(* The contracts accept the orders they were written for.                   *)

\* What the end of an order says of the stage it failed at.
LEMMA EndFound ==
  ASSUME NEW t, NEW full, Answered(t, full)
  PROVE  /\ Final = "Completed" => Went
         /\ \A s \in Stages : Final = FailureState(s) => Gone(s)
         /\ \A s \in Stages : s # "fraud.evaluate" /\ results[s] \notin {"", "ok"} => Gone(s)
<1>1. Went \/ \E s \in Stages : Gone(s)
  BY EndIs DEF Answered
<1>2. \A s \in Stages : Gone(s) => Final = FailureState(s)
  BY Zenon DEF Gone
<1>3. Went => Final = "Completed"
  BY Zenon DEF Went
<1>4. ASSUME NEW s \in Stages, s # "fraud.evaluate", results[s] \notin {"", "ok"} PROVE Gone(s)
  <2>1. ~Went
    BY <1>4 DEF Went
  <2>2. PICK z \in Stages : Gone(z)
    BY <1>1, <2>1
  <2>3. s \notin StagesBefore(z)
    <3>1. \A b \in StagesBefore(z) : results[b] = "ok"
      BY <2>2, Zenon DEF Gone
    <3> QED
      BY <1>4, <3>1
  <2>4. s \in StagesBefore(z) \cup {z, "fraud.evaluate"}
    <3>1. \A b \in Stages \ (StagesBefore(z) \cup {z, "fraud.evaluate"}) : results[b] = ""
      BY <2>2, Zenon DEF Gone
    <3> QED
      BY <1>4, <3>1
  <2> QED
    BY <1>4, <2>2, <2>3, <2>4
<1> QED
  BY <1>1, <1>2, <1>3, <1>4, StatesDiffer

\* The answer that a failed stage leads to.
LEMMA CodeOf ==
  ASSUME NEW s \in Stages, Gone(s)
  PROVE  /\ results[s] = "rejected" => StatusCode = 422 /\ ~Technical
         /\ results[s] = "error" => StatusCode = 502 /\ Technical
         /\ results[s] = "timeout" => StatusCode = 504 /\ Technical
<1>1. PICK r \in {"rejected", "error", "unavailable", "timeout"} : r = results[s]
  BY DEF Gone
<1>2. StatusCode = CodeFor(r)
  BY <1>1, Zenon DEF Gone
<1> QED
  BY <1>1, <1>2, CodeIs DEF Technical

\* The stages before a failed one went well, and those behind it were not called.
LEMMA GoneCourse ==
  /\ Gone("inventory.reserve") => /\ results["fraud.evaluate"] # "" /\ results["payment.authorize"] = "" /\ results["shipping.create"] = ""
  /\ Gone("fraud.evaluate") => /\ results["inventory.reserve"] = "ok" /\ results["payment.authorize"] = "" /\ results["shipping.create"] = ""
  /\ Gone("payment.authorize") =>
       /\ results["inventory.reserve"] = "ok" /\ results["fraud.evaluate"] = "ok" /\ results["shipping.create"] = ""
  /\ Gone("shipping.create") =>
       /\ results["inventory.reserve"] = "ok" /\ results["fraud.evaluate"] = "ok" /\ results["payment.authorize"] = "ok"
<1>1. ASSUME Gone("inventory.reserve")
      PROVE  results["fraud.evaluate"] # "" /\ results["payment.authorize"] = "" /\ results["shipping.create"] = ""
  BY <1>1, StageNames DEF Gone, StagesBefore
<1>2. ASSUME Gone("fraud.evaluate")
      PROVE  results["inventory.reserve"] = "ok" /\ results["payment.authorize"] = "" /\ results["shipping.create"] = ""
  BY <1>2, StageNames DEF Gone, StagesBefore
<1>3. ASSUME Gone("payment.authorize")
      PROVE  results["inventory.reserve"] = "ok" /\ results["fraud.evaluate"] = "ok" /\ results["shipping.create"] = ""
  BY <1>3, StageNames DEF Gone, StagesBefore
<1>4. ASSUME Gone("shipping.create")
      PROVE  results["inventory.reserve"] = "ok" /\ results["fraud.evaluate"] = "ok" /\ results["payment.authorize"] = "ok"
  BY <1>4, StageNames DEF Gone, StagesBefore
<1> QED
  BY <1>1, <1>2, <1>3, <1>4

\* What a completed order leaves behind.
LEMMA WentStored ==
  ASSUME NEW t, Answered(t, spans), Final = "Completed"
  PROVE  /\ Went /\ StatusCode = 201 /\ spans # {} /\ AllServices \subseteq Services(spans) /\ Fine
         /\ Topology(spans, AllServices, {}) /\ StageOrder(spans) /\ StatePath(spans, FullPath) /\ ErrorMarking(spans, FALSE)
<1>1. Went
  BY EndFound
<1>2. /\ StatusCode = 201 /\ path = FullPath /\ ~Technical
      /\ results["inventory.reserve"] = "ok" /\ results["fraud.evaluate"] = "ok"
      /\ results["payment.authorize"] = "ok" /\ results["shipping.create"] = "ok"
  BY <1>1, StageNames DEF Went
<1>3. AllServices \subseteq Services(spans)
  <2>1. \A s \in AllStages : results[s] = "ok" => Profile[s].service \in Services(spans)
    BY ServicesStored
  <2>2. {"inventory.reserve", "fraud.evaluate", "payment.authorize", "shipping.create"} \subseteq AllStages
    BY StageNames
  <2>3. {"inventory-service", "fraud-service", "payment-service", "shipping-service"} \subseteq Services(spans)
    BY <1>2, <2>1, <2>2, ServicesBehind
  <2>4. {Edge, OrderService} \subseteq Services(spans)
    BY ServicesStored
  <2> QED
    BY <2>3, <2>4 DEF AllServices, Downstream
<1>4. ServiceEdges(spans) \subseteq AllowedEdges
  BY EdgesAllowed
<1>5. Topology(spans, AllServices, {})
  BY <1>3, <1>4 DEF Topology
<1>6. StageOrder(spans)
  BY <1>2, StageOrderStored DEF Met
<1>7. StatePath(spans, FullPath) /\ ErrorMarking(spans, FALSE)
  BY <1>2, TransactionStored
<1> QED
  BY <1>1, <1>2, <1>3, <1>5, <1>6, <1>7, FineStored

\* What the contract of each failing flow asks for.
LEMMA FlowsAsk ==
  /\ FailedFlows["payment_timeout"].required = FanOut \cup {"payment-service"}
  /\ FailedFlows["payment_timeout"].forbidden = {"shipping-service"}
  /\ FailedFlows["payment_timeout"].stages = {"payment.authorize"} \cup CompensationStages
  /\ FailedFlows["payment_timeout"].forbiddenStages = {"shipping.create"}
  /\ FailedFlows["payment_timeout"].technical = TRUE /\ FailedFlows["payment_timeout"].retried = 3
  /\ FailedFlows["inventory_failure"].required = FanOut
  /\ FailedFlows["inventory_failure"].forbidden = {"payment-service", "shipping-service"}
  /\ FailedFlows["inventory_failure"].stages = {"inventory.reserve", "fraud.evaluate"}
  /\ FailedFlows["inventory_failure"].forbiddenStages = {"payment.authorize", "shipping.create"}
  /\ FailedFlows["inventory_failure"].technical = TRUE /\ FailedFlows["inventory_failure"].retried = 0
  /\ FailedFlows["fraud_rejection"].required = FanOut
  /\ FailedFlows["fraud_rejection"].forbidden = {"payment-service", "shipping-service"}
  /\ FailedFlows["fraud_rejection"].stages = {"fraud.evaluate", "compensation.inventory.release"}
  /\ FailedFlows["fraud_rejection"].forbiddenStages = {"payment.authorize", "shipping.create"}
  /\ FailedFlows["fraud_rejection"].technical = FALSE /\ FailedFlows["fraud_rejection"].retried = 0
  /\ FailedFlows["shipping_failure"].required = AllServices /\ FailedFlows["shipping_failure"].forbidden = {}
  /\ FailedFlows["shipping_failure"].stages = {"shipping.create"} \cup CompensationStages
  /\ FailedFlows["shipping_failure"].forbiddenStages = {}
  /\ FailedFlows["shipping_failure"].technical = TRUE /\ FailedFlows["shipping_failure"].retried = 0
BY DEF FailedFlows

\* A stage that timed out has made all its attempts, and its span says so.
LEMMA TimedOutStored ==
  ASSUME NEW t, Answered(t, spans), NEW s \in {"payment.authorize", "shipping.create"}, results[s] = "timeout"
  PROVE  /\ Retries(spans, s, 3)
         /\ \E x \in SpansNamed(spans, s) : x.failureKind = "timeout"
<1>0. s \in AllStages /\ Profile[s].max = 3
  BY StageNames, ProfileIs
<1>1. PICK x, m : StageOf(t, s, x, m)
  BY <1>0, StageOfCalled
<1>2. /\ Closed(Of(t, s), s, results[s], x, m) /\ FailureOf(x, results[s])
      /\ m = x.retryCount + 1 \/ (m = x.retryCount /\ results[s] = "unavailable")
      /\ x.retryCount = Profile[s].max - 1
  BY <1>1, Zenon DEF StageOf, Closed
<1>3. x.retryCount = 2 /\ m = 3
  BY <1>0, <1>2
<1>4. Retries(spans, s, 3)
  <2>1. PICK n \in {2, 3} : n = 3
    OBVIOUS
  <2>2. x.retryCount = n - 1 /\ m = n
    BY <1>3, <2>1
  <2>3. StageOf(t, s, x, n)
    BY <1>1, <2>2
  <2>4. Retries(spans, s, n)
    BY <1>0, <2>2, <2>3, RetriesStored
  <2> QED
    BY <2>1, <2>4
<1>5. x \in SpansNamed(spans, s)
  BY <1>0, <1>1, StageNamed
<1>6. x.failureKind = "timeout"
  BY <1>2 DEF FailureOf
<1> QED
  BY <1>4, <1>5, <1>6

\* The end of an order at stage s is the one that the contract of flow c asks for.
AsAsked(c, s) ==
    LET e == FailedFlows[c]
    IN  /\ e.path = PathOf(s) /\ e.status = StatusCode /\ (e.technical <=> Technical)
        /\ e.required \subseteq Services(spans) /\ e.forbidden \cap Services(spans) = {}
        /\ e.stages \in SUBSET AllStages /\ e.forbiddenStages \in SUBSET AllStages
        /\ (\A z \in e.stages : results[z] # "") /\ (\A z \in e.forbiddenStages : results[z] = "")
        /\ (e.retried > 0 => Retries(spans, "payment.authorize", e.retried))

\* A flow that failed at s, as its contract asks for it.
LEMMA FlowStored ==
  ASSUME NEW t, Answered(t, spans), NEW c \in FlowNames, NEW s \in Stages, Gone(s), AsAsked(c, s),
         Met("inventory.reserve"), Met("fraud.evaluate")
  PROVE  Accepts(c)
<1> DEFINE e == FailedFlows[c]
<1>0. /\ e.path = PathOf(s) /\ e.status = StatusCode /\ (e.technical <=> Technical)
      /\ e.required \subseteq Services(spans) /\ e.forbidden \cap Services(spans) = {}
      /\ e.stages \in SUBSET AllStages /\ e.forbiddenStages \in SUBSET AllStages
      /\ (\A z \in e.stages : results[z] # "") /\ (\A z \in e.forbiddenStages : results[z] = "")
      /\ (e.retried > 0 => Retries(spans, "payment.authorize", e.retried))
  BY Zenon DEF AsAsked
<1> HIDE DEF e
<1>1. path = PathOf(s)
  BY DEF Gone
<1>2. Topology(spans, e.required, e.forbidden)
  BY <1>0, EdgesAllowed DEF Topology
<1>3. StagesPresent(spans, e.stages, e.forbiddenStages)
  BY <1>0, StagesStored
<1>4. StageOrder(spans)
  BY StageOrderStored
<1>5. StatePath(spans, e.path)
  BY <1>0, <1>1, TransactionStored
<1>6. ErrorMarking(spans, e.technical)
  <2>1. Technical => ErrorMarking(spans, TRUE) /\ HasTransaction(spans) /\ Transaction(spans).status = "ERROR"
    BY TransactionStored, Zenon DEF ErrorMarking
  <2>2. ~Technical => HasTransaction(spans) /\ Transaction(spans).status # "ERROR"
    BY TransactionStored, Zenon DEF ErrorMarking
  <2> QED
    BY <1>0, <2>1, <2>2, Zenon DEF ErrorMarking
<1>7. Fine /\ spans # {}
  BY FineStored
<1>8. Verdict(FailedFlow(TheRequest(""), e))
  BY <1>0, <1>2, <1>3, <1>4, <1>5, <1>6, <1>7, FailedFlowIs
<1> QED
  BY <1>8, AcceptsIs, Zenon DEF e

\* The services of the fan-out, and those behind it.
LEMMA ServicesShown ==
  ASSUME NEW t, Answered(t, spans)
  PROVE  /\ Met("inventory.reserve") /\ Met("fraud.evaluate") => FanOut \subseteq Services(spans)
         /\ Met("payment.authorize") => "payment-service" \in Services(spans)
         /\ Met("shipping.create") => "shipping-service" \in Services(spans)
         /\ results["payment.authorize"] = "" /\ results[Void] = "" => "payment-service" \notin Services(spans)
         /\ results["shipping.create"] = "" => "shipping-service" \notin Services(spans)
<1>0. AllStages = {"inventory.reserve", "fraud.evaluate", "payment.authorize", "shipping.create", Void, Release}
  BY StageNames
<1>1. \A s \in AllStages : Met(s) => Profile[s].service \in Services(spans)
  BY ServicesStored, Zenon DEF Met
<1>2. {Edge, OrderService} \subseteq Services(spans)
  BY ServicesStored
<1>3. Met("inventory.reserve") /\ Met("fraud.evaluate") => FanOut \subseteq Services(spans)
  BY <1>0, <1>1, <1>2, ServicesBehind DEF FanOut
<1>4. Met("payment.authorize") => "payment-service" \in Services(spans)
  BY <1>0, <1>1, ServicesBehind
<1>5. Met("shipping.create") => "shipping-service" \in Services(spans)
  BY <1>0, <1>1, ServicesBehind
<1>6. \A v \in Downstream : (\A s \in AllStages : Profile[s].service = v => results[s] = "") => v \notin Services(spans)
  BY ServicesStored
<1>7. "payment-service" \in Downstream /\ "shipping-service" \in Downstream
  BY DEF Downstream
<1>8. \A s \in AllStages : Profile[s].service = "payment-service" => s \in {"payment.authorize", Void}
  BY <1>0, ServicesBehind
<1>9. \A s \in AllStages : Profile[s].service = "shipping-service" => s = "shipping.create"
  BY <1>0, ServicesBehind
<1>10. results["payment.authorize"] = "" /\ results[Void] = "" => "payment-service" \notin Services(spans)
  BY <1>6, <1>7, <1>8
<1>11. results["shipping.create"] = "" => "shipping-service" \notin Services(spans)
  BY <1>6, <1>7, <1>9
<1> QED
  BY <1>3, <1>4, <1>5, <1>10, <1>11

\* A payment that timed out everywhere.
LEMMA PaymentTimeoutTold ==
  ASSUME NEW t, Answered(t, spans), Story("payment_timeout")
  PROVE  Accepts("payment_timeout")
<1> DEFINE e == FailedFlows["payment_timeout"]
<1>1. /\ Final = "PaymentFailed" /\ results["payment.authorize"] = "timeout" /\ UndoTried
      /\ reached["payment.authorize"] = 3
  BY DEF Story, Happened
<1>2. Gone("payment.authorize")
  BY <1>1, EndFound, StageNames
<1>3. /\ results["inventory.reserve"] = "ok" /\ results["fraud.evaluate"] = "ok" /\ results["shipping.create"] = ""
      /\ StatusCode = 504 /\ Technical
  BY <1>1, <1>2, GoneCourse, CodeOf, StageNames
<1>4. Met("inventory.reserve") /\ Met("fraud.evaluate") /\ Met("payment.authorize")
  <2>1. reached["payment.authorize"] > 0
    BY <1>1
  <2> QED
    BY <1>1, <1>3, <2>1 DEF Met
<1>5. e.required \subseteq Services(spans) /\ e.forbidden \cap Services(spans) = {}
  <2>1. e.required = FanOut \cup {"payment-service"} /\ e.forbidden = {"shipping-service"}
    BY FlowsAsk
  <2>2. FanOut \subseteq Services(spans) /\ "payment-service" \in Services(spans) /\ "shipping-service" \notin Services(spans)
    BY <1>3, <1>4, ServicesShown
  <2> HIDE DEF e
  <2> QED
    BY <2>1, <2>2
<1>6. /\ e.stages \in SUBSET AllStages /\ e.forbiddenStages \in SUBSET AllStages
      /\ (\A z \in e.stages : results[z] # "") /\ (\A z \in e.forbiddenStages : results[z] = "")
  BY <1>1, <1>3, StageNames, FlowsAsk DEF UndoTried, Called
<1>7. Retries(spans, "payment.authorize", 3)
  BY <1>1, TimedOutStored
<1>8. e.retried > 0 => Retries(spans, "payment.authorize", e.retried)
  BY <1>7, FlowsAsk
<1>9. e.path = PathOf("payment.authorize") /\ e.status = StatusCode /\ (e.technical <=> Technical)
  BY <1>3, FlowsAre, FlowsAsk
<1>10. "payment_timeout" \in FlowNames /\ "payment.authorize" \in Stages
  BY FlowsAre, StageNames
<1>11. AsAsked("payment_timeout", "payment.authorize")
  BY <1>5, <1>6, <1>8, <1>9, Zenon DEF AsAsked
<1> HIDE DEF e
<1> QED
  BY <1>2, <1>4, <1>10, <1>11, FlowStored, Zenon

\* An inventory that answered with an error while the fraud check was reached.
LEMMA InventoryFailureTold ==
  ASSUME NEW t, Answered(t, spans), Story("inventory_failure")
  PROVE  Accepts("inventory_failure")
<1> DEFINE e == FailedFlows["inventory_failure"]
<1>1. results["inventory.reserve"] = "error" /\ reached["fraud.evaluate"] > 0
  BY DEF Story
<1>2. Gone("inventory.reserve")
  BY <1>1, EndFound, StageNames
<1>3. /\ results["fraud.evaluate"] # "" /\ results["payment.authorize"] = "" /\ results["shipping.create"] = ""
      /\ StatusCode = 502 /\ Technical /\ results[Void] = ""
  <2>1. ~Voids("inventory.reserve")
    BY DEF Voids
  <2>2. results[Void] = ""
    BY <1>2, <2>1, Zenon DEF Gone
  <2> QED
    BY <1>1, <1>2, <2>2, GoneCourse, CodeOf, StageNames
<1>4. Met("inventory.reserve") /\ Met("fraud.evaluate")
  BY <1>1, <1>3 DEF Met
<1>5. e.required \subseteq Services(spans) /\ e.forbidden \cap Services(spans) = {}
  <2>1. e.required = FanOut /\ e.forbidden = {"payment-service", "shipping-service"}
    BY FlowsAsk
  <2>2. FanOut \subseteq Services(spans) /\ "payment-service" \notin Services(spans) /\ "shipping-service" \notin Services(spans)
    BY <1>3, <1>4, ServicesShown
  <2> HIDE DEF e
  <2> QED
    BY <2>1, <2>2
<1>6. /\ e.stages \in SUBSET AllStages /\ e.forbiddenStages \in SUBSET AllStages
      /\ (\A z \in e.stages : results[z] # "") /\ (\A z \in e.forbiddenStages : results[z] = "")
  BY <1>1, <1>3, StageNames, FlowsAsk
<1>8. e.retried > 0 => Retries(spans, "payment.authorize", e.retried)
  BY FlowsAsk
<1>9. e.path = PathOf("inventory.reserve") /\ e.status = StatusCode /\ (e.technical <=> Technical)
  BY <1>3, FlowsAre, FlowsAsk
<1>10. "inventory_failure" \in FlowNames /\ "inventory.reserve" \in Stages
  BY FlowsAre, StageNames
<1>11. AsAsked("inventory_failure", "inventory.reserve")
  BY <1>5, <1>6, <1>8, <1>9, Zenon DEF AsAsked
<1> HIDE DEF e
<1> QED
  BY <1>2, <1>4, <1>10, <1>11, FlowStored, Zenon

\* A rejection by the fraud check.
LEMMA FraudRejectionTold ==
  ASSUME NEW t, Answered(t, spans), Story("fraud_rejection")
  PROVE  Accepts("fraud_rejection")
<1> DEFINE e == FailedFlows["fraud_rejection"]
<1>1. Final = FailureState("fraud.evaluate") /\ results["fraud.evaluate"] = "rejected"
  BY DEF Story, FailureState
<1>2. Gone("fraud.evaluate")
  BY <1>1, EndFound, StageNames
<1>3. /\ results["inventory.reserve"] = "ok" /\ results["payment.authorize"] = "" /\ results["shipping.create"] = ""
      /\ StatusCode = 422 /\ ~Technical /\ results[Void] = "" /\ results[Release] # ""
  <2>1. ~Voids("fraud.evaluate") /\ Releases("fraud.evaluate")
    BY DEF Voids, Releases
  <2>2. results[Void] = "" /\ results[Release] # ""
    BY <1>2, <2>1, Zenon DEF Gone
  <2> QED
    BY <1>1, <1>2, <2>2, GoneCourse, CodeOf, StageNames
<1>4. Met("inventory.reserve") /\ Met("fraud.evaluate")
  BY <1>1, <1>3 DEF Met
<1>5. e.required \subseteq Services(spans) /\ e.forbidden \cap Services(spans) = {}
  <2>1. e.required = FanOut /\ e.forbidden = {"payment-service", "shipping-service"}
    BY FlowsAsk
  <2>2. FanOut \subseteq Services(spans) /\ "payment-service" \notin Services(spans) /\ "shipping-service" \notin Services(spans)
    BY <1>3, <1>4, ServicesShown
  <2> HIDE DEF e
  <2> QED
    BY <2>1, <2>2
<1>6. /\ e.stages \in SUBSET AllStages /\ e.forbiddenStages \in SUBSET AllStages
      /\ (\A z \in e.stages : results[z] # "") /\ (\A z \in e.forbiddenStages : results[z] = "")
  BY <1>1, <1>3, StageNames, FlowsAsk DEF Release
<1>8. e.retried > 0 => Retries(spans, "payment.authorize", e.retried)
  BY FlowsAsk
<1>9. e.path = PathOf("fraud.evaluate") /\ e.status = StatusCode /\ (e.technical <=> Technical)
  BY <1>3, FlowsAre, FlowsAsk
<1>10. "fraud_rejection" \in FlowNames /\ "fraud.evaluate" \in Stages
  BY FlowsAre, StageNames
<1>11. AsAsked("fraud_rejection", "fraud.evaluate")
  BY <1>5, <1>6, <1>8, <1>9, Zenon DEF AsAsked
<1> HIDE DEF e
<1> QED
  BY <1>2, <1>4, <1>10, <1>11, FlowStored, Zenon

\* A shipment that was answered with an error.
LEMMA ShippingFailureTold ==
  ASSUME NEW t, Answered(t, spans), Story("shipping_failure")
  PROVE  Accepts("shipping_failure")
<1> DEFINE e == FailedFlows["shipping_failure"]
<1>1. results["shipping.create"] = "error"
  BY DEF Story
<1>2. Gone("shipping.create")
  BY <1>1, EndFound, StageNames
<1>3. /\ results["inventory.reserve"] = "ok" /\ results["fraud.evaluate"] = "ok" /\ results["payment.authorize"] = "ok"
      /\ StatusCode = 502 /\ Technical /\ UndoTried
  BY <1>1, <1>2, GoneCourse, CodeOf, StageNames, UndoneIs
<1>4. Met("inventory.reserve") /\ Met("fraud.evaluate") /\ Met("payment.authorize") /\ Met("shipping.create")
  BY <1>1, <1>3 DEF Met
<1>5. e.required \subseteq Services(spans) /\ e.forbidden \cap Services(spans) = {}
  <2>1. AllServices \subseteq Services(spans)
    BY <1>4, ServicesShown DEF FanOut, AllServices, Downstream
  <2> QED
    BY <2>1, FlowsAsk
<1>6. /\ e.stages \in SUBSET AllStages /\ e.forbiddenStages \in SUBSET AllStages
      /\ (\A z \in e.stages : results[z] # "") /\ (\A z \in e.forbiddenStages : results[z] = "")
  BY <1>1, <1>3, StageNames, FlowsAsk DEF UndoTried, Called
<1>8. e.retried > 0 => Retries(spans, "payment.authorize", e.retried)
  BY FlowsAsk
<1>9. e.path = PathOf("shipping.create") /\ e.status = StatusCode /\ (e.technical <=> Technical)
  BY <1>3, FlowsAre, FlowsAsk
<1>10. "shipping_failure" \in FlowNames /\ "shipping.create" \in Stages
  BY FlowsAre, StageNames
<1>11. AsAsked("shipping_failure", "shipping.create")
  BY <1>5, <1>6, <1>8, <1>9, Zenon DEF AsAsked
<1> HIDE DEF e
<1> QED
  BY <1>2, <1>4, <1>10, <1>11, FlowStored, Zenon

\* A shipment that timed out without ever reaching its service.
LEMMA MissingTold ==
  ASSUME NEW t, Answered(t, spans), Story("dependency_unavailable")
  PROVE  Accepts("dependency_unavailable")
<1> DEFINE ship == "shipping.create"
<1>0. ship \in AllStages /\ ship \in Stages /\ Typed /\ Logged(t) /\ Payments(t)
  BY StageNames DEF Answered, Logged
<1>1. results[ship] = "timeout" /\ reached[ship] = 0
  BY DEF Story
<1>2. Gone(ship)
  BY <1>0, <1>1, EndFound
<1>3. results["payment.authorize"] = "ok" /\ StatusCode = 504 /\ UndoTried
  BY <1>0, <1>1, <1>2, GoneCourse, CodeOf, UndoneIs
<1>4. {Edge, OrderService, "payment-service"} \subseteq Services(spans)
  <2>1. Met("payment.authorize")
    BY <1>3 DEF Met
  <2> QED
    BY <2>1, ServicesShown, ServicesStored
<1>5. ByService(spans, "shipping-service", "SERVER") = {}
  <2> SUFFICES ASSUME NEW y \in spans, y.service = "shipping-service", y.kind = "SERVER" PROVE FALSE
    BY DEF ByService
  <2>1. y \in t
    BY Which DEF Downstream
  <2>2. PICK s \in AllStages : StageLike(y, s) \/ \E k \in 1..3 : ClientLike(y, s, k) \/ ServerLike(y, s, k)
    BY <1>0, <2>1, SpanKinds
  <2>3. PICK k \in 1..3 : ServerLike(y, s, k)
    BY <2>2 DEF StageLike, ClientLike
  <2>4. s = ship
    BY <2>3, StageNames, ServicesBehind DEF ServerLike
  <2>5. HasId(t, <<ship, 9 + k>>)
    BY <2>1, <2>3, <2>4, Zenon DEF HasId, ServerLike
  <2>6. Reach(t, ship, k) = 1
    BY <2>5, Zenon DEF Reach
  <2>7. \A j \in 1..3 : Reach(t, ship, j) \in {0, 1}
    BY DEF Reach
  <2>8. reached[ship] = Reach(t, ship, 1) + Reach(t, ship, 2) + Reach(t, ship, 3)
    BY <1>0 DEF Payments
  <2>9. k = 1 \/ k = 2 \/ k = 3
    OBVIOUS
  <2>10. Reach(t, ship, 1) \in {0, 1} /\ Reach(t, ship, 2) \in {0, 1} /\ Reach(t, ship, 3) \in {0, 1}
    BY <2>7
  <2>11. Reach(t, ship, 1) = 1 \/ Reach(t, ship, 2) = 1 \/ Reach(t, ship, 3) = 1
    BY <2>6, <2>9
  <2> QED
    BY <1>1, <2>8, <2>10, <2>11
<1>6. Retries(spans, ship, 3) /\ \E x \in SpansNamed(spans, ship) : x.failureKind = "timeout"
  BY <1>1, TimedOutStored
<1>7. ShippingMissing(spans)
  BY <1>5, <1>6, Zenon DEF ShippingMissing
<1>8. StagesPresent(spans, CompensationStages, {})
  <2>1. \A s \in CompensationStages : results[s] # ""
    BY <1>3, Zenon DEF UndoTried, Called
  <2> QED
    BY <2>1, StagesStored, StageNames
<1>9. Fine /\ spans # {}
  BY FineStored
<1>10. Verdict(DependencyUnavailable(TheRequest("")))
  BY <1>3, <1>4, <1>6, <1>7, <1>8, <1>9, DependencyUnavailableIs
<1> QED
  BY <1>10, AcceptsIs

\* The stages of a completed order in which only the payment took long.
LEMMA OnlySlowStored ==
  ASSUME NEW t, Answered(t, spans), OnlySlow("payment.authorize")
  PROVE  /\ Final = "Completed" /\ Went
         /\ \E i, mi : StageOf(t, "inventory.reserve", i, mi) /\ Brief(i)
         /\ \E f, mf : StageOf(t, "fraud.evaluate", f, mf) /\ Brief(f)
         /\ \E h, mh : StageOf(t, "shipping.create", h, mh) /\ Brief(h)
<1>1. Final = "Completed" /\ Went
  BY EndFound, Zenon DEF OnlySlow
<1>2. ASSUME NEW s \in {"inventory.reserve", "fraud.evaluate", "shipping.create"}
      PROVE  \E x, m : StageOf(t, s, x, m) /\ Brief(x)
  <2>1. s \in AllStages /\ s \in Stages \ {"payment.authorize"} /\ results[s] = "ok"
    BY <1>1, StageNames DEF Went
  <2>2. PICK x, m : StageOf(t, s, x, m)
    BY <2>1, StageOfCalled
  <2>3. TheSpan(<<s, 0>>) = x
    BY <2>1, <2>2, TheSpanIs
  <2>4. DurationOf(TheSpan(<<s, 0>>)) = 1
    BY <2>1, Zenon DEF OnlySlow
  <2>5. x.start \in Nat /\ x.end \in Nat
    BY <2>2, Zenon DEF StageOf, StageLike, Plain
  <2>6. x.end - x.start = 1
    BY <2>3, <2>4, Zenon DEF DurationOf
  <2>7. Brief(x)
    BY <2>5, <2>6 DEF Brief
  <2> QED
    BY <2>2, <2>7
<1> QED
  BY <1>1, <1>2

\* A payment that was answered well: its last attempt reached the service.
LEMMA PaidStage ==
  ASSUME NEW t, Answered(t, spans), results[Pay] = "ok"
  PROVE  \E x, m : /\ StageOf(t, Pay, x, m) /\ Made(Pay) = x.retryCount + 1 /\ m = x.retryCount + 1
                   /\ HasId(t, <<Pay, 9 + m>>) /\ x.retryCount \in 0..2 /\ x.start \in Nat /\ x.end \in Nat
                   /\ Attempted(Of(t, Pay) \ {x}, Pay, m, x.start, x.end)
                   /\ x.retryCount = 0 => \A y \in t : y.id = <<Pay, 1>> => y.start = x.start /\ y.end = x.end
<1>0. Pay \in AllStages
  BY StageNames DEF Pay
<1>1. PICK x, m : StageOf(t, Pay, x, m)
  BY <1>0, StageOfCalled
<1>2. Made(Pay) = x.retryCount + 1
  BY <1>0, <1>1, TheSpanIs DEF Made
<1>3. /\ Closed(Of(t, Pay), Pay, results[Pay], x, m) /\ x.start \in Nat /\ x.end \in Nat /\ x.id = <<Pay, 0>>
  BY <1>1, Zenon DEF StageOf, StageLike, Plain
<1>4. /\ x.retryCount \in 0..2 /\ Attempted(Of(t, Pay) \ {x}, Pay, m, x.start, x.end)
      /\ m = x.retryCount + 1 \/ (m = x.retryCount /\ results[Pay] = "unavailable")
      /\ HasId(Of(t, Pay), <<Pay, 9 + m>>)
      /\ x.retryCount = 0 => \A y \in Of(t, Pay) : y.id = <<Pay, 1>> => y.start = x.start /\ y.end = x.end
  BY <1>3, Zenon DEF Closed
<1>5. m = x.retryCount + 1
  BY <1>4
<1>6. HasId(t, <<Pay, 9 + m>>)
  BY <1>4 DEF HasId, Of
<1>7. x.retryCount = 0 => \A y \in t : y.id = <<Pay, 1>> => y.start = x.start /\ y.end = x.end
  <2>1. \A a, b : <<a, b>>[1] = a
    OBVIOUS
  <2>2. \A y \in t : y.id = <<Pay, 1>> => y \in Of(t, Pay)
    BY <2>1 DEF Of
  <2> QED
    BY <1>4, <2>2, Zenon
<1> QED
  BY <1>1, <1>2, <1>3, <1>4, <1>5, <1>6, <1>7, Zenon

\* Span c is the k-th call of the payment, within the span x of its stage, and
\* the service took as long as the call.
CallWithin(t, x, k, c) ==
    /\ c \in t /\ c.id = <<Pay, k>> /\ c.start \in Nat /\ c.end \in Nat
    /\ x.start <= c.start /\ c.start < c.end /\ c.end <= x.end
    /\ \A y \in t : y.id = <<Pay, 9 + k>> => y.start = c.start /\ y.end = c.end

\* Every call of the payment has both its spans.
LEMMA BothEnds ==
  ASSUME NEW t, Answered(t, spans), NEW x, NEW m \in 0..3, StageLike(x, Pay), Attempted(Of(t, Pay) \ {x}, Pay, m, x.start, x.end),
         NEW k \in 1..m
  PROVE  \E c : CallWithin(t, x, k, c)
<1> DEFINE u == Of(t, Pay) \ {x}
<1>0. Typed /\ Logged(t) /\ Pay \in AllStages /\ k \in 1..3 /\ \A a, b : <<a, b>>[1] = a
  BY StageNames DEF Answered, Pay
<1>1. HasId(u, <<Pay, k>>)
  BY Zenon DEF Attempted
<1>2. PICK c \in u : c.id = <<Pay, k>>
  BY <1>1, Zenon DEF HasId
<1>3. c \in t
  BY <1>2 DEF Of
<1>4. c.start \in Nat /\ c.end \in Nat /\ c.start < c.end
  <2>1. ClientLike(c, Pay, k)
    BY <1>0, <1>2, <1>3, IdsTell
  <2> QED
    BY <2>1, Zenon DEF ClientLike, Plain
<1>5. x.start <= c.start /\ c.end <= x.end
  BY <1>2, Zenon DEF Attempted
<1>6. ASSUME NEW y \in t, y.id = <<Pay, 9 + k>> PROVE y.start = c.start /\ y.end = c.end
  <2>1. ServerLike(y, Pay, k)
    BY <1>0, <1>6, IdsTell
  <2>2. y.kind # x.kind
    BY <2>1 DEF ServerLike, StageLike
  <2>3. y \in Of(t, Pay)
    BY <1>0, <1>6 DEF Of
  <2>4. y \in u
    BY <2>2, <2>3
  <2>5. \A n \in 1..m : \A a, b \in u : a.id = <<Pay, n>> /\ b.id = <<Pay, 9 + n>> => a.start = b.start /\ a.end = b.end
    BY Zenon DEF Attempted
  <2> HIDE DEF u
  <2> QED
    BY <1>2, <1>6, <2>4, <2>5
<1> QED
  BY <1>2, <1>3, <1>4, <1>5, <1>6, Zenon DEF CallWithin

\* A payment that answered late: its stage takes as long as its authorization.
LEMMA SlowPaymentTold ==
  ASSUME NEW t, Answered(t, spans), Story("slow_payment")
  PROVE  Accepts("slow_payment")
<1>0. Pay = "payment.authorize" /\ Pay \in AllStages
  BY StageNames DEF Pay
<1>1. OnlySlow("payment.authorize") /\ Made(Pay) = 1 /\ DurationOf(FirstAuthorization) = 12
  BY <1>0 DEF Story, SlowTicks
<1>2. PICK i, mi : StageOf(t, "inventory.reserve", i, mi) /\ Brief(i)
  BY <1>1, OnlySlowStored
<1>3. PICK f, mf : StageOf(t, "fraud.evaluate", f, mf) /\ Brief(f)
  BY <1>1, OnlySlowStored
<1>4. PICK h, mh : StageOf(t, "shipping.create", h, mh) /\ Brief(h)
  BY <1>1, OnlySlowStored
<1>5. Final = "Completed" /\ Went /\ results[Pay] = "ok"
  <2>1. Final = "Completed" /\ Went
    BY <1>1, OnlySlowStored
  <2> QED
    BY <1>0, <2>1, StageNames DEF Went
<1>6. PICK x, m : /\ StageOf(t, Pay, x, m) /\ Made(Pay) = x.retryCount + 1 /\ m = x.retryCount + 1
                  /\ HasId(t, <<Pay, 9 + m>>) /\ x.retryCount \in 0..2 /\ x.start \in Nat /\ x.end \in Nat
                  /\ Attempted(Of(t, Pay) \ {x}, Pay, m, x.start, x.end)
                  /\ x.retryCount = 0 => \A y \in t : y.id = <<Pay, 1>> => y.start = x.start /\ y.end = x.end
  BY <1>5, PaidStage
<1>7. x.retryCount = 0 /\ m = 1
  BY <1>1, <1>6
<1>8. PICK y \in t : y.id = <<Pay, 10>>
  <2>1. 9 + m = 10
    BY <1>7
  <2> QED
    BY <1>6, <2>1 DEF HasId
<1>9. FirstAuthorization \in t /\ FirstAuthorization.id = <<Pay, 10>>
  BY <1>8, TheSpanIs
<1>10. PICK c : CallWithin(t, x, 1, c)
  <2>1. StageLike(x, Pay) /\ m \in 0..3 /\ 1 \in 1..m
    BY <1>6, <1>7 DEF StageOf
  <2>2. Attempted(Of(t, Pay) \ {x}, Pay, m, x.start, x.end)
    BY <1>6
  <2> QED
    BY <2>1, <2>2, BothEnds, Zenon
<1>11. FirstAuthorization.start = x.start /\ FirstAuthorization.end = x.end
  <2>1. c.start = x.start /\ c.end = x.end
    BY <1>6, <1>7, <1>10 DEF CallWithin
  <2>2. FirstAuthorization.id = <<Pay, 9 + 1>>
    BY <1>9
  <2>3. FirstAuthorization.start = c.start /\ FirstAuthorization.end = c.end
    BY <1>9, <1>10, <2>2, Zenon DEF CallWithin
  <2> QED
    BY <2>1, <2>3
<1>12. x.end = x.start + 12
  <2>1. FirstAuthorization.end - FirstAuthorization.start = 12
    BY <1>1 DEF DurationOf
  <2> QED
    BY <1>6, <1>11, <2>1
<1>13. LatencyDominance(spans, Pay, 60, 10)
  <2>1. PICK D \in Nat, p \in Nat, l \in Nat : D = 12 /\ p = 60 /\ l = 10
    OBVIOUS
  <2>2. x.end = x.start + D /\ D >= 1 /\ 100 * D >= p * (D + 3) /\ D + 7 >= l
    BY <1>12, <2>1
  <2>3. LatencyDominance(spans, Pay, p, l)
    BY <1>2, <1>3, <1>4, <1>5, <1>6, <2>2, LatencyStored
  <2> QED
    BY <2>1, <2>3
<1>14. /\ StatusCode = 201 /\ spans # {} /\ AllServices \subseteq Services(spans) /\ Fine /\ StatePath(spans, FullPath)
  BY <1>5, WentStored
<1>15. Verdict(SlowPayment(TheRequest(""), 10))
  BY <1>0, <1>13, <1>14, SlowPaymentIs
<1> QED
  BY <1>15, AcceptsIs

\* A payment whose first authorization was recorded and answered too late, and
\* whose retry found it: two calls, one authorization.
LEMMA PaymentRetryTold ==
  ASSUME NEW t, Answered(t, spans), Story("payment_retry")
  PROVE  Accepts("payment_retry")
<1>0. Pay = "payment.authorize" /\ Pay \in AllStages /\ Payments(t) /\ Typed /\ Logged(t)
  BY StageNames DEF Pay, Answered, Logged
<1>1. /\ OnlySlow("payment.authorize") /\ Made(Pay) = 2 /\ FirstAuthorization.recorded
      /\ authorized = 1 /\ reached[Pay] = 2
  BY <1>0 DEF Story, Happened
<1>2. PICK i, mi : StageOf(t, "inventory.reserve", i, mi) /\ Brief(i)
  BY <1>1, OnlySlowStored
<1>3. PICK f, mf : StageOf(t, "fraud.evaluate", f, mf) /\ Brief(f)
  BY <1>1, OnlySlowStored
<1>4. PICK h, mh : StageOf(t, "shipping.create", h, mh) /\ Brief(h)
  BY <1>1, OnlySlowStored
<1>5. Final = "Completed" /\ Went /\ results[Pay] = "ok"
  <2>1. Final = "Completed" /\ Went
    BY <1>1, OnlySlowStored
  <2> QED
    BY <1>0, <2>1, StageNames DEF Went
<1>6. PICK x, m : /\ StageOf(t, Pay, x, m) /\ Made(Pay) = x.retryCount + 1 /\ m = x.retryCount + 1
                  /\ HasId(t, <<Pay, 9 + m>>) /\ x.retryCount \in 0..2 /\ x.start \in Nat /\ x.end \in Nat
                  /\ Attempted(Of(t, Pay) \ {x}, Pay, m, x.start, x.end)
                  /\ x.retryCount = 0 => \A y \in t : y.id = <<Pay, 1>> => y.start = x.start /\ y.end = x.end
  BY <1>5, PaidStage
<1>7. x.retryCount = 1 /\ m = 2
  BY <1>1, <1>6
<1>8. StageOf(t, Pay, x, 2) /\ StageLike(x, Pay) /\ Attempted(Of(t, Pay) \ {x}, Pay, 2, x.start, x.end)
  BY <1>6, <1>7 DEF StageOf
<1>9. HasId(t, <<Pay, 9 + 1>>) /\ HasId(t, <<Pay, 9 + 2>>)
  <2>1. ~HasId(t, <<Pay, 9 + 3>>)
    <3> SUFFICES ASSUME NEW y \in t, y.id = <<Pay, 9 + 3>> PROVE FALSE
      BY DEF HasId
    <3>1. 3 \in 1..3 /\ \A a, b : <<a, b>>[1] = a
      OBVIOUS
    <3>2. ServerLike(y, Pay, 3)
      BY <1>0, <3>1, IdsTell
    <3>3. y \in Of(t, Pay) \ {x}
      <4>1. y.kind = "SERVER" /\ x.kind = "INTERNAL"
        BY <1>8, <3>2, Zenon DEF ServerLike, StageLike
      <4>2. y \in Of(t, Pay)
        BY <3>1 DEF Of
      <4> QED
        BY <4>1, <4>2
    <3>4. PICK k \in 1..2 : ClientLike(y, Pay, k) \/ ServerLike(y, Pay, k)
      BY <1>8, <3>3, Zenon DEF Attempted
    <3>5. y.id = <<Pay, k>> \/ y.id = <<Pay, 9 + k>>
      BY <3>4, Zenon DEF ClientLike, ServerLike
    <3>6. \A a, b, c, d : <<a, b>> = <<c, d>> => b = d
      OBVIOUS
    <3>7. k = 9 + 3 \/ 9 + k = 9 + 3
      BY <3>5, <3>6
    <3> QED
      BY <3>7
  <2>2. reached[Pay] = Reach(t, Pay, 1) + Reach(t, Pay, 2) + Reach(t, Pay, 3)
    BY <1>0 DEF Payments
  <2>3. /\ Reach(t, Pay, 3) = 0 /\ Reach(t, Pay, 1) \in {0, 1} /\ Reach(t, Pay, 2) \in {0, 1}
    BY <2>1 DEF Reach
  <2>4. Reach(t, Pay, 1) = 1 /\ Reach(t, Pay, 2) = 1
    BY <1>1, <2>2, <2>3
  <2> QED
    BY <2>4 DEF Reach
<1>10. 9 + 1 = 10 /\ 9 + 2 = 11 /\ 1 \in 1..3 /\ 1 \in 1..2 /\ 2 \in 1..2 /\ 2 \in 0..3 /\ 1 < 2 /\ 1 + 1 = 2
  OBVIOUS
<1>11. PICK y \in t : y.id = <<Pay, 10>>
  BY <1>9, <1>10 DEF HasId
<1>12. PICK b \in t : b.id = <<Pay, 11>>
  BY <1>9, <1>10 DEF HasId
<1>13. FirstAuthorization \in t /\ FirstAuthorization.id = <<Pay, 10>>
  BY <1>11, TheSpanIs
<1>14. PICK c : CallWithin(t, x, 1, c)
  BY <1>8, <1>10, BothEnds, Zenon
<1>15. PICK d : CallWithin(t, x, 2, d)
  BY <1>8, <1>10, BothEnds, Zenon
<1>16. c.end = c.start + 15
  <2>1. \A k \in 1..3, z \in t :
          z.id = <<Pay, 9 + k>> /\ z.recorded /\ (pc = Pay \/ HasId(t, <<Pay, k + 1>>)) => z.end = z.start + 15
    BY <1>0, Zenon DEF Payments
  <2>2. HasId(t, <<Pay, 2>>)
    BY <1>15, Zenon DEF HasId, CallWithin
  <2>3. FirstAuthorization.id = <<Pay, 9 + 1>> /\ HasId(t, <<Pay, 1 + 1>>)
    BY <1>10, <1>13, <2>2
  <2>4. FirstAuthorization.end = FirstAuthorization.start + 15
    BY <1>1, <1>10, <1>13, <2>1, <2>3
  <2>5. FirstAuthorization.start = c.start /\ FirstAuthorization.end = c.end
    BY <1>13, <1>14, <2>3, Zenon DEF CallWithin
  <2> QED
    BY <2>4, <2>5
<1>17. c.end + 2 <= d.start
  <2>1. \A k, j \in 1..2 : k < j =>
          \A v, w \in Of(t, Pay) \ {x} : v.id = <<Pay, k>> /\ w.id = <<Pay, j>> => v.end + 2 <= w.start
    BY <1>8, Zenon DEF Attempted
  <2>2. c \in Of(t, Pay) \ {x} /\ d \in Of(t, Pay) \ {x}
    <3>1. \A v, w : <<v, w>>[1] = v
      OBVIOUS
    <3>0. c \in t /\ c.id = <<Pay, 1>> /\ d \in t /\ d.id = <<Pay, 2>>
      BY <1>14, <1>15, Zenon DEF CallWithin
    <3>2. c \in Of(t, Pay) /\ d \in Of(t, Pay)
      BY <3>0, <3>1 DEF Of
    <3>3. \A v, w, p, q : <<v, w>> = <<p, q>> => w = q
      OBVIOUS
    <3>4. x.id = <<Pay, 0>>
      BY <1>8, Zenon DEF StageLike
    <3>5. c # x /\ d # x
      BY <3>0, <3>3, <3>4
    <3> QED
      BY <3>2, <3>5
  <2>3. c.id = <<Pay, 1>> /\ d.id = <<Pay, 2>>
    BY <1>14, <1>15, Zenon DEF CallWithin
  <2> QED
    BY <1>10, <2>1, <2>2, <2>3
<1>18. PICK D \in Nat : x.end = x.start + D /\ D >= 18
  <2>1. x.end - x.start \in Nat /\ x.end - x.start >= 18 /\ x.end = x.start + (x.end - x.start)
    BY <1>6, <1>14, <1>15, <1>16, <1>17 DEF CallWithin
  <2> QED
    BY <2>1
<1>19. LatencyDominance(spans, Pay, 50, 15)
  <2>1. PICK p \in Nat, l \in Nat : p = 50 /\ l = 15
    OBVIOUS
  <2>2. x.end = x.start + D /\ D >= 1 /\ 100 * D >= p * (D + 3) /\ D + 7 >= l
    BY <1>18, <2>1
  <2>3. LatencyDominance(spans, Pay, p, l)
    BY <1>2, <1>3, <1>4, <1>5, <1>8, <2>2, LatencyStored
  <2> QED
    BY <2>1, <2>3
<1>20. Retries(spans, Pay, 2)
  <2>1. PICK n \in {2, 3} : n = 2
    OBVIOUS
  <2>2. x.retryCount = n - 1 /\ StageOf(t, Pay, x, n)
    BY <1>7, <1>8, <2>1
  <2>3. Retries(spans, Pay, n)
    BY <1>0, <2>2, RetriesStored
  <2> QED
    BY <2>1, <2>3
<1>21. IdempotentReplay(spans)
  BY <1>1, <1>5, <1>7, <1>8, <1>12, <1>13, ReplayStored
<1>22. /\ StatusCode = 201 /\ spans # {} /\ AllServices \subseteq Services(spans) /\ Fine /\ StatePath(spans, FullPath)
  BY <1>5, WentStored
<1>23. Verdict(PaymentRetry(TheRequest(""), 15))
  BY <1>0, <1>19, <1>20, <1>21, <1>22, PaymentRetryIs
<1> QED
  BY <1>23, AcceptsIs

\* A completed order, and one whose trace the storage kept although it was down.
LEMMA CompletedTold ==
  ASSUME NEW t, Answered(t, spans), Final = "Completed"
  PROVE  Accepts("trace_storage_outage") /\ Accepts("normal_order")
<1>1. /\ StatusCode = 201 /\ spans # {} /\ AllServices \subseteq Services(spans) /\ Fine
      /\ Topology(spans, AllServices, {}) /\ StageOrder(spans) /\ StatePath(spans, FullPath) /\ ErrorMarking(spans, FALSE)
  BY WentStored
<1>2. Verdict(TraceStorageOutage(TheRequest("during-outage"), 1, 2))
  BY <1>1, StorageOutageIs, Zenon
<1>3. Verdict(NormalOrder(TheRequest("")))
  BY <1>1, NormalOrderIs, Zenon
<1> QED
  BY <1>2, <1>3, AcceptsIs, Zenon

\* A request that found its pod gone.
LEMMA PodDeletionTold ==
  ASSUME NEW t, Answered(t, spans), Story("pod_deletion")
  PROVE  Accepts("pod_deletion")
<1>1. StatusCode \in {503, 504}
  BY DEF Story
<1>2. Fine /\ spans # {}
  BY FineStored
<1>3. {OrderService} \subseteq Services(spans)
  BY ServicesStored
<1>4. Verdict(FailuresKept(TheRequest("")))
  BY <1>1, <1>2, <1>3, PodDeletionIs
<1> QED
  BY <1>4, AcceptsIs, Zenon

\* No false alarm: a trace that was stored as it was recorded passes the
\* contract that the order was written for.
LEMMA TruthfulIsAccepted == OrderInv => TruthfulTraceAccepted
<1> SUFFICES ASSUME OrderInv, pc = "judged", damage = "none", NEW c \in TraceContracts, Story(c)
             PROVE  Accepts(c)
  BY Zenon DEF TruthfulTraceAccepted
<1>1. PICK t, full : Answered(t, full) /\ Left(full)
  BY JudgedTrace
<1>2. Answered(t, spans)
  BY <1>1 DEF Left
<1>3. c \in {"normal_order", "slow_payment", "payment_retry", "dependency_unavailable", "collector_outage",
             "trace_storage_outage", "pod_deletion", "payment_timeout", "inventory_failure", "fraud_rejection", "shipping_failure"}
  BY FlowsAre DEF TraceContracts
<1>4. c # "collector_outage"
  BY DEF Story
<1>5. CASE c \in {"normal_order", "trace_storage_outage"}
  <2>1. Final = "Completed"
    BY <1>5 DEF Story
  <2> QED
    BY <1>2, <1>5, <2>1, CompletedTold
<1>6. CASE c \in {"slow_payment", "payment_retry", "dependency_unavailable", "pod_deletion"}
  BY <1>2, <1>6, SlowPaymentTold, PaymentRetryTold, MissingTold, PodDeletionTold
<1>7. CASE c \in {"payment_timeout", "inventory_failure", "fraud_rejection", "shipping_failure"}
  BY <1>2, <1>7, PaymentTimeoutTold, InventoryFailureTold, FraudRejectionTold, ShippingFailureTold
<1> QED
  BY <1>3, <1>4, <1>5, <1>6, <1>7

-----------------------------------------------------------------------------
(* Both levels together.                                                    *)

VerdictInv == Shape /\ Bounded /\ Settled /\ Tallied /\ Disturbed /\ PassedMeansTrue

\* A behaviour explores one run or one order, and the other stands still.
IInv == (NoOrder /\ VerdictInv) \/ (NoRun /\ OrderInv)

\* No order starts while a run is explored,
LEMMA OrderStands ==
  ASSUME NoOrder
  PROVE  ~TraceNext
<1>1. pc = "none"
  BY DEF NoOrder
<1>2. "none" \notin AllStages
  BY DEF AllStages, Stages, CompensationStages
<1> QED
  BY <1>1, <1>2 DEF TraceNext, Try, ServiceRestart, Answer, Export, Store

\* and nothing is sent, scraped or judged while an order is.
LEMMA RunStands ==
  ASSUME NoRun
  PROVE  /\ ~VerdictNext
         /\ Planned = 1..1 /\ Schedule(step) = <<0>>
<1>1. /\ step = WorkloadStep("single", 1, 1, 1, 1, 1, 1, {}) /\ phase = "none" /\ answers = <<"unsent">>
  BY DEF NoRun
<1>2. step.profile = "single"
  BY <1>1 DEF WorkloadStep
<1>3. Schedule(step) = <<0>>
  BY <1>2 DEF Schedule
<1>4. Planned = 1..1
  BY <1>3 DEF Planned
<1>5. \A i \in Planned : answers[i] = "unsent"
  BY <1>1, <1>4
<1>6. \A i \in Planned : (\A pod : ~Send(i, pod)) /\ (\A fate : ~Reply(i, fate))
  BY <1>1, <1>5 DEF Send, Reply
<1>7. ~Disturb /\ ~Finish /\ \A lost : ~ReadBack(lost)
  BY <1>1 DEF Disturb, Finish, ReadBack
<1>8. \A c, n : ~Scrape(c, n)
  BY <1>1 DEF Scrape
<1>9. phase # "settle"
  BY <1>1
<1> QED
  BY <1>3, <1>4, <1>6, <1>7, <1>8, <1>9, Zenon DEF VerdictNext

LEMMA BothStart == Init => IInv
  BY Beginning, BeginningSettled, OrderStarts DEF Init, IInv, VerdictInv

LEMMA BothGoOn == IInv /\ [Next]_<<traceVars, verdictVars>> => IInv'
<1> SUFFICES ASSUME IInv, [Next]_<<traceVars, verdictVars>> PROVE IInv'
  OBVIOUS
<1>1. CASE NoOrder /\ VerdictInv
  <2>1. UNCHANGED traceVars /\ [VerdictNext]_verdictVars
    BY <1>1, OrderStands, Zenon DEF Next
  <2>2. NoOrder'
    BY <1>1, <2>1 DEF NoOrder, traceVars
  <2>3. VerdictInv'
    BY <1>1, <2>1, Planning, SettledStep, TalliedStep, DisturbedStep, PassedStep DEF VerdictInv
  <2> QED
    BY <2>2, <2>3 DEF IInv
<1>2. CASE NoRun /\ OrderInv
  <2>1. UNCHANGED verdictVars /\ [TraceNext]_traceVars
    BY <1>2, RunStands, Zenon DEF Next
  <2>2. NoRun'
    BY <1>2, <2>1 DEF NoRun, verdictVars
  <2>3. OrderInv'
    BY <1>2, <2>1, OrderGoesOn
  <2> QED
    BY <2>2, <2>3 DEF IInv
<1> QED
  BY <1>1, <1>2 DEF IInv

\* The plan of the run that stands still, and the trace of the order that does.
LEMMA BothMean ==
  ASSUME IInv
  PROVE  TypeOK /\ AcceptedMeansTrue /\ TruthfulTraceAccepted /\ TrafficAsPlanned /\ PassedMeansTrue
<1>1. CASE NoOrder /\ VerdictInv
  <2>1. TrafficAsPlanned /\ VerdictTypeOK /\ PassedMeansTrue
    BY <1>1, ShapeMeans DEF VerdictInv
  <2>2. pc = "none"
    BY <1>1 DEF NoOrder
  <2> QED
    BY <2>1, <2>2 DEF TypeOK, AcceptedMeansTrue, TruthfulTraceAccepted
<1>2. CASE NoRun /\ OrderInv
  <2>1. TraceTypeOK /\ AcceptedMeansTrue /\ TruthfulTraceAccepted
    BY <1>2, TraceTyping, AcceptedIsTrue, TruthfulIsAccepted
  <2>2. pc # "none"
    <3>1. pc \in AllStages \cup Ended
      BY <1>2, Zenon DEF OrderInv, Typed
    <3> QED
      BY <3>1 DEF AllStages, Stages, CompensationStages, Ended
  <2>3. TypeOK
    BY <2>1, <2>2, Zenon DEF TypeOK
  <2>4. PassedMeansTrue
    BY <1>2 DEF NoRun, PassedMeansTrue
  <2>5. step.profile = "single"
    BY <1>2 DEF NoRun, WorkloadStep
  <2>6. TrafficAsPlanned
    BY <1>2, <2>5, RunStands DEF TrafficAsPlanned
  <2> QED
    BY <2>1, <2>3, <2>4, <2>6
<1> QED
  BY <1>1, <1>2 DEF IInv

\* What the invariant tells of the payment, and of orders that failed after it.
LEMMA MoneyIs ==
  ASSUME IInv
  PROVE  /\ authorized <= restarts + 1
         /\ pc \in Ended /\ (Final = "ShippingFailed" \/ (Final = "PaymentFailed" /\ results[Pay] # "rejected")) => UndoTried
<1>1. CASE NoOrder /\ VerdictInv
  <2>1. pc = "none" /\ authorized = 0 /\ restarts = 0
    BY <1>1 DEF NoOrder
  <2> QED
    BY <2>1 DEF Ended
<1>2. CASE NoRun /\ OrderInv
  <2>1. Typed /\ Course
    BY <1>2, Zenon DEF OrderInv
  <2>2. PICK t : Logged(t)
    BY <1>2, LogThere
  <2>3. authorized <= restarts + Remembered(response)
    BY <2>2, Zenon DEF Logged, Payments
  <2>4. restarts \in Nat /\ authorized \in Nat
    <3>1. restarts \in 0..Restarts /\ authorized \in Nat
      BY <2>1, Zenon DEF Typed
    <3> QED
      BY <3>1
  <2>5. Remembered(response) \in {0, 1}
    BY DEF Remembered
  <2>6. authorized <= restarts + 1
    BY <2>3, <2>4, <2>5
  <2>7. ASSUME pc \in Ended, Final = "ShippingFailed" \/ (Final = "PaymentFailed" /\ results[Pay] # "rejected")
        PROVE  UndoTried
    <3>1. Went \/ \E s \in Stages : Gone(s)
      BY <2>1, <2>7, EndIs
    <3>2. ~Went
      <4>1. Final # "Completed"
        BY <2>7
      <4> QED
        BY <4>1, Zenon DEF Went
    <3>3. PICK s \in Stages : Gone(s)
      BY <3>1, <3>2
    <3>4. Final = FailureState(s)
      BY <3>3, Zenon DEF Gone
    <3>5. s \in {Pay, "shipping.create"} /\ (s = Pay => Final = "PaymentFailed")
      BY <2>7, <3>4 DEF FailureState, Stages, Pay
    <3>6. s = Pay => results[s] # "rejected"
      BY <2>7, <3>5
    <3> QED
      BY <3>3, <3>5, <3>6, UndoneIs, Zenon DEF Pay
  <2> QED
    BY <2>6, <2>7
<1> QED
  BY <1>1, <1>2 DEF IInv

LEMMA Throughout == Spec => []IInv
  BY BothStart, BothGoOn, PTL DEF Spec

\* The run and the order of every behaviour keep their types (ScenarioVerdict,
\* OrderTrace).
THEOREM BothTyped == Spec => []TypeOK
  BY Throughout, BothMean, PTL

\* No contract is fooled: whatever one loss, missing batch or wrong attribute
\* the telemetry pipeline leaves in the stored trace, and whatever the stages
\* answered, however often they were tried and PaymentService restarted, a
\* contract that passes says what the order went through (contracts.py,
\* tracechecks.py).
THEOREM AcceptedTracesTrue == Spec => []AcceptedMeansTrue
  BY Throughout, BothMean, PTL

\* No contract raises a false alarm: an order that went as the contract's
\* scenario intends, with a trace stored as it was recorded, passes each check
\* of it, spans' order in time, retries and latency shares included
\* (contracts.py, tracechecks.py).
THEOREM TruthfulTracesAccepted == Spec => []TruthfulTraceAccepted
  BY Throughout, BothMean, PTL

\* The plan and the verdict of a run hold in the composition as they do by
\* themselves, for any fractions of rates and times and any counters that lag
\* behind (TrafficIsPlanned, PassedIsTrue).
THEOREM RunsHold == Spec => [](TrafficAsPlanned /\ PassedMeansTrue)
  BY Throughout, BothMean, PTL

\* An order is charged at most once per life of the PaymentService it calls,
\* however often its authorization is retried: only a restart, which forgets
\* the idempotency entries, can make a retry charge again (PaymentEndpoints.cs,
\* PaymentStores.cs).
THEOREM ChargedOncePerLife == Spec => [](authorized <= restarts + 1)
  BY Throughout, MoneyIs, PTL

\* Every order that is answered as failed after it may have been charged has
\* had both undo steps called (CompensationPlan, CompensateAsync).
THEOREM FailedOrdersUndone ==
  Spec => [](pc \in Ended /\ (Final = "ShippingFailed" \/ (Final = "PaymentFailed" /\ results[Pay] # "rejected")) => UndoTried)
  BY Throughout, MoneyIs, PTL
=============================================================================
