--------------------------- MODULE AdmissionProofs ---------------------------
(***************************************************************************)
(* The throttle, for every rate, window and burst, every number of stores  *)
(* and any interleaving of writes, refusals, clock ticks and readings of   *)
(* the databases.                                                          *)
(***************************************************************************)
EXTENDS Admission, SequenceTheorems, TLAPS

\* With t in its bucket at time l, the store cannot have had more than its burst
\* and the rate since any of its accepted writes, the t that is left included.
Spent(s, t, l) ==
  \A i \in DOMAIN accepted[s] :
    t + (Len(accepted[s]) - i + 1) * Window <= burst + MaxWrites * (l - accepted[s][i])

\* The bucket is full, or has been growing at the rate since the last write.
Growing(s, t, l) ==
  accepted[s] # <<>> =>
    t = burst \/ t >= MaxWrites * (l - accepted[s][Len(accepted[s])])

Counts(s) == /\ sent[s] + outbox[s] <= Len(accepted[s])
             /\ Len(accepted[s]) <= MaxAccepted

Clock(s) == /\ last_refill[s] <= now
            /\ accepted[s] # <<>> => last_refill[s] # -1
            /\ \A i \in DOMAIN accepted[s] : accepted[s][i] <= now

RateOf(s) ==
  \A i, j \in DOMAIN accepted[s] :
    i <= j => (j - i + 1) * Window <= burst + MaxWrites * (accepted[s][j] - accepted[s][i])

\* The inductive invariant.
BucketInv ==
  /\ TypeOK
  /\ \A s \in Stores : /\ Counts(s) /\ Clock(s) /\ RateOf(s)
                       /\ Spent(s, tokens[s], last_refill[s])
                       /\ Growing(s, tokens[s], last_refill[s])

-----------------------------------------------------------------------------
(* The bucket *)

\* A burst is a whole number of tokens, and at least one if any write is allowed.
LEMMA BurstFacts == /\ burst \in Nat
                    /\ MaxWrites > 0 => burst >= Window
  <1>1. CASE MaxWrites < MAX_BURST
    <2>1. burst = Window * MaxWrites
      BY <1>1 DEF burst
    <2>2. \A w, m \in Nat : w * m \in Nat /\ (m > 0 => w * m >= w)
      OBVIOUS
    <2> QED
      BY <2>1, <2>2, AdmissionConstants
  <1>2. CASE ~ (MaxWrites < MAX_BURST)
    <2>1. burst = Window * 3
      BY <1>2 DEF burst, MAX_BURST
    <2> QED
      BY <2>1, AdmissionConstants
  <1> QED
    BY <1>1, <1>2

\* Multiplying out what the rate adds over two consecutive spans of time.
LEMMA RateAdds ==
  ASSUME NEW m \in Int, NEW a \in Int, NEW b \in Int, NEW c \in Int
  PROVE  /\ m * (c - b) + m * (b - a) = m * (c - a)
         /\ (c - b) * m = m * (c - b) /\ m * (c - b) \in Int
  OBVIOUS

\* What the rate adds is not negative.
LEMMA RateGrows ==
  ASSUME NEW m \in Nat, NEW a \in Int, NEW b \in Int, a <= b
  PROVE  m * (b - a) \in Nat
  <1>1. \A x, y \in Nat : x * y \in Nat
    OBVIOUS
  <1> QED
    BY <1>1

\* The times at which a store's writes were accepted.
LEMMA AcceptedFacts ==
  ASSUME TypeOK, NEW s \in Stores
  PROVE  /\ accepted[s] \in Seq(0..MaxTime) /\ Len(accepted[s]) \in Nat
         /\ DOMAIN accepted[s] = 1..Len(accepted[s])
         /\ \A i \in DOMAIN accepted[s] : accepted[s][i] \in Int /\ accepted[s] # <<>>
         /\ accepted[s] # <<>> => Len(accepted[s]) \in DOMAIN accepted[s]
  <1> DEFINE A == accepted[s]
  <1>1. A \in Seq(0..MaxTime)
    BY DEF TypeOK
  <1> HIDE DEF A
  <1>2. Len(A) \in Nat /\ DOMAIN A = 1..Len(A) /\ (A # <<>> => Len(A) # 0)
    BY <1>1, LenProperties, EmptySeq
  <1>3. \A i \in DOMAIN A : A[i] \in Int /\ A # <<>>
    <2>1. \A i \in DOMAIN A : A[i] \in 0..MaxTime
      BY <1>1, <1>2, ElementOfSeq
    <2>2. \A i \in DOMAIN A : A # <<>>
      BY <1>1, <1>2, EmptySeq
    <2> QED
      BY <2>1, <2>2, AdmissionConstants
  <1> QED
    BY <1>1, <1>2, <1>3 DEF A

\* allow_at's refill: the bucket is full, or has grown by the rate.
LEMMA RefilledFacts ==
  ASSUME TypeOK, NEW s \in Stores, Clock(s)
  PROVE  /\ refilled(s) \in 0..burst
         /\ \/ refilled(s) = burst
            \/ refilled(s) = tokens[s] + MaxWrites * (now - last_refill[s])
         /\ last_refill[s] # -1 => refilled(s) <= tokens[s] + MaxWrites * (now - last_refill[s])
         /\ last_refill[s] # -1 /\ tokens[s] = burst => refilled(s) = burst
  <1> DEFINE t == tokens[s]
             l == last_refill[s]
             g == MaxWrites * (now - l)
  <1>1. burst \in Nat /\ t \in 0..burst /\ l \in Int /\ now \in Int /\ l <= now
        /\ MaxWrites \in Nat
    BY BurstFacts, AdmissionConstants DEF TypeOK, Clock
  <1>2. g \in Nat
    BY <1>1, RateGrows
  <1>3. (now - l) * MaxWrites = g
    BY <1>1, RateAdds
  <1>4. refilled(s) = IF l = -1 \/ t + g > burst THEN burst ELSE t + g
    BY <1>3 DEF refilled
  <1> HIDE DEF t, l, g
  <1>5. /\ refilled(s) \in 0..burst
        /\ refilled(s) = burst \/ refilled(s) = t + g
        /\ l # -1 => refilled(s) <= t + g
        /\ l # -1 /\ t = burst => refilled(s) = burst
    BY <1>1, <1>2, <1>4
  <1> QED
    BY <1>5 DEF t, l, g

\* Refilling the bucket at the current time keeps the account.
LEMMA RefillKeepsAccount ==
  ASSUME BucketInv, NEW s \in Stores
  PROVE  Spent(s, refilled(s), now) /\ Growing(s, refilled(s), now)
  <1>0. /\ accepted[s] \in Seq(0..MaxTime) /\ Len(accepted[s]) \in Nat
        /\ DOMAIN accepted[s] = 1..Len(accepted[s])
        /\ tokens[s] \in Int /\ last_refill[s] \in Int /\ now \in Int
        /\ burst \in Nat /\ MaxWrites \in Nat /\ Window \in Nat
    BY BurstFacts, AdmissionConstants, LenProperties DEF BucketInv, TypeOK
  <1>1. TypeOK /\ Clock(s) /\ refilled(s) \in Int
    BY RefilledFacts, BurstFacts DEF BucketInv
  <1>2. ASSUME NEW i \in DOMAIN accepted[s]
        PROVE  refilled(s) + (Len(accepted[s]) - i + 1) * Window
                 <= burst + MaxWrites * (now - accepted[s][i])
    <2> DEFINE w == (Len(accepted[s]) - i + 1) * Window
               g == MaxWrites * (now - last_refill[s])
               h == MaxWrites * (last_refill[s] - accepted[s][i])
               a == MaxWrites * (now - accepted[s][i])
    <2>1. accepted[s][i] \in Int /\ accepted[s] # <<>>
      BY <1>1, AcceptedFacts
    <2>2. g + h = a /\ g \in Int /\ h \in Int /\ a \in Int
      BY <1>0, <2>1, RateAdds, SMTT(60)
    <2>3. w \in Int
      BY <1>0
    <2>4. refilled(s) <= tokens[s] + g
      BY <1>1, <2>1, RefilledFacts DEF Clock
    <2>5. tokens[s] + w <= burst + h
      BY DEF BucketInv, Spent
    <2> HIDE DEF w, g, h, a
    <2>6. refilled(s) \in Int /\ tokens[s] \in Int /\ burst \in Int
      BY <1>0, <1>1
    <2>7. refilled(s) + w <= burst + a
      BY <2>2, <2>3, <2>4, <2>5, <2>6
    <2> QED
      BY <2>7 DEF w, a
  <1>3. ASSUME accepted[s] # <<>>
        PROVE  \/ refilled(s) = burst
               \/ refilled(s) >= MaxWrites * (now - accepted[s][Len(accepted[s])])
    <2> DEFINE last == accepted[s][Len(accepted[s])]
               g == MaxWrites * (now - last_refill[s])
               h == MaxWrites * (last_refill[s] - last)
               a == MaxWrites * (now - last)
    <2>1. Len(accepted[s]) \in DOMAIN accepted[s] /\ last \in Int
      BY <1>1, <1>3, AcceptedFacts
    <2>2. g + h = a /\ g \in Int /\ h \in Int /\ a \in Int
      BY <1>0, <2>1, RateAdds, SMTT(60)
    <2>3. last_refill[s] # -1
      BY <1>1, <1>3 DEF Clock
    <2>4. tokens[s] = burst \/ tokens[s] >= h
      BY <1>3 DEF BucketInv, Growing
    <2>5. /\ refilled(s) = burst \/ refilled(s) = tokens[s] + g
          /\ tokens[s] = burst => refilled(s) = burst
      BY <1>1, <2>3, RefilledFacts
    <2> HIDE DEF last, g, h, a
    <2>6. refilled(s) = burst \/ refilled(s) >= a
      BY <1>0, <1>1, <2>2, <2>4, <2>5
    <2> QED
      BY <2>6 DEF a, last
  <1> QED
    BY <1>2, <1>3 DEF Spent, Growing

-----------------------------------------------------------------------------
(* The steps *)

\* The API starts with full buckets and nothing accepted.
LEMMA BucketInit == Init => BucketInv
  <1> SUFFICES ASSUME Init PROVE BucketInv
    OBVIOUS
  <1>1. TypeOK
    BY BurstFacts, AdmissionConstants DEF Init, TypeOK
  <1>2. \A s \in Stores : accepted[s] = <<>> /\ Len(accepted[s]) = 0 /\ DOMAIN accepted[s] = {}
    BY DEF Init
  <1>3. \A s \in Stores : Counts(s) /\ Clock(s)
    BY <1>2, AdmissionConstants DEF Init, Counts, Clock
  <1> QED
    BY <1>1, <1>2, <1>3 DEF BucketInv, RateOf, Spent, Growing

\* A refused write keeps the refill.
LEMMA DenyStep ==
  ASSUME BucketInv, NEW q \in Stores, RejectThrottled(q)
  PROVE  BucketInv'
  <1>1. /\ UNCHANGED <<now, depths, next, sent, outbox, seen, accepted>>
        /\ tokens' = [tokens EXCEPT ![q] = refilled(q)]
        /\ last_refill' = [last_refill EXCEPT ![q] = now]
    BY DEF RejectThrottled, deny
  <1>2. refilled(q) \in 0..burst
    BY RefilledFacts DEF BucketInv
  <1>3. TypeOK'
    BY <1>1, <1>2, SMTT(60) DEF BucketInv, TypeOK
  <1>4. \A s \in Stores \ {q} : tokens'[s] = tokens[s] /\ last_refill'[s] = last_refill[s]
    BY <1>1 DEF BucketInv, TypeOK
  <1>5. tokens'[q] = refilled(q) /\ last_refill'[q] = now /\ now \in Nat
    BY <1>1 DEF BucketInv, TypeOK
  <1>6. ASSUME NEW s \in Stores
        PROVE  (Counts(s) /\ Clock(s) /\ RateOf(s))'
    <2>1. Counts(s)' /\ RateOf(s)'
      BY <1>1 DEF BucketInv, Counts, RateOf
    <2>2. Clock(s)'
      BY <1>1, <1>4, <1>5 DEF BucketInv, Clock
    <2> QED
      BY <2>1, <2>2
  <1>7. ASSUME NEW s \in Stores
        PROVE  (Spent(s, tokens[s], last_refill[s]) /\ Growing(s, tokens[s], last_refill[s]))'
    <2>1. CASE s = q
      BY <1>1, <1>5, <2>1, RefillKeepsAccount DEF Spent, Growing
    <2>2. CASE s # q
      BY <1>1, <1>4, <2>2 DEF BucketInv, Spent, Growing
    <2> QED
      BY <2>1, <2>2
  <1> QED
    BY <1>3, <1>6, <1>7 DEF BucketInv

\* An accepted write takes a token.
LEMMA AllowStep ==
  ASSUME BucketInv, NEW q \in Stores, Accept(q)
  PROVE  BucketInv'
  <1> DEFINE A == accepted[q]
             n == Len(A)
  <1>1. /\ UNCHANGED <<now, depths, next, outbox, seen>>
        /\ tokens' = [tokens EXCEPT ![q] = refilled(q) - Window]
        /\ last_refill' = [last_refill EXCEPT ![q] = now]
        /\ sent' = [sent EXCEPT ![q] = sent[q] + 1]
        /\ accepted' = [accepted EXCEPT ![q] = Append(A, now)]
        /\ refilled(q) >= Window /\ n < MaxAccepted
    BY DEF Accept, allow
  <1>2. /\ refilled(q) \in 0..burst /\ Window \in Nat \ {0} /\ burst \in Nat
        /\ now \in 0..MaxTime /\ A \in Seq(0..MaxTime) /\ n \in Nat /\ DOMAIN A = 1..n
        /\ MaxWrites \in Nat
    BY RefilledFacts, BurstFacts, AdmissionConstants, LenProperties DEF BucketInv, TypeOK
  <1>3. /\ accepted'[q] = Append(A, now) /\ Len(accepted'[q]) = n + 1
        /\ DOMAIN accepted'[q] = 1..(n + 1)
        /\ \A i \in 1..n : accepted'[q][i] = A[i]
        /\ accepted'[q][n + 1] = now /\ accepted'[q] \in Seq(0..MaxTime)
        /\ accepted'[q] # <<>>
    <2>1. accepted'[q] = Append(A, now)
      BY <1>1 DEF BucketInv, TypeOK
    <2> QED
      BY <1>2, <2>1, AppendProperties, LenProperties, EmptySeq
  <1>4. \A s \in Stores \ {q} : /\ tokens'[s] = tokens[s] /\ last_refill'[s] = last_refill[s]
                                /\ accepted'[s] = accepted[s] /\ sent'[s] = sent[s]
    BY <1>1 DEF BucketInv, TypeOK
  <1>5. /\ tokens'[q] = refilled(q) - Window /\ last_refill'[q] = now
        /\ sent'[q] = sent[q] + 1 /\ tokens'[q] \in 0..burst
    BY <1>1, <1>2, SMTT(60) DEF BucketInv, TypeOK
  <1>6. Counts(q)'
    <2>1. sent[q] + outbox[q] <= n /\ sent[q] \in Nat /\ outbox[q] \in Nat /\ MaxAccepted \in Nat
      BY AdmissionConstants DEF BucketInv, Counts, TypeOK
    <2>2. sent'[q] + outbox'[q] <= n + 1 /\ n + 1 <= MaxAccepted
      <3>1. outbox'[q] = outbox[q] /\ sent'[q] = sent[q] + 1 /\ n \in Nat /\ n < MaxAccepted
        BY <1>1, <1>2, <1>5
      <3> HIDE DEF n, A
      <3> QED
        BY <2>1, <3>1
    <2> QED
      BY <1>3, <2>2 DEF Counts
  <1>7. TypeOK'
    <2>1. sent'[q] \in 0..MaxAccepted
      <3>1. sent[q] + outbox[q] <= n /\ sent[q] \in Nat /\ outbox[q] \in Nat
            /\ MaxAccepted \in Nat
        BY AdmissionConstants DEF BucketInv, Counts, TypeOK
      <3>2. sent'[q] = sent[q] + 1 /\ n \in Nat /\ n < MaxAccepted
        BY <1>1, <1>2, <1>5
      <3> HIDE DEF n, A
      <3> QED
        BY <3>1, <3>2
    <2>2. accepted' \in [Stores -> Seq(0..MaxTime)]
      BY <1>1, <1>3, <1>2 DEF BucketInv, TypeOK
    <2>3. tokens' \in [Stores -> 0..burst] /\ last_refill' \in [Stores -> -1..MaxTime]
      BY <1>1, <1>2, <1>5, SMTT(60) DEF BucketInv, TypeOK
    <2>4. sent' \in [Stores -> 0..MaxAccepted]
      BY <1>1, <1>5, <2>1 DEF BucketInv, TypeOK
    <2> QED
      BY <1>1, <2>2, <2>3, <2>4 DEF BucketInv, TypeOK
  <1>8. Clock(q)'
    <2>1. \A i \in 1..n : A[i] <= now
      BY <1>2 DEF BucketInv, Clock
    <2>2. \A i \in 1..(n + 1) : i \in 1..n \/ i = n + 1
      BY <1>2
    <2>3. \A i \in 1..(n + 1) : accepted'[q][i] <= now
      BY <1>2, <1>3, <2>1, <2>2
    <2> QED
      BY <1>1, <1>2, <1>3, <1>5, <2>3, SMTT(60) DEF Clock
  <1>9. Spent(q, refilled(q), now)
    BY RefillKeepsAccount
  <1>10. ASSUME NEW i \in 1..(n + 1)
         PROVE  tokens'[q] + ((n + 1) - i + 1) * Window
                  <= burst + MaxWrites * (now - accepted'[q][i])
    <2>0. i \in 1..n \/ i = n + 1
      BY <1>2
    <2>1. CASE i \in 1..n
      <3> DEFINE w == (n - i + 1) * Window
                 a == MaxWrites * (now - A[i])
      <3>1. refilled(q) + w <= burst + a
        BY <1>2, <1>9, <2>1 DEF Spent
      <3>2. ((n + 1) - i + 1) * Window = w + Window /\ w \in Int
        <4>1. \A x, y \in Int : (x + 1) * y = x * y + y /\ x * y \in Int
          OBVIOUS
        <4>2. (n + 1) - i + 1 = (n - i + 1) + 1 /\ n - i + 1 \in Int
          BY <1>2
        <4> QED
          BY <1>2, <4>1, <4>2
      <3>3. a \in Int /\ accepted'[q][i] = A[i]
        <4>1. A[i] \in Int
          BY <1>2, <2>1, AcceptedFacts DEF BucketInv
        <4> QED
          BY <1>2, <1>3, <2>1, <4>1, RateAdds
      <3> HIDE DEF w, a
      <3>4. tokens'[q] + (w + Window) <= burst + a
        BY <1>2, <1>5, <3>1, <3>2, <3>3
      <3> QED
        BY <3>2, <3>3, <3>4 DEF a
    <2>2. CASE i = n + 1
      <3>1. (n + 1) - i + 1 = 1 /\ now - accepted'[q][i] = 0
        BY <1>2, <1>3, <2>2
      <3>2. 1 * Window = Window /\ MaxWrites * 0 = 0
        BY <1>2
      <3>3. tokens'[q] + Window <= burst + 0
        BY <1>2, <1>5
      <3> QED
        BY <3>1, <3>2, <3>3
    <2> QED
      BY <2>0, <2>1, <2>2
  <1>11. Spent(q, tokens[q], last_refill[q])'
    BY <1>1, <1>3, <1>5, <1>10, Zenon DEF Spent
  <1>12. Growing(q, tokens[q], last_refill[q])'
    <2>1. MaxWrites * (now - now) = 0
      BY <1>2
    <2>2. tokens'[q] >= MaxWrites * (last_refill'[q] - accepted'[q][Len(accepted'[q])])
      BY <1>2, <1>3, <1>5, <2>1
    <2> QED
      BY <2>2 DEF Growing
  <1>13. RateOf(q)'
    <2> SUFFICES ASSUME NEW i \in 1..(n + 1), NEW j \in 1..(n + 1), i <= j
                 PROVE  (j - i + 1) * Window
                          <= burst + MaxWrites * (accepted'[q][j] - accepted'[q][i])
      BY <1>3 DEF RateOf
    <2>0. j \in 1..n \/ j = n + 1
      BY <1>2
    <2>1. CASE j \in 1..n
      <3>1. i \in 1..n
        BY <1>2, <2>1
      <3> QED
        BY <1>2, <1>3, <2>1, <3>1 DEF BucketInv, RateOf
    <2>2. CASE j = n + 1
      <3> DEFINE w == ((n + 1) - i + 1) * Window
                 a == MaxWrites * (now - accepted'[q][i])
      <3>1. tokens'[q] + w <= burst + a
        BY <1>10
      <3>2. w \in Int /\ a \in Int
        <4>1. \A x, y \in Int : x * y \in Int
          OBVIOUS
        <4>2. accepted'[q][i] \in Int
          <5>1. accepted'[q][i] \in 0..MaxTime
            BY <1>3, ElementOfSeq
          <5> QED
            BY <5>1, AdmissionConstants
        <4>3. (n + 1) - i + 1 \in Int
          BY <1>2
        <4>4. Window \in Int /\ MaxWrites \in Int /\ now - accepted'[q][i] \in Int
          BY <1>2, <4>2
        <4> QED
          BY <4>1, <4>3, <4>4, Zenon
      <3> HIDE DEF w, a
      <3>3. w <= burst + a
        BY <1>2, <1>5, <3>1, <3>2
      <3> QED
        BY <1>3, <2>2, <3>3 DEF w, a
    <2> QED
      BY <2>0, <2>1, <2>2
  <1>14. ASSUME NEW s \in Stores
         PROVE  (/\ Counts(s) /\ Clock(s) /\ RateOf(s)
                 /\ Spent(s, tokens[s], last_refill[s])
                 /\ Growing(s, tokens[s], last_refill[s]))'
    <2>1. CASE s = q
      BY <1>6, <1>8, <1>11, <1>12, <1>13, <2>1
    <2>2. CASE s # q
      BY <1>1, <1>4, <2>2 DEF BucketInv, Counts, Clock, RateOf, Spent, Growing
    <2> QED
      BY <2>1, <2>2
  <1> QED
    BY <1>7, <1>14 DEF BucketInv

\* Steps that leave the buckets and the accepted writes alone.
LEMMA OtherStep ==
  ASSUME BucketInv, UNCHANGED <<tokens, last_refill, accepted>>, TypeOK', now <= now',
         \A s \in Stores : sent'[s] + outbox'[s] <= sent[s] + outbox[s]
  PROVE  BucketInv'
  <1>1. ASSUME NEW s \in Stores PROVE Counts(s)'
    <2>1. /\ sent[s] \in Nat /\ outbox[s] \in Nat /\ sent'[s] \in Nat /\ outbox'[s] \in Nat
          /\ Len(accepted[s]) \in Nat
      BY LenProperties DEF BucketInv, TypeOK
    <2> QED
      BY <2>1, SMTT(60) DEF BucketInv, Counts
  <1>2. ASSUME NEW s \in Stores PROVE Clock(s)'
    <2>1. now \in Int /\ now' \in Int /\ last_refill[s] \in Int
      BY AdmissionConstants DEF BucketInv, TypeOK
    <2>2. \A i \in DOMAIN accepted[s] : accepted[s][i] \in Int
      BY AcceptedFacts DEF BucketInv
    <2> QED
      BY <2>1, <2>2 DEF BucketInv, Clock
  <1>3. \A s \in Stores : (/\ RateOf(s) /\ Spent(s, tokens[s], last_refill[s])
                           /\ Growing(s, tokens[s], last_refill[s]))'
    BY DEF BucketInv, RateOf, Spent, Growing
  <1> QED
    BY <1>1, <1>2, <1>3 DEF BucketInv

\* Every step keeps the account of every store.
LEMMA BucketStep == BucketInv /\ [Next]_vars => BucketInv'
  <1> SUFFICES ASSUME BucketInv, [Next]_vars PROVE BucketInv'
    OBVIOUS
  <1>0. TypeOK /\ now \in Nat /\ MaxTime \in Nat /\ MaxAccepted \in Nat
        /\ \A s \in Stores : sent[s] \in Nat /\ outbox[s] \in Nat
    BY AdmissionConstants DEF BucketInv, TypeOK
  <1>1. ASSUME NEW s \in Stores, RejectThrottled(s) PROVE BucketInv'
    BY <1>1, DenyStep
  <1>2. ASSUME NEW s \in Stores, Accept(s) PROVE BucketInv'
    BY <1>2, AllowStep
  <1>3. CASE CollectOutboxMetrics \/ CollectPartly \/ CollectFails
    <2>1. next' \in DOMAIN Paths
      <3>1. \A k, m \in Nat : m > 0 => (k % m) + 1 \in 1..m
        OBVIOUS
      <3>2. next \in Nat /\ Len(Paths) \in Nat /\ DOMAIN Paths = 1..Len(Paths) /\ Len(Paths) > 0
        BY <1>0, AdmissionConstants, LenProperties DEF TypeOK
      <3>3. next' = (next % Len(Paths)) + 1
        BY <1>3 DEF CollectOutboxMetrics, CollectPartly, Reading, CollectFails
      <3> QED
        BY <3>1, <3>2, <3>3
    <2>2. depths' \in [Stores -> 0..MaxAccepted] /\ seen' \in [Stores -> 0..MaxAccepted]
      <3>1. \A s \in Stores : /\ outbox[s] \in 0..MaxAccepted /\ seen[s] \in 0..MaxAccepted
                               /\ 0 \in 0..MaxAccepted
        BY <1>0 DEF TypeOK
      <3>2. ASSUME NEW read, Reading(read)
            PROVE  depths' \in [Stores -> 0..MaxAccepted] /\ seen' \in [Stores -> 0..MaxAccepted]
        <4>1. depths' \in [Stores -> 0..MaxAccepted]
          BY <3>1, <3>2, Zenon DEF Reading, depths_after
        <4>2. \A s \in Stores : depths'[s] \in 0..MaxAccepted
          BY <4>1
        <4>3. seen' \in [Stores -> 0..MaxAccepted]
          BY <3>1, <3>2, <4>2, Zenon DEF Reading
        <4> QED
          BY <4>1, <4>3
      <3>3. CASE CollectFails
        BY <1>0, <3>3 DEF CollectFails, TypeOK
      <3> QED
        BY <1>3, <3>2, <3>3, Zenon DEF CollectOutboxMetrics, CollectPartly
    <2>3. UNCHANGED <<now, tokens, last_refill, sent, outbox, accepted>>
      BY <1>3 DEF CollectOutboxMetrics, CollectPartly, Reading, CollectFails
    <2>4. TypeOK'
      BY <1>0, <2>1, <2>2, <2>3 DEF TypeOK
    <2> QED
      BY <1>0, <2>3, <2>4, OtherStep
  <1>4. ASSUME NEW s \in Stores, Commit(s) PROVE BucketInv'
    <2>1. /\ sent' = [sent EXCEPT ![s] = sent[s] - 1] /\ sent[s] > 0
          /\ outbox' = [outbox EXCEPT ![s] = outbox[s] + 1]
          /\ UNCHANGED <<now, tokens, last_refill, depths, next, seen, accepted>>
      BY <1>4 DEF Commit
    <2>2. sent[s] + outbox[s] <= MaxAccepted
      <3>1. Len(accepted[s]) \in Nat
        BY LenProperties DEF BucketInv, TypeOK
      <3> QED
        BY <1>0, <3>1 DEF BucketInv, Counts
    <2>3. TypeOK'
      <3>1. sent[s] - 1 \in 0..MaxAccepted /\ outbox[s] + 1 \in 0..MaxAccepted
        BY <1>0, <2>1, <2>2
      <3>2. sent' \in [Stores -> 0..MaxAccepted] /\ outbox' \in [Stores -> 0..MaxAccepted]
        BY <1>0, <2>1, <3>1 DEF TypeOK
      <3> QED
        BY <1>0, <2>1, <3>2 DEF TypeOK
    <2>4. \A q \in Stores : sent'[q] + outbox'[q] = sent[q] + outbox[q]
      BY <1>0, <2>1 DEF TypeOK
    <2> QED
      BY <1>0, <2>1, <2>3, <2>4, OtherStep
  <1>5. ASSUME NEW s \in Stores, Publish(s) PROVE BucketInv'
    <2>1. /\ outbox' = [outbox EXCEPT ![s] = outbox[s] - 1] /\ outbox[s] > 0
          /\ UNCHANGED <<now, tokens, last_refill, depths, next, sent, seen, accepted>>
      BY <1>5 DEF Publish
    <2>2. TypeOK'
      BY <1>0, <2>1, SMTT(60) DEF TypeOK
    <2>3. \A q \in Stores : sent'[q] + outbox'[q] <= sent[q] + outbox[q]
      <3>1. \A q \in Stores : sent'[q] = sent[q] /\ outbox'[q] \in {outbox[q], outbox[q] - 1}
        BY <2>1, <1>0 DEF TypeOK
      <3> QED
        BY <1>0, <3>1
    <2> QED
      BY <1>0, <2>1, <2>2, <2>3, OtherStep
  <1>6. CASE Tick
    <2>1. TypeOK'
      BY <1>0, <1>6 DEF Tick, TypeOK
    <2> QED
      BY <1>0, <1>6, <2>1, OtherStep DEF Tick
  <1>7. CASE UNCHANGED vars
    <2>1. TypeOK'
      BY <1>0, <1>7 DEF vars, TypeOK
    <2> QED
      BY <1>0, <1>7, <2>1, OtherStep DEF vars
  <1> QED
    BY <1>1, <1>2, <1>3, <1>4, <1>5, <1>6, <1>7 DEF Next, RejectBacklog

\* The account of every bucket always balances.
LEMMA BucketInvariant == Spec => []BucketInv
  BY BucketInit, BucketStep, PTL DEF Spec

\* A bucket never holds more than its burst and is never overdrawn.
THEOREM AdmissionTypeCorrect == Spec => []TypeOK
  <1>1. BucketInv => TypeOK
    BY DEF BucketInv
  <1> QED
    BY <1>1, BucketInvariant, PTL

\* throttle.rs never lets through more than the burst and the rate, over any interval.
THEOREM RateNeverExceeded == Spec => []RateIsBounded
  <1>1. BucketInv => RateIsBounded
    BY DEF BucketInv, RateOf, RateIsBounded
  <1> QED
    BY <1>1, BucketInvariant, PTL

\* A store that writes no faster than the rate is never throttled, whatever other
\* writes were refused in between.
THEOREM PacedNeverRefused == Spec => []PacedIsAllowed
  <1>1. BucketInv => PacedIsAllowed
    <2> SUFFICES ASSUME BucketInv, NEW s \in Stores, MaxWrites > 0, accepted[s] # <<>>,
                        (now - accepted[s][Len(accepted[s])]) * MaxWrites >= Window
                 PROVE  refilled(s) >= Window
      BY DEF PacedIsAllowed
    <2> DEFINE last == accepted[s][Len(accepted[s])]
    <2>1. last \in Int /\ now \in Int
      <3>1. last \in Int
        BY AcceptedFacts DEF BucketInv
      <3> QED
        BY <3>1, AdmissionConstants DEF BucketInv, TypeOK
    <2>2. refilled(s) = burst \/ refilled(s) >= MaxWrites * (now - last)
      BY RefillKeepsAccount DEF Growing
    <2>3. (now - last) * MaxWrites = MaxWrites * (now - last) /\ MaxWrites * (now - last) \in Int
      BY <2>1, RateAdds, AdmissionConstants
    <2>4. refilled(s) \in Int /\ Window \in Int /\ burst \in Int
      BY RefilledFacts, BurstFacts, AdmissionConstants DEF BucketInv
    <2> QED
      BY <2>2, <2>3, <2>4, BurstFacts
  <1> QED
    BY <1>1, BucketInvariant, PTL

=============================================================================
