----------------------- MODULE IssuanceLimiterProofs -----------------------
(***************************************************************************)
(* What is proved of IssuanceLimiter for any clients, quota, bound of the  *)
(* map, batch and resolution of the clock: evicting a client is invisible, *)
(* no client exceeds its quota, and the cleanup queue holds every client   *)
(* of the map exactly once.                                                *)
(***************************************************************************)
EXTENDS IssuanceLimiter, SequenceTheorems, FiniteSetTheorems,
        WellFoundedInduction, TLAPS

----
(* Arithmetic.                                                             *)

\* ceil_seconds never rounds down.
LEMMA CeilIsAbove == \A ticks \in Nat : Ceil(ticks) \in Nat /\ Ceil(ticks) >= ticks
<1> SUFFICES ASSUME NEW ticks \in Nat
             PROVE  Ceil(ticks) \in Nat /\ Ceil(ticks) >= ticks
  OBVIOUS
<1> DEFINE n == ticks + Second - 1
           q == n \div Second
<1>1. Second \in Nat /\ Second > 0 /\ n \in Nat
  BY LimiterAssumption
<1>2. q \in Nat /\ n = Second * q + (n % Second) /\ (n % Second) \in 0 .. Second - 1
  BY <1>1
<1>3. Ceil(ticks) = q * Second
  BY DEF Ceil
<1> HIDE DEF q
<1>4. q * Second = Second * q /\ q * Second \in Nat
  BY <1>1, <1>2
<1>5. QED
  BY <1>1, <1>2, <1>3, <1>4

\* A bucket that was full once takes at most the idle time to fill again.
LEMMA IdleCoversBurst ==
    /\ Interval * Burst \in Nat /\ Idle \in Nat /\ Interval * Burst <= Idle
    /\ (Burst - 1) * Interval + Interval = Interval * Burst
<1>1. Interval * Burst \in Nat /\ (Burst - 1) * Interval + Interval = Interval * Burst
  BY LimiterAssumption
<1>2. QED
  BY <1>1, CeilIsAbove DEF Idle

----
(* The loop of cleanup_batch.                                              *)

\* What the loop is at after every round.
Rounds(f, start, n) == f = [i \in 0..n |-> IF i = 0 THEN start ELSE Examine(f[i - 1])]

\* Every set of numbers has a least one: the finite subsets 0..k are well founded.
LEMMA LeastNumber ==
    \A S \in SUBSET Nat : S # {} => \E m \in S : \A k \in S : m <= k
  <1> SUFFICES ASSUME NEW S \in SUBSET Nat, S # {} PROVE \E m \in S : \A k \in S : m <= k
    OBVIOUS
  <1> DEFINE T == {0..k : k \in S}
             R == StrictSubsetOrdering(Nat)
  <1>1. T \subseteq FiniteSubsetsOf(Nat) /\ T # {}
    <2>1. ASSUME NEW k \in S PROVE IsFiniteSet(0..k) /\ 0..k \in SUBSET Nat
      BY FS_Interval
    <2> QED
      BY <2>1 DEF FiniteSubsetsOf
  <1>2. IsWellFoundedOn(R, FiniteSubsetsOf(Nat))
    BY FS_StrictSubsetOrderingWellFounded
  <1>3. \A k, m \in Nat : k < m => <<0..k, 0..m>> \in R
    <2> SUFFICES ASSUME NEW k \in Nat, NEW m \in Nat, k < m PROVE <<0..k, 0..m>> \in R
      OBVIOUS
    <2>1. 0..k \subseteq 0..m /\ m \in 0..m /\ m \notin 0..k
      OBVIOUS
    <2>2. 0..k # 0..m
      BY <2>1
    <2> QED
      BY <2>1, <2>2 DEF StrictSubsetOrdering
  <1> HIDE DEF R
  <1>4. PICK x \in T : \A y \in T : ~(<<y, x>> \in R)
    <2> HIDE DEF T
    <2> QED
      BY <1>1, <1>2, WFMin
  <1>5. PICK m \in S : x = 0..m
    BY <1>4
  <1>6. ASSUME NEW k \in S PROVE m <= k
    <2>1. 0..k \in T
      OBVIOUS
    <2>2. ~(<<0..k, 0..m>> \in R)
      BY <1>4, <1>5, <2>1
    <2>3. ~(k < m)
      BY <1>3, <2>2
    <2> QED
      BY <2>3
  <1> QED
    BY <1>5, <1>6

\* The loop is defined, however many rounds it has.
LEMMA LoopIsDefined ==
    ASSUME NEW start, NEW n \in Nat
    PROVE  \E f : Rounds(f, start, n)
  <1> DEFINE Bad == {k \in Nat : ~ \E f : Rounds(f, start, k)}
  <1>1. SUFFICES ASSUME Bad # {} PROVE FALSE
    OBVIOUS
  <1>2. PICK m \in Bad : \A k \in Bad : m <= k
    BY <1>1, LeastNumber
  <1>3. m # 0
    <2>1. Rounds([i \in 0..0 |-> start], start, 0)
      BY DEF Rounds
    <2> QED
      BY <2>1
  <1>4. m - 1 \in Nat /\ m - 1 \notin Bad
    BY <1>2, <1>3
  <1>5. PICK f : Rounds(f, start, m - 1)
    BY <1>4
  <1> DEFINE g == [i \in 0..m |-> IF i = m THEN Examine(f[m - 1]) ELSE f[i]]
  <1>6. Rounds(g, start, m)
    <2>1. ASSUME NEW i \in 0..m PROVE g[i] = IF i = 0 THEN start ELSE Examine(g[i - 1])
      <3>1. CASE i = m
        BY <1>3, <1>4, <3>1
      <3>2. CASE i # m /\ i = 0
        BY <1>5, <3>2 DEF Rounds
      <3>3. CASE i # m /\ i # 0
        <4>1. i \in 0..m-1 /\ i - 1 \in 0..m-1 /\ i-1 # m
          BY <3>3
        <4>2. f[i] = Examine(f[i - 1])
          BY <1>5, <3>3, <4>1 DEF Rounds
        <4> QED
          BY <3>3, <4>1, <4>2
      <3> QED
        BY <3>1, <3>2, <3>3
    <2> QED
      BY <2>1 DEF Rounds
  <1> QED
    BY <1>2, <1>6


\* cleanup_batch is what its loop is at after the last round.
LEMMA RemainingIsLoop ==
    ASSUME NEW map, NEW q, Len(q) \in Nat
    PROVE  \E n \in Nat : /\ n = IF CleanupBatch < Len(q) THEN CleanupBatch ELSE Len(q)
                         /\ \E f : /\ Rounds(f, [map |-> map, queue |-> q], n)
                                   /\ Remaining(map, q) = f[n]
  <1> DEFINE n == IF CleanupBatch < Len(q) THEN CleanupBatch ELSE Len(q)
             start == [map |-> map, queue |-> q]
             f == CHOOSE f : f = [i \in 0..n |-> IF i = 0 THEN start ELSE Examine(f[i - 1])]
  <1>1. n \in Nat
    BY LimiterAssumption
  <1>2. Remaining(map, q) = f[n]
    BY DEF Remaining
  <1>3. Rounds(f, start, n)
    <2> HIDE DEF n, start
    <2> QED
      BY <1>1, LoopIsDefined DEF Rounds
  <1>4. n = IF CleanupBatch < Len(q) THEN CleanupBatch ELSE Len(q)
    OBVIOUS
  <1> HIDE DEF f, n
  <1> QED
    BY <1>1, <1>2, <1>3, <1>4

----
(* The queue.                                                              *)

\* Every client of the map is queued once, and nobody else is.
Tidy(map, q) ==
    /\ q \in Seq(Clients)
    /\ ToSet(q) = DOMAIN map
    /\ \A i, j \in 1..Len(q) : q[i] = q[j] => i = j

\* What check starts from: a map without some clients that are idle.
Cleaned(map) ==
    /\ DOMAIN map \subseteq DOMAIN entries
    /\ \A c \in DOMAIN map : map[c] = entries[c]
    /\ \A c \in DOMAIN entries : c \notin DOMAIN map => IsIdle(entries, c)

\* A queue that is tidy is as long as the map is large.
LEMMA TidyCounts ==
    ASSUME NEW map, NEW q, Tidy(map, q)
    PROVE  /\ Len(q) \in Nat /\ IsFiniteSet(DOMAIN map)
           /\ Cardinality(DOMAIN map) = Len(q)
  <1>1. /\ Len(q) \in Nat /\ q \in [1..Len(q) -> Clients]
        /\ DOMAIN q = 1..Len(q)
    BY LenProperties DEF Tidy
  <1>2. q \in Bijection(1..Len(q), DOMAIN map)
    <2>1. DOMAIN map = {q[i] : i \in 1..Len(q)}
      BY <1>1 DEF Tidy, ToSet
    <2>2. q \in [1..Len(q) -> DOMAIN map]
      BY <1>1, <2>1
    <2> QED
      BY <2>1, <2>2 DEF Tidy, Bijection, Injection, Surjection, IsInjective
  <1>3. ExistsBijection(1..Len(q), DOMAIN map)
    BY <1>2 DEF ExistsBijection
  <1> QED
    BY <1>1, <1>3, FS_CountingElements, FS_NatBijection

\* The rest of a tidy queue holds the other clients.
LEMMA TidyTail ==
    ASSUME NEW map, NEW q, Tidy(map, q), q # <<>>
    PROVE  /\ Head(q) \in Clients /\ Head(q) \in DOMAIN map
           /\ Tail(q) \in Seq(Clients)
           /\ ToSet(Tail(q)) = DOMAIN map \ {Head(q)}
           /\ \A i, j \in 1..Len(Tail(q)) : Tail(q)[i] = Tail(q)[j] => i = j
  <1>1. /\ q \in Seq(Clients) /\ Len(q) \in Nat \ {0} /\ DOMAIN q = 1..Len(q)
        /\ Head(q) = q[1] /\ q[1] \in Clients
    BY EmptySeq, LenProperties, ElementOfSeq DEF Tidy
  <1>2. /\ Tail(q) \in Seq(Clients) /\ Len(Tail(q)) = Len(q) - 1
        /\ DOMAIN Tail(q) = 1..Len(q) - 1
        /\ \A i \in 1..Len(q) - 1 : Tail(q)[i] = q[i + 1]
    BY <1>1, HeadTailProperties, LenProperties
  <1>3. DOMAIN map = {q[i] : i \in 1..Len(q)} /\ \A i, j \in 1..Len(q) : q[i] = q[j] => i = j
    BY <1>1 DEF Tidy, ToSet
  <1>4. \A i \in 1..Len(q) - 1 : i + 1 \in 1..Len(q) /\ i + 1 # 1
    BY <1>1
  <1>5. ASSUME NEW d \in DOMAIN map \ {Head(q)} PROVE d \in ToSet(Tail(q))
    <2>1. PICK i \in 1..Len(q) : d = q[i]
      BY <1>3
    <2>2. i - 1 \in 1..Len(q) - 1 /\ d = Tail(q)[i - 1]
      BY <1>1, <1>2, <1>5, <2>1
    <2> QED
      BY <1>2, <2>2 DEF ToSet
  <1>6. ASSUME NEW d \in ToSet(Tail(q)) PROVE d \in DOMAIN map \ {Head(q)}
    <2>1. PICK i \in 1..Len(q) - 1 : d = q[i + 1]
      BY <1>2 DEF ToSet
    <2> QED
      BY <1>1, <1>3, <1>4, <2>1
  <1>7. ASSUME NEW i \in 1..Len(Tail(q)), NEW j \in 1..Len(Tail(q)), Tail(q)[i] = Tail(q)[j]
        PROVE  i = j
    BY <1>1, <1>2, <1>3, <1>4, <1>7
  <1> QED
    BY <1>1, <1>2, <1>3, <1>5, <1>6, <1>7

\* A client that joins the end of a queue that does not hold it.
LEMMA TidyAppend ==
    ASSUME NEW q \in Seq(Clients), NEW c \in Clients, c \notin ToSet(q),
           \A i, j \in 1..Len(q) : q[i] = q[j] => i = j
    PROVE  /\ Append(q, c) \in Seq(Clients)
           /\ ToSet(Append(q, c)) = ToSet(q) \cup {c}
           /\ \A i, j \in 1..Len(Append(q, c)) :
                 Append(q, c)[i] = Append(q, c)[j] => i = j
  <1> DEFINE s == Append(q, c)
  <1>1. /\ s \in Seq(Clients) /\ Len(s) = Len(q) + 1 /\ s[Len(q) + 1] = c
        /\ \A i \in 1..Len(q) : s[i] = q[i]
    BY AppendProperties
  <1>2. Len(q) \in Nat /\ DOMAIN q = 1..Len(q)
    BY LenProperties
  <1>3. DOMAIN s = 1..Len(q) + 1
    BY <1>1, LenProperties
  <1> HIDE DEF s
  <1>4. \A i \in 1..Len(q) + 1 : i \in 1..Len(q) \/ i = Len(q) + 1
    BY <1>2
  <1>5. \A i \in 1..Len(q) : q[i] # c
    BY <1>2 DEF ToSet
  <1>6. ToSet(s) = ToSet(q) \cup {c}
    BY <1>1, <1>2, <1>3, <1>4 DEF ToSet
  <1>7. \A i, j \in 1..Len(q) + 1 : s[i] = s[j] => i = j
    BY <1>1, <1>4, <1>5
  <1> QED
    BY <1>1, <1>6, <1>7 DEF s

\* One round of the loop forgets only a client that is idle, and keeps the queue.
LEMMA ExamineKeeps ==
    ASSUME NEW s, Cleaned(s.map), Tidy(s.map, s.queue)
    PROVE  Cleaned(Examine(s).map) /\ Tidy(Examine(s).map, Examine(s).queue)
  <1> DEFINE key == Head(s.queue)
             rest == Tail(s.queue)
  <1>1. CASE s.queue = <<>>
    BY <1>1 DEF Examine
  <1>2. CASE s.queue # <<>>
    <2>1. /\ key \in Clients /\ key \in DOMAIN s.map /\ rest \in Seq(Clients)
          /\ ToSet(rest) = DOMAIN s.map \ {key}
          /\ \A i, j \in 1..Len(rest) : rest[i] = rest[j] => i = j
      BY <1>2, TidyTail
    <2>2. CASE IsIdle(s.map, key)
      <3> DEFINE map == [d \in DOMAIN s.map \ {key} |-> s.map[d]]
      <3>1. Examine(s) = [map |-> map, queue |-> rest]
        BY <1>2, <2>1, <2>2 DEF Examine
      <3>2. Cleaned(map)
        BY <2>1, <2>2 DEF Cleaned, IsIdle
      <3>3. Tidy(map, rest)
        BY <2>1 DEF Tidy
      <3> QED
        BY <3>1, <3>2, <3>3
    <2>3. CASE ~IsIdle(s.map, key)
      <3>1. Examine(s) = [map |-> s.map, queue |-> Append(rest, key)]
        BY <1>2, <2>3 DEF Examine
      <3>2. Tidy(s.map, Append(rest, key))
        <4> HIDE DEF key, rest
        <4>1. key \notin ToSet(rest) /\ ToSet(rest) \cup {key} = DOMAIN s.map
          BY <2>1
        <4> QED
          BY <2>1, <4>1, TidyAppend DEF Tidy
      <3> QED
        BY <3>1, <3>2
    <2> QED
      BY <2>2, <2>3
  <1> QED
    BY <1>1, <1>2

\* So does the whole of cleanup_batch: a first round that did not would follow
\* one that did.
LEMMA RemainingKeeps ==
    ASSUME Tidy(entries, queue)
    PROVE  /\ Cleaned(Remaining(entries, queue).map)
           /\ Tidy(Remaining(entries, queue).map, Remaining(entries, queue).queue)
  <1> DEFINE start == [map |-> entries, queue |-> queue]
  <1>0. PICK n \in Nat : \E f : Rounds(f, start, n) /\ Remaining(entries, queue) = f[n]
    BY TidyCounts, RemainingIsLoop
  <1>1. PICK f : Rounds(f, start, n) /\ Remaining(entries, queue) = f[n]
    BY <1>0
  <1> DEFINE Good(i) == Cleaned(f[i].map) /\ Tidy(f[i].map, f[i].queue)
             Bad == {i \in 0..n : ~Good(i)}
  <1>2. SUFFICES ASSUME Bad # {} PROVE FALSE
    BY <1>1
  <1>3. PICK m \in Bad : \A k \in Bad : m <= k
    <2>1. Bad \in SUBSET Nat
      OBVIOUS
    <2> HIDE DEF Bad
    <2> QED
      BY <1>2, <2>1, LeastNumber
  <1>4. m \in 0..n /\ ~Good(m)
    BY <1>3
  <1>5. m # 0
    <2>1. f[0] = start
      BY <1>1 DEF Rounds
    <2>2. Cleaned(entries)
      BY DEF Cleaned
    <2> QED
      BY <1>4, <2>1, <2>2
  <1>6. m - 1 \in 0..n /\ m - 1 \notin Bad
    BY <1>3, <1>4, <1>5
  <1>7. Good(m - 1)
    BY <1>6
  <1>8. f[m] = Examine(f[m - 1])
    BY <1>1, <1>4, <1>5 DEF Rounds
  <1> QED
    BY <1>4, <1>7, <1>8, ExamineKeeps

----
(* The inductive invariant.                                                *)

\* A remembered limiter was used at `lastUsed`, and is full at most one drained
\* bucket later; it holds what it would hold had it never been forgotten.
Kept(c) ==
    /\ entries[c] \in Entry
    /\ entries[c].lastUsed <= clock
    /\ entries[c].full <= entries[c].lastUsed + Interval * Burst

IInv ==
    /\ clock \in Nat
    /\ due \in [Clients -> Nat]
    /\ DOMAIN entries \subseteq Clients
    /\ \A c \in DOMAIN entries : Kept(c)
    /\ EvictionIsInvisible

\* A client that is forgotten has a full bucket.
LEMMA IdleIsFull ==
    ASSUME IInv, NEW c \in DOMAIN entries, IsIdle(entries, c)
    PROVE  due[c] <= clock
<1>1. c \in Clients /\ Kept(c) /\ due[c] \in Nat /\ clock \in Nat
  BY DEF IInv
<1>2. entries[c].full \in Nat /\ entries[c].lastUsed \in Nat
  BY <1>1 DEF Kept, Entry
<1>3. entries[c].full <= clock
  BY <1>1, <1>2, IdleCoversBurst DEF Kept, IsIdle
<1>4. Later(entries[c].full, clock) = Later(due[c], clock)
  BY <1>1 DEF IInv, EvictionIsInvisible
<1>5. QED
  BY <1>1, <1>2, <1>3, <1>4 DEF Later

\* What a cleaned map means for every client.
LEMMA CleanedKeeps ==
    ASSUME IInv, NEW map, Cleaned(map)
    PROVE  \A c \in Clients :
               IF c \in DOMAIN map
               THEN Kept(c) /\ Later(map[c].full, clock) = Later(due[c], clock)
               ELSE due[c] <= clock
<1> SUFFICES ASSUME NEW c \in Clients
             PROVE  IF c \in DOMAIN map
                    THEN Kept(c) /\ Later(map[c].full, clock) = Later(due[c], clock)
                    ELSE due[c] <= clock
  OBVIOUS
<1>1. CASE c \in DOMAIN map
  BY <1>1 DEF IInv, Cleaned, EvictionIsInvisible
<1>2. CASE c \in DOMAIN entries /\ c \notin DOMAIN map
  BY <1>2, IdleIsFull DEF Cleaned
<1>3. CASE c \notin DOMAIN entries
  BY <1>3 DEF IInv, Cleaned, EvictionIsInvisible
<1>4. QED
  BY <1>1, <1>2, <1>3

----
(* The steps.                                                              *)

\* The state of a client that check has decided about; a fresh limiter is full.
LEMMA DecideKeeps ==
    ASSUME IInv, NEW c \in Clients, NEW map, c \in DOMAIN map,
           DOMAIN map \subseteq Clients,
           map[c] \in Entry, map[c].lastUsed <= clock,
           map[c].full <= map[c].lastUsed + Interval * Burst,
           Later(map[c].full, clock) = Later(due[c], clock),
           \A d \in Clients \ {c} :
               IF d \in DOMAIN map
               THEN d \in DOMAIN entries /\ map[d] = entries[d]
               ELSE due[d] <= clock,
           Decide(c, map), clock' = clock
    PROVE  IInv'
<1> DEFINE old == map[c].full
           new == [full |-> IF Admits(old) THEN Charged(old) ELSE old, lastUsed |-> clock]
<1>1. entries' = [map EXCEPT ![c] = new]
      /\ due' = IF Admits(old) THEN [due EXCEPT ![c] = Charged(@)] ELSE due
  BY DEF Decide
<1>2. /\ clock \in Nat /\ due[c] \in Nat /\ due \in [Clients -> Nat]
      /\ old \in Nat /\ map[c].lastUsed \in Nat
      /\ Interval \in Nat /\ Burst \in Nat
  BY LimiterAssumption DEF IInv, Entry
<1>3. Charged(old) \in Nat /\ Charged(due[c]) \in Nat /\ Charged(old) = Charged(due[c])
  BY <1>2 DEF Charged, Later
<1>4. Admits(old) => Charged(old) <= clock + Interval * Burst
  <2>1. (Burst - 1) * Interval \in Nat /\ Interval > 0
    BY LimiterAssumption
  <2>2. QED
    BY <1>2, <2>1, IdleCoversBurst DEF Admits, Charged, Later
<1>5. /\ new \in Entry /\ new.lastUsed = clock
      /\ new.full <= clock + Interval * Burst
      /\ new.full = IF Admits(old) THEN Charged(old) ELSE old
  BY <1>2, <1>3, <1>4, IdleCoversBurst DEF Entry
<1>6. due' \in [Clients -> Nat] /\ \A d \in Clients \ {c} : due'[d] = due[d]
  BY <1>1, <1>2, <1>3
<1>7. due'[c] = IF Admits(old) THEN Charged(due[c]) ELSE due[c]
  BY <1>1, <1>2
<1>8. Later(new.full, clock) = Later(due'[c], clock)
  BY <1>3, <1>5, <1>7
<1> HIDE DEF new
<1>9. DOMAIN entries' = DOMAIN map /\ entries'[c] = new
      /\ \A d \in DOMAIN map : d # c => entries'[d] = map[d]
  BY <1>1
<1>10. \A d \in DOMAIN entries' : Kept(d)'
  BY <1>5, <1>9 DEF IInv, Kept
<1>11. EvictionIsInvisible'
  BY <1>6, <1>8, <1>9 DEF IInv, EvictionIsInvisible
<1>12. QED
  BY <1>6, <1>9, <1>10, <1>11 DEF IInv

\* A client that is remembered asks.
LEMMA CheckKnownKeeps ==
    ASSUME IInv, NEW c \in Clients, CheckKnown(c)
    PROVE  IInv'
<1>1. /\ c \in DOMAIN entries /\ Kept(c) /\ DOMAIN entries \subseteq Clients
      /\ Later(entries[c].full, clock) = Later(due[c], clock)
  BY DEF CheckKnown, IInv, EvictionIsInvisible
<1>2. \A d \in Clients \ {c} :
          IF d \in DOMAIN entries THEN d \in DOMAIN entries /\ entries[d] = entries[d]
          ELSE due[d] <= clock
  BY DEF IInv, EvictionIsInvisible
<1>3. Decide(c, entries) /\ clock' = clock
  BY DEF CheckKnown
<1>4. QED
  BY <1>1, <1>2, <1>3, DecideKeeps DEF Kept

\* A cleaned map takes the place of the map.
LEMMA ReplaceKeeps ==
    ASSUME IInv, NEW map, Cleaned(map), entries' = map, clock' = clock, due' = due
    PROVE  IInv'
<1>1. \A c \in DOMAIN entries' : Kept(c)'
  BY DEF IInv, Cleaned, Kept
<1>2. EvictionIsInvisible'
  BY CleanedKeeps DEF EvictionIsInvisible
<1>3. QED
  BY <1>1, <1>2 DEF IInv, Cleaned

\* A new client asks.
LEMMA CheckNewKeeps ==
    ASSUME IInv, Tidy(entries, queue), NEW c \in Clients, CheckNew(c)
    PROVE  IInv'
<1> DEFINE cleaned == IF Cardinality(DOMAIN entries) >= Maximum
                      THEN Remaining(entries, queue)
                      ELSE [map |-> entries, queue |-> queue]
<1>1. Cleaned(cleaned.map)
  <2>1. Cleaned(entries)
    BY DEF Cleaned
  <2>2. QED
    BY <2>1, RemainingKeeps
<1>2. /\ c \notin DOMAIN entries /\ clock' = clock
      /\ \/ entries' = cleaned.map /\ due' = due
         \/ Decide(c, Inserted(cleaned.map, c))
  BY DEF CheckNew
<1> DEFINE base == cleaned.map
<1>3. /\ Cleaned(base)
      /\ \/ entries' = base /\ due' = due
         \/ Decide(c, Inserted(base, c))
  BY <1>1, <1>2
<1> HIDE DEF base
<1>4. CASE entries' = base /\ due' = due
  BY <1>2, <1>3, <1>4, ReplaceKeeps
<1>5. CASE Decide(c, Inserted(base, c))
  <2> DEFINE map == Inserted(base, c)
  <2>1. /\ DOMAIN map = DOMAIN base \cup {c}
        /\ map[c] = [full |-> clock, lastUsed |-> clock]
        /\ \A d \in DOMAIN base : map[d] = base[d]
    BY <1>2, <1>3 DEF Cleaned, Inserted
  <2>2. clock \in Nat /\ due[c] \in Nat /\ due[c] <= clock
    BY <1>2 DEF IInv, EvictionIsInvisible
  <2>3. map[c] \in Entry /\ map[c].lastUsed = clock /\ map[c].full = clock
    BY <2>1, <2>2 DEF Entry
  <2>4. map[c].full <= map[c].lastUsed + Interval * Burst
    BY <2>2, <2>3, IdleCoversBurst
  <2>5. Later(map[c].full, clock) = Later(due[c], clock)
    BY <2>2, <2>3 DEF Later
  <2>6. \A d \in Clients \ {c} :
            IF d \in DOMAIN map THEN d \in DOMAIN entries /\ map[d] = entries[d]
            ELSE due[d] <= clock
    BY <1>3, <2>1, CleanedKeeps DEF Cleaned
  <2>7. DOMAIN map \subseteq Clients /\ c \in DOMAIN map
    BY <1>3, <2>1 DEF Cleaned, IInv
  <2>8. Decide(c, map) /\ clock' = clock
    BY <1>2, <1>5
  <2> HIDE DEF map
  <2>9. QED
    BY <2>2, <2>3, <2>4, <2>5, <2>6, <2>7, <2>8, DecideKeeps
<1>6. QED
  BY <1>3, <1>4, <1>5

\* The clock moves: what was full stays full.
LEMMA TickKeeps ==
    ASSUME IInv, Tick
    PROVE  IInv'
<1>1. clock \in Nat /\ clock' = clock + 1 /\ entries' = entries /\ due' = due
  BY DEF IInv, Tick
<1>2. \A c \in DOMAIN entries' : Kept(c)'
  BY <1>1 DEF IInv, Kept, Entry
<1>3. EvictionIsInvisible'
  <2> SUFFICES ASSUME NEW c \in Clients
               PROVE  IF c \in DOMAIN entries
                      THEN Later(entries[c].full, clock + 1) = Later(due[c], clock + 1)
                      ELSE due[c] <= clock + 1
    BY <1>1 DEF EvictionIsInvisible
  <2>1. due[c] \in Nat
    BY DEF IInv
  <2>2. CASE c \in DOMAIN entries
    <3>1. entries[c].full \in Nat /\ Later(entries[c].full, clock) = Later(due[c], clock)
      BY <2>2 DEF IInv, Kept, Entry, EvictionIsInvisible
    <3>2. QED
      BY <1>1, <2>1, <2>2, <3>1 DEF Later
  <2>3. CASE c \notin DOMAIN entries
    BY <1>1, <2>1, <2>3 DEF IInv, EvictionIsInvisible
  <2>4. QED
    BY <2>2, <2>3
<1>4. QED
  BY <1>1, <1>2, <1>3 DEF IInv

\* Init: nobody is remembered and every bucket is full.
LEMMA InitHolds == Init => IInv
<1> SUFFICES ASSUME Init PROVE IInv
  OBVIOUS
<1>1. DOMAIN entries = {}
  BY DEF Init
<1>2. QED
  BY <1>1 DEF Init, IInv, EvictionIsInvisible

\* The queue is tidy, and the map within its bound.
QueueInv == Tidy(entries, queue) /\ Len(queue) <= Maximum

\* cleanup_batch alone leaves no more clients than it found.
LEMMA CleaningShrinks ==
    ASSUME QueueInv
    PROVE  /\ Len(Remaining(entries, queue).queue) \in Nat
           /\ Len(Remaining(entries, queue).queue) <= Maximum
  <1> DEFINE map == Remaining(entries, queue).map
             q == Remaining(entries, queue).queue
  <1>1. Cleaned(map) /\ Tidy(map, q)
    BY RemainingKeeps DEF QueueInv
  <1> HIDE DEF map, q
  <1>2. Len(q) \in Nat /\ Cardinality(DOMAIN map) = Len(q)
    BY <1>1, TidyCounts
  <1>3. /\ Len(queue) \in Nat /\ IsFiniteSet(DOMAIN entries)
        /\ Cardinality(DOMAIN entries) = Len(queue)
    BY TidyCounts DEF QueueInv
  <1>4. Cardinality(DOMAIN map) <= Cardinality(DOMAIN entries)
    BY <1>1, <1>3, FS_Subset DEF Cleaned
  <1> QED
    BY <1>2, <1>3, <1>4, LimiterAssumption DEF QueueInv, map, q

\* A new client joins the end of the queue only when there is room for it.
LEMMA CheckNewQueues ==
    ASSUME QueueInv, NEW c \in Clients, CheckNew(c)
    PROVE  QueueInv'
  <1> DEFINE cleaned == IF Cardinality(DOMAIN entries) >= Maximum
                        THEN Remaining(entries, queue)
                        ELSE [map |-> entries, queue |-> queue]
             map == cleaned.map
             q == cleaned.queue
  <1>1. Cleaned(map) /\ Tidy(map, q) /\ Len(q) <= Maximum
    <2>1. Cleaned(entries) /\ Tidy(entries, queue) /\ Len(queue) <= Maximum
      BY DEF Cleaned, QueueInv
    <2> QED
      BY <2>1, RemainingKeeps, CleaningShrinks
  <1>2. /\ c \notin DOMAIN entries
        /\ \/ entries' = map /\ queue' = q
           \/ /\ ~(Cardinality(DOMAIN map) >= Maximum)
              /\ Decide(c, Inserted(map, c)) /\ queue' = Append(q, c)
    BY DEF CheckNew
  <1> HIDE DEF map, q
  <1>3. CASE entries' = map /\ queue' = q
    BY <1>1, <1>3 DEF QueueInv
  <1>4. CASE /\ ~(Cardinality(DOMAIN map) >= Maximum)
             /\ Decide(c, Inserted(map, c)) /\ queue' = Append(q, c)
    <2>1. DOMAIN entries' = DOMAIN map \cup {c}
      BY <1>4 DEF Decide, Inserted
    <2>2. q \in Seq(Clients) /\ c \notin ToSet(q)
      BY <1>1, <1>2 DEF Tidy, Cleaned
    <2>3. Tidy(entries', queue')
      BY <1>1, <1>4, <2>1, <2>2, TidyAppend DEF Tidy
    <2>4. Len(q) \in Nat /\ Len(q) < Maximum
      BY <1>1, <1>4, TidyCounts, LimiterAssumption
    <2>5. Len(queue') = Len(q) + 1
      BY <1>4, <2>2, AppendProperties
    <2> QED
      BY <2>3, <2>4, <2>5, LimiterAssumption DEF QueueInv
  <1> QED
    BY <1>2, <1>3, <1>4

\* Every step keeps the queue tidy.
LEMMA NextQueues == QueueInv /\ [Next]_vars => QueueInv'
<1> SUFFICES ASSUME QueueInv, [Next]_vars PROVE QueueInv'
  OBVIOUS
<1>1. ASSUME NEW c \in Clients, CheckKnown(c) PROVE QueueInv'
  <2>1. DOMAIN entries' = DOMAIN entries /\ UNCHANGED queue
    BY <1>1 DEF CheckKnown, Decide
  <2>2. QED
    BY <2>1 DEF QueueInv, Tidy
<1>2. CASE Cleanup
  BY <1>2, RemainingKeeps, CleaningShrinks DEF Cleanup, QueueInv
<1>3. CASE Tick \/ UNCHANGED vars
  BY <1>3 DEF Tick, vars, QueueInv, Tidy
<1>4. QED
  BY <1>1, <1>2, <1>3, CheckNewQueues DEF Next

\* Every step keeps the invariant.
LEMMA NextKeeps == IInv /\ QueueInv /\ [Next]_vars => IInv'
<1> SUFFICES ASSUME IInv, QueueInv, [Next]_vars PROVE IInv'
  OBVIOUS
<1>1. ASSUME NEW c \in Clients, CheckKnown(c) \/ CheckNew(c) PROVE IInv'
  BY <1>1, CheckKnownKeeps, CheckNewKeeps DEF QueueInv
<1>2. CASE Cleanup
  BY <1>2, RemainingKeeps, ReplaceKeeps DEF Cleanup, QueueInv
<1>3. CASE Tick
  BY <1>3, TickKeeps
<1>4. CASE UNCHANGED vars
  BY <1>4 DEF vars, IInv, Kept, EvictionIsInvisible
<1>5. QED
  BY <1>1, <1>2, <1>3, <1>4 DEF Next

----
(* The quota.                                                              *)

\* The time a number of requests takes to replenish.
Cost(n) == n * Interval

\* One request more costs one interval more.
LEMMA OneMore ==
    ASSUME NEW n \in Int
    PROVE  Cost(n) \in Int /\ Cost(n + 1) = Cost(n) + Interval
  BY LimiterAssumption DEF Cost

\* What a request and a burst cost.
LEMMA BurstCosts ==
    /\ Cost(1) = Interval /\ Interval \in Nat
    /\ Cost(Burst - 1) \in Nat /\ Cost(Burst) \in Nat
    /\ Cost(Burst) = Cost(Burst - 1) + Interval
<1>1. Interval \in Nat /\ Burst - 1 \in Nat /\ (Burst - 1) + 1 = Burst
  BY LimiterAssumption
<1>2. Cost(1) = Interval
  BY <1>1 DEF Cost
<1>3. ASSUME NEW n \in Nat PROVE Cost(n) \in Nat
  BY <1>1 DEF Cost
<1>4. Burst \in Nat
  BY LimiterAssumption
<1>5. Cost(Burst - 1) \in Nat /\ Cost(Burst) \in Nat
  BY <1>1, <1>3, <1>4
<1>6. Cost((Burst - 1) + 1) = Cost(Burst - 1) + Interval
  BY <1>1, OneMore
<1>7. QED
  BY <1>1, <1>2, <1>5, <1>6

\* A request of c is admitted: what an unforgotten limiter would hold admits it too.
Granted(c) ==
    /\ due[c] <= clock + Cost(Burst - 1)
    /\ due' = [due EXCEPT ![c] = Charged(@)]
    /\ admitted' = [admitted EXCEPT ![c] = Append(@, clock)]
    /\ clock' = clock

Quiet == due' = due /\ admitted' = admitted /\ clock' \in Nat /\ clock' >= clock

\* A decision grants or changes nothing that the quota is about.
LEMMA DecideGrants ==
    ASSUME IInv, NEW c \in Clients, NEW map, map[c].full \in Nat,
           Later(map[c].full, clock) = Later(due[c], clock),
           Decide(c, map), clock' = clock
    PROVE  Granted(c) \/ Quiet
<1>1. clock \in Nat /\ due[c] \in Nat /\ Cost(Burst - 1) \in Nat
  BY BurstCosts DEF IInv
<1>2. CASE Admits(map[c].full)
  <2>0. map[c].full <= clock + Cost(Burst - 1)
    BY <1>2 DEF Admits, Cost
  <2>1. due[c] <= clock + Cost(Burst - 1)
    BY <1>1, <2>0 DEF Later
  <2>2. Charged(map[c].full) = Charged(due[c])
    BY DEF Charged
  <2>3. QED
    BY <1>2, <2>1, <2>2 DEF Decide, Granted
<1>3. CASE ~Admits(map[c].full)
  BY <1>1, <1>3 DEF Decide, Quiet
<1>4. QED
  BY <1>2, <1>3

\* Every step grants a request of some client or none.
LEMMA NextGrants ==
    ASSUME IInv, [Next]_vars
    PROVE  (\E c \in Clients : Granted(c)) \/ Quiet
<1>0. clock \in Nat
  BY DEF IInv
<1>1. ASSUME NEW c \in Clients, CheckKnown(c) PROVE Granted(c) \/ Quiet
  <2>1. Kept(c) /\ Later(entries[c].full, clock) = Later(due[c], clock)
    BY <1>1 DEF CheckKnown, IInv, EvictionIsInvisible
  <2>2. QED
    BY <1>1, <2>1, DecideGrants DEF CheckKnown, Kept, Entry
<1>2. ASSUME NEW c \in Clients, CheckNew(c) PROVE Granted(c) \/ Quiet
  <2>1. PICK map : \/ Decide(c, Inserted(map, c)) /\ clock' = clock
                   \/ UNCHANGED <<due, admitted, clock>>
    BY <1>2 DEF CheckNew
  <2>2. CASE Decide(c, Inserted(map, c)) /\ clock' = clock
    <3>1. Inserted(map, c)[c].full = clock
      BY DEF Inserted
    <3>2. due[c] \in Nat /\ due[c] <= clock
      BY <1>2 DEF CheckNew, IInv, EvictionIsInvisible
    <3>3. Later(clock, clock) = Later(due[c], clock)
      BY <1>0, <3>2 DEF Later
    <3>4. QED
      BY <1>0, <2>2, <3>1, <3>3, DecideGrants
  <2>3. CASE UNCHANGED <<due, admitted, clock>>
    BY <1>0, <2>3 DEF Quiet
  <2>4. QED
    BY <2>1, <2>2, <2>3
<1>3. CASE Cleanup \/ Tick \/ UNCHANGED vars
  BY <1>0, <1>3 DEF Cleanup, Tick, vars, Quiet
<1>4. QED
  BY <1>1, <1>2, <1>3 DEF Next

\* A bucket is full again no sooner than one interval for every request it
\* admitted since any of them.
Paid(c) ==
    \A i \in 1..Len(admitted[c]) :
        /\ admitted[c][i] <= clock
        /\ admitted[c][i] + Cost(Len(admitted[c]) - i + 1) <= due[c]

\* The quota is kept from one admitted request of c to another.
Fair(c) ==
    \A i, j \in 1..Len(admitted[c]) :
        i <= j => Cost(j - i + 1) <= Cost(Burst) + (admitted[c][j] - admitted[c][i])

QuotaInv ==
    /\ admitted \in [Clients -> Seq(Nat)]
    /\ \A c \in Clients : Paid(c) /\ Fair(c)

\* A granted request keeps the quota.
LEMMA GrantedKeeps ==
    ASSUME IInv, QuotaInv, NEW c \in Clients, Granted(c)
    PROVE  QuotaInv'
<1> DEFINE s == admitted[c]
           t == admitted'[c]
           n == Len(s)
<1>1. /\ s \in Seq(Nat) /\ n \in Nat /\ clock \in Nat /\ due[c] \in Nat
      /\ Interval \in Nat /\ \A i \in 1..n : s[i] \in Nat
  BY LenProperties, ElementOfSeq, LimiterAssumption DEF IInv, QuotaInv
<1>2. /\ t = Append(s, clock) /\ clock' = clock
      /\ due'[c] = Charged(due[c])
      /\ \A d \in Clients \ {c} : admitted'[d] = admitted[d] /\ due'[d] = due[d]
  BY DEF Granted, QuotaInv, IInv
<1>3. /\ t \in Seq(Nat) /\ Len(t) = n + 1 /\ t[n + 1] = clock
      /\ \A i \in 1..n : t[i] = s[i]
  BY <1>1, <1>2, AppendProperties
<1>4. /\ due'[c] \in Nat /\ due'[c] >= due[c] + Interval /\ due'[c] >= clock + Interval
      /\ due[c] <= clock + Cost(Burst - 1)
  BY <1>1, <1>2 DEF Charged, Later, Granted
<1>5. /\ \A i \in 1..n : s[i] <= clock /\ s[i] + Cost(n - i + 1) <= due[c]
      /\ \A i, j \in 1..n : i <= j => Cost(j - i + 1) <= Cost(Burst) + (s[j] - s[i])
  BY DEF QuotaInv, Paid, Fair
<1> HIDE DEF s, t, n
<1>6. ASSUME NEW i \in 1..n
      PROVE  /\ t[i] = s[i] /\ s[i] \in Nat /\ s[i] <= clock
             /\ Cost((n + 1) - i + 1) = Cost(n - i + 1) + Interval
             /\ Cost(n - i + 1) \in Int /\ Cost((n + 1) - i + 1) \in Int
             /\ s[i] + Cost(n - i + 1) <= due[c]
  <2>1. n - i + 1 \in Int /\ (n + 1) - i + 1 = (n - i + 1) + 1 /\ (n + 1) - i + 1 \in Int
    BY <1>1
  <2>2. Cost(n - i + 1) \in Int /\ Cost((n - i + 1) + 1) = Cost(n - i + 1) + Interval
    BY <2>1, OneMore
  <2>3. Cost((n + 1) - i + 1) \in Int
    BY <2>1, OneMore
  <2>4. Cost((n + 1) - i + 1) = Cost((n - i + 1) + 1)
    BY <2>1
  <2>5. t[i] = s[i] /\ s[i] \in Nat /\ s[i] <= clock /\ s[i] + Cost(n - i + 1) <= due[c]
    BY <1>1, <1>3, <1>5
  <2>6. QED
    BY <2>2, <2>3, <2>4, <2>5
<1>7. /\ \A i \in 1..n + 1 : i \in 1..n \/ i = n + 1
      /\ (n + 1) - (n + 1) + 1 = 1
  BY <1>1
<1> DEFINE now == clock
           full == due[c]
           next == due'[c]
           b == Cost(Burst)
           x == Cost(Burst - 1)
<1>a. /\ n \in Nat /\ now \in Nat /\ full \in Nat /\ next \in Nat /\ Interval \in Nat
      /\ next >= full + Interval /\ next >= now + Interval /\ full <= now + x
      /\ x \in Nat /\ b \in Nat /\ b = x + Interval
  BY <1>1, <1>4, BurstCosts
<1> HIDE DEF now, full, next, b, x
<1>8. ASSUME NEW i \in 1..n + 1
      PROVE  t[i] <= now /\ t[i] + Cost((n + 1) - i + 1) <= next
  <2> DEFINE r == Cost((n + 1) - i + 1)
             ti == t[i]
  <2>1. CASE i \in 1..n
    <3> DEFINE p == Cost(n - i + 1)
    <3>1. /\ ti \in Nat /\ ti <= now /\ r = p + Interval /\ p \in Int /\ ti + p <= full
      BY <1>6, <2>1 DEF now, full
    <3> HIDE DEF p, r, ti
    <3>2. ti <= now /\ ti + r <= next
      BY <1>a, <3>1
    <3>3. QED
      BY <3>2 DEF r, ti
  <2>2. CASE i = n + 1
    <3>1. (n + 1) - i + 1 = 1 /\ ti = now
      BY <1>3, <1>7, <2>2 DEF now
    <3>2. r = Interval
      BY <3>1, BurstCosts
    <3> HIDE DEF r, ti
    <3>3. ti <= now /\ ti + r <= next
      BY <1>a, <3>1, <3>2
    <3>4. QED
      BY <3>3 DEF r, ti
  <2>3. QED
    BY <1>7, <2>1, <2>2
<1>9. ASSUME NEW i \in 1..n + 1, NEW j \in 1..n + 1, i <= j
      PROVE  Cost(j - i + 1) <= b + (t[j] - t[i])
  <2> DEFINE r == Cost(j - i + 1)
             ti == t[i]
             tj == t[j]
  <2>1. CASE i \in 1..n /\ j \in 1..n
    BY <1>3, <1>5, <1>9, <2>1 DEF b
  <2>2. CASE i \in 1..n /\ j = n + 1
    <3> DEFINE p == Cost(n - i + 1)
    <3>1. ti \in Nat /\ p \in Int /\ ti + p <= full /\ Cost((n + 1) - i + 1) = p + Interval
      BY <1>6, <2>2 DEF full
    <3>2. r = p + Interval /\ tj = now
      BY <1>a, <1>3, <2>2, <3>1 DEF now
    <3> HIDE DEF p, r, ti, tj
    <3>3. r <= b + (tj - ti)
      BY <1>a, <3>1, <3>2
    <3>4. QED
      BY <3>3 DEF r, ti, tj
  <2>3. CASE i = n + 1 /\ j = n + 1
    <3>1. j - i + 1 = 1 /\ ti = now /\ tj = now
      BY <1>a, <1>3, <2>3 DEF now
    <3>2. r = Interval
      BY <3>1, BurstCosts
    <3> HIDE DEF r, ti, tj
    <3>3. r <= b + (tj - ti)
      BY <1>a, <3>1, <3>2
    <3>4. QED
      BY <3>3 DEF r, ti, tj
  <2>4. QED
    <3>1. i \in 1..n \/ (i = n + 1 /\ j = n + 1)
      BY <1>a, <1>7, <1>9
    <3>2. QED
      BY <1>7, <2>1, <2>2, <2>3, <3>1
<1>10. admitted' \in [Clients -> Seq(Nat)]
  BY <1>2, <1>3 DEF Granted, QuotaInv, t
<1>11. ASSUME NEW d \in Clients PROVE Paid(d)' /\ Fair(d)'
  <2>1. CASE d = c
    <3>1. admitted'[d] = t /\ clock' = clock
      BY <1>2, <2>1 DEF t
    <3>2. Paid(d)'
      <4> DEFINE PaidFor(m) == \A i \in 1..m :
                     t[i] <= clock /\ t[i] + Cost(m - i + 1) <= due'[c]
      <4>1. PaidFor(n + 1)
        BY <1>8 DEF now, next
      <4>2. Len(t) = n + 1
        BY <1>3
      <4> HIDE DEF PaidFor
      <4>3. PaidFor(Len(t))
        BY <4>1, <4>2
      <4>4. QED
        BY <2>1, <3>1, <4>3 DEF Paid, PaidFor
    <3>3. Fair(d)'
      <4>1. \A i, j \in 1..Len(t) : i <= j => Cost(j - i + 1) <= Cost(Burst) + (t[j] - t[i])
        BY <1>3, <1>9 DEF b
      <4>2. QED
        BY <3>1, <4>1 DEF Fair
    <3>4. QED
      BY <3>2, <3>3
  <2>2. CASE d # c
    BY <1>2, <2>2 DEF QuotaInv, Paid, Fair
  <2>3. QED
    BY <2>1, <2>2
<1>12. QED
  BY <1>10, <1>11 DEF QuotaInv

\* So does every step.
LEMMA NextQuota ==
    IInv /\ QuotaInv /\ [Next]_vars => QuotaInv'
<1> SUFFICES ASSUME IInv, QuotaInv, [Next]_vars PROVE QuotaInv'
  OBVIOUS
<1>1. CASE \E c \in Clients : Granted(c)
  BY <1>1, GrantedKeeps
<1>2. CASE Quiet
  <2>1. \A c \in Clients : admitted[c] \in Seq(Nat) /\ Paid(c) /\ Fair(c)
    BY DEF QuotaInv
  <2>2. clock \in Nat /\ clock' \in Nat /\ clock <= clock' /\ UNCHANGED <<due, admitted>>
    BY <1>2 DEF Quiet, IInv
  <2>3. ASSUME NEW c \in Clients PROVE Paid(c)' /\ Fair(c)'
    <3>1. \A i \in 1..Len(admitted[c]) : admitted[c][i] \in Nat
      BY <2>1, ElementOfSeq
    <3>2. \A i \in 1..Len(admitted[c]) : admitted[c][i] <= clock'
      BY <2>1, <2>2, <3>1 DEF Paid
    <3>3. Paid(c)'
      BY <2>1, <2>2, <3>2 DEF Paid
    <3>4. Fair(c)'
      BY <2>1, <2>2 DEF Fair
    <3>5. QED
      BY <3>3, <3>4
  <2>4. QED
    BY <2>2, <2>3 DEF QuotaInv
<1>3. QED
  BY <1>1, <1>2, NextGrants

----
(* Refusals.                                                               *)

\* A new client is refused only when every client the cleanup examined is in use.
RefusedOnlyInUse ==
    [][\A c \in Clients : CheckNew(c) /\ c \notin DOMAIN entries' =>
          \A i \in 1..Len(queue) : i <= CleanupBatch => ~IsIdle(entries, queue[i])]_vars

\* What the loop is at after round k, if it has forgotten nobody: the clients it
\* examined are in use, and those it did not come first.
Spared(s, k) ==
    /\ s.map = entries
    /\ s.queue \in Seq(Clients) /\ Len(s.queue) = Len(queue)
    /\ \A j \in 1..Len(queue) - k : s.queue[j] = queue[j + k]
    /\ \A i \in 1..k : ~IsIdle(entries, queue[i])

\* Or it has forgotten somebody.
Shrunk(s) == DOMAIN s.map \subseteq DOMAIN entries /\ DOMAIN s.map # DOMAIN entries

\* A round examines the next client.
LEMMA ExamineSpares ==
    ASSUME Tidy(entries, queue), NEW s, NEW k \in 1..Len(queue), Spared(s, k - 1)
    PROVE  Spared(Examine(s), k) \/ Shrunk(Examine(s))
  <1> DEFINE key == Head(s.queue)
             rest == Tail(s.queue)
             n == Len(queue)
  <1>1. /\ n \in Nat /\ n >= 1 /\ k - 1 \in Nat /\ s.queue \in Seq(Clients) /\ Len(s.queue) = n
        /\ s.map = entries /\ queue \in Seq(Clients)
    BY LenProperties DEF Tidy, Spared
  <1>2. /\ s.queue # <<>> /\ key = s.queue[1] /\ rest \in Seq(Clients) /\ Len(rest) = n - 1
        /\ \A j \in 1..n - 1 : rest[j] = s.queue[j + 1]
    BY <1>1, EmptySeq, HeadTailProperties
  <1>3. key = queue[k]
    <2>1. 1 \in 1..n - (k - 1) /\ 1 + (k - 1) = k
      BY <1>1
    <2> QED
      BY <1>2, <2>1 DEF Spared
  <1>4. key \in DOMAIN entries /\ key \in Clients
    BY <1>1, <1>3, ElementOfSeq, LenProperties DEF Tidy, ToSet
  <1>5. CASE IsIdle(entries, key)
    <2>1. Examine(s).map = [d \in DOMAIN entries \ {key} |-> entries[d]]
      BY <1>1, <1>2, <1>4, <1>5 DEF Examine
    <2> QED
      BY <1>4, <2>1 DEF Shrunk
  <1>6. CASE ~IsIdle(entries, key)
    <2> DEFINE q == Append(rest, key)
    <2>1. Examine(s) = [map |-> entries, queue |-> q]
      BY <1>1, <1>2, <1>6 DEF Examine
    <2>2. q \in Seq(Clients) /\ Len(q) = n /\ \A j \in 1..n - 1 : q[j] = s.queue[j + 1]
      BY <1>1, <1>2, <1>4, AppendProperties
    <2> HIDE DEF q
    <2>3. ASSUME NEW j \in 1..n - k PROVE q[j] = queue[j + k]
      <3>1. j \in 1..n - 1 /\ j + 1 \in 1..n - (k - 1) /\ (j + 1) + (k - 1) = j + k
        BY <1>1
      <3>2. s.queue[j + 1] = queue[(j + 1) + (k - 1)]
        BY <3>1 DEF Spared
      <3> QED
        BY <2>2, <3>1, <3>2
    <2>4. ASSUME NEW i \in 1..k PROVE ~IsIdle(entries, queue[i])
      <3>1. i \in 1..k - 1 \/ i = k
        OBVIOUS
      <3> QED
        BY <1>3, <1>6, <3>1 DEF Spared
    <2> QED
      BY <2>1, <2>2, <2>3, <2>4 DEF Spared
  <1> QED
    BY <1>5, <1>6

\* What was forgotten stays forgotten.
LEMMA ExamineShrinks ==
    ASSUME NEW s, Shrunk(s)
    PROVE  Shrunk(Examine(s))
  <1>1. DOMAIN Examine(s).map \subseteq DOMAIN s.map
    BY DEF Examine
  <1> QED
    BY <1>1 DEF Shrunk

\* cleanup_batch forgets somebody, or those it examined are in use.
LEMMA RemainingSpares ==
    ASSUME Tidy(entries, queue)
    PROVE  \/ Shrunk(Remaining(entries, queue))
           \/ \A i \in 1..Len(queue) : i <= CleanupBatch => ~IsIdle(entries, queue[i])
  <1> DEFINE start == [map |-> entries, queue |-> queue]
  <1>0. PICK n \in Nat :
           /\ n = IF CleanupBatch < Len(queue) THEN CleanupBatch ELSE Len(queue)
           /\ \E f : Rounds(f, start, n) /\ Remaining(entries, queue) = f[n]
    BY TidyCounts, RemainingIsLoop
  <1>1. PICK f : Rounds(f, start, n) /\ Remaining(entries, queue) = f[n]
    BY <1>0
  <1>2. Len(queue) \in Nat /\ n <= Len(queue) /\ CleanupBatch \in Nat
    BY <1>0, TidyCounts, LimiterAssumption
  <1> DEFINE Good(k) == Spared(f[k], k) \/ Shrunk(f[k])
             Bad == {k \in 0..n : ~Good(k)}
  <1>3. Bad = {}
    <2>1. SUFFICES ASSUME Bad # {} PROVE FALSE
      OBVIOUS
    <2>2. PICK m \in Bad : \A k \in Bad : m <= k
      <3>1. Bad \in SUBSET Nat
        OBVIOUS
      <3> HIDE DEF Bad
      <3> QED
        BY <2>1, <3>1, LeastNumber
    <2>3. m \in 0..n /\ ~Good(m)
      BY <2>2
    <2>4. m # 0
      <3>1. f[0] = start
        BY <1>1 DEF Rounds
      <3>2. Spared(start, 0)
        BY <1>2 DEF Spared, Tidy
      <3> QED
        BY <2>3, <3>1, <3>2
    <2>5. m - 1 \in 0..n /\ m - 1 \notin Bad
      BY <2>2, <2>3, <2>4
    <2>6. Good(m - 1)
      BY <2>5
    <2>7. f[m] = Examine(f[m - 1]) /\ m \in 1..Len(queue)
      BY <1>1, <1>2, <2>3, <2>4 DEF Rounds
    <2> QED
      BY <2>3, <2>6, <2>7, ExamineSpares, ExamineShrinks
  <1>4. Good(n)
    BY <1>3
  <1>5. CASE Spared(f[n], n)
    <2>1. \A i \in 1..Len(queue) : i <= CleanupBatch => i \in 1..n
      BY <1>0, <1>2
    <2> QED
      BY <1>5, <2>1 DEF Spared
  <1>6. CASE Shrunk(f[n])
    BY <1>1, <1>6
  <1> QED
    BY <1>4, <1>5, <1>6

\* A refused client found the map full, and full after its cleanup.
LEMMA RefusedFound ==
    ASSUME QueueInv, NEW c \in Clients, CheckNew(c), c \notin DOMAIN entries'
    PROVE  \A i \in 1..Len(queue) : i <= CleanupBatch => ~IsIdle(entries, queue[i])
  <1> DEFINE cleaned == IF Cardinality(DOMAIN entries) >= Maximum
                        THEN Remaining(entries, queue)
                        ELSE [map |-> entries, queue |-> queue]
  <1>1. Cardinality(DOMAIN cleaned.map) >= Maximum
    <2> DEFINE map == cleaned.map
    <2>1. \/ Cardinality(DOMAIN map) >= Maximum
          \/ Decide(c, Inserted(map, c))
      BY DEF CheckNew
    <2> HIDE DEF map
    <2>2. Decide(c, Inserted(map, c)) => c \in DOMAIN entries'
      BY DEF Decide, Inserted
    <2> QED
      BY <2>1, <2>2 DEF map
  <1>2. /\ Tidy(entries, queue) /\ Len(queue) \in Nat /\ IsFiniteSet(DOMAIN entries)
        /\ Cardinality(DOMAIN entries) = Len(queue) /\ Len(queue) <= Maximum
    BY TidyCounts DEF QueueInv
  <1>3. Cardinality(DOMAIN entries) >= Maximum
    BY <1>1
  <1>4. Cardinality(DOMAIN Remaining(entries, queue).map) >= Maximum
    BY <1>1, <1>3
  <1>5. ~Shrunk(Remaining(entries, queue))
    <2> DEFINE left == DOMAIN Remaining(entries, queue).map
    <2>1. SUFFICES ASSUME left \subseteq DOMAIN entries, left # DOMAIN entries PROVE FALSE
      BY DEF Shrunk
    <2>2. Cardinality(left) \in Nat /\ Cardinality(left) < Cardinality(DOMAIN entries)
      <3> HIDE DEF left
      <3> QED
        BY <1>2, <2>1, FS_Subset, FS_CardinalityType
    <2> QED
      BY <1>2, <1>4, <2>2, LimiterAssumption
  <1> QED
    BY <1>2, <1>5, RemainingSpares

----
(* The theorems.                                                           *)

\* The invariant the next theorems follow from.
THEOREM Invariant == Spec => [](IInv /\ QueueInv /\ QuotaInv)
<1>1. Init => IInv /\ QueueInv /\ QuotaInv
  <2>1. ASSUME Init PROVE QueueInv
    <3>1. queue = <<>> /\ entries = <<>>
      BY <2>1 DEF Init
    <3>2. /\ queue \in Seq(Clients) /\ Len(queue) = 0 /\ DOMAIN queue = {}
          /\ DOMAIN entries = {}
      BY <3>1, EmptySeq
    <3>3. QED
      BY <3>2, LimiterAssumption DEF QueueInv, Tidy, ToSet
  <2>2. ASSUME Init PROVE QuotaInv
    <3>1. admitted = [c \in Clients |-> <<>>]
      BY <2>2 DEF Init
    <3>2. <<>> \in Seq(Nat) /\ Len(<<>>) = 0
      BY EmptySeq
    <3>3. QED
      BY <3>1, <3>2 DEF QuotaInv, Paid, Fair
  <2>3. QED
    BY <2>1, <2>2, InitHolds
<1>2. QED
  BY <1>1, NextKeeps, NextQueues, NextQuota, PTL DEF Spec

\* The map, its limiters and its queue are well formed.
THEOREM TypeCorrect == Spec => []TypeOK
<1>1. IInv /\ QueueInv /\ QuotaInv => TypeOK
  BY DEF IInv, Kept, QueueInv, QuotaInv, Tidy, TypeOK
<1>2. QED
  BY <1>1, Invariant, PTL

\* "Exactly one queue entry per map entry", whatever the bound of the map and
\* the batch: no entry is out of reach of cleanup, and there are never more
\* than the bound.
THEOREM OneEntryPerClient == Spec => []OneQueueEntryPerClient
<1>1. IInv /\ QueueInv => OneQueueEntryPerClient
  BY TidyCounts DEF QueueInv, Tidy, OneQueueEntryPerClient
<1>2. QED
  BY <1>1, Invariant, PTL

\* Forgetting a client never gives it quota and never takes any, whatever the
\* quota, the bound of the map and the batch, and although the idle time is
\* counted in whole seconds.
THEOREM Invisible == Spec => []EvictionIsInvisible
<1>1. IInv => EvictionIsInvisible
  BY DEF IInv
<1>2. QED
  BY <1>1, Invariant, PTL

\* Between any two admitted requests of a client lies the time its quota asks
\* for, however often it was forgotten and whatever the other clients did.
THEOREM Quota == Spec => []QuotaHolds
<1>1. QuotaInv => QuotaHolds
  BY DEF QuotaInv, Fair, Cost, QuotaHolds
<1>2. QED
  BY <1>1, Invariant, PTL

\* Capacity is refused only where the batch that was examined had no idle client,
\* however large the map is.
THEOREM Refusals == Spec => RefusedOnlyInUse
<1>1. QueueInv /\ [Next]_vars =>
         [\A c \in Clients : CheckNew(c) /\ c \notin DOMAIN entries' =>
             \A i \in 1..Len(queue) : i <= CleanupBatch => ~IsIdle(entries, queue[i])]_vars
  BY RefusedFound
<1>2. QED
  BY <1>1, Invariant, PTL DEF Spec, RefusedOnlyInUse
=============================================================================
