---- MODULE IssuanceLimiter ----
(***************************************************************************)
(* bleat-api's per-client admission of challenge requests                  *)
(* (bleat-api/src/issuance.rs): a bounded map of rate limiters whose idle  *)
(* entries are evicted, by a periodic task and by the request that finds   *)
(* the map full.  One mutex guards the map and no await happens inside, so *)
(* every call is one action; the clock does not move during a call.        *)
(*                                                                         *)
(* A client's limiter is a token bucket in the form its crate implements:  *)
(* the instant at which the bucket is full again.                          *)
(***************************************************************************)
EXTENDS Naturals, Sequences, SequencesExt

CONSTANTS
    Clients,
    Maximum,      \* maximum: entries the map may hold
    CleanupBatch, \* CLEANUP_BATCH
    Interval,     \* ticks to replenish one request
    Burst,        \* requests a full bucket admits
    Second,       \* ticks of a second
    MaxTime       \* bound: clock

ASSUME LimiterAssumption ==
    /\ Maximum \in Nat \ {0} /\ CleanupBatch \in Nat \ {0}
    /\ Interval \in Nat \ {0} /\ Burst \in Nat \ {0} /\ Second \in Nat \ {0}
    /\ MaxTime \in Nat

VARIABLES
    clock,
    entries, \* the map: client to the state of its limiter and its last use
    queue,   \* cleanup: the clients in the order they are next examined
    due,     \* history: for every client, what a limiter that is never evicted
             \* would hold after the requests that were admitted
    admitted \* history: for every client, when its requests were admitted

vars == <<clock, entries, queue, due, admitted>>

Entry == [full : Nat, lastUsed : Nat]

TypeOK ==
    /\ clock \in Nat
    /\ DOMAIN entries \subseteq Clients
    /\ \A c \in DOMAIN entries : entries[c] \in Entry
    /\ queue \in Seq(Clients)
    /\ due \in [Clients -> Nat]
    /\ admitted \in [Clients -> Seq(Nat)]

Init ==
    /\ clock = 0
    /\ entries = <<>>
    /\ queue = <<>>
    /\ due = [c \in Clients |-> 0]
    /\ admitted = [c \in Clients |-> <<>>]

----
(* Helpers. *)

Later(a, b) == IF a >= b THEN a ELSE b

\* Mutant of Ceil: seconds are rounded down.
Floor(ticks) == (ticks \div Second) * Second

\* ceil_seconds, in ticks.
Ceil(ticks) == ((ticks + Second - 1) \div Second) * Second

\* Mutant of Idle: the time one request takes to replenish.
IdleOfOne == Ceil(Interval)

\* idle: the time a drained bucket takes to fill, in whole seconds.
Idle == Ceil(Interval * Burst)

\* RateLimiter::check of a limiter that is full again at `full`.
Admits(full) == full <= clock + (Burst - 1) * Interval

\* Mutant of Charged: the next admission instead of the replenished instant.
ChargedEarly(full) == Later(full, clock) + Interval - Burst * Interval

Charged(full) == Later(full, clock) + Interval

\* cleanup_batch on a map and its queue, client by client.
IsIdle(map, c) == clock - map[c].lastUsed >= Idle

\* Mutant of Examine: an examined client is forgotten and stays queued.
ExamineQueued(s) ==
    LET key == Head(s.queue)
    IN IF s.queue # <<>> /\ key \in DOMAIN s.map /\ IsIdle(s.map, key)
       THEN [map |-> [d \in DOMAIN s.map \ {key} |-> s.map[d]],
             queue |-> Append(Tail(s.queue), key)]
       ELSE s

\* The client at the front is forgotten when it is idle, else goes to the back.
Examine(s) ==
    LET key == Head(s.queue)
        expired == key \in DOMAIN s.map /\ IsIdle(s.map, key)
    IN IF s.queue = <<>> THEN s
       ELSE IF expired
       THEN [map |-> [d \in DOMAIN s.map \ {key} |-> s.map[d]],
             queue |-> Tail(s.queue)]
       ELSE [map |-> s.map, queue |-> Append(Tail(s.queue), key)]

\* The loop; no client is examined twice.
Remaining(map, q) ==
    LET rounds == IF CleanupBatch < Len(q) THEN CleanupBatch ELSE Len(q)
        after[n \in 0..rounds] ==
            IF n = 0 THEN [map |-> map, queue |-> q] ELSE Examine(after[n - 1])
    IN after[rounds]

\* entries.insert: the limiter of a new client is full.
Inserted(map, c) ==
    [d \in DOMAIN map \cup {c} |->
        IF d = c THEN [full |-> clock, lastUsed |-> clock] ELSE map[d]]

----
(* Calls. *)

\* check, once the client has an entry.
Decide(c, map) ==
    LET entry == map[c]
    IN /\ entries' = [map EXCEPT ![c] =
                        [full |-> IF Admits(entry.full) THEN Charged(entry.full)
                                  ELSE entry.full,
                         lastUsed |-> clock]]
       /\ due' = IF Admits(entry.full) THEN [due EXCEPT ![c] = Charged(@)] ELSE due
       /\ admitted' = IF Admits(entry.full)
                      THEN [admitted EXCEPT ![c] = Append(@, clock)] ELSE admitted

CheckKnown(c) ==
    /\ c \in DOMAIN entries
    /\ Decide(c, entries)
    /\ UNCHANGED <<clock, queue>>

\* A new client; the map is cleaned first when it is full, and the client is
\* refused (AdmissionFailure::Capacity) when that makes no room.
CheckNew(c) ==
    LET cleaned == IF Cardinality(DOMAIN entries) >= Maximum
                   THEN Remaining(entries, queue)
                   ELSE [map |-> entries, queue |-> queue]
    IN /\ c \notin DOMAIN entries
       /\ IF Cardinality(DOMAIN cleaned.map) >= Maximum
          THEN /\ entries' = cleaned.map /\ queue' = cleaned.queue
               /\ UNCHANGED <<due, admitted>>
          ELSE Decide(c, Inserted(cleaned.map, c)) /\ queue' = Append(cleaned.queue, c)
       /\ UNCHANGED clock

Cleanup ==
    /\ entries' = Remaining(entries, queue).map
    /\ queue' = Remaining(entries, queue).queue
    /\ UNCHANGED <<clock, due, admitted>>

Tick ==
    /\ clock < MaxTime
    /\ clock' = clock + 1
    /\ UNCHANGED <<entries, queue, due, admitted>>

Next == (\E c \in Clients : CheckKnown(c) \/ CheckNew(c)) \/ Cleanup \/ Tick

Spec == Init /\ [][Next]_vars

----
(* Properties. *)

\* "Exactly one queue entry per map entry", and never more than Maximum: no
\* entry is out of reach of cleanup, none is examined twice in a round, and the
\* storage stays bounded.
OneQueueEntryPerClient ==
    /\ ToSet(queue) = DOMAIN entries
    /\ Len(queue) = Cardinality(DOMAIN entries)
    /\ Len(queue) <= Maximum

\* Forgetting a client never gives it quota and never takes any: a forgotten
\* client's bucket would be full again, and a remembered one's limiter holds
\* what it would hold had it never been forgotten.
EvictionIsInvisible ==
    \A c \in Clients :
        IF c \in DOMAIN entries
        THEN Later(entries[c].full, clock) = Later(due[c], clock)
        ELSE due[c] <= clock

\* The quota is kept in every window of time, however often the client was
\* forgotten meanwhile and whatever the others did: from one admitted request
\* to another there are at most a burst, and one more for each interval between
\* the two.
QuotaHolds ==
    \A c \in Clients : \A i, j \in 1..Len(admitted[c]) :
        i <= j => (j - i + 1) * Interval <=
                     Burst * Interval + (admitted[c][j] - admitted[c][i])
====
