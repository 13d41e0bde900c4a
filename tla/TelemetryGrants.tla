---- MODULE TelemetryGrants ----
(***************************************************************************)
(* What the telemetry authentication service promises (bleat-api/README.md:*)
(* "Challenges are consumed before installations are created or counters   *)
(* are advanced, so failed or replayed evidence cannot be reused").  A     *)
(* challenge is spent once, for enrolment or for one device; an enrolment  *)
(* takes a challenge and a key nobody used; a token grant takes a challenge*)
(* spent for an active device and a counter above every earlier one.       *)
(***************************************************************************)
EXTENDS Naturals, Sequences

CONSTANTS Keys, Challenges, Counters

VARIABLES
    spent,   \* challenges spent, with the device they were spent for
    devices, \* enrolled devices, in order of enrolment
    grants   \* authenticated token requests

vars == <<spent, devices, grants>>

\* The "device" of an enrolment challenge.
NoDevice == 0

Init == spent = {} /\ devices = <<>> /\ grants = {}

Spend(ch, i) ==
    /\ \A s \in spent : s.challenge # ch
    /\ spent' = spent \cup {[challenge |-> ch, device |-> i]}
    /\ UNCHANGED <<devices, grants>>

Enroll(ch, k) ==
    /\ [challenge |-> ch, device |-> NoDevice] \in spent
    /\ \A i \in DOMAIN devices : devices[i].key # k /\ devices[i].enrolledBy # ch
    /\ devices' = Append(devices, [key |-> k, enrolledBy |-> ch, active |-> TRUE])
    /\ UNCHANGED <<spent, grants>>

Grant(i, ch, n) ==
    /\ devices[i].active
    /\ [challenge |-> ch, device |-> i] \in spent
    /\ \A g \in grants : g.challenge # ch /\ (g.device = i => g.counter < n)
    /\ grants' = grants \cup {[device |-> i, challenge |-> ch, counter |-> n]}
    /\ UNCHANGED <<spent, devices>>

Disable(i) ==
    /\ devices' = [devices EXCEPT ![i].active = FALSE]
    /\ UNCHANGED <<spent, grants>>

Next ==
    \/ \E ch \in Challenges :
          \/ \E i \in {NoDevice} \cup DOMAIN devices : Spend(ch, i)
          \/ \E k \in Keys : Enroll(ch, k)
          \/ \E i \in DOMAIN devices, n \in Counters : Grant(i, ch, n)
    \/ \E i \in DOMAIN devices : Disable(i)

Spec == Init /\ [][Next]_vars
====
