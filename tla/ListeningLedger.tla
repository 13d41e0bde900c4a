-------------------------- MODULE ListeningLedger --------------------------
(***************************************************************************)
(* What the reporting of listening time promises, whatever the path: the   *)
(* server's record of a playback session only grows, and never exceeds     *)
(* what this device measured for it.                                       *)
(***************************************************************************)
EXTENDS Naturals

CONSTANT Session

VARIABLES measured, credited

Init == /\ measured = [s \in Session |-> 0]
        /\ credited = [s \in Session |-> 0]

(* The device commits more listening time of one session.                  *)
Measure(s) ==
    /\ measured'[s] \in Nat /\ measured'[s] > measured[s]
    /\ measured' = [measured EXCEPT ![s] = measured'[s]]
    /\ UNCHANGED credited

(* The server is told of some sessions, each up to what was measured.      *)
Credit ==
    /\ credited' \in [Session -> Nat]
    /\ \A s \in Session : credited[s] <= credited'[s] /\ credited'[s] <= measured[s]
    /\ UNCHANGED measured

Next == Credit \/ \E s \in Session : Measure(s)

Spec == Init /\ [][Next]_<<measured, credited>>
=============================================================================
