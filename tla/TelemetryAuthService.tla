---- MODULE TelemetryAuthService ----
(***************************************************************************)
(* bleat-api's attestation service: single-use challenges, enrolment of    *)
(* App Attest keys and the counter that authenticates a token request      *)
(* (bleat-api/src/http.rs, challenge.rs, installation.rs).                 *)
(*                                                                         *)
(* Every handler is a sequence of autocommitted SQL statements with an     *)
(* await on each, so a request is a record whose pc names the statement it *)
(* has in flight; the action of that name executes it and runs the handler *)
(* up to the next one.  `Utc::now()` is read when a statement is issued    *)
(* and used when it executes.  A request may be dropped at any await (the  *)
(* request timeout, a failed statement, a client that went away, a restart *)
(* of the process): before the statement in flight has its effect, or, in  *)
(* the next state, after it.                                               *)
(*                                                                         *)
(* Evidence verification is a predicate of the inputs; what it reads from  *)
(* the database, the stored counter, is modelled, the cryptography is not. *)
(***************************************************************************)
EXTENDS Naturals, Sequences, FiniteSets

CONSTANTS
    Requests,      \* concurrent requests
    Keys,          \* App Attest key identifiers
    NoKey,
    Lifetime,      \* challenge_lifetime
    CleanupBatch,  \* cleanup_batch_size
    MaxChallenges, \* bound: challenges issued
    MaxCounter,    \* bound: assertion counters
    MaxTime        \* bound: clock

ASSUME KeysAssumption == NoKey \notin Keys
ASSUME BoundsAssumption ==
    /\ Lifetime \in Nat /\ CleanupBatch \in Nat \ {0}
    /\ MaxChallenges \in Nat /\ MaxCounter \in Nat /\ MaxTime \in Nat

VARIABLES
    clock,         \* Utc::now()
    challenges,    \* the challenges table, and the rows deleted from it
    installations, \* the installations table
    request,       \* the requests being served
    grants         \* history: token requests that were authenticated

vars == <<clock, challenges, installations, request, grants>>

----
(* Records. *)

NoInstallation == 0

\* A row is never forgotten: `stored` tells whether the table still has it.
Challenge == [installation : Nat,  \* NoInstallation: purpose AttestationEnroll
              expires : Nat, consumed : BOOLEAN, stored : BOOLEAN]
Installation == [key : Keys, active : BOOLEAN, count : Nat,
                 enrolledBy : Nat]  \* history: the challenge it was enrolled by
Operation == {"none", "attestationChallenge", "tokenChallenge", "enroll", "token"}
Statement == {"none", "findActive", "selectExpired", "deleteExpired", "insert",
              "consume", "create", "advance"}
Request == [op : Operation, pc : Statement,
            at : Nat,             \* `now` of the statement in flight
            challenge : Nat, installation : Nat, key : Keys \cup {NoKey},
            counter : Nat,        \* the counter the assertion carries
            expected : Nat,       \* the sign_count find_active returned
            expired : SUBSET Nat] \* the rows cleanup_expired selected
Idle == [op |-> "none", pc |-> "none", at |-> 0, challenge |-> 0,
         installation |-> NoInstallation, key |-> NoKey, counter |-> 0,
         expected |-> 0, expired |-> {}]

TypeOK ==
    /\ clock \in Nat
    /\ challenges \in Seq(Challenge)
    /\ installations \in Seq(Installation)
    /\ request \in [Requests -> Request]
    /\ \A r \in Requests : request[r].op = "none" <=> request[r].pc = "none"
    /\ grants \subseteq [device : Nat, challenge : Nat, counter : Nat]

Init ==
    /\ clock = 0
    /\ challenges = <<>>
    /\ installations = <<>>
    /\ request = [r \in Requests |-> Idle]
    /\ grants = {}

----
(* Moves of a request. *)

At(r, pc) == request[r].pc = pc
Become(r, new) == request' = [request EXCEPT ![r] = new]
Goto(r, pc) == Become(r, [request[r] EXCEPT !.pc = pc])

\* Mutant of Return: the operation is not reset.
HalfReturn(r) == Goto(r, "none")

Return(r) == Become(r, Idle)

Begin(r, op, pc, ch, i, k, n) ==
    /\ request[r] = Idle
    /\ Become(r, [Idle EXCEPT !.op = op, !.pc = pc, !.at = clock,
                              !.challenge = ch, !.installation = i,
                              !.key = k, !.counter = n])
    /\ UNCHANGED <<clock, challenges, installations, grants>>

----
(* attestation_challenge and token_challenge. *)

AttestationChallenge(r) ==
    /\ Len(challenges) < MaxChallenges
    /\ Begin(r, "attestationChallenge", "selectExpired", 0, NoInstallation, NoKey, 0)

TokenChallenge(r) ==
    /\ Len(challenges) < MaxChallenges
    /\ \E i \in DOMAIN installations :
          Begin(r, "tokenChallenge", "findActive", 0, i, NoKey, 0)

\* Mutant of Expired: rows that expire within the next tick count as expired.
ExpiredSoon(at) == {ch \in DOMAIN challenges :
                       challenges[ch].stored /\ challenges[ch].expires <= at + 1}

\* cleanup_expired: at most CleanupBatch expired rows, the oldest first.
Expired(at) == {ch \in DOMAIN challenges :
                    challenges[ch].stored /\ challenges[ch].expires <= at}
OldestOf(rows) ==
    {ids \in SUBSET rows :
        /\ Cardinality(ids) <= CleanupBatch
        /\ ids = rows \/ Cardinality(ids) = CleanupBatch
        /\ \A ch \in ids, other \in rows \ ids :
              challenges[ch].expires <= challenges[other].expires}

SelectExpired(r) ==
    /\ At(r, "selectExpired")
    /\ \E ids \in OldestOf(Expired(request[r].at)) :
          Become(r, [request[r] EXCEPT
                       !.expired = ids,
                       !.pc = IF ids = {} THEN "insert" ELSE "deleteExpired"])
    /\ UNCHANGED <<clock, challenges, installations, grants>>

DeleteExpired(r) ==
    /\ At(r, "deleteExpired")
    /\ challenges' = [ch \in DOMAIN challenges |->
                         IF ch \in request[r].expired
                         THEN [challenges[ch] EXCEPT !.stored = FALSE]
                         ELSE challenges[ch]]
    /\ Become(r, [request[r] EXCEPT !.pc = "insert", !.expired = {}])
    /\ UNCHANGED <<clock, installations, grants>>

Insert(r) ==
    /\ At(r, "insert")
    /\ Len(challenges) < MaxChallenges
    /\ challenges' = Append(challenges,
                            [installation |-> request[r].installation,
                             expires |-> request[r].at + Lifetime,
                             consumed |-> FALSE, stored |-> TRUE])
    /\ Return(r)
    /\ UNCHANGED <<clock, installations, grants>>

----
(* enroll, and token with authenticate_installation. *)

\* The attestation has been verified before the first await.
Enroll(r) ==
    \E ch \in DOMAIN challenges, k \in Keys :
        Begin(r, "enroll", "consume", ch, NoInstallation, k, 0)

Token(r) ==
    \E ch \in DOMAIN challenges, i \in DOMAIN installations, n \in 1..MaxCounter :
        Begin(r, "token", "findActive", ch, i, NoKey, n)

\* find_active, then for a token request verify_assertion, which requires a
\* counter above the stored one.
FindActive(r) ==
    LET i == request[r].installation
        count == installations[i].count
    IN /\ At(r, "findActive")
       /\ \/ /\ request[r].op = "tokenChallenge"
             /\ installations[i].active
             /\ Goto(r, "selectExpired")
          \/ /\ request[r].op = "token"
             /\ installations[i].active
             /\ request[r].counter > count
             /\ Become(r, [request[r] EXCEPT !.pc = "consume", !.at = clock,
                                             !.expected = count])
          \/ /\ ~installations[i].active \/ request[r].op = "token"
             /\ Return(r)
       /\ UNCHANGED <<clock, challenges, installations, grants>>

\* Mutant of Consumable: consumed_at is not compared.
ConsumableAgain(r) ==
    LET row == challenges[request[r].challenge]
    IN /\ row.stored
       /\ row.installation = request[r].installation
       /\ row.expires > request[r].at

\* The conditions of consume_at's UPDATE.
Consumable(r) ==
    LET row == challenges[request[r].challenge]
    IN /\ row.stored
       /\ row.installation = request[r].installation
       /\ ~row.consumed
       /\ row.expires > request[r].at

Consume(r) ==
    /\ At(r, "consume")
    /\ \/ /\ Consumable(r)
          /\ challenges' = [challenges EXCEPT ![request[r].challenge].consumed = TRUE]
          /\ Goto(r, IF request[r].op = "enroll" THEN "create" ELSE "advance")
       \/ /\ ~Consumable(r)
          /\ Return(r)
          /\ UNCHANGED challenges
    /\ UNCHANGED <<clock, installations, grants>>

\* create_verified: the key identifier is unique.
Create(r) ==
    /\ At(r, "create")
    /\ IF \E i \in DOMAIN installations : installations[i].key = request[r].key
       THEN UNCHANGED installations
       ELSE installations' = Append(installations,
                                    [key |-> request[r].key, active |-> TRUE,
                                     count |-> 0,
                                     enrolledBy |-> request[r].challenge])
    /\ Return(r)
    /\ UNCHANGED <<clock, challenges, grants>>

\* Mutant of Advanceable: the UPDATE does not compare the counter it read.
AdvanceableBlindly(r) ==
    /\ request[r].counter > request[r].expected
    /\ installations[request[r].installation].active

\* Mutant of Advanceable: the UPDATE does not look at the status again.
AdvanceableDisabled(r) ==
    /\ request[r].counter > request[r].expected
    /\ installations[request[r].installation].count = request[r].expected

\* The conditions of advance_counter's UPDATE.
Advanceable(r) ==
    LET row == installations[request[r].installation]
    IN /\ request[r].counter > request[r].expected
       /\ row.active
       /\ row.count = request[r].expected

\* advance_counter; an advanced request is given its token.
Advance(r) ==
    /\ At(r, "advance")
    /\ IF Advanceable(r)
       THEN /\ installations' =
                  [installations EXCEPT ![request[r].installation].count = request[r].counter]
            /\ grants' = grants \cup {[device |-> request[r].installation,
                                       challenge |-> request[r].challenge,
                                       counter |-> request[r].counter]}
       ELSE UNCHANGED <<installations, grants>>
    /\ Return(r)
    /\ UNCHANGED <<clock, challenges>>

----
(* The environment. *)

\* A statement failed, the timeout struck, or the process stopped.
Drop(r) ==
    /\ request[r] # Idle
    /\ Return(r)
    /\ UNCHANGED <<clock, challenges, installations, grants>>

\* InstallationRepository::disable
Disable(i) ==
    /\ installations[i].active
    /\ installations' = [installations EXCEPT ![i].active = FALSE]
    /\ UNCHANGED <<clock, challenges, request, grants>>

Tick ==
    /\ clock < MaxTime
    /\ clock' = clock + 1
    /\ UNCHANGED <<challenges, installations, request, grants>>

Handler(r) ==
    \/ AttestationChallenge(r) \/ TokenChallenge(r) \/ Enroll(r) \/ Token(r)
    \/ SelectExpired(r) \/ DeleteExpired(r) \/ Insert(r)
    \/ FindActive(r) \/ Consume(r) \/ Create(r) \/ Advance(r) \/ Drop(r)

Next ==
    \/ \E r \in Requests : Handler(r)
    \/ \E i \in DOMAIN installations : Disable(i)
    \/ Tick

Spec == Init /\ [][Next]_vars

----
(* Properties. *)

\* A consumed challenge is in the hands of at most one request, and a request
\* holding one is the first and only to enrol or authenticate with it: two
\* deliveries of the same evidence never both pass.
Holding(r) == request[r].pc \in {"create", "advance"}
OneHolder ==
    /\ \A r, s \in Requests :
          Holding(r) /\ Holding(s) /\ request[r].challenge = request[s].challenge
              => r = s
    /\ \A r \in Requests : Holding(r) =>
          /\ challenges[request[r].challenge].consumed
          /\ \A g \in grants : g.challenge # request[r].challenge
          /\ \A i \in DOMAIN installations :
                installations[i].enrolledBy # request[r].challenge

\* Cleanup, which deletes what an earlier statement selected, never removes a
\* challenge a client may still present in time.
LiveChallengesSurvive ==
    \A ch \in DOMAIN challenges :
        challenges[ch].expires > clock => challenges[ch].stored

\* The stored counter covers every authenticated request, whatever the order
\* in which concurrent assertions read, consume and advance: none is accepted
\* twice and none after a later one.
CounterCoversGrants ==
    \A g \in grants : g.counter <= installations[g.device].count

\* The spent challenges and the devices of TelemetryGrants.
Spent == {[challenge |-> ch, device |-> challenges[ch].installation] :
             ch \in {c \in DOMAIN challenges : challenges[c].consumed}}
Devices == [i \in DOMAIN installations |->
               [key |-> installations[i].key,
                enrolledBy |-> installations[i].enrolledBy,
                active |-> installations[i].active]]

Promise == INSTANCE TelemetryGrants WITH
    Challenges <- 1..MaxChallenges, Counters <- 1..MaxCounter,
    spent <- Spent, devices <- Devices

\* The service implements TelemetryGrants: whatever concurrent, repeated, late
\* or dropped requests do between a handler's statements, a challenge is spent
\* once and for the device it was issued for, no key and no challenge enrols
\* twice, and a grant needs an active device, a challenge of its own and a
\* counter above every earlier one.
KeepsPromise == Promise!Spec
====
