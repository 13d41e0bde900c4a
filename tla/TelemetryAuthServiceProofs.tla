---- MODULE TelemetryAuthServiceProofs ----
(* Proofs about TelemetryAuthService, for any number of concurrent requests,  *)
(* keys, challenges and counters: its types, its invariants, and that it      *)
(* implements TelemetryGrants.                                                *)
EXTENDS TelemetryAuthService, SequenceTheorems, TLAPS

ChallengeOps == {"attestationChallenge", "tokenChallenge"}

\* A request q refers to rows that exist: the clock reads now, the challenges
\* are rows and n installations have been enrolled.
WellFormed(q, now, rows, n) ==
    /\ q.op = "none" <=> q.pc = "none"
    /\ q.at <= now
    /\ \A ch \in q.expired : ch \in 1..Len(rows) /\ rows[ch].expires <= now
    /\ IF q.op \in {"tokenChallenge", "token"} THEN q.installation \in 1..n
       ELSE q.installation = NoInstallation
    /\ q.op \in {"enroll", "token"} => q.challenge \in 1..Len(rows)
    /\ q.op = "enroll" => q.key \in Keys
    /\ q.op = "token" => q.counter \in 1..MaxCounter
    /\ q.pc \in {"selectExpired", "deleteExpired", "insert"} => q.op \in ChallengeOps
    /\ q.pc = "findActive" => q.op \in {"tokenChallenge", "token"}
    /\ q.pc = "consume" => q.op \in {"enroll", "token"}
    /\ q.pc = "create" => q.op = "enroll"
    /\ q.pc = "advance" => q.op = "token"

TablesOK ==
    /\ clock \in Nat
    /\ challenges \in Seq(Challenge)
    /\ installations \in Seq(Installation)
    /\ Len(challenges) <= MaxChallenges

RequestsOK ==
    /\ request \in [Requests -> Request]
    /\ \A r \in Requests : WellFormed(request[r], clock, challenges, Len(installations))

GrantsOK ==
    grants \subseteq [device : 1..Len(installations), challenge : 1..Len(challenges),
                      counter : 1..MaxCounter]

TypeInv == TablesOK /\ RequestsOK /\ GrantsOK

\* What no step takes back: rows are not forgotten, and of a row only the
\* flags and the counter change.
Grow ==
    /\ clock <= clock'
    /\ Len(challenges) <= Len(challenges')
    /\ Len(installations) <= Len(installations')
    /\ \A ch \in 1..Len(challenges) :
          /\ challenges'[ch].expires = challenges[ch].expires
          /\ challenges'[ch].installation = challenges[ch].installation
          /\ challenges[ch].consumed => challenges'[ch].consumed
    /\ \A i \in 1..Len(installations) :
          /\ installations'[i].key = installations[i].key
          /\ installations'[i].enrolledBy = installations[i].enrolledBy
          /\ installations[i].count <= installations'[i].count

\* The tables are sequences, and their rows are rows.
LEMMA Lengths ==
    ASSUME TablesOK
    PROVE  /\ Len(challenges) \in Nat /\ DOMAIN challenges = 1..Len(challenges)
           /\ Len(installations) \in Nat /\ DOMAIN installations = 1..Len(installations)
           /\ \A ch \in 1..Len(challenges) : challenges[ch] \in Challenge
           /\ \A i \in 1..Len(installations) : installations[i] \in Installation
  BY LenProperties, ElementOfSeq DEF TablesOK

\* A step that touches neither table nor clock keeps them well formed.
LEMMA SameTables ==
    ASSUME TablesOK, UNCHANGED <<clock, challenges, installations>>
    PROVE  TablesOK' /\ Grow
  <1>1. TablesOK'
    BY DEF TablesOK
  <1>2. \A ch \in 1..Len(challenges) : challenges[ch].consumed => challenges[ch].consumed
    OBVIOUS
  <1>3. /\ clock <= clock /\ Len(challenges) <= Len(challenges)
        /\ Len(installations) <= Len(installations)
        /\ \A i \in 1..Len(installations) : installations[i].count <= installations[i].count
    BY Lengths DEF TablesOK, Installation
  <1> QED
    BY <1>1, <1>2, <1>3 DEF Grow

\* A request that refers to existing rows still does after a step that only
\* grows the tables.
LEMMA KeptWellFormed ==
    ASSUME TablesOK, TablesOK', Grow, NEW q \in Request,
           WellFormed(q, clock, challenges, Len(installations))
    PROVE  WellFormed(q, clock', challenges', Len(installations'))
  <1>1. /\ Len(challenges) \in Nat /\ Len(challenges') \in Nat
        /\ Len(installations) \in Nat /\ Len(installations') \in Nat
        /\ clock \in Nat /\ clock' \in Nat /\ q.at \in Nat
    BY LenProperties DEF TablesOK, Request
  <1>2. q.at <= clock'
    BY <1>1 DEF WellFormed, Grow
  <1>3. \A ch \in q.expired : ch \in 1..Len(challenges') /\ challenges'[ch].expires <= clock'
    <2> SUFFICES ASSUME NEW ch \in q.expired
                 PROVE  ch \in 1..Len(challenges') /\ challenges'[ch].expires <= clock'
      OBVIOUS
    <2>1. ch \in 1..Len(challenges) /\ challenges[ch].expires <= clock
      BY DEF WellFormed
    <2>2. challenges[ch].expires \in Nat /\ challenges'[ch].expires = challenges[ch].expires
      BY <2>1, Lengths DEF Challenge, Grow
    <2> QED
      BY <1>1, <2>1, <2>2 DEF Grow
  <1>4. \A i \in 1..Len(installations) : i \in 1..Len(installations')
    BY <1>1 DEF Grow
  <1>5. \A ch \in 1..Len(challenges) : ch \in 1..Len(challenges')
    BY <1>1 DEF Grow
  <1> QED
    BY <1>2, <1>3, <1>4, <1>5 DEF WellFormed

\* Replacing one request by a well-formed one keeps all of them well formed.
LEMMA RequestsMove ==
    ASSUME TablesOK, TablesOK', RequestsOK, Grow, NEW r \in Requests, NEW new \in Request,
           Become(r, new), WellFormed(new, clock', challenges', Len(installations'))
    PROVE  RequestsOK'
  <1>1. request' \in [Requests -> Request]
    BY DEF RequestsOK, Become
  <1>2. \A s \in Requests : WellFormed(request'[s], clock', challenges', Len(installations'))
    BY KeptWellFormed DEF RequestsOK, Become
  <1> QED
    BY <1>1, <1>2 DEF RequestsOK

\* A request that is not being served refers to nothing.
LEMMA IdleWellFormed ==
    ASSUME TablesOK
    PROVE  /\ Idle \in Request
           /\ WellFormed(Idle, clock, challenges, Len(installations))
  <1>1. Idle \in Request
    BY DEF Idle, Request, Operation, Statement, NoInstallation
  <1>2. /\ Idle.op = "none" /\ Idle.pc = "none" /\ Idle.at = 0 /\ Idle.expired = {}
        /\ Idle.installation = NoInstallation
    BY DEF Idle
  <1> QED
    BY <1>1, <1>2 DEF WellFormed, TablesOK

----
(* Types, action by action. *)

\* The request a handler starts with.
Entry(op, pc, ch, i, k, n) ==
    [Idle EXCEPT !.op = op, !.pc = pc, !.at = clock, !.challenge = ch,
                 !.installation = i, !.key = k, !.counter = n]

\* What the record of a request that has just arrived holds.
LEMMA EntryFields ==
    ASSUME TablesOK, NEW op \in Operation, NEW pc \in Statement, NEW ch \in Nat,
           NEW i \in Nat, NEW k \in Keys \cup {NoKey}, NEW n \in Nat
    PROVE  /\ Entry(op, pc, ch, i, k, n) \in Request
           /\ Entry(op, pc, ch, i, k, n).op = op
           /\ Entry(op, pc, ch, i, k, n).pc = pc
           /\ Entry(op, pc, ch, i, k, n).at = clock
           /\ Entry(op, pc, ch, i, k, n).challenge = ch
           /\ Entry(op, pc, ch, i, k, n).installation = i
           /\ Entry(op, pc, ch, i, k, n).key = k
           /\ Entry(op, pc, ch, i, k, n).counter = n
           /\ Entry(op, pc, ch, i, k, n).expired = {}
  BY DEF Entry, Idle, Request, TablesOK

\* A step that only moves a request on keeps the types.
LEMMA MoveType ==
    ASSUME TypeInv, UNCHANGED <<clock, challenges, installations, grants>>,
           NEW r \in Requests, NEW new \in Request, Become(r, new),
           WellFormed(new, clock, challenges, Len(installations))
    PROVE  TypeInv' /\ Grow
  <1>1. TablesOK' /\ Grow
    BY SameTables DEF TypeInv
  <1>2. RequestsOK'
    BY <1>1, RequestsMove DEF TypeInv
  <1> QED
    BY <1>1, <1>2 DEF TypeInv, GrantsOK

\* The arrival of a request keeps the types.
LEMMA BeginType ==
    ASSUME TypeInv, NEW r \in Requests,
           NEW op \in Operation, NEW pc \in Statement, NEW ch \in Nat,
           NEW i \in Nat, NEW k \in Keys \cup {NoKey}, NEW n \in Nat,
           Begin(r, op, pc, ch, i, k, n),
           WellFormed(Entry(op, pc, ch, i, k, n), clock, challenges, Len(installations))
    PROVE  /\ TypeInv' /\ Grow
           /\ request' = [request EXCEPT ![r] = Entry(op, pc, ch, i, k, n)]
           /\ UNCHANGED <<clock, challenges, installations, grants>>
  <1> DEFINE new == Entry(op, pc, ch, i, k, n)
  <1>1. new \in Request
    BY EntryFields DEF TypeInv
  <1>2. Become(r, new) /\ UNCHANGED <<clock, challenges, installations, grants>>
    BY DEF Begin, Entry
  <1> HIDE DEF new
  <1>3. TypeInv' /\ Grow
    BY <1>1, <1>2, MoveType DEF new
  <1> QED
    BY <1>2, <1>3 DEF Become, new

\* The end of a request keeps the types.
LEMMA ReturnType ==
    ASSUME TypeInv, UNCHANGED <<clock, challenges, installations, grants>>,
           NEW r \in Requests, Return(r)
    PROVE  TypeInv' /\ Grow
  BY MoveType, IdleWellFormed DEF Return, TypeInv

\* What a step of a request that writes no table is.
Quiet(r) ==
    \E new \in Request :
        /\ request' = [request EXCEPT ![r] = new]
        /\ new.pc \notin {"create", "advance"}
        /\ UNCHANGED <<clock, challenges, installations, grants>>

BeginRequest(r) ==
    AttestationChallenge(r) \/ TokenChallenge(r) \/ Enroll(r) \/ Token(r)

\* Each of the four handlers starts well typed.
LEMMA BeginRequestType ==
    ASSUME TypeInv, NEW r \in Requests, BeginRequest(r)
    PROVE  TypeInv' /\ Grow /\ Quiet(r)
  <1>0. TablesOK /\ DOMAIN challenges = 1..Len(challenges)
        /\ DOMAIN installations = 1..Len(installations)
        /\ Len(challenges) \in Nat /\ Len(installations) \in Nat
    BY Lengths DEF TypeInv
  <1>n. /\ {"attestationChallenge", "tokenChallenge", "enroll", "token"} \subseteq Operation
        /\ {"selectExpired", "findActive", "consume"} \subseteq Statement
        /\ NoKey \in Keys \cup {NoKey} /\ Keys \subseteq Keys \cup {NoKey}
        /\ 0 \in Nat /\ NoInstallation \in Nat
        /\ \A n \in 1..MaxCounter : n \in Nat
        /\ \A ch \in 1..Len(challenges) : ch \in Nat
        /\ \A j \in 1..Len(installations) : j \in Nat
    BY BoundsAssumption, <1>0 DEF Operation, Statement, NoInstallation
  <1>1. CASE AttestationChallenge(r)
    <2> DEFINE new == Entry("attestationChallenge", "selectExpired", 0, NoInstallation, NoKey, 0)
    <2>1. /\ new \in Request /\ new.op = "attestationChallenge" /\ new.pc = "selectExpired"
          /\ new.at = clock /\ new.installation = NoInstallation /\ new.expired = {}
      BY <1>0, <1>n DEF Entry, Idle, Request, TablesOK
    <2>2. WellFormed(new, clock, challenges, Len(installations))
      BY <1>0, <2>1 DEF WellFormed, ChallengeOps, TablesOK
    <2>3. /\ TypeInv' /\ Grow
          /\ request' = [request EXCEPT ![r] = new]
          /\ UNCHANGED <<clock, challenges, installations, grants>>
      BY <1>1, <1>n, <2>2, BeginType DEF AttestationChallenge
    <2> QED
      BY <2>1, <2>3 DEF Quiet
  <1>2. CASE TokenChallenge(r)
    <2>0. PICK i \in 1..Len(installations) :
             Begin(r, "tokenChallenge", "findActive", 0, i, NoKey, 0)
      BY <1>0, <1>2 DEF TokenChallenge
    <2> DEFINE new == Entry("tokenChallenge", "findActive", 0, i, NoKey, 0)
    <2>1. /\ new \in Request /\ new.op = "tokenChallenge" /\ new.pc = "findActive"
          /\ new.at = clock /\ new.installation = i /\ new.expired = {}
      BY <1>0, <1>n DEF Entry, Idle, Request, TablesOK
    <2>2. WellFormed(new, clock, challenges, Len(installations))
      BY <1>0, <2>1 DEF WellFormed, TablesOK
    <2>3. /\ TypeInv' /\ Grow
          /\ request' = [request EXCEPT ![r] = new]
          /\ UNCHANGED <<clock, challenges, installations, grants>>
      BY <1>n, <2>0, <2>2, BeginType
    <2> QED
      BY <2>1, <2>3 DEF Quiet
  <1>3. CASE Enroll(r)
    <2>0. PICK ch \in 1..Len(challenges), k \in Keys :
             Begin(r, "enroll", "consume", ch, NoInstallation, k, 0)
      BY <1>0, <1>3 DEF Enroll
    <2> DEFINE new == Entry("enroll", "consume", ch, NoInstallation, k, 0)
    <2>1. /\ new \in Request /\ new.op = "enroll" /\ new.pc = "consume" /\ new.challenge = ch
          /\ new.at = clock /\ new.installation = NoInstallation /\ new.expired = {}
          /\ new.key = k
      BY <1>0, <1>n DEF Entry, Idle, Request, TablesOK
    <2>2. WellFormed(new, clock, challenges, Len(installations))
      BY <1>0, <2>1 DEF WellFormed, TablesOK
    <2>3. /\ TypeInv' /\ Grow
          /\ request' = [request EXCEPT ![r] = new]
          /\ UNCHANGED <<clock, challenges, installations, grants>>
      BY <1>n, <2>0, <2>2, BeginType
    <2> QED
      BY <2>1, <2>3 DEF Quiet
  <1>4. CASE Token(r)
    <2>0. PICK ch \in 1..Len(challenges), i \in 1..Len(installations), n \in 1..MaxCounter :
             Begin(r, "token", "findActive", ch, i, NoKey, n)
      BY <1>0, <1>4 DEF Token
    <2> DEFINE new == Entry("token", "findActive", ch, i, NoKey, n)
    <2>2. /\ new \in Request /\ new.op = "token" /\ new.pc = "findActive" /\ new.challenge = ch
          /\ new.at = clock /\ new.installation = i /\ new.expired = {} /\ new.counter = n
      BY <1>0, <1>n DEF Entry, Idle, Request, TablesOK
    <2>3. WellFormed(new, clock, challenges, Len(installations))
      BY <1>0, <2>2 DEF WellFormed, TablesOK
    <2>4. /\ TypeInv' /\ Grow
          /\ request' = [request EXCEPT ![r] = new]
          /\ UNCHANGED <<clock, challenges, installations, grants>>
      BY <1>n, <2>0, <2>3, BeginType
    <2> QED
      BY <2>2, <2>4 DEF Quiet
  <1> QED
    BY <1>1, <1>2, <1>3, <1>4 DEF BeginRequest

\* A request that goes on and keeps what it refers to.
LEMMA GotoType ==
    ASSUME TypeInv, NEW r \in Requests, NEW new \in Request, Become(r, new),
           TablesOK', Grow, UNCHANGED grants,
           WellFormed(new, clock, challenges, Len(installations))
    PROVE  TypeInv'
  <1>1. RequestsOK'
    BY KeptWellFormed, RequestsMove DEF TypeInv
  <1>2. GrantsOK'
    <2>1. \A i \in 1..Len(installations) : i \in 1..Len(installations')
      BY LenProperties DEF TypeInv, TablesOK, Grow
    <2>2. \A ch \in 1..Len(challenges) : ch \in 1..Len(challenges')
      BY LenProperties DEF TypeInv, TablesOK, Grow
    <2> QED
      BY <2>1, <2>2 DEF TypeInv, GrantsOK
  <1> QED
    BY <1>1, <1>2 DEF TypeInv

\* cleanup_expired's SELECT writes no table and holds on to rows that have
\* expired.
LEMMA SelectExpiredType ==
    ASSUME TypeInv, NEW r \in Requests, SelectExpired(r)
    PROVE  TypeInv' /\ Grow /\ Quiet(r)
  <1>0. request[r] \in Request /\ WellFormed(request[r], clock, challenges, Len(installations))
    BY DEF TypeInv, RequestsOK
  <1>1. PICK ids \in OldestOf(Expired(request[r].at)) :
           Become(r, [request[r] EXCEPT
                        !.expired = ids,
                        !.pc = IF ids = {} THEN "insert" ELSE "deleteExpired"])
    BY DEF SelectExpired
  <1> DEFINE new == [request[r] EXCEPT
                        !.expired = ids,
                        !.pc = IF ids = {} THEN "insert" ELSE "deleteExpired"]
  <1>2. \A ch \in ids : ch \in 1..Len(challenges) /\ challenges[ch].expires <= clock
    <2>1. \A ch \in ids : ch \in DOMAIN challenges /\ challenges[ch].expires <= request[r].at
      BY DEF OldestOf, Expired
    <2>2. request[r].at \in Nat /\ clock \in Nat /\ request[r].at <= clock
      BY <1>0 DEF Request, WellFormed, TypeInv, TablesOK
    <2>3. \A ch \in 1..Len(challenges) : challenges[ch].expires \in Nat
      BY Lengths DEF TypeInv, Challenge
    <2> QED
      BY <2>1, <2>2, <2>3, Lengths DEF TypeInv
  <1>3. ids \in SUBSET Nat
    BY <1>2, Lengths DEF TypeInv
  <1>4. /\ new \in Request /\ new.pc \in {"insert", "deleteExpired"} /\ new.expired = ids
        /\ new.op = request[r].op /\ new.at = request[r].at
        /\ new.challenge = request[r].challenge
        /\ new.installation = request[r].installation
        /\ new.key = request[r].key /\ new.counter = request[r].counter
    BY <1>0, <1>3 DEF Request, Statement
  <1>5. request[r].pc = "selectExpired"
    BY DEF SelectExpired, At
  <1>6. Become(r, new) /\ UNCHANGED <<clock, challenges, installations, grants>>
    BY <1>1 DEF SelectExpired
  <1> HIDE DEF new
  <1>7. WellFormed(new, clock, challenges, Len(installations))
    BY <1>0, <1>2, <1>4, <1>5 DEF WellFormed, ChallengeOps
  <1> QED
    BY <1>4, <1>6, <1>7, MoveType DEF Quiet, Become

\* cleanup_expired's DELETE takes away expired rows only, and changes nothing
\* else of any row.
LEMMA DeleteExpiredType ==
    ASSUME TypeInv, NEW r \in Requests, DeleteExpired(r)
    PROVE  /\ TypeInv' /\ Grow
           /\ Len(challenges') = Len(challenges)
           /\ \A ch \in 1..Len(challenges) :
                 /\ challenges'[ch].consumed = challenges[ch].consumed
                 /\ challenges'[ch].stored \/ challenges[ch].expires <= clock
                    \/ ~challenges[ch].stored
           /\ \E new \in Request : /\ request' = [request EXCEPT ![r] = new]
                                   /\ new.pc = "insert"
  <1>0. request[r] \in Request /\ WellFormed(request[r], clock, challenges, Len(installations))
    BY DEF TypeInv, RequestsOK
  <1>a. /\ Len(challenges) \in Nat /\ DOMAIN challenges = 1..Len(challenges)
        /\ \A ch \in 1..Len(challenges) : challenges[ch] \in Challenge
    BY Lengths DEF TypeInv
  <1> DEFINE row(ch) == IF ch \in request[r].expired
                        THEN [challenges[ch] EXCEPT !.stored = FALSE]
                        ELSE challenges[ch]
  <1>1. challenges' = [ch \in 1..Len(challenges) |-> row(ch)]
    BY <1>a DEF DeleteExpired
  <1>2. \A ch \in 1..Len(challenges) :
           /\ row(ch) \in Challenge
           /\ row(ch).expires = challenges[ch].expires
           /\ row(ch).installation = challenges[ch].installation
           /\ row(ch).consumed = challenges[ch].consumed
           /\ ch \notin request[r].expired => row(ch) = challenges[ch]
    BY <1>a DEF Challenge
  <1> HIDE DEF row
  <1>3. challenges' \in [1..Len(challenges) -> Challenge]
    BY <1>1, <1>2
  <1>4. challenges' \in Seq(Challenge)
    BY <1>3, <1>a, SeqDef
  <1>5. Len(challenges') = Len(challenges)
    BY <1>3, <1>4, <1>a, LenProperties
  <1>6. TablesOK'
    BY <1>4, <1>5 DEF TypeInv, TablesOK, DeleteExpired
  <1>7. Grow
    <2>1. /\ clock <= clock /\ Len(installations) <= Len(installations)
          /\ \A i \in 1..Len(installations) : installations[i].count <= installations[i].count
      BY Lengths DEF TypeInv, TablesOK, Installation
    <2>2. \A ch \in 1..Len(challenges) :
             /\ challenges'[ch].expires = challenges[ch].expires
             /\ challenges'[ch].installation = challenges[ch].installation
             /\ challenges[ch].consumed => challenges'[ch].consumed
      BY <1>1, <1>2
    <2> QED
      BY <2>1, <2>2, <1>5, <1>a DEF Grow, DeleteExpired
  <1> DEFINE new == [request[r] EXCEPT !.pc = "insert", !.expired = {}]
  <1>8. /\ new \in Request /\ new.pc = "insert" /\ new.expired = {}
        /\ new.op = request[r].op /\ new.at = request[r].at
        /\ new.challenge = request[r].challenge
        /\ new.installation = request[r].installation
        /\ new.key = request[r].key /\ new.counter = request[r].counter
    BY <1>0 DEF Request, Statement
  <1>9. Become(r, new) /\ request[r].pc = "deleteExpired" /\ UNCHANGED grants
    BY DEF DeleteExpired, At
  <1> HIDE DEF new
  <1>10. WellFormed(new, clock, challenges, Len(installations))
    BY <1>0, <1>8, <1>9 DEF WellFormed, ChallengeOps
  <1>11. TypeInv'
    BY <1>6, <1>7, <1>8, <1>9, <1>10, GotoType
  <1>12. \A ch \in 1..Len(challenges) : challenges'[ch] = challenges[ch] \/ challenges[ch].expires <= clock
    BY <1>0, <1>1, <1>2 DEF WellFormed
  <1>13. \A ch \in 1..Len(challenges) : challenges'[ch].consumed = challenges[ch].consumed
    BY <1>1, <1>2
  <1> QED
    BY <1>5, <1>7, <1>8, <1>9, <1>11, <1>12, <1>13 DEF Become

\* A step that ends its request and lets the tables grow.
LEMMA EndType ==
    ASSUME TypeInv, NEW r \in Requests, Return(r), TablesOK', Grow, UNCHANGED grants
    PROVE  TypeInv'
  <1>1. Idle \in Request /\ WellFormed(Idle, clock, challenges, Len(installations))
    BY IdleWellFormed DEF TypeInv
  <1> QED
    BY <1>1, GotoType DEF Return

\* Insert appends a row that is live.
LEMMA InsertType ==
    ASSUME TypeInv, NEW r \in Requests, Insert(r)
    PROVE  /\ TypeInv' /\ Grow
           /\ Len(challenges') = Len(challenges) + 1
           /\ \A ch \in 1..Len(challenges) : challenges'[ch] = challenges[ch]
           /\ challenges'[Len(challenges) + 1].stored
           /\ ~challenges'[Len(challenges) + 1].consumed
           /\ challenges'[Len(challenges) + 1].installation \in 0..Len(installations)
  <1>0. request[r] \in Request /\ WellFormed(request[r], clock, challenges, Len(installations))
    BY DEF TypeInv, RequestsOK
  <1> DEFINE row == [installation |-> request[r].installation,
                     expires |-> request[r].at + Lifetime,
                     consumed |-> FALSE, stored |-> TRUE]
  <1>1. row \in Challenge /\ row.installation = request[r].installation
        /\ row.consumed = FALSE /\ row.stored = TRUE
    <2>1. request[r].at + Lifetime \in Nat
      BY <1>0, BoundsAssumption DEF Request
    <2> QED
      BY <1>0, <2>1 DEF Request, Challenge
  <1>2. challenges' = Append(challenges, row) /\ Len(challenges) < MaxChallenges
        /\ UNCHANGED <<clock, installations, grants>> /\ Return(r)
    BY DEF Insert
  <1> HIDE DEF row
  <1>3. /\ challenges' \in Seq(Challenge) /\ Len(challenges') = Len(challenges) + 1
        /\ \A ch \in 1..Len(challenges) : challenges'[ch] = challenges[ch]
        /\ challenges'[Len(challenges) + 1] = row
    BY <1>1, <1>2, AppendProperties DEF TypeInv, TablesOK
  <1>4. Len(challenges) \in Nat
    BY Lengths DEF TypeInv
  <1>5. TablesOK'
    BY <1>2, <1>3, <1>4, BoundsAssumption DEF TypeInv, TablesOK
  <1>6. Grow
    <2>1. /\ clock <= clock /\ Len(installations) <= Len(installations)
          /\ \A i \in 1..Len(installations) : installations[i].count <= installations[i].count
      BY Lengths DEF TypeInv, TablesOK, Installation
    <2>2. \A ch \in 1..Len(challenges) : challenges[ch].consumed => challenges'[ch].consumed
      BY <1>3
    <2> QED
      BY <1>2, <1>3, <1>4, <2>1, <2>2 DEF Grow
  <1>7. TypeInv'
    BY <1>2, <1>5, <1>6, EndType
  <1>8. request[r].installation \in 0..Len(installations)
    BY <1>0, Lengths DEF WellFormed, NoInstallation, TypeInv
  <1> QED
    BY <1>1, <1>3, <1>6, <1>7, <1>8

\* find_active and the verification of the assertion write no table.
LEMMA FindActiveType ==
    ASSUME TypeInv, NEW r \in Requests, FindActive(r)
    PROVE  TypeInv' /\ Grow /\ Quiet(r)
  <1>0. request[r] \in Request /\ WellFormed(request[r], clock, challenges, Len(installations))
    BY DEF TypeInv, RequestsOK
  <1>1. UNCHANGED <<clock, challenges, installations, grants>> /\ request[r].pc = "findActive"
    BY DEF FindActive, At
  <1>2. request[r].installation \in 1..Len(installations)
    BY <1>0, <1>1 DEF WellFormed
  <1>3. installations[request[r].installation].count \in Nat
    BY <1>2, Lengths DEF TypeInv, Installation
  <1>4. CASE request[r].op = "tokenChallenge" /\ Goto(r, "selectExpired")
    <2> DEFINE new == [request[r] EXCEPT !.pc = "selectExpired"]
    <2>1. /\ new \in Request /\ new.pc = "selectExpired" /\ new.expired = request[r].expired
          /\ new.op = request[r].op /\ new.at = request[r].at
          /\ new.challenge = request[r].challenge
          /\ new.installation = request[r].installation
          /\ new.key = request[r].key /\ new.counter = request[r].counter
      BY <1>0 DEF Request, Statement
    <2>2. Become(r, new)
      BY <1>4 DEF Goto
    <2> HIDE DEF new
    <2>3. WellFormed(new, clock, challenges, Len(installations))
      BY <1>0, <1>4, <2>1 DEF WellFormed, ChallengeOps
    <2> QED
      BY <1>1, <2>1, <2>2, <2>3, MoveType DEF Quiet, Become
  <1>5. CASE /\ request[r].op = "token"
             /\ Become(r, [request[r] EXCEPT !.pc = "consume", !.at = clock,
                              !.expected = installations[request[r].installation].count])
    <2> DEFINE n == installations[request[r].installation].count
               new == [request[r] EXCEPT !.pc = "consume", !.at = clock, !.expected = n]
    <2>0. n \in Nat /\ clock \in Nat
      BY <1>3 DEF TypeInv, TablesOK
    <2>2. Become(r, new)
      BY <1>5
    <2> HIDE DEF n
    <2>1. /\ new \in Request /\ new.pc = "consume" /\ new.expired = request[r].expired
          /\ new.op = request[r].op /\ new.at = clock
          /\ new.challenge = request[r].challenge
          /\ new.installation = request[r].installation
          /\ new.key = request[r].key /\ new.counter = request[r].counter
      BY <1>0, <2>0 DEF Request, Statement
    <2> HIDE DEF new
    <2>3. WellFormed(new, clock, challenges, Len(installations))
      BY <1>0, <1>5, <2>0, <2>1 DEF WellFormed, ChallengeOps
    <2> QED
      BY <1>1, <2>1, <2>2, <2>3, MoveType DEF Quiet, Become
  <1>6. CASE Return(r)
    <2>1. Idle \in Request /\ Idle.pc = "none"
      BY IdleWellFormed DEF TypeInv, Idle
    <2> QED
      BY <1>1, <1>6, <2>1, ReturnType DEF Quiet, Return, Become
  <1> QED
    BY <1>4, <1>5, <1>6 DEF FindActive

\* A request that is dropped writes no table.
LEMMA DropType ==
    ASSUME TypeInv, NEW r \in Requests, Drop(r)
    PROVE  TypeInv' /\ Grow /\ Quiet(r)
  <1>1. Idle \in Request /\ Idle.pc = "none"
    BY IdleWellFormed DEF TypeInv, Idle
  <1> QED
    BY <1>1, ReturnType DEF Drop, Quiet, Return, Become

\* A challenge is consumed: it was not, and the request that did it goes on
\* holding it.
Consumes(r) ==
    LET ch == request[r].challenge
    IN /\ ch \in 1..Len(challenges)
       /\ ~challenges[ch].consumed
       /\ challenges[ch].installation = request[r].installation
       /\ challenges' = [challenges EXCEPT ![ch].consumed = TRUE]
       /\ Len(challenges') = Len(challenges)
       /\ \A c \in 1..Len(challenges) :
             /\ c # ch => challenges'[c] = challenges[c]
             /\ challenges'[c].stored = challenges[c].stored
       /\ challenges'[ch].consumed
       /\ \E new \in Request : /\ request' = [request EXCEPT ![r] = new]
                               /\ new.challenge = ch
                               /\ new.installation = request[r].installation
       /\ UNCHANGED <<clock, installations, grants>>

\* consume_at's UPDATE ends the request, or consumes its challenge.
LEMMA ConsumeType ==
    ASSUME TypeInv, NEW r \in Requests, Consume(r)
    PROVE  TypeInv' /\ Grow /\ (Quiet(r) \/ Consumes(r))
  <1>0. request[r] \in Request /\ WellFormed(request[r], clock, challenges, Len(installations))
    BY DEF TypeInv, RequestsOK
  <1>1. UNCHANGED <<clock, installations, grants>> /\ request[r].pc = "consume"
    BY DEF Consume, At
  <1>2. request[r].challenge \in 1..Len(challenges) /\ request[r].op \in {"enroll", "token"}
    BY <1>0, <1>1 DEF WellFormed
  <1>3. CASE ~Consumable(r) /\ Return(r) /\ UNCHANGED challenges
    <2>1. Idle \in Request /\ Idle.pc = "none"
      BY IdleWellFormed DEF TypeInv, Idle
    <2> QED
      BY <1>1, <1>3, <2>1, ReturnType DEF Quiet, Return, Become
  <1>4. CASE /\ Consumable(r)
             /\ challenges' = [challenges EXCEPT ![request[r].challenge].consumed = TRUE]
             /\ Goto(r, IF request[r].op = "enroll" THEN "create" ELSE "advance")
    <2> DEFINE ch == request[r].challenge
               row == [challenges[ch] EXCEPT !.consumed = TRUE]
               pc == IF request[r].op = "enroll" THEN "create" ELSE "advance"
               new == [request[r] EXCEPT !.pc = pc]
    <2>1. challenges[ch] \in Challenge /\ challenges \in Seq(Challenge)
      BY <1>2, Lengths DEF TypeInv, TablesOK
    <2>2. /\ row \in Challenge /\ row.consumed = TRUE /\ row.stored = challenges[ch].stored
          /\ row.expires = challenges[ch].expires
          /\ row.installation = challenges[ch].installation
      BY <2>1 DEF Challenge
    <2>3. challenges' = [challenges EXCEPT ![ch] = row]
      BY <1>4
    <2>4. /\ new \in Request /\ new.pc = pc /\ new.expired = request[r].expired
          /\ new.op = request[r].op /\ new.at = request[r].at
          /\ new.challenge = ch
          /\ new.installation = request[r].installation
          /\ new.key = request[r].key /\ new.counter = request[r].counter
      BY <1>0 DEF Request, Statement
    <2>5. Become(r, new)
      BY <1>4 DEF Goto
    <2>6. ~challenges[ch].consumed /\ challenges[ch].installation = request[r].installation
      BY <1>4 DEF Consumable
    <2> HIDE DEF row, new
    <2>7. /\ challenges' \in Seq(Challenge) /\ Len(challenges') = Len(challenges)
          /\ \A c \in 1..Len(challenges) : challenges'[c] = IF c = ch THEN row ELSE challenges[c]
      BY <1>2, <2>1, <2>2, <2>3, ExceptSeq
    <2>8. TablesOK'
      BY <1>1, <2>7 DEF TypeInv, TablesOK
    <2>9. Grow
      <3>1. /\ clock <= clock /\ Len(installations) <= Len(installations)
            /\ Len(challenges) <= Len(challenges')
            /\ \A i \in 1..Len(installations) : installations[i].count <= installations[i].count
        BY <2>7, Lengths DEF TypeInv, TablesOK, Installation
      <3>2. \A c \in 1..Len(challenges) :
               /\ challenges'[c].expires = challenges[c].expires
               /\ challenges'[c].installation = challenges[c].installation
               /\ challenges[c].consumed => challenges'[c].consumed
        BY <2>2, <2>7
      <3> QED
        BY <1>1, <3>1, <3>2 DEF Grow
    <2>10. WellFormed(new, clock, challenges, Len(installations))
      BY <1>0, <1>2, <2>4 DEF WellFormed
    <2>11. TypeInv'
      BY <1>1, <2>4, <2>5, <2>8, <2>9, <2>10, GotoType
    <2>12. \A c \in 1..Len(challenges) : challenges'[c].stored = challenges[c].stored
      BY <2>2, <2>7
    <2>13. challenges'[ch].consumed
      BY <1>2, <2>2, <2>7
    <2>14. \A c \in 1..Len(challenges) : c # ch => challenges'[c] = challenges[c]
      BY <2>7
    <2>15. Consumes(r)
      BY <1>1, <1>2, <1>4, <2>4, <2>5, <2>6, <2>7, <2>12, <2>13, <2>14 DEF Consumes,
         Become
    <2> QED
      BY <2>9, <2>11, <2>15
  <1> QED
    BY <1>3, <1>4 DEF Consume

\* A key is enrolled: nobody had it, and the request gives up its challenge.
Enrolls(r) ==
    /\ request[r].op = "enroll" /\ request[r].pc = "create"
    /\ request[r].key \in Keys
    /\ \A i \in 1..Len(installations) : installations[i].key # request[r].key
    /\ installations' = Append(installations,
                               [key |-> request[r].key, active |-> TRUE, count |-> 0,
                                enrolledBy |-> request[r].challenge])
    /\ Len(installations') = Len(installations) + 1
    /\ \A i \in 1..Len(installations) : installations'[i] = installations[i]
    /\ installations'[Len(installations) + 1].enrolledBy = request[r].challenge
    /\ Return(r)
    /\ UNCHANGED <<clock, challenges, grants>>

\* create_verified ends the request, and enrols its key or nothing.
LEMMA CreateType ==
    ASSUME TypeInv, NEW r \in Requests, Create(r)
    PROVE  TypeInv' /\ Grow /\ (Quiet(r) \/ Enrolls(r))
  <1>0. request[r] \in Request /\ WellFormed(request[r], clock, challenges, Len(installations))
    BY DEF TypeInv, RequestsOK
  <1>1. UNCHANGED <<clock, challenges, grants>> /\ request[r].pc = "create" /\ Return(r)
    BY DEF Create, At
  <1>2. request[r].key \in Keys /\ request[r].op = "enroll"
    BY <1>0, <1>1 DEF WellFormed
  <1>a. installations \in Seq(Installation) /\ Len(installations) \in Nat
        /\ DOMAIN installations = 1..Len(installations)
    BY Lengths DEF TypeInv, TablesOK
  <1>3. CASE UNCHANGED installations
    <2>1. Idle \in Request /\ Idle.pc = "none"
      BY IdleWellFormed DEF TypeInv, Idle
    <2> QED
      BY <1>1, <1>3, <2>1, ReturnType DEF Quiet, Return, Become
  <1>4. CASE ~\E i \in DOMAIN installations : installations[i].key = request[r].key
    <2> DEFINE row == [key |-> request[r].key, active |-> TRUE, count |-> 0,
                       enrolledBy |-> request[r].challenge]
    <2>1. row \in Installation /\ row.enrolledBy = request[r].challenge
      BY <1>0, <1>2 DEF Request, Installation
    <2>2. installations' = Append(installations, row)
      BY <1>4 DEF Create
    <2> HIDE DEF row
    <2>3. /\ installations' \in Seq(Installation)
          /\ Len(installations') = Len(installations) + 1
          /\ \A i \in 1..Len(installations) : installations'[i] = installations[i]
          /\ installations'[Len(installations) + 1] = row
      BY <1>a, <2>1, <2>2, AppendProperties
    <2>4. TablesOK'
      BY <1>1, <2>3 DEF TypeInv, TablesOK
    <2>5. Grow
      <3>1. /\ clock <= clock /\ Len(challenges) <= Len(challenges)
            /\ Len(installations) <= Len(installations')
        BY <1>a, <2>3, Lengths DEF TypeInv, TablesOK
      <3>2. \A i \in 1..Len(installations) :
               /\ installations'[i].key = installations[i].key
               /\ installations'[i].enrolledBy = installations[i].enrolledBy
               /\ installations[i].count <= installations'[i].count
        BY <2>3, Lengths DEF TypeInv, Installation
      <3> QED
        BY <1>1, <3>1, <3>2 DEF Grow
    <2>6. TypeInv'
      BY <1>1, <2>4, <2>5, EndType
    <2>7. Enrolls(r)
      BY <1>1, <1>2, <1>4, <1>a, <2>1, <2>2, <2>3 DEF Enrolls, row
    <2> QED
      BY <2>5, <2>6, <2>7
  <1> QED
    BY <1>3, <1>4 DEF Create

\* A token request is authenticated: its device is active and its counter is
\* above the stored one, which it replaces.
Grants(r) ==
    LET i == request[r].installation
    IN /\ request[r].pc = "advance"
       /\ i \in 1..Len(installations)
       /\ request[r].counter \in 1..MaxCounter
       /\ installations[i].active
       /\ installations[i].count < request[r].counter
       /\ Len(installations') = Len(installations)
       /\ \A j \in 1..Len(installations) :
             /\ installations'[j].key = installations[j].key
             /\ installations'[j].enrolledBy = installations[j].enrolledBy
             /\ installations'[j].active = installations[j].active
             /\ installations[j].count <= installations'[j].count
       /\ installations'[i].count = request[r].counter
       /\ grants' = grants \cup {[device |-> i, challenge |-> request[r].challenge,
                                  counter |-> request[r].counter]}
       /\ Return(r)
       /\ UNCHANGED <<clock, challenges>>

\* advance_counter ends the request, and authenticates it or nothing.
LEMMA AdvanceType ==
    ASSUME TypeInv, NEW r \in Requests, Advance(r)
    PROVE  TypeInv' /\ Grow /\ (Quiet(r) \/ Grants(r))
  <1>0. request[r] \in Request /\ WellFormed(request[r], clock, challenges, Len(installations))
    BY DEF TypeInv, RequestsOK
  <1>1. UNCHANGED <<clock, challenges>> /\ request[r].pc = "advance" /\ Return(r)
    BY DEF Advance, At
  <1>2. /\ request[r].op = "token" /\ request[r].installation \in 1..Len(installations)
        /\ request[r].counter \in 1..MaxCounter
        /\ request[r].challenge \in 1..Len(challenges)
    BY <1>0, <1>1 DEF WellFormed
  <1>a. installations \in Seq(Installation) /\ Len(installations) \in Nat
        /\ \A i \in 1..Len(installations) : installations[i] \in Installation
    BY Lengths DEF TypeInv, TablesOK
  <1>3. CASE UNCHANGED <<installations, grants>>
    <2>1. Idle \in Request /\ Idle.pc = "none"
      BY IdleWellFormed DEF TypeInv, Idle
    <2> QED
      BY <1>1, <1>3, <2>1, ReturnType DEF Quiet, Return, Become
  <1>4. CASE Advanceable(r)
    <2> DEFINE i == request[r].installation
               n == request[r].counter
               row == [installations[i] EXCEPT !.count = n]
    <2>0. i \in 1..Len(installations) /\ n \in 1..MaxCounter /\ n \in Nat
          /\ installations[i].count \in Nat
      <3>1. i \in 1..Len(installations) /\ n \in 1..MaxCounter
        BY <1>2
      <3> HIDE DEF i, n
      <3>2. n \in Nat
        BY <3>1, BoundsAssumption
      <3>3. installations[i] \in Installation
        BY <1>a, <3>1
      <3> QED
        BY <3>1, <3>2, <3>3 DEF Installation
    <2>1. installations[i].active /\ installations[i].count < n
      BY <1>0, <1>4, <2>0 DEF Advanceable, Request
    <2>2. /\ row \in Installation /\ row.count = n /\ row.active = installations[i].active
          /\ row.key = installations[i].key /\ row.enrolledBy = installations[i].enrolledBy
      BY <1>a, <2>0 DEF Installation
    <2>3. installations' = [installations EXCEPT ![i] = row]
      BY <1>4 DEF Advance
    <2>4. grants' = grants \cup {[device |-> i, challenge |-> request[r].challenge,
                                  counter |-> n]}
      BY <1>4 DEF Advance
    <2> HIDE DEF row, i, n
    <2>5. /\ installations' \in Seq(Installation) /\ Len(installations') = Len(installations)
          /\ \A j \in 1..Len(installations) :
                installations'[j] = IF j = i THEN row ELSE installations[j]
      BY <1>a, <2>0, <2>2, <2>3, ExceptSeq
    <2>6. TablesOK'
      BY <1>1, <2>5 DEF TypeInv, TablesOK
    <2>7. \A j \in 1..Len(installations) :
             /\ installations'[j].key = installations[j].key
             /\ installations'[j].enrolledBy = installations[j].enrolledBy
             /\ installations'[j].active = installations[j].active
             /\ installations[j].count <= installations'[j].count
      <3>1. \A j \in 1..Len(installations) : installations[j].count \in Nat
        BY <1>a DEF Installation
      <3>2. \A j \in 1..Len(installations) : installations[j].count <= installations'[j].count
        BY <2>0, <2>1, <2>2, <2>5, <3>1
      <3>3. \A j \in 1..Len(installations) :
               /\ installations'[j].key = installations[j].key
               /\ installations'[j].enrolledBy = installations[j].enrolledBy
               /\ installations'[j].active = installations[j].active
        BY <2>2, <2>5
      <3> QED
        BY <3>2, <3>3
    <2>8. Grow
      <3>1. clock <= clock /\ Len(challenges) <= Len(challenges)
            /\ Len(installations) <= Len(installations')
        BY <1>a, <2>5, Lengths DEF TypeInv, TablesOK
      <3> QED
        BY <1>1, <2>7, <3>1 DEF Grow
    <2>9. RequestsOK'
      BY <1>1, <2>6, <2>8, RequestsMove, IdleWellFormed, KeptWellFormed DEF TypeInv,
         Return
    <2>10. GrantsOK'
      BY <1>1, <1>2, <2>0, <2>4, <2>5 DEF TypeInv, GrantsOK
    <2>11. Grants(r)
      BY <1>1, <2>0, <2>1, <2>2, <2>4, <2>5, <2>7 DEF Grants, i, n
    <2> QED
      BY <2>6, <2>8, <2>9, <2>10, <2>11 DEF TypeInv
  <1> QED
    BY <1>3, <1>4 DEF Advance

\* A device is disabled and nothing else changes.
Disables(i) ==
    /\ Len(installations') = Len(installations)
    /\ \A j \in 1..Len(installations) : j # i => installations'[j] = installations[j]
    /\ installations'[i] = [installations[i] EXCEPT !.active = FALSE]
    /\ UNCHANGED <<clock, challenges, request, grants>>

\* The rows of requests that do not move stay well formed.
LEMMA StayType ==
    ASSUME TypeInv, TablesOK', Grow, UNCHANGED <<request, grants>>
    PROVE  TypeInv'
  <1>1. RequestsOK'
    BY KeptWellFormed DEF TypeInv, RequestsOK
  <1>2. \A i \in 1..Len(installations) : i \in 1..Len(installations')
    BY LenProperties DEF TypeInv, TablesOK, Grow
  <1>3. \A ch \in 1..Len(challenges) : ch \in 1..Len(challenges')
    BY LenProperties DEF TypeInv, TablesOK, Grow
  <1> QED
    BY <1>1, <1>2, <1>3 DEF TypeInv, GrantsOK

\* Disabling an installation changes its status alone.
LEMMA DisableType ==
    ASSUME TypeInv, NEW i \in 1..Len(installations), Disable(i)
    PROVE  TypeInv' /\ Grow /\ Disables(i)
  <1>a. installations \in Seq(Installation) /\ Len(installations) \in Nat
        /\ \A j \in 1..Len(installations) : installations[j] \in Installation
    BY Lengths DEF TypeInv, TablesOK
  <1> DEFINE row == [installations[i] EXCEPT !.active = FALSE]
  <1>1. /\ row \in Installation /\ row.count = installations[i].count
        /\ row.key = installations[i].key /\ row.enrolledBy = installations[i].enrolledBy
    BY <1>a DEF Installation
  <1>2. installations' = [installations EXCEPT ![i] = row]
    BY DEF Disable
  <1> HIDE DEF row
  <1>3. /\ installations' \in Seq(Installation) /\ Len(installations') = Len(installations)
        /\ \A j \in 1..Len(installations) :
              installations'[j] = IF j = i THEN row ELSE installations[j]
    BY <1>a, <1>1, <1>2, ExceptSeq
  <1>4. TablesOK'
    BY <1>3 DEF TypeInv, TablesOK, Disable
  <1>5. Grow
    <2>1. clock <= clock /\ Len(challenges) <= Len(challenges)
          /\ Len(installations) <= Len(installations')
      BY <1>a, <1>3, Lengths DEF TypeInv, TablesOK
    <2>2. \A j \in 1..Len(installations) :
             /\ installations'[j].key = installations[j].key
             /\ installations'[j].enrolledBy = installations[j].enrolledBy
             /\ installations[j].count <= installations'[j].count
      <3>1. \A j \in 1..Len(installations) : installations[j].count \in Nat
        BY <1>a DEF Installation
      <3> QED
        BY <1>1, <1>3, <3>1
    <2> QED
      BY <2>1, <2>2 DEF Grow, Disable
  <1>6. TypeInv'
    BY <1>4, <1>5, StayType DEF Disable
  <1>7. Disables(i)
    BY <1>3 DEF Disables, Disable, row
  <1> QED
    BY <1>5, <1>6, <1>7

\* The clock only moves forward.
LEMMA TickType ==
    ASSUME TypeInv, Tick
    PROVE  TypeInv' /\ Grow
  <1>1. TablesOK'
    BY DEF TypeInv, TablesOK, Tick
  <1>2. Grow
    BY Lengths DEF TypeInv, TablesOK, Tick, Grow, Installation
  <1> QED
    BY <1>1, <1>2, StayType DEF Tick

----
(* The invariants. *)

\* Empty tables and idle requests are well typed.
LEMMA TypeInit == Init => TypeInv
  <1> SUFFICES ASSUME Init PROVE TypeInv
    OBVIOUS
  <1>1. TablesOK
    <2>1. /\ challenges \in Seq(Challenge) /\ Len(challenges) = 0
          /\ installations \in Seq(Installation)
      BY EmptySeq DEF Init
    <2> QED
      BY <2>1, BoundsAssumption DEF Init, TablesOK
  <1>2. RequestsOK
    BY <1>1, IdleWellFormed DEF Init, RequestsOK
  <1>3. GrantsOK
    BY DEF Init, GrantsOK
  <1> QED
    BY <1>1, <1>2, <1>3 DEF TypeInv

\* Every step is one of the kinds above.
LEMMA Steps ==
    ASSUME TypeInv, [Next]_vars
    PROVE  /\ TypeInv' /\ Grow
           /\ \/ UNCHANGED vars
              \/ Tick
              \/ \E i \in 1..Len(installations) : Disables(i)
              \/ \E r \in Requests :
                    \/ Quiet(r) \/ Insert(r) \/ DeleteExpired(r)
                    \/ Consumes(r) \/ Enrolls(r) \/ Grants(r)
  <1>1. CASE UNCHANGED vars
    <2>1. TypeInv' /\ Grow
      BY <1>1, SameTables, StayType DEF TypeInv, vars
    <2> QED
      BY <1>1, <2>1
  <1>2. ASSUME NEW i \in DOMAIN installations, Disable(i)
        PROVE  TypeInv' /\ Grow /\ \E j \in 1..Len(installations) : Disables(j)
    BY <1>2, DisableType, Lengths DEF TypeInv
  <1>3. CASE Tick
    BY <1>3, TickType
  <1>4. ASSUME NEW r \in Requests, Handler(r)
        PROVE  /\ TypeInv' /\ Grow
               /\ \/ Quiet(r) \/ Insert(r) \/ DeleteExpired(r)
                  \/ Consumes(r) \/ Enrolls(r) \/ Grants(r)
    BY <1>4, BeginRequestType, SelectExpiredType, DeleteExpiredType, InsertType,
       FindActiveType, ConsumeType, CreateType, AdvanceType, DropType
       DEF Handler, BeginRequest
  <1> QED
    BY <1>1, <1>2, <1>3, <1>4 DEF Next

\* The tables, the requests and the history keep their types: every row a
\* request refers to exists.
THEOREM TypeCorrect == Spec => []TypeOK
  <1>1. TypeInv => TypeOK
    <2> SUFFICES ASSUME TypeInv PROVE TypeOK
      OBVIOUS
    <2>1. grants \subseteq [device : Nat, challenge : Nat, counter : Nat]
      <3>1. /\ 1..Len(installations) \subseteq Nat /\ 1..Len(challenges) \subseteq Nat
            /\ 1..MaxCounter \subseteq Nat
        BY Lengths, BoundsAssumption DEF TypeInv
      <3> QED
        BY <3>1 DEF TypeInv, GrantsOK
    <2> QED
      BY <2>1 DEF TypeInv, TypeOK, TablesOK, RequestsOK, WellFormed
  <1>2. TypeInv /\ [Next]_vars => TypeInv'
    BY Steps
  <1> QED
    BY <1>1, <1>2, TypeInit, PTL DEF Spec

\* What a history and a held challenge say about the table of challenges.
Tied ==
    /\ \A i \in 1..Len(installations) :
          /\ installations[i].enrolledBy \in 1..Len(challenges)
          /\ challenges[installations[i].enrolledBy].consumed
    /\ \A g \in grants : challenges[g.challenge].consumed
    /\ \A r \in Requests :
          Holding(r) => challenges[request[r].challenge].installation = request[r].installation
    /\ \A ch \in 1..Len(challenges) :
          challenges[ch].installation \in 0..Len(installations)

\* The inductive invariant.
IInv == TypeInv /\ OneHolder /\ Tied /\ CounterCoversGrants /\ LiveChallengesSurvive

\* The inductive invariant holds of an empty database.
LEMMA InvInit == Init => IInv
  <1> SUFFICES ASSUME Init PROVE IInv
    OBVIOUS
  <1>1. \A r \in Requests : ~Holding(r)
    BY DEF Init, Holding, Idle
  <1>2. Len(installations) = 0 /\ Len(challenges) = 0 /\ DOMAIN installations = {}
        /\ DOMAIN challenges = {}
    BY EmptySeq DEF Init
  <1> QED
    BY <1>1, <1>2, TypeInit DEF Init, IInv, OneHolder, Tied, CounterCoversGrants,
       LiveChallengesSurvive

\* A held challenge, and the rows, of a well-formed state.
LEMMA Holders ==
    ASSUME TypeInv, NEW r \in Requests, Holding(r)
    PROVE  request[r].challenge \in 1..Len(challenges)
  BY DEF TypeInv, RequestsOK, WellFormed, Holding

\* After a step that moves r off any held challenge, the holders are those that
\* held before, and hold the same.
LEMMA FewerHolders ==
    ASSUME TypeInv, NEW r \in Requests, NEW new,
           request' = [request EXCEPT ![r] = new], new.pc \notin {"create", "advance"}
    PROVE  \A s \in Requests : request'[s].pc \in {"create", "advance"} =>
              s # r /\ request'[s] = request[s] /\ Holding(s)
  BY DEF TypeInv, RequestsOK, Holding

\* A step that gives no request a challenge and enrols nobody by a held one
\* keeps the holders apart.
LEMMA HoldersNext ==
    ASSUME IInv, Grow, TypeInv',
           \A s \in Requests : Holding(s)' => request'[s] = request[s] /\ Holding(s),
           UNCHANGED grants,
           \A i \in 1..Len(installations') :
              \/ i \in 1..Len(installations)
              \/ \A s \in Requests : Holding(s)' =>
                    installations'[i].enrolledBy # request[s].challenge
    PROVE  OneHolder'
  <1>1. \A s, t \in Requests :
           Holding(s)' /\ Holding(t)' /\ request'[s].challenge = request'[t].challenge => s = t
    BY DEF IInv, OneHolder
  <1>2. \A s \in Requests : Holding(s)' =>
           /\ challenges'[request'[s].challenge].consumed
           /\ \A g \in grants' : g.challenge # request'[s].challenge
    BY Holders DEF IInv, OneHolder, Grow
  <1>3. \A s \in Requests : Holding(s)' =>
           \A i \in 1..Len(installations') :
              installations'[i].enrolledBy # request'[s].challenge
    <2> SUFFICES ASSUME NEW s \in Requests, Holding(s)', NEW i \in 1..Len(installations')
                 PROVE  installations'[i].enrolledBy # request'[s].challenge
      OBVIOUS
    <2>1. CASE i \in 1..Len(installations)
      <3>1. installations[i].enrolledBy # request[s].challenge
        BY <2>1, Lengths DEF IInv, TypeInv, OneHolder
      <3> QED
        BY <2>1, <3>1 DEF Grow
    <2> QED
      BY <2>1
  <1>4. DOMAIN installations' = 1..Len(installations')
    BY LenProperties DEF TypeInv, TablesOK
  <1> QED
    BY <1>1, <1>2, <1>3, <1>4 DEF OneHolder

\* A step keeps histories and held challenges tied to consumed rows when it
\* adds only such histories and holders.
LEMMA TiedNext ==
    ASSUME IInv, Grow, TypeInv',
           \A s \in Requests : Holding(s)' =>
              /\ request'[s].challenge \in 1..Len(challenges)
              /\ challenges[request'[s].challenge].installation = request'[s].installation,
           \A g \in grants' : g \in grants \/ /\ g.challenge \in 1..Len(challenges)
                                              /\ challenges[g.challenge].consumed,
           \A i \in 1..Len(installations') :
              \/ i \in 1..Len(installations)
              \/ /\ installations'[i].enrolledBy \in 1..Len(challenges)
                 /\ challenges[installations'[i].enrolledBy].consumed,
           \A ch \in 1..Len(challenges') :
              \/ ch \in 1..Len(challenges)
              \/ challenges'[ch].installation \in 0..Len(installations)
    PROVE  Tied'
  <1>1. /\ Len(challenges) \in Nat /\ Len(challenges') \in Nat
        /\ Len(installations) \in Nat /\ Len(installations') \in Nat
        /\ Len(challenges) <= Len(challenges') /\ Len(installations) <= Len(installations')
    BY LenProperties DEF IInv, TypeInv, TablesOK, Grow
  <1>2. \A i \in 1..Len(installations') :
           /\ installations'[i].enrolledBy \in 1..Len(challenges')
           /\ challenges'[installations'[i].enrolledBy].consumed
    <2> SUFFICES ASSUME NEW i \in 1..Len(installations')
                 PROVE  /\ installations'[i].enrolledBy \in 1..Len(challenges)
                        /\ challenges[installations'[i].enrolledBy].consumed
      BY <1>1 DEF Grow
    <2>1. CASE i \in 1..Len(installations)
      BY <2>1 DEF IInv, Tied, Grow
    <2> QED
      BY <2>1
  <1>3. \A g \in grants' : challenges'[g.challenge].consumed
    <2> SUFFICES ASSUME NEW g \in grants'
                 PROVE  g.challenge \in 1..Len(challenges) /\ challenges[g.challenge].consumed
      BY DEF Grow
    <2>1. CASE g \in grants
      BY <2>1 DEF IInv, Tied, TypeInv, GrantsOK
    <2> QED
      BY <2>1
  <1>4. \A s \in Requests : Holding(s)' =>
           challenges'[request'[s].challenge].installation = request'[s].installation
    BY DEF Grow
  <1>5. \A ch \in 1..Len(challenges') :
           challenges'[ch].installation \in 0..Len(installations')
    <2> SUFFICES ASSUME NEW ch \in 1..Len(challenges')
                 PROVE  challenges'[ch].installation \in 0..Len(installations)
      BY <1>1
    <2>1. CASE ch \in 1..Len(challenges)
      BY <2>1 DEF IInv, Tied, Grow
    <2> QED
      BY <2>1
  <1> QED
    BY <1>2, <1>3, <1>4, <1>5 DEF Tied

\* A step keeps the counters above the grants when each grant it adds is covered:
\* no counter ever goes down.
LEMMA CountersNext ==
    ASSUME IInv, Grow, TypeInv',
           \A g \in grants' : g \in grants \/ g.counter <= installations'[g.device].count
    PROVE  CounterCoversGrants'
  <1> SUFFICES ASSUME NEW g \in grants' PROVE g.counter <= installations'[g.device].count
    BY DEF CounterCoversGrants
  <1>1. CASE g \in grants
    <2>1. g.device \in 1..Len(installations) /\ g.counter \in 1..MaxCounter
      BY <1>1 DEF IInv, TypeInv, GrantsOK
    <2>2. g.counter <= installations[g.device].count
      BY <1>1 DEF IInv, CounterCoversGrants
    <2>3. installations[g.device].count <= installations'[g.device].count
      BY <2>1 DEF Grow
    <2>4. g.counter \in Nat /\ installations[g.device].count \in Nat
      BY <2>1, Lengths, BoundsAssumption DEF IInv, TypeInv, Installation
    <2>5. installations'[g.device].count \in Nat
      <3>1. g.device \in 1..Len(installations')
        BY <2>1, LenProperties DEF Grow, IInv, TypeInv, TablesOK
      <3>2. installations'[g.device] \in Installation
        BY <3>1, ElementOfSeq DEF TypeInv, TablesOK
      <3> QED
        BY <3>2 DEF Installation
    <2> QED
      BY <2>2, <2>3, <2>4, <2>5
  <1> QED
    BY <1>1

\* A step keeps the live challenges when it deletes expired rows only.
LEMMA LiveNext ==
    ASSUME IInv, Grow, TypeInv',
           \A ch \in 1..Len(challenges) :
              \/ challenges'[ch].stored \/ challenges[ch].expires <= clock
              \/ ~challenges[ch].stored,
           \A ch \in 1..Len(challenges') : ch \in 1..Len(challenges) \/ challenges'[ch].stored
    PROVE  LiveChallengesSurvive'
  <1>0. DOMAIN challenges' = 1..Len(challenges') /\ DOMAIN challenges = 1..Len(challenges)
    BY LenProperties DEF TypeInv, TablesOK, IInv
  <1> SUFFICES ASSUME NEW ch \in 1..Len(challenges'), challenges'[ch].expires > clock'
               PROVE  challenges'[ch].stored
    BY <1>0 DEF LiveChallengesSurvive
  <1>1. CASE ch \in 1..Len(challenges)
    <2>1. challenges'[ch].expires = challenges[ch].expires /\ challenges[ch].expires \in Nat
      BY <1>1, Lengths DEF Grow, IInv, TypeInv, Challenge
    <2>2. challenges[ch].expires > clock /\ ~(challenges[ch].expires <= clock)
      BY <2>1 DEF IInv, TypeInv, TablesOK, Grow
    <2>3. challenges[ch].stored
      BY <1>0, <1>1, <2>2 DEF IInv, LiveChallengesSurvive
    <2> QED
      BY <1>1, <2>2, <2>3
  <1> QED
    BY <1>1

\* A step that writes no row and no history and gives no request a challenge.
LEMMA FrameNext ==
    ASSUME IInv, TypeInv', Grow, UNCHANGED <<challenges, grants>>,
           Len(installations') = Len(installations),
           \A s \in Requests : Holding(s)' => request'[s] = request[s] /\ Holding(s)
    PROVE  IInv'
  <1>1. OneHolder'
    BY HoldersNext
  <1>2. Tied'
    <2>1. \A s \in Requests : Holding(s)' =>
              /\ request'[s].challenge \in 1..Len(challenges)
              /\ challenges[request'[s].challenge].installation = request'[s].installation
      BY Holders DEF IInv, Tied
    <2> QED
      BY <2>1, TiedNext
  <1>3. CounterCoversGrants'
    BY CountersNext
  <1>4. LiveChallengesSurvive'
    BY LiveNext
  <1> QED
    BY <1>1, <1>2, <1>3, <1>4 DEF IInv

\* The invariant is inductive.
LEMMA InvNext == IInv /\ [Next]_vars => IInv'
  <1> SUFFICES ASSUME IInv, [Next]_vars PROVE IInv'
    OBVIOUS
  <1>0. TypeInv /\ TypeInv' /\ Grow
    BY Steps DEF IInv
  <1>a. /\ Len(challenges) \in Nat /\ DOMAIN challenges = 1..Len(challenges)
        /\ Len(installations) \in Nat /\ DOMAIN installations = 1..Len(installations)
    BY <1>0, Lengths DEF TypeInv
  <1>1. CASE UNCHANGED vars \/ Tick
    BY <1>0, <1>1, FrameNext DEF vars, Tick, Holding
  <1>2. ASSUME NEW i \in 1..Len(installations), Disables(i) PROVE IInv'
    BY <1>0, <1>2, FrameNext DEF Disables, Holding
  <1>3. ASSUME NEW r \in Requests, Quiet(r) PROVE IInv'
    <2>1. PICK new \in Request : /\ request' = [request EXCEPT ![r] = new]
                                 /\ new.pc \notin {"create", "advance"}
                                 /\ UNCHANGED <<clock, challenges, installations, grants>>
      BY <1>3 DEF Quiet
    <2>2. \A s \in Requests : Holding(s)' => request'[s] = request[s] /\ Holding(s)
      BY <1>0, <2>1, FewerHolders DEF Holding
    <2> QED
      BY <1>0, <2>1, <2>2, FrameNext
  <1>i. ASSUME NEW r \in Requests, Return(r)
        PROVE  \A s \in Requests :
                  Holding(s)' => request'[s] = request[s] /\ Holding(s) /\ s # r
    <2>1. Idle.pc \notin {"create", "advance"}
      BY DEF Idle
    <2> QED
      BY <1>0, <1>i, <2>1, FewerHolders DEF Return, Become, Holding
  <1>4. ASSUME NEW r \in Requests, Insert(r) PROVE IInv'
    <2>1. /\ Len(challenges') = Len(challenges) + 1
          /\ \A ch \in 1..Len(challenges) : challenges'[ch] = challenges[ch]
          /\ challenges'[Len(challenges) + 1].stored
          /\ challenges'[Len(challenges) + 1].installation \in 0..Len(installations)
      BY <1>0, <1>4, InsertType
    <2>2. Return(r) /\ UNCHANGED <<clock, installations, grants>>
      BY <1>4 DEF Insert
    <2>3. \A s \in Requests : Holding(s)' => request'[s] = request[s] /\ Holding(s)
      BY <2>2, <1>i
    <2>4. \A ch \in 1..Len(challenges') : ch \in 1..Len(challenges) \/ ch = Len(challenges) + 1
      BY <1>a, <2>1
    <2>5. OneHolder'
      BY <1>0, <2>2, <2>3, HoldersNext
    <2>6. Tied'
      <3>1. \A s \in Requests : Holding(s)' =>
                /\ request'[s].challenge \in 1..Len(challenges)
                /\ challenges[request'[s].challenge].installation = request'[s].installation
        BY <1>0, <2>3, Holders DEF IInv, Tied
      <3> QED
        BY <1>0, <2>1, <2>2, <2>4, <3>1, TiedNext
    <2>7. CounterCoversGrants'
      BY <1>0, <2>2, CountersNext
    <2>8. LiveChallengesSurvive'
      BY <1>0, <2>1, <2>4, LiveNext
    <2> QED
      BY <1>0, <2>5, <2>6, <2>7, <2>8 DEF IInv
  <1>5. ASSUME NEW r \in Requests, DeleteExpired(r) PROVE IInv'
    <2>1. /\ Len(challenges') = Len(challenges)
          /\ \A ch \in 1..Len(challenges) :
                challenges'[ch].stored \/ challenges[ch].expires <= clock
                    \/ ~challenges[ch].stored
      BY <1>0, <1>5, DeleteExpiredType
    <2>2. PICK new \in Request : request' = [request EXCEPT ![r] = new] /\ new.pc = "insert"
      BY <1>0, <1>5, DeleteExpiredType
    <2>3. \A s \in Requests : Holding(s)' => request'[s] = request[s] /\ Holding(s)
      BY <1>0, <2>2, FewerHolders DEF Holding
    <2>4. UNCHANGED <<clock, installations, grants>>
      BY <1>5 DEF DeleteExpired
    <2>5. OneHolder'
      BY <1>0, <2>3, <2>4, HoldersNext
    <2>6. Tied'
      <3>1. \A s \in Requests : Holding(s)' =>
                /\ request'[s].challenge \in 1..Len(challenges)
                /\ challenges[request'[s].challenge].installation = request'[s].installation
        BY <1>0, <2>3, Holders DEF IInv, Tied
      <3> QED
        BY <1>0, <2>1, <2>4, <3>1, TiedNext
    <2>7. CounterCoversGrants'
      BY <1>0, <2>4, CountersNext
    <2>8. LiveChallengesSurvive'
      BY <1>0, <2>1, LiveNext
    <2> QED
      BY <1>0, <2>5, <2>6, <2>7, <2>8 DEF IInv
  <1>6. ASSUME NEW r \in Requests, Consumes(r) PROVE IInv'
    <2> DEFINE ch == request[r].challenge
    <2>1. /\ ch \in 1..Len(challenges) /\ ~challenges[ch].consumed
          /\ challenges[ch].installation = request[r].installation
          /\ Len(challenges') = Len(challenges)
          /\ \A c \in 1..Len(challenges) : challenges'[c].stored = challenges[c].stored
          /\ challenges'[ch].consumed
          /\ UNCHANGED <<clock, installations, grants>>
      BY <1>6 DEF Consumes
    <2>2. PICK new \in Request : /\ request' = [request EXCEPT ![r] = new]
                                 /\ new.challenge = ch
                                 /\ new.installation = request[r].installation
      BY <1>6 DEF Consumes
    <2> HIDE DEF ch
    <2>3. request'[r] = new /\ \A s \in Requests : s # r => request'[s] = request[s]
      BY <1>0, <2>2 DEF TypeInv, RequestsOK
    \* Nobody holds, was granted or enrolled by a challenge that is not consumed.
    <2>4. /\ \A s \in Requests : Holding(s) => request[s].challenge # ch
          /\ \A g \in grants : g.challenge # ch
          /\ \A i \in 1..Len(installations) : installations[i].enrolledBy # ch
      BY <2>1 DEF IInv, OneHolder, Tied
    <2>5. \A s \in Requests : Holding(s)' => s = r \/ Holding(s)
      BY <2>3 DEF Holding
    <2>6. OneHolder'
      <3>1. \A s, t \in Requests :
               Holding(s)' /\ Holding(t)' /\ request'[s].challenge = request'[t].challenge
                  => s = t
        BY <2>2, <2>3, <2>4, <2>5 DEF IInv, OneHolder
      <3>2. \A s \in Requests : Holding(s)' =>
               /\ challenges'[request'[s].challenge].consumed
               /\ \A g \in grants : g.challenge # request'[s].challenge
               /\ \A i \in 1..Len(installations) :
                     installations[i].enrolledBy # request'[s].challenge
        <4> SUFFICES ASSUME NEW s \in Requests, Holding(s)'
                     PROVE  /\ challenges'[request'[s].challenge].consumed
                            /\ \A g \in grants : g.challenge # request'[s].challenge
                            /\ \A i \in 1..Len(installations) :
                                  installations[i].enrolledBy # request'[s].challenge
          OBVIOUS
        <4>1. CASE s = r
          BY <4>1, <2>1, <2>2, <2>3, <2>4
        <4>2. CASE s # r
          <5>1. Holding(s) /\ request'[s] = request[s]
            BY <4>2, <2>3, <2>5
          <5> QED
            BY <1>0, <1>a, <5>1, Holders DEF IInv, OneHolder, Grow
        <4> QED
          BY <4>1, <4>2
      <3> QED
        BY <1>a, <2>1, <3>1, <3>2 DEF OneHolder
    <2>7. Tied'
      <3>1. \A s \in Requests : Holding(s)' =>
                /\ request'[s].challenge \in 1..Len(challenges)
                /\ challenges[request'[s].challenge].installation = request'[s].installation
        BY <1>0, <2>1, <2>2, <2>3, <2>5, Holders DEF IInv, Tied
      <3> QED
        BY <1>0, <2>1, <3>1, TiedNext
    <2>8. CounterCoversGrants'
      BY <1>0, <2>1, CountersNext
    <2>9. LiveChallengesSurvive'
      BY <1>0, <2>1, LiveNext
    <2> QED
      BY <1>0, <2>6, <2>7, <2>8, <2>9 DEF IInv
  <1>7. ASSUME NEW r \in Requests, Enrolls(r) PROVE IInv'
    <2>1. /\ Len(installations') = Len(installations) + 1
          /\ installations'[Len(installations) + 1].enrolledBy = request[r].challenge
          /\ Return(r) /\ UNCHANGED <<clock, challenges, grants>>
          /\ Holding(r)
      BY <1>7 DEF Enrolls, Holding
    <2>2. \A s \in Requests : Holding(s)' => request'[s] = request[s] /\ Holding(s) /\ s # r
      BY <2>1, <1>i
    <2>3. \A i \in 1..Len(installations') :
             i \in 1..Len(installations) \/ i = Len(installations) + 1
      BY <1>a, <2>1
    <2>4. \A s \in Requests : Holding(s)' => request[s].challenge # request[r].challenge
      BY <2>1, <2>2 DEF IInv, OneHolder
    <2>5. OneHolder'
      BY <1>0, <2>1, <2>2, <2>3, <2>4, HoldersNext
    <2>6. Tied'
      <3>1. \A s \in Requests : Holding(s)' =>
                /\ request'[s].challenge \in 1..Len(challenges)
                /\ challenges[request'[s].challenge].installation = request'[s].installation
        BY <1>0, <2>2, Holders DEF IInv, Tied
      <3>2. request[r].challenge \in 1..Len(challenges) /\ challenges[request[r].challenge].consumed
        BY <1>0, <2>1, Holders DEF IInv, OneHolder
      <3> QED
        BY <1>0, <2>1, <2>3, <3>1, <3>2, TiedNext
    <2>7. CounterCoversGrants'
      BY <1>0, <2>1, CountersNext
    <2>8. LiveChallengesSurvive'
      BY <1>0, <2>1, LiveNext
    <2> QED
      BY <1>0, <2>5, <2>6, <2>7, <2>8 DEF IInv
  <1>8. ASSUME NEW r \in Requests, Grants(r) PROVE IInv'
    <2> DEFINE grant == [device |-> request[r].installation,
                         challenge |-> request[r].challenge,
                         counter |-> request[r].counter]
    <2>1. /\ Len(installations') = Len(installations)
          /\ installations'[request[r].installation].count = request[r].counter
          /\ grants' = grants \cup {grant}
          /\ Return(r) /\ UNCHANGED <<clock, challenges>>
          /\ Holding(r) /\ request[r].counter \in Nat
      BY <1>8, BoundsAssumption DEF Grants, Holding
    <2>2. /\ grant.device = request[r].installation /\ grant.counter = request[r].counter
          /\ grant.challenge = request[r].challenge
      OBVIOUS
    <2> HIDE DEF grant
    <2>3. \A s \in Requests : Holding(s)' => request'[s] = request[s] /\ Holding(s) /\ s # r
      BY <2>1, <1>i
    <2>4. \A s \in Requests : Holding(s)' => request[s].challenge # request[r].challenge
      BY <2>1, <2>3 DEF IInv, OneHolder
    <2>5. request[r].challenge \in 1..Len(challenges) /\ challenges[request[r].challenge].consumed
      BY <1>0, <2>1, Holders DEF IInv, OneHolder
    <2>6. OneHolder'
      <3>1. \A s, t \in Requests :
               Holding(s)' /\ Holding(t)' /\ request'[s].challenge = request'[t].challenge
                  => s = t
        BY <2>3 DEF IInv, OneHolder
      <3>2. \A s \in Requests : Holding(s)' =>
               /\ challenges[request'[s].challenge].consumed
               /\ \A g \in grants' : g.challenge # request'[s].challenge
        BY <2>1, <2>2, <2>3, <2>4 DEF IInv, OneHolder
      <3>3. \A s \in Requests : Holding(s)' =>
               \A i \in 1..Len(installations) :
                  installations'[i].enrolledBy # request'[s].challenge
        BY <1>0, <1>a, <2>3 DEF IInv, OneHolder, Grow
      <3>4. DOMAIN installations' = 1..Len(installations)
        BY <1>0, <2>1, LenProperties DEF TypeInv, TablesOK
      <3> QED
        BY <2>1, <3>1, <3>2, <3>3, <3>4 DEF OneHolder
    <2>7. Tied'
      <3>1. \A s \in Requests : Holding(s)' =>
                /\ request'[s].challenge \in 1..Len(challenges)
                /\ challenges[request'[s].challenge].installation = request'[s].installation
        BY <1>0, <2>3, Holders DEF IInv, Tied
      <3> QED
        BY <1>0, <2>1, <2>2, <2>5, <3>1, TiedNext
    <2>8. CounterCoversGrants'
      BY <1>0, <2>1, <2>2, CountersNext
    <2>9. LiveChallengesSurvive'
      BY <1>0, <2>1, LiveNext
    <2> QED
      BY <1>0, <2>6, <2>7, <2>8, <2>9 DEF IInv
  <1> QED
    BY <1>0, <1>1, <1>2, <1>3, <1>4, <1>5, <1>6, <1>7, <1>8, Steps

\* However many requests present the same evidence, and whenever a handler is
\* dropped, one of them at most goes on with the challenge it redeemed, and
\* only while nobody has enrolled or authenticated by it.
THEOREM OneHolderHolds == Spec => []OneHolder
  <1>1. IInv => OneHolder
    BY DEF IInv
  <1> QED
    BY <1>1, InvInit, InvNext, PTL DEF Spec

\* The stored counter is at least the counter of every authenticated request.
THEOREM CountersHold == Spec => []CounterCoversGrants
  <1>1. IInv => CounterCoversGrants
    BY DEF IInv
  <1> QED
    BY <1>1, InvInit, InvNext, PTL DEF Spec

\* Cleanup leaves every unexpired challenge in the table.
THEOREM LiveChallengesHold == Spec => []LiveChallengesSurvive
  <1>1. IInv => LiveChallengesSurvive
    BY DEF IInv
  <1> QED
    BY <1>1, InvInit, InvNext, PTL DEF Spec

----
(* Refinement. *)

\* A step that leaves the abstract state alone.
LEMMA Stutters ==
    ASSUME TablesOK, TablesOK', Len(installations') = Len(installations),
           Len(challenges) <= Len(challenges'), UNCHANGED grants,
           \A ch \in 1..Len(challenges') :
              \/ /\ ch \in 1..Len(challenges)
                 /\ challenges'[ch].consumed = challenges[ch].consumed
                 /\ challenges'[ch].installation = challenges[ch].installation
              \/ ch \notin 1..Len(challenges) /\ ~challenges'[ch].consumed,
           \A i \in 1..Len(installations) :
              /\ installations'[i].key = installations[i].key
              /\ installations'[i].enrolledBy = installations[i].enrolledBy
              /\ installations'[i].active = installations[i].active
    PROVE  UNCHANGED Promise!vars
  <1>1. /\ DOMAIN challenges = 1..Len(challenges) /\ DOMAIN challenges' = 1..Len(challenges')
        /\ DOMAIN installations = 1..Len(installations)
        /\ DOMAIN installations' = 1..Len(installations')
        /\ Len(challenges) \in Nat /\ Len(challenges') \in Nat
    BY LenProperties DEF TablesOK
  <1>2. Spent' = Spent
    <2>1. {c \in DOMAIN challenges' : challenges'[c].consumed}
             = {c \in DOMAIN challenges : challenges[c].consumed}
      BY <1>1
    <2> QED
      BY <2>1, <1>1 DEF Spent
  <1>3. Devices' = Devices
    BY <1>1 DEF Devices
  <1> QED
    BY <1>2, <1>3 DEF Promise!vars

\* An empty database is an initial state of the promise.
LEMMA KeepsInit == Init => Promise!Init
  <1> SUFFICES ASSUME Init PROVE Promise!Init
    OBVIOUS
  <1>1. Spent = {}
    BY DEF Init, Spent
  <1>2. Devices = <<>>
    BY DEF Init, Devices
  <1> QED
    BY <1>1, <1>2 DEF Init, Promise!Init

\* Consuming a challenge is a Spend of TelemetryGrants.
LEMMA SpendStep ==
    ASSUME IInv, TypeInv', Grow, NEW r \in Requests, Consumes(r)
    PROVE  Promise!Next
  <1> DEFINE ch == request[r].challenge
  <1>1. /\ ch \in 1..Len(challenges) /\ ~challenges[ch].consumed
        /\ challenges[ch].installation = request[r].installation
        /\ Len(challenges') = Len(challenges)
        /\ \A c \in 1..Len(challenges) : c # ch => challenges'[c] = challenges[c]
        /\ challenges'[ch].consumed
        /\ UNCHANGED <<clock, installations, grants>>
    BY DEF Consumes
  <1> HIDE DEF ch
  <1>3. /\ DOMAIN challenges = 1..Len(challenges) /\ DOMAIN challenges' = 1..Len(challenges)
        /\ DOMAIN installations = 1..Len(installations)
    BY <1>1, LenProperties DEF IInv, TypeInv, TablesOK
  <1>4. Spent' = Spent \cup {[challenge |-> ch, device |-> challenges[ch].installation]}
    BY <1>1, <1>3 DEF Spent, Grow
  <1>5. \A s \in Spent : s.challenge # ch
    BY <1>1 DEF Spent
  <1>6. Devices' = Devices
    BY <1>1 DEF Devices
  <1>7. challenges[ch].installation \in {0} \cup DOMAIN Devices
    <2>1. DOMAIN Devices = 1..Len(installations) /\ Len(installations) \in Nat
      BY <1>3, Lengths DEF Devices, IInv, TypeInv
    <2> QED
      BY <1>1, <2>1 DEF IInv, Tied
  <1>8. ch \in 1..MaxChallenges
    BY <1>1, Lengths, BoundsAssumption DEF IInv, TypeInv, TablesOK
  <1>9. Promise!Spend(ch, challenges[ch].installation)
    BY <1>1, <1>4, <1>5, <1>6 DEF Promise!Spend
  <1> QED
    BY <1>7, <1>8, <1>9 DEF Promise!Next, Promise!NoDevice

\* Creating an installation is an Enroll of TelemetryGrants.
LEMMA EnrollStep ==
    ASSUME IInv, TypeInv', Grow, NEW r \in Requests, Enrolls(r)
    PROVE  Promise!Next
  <1> DEFINE ch == request[r].challenge
             k == request[r].key
             device == [key |-> k, enrolledBy |-> ch, active |-> TRUE]
  <1>0. request[r] \in Request /\ WellFormed(request[r], clock, challenges, Len(installations))
    BY DEF IInv, TypeInv, RequestsOK
  <1>1. /\ k \in Keys /\ ch \in 1..Len(challenges) /\ Holding(r)
        /\ \A i \in 1..Len(installations) : installations[i].key # k
        /\ challenges[ch].installation = NoInstallation
        /\ UNCHANGED <<challenges, grants>>
    BY <1>0, Holders DEF Enrolls, Holding, IInv, Tied, WellFormed
  <1>2. /\ challenges[ch].consumed
        /\ \A i \in 1..Len(installations) : installations[i].enrolledBy # ch
    BY <1>1, Lengths DEF IInv, TypeInv, OneHolder
  <1>3. /\ installations \in Seq(Installation) /\ Len(installations) \in Nat
        /\ DOMAIN installations = 1..Len(installations)
        /\ DOMAIN challenges = 1..Len(challenges)
        /\ DOMAIN installations' = 1..Len(installations')
    BY LenProperties DEF IInv, TypeInv, TablesOK
  <1>4. /\ Len(installations') = Len(installations) + 1
        /\ \A i \in 1..Len(installations) : installations'[i] = installations[i]
        /\ installations'[Len(installations) + 1].key = k
        /\ installations'[Len(installations) + 1].enrolledBy = ch
        /\ installations'[Len(installations) + 1].active = TRUE
    <2> DEFINE row == [key |-> k, active |-> TRUE, count |-> 0, enrolledBy |-> ch]
    <2>1. row \in Installation /\ row.key = k /\ row.active = TRUE /\ row.enrolledBy = ch
      BY <1>0, <1>1 DEF Installation, Request
    <2>2. installations' = Append(installations, row)
      BY DEF Enrolls
    <2> HIDE DEF row, k, ch
    <2> QED
      BY <1>3, <2>1, <2>2, AppendProperties
  <1>5. Devices' = Append(Devices, device)
    <2> DEFINE D == [key : Keys, enrolledBy : Nat, active : BOOLEAN]
               n == Len(installations)
    <2>1. device \in D
      BY <1>0, <1>1 DEF Request
    <2>2. Devices \in [1..n -> D]
      BY <1>3, Lengths DEF Devices, IInv, TypeInv, Installation
    <2>b. n \in Nat
      BY <1>3
    <2>3. Devices \in Seq(D) /\ Len(Devices) = n
      <3> HIDE DEF D, n
      <3>1. Devices \in Seq(D)
        BY <2>b, <2>2, SeqDef
      <3> QED
        BY <2>b, <2>2, <3>1, LenProperties
    <2>a. device.key = k /\ device.enrolledBy = ch /\ device.active = TRUE
      OBVIOUS
    <2> HIDE DEF D, device, k, ch
    <2>4. /\ Append(Devices, device) \in Seq(D) /\ Len(Append(Devices, device)) = n + 1
          /\ \A i \in 1..n : Append(Devices, device)[i] = Devices[i]
          /\ Append(Devices, device)[n + 1] = device
      BY <2>1, <2>3, AppendProperties
    <2>5. DOMAIN Append(Devices, device) = 1..(n + 1)
      BY <2>4, LenProperties
    <2>6. DOMAIN Devices' = 1..(n + 1)
      BY <1>3, <1>4 DEF Devices
    <2>7. \A i \in 1..n : Devices'[i] = Devices[i]
      <3>1. \A i \in 1..n : i \in DOMAIN installations'
        BY <1>3, <1>4
      <3> QED
        BY <1>3, <1>4, <3>1 DEF Devices
    <2>8. Devices'[n + 1] = device
      <3>1. n + 1 \in DOMAIN installations'
        BY <1>3, <1>4
      <3>2. Devices'[n + 1] = [key |-> installations'[n + 1].key,
                               enrolledBy |-> installations'[n + 1].enrolledBy,
                               active |-> installations'[n + 1].active]
        BY <3>1 DEF Devices
      <3> QED
        BY <1>4, <3>2 DEF device
    <2>9. \A i \in 1..(n + 1) : i \in 1..n \/ i = n + 1
      BY <1>3
    <2>10. \A i \in 1..(n + 1) : Devices'[i] = Append(Devices, device)[i]
      BY <2>4, <2>7, <2>8, <2>9
    <2>11. Devices' = [i \in 1..(n + 1) |-> Devices'[i]]
      BY <2>6 DEF Devices
    <2>12. Append(Devices, device) = [i \in 1..(n + 1) |-> Append(Devices, device)[i]]
      BY <2>4, <2>5, LenProperties
    <2> QED
      BY <2>10, <2>11, <2>12
  <1>6. [challenge |-> ch, device |-> NoInstallation] \in Spent
    BY <1>1, <1>2, <1>3 DEF Spent
  <1>7. Spent' = Spent
    BY <1>1 DEF Spent
  <1>8. \A i \in DOMAIN Devices : Devices[i].key # k /\ Devices[i].enrolledBy # ch
    BY <1>1, <1>2, <1>3 DEF Devices
  <1>9. Promise!Enroll(ch, k)
    BY <1>1, <1>5, <1>6, <1>7, <1>8 DEF Promise!Enroll, Promise!NoDevice, NoInstallation
  <1>10. ch \in 1..MaxChallenges
    BY <1>1, Lengths, BoundsAssumption DEF IInv, TypeInv, TablesOK
  <1> QED
    BY <1>1, <1>9, <1>10 DEF Promise!Next

\* Advancing a counter is a Grant of TelemetryGrants.
LEMMA GrantStep ==
    ASSUME IInv, TypeInv', Grow, NEW r \in Requests, Grants(r)
    PROVE  Promise!Next
  <1> DEFINE i == request[r].installation
             ch == request[r].challenge
             n == request[r].counter
  <1>1. /\ i \in 1..Len(installations) /\ n \in 1..MaxCounter /\ Holding(r)
        /\ installations[i].active /\ installations[i].count < n
        /\ Len(installations') = Len(installations)
        /\ \A j \in 1..Len(installations) :
              /\ installations'[j].key = installations[j].key
              /\ installations'[j].enrolledBy = installations[j].enrolledBy
              /\ installations'[j].active = installations[j].active
        /\ grants' = grants \cup {[device |-> i, challenge |-> ch, counter |-> n]}
        /\ UNCHANGED challenges
    BY DEF Grants, Holding
  <1>2. /\ ch \in 1..Len(challenges) /\ challenges[ch].consumed
        /\ challenges[ch].installation = i
        /\ \A g \in grants : g.challenge # ch
    BY <1>1, Holders DEF IInv, OneHolder, Tied
  <1> HIDE DEF i, ch, n
  <1>3. /\ DOMAIN installations = 1..Len(installations)
        /\ DOMAIN challenges = 1..Len(challenges)
        /\ DOMAIN installations' = 1..Len(installations')
    BY LenProperties DEF IInv, TypeInv, TablesOK
  <1>4. Spent' = Spent
    BY <1>1 DEF Spent
  <1>5. Devices' = Devices
    BY <1>1, <1>3 DEF Devices
  <1>6. [challenge |-> ch, device |-> i] \in Spent
    BY <1>2, <1>3 DEF Spent
  <1>7. i \in DOMAIN Devices /\ Devices[i].active
    BY <1>1, <1>3 DEF Devices
  <1>8. \A g \in grants : g.device = i => g.counter < n
    <2> SUFFICES ASSUME NEW g \in grants, g.device = i PROVE g.counter < n
      OBVIOUS
    <2>1. g.counter <= installations[i].count /\ g.counter \in 1..MaxCounter
      BY DEF IInv, CounterCoversGrants, TypeInv, GrantsOK
    <2>2. installations[i].count \in Nat
      BY <1>1, Lengths DEF IInv, TypeInv, Installation
    <2>3. g.counter \in Nat /\ n \in Nat
      BY <1>1, <2>1, BoundsAssumption
    <2>4. installations[i].count < n
      BY <1>1
    <2> QED
      BY <2>1, <2>2, <2>3, <2>4
  <1>9. Promise!Grant(i, ch, n)
    BY <1>1, <1>2, <1>4, <1>5, <1>6, <1>7, <1>8 DEF Promise!Grant
  <1>10. ch \in 1..MaxChallenges
    BY <1>2, Lengths, BoundsAssumption DEF IInv, TypeInv, TablesOK
  <1> QED
    BY <1>1, <1>7, <1>9, <1>10 DEF Promise!Next

\* Disabling an installation is a Disable of TelemetryGrants.
LEMMA DisableStep ==
    ASSUME IInv, TypeInv', NEW i \in 1..Len(installations), Disables(i)
    PROVE  Promise!Next
  <1>1. /\ DOMAIN installations = 1..Len(installations)
        /\ DOMAIN installations' = 1..Len(installations')
        /\ \A j \in 1..Len(installations) : installations[j] \in Installation
    BY LenProperties, ElementOfSeq DEF IInv, TypeInv, TablesOK
  <1>2. /\ Len(installations') = Len(installations)
        /\ \A j \in 1..Len(installations) : j # i => installations'[j] = installations[j]
        /\ installations'[i].key = installations[i].key
        /\ installations'[i].enrolledBy = installations[i].enrolledBy
        /\ installations'[i].active = FALSE
        /\ UNCHANGED <<challenges, grants>>
    BY <1>1 DEF Disables, Installation
  <1>3. Devices' = [Devices EXCEPT ![i].active = FALSE]
    BY <1>1, <1>2 DEF Devices
  <1>4. Spent' = Spent
    BY <1>2 DEF Spent
  <1>5. Promise!Disable(i) /\ i \in DOMAIN Devices
    BY <1>1, <1>2, <1>3, <1>4 DEF Promise!Disable, Devices
  <1> QED
    BY <1>5 DEF Promise!Next

\* Every step of the service is a step of the promise or leaves it alone.
LEMMA KeepsNext == IInv /\ [Next]_vars => [Promise!Next]_Promise!vars
  <1> SUFFICES ASSUME IInv, [Next]_vars PROVE [Promise!Next]_Promise!vars
    OBVIOUS
  <1>0. TypeInv /\ TypeInv' /\ Grow /\ TablesOK /\ TablesOK'
    BY Steps DEF IInv, TypeInv
  <1>a. /\ Len(challenges) \in Nat /\ Len(challenges') \in Nat
        /\ \A ch \in 1..Len(challenges) : ch \in 1..Len(challenges)
    BY <1>0, LenProperties DEF TablesOK
  <1>1. CASE UNCHANGED <<challenges, installations, grants>>
    BY <1>1 DEF Promise!vars, Spent, Devices
  <1>2. ASSUME NEW i \in 1..Len(installations), Disables(i) PROVE Promise!Next
    BY <1>0, <1>2, DisableStep
  <1>3. ASSUME NEW r \in Requests, Insert(r) PROVE UNCHANGED Promise!vars
    <2>1. /\ Len(challenges') = Len(challenges) + 1
          /\ \A ch \in 1..Len(challenges) : challenges'[ch] = challenges[ch]
          /\ ~challenges'[Len(challenges) + 1].consumed
          /\ UNCHANGED <<installations, grants>>
      BY <1>0, <1>3, InsertType DEF Insert
    <2>2. \A ch \in 1..Len(challenges') :
             ch \in 1..Len(challenges) \/ ch = Len(challenges) + 1
      BY <1>a, <2>1
    <2>3. Len(challenges) + 1 \notin 1..Len(challenges) /\ Len(challenges) <= Len(challenges')
      BY <1>a, <2>1
    <2> QED
      BY <1>0, <2>1, <2>2, <2>3, Stutters
  <1>4. ASSUME NEW r \in Requests, DeleteExpired(r) PROVE UNCHANGED Promise!vars
    <2>1. /\ Len(challenges') = Len(challenges) /\ UNCHANGED <<installations, grants>>
          /\ \A ch \in 1..Len(challenges) :
                challenges'[ch].consumed = challenges[ch].consumed
      BY <1>0, <1>4, DeleteExpiredType DEF DeleteExpired
    <2>2. Len(challenges) <= Len(challenges')
      BY <1>a, <2>1
    <2> QED
      BY <1>0, <2>1, <2>2, Stutters DEF Grow
  <1>5. ASSUME NEW r \in Requests, Consumes(r) \/ Enrolls(r) \/ Grants(r)
        PROVE  Promise!Next
    BY <1>0, <1>5, SpendStep, EnrollStep, GrantStep
  <1>6. ASSUME NEW r \in Requests, Quiet(r) PROVE UNCHANGED <<challenges, installations, grants>>
    BY <1>6 DEF Quiet
  <1>7. UNCHANGED vars \/ Tick => UNCHANGED <<challenges, installations, grants>>
    BY DEF vars, Tick
  <1> QED
    BY <1>0, <1>1, <1>2, <1>3, <1>4, <1>5, <1>6, <1>7, Steps

\* The service implements TelemetryGrants for any number of concurrent requests,
\* keys, challenges and counters.
THEOREM ServiceKeepsPromise == Spec => KeepsPromise
  <1> QED
    BY KeepsInit, KeepsNext, InvInit, InvNext, PTL DEF Spec, KeepsPromise, Promise!Spec
====
