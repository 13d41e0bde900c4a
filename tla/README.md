# Formal models of Bleat

Bleat is an Audiobookshelf client for Apple platforms (Swift, `Sources/` and
`App/`) with a small authentication service for its optional telemetry and
the tools of its tests and releases (Rust, `bleat-api/` and `scripts/`). This directory holds TLA+ models of the parts of both whose
correctness depends on the order in which things happen, the TLC runs that
check them on small instances, and theorems about them checked by TLAPS.
Paths below are relative to the root of the repository.

`PROJECT.json` lists the same things for tools: components, runs, the mutation
that shows each property can fail, the source lines every definition stands for,
the hazards, the findings and the theorems.

## Inventory

What each part keeps, what it does, and what must be true of it. The parts
marked * are modelled now; the plan below says when the others follow.

| part | state | operations | hard behaviour | what makes it correct |
| --- | --- | --- | --- | --- |
| *`AuthCoordinator` (`Authentication`, `AuthenticatedRequests`, `Logout`, `OpenIDAuthentication`) | refresh attempts, memo of the last one, generation, login and logout flags, accounts to reauthenticate, the OpenID attempt | authenticated request, `accessToken`, `recoverAccessToken`, login, validation, two logouts, OpenID login, the refresh task | an actor is reentrant at every `await`; vault and server answer late, in any order, or fail | account operations exclude each other; one refresh at a time, always awaited; a signed-out account gets no credentials back; every call returns |
| *Attestation service (`http`, `challenge`, `installation`, `database`) | tables of challenges and installations | issue a challenge, enrol, issue a token, disable, cleanup | each handler is several autocommitted statements; requests are dropped, repeated, concurrent | a challenge is spent once, for its device; a counter only grows; disabled devices get nothing |
| *`IssuanceLimiter` (`issuance`) | map of token buckets, cleanup queue | check, cleanup | bounded storage, eviction from two code paths | bounded; eviction neither gives nor takes quota |
| *Telemetry client (`TelemetryAuthentication`) | token, refresh task, waiters, back-off, durable enrolment | current token, enable, disable, invalidate, the refresh task | waiters and their cancellation are two tasks; a cancelled refresh runs on; a lost enrolment answer | no token outlives a withdrawal of consent; every waiter is told; a key is enrolled once |
| *Offline and online listening (`PlaybackModel`, `LocalPlaybackSessionStore`, accounting of `Statistics`) | outbox of sessions, slices, confirmed and uncertain seconds, the worker, the sync in flight | play, checkpoint, stop, upload, acknowledge, sync | sessions change during their upload; ambiguous failures; kills | no record lost, no second credited twice; the outbox drains |
| *Owned commands and the smoke preparation (`scripts/src/ci_smoke`) | child and process group of each command, deadlines, the results so far | start, poll, cancel, kill and reap, drop; build beside boot and readiness | processes outlive their leader or do not die; identifiers are reused; either command fails first | nothing foreign is killed, every command gets cleanup and a verdict, no failure looks like success, it returns |
| `TokenVault` | Keychain items of three services | save, read, delete, migrate, synchronise | two items per account, best-effort rollback | no half-written login survives a reported failure |
| `AccountStore` and onboarding | account records, active account | onboard, sign out, remove, migrate identities | credentials and record are written by two stores | a failed onboarding leaves neither |
| Positions (`ProgressSync`, `PlaybackPositionStore`) | saved position, baseline, server progress | save, reconcile | both sides moved since the last sync | a conflict is never silent |
| Bookmark queue (`BookmarkMutationStore`) | queued changes | queue, reconcile, replay | lost answers | each change takes effect once, in order |
| Downloads (`DownloadStorage`, `DownloadModel`) | partial files, records, background tasks | commit a chunk, finalise, reconcile | crash between file and record | a record never claims more than the file holds |
| `LiveUpdates`, `LibrarySearchCoordinator` | stream or generation identity, one task | connect, stop; search | supersession during an `await` | a superseded operation has no effect |
| Transcription jobs (`ChapterTranscriptionJob`) | checkpoint with a revision | save by comparison | stale writers | completed chapters stay completed |
| Token issuer, forwarding (`telemetry_auth`, `forwarding`), aggregation of statistics, cloud sync, metadata edits, HTTP, views, diagnostics, other tools | | | | not planned, see below |

Interaction: every request of the app reaches its server through
`AuthCoordinator.sendAuthenticated`; onboarding and removal call its logins and
logouts and write the account store; the vault is shared by all of them, and by
the deletions of onboarding and cloud sync, which do not go through the
coordinator's generation. The telemetry client calls the attestation service,
whose challenge routes pass the issuance limiter first. The worker that uploads
local sessions and the sync of streamed ones both read the slices the player's
samples become and write one accounting record per session; what a request's
failure means to them is decided by `sendAuthenticated`, which drops the answer
of a request whose account was logged in anew meanwhile.

## Modules

| module | stands for |
| --- | --- |
| `AuthCoordinator` | one account of the coordinator: its actor state, the vault's items, the calls in progress and the refresh tasks |
| `AuthCoordinatorProofs` | theorems about its exclusion and its refreshes |
| `AuthTokenProofs` | theorems about its tokens; extends `AuthCoordinatorProofs` |
| `TelemetryGrants` | the abstract promise of the attestation service |
| `TelemetryAuthService` | the handlers and their SQL statements; refines `TelemetryGrants` |
| `TelemetryAuthServiceProofs` | theorems about it, the refinement included |
| `IssuanceLimiter` | the limiter and its eviction |
| `IssuanceLimiterProofs` | theorems about it |
| `ListeningLedger` | the abstract promise of reporting listening time |
| `ListeningSync` | player, outbox, worker, online sync, accounting and server; refines `ListeningLedger` |
| `ListeningSyncProofs` | theorems about it, the refinement included |
| `TelemetryClient` | the token provider and its refreshes |
| `TelemetryClientProofs` | theorems about it |
| `OwnedCommand` | commands with their process groups, the kernel included |
| `SmokePreparation` | `prepare`, which runs two of them at a time; extends `OwnedCommand` |
| `SmokePreparationProofs` | theorems about both |
| `MC...` | the symmetry of the instances TLC checks; the `.cfg` files give the constants |

### AuthCoordinator

A Swift actor executes one piece of code between two `await`s at a time. A call
is a record whose `pc` names the suspension it stands at; an action is the code
from there to the next suspension. State read before an `await` and used after
it is a field of the record: `gen` is `operationGeneration`, `held` the tokens
read, minted or recovered, `rejected` the access token the server refused,
`attempt` the refresh task awaited. The answer of the vault (`ReadTokens`,
`ReadCurrent`) and its use by the resumed call (`UseTokens`, `RecoveryRefused`,
`JoinRefresh`, ...) are two actions, so anything may happen in between. Refresh
tasks run beside the actor: `attempts[i]` is one, and its steps (`Rotate`,
`SaveRotated`, `TaskReadNative`, `TaskSignIn`, `TaskSaveSignIn`) are those of
`refreshOrReauthenticate`.

A token pair is the number of its issue. `signedOut` is history: whether the
account was fully logged out and not explicitly logged in since, and whether a
request has stored anything meanwhile. The server may refuse any access or
refresh token at any time; the vault may fail at any access, and its saves and
deletions leave every state their error paths can leave.

Reads of `requiresReauthentication` are not modelled; the set they read is
(`reauth`). Two things are one action although the code suspends inside them:
the two HTTP requests of a sign-in, because no state is touched between them,
and `performRemoteLogout`, which reads the vault and calls the server and
ignores every failure.

### TelemetryAuthService

A request is a record whose `pc` is the SQL statement in flight. `at` is the
instant read before that statement was sent, so a statement executes with an
old clock. A row deleted from the challenges table stays in the model with
`stored` false; `enrolledBy` and `grants` are history. `Drop` is every way a
request may end between two statements. The verification of evidence is an
input: a request presents any challenge, key and counter, which covers
repeated and late deliveries; what the verification reads, the stored counter,
is modelled (`FindActive`).

### IssuanceLimiter

One mutex is held through each call, so a call is an action. A bucket is the
instant at which it is full again, as its crate stores it. Two histories judge
it: `due`, the bucket of a limiter that is never evicted, and `admitted`, the
instants at which requests were let through. `cleanup_batch` is its loop: a
recursive function whose step is `Examine`, the round that pops the client at the
front and forgets it or puts it at the back.

### ListeningSync

Time is counted in seconds heard. A second is `fresh` in the accumulator, then
part of a committed slice, and what is reported is always computed from the
slices and the accounting record, as `sessionListeningTime` does. A record of
the outbox is its session; what matters of its content is only whether it
equals the one the worker has read (`pass.changed`) and whether the server
holds it (`unsent`, history). The worker's await points are `pass.pc`, those of
`performProgressSync` are `sync.pc`; reading the delta, the arrival of the
request, the arrival of the answer and the accounting are different steps, and
`Kill` may come between any two. A request of a killed process that is still on
its way is dropped by the model; one that has arrived has had its effect.

Failures are a constant: `"lost"` is a transport failure before or after the
server acted, `"refused"` an HTTP error, `"superseded"` an answer the app
discards, or cannot take note of, although the server acted. So an HTTP error
is taken to mean that the server did not act, and an upload of local sessions
that timed out is taken never to arrive later.

### TelemetryClient

The provider is an actor, its refresh a task that touches the actor only at its
end (`Complete`). Cancelling a refresh neither waits for it nor stops the
keychain and App Attest, so old refreshes are slots that go on, with
`cancelled` set, and may save, enrol and succeed. A token is the number of the
period of consent its refresh was started in. Back-off and expiry are two flags
the environment clears and sets: how long they last depends on clocks and
jitter. The service is reduced to which keys it has enrolled;
`TelemetryAuthService` has the rest. Keys are new ones, as App Attest makes them:
the attester of debug builds (`DevelopmentTelemetryAttester`) derives the same
key on every call, so `KeysEnrolOnce` is about release builds. An attester that
turns out unsupported is modelled where a key is generated; found later, at the
challenge or at the issue of a token, it ends the refresh with no more effect
than the failures that are there (`Fails`).

### OwnedCommand and SmokePreparation

Every system call of the owner is a step, and the kernel moves between any two:
a leader exits, its descendants live on or become zombies nobody collects,
SIGKILL takes its time, and the number of a group that is gone is given to
somebody else. `Confirm` is `waitid` with `WNOWAIT`, which keeps the leader's
number from being reused; `Probe` is `kill(-pgid, 0)` with its three answers.
`prepare` is one thread; it starts, polls, cancels and drops commands, and each
of these that has a verdict goes through the cleanup of `OwnedCommand` before
the thread goes on. Its argument `boot` is `needed`: a device that is booted
already is only waited for. `SuccessMeansReady` holds a preparation to it: on a
device that was not booted, a success needs the boot, and nobody waits for the
readiness before the boot has succeeded. The build runs beside both.

The environment reaps no child of the owner's: `NoStrayKill` is about what the
owner's own calls make of the group's number, not about a process that some
other code of the tool had collected. `NoneUnsupervised` says that each command
went through cleanup and has a verdict, not that nothing runs any more: a
process may survive the budget of the cleanup, and is then reported as a failure.

## Runs

| run | instance | shows | states |
| --- | --- | --- | --- |
| `AuthSafety` | 2 callers, all eight entry points, 3 calls | `TypeOK`, `ExclusiveOperations`, `SingleFlight`, `NoOrphanRefresh`, `LogoutSettlesRefresh`, `MemoIsNewest` | 870 000 |
| `AuthBurst` | 3 callers, requests and logouts, 3 calls | `RetryIsFresh`, `RefreshNeverResurrects` | 1 370 000 |
| `AuthLiveness` | 2 callers, all entry points, 2 calls | `CallsReturn` | 44 000 |
| `TelemetryService` | 2 requests, 1 key, 3 challenges, counters to 2 | `TypeOK`, `OneHolder`, `LiveChallengesSurvive`, `CounterCoversGrants`, `KeepsPromise` | 410 000 |
| `IssuanceLimiter` | 3 clients, map of 2, batch of 1, 8 ticks | `TypeOK`, `OneQueueEntryPerClient`, `EvictionIsInvisible`, `QuotaHolds` | 1 550 000 |
| `ListeningSync` | 2 downloaded books, 1 streamed, 1 second, 1 kill or store failure, lost and refused requests | `TypeOK`, `AccountedWithinMeasured`, `ConfirmedIsStored`, `UncertainBoundsRemote`, `NothingLost`, `KeepsLedger`, `OutboxDrains` | 310 000 |
| `TelemetryClient` | 2 callers, 2 refreshes alive, 2 keys, 2 periods of consent | `TypeOK`, `NoTokenAcrossWithdrawal`, `WaitersServed`, `SingleFlight`, `StoredIsEnrolled`, `KeysEnrolOnce`, `CallsReturn` | 490 000 |
| `Smoke` | the build, the boot and the readiness; nothing else is bounded | `PrepareTypeOK`, `RetiredIsGone`, `SuccessIsHonest`, `NoStrayKill`, `NoneUnsupervised`, `CancellationHasCause`, `SuccessMeansReady`, `PrepareReturns` | 580 000 |
| `AuthSignedOut`, `AuthRetired`, `AuthResurrect` | 2 callers, 2 calls | violations, see Findings | |
| `ListeningTwice` | 1 downloaded book, 1 streamed, discarded answers | violation, see Findings | |

Why the bounds are enough to be interesting:

- Three calls let a memo of one attempt meet a second attempt, and a login
  follow a logout that overtook a request. Three callers let two waiters of an
  attempt resume around a third call (`AuthBurst`). Tokens need no bound: each
  call or task mints one at most.
- Two requests are two concurrent deliveries of the same evidence, or one
  handler against the cleanup of the other. Three challenges are one to enrol
  by, one to authenticate by and one to expire; counters to 2 let a higher one
  overtake a lower. A lifetime of one tick and a clock of two instants have live,
  expired and just expired challenges; a batch of one makes cleanup partial.
- Three clients and a map of two make every admission of the third evict or be
  refused. The interval (2 ticks) and the second (3 ticks) do not divide each
  other, so the rounding of the idle time matters. The idle time is six ticks:
  in eight a client that drained its bucket is forgotten, returns and drains
  another, which is when a wrong eviction would exceed its quota. What is
  admitted is remembered whole, so a longer run has many times the states; the
  theorems need no bound on the clock.
- Two downloaded books make a batch whose upload, confirmation and removal may
  each be partial; a streamed one is synced beside it. One second of listening
  is enough for every order of measuring, reporting, losing and repeating (it
  may be reported a second time), and keeps the liveness check within minutes;
  the safety properties are proved for every number of seconds and faults.
- Two refreshes alive are the current one and one cancelled before it; two
  periods of consent let the older one succeed in the younger; two keys let
  both enrol.
- `prepare` has exactly three commands, and neither their descendants nor
  anything else needs a bound.

Callers, requests and clients are interchangeable, so the safety runs of the
coordinator and the service use symmetry; runs with liveness do not. Deadlock
is checked for them, the limiter and `Smoke`: the coordinator's callers stop
only when the bound on calls is used up and every call has returned
(`Quiescent`), `prepare` when it has returned (`Quiet`), which are steps of
their own so that a call that could never move on would be reported. The listener
of `ListeningSync` and the process of `TelemetryClient` stop at their bounds in
states where the code really waits for the outside, so deadlock is not checked
there; that nothing hangs is `OutboxDrains` and `CallsReturn`.

Every property of a passing run is broken by a mutation of the model that a
plausible bug would be (the definitions commented "Mutant of"): dropping a
guard, comparing the wrong thing, forgetting a reset.

### Fairness

`FairSpec` is weakly fair to every call and to every refresh task: the
transport has request timeouts, the Keychain answers, the Swift executor runs
what is ready. It is not fair to the callers: nobody has to make a call. A
browser session that is never answered is covered by `Exchange` failing when the
user gives up. Nothing else is assumed of it.

`TelemetryClient` is weakly fair to every refresh: requests time out, the
keychain and App Attest answer. Callers need not call, nor consent be given.

`Smoke` is weakly fair to the thread and to the clocks (both budgets and the
cleanup's). It is not fair to the kernel: no process ever needs to exit or to
die of a signal, and `prepare` returns all the same.

`ListeningSync` is weakly fair to the worker and to its being asked (every
network path, foreground and login asks again), and strongly fair to an upload
the server stores as a whole and to the answer that says so: with a server
that refuses for ever nothing drains. It is not fair to the player. A record
whose session is playing may stay, since every save renews it.

## Findings

The first three disagree with requirement AUTH-012 of
`docs/requirements-traceability.md`: "Login, refresh, authenticated requests,
and logout cannot race credentials back into a signed-out account; logout
settles rotation and invalidates all requests from the previous
account-operation generation".

- `AuthSignedOut`: a request without stored tokens signs in silently
  (`credentialsForInitialRequest`). That sign-in is not a refresh attempt, so a
  logout does not wait for it, and it saves after the logout's deletion.
- `AuthRetired`: the response of the retried request is returned without
  comparing the generation (`sendAuthenticated`), unlike the first response.
- `AuthResurrect`: `recoverAccessToken` has no guard; entered during a logout it
  captures the generation that will be current afterwards, and may then refresh
  with the deleted tokens and store the new ones.

- `ListeningTwice` disagrees with `docs/audiobookshelf-ios-app-spec.md:1558`
  ("An ambiguous response marks that delta uncertain rather than silently sending
  it again"): a login of the account while a sync is in flight makes
  `sendAuthenticated` discard the answer with `accountOperationInProgress`, which
  `isAmbiguousStatisticsSyncFailure` does not take for ambiguous, so the next
  sync sends the seconds again.

Three more disagreements were met and have no run, because they lie in parts
that are not modelled: `docs/app-behavior.md:413` promises that a conflict is
looked for after an upload of local sessions, and
`refreshConflictAfterRejectedLocalProgress` is never called; the same document
(262) has bookmark changes reconciled in order, and a change that failed and
was queued may be replayed after a newer one that was made directly; and
`docs/audiobookshelf-ios-app-spec.md:1768` has the baseline advanced after every
confirmed sync, which the switch to another session during the sync prevents.

`RefreshNeverResurrects` appears in two runs: it holds for requests (`AuthBurst`)
and fails once `recoverAccessToken` is a caller (`AuthResurrect`). It is about the
time from a full logout to the first tokens anybody stores after it. Without
that end it would be false of requests too, beyond the three calls of
`AuthBurst`: once a silent sign-in of the kind of `AuthSignedOut` has put a pair
back, a refresh of that pair is an ordinary one, and another sign-in whose save
fails and is rolled back can leave the account without tokens while it runs.

## Proofs

The theorems hold for every value of the constants: any set of callers and any
number of calls; any set of requests and keys, and any bounds.

`AuthCoordinatorProofs`: `TypeCorrect`, `ExclusionHolds`, `SingleFlightHolds`,
`NoOrphanHolds`, `LogoutSettlesHolds`. The inductive invariant is

    SafeInv == TypeInv /\ Stages /\ ExclusiveOperations /\ Flight

`TypeInv` adds to `TypeOK` that a call awaits a task that exists. `Stages` ties
the suspension a call stands at to its entry point, without which a step of a
request could not be told from a step of a logout. `Flight` joins the three
properties of refreshes, none of which is inductive alone: that no second
refresh starts needs that a running one is registered, that it stays
registered needs that only a waiter of a finished task clears it, and that a
logout clears the right one needs that the attempt it settles is still the
registered one (`SettlesCurrent`). Exclusion is needed too: a second logout
would otherwise overtake the first one's settling.

`AuthTokenProofs`: `Tokens`, `MemoHolds`, `FreshHolds`, `NoResurrection`,
`OnlySignInRefills`, `RetiredRetriesOnly`. On top of `SafeInv`,

    TokenInv == Minting /\ Memo /\ RetryIsFresh

`Minting` orders the tokens by their issue: no call and no vault item holds a number
that was not issued yet, and what an attempt produced is newer than the tokens
it was started with. `Memo` says that only the newest attempt can be registered
and that what is remembered for a rejected token is newer than that token,
besides `MemoIsNewest` itself; a waiter that resumes late finds another attempt
registered or none, and records nothing. `RetryIsFresh` then follows for every
way a retry gets its token: read, remembered, joined or minted.

`NoResurrection` proves the action property `RefreshNeverResurrects` under one
hypothesis, that `recoverAccessToken` is not called from outside a request; the
counterexample of `AuthResurrect` shows that it is needed. Its two invariants say
that a logout retires every request that entered before it and that none enters
while it runs (`Retired`), and that as long as nothing was stored after it no
refresh runs and the requests that were not retired have found no token to
refresh with (`EmptyIsQuiet`).

Two theorems say how far two of the findings reach. `OnlySignInRefills` (same
hypothesis): a signed-out account gets tokens back through the silent sign-in of a
request and in no other way. `RetiredRetriesOnly`: a request returns a response,
or goes on to its retry, only while its generation is current, unless what
returns is the retry; so the missing comparison after the retry is the only one.

`TelemetryAuthServiceProofs`: `TypeCorrect`, `OneHolderHolds`, `CountersHold`,
`LiveChallengesHold`, `ServiceKeepsPromise`. The inductive invariant is

    IInv == TypeInv /\ OneHolder /\ Tied /\ CounterCoversGrants
                    /\ LiveChallengesSurvive

`Tied` says that enrolments, grants and held challenges refer to consumed rows
issued for that device. Every step is first classified (`Steps`): it writes no
row, inserts, deletes expired rows, consumes, enrols, grants or disables, and
`Grow` holds of each. The refinement maps a consumed row to a spent challenge,
and each class to its step of `TelemetryGrants` or to a stutter.

The assumptions are those of the modules: the operations are entry points and
bounds are natural numbers; `NoKey` is no key. TLC evaluates them in the
runs.

`ListeningSyncProofs`: `TypeCorrect`, `Accounted`, `Stored`, `Kept`, and, when no
answer is superseded, `UpperBound` and `Refines`. What is reported must stay
within what was measured although the measurement, the report and the
accounting are steps with kills, saves and the other path in between. That is
inductive only with what the worker and the sync hold: the delta of each
session in `pass` and `sync` plus what is accounted stays within the slices, a
total that was measured is not below what the server has, and one path only
works on one kind of session. The lower and upper bounds of the server's total
follow the same way, the upper one only for the session that plays. The
refinement maps a checkpoint to `Measure`, an arrival at the server to `Credit`
and all else to a stutter.

`TelemetryClientProofs`: `TypeCorrect`, `Withdrawn`, `Served`, `OneRefresh`,
`Installed`, `OneEnrolment`. The inductive invariant is

    IInv == TypeOK /\ Named /\ Keyed

`Named` says that the refresh the provider names was started in the present
period of consent and not cancelled: comparing identities at its end then
suffices, though nothing compares periods. `Keyed` says that between generating
a key and the service's answer each refresh has a key of its own that the
service has not seen.

`SmokePreparationProofs`: `TypeCorrect`, `Gone`, `Honest`, `Unharmed`,
`Supervised`, `Caused`, `Succeeds`. The invariant joins three things: what the kernel keeps of a
group (its number cannot be reused while its leader is not reaped), what each
step of a cleanup has established, and what the place of the thread says of
the commands' outcomes. On top of it, `Told` carries the last two: whoever is
interrupted, or holds a failed boot, has somebody to blame, and the readiness
takes the boot's variable only when the boot succeeded or was not `needed`.
`Waiting` adds for `Succeeds` that it is not spawned as long as the boot has it.

`IssuanceLimiterProofs`: `TypeCorrect`, `OneEntryPerClient`, `Invisible`, `Quota`,
`Refusals`. The inductive invariant is `IInv /\ QueueInv /\ QuotaInv`.

- `IInv`: forgetting a client is invisible because an idle client's bucket is
  full. That needs that a bucket is full at most one drained bucket after its
  last use, and of `ceil_seconds` that it never rounds down.
- `QueueInv`: the queue repeats nobody and holds exactly the clients of the map;
  the lengths agree because it is then a bijection onto them.
- `QuotaInv`: a bucket is not full again before one interval has passed for each
  request it admitted since any of them (`Paid`). What is admitted next comes at
  most a burst before that, which is the quota.

The loop of `cleanup_batch` runs any number of rounds, and the induction over
them takes no induction theorem: the numbers up to some n are finite sets ordered
by inclusion, which the library proves well founded, so every set of numbers
has a least element (`LeastNumber`), and a first round that broke the invariant
would follow one that did not. `LoopIsDefined` shows in the same way that the
recursive function exists. `Refusals` follows the rounds once more: as long as
nobody was forgotten, round k has examined the k-th client of the queue, so a
client refused after a cleanup was refused by a batch that is all in use.

Model-checked only: `CallsReturn` of the coordinator and of the telemetry client,
`OutboxDrains` and `PrepareReturns`, because liveness under fairness and `ENABLED`
are out of the prover's reach. Every safety property of a passing run is a
theorem. No module that is proved about has a RECURSIVE operator.

## Not modelled

- Cryptography and formats (`app_attest`, JWT signing, JSON): functions of their
  input, better tested than model-checked.
- `PrivateCloudSync`: its behaviour is that of CloudKit and SwiftData.
- The clients of the App Store in `scripts/src/appstore` are generated: 96 500 of
  the 122 000 lines of Rust of the repository, without behaviour of their own.
  For this reason the share of the Rust lines that definitions stand for stays
  small, whatever else is modelled; most of the modelled code is Swift.
- The other tools of `scripts/` are sequential programs that read, print and
  upload. `interrupt`, captured output and the later stages of the smoke test
  are left out of `SmokePreparation`, which has its concurrent part.
- `telemetry_auth` and `forwarding` keep no state a step changes: keys come from
  the configuration, proxies from a resolver whose last answer is replaced whole.
- Failures of the statistics store other than those of `StoreFails`: the delta
  of a sync that cannot be read is taken for 0 and reported later; a
  confirmation or an uncertainty that cannot be saved has the effect of
  `"superseded"`.
- The removal of an account, which clears its records from the outbox: their
  listening is given up then on purpose.
- Listening time that stays pending: when the finish of a stop commits seconds
  after a pass has measured their session, and that pass then acknowledges and
  removes its record, no later pass reports them. The model has this behaviour;
  no property forbids it, because the documents promise positions, not every
  second, of local sessions.
- A token request of a cancelled refresh may advance the service's counter
  between the steps of its successor, whose request is then rejected, which ends
  telemetry until consent is given again. `TelemetryClient` has the rejection
  (`Fails`) without its cause.
- Views, navigation, CarPlay, Now Playing, logging, metrics, configuration.
- `validateStoredSession` and its two relatives: they read, then end or call
  `validateLocalLogin`.
- The OpenID attempt is one per coordinator, not per account: a login of one
  account is refused while another account's is in progress. With one account
  the model has only the second half of that.

## Plan

What would come next, most important first:

1. The bookmark queue: reconciliation and replay against a server whose answers
   are lost; abstract specification: each change takes effect once, in order.
2. `TokenVault` with `AccountStore` onboarding: partial failures and rollbacks,
   and the deletions that go around the coordinator's generation.
3. `Downloads`: files, records and background tasks across crashes.
4. `LiveUpdates` and `LibrarySearchCoordinator`: supersession, one module.
5. `TelemetryClient` composed with `TelemetryAuthService`: counters across
   overlapping refreshes.

Further properties of the coordinator to state and prove: who may overwrite the
pair a login stored.
