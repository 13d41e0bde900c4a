--------------------------- MODULE ListeningSync ---------------------------
(***************************************************************************)
(* Listening time and positions of one account, from the player to the     *)
(* server (App/PlaybackModel.swift, App/LocalPlaybackSessionStore.swift,   *)
(* App/AppModel.swift, Sources/BleatCore/Statistics.swift).                *)
(*                                                                         *)
(* A downloaded book plays under a Local session, whose record waits in a  *)
(* durable outbox until one coalesced worker has uploaded it: an upload    *)
(* REPLACES the server's total.  A streamed book plays under an Online     *)
(* session, whose periodic sync ADDS an acknowledged delta.  Both take     *)
(* their numbers from the same slices and the same accounting record.      *)
(* Every await of the two paths is a step boundary, and the process may be *)
(* killed at any of them.                                                  *)
(***************************************************************************)
EXTENDS Integers, FiniteSets, FiniteSetsExt

CONSTANTS
    Local,      \* playback sessions of downloaded books
    Online,     \* playback sessions the server opened
    NoSession,
    MaxHeard,   \* bound on the seconds listened to, all sessions together
    MaxFaults,  \* bound on kills of the process and failures of its store
    Failures    \* what may happen to a request: "lost", "refused", "superseded"

ASSUME SessionsDisjoint == Local \cap Online = {} /\ NoSession \notin Local \cup Online
ASSUME BoundsNatural == MaxHeard \in Nat /\ MaxFaults \in Nat
ASSUME FailuresKnown == Failures \subseteq {"lost", "refused", "superseded"}

Session == Local \cup Online

VARIABLES
    player,     \* statisticsSessionID of the player, or NoSession
    stage,      \* "open", or "stopping" while it is being closed
    used,       \* Online sessions ever opened: the server never reopens one
    fresh,      \* seconds of a session still in its accumulator, in memory
    slices,     \* seconds of a session in committed ListeningSlice rows
    confirmed,  \* confirmedRealSeconds of its accounting record
    uncertain,  \* uncertainRealSeconds of its accounting record
    remote,     \* seconds the server holds for it
    outbox,     \* Local sessions with a record in LocalPlaybackSessionStore
    unsent,     \* history: whose newest saved record the server does not hold
    wanted,     \* pendingLocalSessionSyncAccounts holds the account
    pass,       \* the worker's syncPendingLocalSessions
    sync,       \* the performProgressSync in flight
    faults

playing == <<player, stage, used, fresh>>
books == <<confirmed, uncertain>>
vars == <<playing, slices, books, remote, outbox, unsent, wanted, pass, sync, faults>>

Zero == [s \in Session |-> 0]
NoPass == [pc |-> "idle", todo |-> {}, batch |-> {}, changed |-> {},
           total |-> [s \in Local |-> 0], delta |-> [s \in Local |-> 0], acked |-> {}]
NoSync == [pc |-> "idle", session |-> NoSession, delta |-> 0]

Init ==
    /\ player = NoSession /\ stage = "open" /\ used = {}
    /\ fresh = Zero /\ slices = Zero /\ confirmed = Zero /\ uncertain = Zero
    /\ remote = Zero /\ outbox = {} /\ unsent = {} /\ wanted = FALSE
    /\ pass = NoPass /\ sync = NoSync /\ faults = 0

-----------------------------------------------------------------------------
(* StatisticsRepository.                                                   *)

Reported(s) == confirmed[s] + uncertain[s]
Pending(s) == IF slices[s] > Reported(s) THEN slices[s] - Reported(s) ELSE 0
Total(s) == IF slices[s] > Reported(s) THEN slices[s] ELSE Reported(s)

(* Mutant: what was ever committed is deducted, instead of a reset.        *)
FinishDeducting(s) ==
    /\ slices' = [slices EXCEPT ![s] = @ + fresh[s]]
    /\ fresh' = [fresh EXCEPT ![s] = @ - slices'[s]]

(* finish(sessionID:): what the accumulators hold becomes a slice.         *)
Finish(s) ==
    /\ slices' = [slices EXCEPT ![s] = @ + fresh[s]]
    /\ fresh' = [fresh EXCEPT ![s] = 0]

(* Mutants: the whole measured time is added for the delta; the time       *)
(* measured by now is taken for the time that was reported.                *)
ConfirmTotal(s, delta) ==
    /\ confirmed' = [confirmed EXCEPT ![s] = @ + slices[s]]
    /\ UNCHANGED uncertain

ConfirmMeasured(s, delta) ==
    /\ confirmed' = [confirmed EXCEPT ![s] = slices[s]]
    /\ UNCHANGED uncertain

(* confirmSync adds the delta that was reported, not what is pending now.  *)
Confirm(s, delta) ==
    /\ confirmed' = [confirmed EXCEPT ![s] = @ + delta]
    /\ UNCHANGED uncertain

MarkUncertain(s, delta) ==
    /\ uncertain' = [uncertain EXCEPT ![s] = @ + delta]
    /\ UNCHANGED confirmed

-----------------------------------------------------------------------------
(* The player.                                                             *)

(* LocalPlaybackSessionStore.save: a new record replaces the stored one,   *)
(* and no longer equals the one a pass has read.                           *)
Saved(s) ==
    /\ outbox' = outbox \cup {s}
    /\ unsent' = unsent \cup {s}
    /\ pass' = [pass EXCEPT !.changed = @ \cup ({s} \cap pass.batch)]

(* beginLocalPlaybackSession: a book whose record still waits resumes its  *)
(* session, any other book gets a new one.                                 *)
BeginLocal(s) ==
    /\ player = NoSession
    /\ s \in outbox \/ s \notin used
    /\ player' = s /\ stage' = "open" /\ used' = used \cup {s}
    /\ Saved(s)
    /\ UNCHANGED <<fresh, slices, books, remote, wanted, sync, faults>>

BeginOnline(s) ==
    /\ player = NoSession /\ s \notin used
    /\ player' = s /\ stage' = "open" /\ used' = used \cup {s}
    /\ UNCHANGED <<fresh, slices, books, remote, outbox, unsent, wanted, pass, sync, faults>>

Heard == MapThenSumSet(LAMBDA s : fresh[s] + slices[s], Session)

(* A second of audible playback is sampled into the accumulator.           *)
Hear ==
    /\ player # NoSession /\ stage = "open"
    /\ Heard < MaxHeard
    /\ fresh' = [fresh EXCEPT ![player] = @ + 1]
    /\ UNCHANGED <<player, stage, used, slices, books, remote, outbox, unsent,
                   wanted, pass, sync, faults>>

(* Every five seconds the running slice is saved in place.                 *)
Checkpoint ==
    /\ player # NoSession /\ fresh[player] > 0
    /\ Finish(player)
    /\ UNCHANGED <<player, stage, used, books, remote, outbox, unsent, wanted,
                   pass, sync, faults>>

(* persistPosition of a downloaded book.                                   *)
Persist ==
    /\ player \in Local /\ stage = "open"
    /\ Saved(player)
    /\ UNCHANGED <<playing, slices, books, remote, wanted, sync, faults>>

(* stop, up to its first await: the position is saved.                     *)
Stop ==
    /\ player # NoSession /\ stage = "open"
    /\ stage' = "stopping"
    /\ IF player \in Local THEN Saved(player) ELSE UNCHANGED <<outbox, unsent, pass>>
    /\ UNCHANGED <<player, used, fresh, slices, books, remote, wanted, sync, faults>>

(* finishStatisticsSession and the release of the session: nothing of it   *)
(* waits for a sync in flight, because a later start supersedes a stop     *)
(* that does.                                                              *)
Leave ==
    /\ stage = "stopping"
    /\ Finish(player)
    /\ player' = NoSession /\ stage' = "open"
    /\ UNCHANGED <<used, books, remote, outbox, unsent, wanted, pass, sync, faults>>

-----------------------------------------------------------------------------
(* The upload of local sessions.                                           *)

(* A login, a network path or the foreground asks for a pass.              *)
Schedule ==
    /\ ~wanted
    /\ wanted' = TRUE
    /\ UNCHANGED <<playing, slices, books, remote, outbox, unsent, pass, sync, faults>>

(* The worker takes the account and finishes what plays locally.           *)
PassStarts ==
    /\ wanted /\ pass.pc = "idle"
    /\ wanted' = FALSE
    /\ IF player \in Local THEN Finish(player) ELSE UNCHANGED <<fresh, slices>>
    /\ pass' = [NoPass EXCEPT !.pc = "read"]
    /\ UNCHANGED <<player, stage, used, books, remote, outbox, unsent, sync, faults>>

(* localSessionStore.pending: an empty outbox ends the pass.               *)
PassReads ==
    /\ pass.pc = "read"
    /\ pass' = IF outbox = {} THEN NoPass
               ELSE [NoPass EXCEPT !.pc = "measure", !.batch = outbox, !.todo = outbox]
    /\ UNCHANGED <<playing, slices, books, remote, outbox, unsent, wanted, sync, faults>>

(* localSessionsWithListeningTime awaits the repository session by session. *)
PassMeasures(s) ==
    /\ pass.pc = "measure" /\ s \in pass.todo
    /\ pass' = [pass EXCEPT !.total[s] = Total(s), !.delta[s] = Pending(s),
                            !.todo = @ \ {s},
                            !.pc = IF pass.todo = {s} THEN "send" ELSE @]
    /\ UNCHANGED <<playing, slices, books, remote, outbox, unsent, wanted, sync, faults>>

(* Mutant: the upload carries the pending delta, as the online sync does.  *)
ReplacedByPending(stored) ==
    [s \in Session |-> IF s \in stored THEN pass.delta[s] ELSE remote[s]]

(* What the server holds once it has stored the uploaded sessions.         *)
Replaced(stored) == [s \in Session |-> IF s \in stored THEN pass.total[s] ELSE remote[s]]

(* The server stores some sessions of the batch and refuses the others.    *)
PassUploads(stored) ==
    /\ pass.pc = "send" /\ stored \subseteq pass.batch
    /\ remote' = Replaced(stored)
    /\ unsent' = unsent \ (stored \ pass.changed)
    /\ pass' = [pass EXCEPT !.pc = "answer", !.acked = stored,
                            !.total = NoPass.total]
    /\ UNCHANGED <<playing, slices, books, outbox, wanted, sync, faults>>

PassAnswered ==
    /\ pass.pc = "answer"
    /\ pass' = [pass EXCEPT !.pc = "confirm", !.todo = pass.acked]
    /\ UNCHANGED <<playing, slices, books, remote, outbox, unsent, wanted, sync, faults>>

PassConfirms(s) ==
    /\ pass.pc = "confirm" /\ s \in pass.todo
    /\ Confirm(s, pass.delta[s])
    /\ pass' = [pass EXCEPT !.todo = @ \ {s}]
    /\ UNCHANGED <<playing, slices, remote, outbox, unsent, wanted, sync, faults>>

(* Mutants: records are dropped by their identity; or all are kept when    *)
(* one of them changed.                                                    *)
AcknowledgedById == pass.acked
AcknowledgedTogether == IF pass.changed = {} THEN pass.acked ELSE {}

(* removeAcknowledged drops the records that still equal the uploaded ones. *)
Acknowledged == pass.acked \ pass.changed

PassRemoves ==
    /\ pass.pc = "confirm" /\ pass.todo = {}
    /\ outbox' = outbox \ Acknowledged
    /\ pass' = NoPass
    /\ UNCHANGED <<playing, slices, books, remote, unsent, wanted, sync, faults>>

(* Any error ends the pass and leaves the outbox for a later one: the      *)
(* request or its answer fails, or the repository cannot be read or saved. *)
PassFails ==
    /\ pass.pc \in {"send", "answer"} /\ Failures # {}
    /\ pass' = NoPass
    /\ UNCHANGED <<playing, slices, books, remote, outbox, unsent, wanted, sync, faults>>

StoreFails ==
    /\ pass.pc \in {"measure", "confirm"} /\ pass.todo # {}
    /\ faults < MaxFaults /\ faults' = faults + 1
    /\ pass' = NoPass
    /\ UNCHANGED <<playing, slices, books, remote, outbox, unsent, wanted, sync>>

-----------------------------------------------------------------------------
(* The sync of an online session.                                          *)

(* syncProgress runs one performProgressSync after the other; each first   *)
(* finishes the session, and then awaits the delta that is pending.        *)
SyncStarts ==
    /\ sync.pc = "idle" /\ player \in Online
    /\ Finish(player)
    /\ sync' = [NoSync EXCEPT !.pc = "measure", !.session = player]
    /\ UNCHANGED <<player, stage, used, books, remote, outbox, unsent, wanted, pass, faults>>

SyncMeasures ==
    /\ sync.pc = "measure"
    /\ sync' = [sync EXCEPT !.pc = "send", !.delta = Pending(sync.session)]
    /\ UNCHANGED <<playing, slices, books, remote, outbox, unsent, wanted, pass, faults>>

SyncReaches ==
    /\ sync.pc = "send"
    /\ remote' = [remote EXCEPT ![sync.session] = @ + sync.delta]
    /\ sync' = [sync EXCEPT !.pc = "answer"]
    /\ UNCHANGED <<playing, slices, books, outbox, unsent, wanted, pass, faults>>

(* The answer counts only if the player still has the session.             *)
SyncAnswered ==
    /\ sync.pc = "answer"
    /\ IF player = sync.session THEN Confirm(sync.session, sync.delta) ELSE UNCHANGED books
    /\ sync' = NoSync
    /\ UNCHANGED <<playing, slices, remote, outbox, unsent, wanted, pass, faults>>

(* Mutant: a failed sync is simply repeated.                               *)
NeverAmbiguous(error) == FALSE

(* isAmbiguousStatisticsSyncFailure: only a failure of the transport is.   *)
Ambiguous(error) == error = "lost"

(* The request or its answer is lost; the server refuses the request; or   *)
(* the answer has no effect: a login of the account makes sendAuthenticated *)
(* discard it, or the confirmation cannot be saved.                        *)
SyncFails(error) ==
    /\ error \in Failures
    /\ sync.pc = "send" \/ (sync.pc = "answer" /\ error # "refused")
    /\ IF player = sync.session /\ Ambiguous(error)
       THEN MarkUncertain(sync.session, sync.delta) ELSE UNCHANGED books
    /\ sync' = NoSync
    /\ UNCHANGED <<playing, slices, remote, outbox, unsent, wanted, pass, faults>>

-----------------------------------------------------------------------------
(* The process dies and is started again: what is in memory is gone, and   *)
(* the restored accounts ask for a pass.                                   *)
Kill ==
    /\ faults < MaxFaults
    /\ faults' = faults + 1
    /\ player' = NoSession /\ stage' = "open" /\ fresh' = Zero
    /\ pass' = NoPass /\ sync' = NoSync /\ wanted' = TRUE
    /\ UNCHANGED <<used, slices, books, remote, outbox, unsent>>

Playing ==
    \/ \E s \in Local : BeginLocal(s)
    \/ \E s \in Online : BeginOnline(s)
    \/ Hear \/ Checkpoint \/ Persist \/ Stop \/ Leave

Uploading ==
    \/ Schedule \/ PassStarts \/ PassReads
    \/ \E s \in Local : PassMeasures(s) \/ PassConfirms(s)
    \/ \E stored \in SUBSET Local : PassUploads(stored)
    \/ PassAnswered \/ PassRemoves \/ PassFails \/ StoreFails

Syncing ==
    \/ SyncStarts \/ SyncMeasures \/ SyncReaches \/ SyncAnswered
    \/ \E error \in Failures : SyncFails(error)

Next == Playing \/ Uploading \/ Syncing \/ Kill

Spec == Init /\ [][Next]_vars

(* The app keeps asking for passes (every network path, foreground and     *)
(* login does) and its tasks run.                                          *)
Working ==
    \/ Schedule \/ PassStarts \/ PassReads
    \/ \E s \in Local : PassMeasures(s) \/ PassConfirms(s)
    \/ PassAnswered \/ PassRemoves

(* A server that is asked again and again in the end stores the whole      *)
(* batch, and an answer that says so arrives.                              *)
Fairness ==
    /\ WF_vars(Working)
    /\ SF_vars(PassUploads(pass.batch))
    /\ SF_vars(pass.acked = pass.batch /\ PassAnswered)

FairSpec == Spec /\ Fairness

-----------------------------------------------------------------------------
(* The types of the state.                                                 *)
TypeOK ==
    /\ player \in Session \cup {NoSession}
    /\ stage \in {"open", "stopping"}
    /\ used \subseteq Session
    /\ fresh \in [Session -> Nat] /\ slices \in [Session -> Nat]
    /\ confirmed \in [Session -> Nat] /\ uncertain \in [Session -> Nat]
    /\ remote \in [Session -> Nat]
    /\ outbox \subseteq Local /\ unsent \subseteq Local
    /\ wanted \in BOOLEAN
    /\ pass \in [pc : {"idle", "read", "measure", "send", "answer", "confirm"},
                 todo : SUBSET Local, batch : SUBSET Local, changed : SUBSET Local,
                 total : [Local -> Nat], delta : [Local -> Nat], acked : SUBSET Local]
    /\ sync \in [pc : {"idle", "measure", "send", "answer"},
                 session : Online \cup {NoSession}, delta : Nat]
    /\ faults \in 0 .. MaxFaults

(* The accounting of a session never claims more than was measured, so     *)
(* what is still to be reported is never hidden by an earlier report,      *)
(* however uploads, syncs, failures and kills interleave (updateAccounting *)
(* itself checks nothing).                                                 *)
AccountedWithinMeasured == \A s \in Session : Reported(s) <= slices[s]

(* What the device counts as confirmed is really held by the server: the   *)
(* lower bound of the all-device statistic is sound.                       *)
ConfirmedIsStored == \A s \in Session : confirmed[s] <= remote[s]

(* And the upper bound: while a streamed session is open and no sync of it *)
(* is in flight, the server holds at most the confirmed and the uncertain  *)
(* seconds, whatever syncs were lost before.                               *)
UncertainBoundsRemote ==
    \A s \in Online : player = s /\ sync.session # s => remote[s] <= Reported(s)

(* The newest saved position of a downloaded book is on the server or in   *)
(* the outbox: an acknowledgement that crosses a save removes nothing, and *)
(* neither does one that is lost.                                          *)
NothingLost == unsent \subseteq outbox

Ledger == INSTANCE ListeningLedger WITH measured <- slices, credited <- remote

(* Both paths together keep the ledger: an upload repeated after a lost    *)
(* answer replaces, a sync repeated after one must not add again, and the  *)
(* server's total never shrinks.                                           *)
KeepsLedger == Ledger!Spec

(* A record waits for ever only while its session is the one playing.      *)
OutboxDrains == \A s \in Local : s \in outbox ~> (s \notin outbox \/ player = s)

(* docs/audiobookshelf-ios-app-spec.md:1558: an ambiguous response marks   *)
(* the delta uncertain rather than silently sending it again, so no second *)
(* of a streamed session is counted twice.                                 *)
OnlineCountedOnce == \A s \in Online : remote[s] <= slices[s]
=============================================================================
