-------------------------- MODULE TelemetryClient --------------------------
(***************************************************************************)
(* The telemetry token provider of the app                                 *)
(* (Sources/BleatCore/TelemetryAuthentication.swift): callers that share   *)
(* one refresh, consent that is withdrawn and given again, and a refresh   *)
(* that is cancelled but still runs: its calls of the keychain and of App  *)
(* Attest are not cancellable, and an answer that has arrived counts.      *)
(*                                                                         *)
(* A refresh is a slot whose pc names the await it is in; the step of that *)
(* name is what happens up to the next one.  The attestation service is    *)
(* TelemetryAuthService; here it only remembers which keys were enrolled.  *)
(***************************************************************************)
EXTENDS Naturals

CONSTANTS
    Callers,    \* tasks that ask for a token
    Slots,      \* bound: refreshes alive at the same time
    NoSlot,
    MaxKeys,    \* bound: App Attest keys generated
    MaxEras     \* bound: times consent is given or the app is started

ASSUME SlotsAssumption == NoSlot \notin Slots
ASSUME BoundsAssumption == MaxKeys \in Nat /\ MaxEras \in Nat

VARIABLES
    enabled,    \* consent for diagnostic telemetry
    era,        \* history: how often consent was given
    token,      \* 0, or the era of the refresh that brought the token
    expiring,   \* the token is inside the refresh window
    current,    \* the slot refreshTask and refreshID name, or NoSlot
    refresh,    \* the refreshes that run, cancelled ones included
    caller,     \* "idle", "waiting" for a refresh, or "leaving" it
    backoff,    \* nextRetryAt is in the future
    terminal,   \* terminalFailure is set
    store,      \* the keychain's enrolment: its key and whether it has an installation
    keys,       \* keys App Attest has generated
    enrolled    \* history, of the service: how often each key was enrolled

answered == <<token, expiring, backoff, terminal>>
vars == <<enabled, era, answered, current, refresh, caller, store, keys, enrolled>>

NoKey == 0
NoEnrolment == [key |-> NoKey, installed |-> FALSE]
NotRunning == [pc |-> "none", key |-> NoKey, era |-> 0, replaced |-> FALSE,
               cancelled |-> FALSE, result |-> "none"]

Init ==
    /\ enabled = FALSE /\ era = 0
    /\ token = 0 /\ expiring = FALSE /\ backoff = FALSE /\ terminal = FALSE
    /\ current = NoSlot /\ refresh = [r \in Slots |-> NotRunning]
    /\ caller = [c \in Callers |-> "idle"]
    /\ store = NoEnrolment /\ keys = 0 /\ enrolled = [k \in 1 .. MaxKeys |-> 0]

Running(r) == refresh[r].pc # "none"
Waiters == {c \in Callers : caller[c] # "idle"}

-----------------------------------------------------------------------------
(* Consent.                                                                *)

Enable ==
    /\ ~enabled /\ era < MaxEras
    /\ enabled' = TRUE /\ era' = era + 1
    /\ UNCHANGED <<answered, current, refresh, caller, store, keys, enrolled>>

(* Mutant: the refresh is forgotten, and not cancelled.                    *)
NotCancelled == refresh

(* refreshTask.cancel() asks the refresh to stop, and does not wait.       *)
Cancelled ==
    IF current = NoSlot THEN refresh ELSE [refresh EXCEPT ![current].cancelled = TRUE]

(* Mutant: the callers are not resumed.                                    *)
LeftWaiting == caller

Resumed == [c \in Callers |-> "idle"]

(* setEnabled(false): every caller is told, and nothing is kept.           *)
Disable ==
    /\ enabled
    /\ enabled' = FALSE
    /\ refresh' = Cancelled /\ current' = NoSlot
    /\ caller' = Resumed
    /\ token' = 0 /\ expiring' = FALSE /\ backoff' = FALSE /\ terminal' = FALSE
    /\ UNCHANGED <<era, store, keys, enrolled>>

-----------------------------------------------------------------------------
(* Callers.                                                                *)

(* currentToken and registerRefreshWaiter: there is no usable token, and   *)
(* no reason to fail at once.  The first caller starts the refresh.        *)
Call(c) ==
    /\ caller[c] = "idle"
    /\ enabled /\ ~terminal /\ ~backoff /\ (token = 0 \/ expiring)
    /\ caller' = [caller EXCEPT ![c] = "waiting"]
    /\ IF current # NoSlot THEN UNCHANGED <<current, refresh>>
       ELSE \E r \in Slots :
              /\ ~Running(r)
              /\ current' = r
              /\ refresh' = [refresh EXCEPT ![r] =
                                [NotRunning EXCEPT !.pc = "load", !.era = era]]
    /\ UNCHANGED <<enabled, era, answered, store, keys, enrolled>>

(* The caller's task is cancelled: onCancel hops to the actor.             *)
Leave(c) ==
    /\ caller[c] = "waiting"
    /\ caller' = [caller EXCEPT ![c] = "leaving"]
    /\ UNCHANGED <<enabled, era, answered, current, refresh, store, keys, enrolled>>

(* Mutant: the refresh is given up with the first caller that leaves.      *)
AnyWaiter(c) == TRUE

LastWaiter(c) == Waiters = {c}

(* cancelRefreshWaiter: the last caller to leave takes the refresh along.  *)
LeaveArrives(c) ==
    /\ caller[c] = "leaving"
    /\ caller' = [caller EXCEPT ![c] = "idle"]
    /\ IF LastWaiter(c) THEN refresh' = Cancelled /\ current' = NoSlot
                        ELSE UNCHANGED <<refresh, current>>
    /\ UNCHANGED <<enabled, era, answered, store, keys, enrolled>>

(* invalidateToken(ifCurrent:): the Collector rejected the current token.  *)
Invalidate ==
    /\ token # 0
    /\ token' = 0 /\ expiring' = FALSE /\ backoff' = FALSE
    /\ UNCHANGED <<enabled, era, terminal, current, refresh, caller, store, keys, enrolled>>

-----------------------------------------------------------------------------
(* One refresh.                                                            *)

In(r, pc) == refresh[r].pc = pc
Becomes(r, new) == refresh' = [refresh EXCEPT ![r] = new]
Goes(r, pc) == Becomes(r, [refresh[r] EXCEPT !.pc = pc])
Ends(r, result) == Becomes(r, [refresh[r] EXCEPT !.pc = "done", !.result = result])
Shared == <<enabled, era, answered, current, caller>>

(* Mutant: a pending enrolment is taken up where it was left.              *)
AfterLoadingPending(r) ==
    IF store.installed THEN [refresh[r] EXCEPT !.pc = "issue", !.key = store.key]
    ELSE IF store.key # NoKey THEN [refresh[r] EXCEPT !.pc = "challenge", !.key = store.key]
    ELSE [refresh[r] EXCEPT !.pc = "generate"]

(* A pending enrolment is never resumed: its key is given up.              *)
AfterLoading(r) ==
    IF store.installed THEN [refresh[r] EXCEPT !.pc = "issue", !.key = store.key]
    ELSE IF store.key # NoKey THEN [refresh[r] EXCEPT !.pc = "delete"]
    ELSE [refresh[r] EXCEPT !.pc = "generate"]

Load(r) ==
    /\ In(r, "load")
    /\ Becomes(r, AfterLoading(r))
    /\ UNCHANGED <<Shared, store, keys, enrolled>>

Delete(r) ==
    /\ In(r, "delete")
    /\ store' = NoEnrolment
    /\ Goes(r, "generate")
    /\ UNCHANGED <<Shared, keys, enrolled>>

Generate(r) ==
    /\ In(r, "generate") /\ keys < MaxKeys
    /\ keys' = keys + 1
    /\ Becomes(r, [refresh[r] EXCEPT !.pc = "pend", !.key = keys + 1])
    /\ UNCHANGED <<Shared, store, enrolled>>

(* Mutant: the record saved before the service is asked looks complete.    *)
CompleteAtOnce(r) == [key |-> refresh[r].key, installed |-> TRUE]

Pending(r) == [key |-> refresh[r].key, installed |-> FALSE]

SavePending(r) ==
    /\ In(r, "pend")
    /\ store' = Pending(r)
    /\ Goes(r, "challenge")
    /\ UNCHANGED <<Shared, keys, enrolled>>

(* The enrolment challenge, and its attestation by App Attest.             *)
Challenge(r) ==
    /\ In(r, "challenge")
    /\ Goes(r, "enroll")
    /\ UNCHANGED <<Shared, store, keys, enrolled>>

(* The service enrols the key; its answer is still under way.              *)
EnrollReaches(r) ==
    /\ In(r, "enroll")
    /\ enrolled' = [enrolled EXCEPT ![refresh[r].key] = @ + 1]
    /\ Goes(r, "install")
    /\ UNCHANGED <<Shared, store, keys>>

SaveInstalled(r) ==
    /\ In(r, "install")
    /\ store' = [key |-> refresh[r].key, installed |-> TRUE]
    /\ Goes(r, "issue")
    /\ UNCHANGED <<Shared, keys, enrolled>>

(* The token challenge, its assertion, and the token.                      *)
Issue(r) ==
    /\ In(r, "issue")
    /\ Ends(r, "token")
    /\ UNCHANGED <<Shared, store, keys, enrolled>>

(* App Attest no longer knows the key: once, it is replaced.               *)
KeyInvalidated(r) ==
    /\ In(r, "issue")
    /\ IF refresh[r].replaced THEN Ends(r, "rejected")
       ELSE Becomes(r, [refresh[r] EXCEPT !.pc = "delete", !.replaced = TRUE])
    /\ UNCHANGED <<Shared, store, keys, enrolled>>

(* An await fails: the keychain, App Attest or the network for a while, or *)
(* for good; the transport also because the refresh was cancelled.         *)
Fails(r) ==
    /\ Running(r) /\ ~In(r, "done")
    /\ \/ Ends(r, "unavailable")
       \/ In(r, "generate") /\ Ends(r, "unsupported")
       \/ refresh[r].pc \in {"generate", "challenge", "enroll", "install", "issue"}
          /\ Ends(r, "rejected")
       \/ refresh[r].pc \in {"challenge", "enroll", "install", "issue"}
          /\ refresh[r].cancelled /\ Ends(r, "cancelled")
    /\ UNCHANGED <<Shared, store, keys, enrolled>>

(* Mutants: any refresh that ends is taken for the current one; or none is. *)
CountsAlways(r) == TRUE
CountsNever(r) == FALSE

(* completeRefresh compares the identifier of the refresh that ended.      *)
Counts(r) == current = r

(* completeRefresh and recordFailure.                                      *)
Complete(r) ==
    /\ In(r, "done")
    /\ refresh' = [refresh EXCEPT ![r] = NotRunning]
    /\ IF ~Counts(r) THEN UNCHANGED <<answered, current, caller>>
       ELSE /\ current' = NoSlot
            /\ caller' = Resumed
            /\ IF refresh[r].result = "token"
               THEN /\ token' = refresh[r].era /\ expiring' = FALSE
                    /\ backoff' = FALSE /\ terminal' = FALSE
               ELSE /\ UNCHANGED <<token, expiring>>
                    /\ terminal' = (terminal \/ refresh[r].result = "rejected")
                    /\ backoff' = (backoff \/ refresh[r].result = "unavailable")
    /\ UNCHANGED <<enabled, era, store, keys, enrolled>>

-----------------------------------------------------------------------------
(* The environment.                                                        *)

Expire ==
    /\ token # 0 /\ ~expiring
    /\ expiring' = TRUE
    /\ UNCHANGED <<enabled, era, token, backoff, terminal, current, refresh,
                   caller, store, keys, enrolled>>

RetryDue ==
    /\ backoff
    /\ backoff' = FALSE
    /\ UNCHANGED <<enabled, era, token, expiring, terminal, current, refresh,
                   caller, store, keys, enrolled>>

(* The process ends at any await; started again, it is enabled if it was.  *)
(* Only the keychain and the service remember.                             *)
Restart ==
    /\ era < MaxEras
    /\ era' = era + 1
    /\ token' = 0 /\ expiring' = FALSE /\ backoff' = FALSE /\ terminal' = FALSE
    /\ current' = NoSlot /\ refresh' = [r \in Slots |-> NotRunning]
    /\ caller' = Resumed
    /\ UNCHANGED <<enabled, store, keys, enrolled>>

Step(r) ==
    \/ Load(r) \/ Delete(r) \/ Generate(r) \/ SavePending(r) \/ Challenge(r)
    \/ EnrollReaches(r) \/ SaveInstalled(r) \/ Issue(r) \/ KeyInvalidated(r)
    \/ Fails(r) \/ Complete(r)

Next ==
    \/ Enable \/ Disable \/ Restart
    \/ \E c \in Callers : Call(c) \/ Leave(c) \/ LeaveArrives(c)
    \/ \E r \in Slots : Step(r)
    \/ Invalidate \/ Expire \/ RetryDue

Spec == Init /\ [][Next]_vars

(* Every await of a refresh ends: requests time out, and the keychain and  *)
(* App Attest answer.                                                      *)
FairSpec == Spec /\ \A r \in Slots : WF_vars(Step(r))

-----------------------------------------------------------------------------
(* What a refresh is made of.                                              *)
RefreshRecord ==
    [pc : {"none", "load", "delete", "generate", "pend",
           "challenge", "enroll", "install", "issue", "done"},
     key : 0 .. MaxKeys, era : 0 .. MaxEras, replaced : BOOLEAN, cancelled : BOOLEAN,
     result : {"none", "token", "unavailable", "unsupported", "rejected", "cancelled"}]

(* The types of the state; a refresh that is named runs, and a refresh     *)
(* works for an era that has begun.                                        *)
TypeOK ==
    /\ enabled \in BOOLEAN /\ era \in 0 .. MaxEras
    /\ token \in 0 .. era /\ expiring \in BOOLEAN
    /\ backoff \in BOOLEAN /\ terminal \in BOOLEAN
    /\ current \in Slots \cup {NoSlot}
    /\ current # NoSlot => Running(current)
    /\ refresh \in [Slots -> RefreshRecord]
    /\ \A r \in Slots : refresh[r].era <= era
    /\ caller \in [Callers -> {"idle", "waiting", "leaving"}]
    /\ store \in [key : 0 .. MaxKeys, installed : BOOLEAN]
    /\ keys \in 0 .. MaxKeys
    /\ enrolled \in [1 .. MaxKeys -> Nat]

(* Withdrawn consent discards the token for good: a refresh of before the  *)
(* withdrawal that succeeds afterwards brings none, even when consent has  *)
(* been given again by then.                                               *)
NoTokenAcrossWithdrawal == token # 0 => enabled /\ token = era

(* Whoever waits, waits for a refresh that will tell him: however calls,   *)
(* cancellations, withdrawals and late refreshes interleave.               *)
WaitersServed == Waiters # {} => enabled /\ current # NoSlot

(* One refresh at a time: another one still runs only if it was cancelled. *)
SingleFlight == \A r \in Slots : Running(r) /\ ~refresh[r].cancelled => r = current

(* What the keychain calls an installation is one the service knows, even  *)
(* if two refreshes write the keychain in turns.                           *)
StoredIsEnrolled == store.installed => store.key # NoKey /\ enrolled[store.key] > 0

(* No key is offered to the service a second time: the service would       *)
(* reject it, which ends telemetry until consent is given again.           *)
KeysEnrolOnce == \A k \in 1 .. MaxKeys : enrolled[k] <= 1

(* Every call returns.                                                     *)
CallsReturn == \A c \in Callers : caller[c] # "idle" ~> caller[c] = "idle"
=============================================================================
