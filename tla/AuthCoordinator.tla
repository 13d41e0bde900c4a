---- MODULE AuthCoordinator ----
(***************************************************************************)
(* The per-account half of the AuthCoordinator actor: ordinary             *)
(* authenticated requests with silent sign-in and 401 recovery, the        *)
(* single-flight refresh task and its memo, native and OpenID login,       *)
(* local-login validation and the two logouts                              *)
(* (Sources/BleatCore/Authentication.swift, AuthenticatedRequests.swift,   *)
(* Logout.swift, OpenIDAuthentication.swift).                              *)
(*                                                                         *)
(* A Swift actor runs one piece of code at a time, from one suspension     *)
(* point (`await`) to the next.  A call is therefore a record with a       *)
(* program counter naming the suspension it waits at, and every action     *)
(* below is one such piece.  The state below is kept per account, but for  *)
(* openIDAttempt and the attempt counter, so one account stands for each.  *)
(*                                                                         *)
(* A token is the number of the access/refresh pair the server issued; 0   *)
(* is no pair.  Pair 1 is the one a previous run of the app left behind.   *)
(* The server may reject any access or refresh token at any time.          *)
(***************************************************************************)
EXTENDS Naturals, Sequences

CONSTANTS
    Callers,    \* the tasks that call into the coordinator
    Operations, \* the entry points these callers use, a subset of EntryPoints
    MaxCalls    \* bound: calls made before the callers fall silent

EntryPoints == {"request", "accessToken", "recover", "login", "validate",
                "logout", "logoutKeeping", "openID"}

ASSUME OperationsAssumption == Operations \subseteq EntryPoints
ASSUME MaxCallsAssumption == MaxCalls \in Nat

VARIABLES
    store,          \* the account's Keychain items: token pair, native login
    issued,         \* how many pairs the server has issued
    generation,     \* accountOperationGenerations[account]
    loggingIn,      \* account \in accountsLoggingIn
    signingOut,     \* account \in accountsSigningOut
    reauth,         \* account \in reauthenticationRequiredAccounts
    refreshAttempt, \* refreshAttempts[account]?.id, 0 when there is none
    attempts,       \* every refresh task; Len is nextRefreshAttemptID
    completed,      \* completedRefreshes[account], NoMemo when there is none
    openIDAttempt,  \* openIDAttempt # nil
    call,           \* what each caller is doing
    calls,          \* calls made so far
    signedOut       \* history: "no", or since a full logout has deleted the
                    \* credentials nobody has explicitly logged in, and what
                    \* it left is "empty" or a request "refilled" it

vars == <<store, issued, generation, loggingIn, signingOut, reauth,
          refreshAttempt, attempts, completed, openIDAttempt, call, calls,
          signedOut>>
lifecycle == <<generation, loggingIn, signingOut>>

----
(* What the variables hold. *)

NoToken == 0
NoMemo == [rejected |-> NoToken, result |-> [kind |-> "none", token |-> NoToken]]
Success(t) == [kind |-> "success", token |-> t]
Retryable == [kind |-> "retryable", token |-> NoToken]
Conclusive == [kind |-> "reauthenticationRequired", token |-> NoToken]
Pending == [kind |-> "none", token |-> NoToken]

Result == [kind : {"none", "success", "retryable", "reauthenticationRequired"},
           token : Nat]
Attempt == [phase : {"refresh", "saveRefresh", "readNative", "signIn",
                     "saveSignIn", "done"},
            rejected : Nat, token : Nat, cancelled : BOOLEAN, result : Result]
Waits == {"idle", "responded", "failed",
          "readTokens", "tokensRead", "readNative", "signIn", "save", "saved",
          "unsaved", "send", "readCurrent", "currentRead", "joined", "retry",
          "settle", "remoteLogout", "delete", "deleted", "undeleted",
          "exchange"}
Call == [op : EntryPoints \cup {"none"},
         pc : Waits,       \* the suspension point it waits at
         gen : Nat,        \* the generation the call captured
         rejected : Nat,   \* rejectedAccessToken
         held : Nat,       \* the pair this call read, minted or recovered
         attempt : Nat]    \* the refresh task it awaits

Ended(outcome) == [op |-> "none", pc |-> outcome, gen |-> 0,
                   rejected |-> NoToken, held |-> NoToken, attempt |-> 0]

FlagsOK ==
    /\ loggingIn \in BOOLEAN /\ signingOut \in BOOLEAN
    /\ reauth \in BOOLEAN
    /\ openIDAttempt \in BOOLEAN
    /\ signedOut \in {"no", "empty", "refilled"}

TypeOK ==
    /\ FlagsOK
    /\ store \in [tokens : Nat, native : BOOLEAN]
    /\ issued \in Nat /\ generation \in Nat /\ calls \in Nat
    /\ refreshAttempt \in 0..Len(attempts)
    /\ attempts \in Seq(Attempt)
    /\ completed \in [rejected : Nat, result : Result]
    /\ call \in [Callers -> Call]

Init ==
    /\ store \in [tokens : {0, 1}, native : BOOLEAN]
    /\ issued = 1
    /\ generation = 0
    /\ loggingIn = FALSE /\ signingOut = FALSE
    /\ reauth = FALSE
    /\ refreshAttempt = 0
    /\ attempts = <<>>
    /\ completed = NoMemo
    /\ openIDAttempt = FALSE
    /\ call = [c \in Callers |-> Ended("idle")]
    /\ calls = 0
    /\ signedOut = "no"

----
(* Helpers shared by the handlers. *)

At(c, op, pc) == call[c].op = op /\ call[c].pc = pc
Become(c, new) == call' = [call EXCEPT ![c] = new]
Goto(c, pc) == Become(c, [call[c] EXCEPT !.pc = pc])
GotoWith(c, pc, t) == Become(c, [call[c] EXCEPT !.pc = pc, !.held = t])
Return(c, outcome) == Become(c, Ended(outcome))

\* Mutant of Current: the captured generation is not compared.
CurrentOfAnyGeneration(gen) == ~loggingIn /\ ~signingOut

\* accountOperationIsCurrent
Current(gen) == generation = gen /\ ~loggingIn /\ ~signingOut

\* Every entry point is called at most MaxCalls times in all.
Begin(c, op, first) ==
    /\ op \in Operations
    /\ call[c].op = "none"
    /\ calls < MaxCalls
    /\ calls' = calls + 1
    /\ Become(c, first)

\* Mutant of NoAccountOperation: logins in progress are not looked at.
NoLogoutInProgress == ~signingOut

\* The guard of login, validateLocalLogin, both logouts and sendAuthenticated;
\* a call that finds an account operation in progress throws and changes
\* nothing.
NoAccountOperation == ~loggingIn /\ ~signingOut

Entry(op, pc) == [Ended(pc) EXCEPT !.op = op, !.gen = generation]

----
(* sendAuthenticated: the first request and its silent sign-in; accessToken,  *)
(* which shares the read of the stored pair.                                  *)

BeginRequest(c) ==
    /\ NoAccountOperation
    /\ Begin(c, "request", Entry("request", "readTokens"))
    /\ UNCHANGED <<store, issued, lifecycle, reauth, refreshAttempt, attempts,
                   completed, openIDAttempt, signedOut>>

\* accessToken has no guard of its own.
BeginAccessToken(c) ==
    /\ Begin(c, "accessToken", Entry("accessToken", "readTokens"))
    /\ UNCHANGED <<store, issued, lifecycle, reauth, refreshAttempt, attempts,
                   completed, openIDAttempt, signedOut>>

\* storedCredentials, up to the vault's answer.
ReadTokens(c) ==
    /\ call[c].pc = "readTokens"
    /\ \/ GotoWith(c, "tokensRead", store.tokens)
       \/ Return(c, "failed")                       \* credentialsReadFailed
    /\ UNCHANGED <<store, issued, lifecycle, reauth, refreshAttempt, attempts,
                   completed, openIDAttempt, calls, signedOut>>

\* storedCredentials with that answer, then accessToken returns and a request
\* goes on with credentialsForInitialRequest.
UseTokens(c) ==
    /\ call[c].pc = "tokensRead"
    /\ \/ /\ call[c].op = "request"
          /\ Goto(c, IF call[c].held = NoToken THEN "readNative" ELSE "send")
       \/ /\ call[c].op = "accessToken"
          /\ Return(c, IF call[c].held = NoToken THEN "failed" ELSE "responded")
    /\ reauth' = (reauth \/ call[c].held = NoToken)
    /\ UNCHANGED <<store, issued, lifecycle, refreshAttempt, attempts,
                   completed, openIDAttempt, calls, signedOut>>

ReadNative(c) ==
    /\ At(c, "request", "readNative")
    /\ \/ store.native /\ Goto(c, "signIn") /\ UNCHANGED reauth
       \/ ~store.native /\ Return(c, "failed") /\ UNCHANGED reauth
       \/ Return(c, "failed") /\ reauth' = FALSE    \* the read itself failed
    /\ UNCHANGED <<store, issued, lifecycle, refreshAttempt, attempts,
                   completed, openIDAttempt, calls, signedOut>>

\* authenticateLocally's two requests.  validateLocalLogin discards the pair.
Accepted(c) ==
    /\ issued' = issued + 1
    /\ \/ /\ call[c].op # "validate"
          /\ GotoWith(c, "save", issued + 1)
          /\ UNCHANGED loggingIn
       \/ call[c].op = "validate" /\ Return(c, "responded") /\ loggingIn' = FALSE
    /\ UNCHANGED reauth

\* The handler's error path: a silent sign-in files the failure by its
\* recoveryDisposition, an explicit one only ends the exclusive section.
Refused(c, conclusive) ==
    /\ Return(c, "failed")
    /\ \/ call[c].op = "request" /\ reauth' = conclusive /\ UNCHANGED loggingIn
       \/ call[c].op # "request" /\ loggingIn' = FALSE /\ UNCHANGED reauth
    /\ UNCHANGED issued

SignIn(c) ==
    /\ call[c].pc = "signIn"
    /\ Accepted(c) \/ \E conclusive \in BOOLEAN : Refused(c, conclusive)
    /\ UNCHANGED <<store, generation, signingOut, refreshAttempt, attempts,
                   completed, openIDAttempt, calls, signedOut>>

\* TokenVault.save(_:nativeLogin:for:): the pair is written, then the native
\* login; when the second write fails the pair is deleted, if it can be.
\* OpenID logins store the pair alone.
Save(c) ==
    /\ call[c].pc = "save"
    /\ \/ /\ store' = [tokens |-> call[c].held,
                       native |-> store.native \/ call[c].op # "openID"]
          /\ Goto(c, "saved")
       \/ /\ \E left \in (IF call[c].op = "openID" THEN {store.tokens}
                          ELSE {store.tokens, NoToken, call[c].held}) :
                store' = [store EXCEPT !.tokens = left]
          /\ Goto(c, "unsaved")
    /\ signedOut' = IF call[c].op # "request" THEN "no"
                    ELSE IF signedOut = "empty" /\ store' # store THEN "refilled"
                    ELSE signedOut
    /\ UNCHANGED <<issued, lifecycle, reauth, refreshAttempt, attempts,
                   completed, openIDAttempt, calls>>

\* credentialsForInitialRequest returns the pair it signed in for.
UseSignIn(c) ==
    /\ call[c].op = "request"
    /\ \/ call[c].pc = "saved" /\ Goto(c, "send")
       \/ call[c].pc = "unsaved" /\ Return(c, "failed")
    /\ reauth' = FALSE
    /\ UNCHANGED <<store, issued, lifecycle, refreshAttempt, attempts,
                   completed, openIDAttempt, calls, signedOut>>

\* The first response: dropped when the operation was retired meanwhile, else
\* returned, or a 401 that enters credentialsAfterUnauthorizedResponse.
Send(c) ==
    /\ At(c, "request", "send")
    /\ \/ Return(c, "failed")                       \* requestTransportFailed
       \/ ~Current(call[c].gen) /\ Return(c, "failed")
       \/ Current(call[c].gen) /\ Return(c, "responded")
       \/ /\ Current(call[c].gen)
          /\ Become(c, [call[c] EXCEPT !.pc = "readCurrent",
                                       !.rejected = call[c].held,
                                       !.held = NoToken])
    /\ UNCHANGED <<store, issued, lifecycle, reauth, refreshAttempt, attempts,
                   completed, openIDAttempt, calls, signedOut>>

----
(* credentialsAfterUnauthorizedResponse and recoverAccessToken. *)

\* recoverAccessToken has no guard of its own.
BeginRecover(c) ==
    /\ \E t \in 1..issued :
          Begin(c, "recover",
                [Entry("recover", "readCurrent") EXCEPT !.rejected = t])
    /\ UNCHANGED <<store, issued, lifecycle, reauth, refreshAttempt, attempts,
                   completed, openIDAttempt, signedOut>>

ReadCurrent(c) ==
    /\ call[c].pc = "readCurrent"
    /\ \/ GotoWith(c, "currentRead", store.tokens)
       \/ Return(c, "failed")                       \* credentialsReadFailed
    /\ UNCHANGED <<store, issued, lifecycle, reauth, refreshAttempt, attempts,
                   completed, openIDAttempt, calls, signedOut>>

\* A request goes on to its retry, recoverAccessToken returns the token.
Recovered(c, t) ==
    IF call[c].op = "request"
    THEN GotoWith(c, "retry", t)
    ELSE Return(c, "responded")

RecoveryRefused(c) ==
    /\ call[c].pc = "currentRead"
    /\ call[c].held = NoToken \/ ~Current(call[c].gen)
    /\ reauth' = (reauth \/ call[c].held = NoToken)
    /\ Return(c, "failed")
    /\ UNCHANGED <<store, issued, lifecycle, refreshAttempt, attempts,
                   completed, openIDAttempt, calls, signedOut>>

MayRecover(c) ==
    /\ call[c].pc = "currentRead"
    /\ call[c].held # NoToken
    /\ Current(call[c].gen)

JoinRefresh(c) ==
    /\ MayRecover(c)
    /\ refreshAttempt # 0
    /\ Become(c, [call[c] EXCEPT !.pc = "joined", !.held = NoToken,
                                 !.attempt = refreshAttempt])
    /\ UNCHANGED <<store, issued, lifecycle, reauth, refreshAttempt, attempts,
                   completed, openIDAttempt, calls, signedOut>>

\* Mutant of Memoized: the memo answers for any rejected token.
MemoizedForAny(c) == completed # NoMemo

Memoized(c) == completed # NoMemo /\ completed.rejected = call[c].rejected

UseMemo(c) ==
    /\ MayRecover(c)
    /\ refreshAttempt = 0
    /\ Memoized(c)
    /\ IF completed.result.kind = "success"
       THEN Recovered(c, completed.result.token)
       ELSE Return(c, "failed")
    /\ UNCHANGED <<store, issued, lifecycle, reauth, refreshAttempt, attempts,
                   completed, openIDAttempt, calls, signedOut>>

UseStored(c) ==
    /\ MayRecover(c)
    /\ refreshAttempt = 0
    /\ ~Memoized(c)
    /\ call[c].held # call[c].rejected
    /\ Recovered(c, call[c].held)
    /\ UNCHANGED <<store, issued, lifecycle, reauth, refreshAttempt, attempts,
                   completed, openIDAttempt, calls, signedOut>>

\* Mutant of StartRefresh: the attempt in flight is not looked at.
StartSecondRefresh(c) ==
    /\ MayRecover(c)
    /\ ~Memoized(c)
    /\ call[c].held = call[c].rejected
    /\ attempts' = Append(attempts,
                          [phase |-> "refresh", rejected |-> call[c].rejected,
                           token |-> call[c].held, cancelled |-> FALSE,
                           result |-> Pending])
    /\ refreshAttempt' = Len(attempts) + 1
    /\ Become(c, [call[c] EXCEPT !.pc = "joined", !.held = NoToken,
                                 !.attempt = Len(attempts) + 1])
    /\ UNCHANGED <<store, issued, lifecycle, reauth, completed, openIDAttempt,
                   calls, signedOut>>

\* Mutant of StartRefresh: the attempt number is advanced before it is used.
StartMisnumberedRefresh(c) ==
    /\ MayRecover(c)
    /\ refreshAttempt = 0
    /\ ~Memoized(c)
    /\ call[c].held = call[c].rejected
    /\ attempts' = Append(attempts,
                          [phase |-> "refresh", rejected |-> call[c].rejected,
                           token |-> call[c].held, cancelled |-> FALSE,
                           result |-> Pending])
    /\ refreshAttempt' = Len(attempts) + 2
    /\ Become(c, [call[c] EXCEPT !.pc = "joined", !.held = NoToken,
                                 !.attempt = Len(attempts) + 1])
    /\ UNCHANGED <<store, issued, lifecycle, reauth, completed, openIDAttempt,
                   calls, signedOut>>

StartRefresh(c) ==
    /\ MayRecover(c)
    /\ refreshAttempt = 0
    /\ ~Memoized(c)
    /\ call[c].held = call[c].rejected
    /\ attempts' = Append(attempts,
                          [phase |-> "refresh", rejected |-> call[c].rejected,
                           token |-> call[c].held, cancelled |-> FALSE,
                           result |-> Pending])
    /\ refreshAttempt' = Len(attempts) + 1
    /\ Become(c, [call[c] EXCEPT !.pc = "joined", !.held = NoToken,
                                 !.attempt = Len(attempts) + 1])
    /\ UNCHANGED <<store, issued, lifecycle, reauth, completed, openIDAttempt,
                   calls, signedOut>>

\* Mutant of Record: a late waiter records its attempt as well.
RecordAlways(i) ==
    /\ refreshAttempt' = 0
    /\ completed' = IF attempts[i].result.kind = "retryable" THEN NoMemo
                    ELSE [rejected |-> attempts[i].rejected,
                          result |-> attempts[i].result]
    /\ reauth' = CASE attempts[i].result.kind = "success" -> FALSE
                   [] attempts[i].result.kind = "retryable" -> reauth
                   [] OTHER -> TRUE

\* Mutant of Record: a retryable outcome leaves the attempt registered.
RecordUnlessRetryable(i) ==
    IF refreshAttempt # i \/ attempts[i].result.kind = "retryable"
    THEN UNCHANGED <<refreshAttempt, completed, reauth>>
    ELSE /\ refreshAttempt' = 0
         /\ completed' = IF attempts[i].result.kind = "retryable" THEN NoMemo
                         ELSE [rejected |-> attempts[i].rejected,
                               result |-> attempts[i].result]
         /\ reauth' = CASE attempts[i].result.kind = "success" -> FALSE
                        [] attempts[i].result.kind = "retryable" -> reauth
                        [] OTHER -> TRUE

\* What the first waiter to resume records about the attempt it awaited; a
\* waiter of an attempt that is no longer the account's records nothing.
Record(i) ==
    IF refreshAttempt # i
    THEN UNCHANGED <<refreshAttempt, completed, reauth>>
    ELSE /\ refreshAttempt' = 0
         /\ completed' = IF attempts[i].result.kind = "retryable" THEN NoMemo
                         ELSE [rejected |-> attempts[i].rejected,
                               result |-> attempts[i].result]
         /\ reauth' = CASE attempts[i].result.kind = "success" -> FALSE
                        [] attempts[i].result.kind = "retryable" -> reauth
                        [] OTHER -> TRUE

FinishRefresh(c) ==
    /\ call[c].pc = "joined"
    /\ attempts[call[c].attempt].phase = "done"
    /\ Record(call[c].attempt)
    /\ LET result == attempts[call[c].attempt].result
       IN IF result.kind = "success" /\ Current(call[c].gen)
          THEN Recovered(c, result.token)
          ELSE Return(c, "failed")
    /\ UNCHANGED <<store, issued, lifecycle, attempts, openIDAttempt, calls,
                   signedOut>>

\* The retry's response is returned whatever happened to the account
\* meanwhile; a second 401 asks for a new login.
Retry(c) ==
    /\ call[c].pc = "retry"
    /\ \/ Return(c, "responded") /\ UNCHANGED reauth
       \/ Return(c, "failed") /\ UNCHANGED reauth   \* requestTransportFailed
       \/ Return(c, "failed") /\ reauth' = TRUE     \* retriedRequestUnauthorized
    /\ UNCHANGED <<store, issued, lifecycle, refreshAttempt, attempts,
                   completed, openIDAttempt, calls, signedOut>>

----
(* The refresh task: refreshOrReauthenticate, off the actor. *)

TaskBecomes(i, new) == attempts' = [attempts EXCEPT ![i] = new]
Advance(i, phase) == TaskBecomes(i, [attempts[i] EXCEPT !.phase = phase])
Minted(i, phase) ==
    /\ issued' = issued + 1
    /\ TaskBecomes(i, [attempts[i] EXCEPT !.phase = phase, !.token = issued + 1])
Settle(i, r) ==
    TaskBecomes(i, [attempts[i] EXCEPT !.phase = "done", !.result = r])

TaskUnchanged == UNCHANGED <<lifecycle, reauth, refreshAttempt, completed,
                             openIDAttempt, call, calls, signedOut>>

\* POST /auth/refresh: rotated; answered with anything that uses the saved
\* login; not answered, or the task was cancelled.
Rotate(i) ==
    /\ attempts[i].phase = "refresh"
    /\ \/ ~attempts[i].cancelled /\ Minted(i, "saveRefresh")
       \/ ~attempts[i].cancelled /\ Advance(i, "readNative") /\ UNCHANGED issued
       \/ Settle(i, Retryable) /\ UNCHANGED issued
    /\ UNCHANGED store
    /\ TaskUnchanged

SaveRotated(i) ==
    /\ attempts[i].phase = "saveRefresh"
    /\ \/ /\ ~attempts[i].cancelled
          /\ store' = [store EXCEPT !.tokens = attempts[i].token]
          /\ Settle(i, Success(attempts[i].token))
       \/ ~attempts[i].cancelled /\ Advance(i, "readNative") /\ UNCHANGED store
       \/ attempts[i].cancelled /\ Settle(i, Retryable) /\ UNCHANGED store
    /\ UNCHANGED issued
    /\ TaskUnchanged

\* Mutant of TaskReadNative: an unreadable login starts the rotation again.
TaskReadNativeAgain(i) ==
    /\ attempts[i].phase = "readNative"
    /\ \/ store.native /\ Advance(i, "signIn")
       \/ ~store.native /\ Settle(i, Conclusive)
       \/ Advance(i, "refresh")
    /\ UNCHANGED <<store, issued>>
    /\ TaskUnchanged

TaskReadNative(i) ==
    /\ attempts[i].phase = "readNative"
    /\ \/ store.native /\ Advance(i, "signIn")
       \/ ~store.native /\ Settle(i, Conclusive)
       \/ Settle(i, Retryable)                \* savedLoginCredentialsReadFailed
    /\ UNCHANGED <<store, issued>>
    /\ TaskUnchanged

TaskSignIn(i) ==
    /\ attempts[i].phase = "signIn"
    /\ \/ Minted(i, "saveSignIn")
       \/ \E r \in {Retryable, Conclusive} : Settle(i, r) /\ UNCHANGED issued
    /\ UNCHANGED store
    /\ TaskUnchanged

TaskSaveSignIn(i) ==
    /\ attempts[i].phase = "saveSignIn"
    /\ \/ /\ store' = [tokens |-> attempts[i].token, native |-> TRUE]
          /\ Settle(i, Success(attempts[i].token))
       \/ /\ \E left \in {store.tokens, NoToken, attempts[i].token} :
                store' = [store EXCEPT !.tokens = left]
          /\ Settle(i, Retryable)
    /\ UNCHANGED issued
    /\ TaskUnchanged

----
(* login and validateLocalLogin. *)

BeginLogin(c) ==
    /\ NoAccountOperation
    /\ Begin(c, "login", Entry("login", "signIn"))
    /\ generation' = generation + 1
    /\ loggingIn' = TRUE
    /\ UNCHANGED <<store, issued, signingOut, reauth, refreshAttempt, attempts,
                   completed, openIDAttempt, signedOut>>

BeginValidate(c) ==
    /\ NoAccountOperation
    /\ Begin(c, "validate", Entry("validate", "signIn"))
    /\ loggingIn' = TRUE
    /\ UNCHANGED <<store, issued, generation, signingOut, reauth,
                   refreshAttempt, attempts, completed, openIDAttempt,
                   signedOut>>

EndLogin(c) ==
    /\ call[c].op = "login"
    /\ \/ /\ call[c].pc = "saved"
          /\ Return(c, "responded")
          /\ completed' = NoMemo /\ reauth' = FALSE
       \/ /\ call[c].pc = "unsaved"
          /\ Return(c, "failed")
          /\ UNCHANGED <<completed, reauth>>
    /\ loggingIn' = FALSE
    /\ UNCHANGED <<store, issued, generation, signingOut, refreshAttempt,
                   attempts, openIDAttempt, calls, signedOut>>

----
(* logout and logoutKeepingNativeLogin. *)

LogoutOps == {"logout", "logoutKeeping"}

BeginLogout(c) ==
    /\ NoAccountOperation
    /\ \E op \in LogoutOps :
          Begin(c, op, [Entry(op, IF refreshAttempt = 0 THEN "remoteLogout"
                                  ELSE "settle")
                        EXCEPT !.attempt = refreshAttempt])
    /\ generation' = generation + 1
    /\ signingOut' = TRUE
    /\ UNCHANGED <<store, issued, loggingIn, reauth, refreshAttempt, attempts,
                   completed, openIDAttempt, signedOut>>

\* Mutant of SettleRefresh: the logout forgets the refresh it found instead of
\* awaiting it.
ForgetRefresh(c) ==
    /\ call[c].pc = "settle"
    /\ refreshAttempt' = IF refreshAttempt = call[c].attempt THEN 0
                         ELSE refreshAttempt
    /\ Goto(c, "remoteLogout")
    /\ UNCHANGED <<store, issued, lifecycle, reauth, attempts, completed,
                   openIDAttempt, calls, signedOut>>

\* settleRefreshBeforeLogout, once the task it awaits is done.
SettleRefresh(c) ==
    /\ call[c].pc = "settle"
    /\ attempts[call[c].attempt].phase = "done"
    /\ refreshAttempt' = IF refreshAttempt = call[c].attempt THEN 0
                         ELSE refreshAttempt
    /\ Goto(c, "remoteLogout")
    /\ UNCHANGED <<store, issued, lifecycle, reauth, attempts, completed,
                   openIDAttempt, calls, signedOut>>

\* performRemoteLogout tolerates every failure and changes no local state.
RemoteLogout(c) ==
    /\ call[c].pc = "remoteLogout"
    /\ Goto(c, "delete")
    /\ UNCHANGED <<store, issued, lifecycle, reauth, refreshAttempt, attempts,
                   completed, openIDAttempt, calls, signedOut>>

\* TokenVault.deleteCredentials removes the pair, then the native login, and
\* may fail between or after the two; deleteSessionCredentials only the pair.
Delete(c) ==
    /\ call[c].pc = "delete"
    /\ \/ /\ store' = [tokens |-> NoToken,
                       native |-> store.native /\ call[c].op = "logoutKeeping"]
          /\ Goto(c, "deleted")
          /\ signedOut' = IF call[c].op = "logout" THEN "empty" ELSE signedOut
       \/ /\ \/ UNCHANGED store
             \/ /\ call[c].op = "logout"
                /\ \E kept \in {store.native, FALSE} :
                      store' = [tokens |-> NoToken, native |-> kept]
          /\ Goto(c, "undeleted")
          /\ UNCHANGED signedOut
    /\ UNCHANGED <<issued, lifecycle, reauth, refreshAttempt, attempts,
                   completed, openIDAttempt, calls>>

EndLogout(c) ==
    /\ \/ call[c].pc = "deleted" /\ Return(c, "responded") /\ reauth' = FALSE
       \/ call[c].pc = "undeleted" /\ Return(c, "failed") /\ reauth' = TRUE
    \* clearAuthenticationState
    /\ attempts' = IF refreshAttempt = 0 THEN attempts
                   ELSE [attempts EXCEPT ![refreshAttempt].cancelled = TRUE]
    /\ refreshAttempt' = 0
    /\ completed' = NoMemo
    /\ signingOut' = FALSE
    /\ UNCHANGED <<store, issued, generation, loggingIn, openIDAttempt, calls,
                   signedOut>>

----
(* loginWithOpenID: guarded by its own attempt only. *)

BeginOpenID(c) ==
    /\ ~openIDAttempt
    /\ Begin(c, "openID", Entry("openID", "exchange"))
    /\ openIDAttempt' = TRUE
    /\ UNCHANGED <<store, issued, lifecycle, reauth, refreshAttempt, attempts,
                   completed, signedOut>>

\* The browser round trip, the code exchange and /api/authorize.
Exchange(c) ==
    /\ At(c, "openID", "exchange")
    /\ \/ /\ issued' = issued + 1
          /\ GotoWith(c, "save", issued + 1)
          /\ UNCHANGED openIDAttempt
       \/ Return(c, "failed") /\ openIDAttempt' = FALSE /\ UNCHANGED issued
    /\ UNCHANGED <<store, lifecycle, reauth, refreshAttempt, attempts,
                   completed, calls, signedOut>>

\* clearOpenIDAttempt
EndOpenID(c) ==
    /\ call[c].op = "openID"
    /\ \/ call[c].pc = "saved" /\ Return(c, "responded")
       \/ call[c].pc = "unsaved" /\ Return(c, "failed")
    /\ openIDAttempt' = FALSE
    /\ UNCHANGED <<store, issued, lifecycle, reauth, refreshAttempt, attempts,
                   completed, calls, signedOut>>

----
(* The specification. *)

BeginCall(c) ==
    \/ BeginRequest(c) \/ BeginAccessToken(c) \/ BeginRecover(c)
    \/ BeginLogin(c) \/ BeginValidate(c) \/ BeginLogout(c) \/ BeginOpenID(c)

Recover(c) ==
    \/ ReadCurrent(c) \/ RecoveryRefused(c) \/ JoinRefresh(c) \/ UseMemo(c)
    \/ UseStored(c) \/ StartRefresh(c) \/ FinishRefresh(c) \/ Retry(c)

Continue(c) ==
    \/ ReadTokens(c) \/ UseTokens(c) \/ ReadNative(c) \/ SignIn(c) \/ Save(c)
    \/ UseSignIn(c) \/ Send(c) \/ Recover(c) \/ EndLogin(c)
    \/ SettleRefresh(c) \/ RemoteLogout(c) \/ Delete(c) \/ EndLogout(c)
    \/ Exchange(c) \/ EndOpenID(c)

RefreshTask(i) ==
    \/ Rotate(i) \/ SaveRotated(i) \/ TaskReadNative(i) \/ TaskSignIn(i)
    \/ TaskSaveSignIn(i)

\* Every call of the bounded run has returned.
Quiescent ==
    /\ calls = MaxCalls
    /\ \A c \in Callers : call[c].op = "none"
    /\ UNCHANGED vars

Next ==
    \/ \E c \in Callers : BeginCall(c) \/ Continue(c)
    \/ \E i \in 1..Len(attempts) : RefreshTask(i)
    \/ Quiescent

Spec == Init /\ [][Next]_vars

\* The transport has a timeout, the Keychain answers and the executors run
\* what is ready: a call or a task that can move does.  Nobody has to call.
FairSpec ==
    /\ Spec
    /\ \A c \in Callers : WF_vars(Continue(c))
    /\ \A i \in 1..MaxCalls : WF_vars(i <= Len(attempts) /\ RefreshTask(i))

----
(* Properties. *)

Active(c) == call[c].op # "none"
Running(i) == attempts[i].phase # "done"
Exclusive(c) == call[c].op \in {"login", "validate"} \cup LogoutOps

\* login, validateLocalLogin and the logouts of one account exclude each other,
\* and the sets accountsLoggingIn and accountsSigningOut hold the account
\* exactly while such a call runs: an early return or a failure never leaves a
\* flag behind, nor lifts the flag of another call.
ExclusiveOperations ==
    /\ \A c, d \in Callers : Exclusive(c) /\ Exclusive(d) => c = d
    /\ loggingIn <=> \E c \in Callers : call[c].op \in {"login", "validate"}
    /\ signingOut <=> \E c \in Callers : call[c].op \in LogoutOps

\* Concurrent 401s share one refresh: no two refresh tasks of the account run
\* at once, and the one that runs is the registered one, so that every later
\* 401 joins it.
SingleFlight ==
    \A i \in 1..Len(attempts) : Running(i) => refreshAttempt = i

\* A registered refresh attempt always has a waiter that will resume and take
\* it off the table: no finished attempt is left for every later 401 to join.
NoOrphanRefresh ==
    refreshAttempt # 0 =>
        \E c \in Callers : /\ call[c].pc \in {"joined", "settle"}
                           /\ call[c].attempt = refreshAttempt

\* Once a logout has settled the refresh it found, none runs until it returns:
\* its deletion is not overtaken by a refresh that saves afterwards.
LogoutSettlesRefresh ==
    \A c \in Callers :
        call[c].op \in LogoutOps /\ call[c].pc # "settle" =>
            /\ refreshAttempt = 0
            /\ \A i \in 1..Len(attempts) : ~Running(i)

\* The memo of completedRefreshes is the outcome of the newest attempt any
\* waiter has recorded: a late waiter of an older attempt never overwrites a
\* newer attempt's state.  (While a logout runs, the attempt it settled is
\* not recorded and the memo is about to be cleared.)
MemoIsNewest ==
    completed # NoMemo =>
        \E i \in 1..Len(attempts) :
            /\ attempts[i].result = completed.result
            /\ attempts[i].rejected = completed.rejected
            /\ \A j \in i + 1..Len(attempts) : refreshAttempt = j \/ signingOut

\* No refresh task writes credentials back into a signed-out account: as long
\* as nothing has been stored since a full logout, no refresh stores anything.
\* This is what settling the refresh and the generation check buy; it needs
\* every 401 to reach recovery through sendAuthenticated, whose captured
\* generation predates the logout.
RefreshNeverResurrects ==
    [][signedOut = "empty" /\ attempts' # attempts => UNCHANGED store]_vars

\* The retry presents another token than the one the server rejected, unless
\* the request joined an attempt that was started for a third token.
RetryIsFresh ==
    \A c \in Callers :
        /\ call[c].pc = "retry"
        /\ \/ call[c].attempt = 0
           \/ attempts[call[c].attempt].rejected = call[c].rejected
        => call[c].held # call[c].rejected

\* "Login, refresh, authenticated requests, and logout cannot race credentials
\* back into a signed-out account" (docs/requirements-traceability.md,
\* AUTH-012): after a full logout the account has no session tokens until
\* somebody logs in again.
SignedOutHasNoTokens == signedOut # "no" => store.tokens = NoToken

\* Logout "invalidates all requests from the previous account-operation
\* generation" (the same requirement): a request that a login or a logout
\* retired returns no response.
RetiredRequestsFail ==
    [][\A c \in Callers :
          call[c].op = "request" /\ call'[c].pc = "responded" =>
              call[c].gen = generation]_vars

\* Every call returns, whatever it waits for: a 401 recovery for the shared
\* task, a logout for the refresh it settles.
CallsReturn == \A c \in Callers : Active(c) ~> ~Active(c)
====
