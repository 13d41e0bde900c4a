---- MODULE AuthTokenProofs ----
(***************************************************************************)
(* What is proved of the tokens of AuthCoordinator, for any callers and    *)
(* any number of calls: the memo of a refresh, the token a retry presents, *)
(* and that no refresh signs an account in again.                          *)
(***************************************************************************)
EXTENDS AuthCoordinatorProofs

\* Every token anybody holds was issued, a minted one is newer than the one it
\* replaces, and a refresh that is done has a result.
TokenOf(i) ==
    /\ attempts[i].rejected <= issued /\ attempts[i].token <= issued
    /\ attempts[i].result.token <= issued
    /\ attempts[i].phase \in {"saveRefresh", "saveSignIn"} =>
          attempts[i].token > attempts[i].rejected
    /\ attempts[i].phase # "done" => attempts[i].result.kind = "none"
    /\ attempts[i].phase = "done" => attempts[i].result.kind # "none"
    /\ attempts[i].result.kind = "success" =>
          attempts[i].result.token > attempts[i].rejected

Minting ==
    /\ store.tokens <= issued
    /\ \A c \in Callers : call[c].held <= issued /\ call[c].rejected <= issued
    /\ \A i \in 1..Len(attempts) : TokenOf(i)

\* The memo is a recorded outcome, and only the newest attempt is registered.
Memo ==
    /\ completed # NoMemo => completed.result.kind # "none"
    /\ completed.result.token <= issued
    /\ completed.result.kind = "success" => completed.result.token > completed.rejected
    /\ refreshAttempt \in {0, Len(attempts)}
    /\ MemoIsNewest

TokenInv == Minting /\ Memo /\ RetryIsFresh

\* Where a request stands that has not found its tokens yet.
Unstarted == {"readTokens", "tokensRead", "readNative"}

\* A login or a logout retires every request that entered before it, and while
\* a logout runs none can enter.  No call enters recovery on its own.
Retired ==
    /\ \A c \in Callers : call[c].gen <= generation /\ call[c].op # "recover"
    /\ signingOut =>
          \A c \in Callers : call[c].op = "request" => call[c].gen < generation

\* As long as nothing is stored after a full logout no refresh runs, and the
\* requests that were not retired have found no token.
EmptyIsQuiet ==
    signedOut = "empty" =>
        /\ store = [tokens |-> NoToken, native |-> FALSE]
        /\ \A i \in 1..Len(attempts) : ~Running(i)
        /\ \A c \in Callers : call[c].op = "request" /\ call[c].gen = generation =>
              call[c].pc \in Unstarted /\ call[c].held = NoToken

----
(* The steps of a call. *)

\* What a step of a call may do to the tokens: it moves its own record on, to
\* tokens that were issued, and stores one of those.
Handled(c) ==
    /\ issued' \in Nat /\ issued <= issued'
    /\ store'.tokens <= issued'
    /\ \A d \in Callers \ {c} : call'[d] = call[d]
    /\ call'[c].held <= issued' /\ call'[c].rejected <= issued'

\* Each way a call moves on, as far as its tokens are concerned.
LEMMA GotoHandles ==
    ASSUME TypeInv, NEW c \in Callers, NEW pc, Goto(c, pc)
    PROVE  /\ call'[c].held = call[c].held /\ call'[c].rejected = call[c].rejected
           /\ \A d \in Callers \ {c} : call'[d] = call[d]
  BY DEF TypeInv, CallsIndexed, Call, Goto, Become

\* A token that was read or minted is the one held.
LEMMA GotoWithHandles ==
    ASSUME TypeInv, NEW c \in Callers, NEW pc, NEW t, GotoWith(c, pc, t)
    PROVE  /\ call'[c].held = t /\ call'[c].rejected = call[c].rejected
           /\ \A d \in Callers \ {c} : call'[d] = call[d]
  BY DEF TypeInv, CallsIndexed, Call, GotoWith, Become

\* A call that has returned holds nothing.
LEMMA ReturnHandles ==
    ASSUME TypeInv, NEW c \in Callers, NEW o, Return(c, o)
    PROVE  /\ call'[c].held = 0 /\ call'[c].rejected = 0
           /\ \A d \in Callers \ {c} : call'[d] = call[d]
  BY DEF TypeInv, CallsIndexed, Return, Become, Ended, NoToken

\* Neither does a call that enters.
LEMMA EntryHandles ==
    ASSUME TypeInv, NEW c \in Callers, NEW op, NEW pc, Become(c, Entry(op, pc))
    PROVE  /\ call'[c].held = 0 /\ call'[c].rejected = 0
           /\ \A d \in Callers \ {c} : call'[d] = call[d]
  BY DEF TypeInv, CallsIndexed, Become, Entry, Ended, NoToken

\* The tokens of the records are numbers.
LEMMA TokensAreNumbers ==
    ASSUME TypeInv
    PROVE  /\ issued \in Nat /\ store.tokens \in Nat /\ completed.rejected \in Nat
           /\ completed.result \in Result /\ completed.result.token \in Nat
           /\ Len(attempts) \in Nat
           /\ \A c \in Callers : call[c] \in Call
           /\ \A c \in Callers : call[c].held \in Nat /\ call[c].rejected \in Nat
           /\ \A i \in 1..Len(attempts) :
                /\ attempts[i] \in Attempt
                /\ attempts[i].rejected \in Nat /\ attempts[i].token \in Nat
                /\ attempts[i].result \in Result /\ attempts[i].result.token \in Nat
  <1>1. attempts \in Seq(Attempt) /\ Len(attempts) \in Nat
    BY LenProperties DEF TypeInv, TypeOK
  <1>2. \A i \in 1..Len(attempts) : attempts[i] \in Attempt
    BY <1>1, ElementOfSeq
  <1>3. \A c \in Callers : call[c] \in Call
    BY DEF TypeInv, CallsIndexed
  <1>4. completed \in [rejected : Nat, result : Result] /\ issued \in Nat
        /\ store \in [tokens : Nat, native : BOOLEAN]
    BY DEF TypeInv, TypeOK
  <1> QED
    BY <1>1, <1>2, <1>3, <1>4 DEF Attempt, Call, Result

\* What a waiter reads of its task was issued.
LEMMA StepHandles ==
    ASSUME TypeInv, Stages, Minting, Memo, NEW c \in Callers, BeginCall(c) \/ Continue(c)
    PROVE  Handled(c)
  <1>0. TypeInv
    OBVIOUS
  <1> USE TokensAreNumbers DEF Minting, Handled, NoToken, lifecycle
  <1>1. CASE BeginRequest(c)
    BY <1>1, GotoHandles, GotoWithHandles, ReturnHandles, EntryHandles DEF BeginRequest, Begin
  <1>2. CASE ReadTokens(c)
    BY <1>2, GotoHandles, GotoWithHandles, ReturnHandles, EntryHandles DEF ReadTokens
  <1>3. CASE UseTokens(c)
    BY <1>3, GotoHandles, GotoWithHandles, ReturnHandles, EntryHandles DEF UseTokens
  <1>4. CASE ReadNative(c)
    BY <1>4, GotoHandles, GotoWithHandles, ReturnHandles, EntryHandles DEF ReadNative
  <1>5. CASE SignIn(c)
    BY <1>5, GotoHandles, GotoWithHandles, ReturnHandles, EntryHandles
       DEF SignIn, Accepted, Refused
  <1>6. CASE Save(c)
    <2>1. UNCHANGED issued /\ (Goto(c, "saved") \/ Goto(c, "unsaved"))
      BY <1>6 DEF Save
    <2>2. store'.tokens \in {store.tokens, 0, call[c].held}
      BY <1>6 DEF Save, TypeInv, TypeOK
    <2> QED
      BY <2>1, <2>2, GotoHandles
  <1>7. CASE UseSignIn(c)
    BY <1>7, GotoHandles, GotoWithHandles, ReturnHandles, EntryHandles DEF UseSignIn
  <1>8. CASE Send(c)
    <2> DEFINE new == [call[c] EXCEPT !.pc = "readCurrent", !.rejected = call[c].held,
                                      !.held = NoToken]
    <2>1. new.held = 0 /\ new.rejected = call[c].held
      BY DEF Call
    <2>2. UNCHANGED <<issued, store>>
          /\ (Become(c, new) \/ Return(c, "failed") \/ Return(c, "responded"))
      BY <1>8 DEF Send
    <2>3. Become(c, new) =>
             call'[c] = new /\ \A d \in Callers \ {c} : call'[d] = call[d]
      BY DEF Become, TypeInv, CallsIndexed
    <2> HIDE DEF new
    <2> QED
      BY <2>1, <2>2, <2>3, ReturnHandles
  <1>9. CASE BeginRecover(c)
    <2>1. PICK t \in 1..issued :
             Become(c, [Entry("recover", "readCurrent") EXCEPT !.rejected = t])
      BY <1>9 DEF BeginRecover, Begin
    <2>2. call'[c].held = 0 /\ call'[c].rejected = t
          /\ \A d \in Callers \ {c} : call'[d] = call[d]
      BY <2>1 DEF Become, Entry, Ended, TypeInv, CallsIndexed
    <2>3. UNCHANGED <<issued, store>> /\ t <= issued
      BY <1>9 DEF BeginRecover
    <2> QED
      BY <2>2, <2>3
  <1>10. CASE ReadCurrent(c)
    BY <1>10, GotoHandles, GotoWithHandles, ReturnHandles, EntryHandles DEF ReadCurrent
  <1>11. CASE RecoveryRefused(c)
    BY <1>11, GotoHandles, GotoWithHandles, ReturnHandles, EntryHandles DEF RecoveryRefused
  <1>12. CASE JoinRefresh(c)
    BY <1>12, GotoHandles, GotoWithHandles, ReturnHandles, EntryHandles DEF JoinRefresh, Become
  <1>13. CASE UseMemo(c)
    <2>1. UNCHANGED <<issued, store>>
          /\ (GotoWith(c, "retry", completed.result.token)
              \/ \E o \in {"responded", "failed"} : Return(c, o))
      BY <1>13 DEF UseMemo, Recovered
    <2>2. completed.result.token <= issued
      BY DEF Memo
    <2> QED
      BY <2>1, <2>2, GotoWithHandles, ReturnHandles
  <1>14. CASE UseStored(c)
    BY <1>14, GotoHandles, GotoWithHandles, ReturnHandles, EntryHandles
       DEF UseStored, MayRecover, Recovered
  <1>15. CASE StartRefresh(c)
    BY <1>15, GotoHandles, GotoWithHandles, ReturnHandles, EntryHandles DEF StartRefresh, Become
  <1>16. CASE FinishRefresh(c)
    <2> DEFINE t == attempts[call[c].attempt].result.token
    <2>1. UNCHANGED <<issued, store>>
          /\ (GotoWith(c, "retry", t) \/ \E o \in {"responded", "failed"} : Return(c, o))
      BY <1>16 DEF FinishRefresh, Recovered
    <2>2. call[c].attempt \in 1..Len(attempts)
      BY <1>16 DEF FinishRefresh, TypeInv, CallsIndexed, Waiting
    <2>3. t <= issued
      BY <2>2 DEF TokenOf
    <2> HIDE DEF t
    <2> QED
      BY <2>1, <2>3, GotoWithHandles, ReturnHandles
  <1>17. CASE Retry(c)
    BY <1>17, GotoHandles, GotoWithHandles, ReturnHandles, EntryHandles DEF Retry
  <1>18. CASE BeginLogin(c)
    BY <1>18, GotoHandles, GotoWithHandles, ReturnHandles, EntryHandles DEF BeginLogin, Begin
  <1>19. CASE BeginValidate(c)
    BY <1>19, GotoHandles, GotoWithHandles, ReturnHandles, EntryHandles DEF BeginValidate, Begin
  <1>20. CASE EndLogin(c)
    BY <1>20, GotoHandles, GotoWithHandles, ReturnHandles, EntryHandles DEF EndLogin
  <1>21. CASE BeginLogout(c)
    <2>1. call'[c].held = 0 /\ call'[c].rejected = 0
          /\ \A d \in Callers \ {c} : call'[d] = call[d]
      BY <1>21 DEF BeginLogout, Begin, Become, Entry, Ended, TypeInv, CallsIndexed
    <2>2. UNCHANGED <<issued, store>>
      BY <1>21 DEF BeginLogout
    <2> QED
      BY <2>1, <2>2
  <1>22. CASE SettleRefresh(c)
    BY <1>22, GotoHandles, GotoWithHandles, ReturnHandles, EntryHandles DEF SettleRefresh
  <1>23. CASE RemoteLogout(c)
    BY <1>23, GotoHandles, GotoWithHandles, ReturnHandles, EntryHandles DEF RemoteLogout
  <1>24. CASE Delete(c)
    BY <1>24, GotoHandles, GotoWithHandles, ReturnHandles, EntryHandles DEF Delete
  <1>25. CASE EndLogout(c)
    BY <1>25, GotoHandles, GotoWithHandles, ReturnHandles, EntryHandles DEF EndLogout
  <1>26. CASE BeginOpenID(c)
    BY <1>26, GotoHandles, GotoWithHandles, ReturnHandles, EntryHandles DEF BeginOpenID, Begin
  <1>27. CASE Exchange(c)
    BY <1>27, GotoHandles, GotoWithHandles, ReturnHandles, EntryHandles DEF Exchange
  <1>28. CASE EndOpenID(c)
    BY <1>28, GotoHandles, GotoWithHandles, ReturnHandles, EntryHandles DEF EndOpenID
  <1>29. CASE BeginAccessToken(c)
    BY <1>29, GotoHandles, GotoWithHandles, ReturnHandles, EntryHandles
       DEF BeginAccessToken, Begin
  <1> QED
    BY <1>1, <1>2, <1>3, <1>4, <1>5, <1>6, <1>7, <1>8, <1>9, <1>10, <1>11, <1>12, <1>13,
        <1>14, <1>15, <1>16, <1>17, <1>18, <1>19, <1>20, <1>21, <1>22, <1>23, <1>24, <1>25,
            <1>26, <1>27, <1>28, <1>29 DEF BeginCall, Continue, Recover

----
(* What becomes of the attempts and the memo. *)

\* Which steps of a call change the attempts, the registered one and the memo.
LEMMA StepShape ==
    ASSUME SafeInv, NEW c \in Callers, BeginCall(c) \/ Continue(c)
    PROVE  /\ UNCHANGED attempts \/ StartRefresh(c) \/ EndLogout(c)
           /\ \/ UNCHANGED completed \/ completed' = NoMemo
              \/ FinishRefresh(c) /\ refreshAttempt = call[c].attempt
           /\ UNCHANGED refreshAttempt \/ refreshAttempt' = 0 \/ StartRefresh(c)
           /\ UNCHANGED signingOut \/ signingOut' = TRUE \/ completed' = NoMemo
           /\ \/ UNCHANGED refreshAttempt \/ StartRefresh(c) \/ FinishRefresh(c)
              \/ signingOut' = TRUE \/ completed' = NoMemo
  <1> USE DEF lifecycle
  <1>1. CASE BeginRequest(c)
    BY <1>1 DEF BeginRequest
  <1>2. CASE ReadTokens(c)
    BY <1>2 DEF ReadTokens
  <1>3. CASE UseTokens(c)
    BY <1>3 DEF UseTokens
  <1>4. CASE ReadNative(c)
    BY <1>4 DEF ReadNative
  <1>5. CASE SignIn(c)
    BY <1>5 DEF SignIn, Accepted, Refused
  <1>6. CASE Save(c)
    BY <1>6 DEF Save
  <1>7. CASE UseSignIn(c)
    BY <1>7 DEF UseSignIn
  <1>8. CASE Send(c)
    BY <1>8 DEF Send
  <1>9. CASE BeginRecover(c)
    BY <1>9 DEF BeginRecover
  <1>10. CASE ReadCurrent(c)
    BY <1>10 DEF ReadCurrent
  <1>11. CASE RecoveryRefused(c)
    BY <1>11 DEF RecoveryRefused
  <1>12. CASE JoinRefresh(c)
    BY <1>12 DEF JoinRefresh
  <1>13. CASE UseMemo(c)
    BY <1>13 DEF UseMemo
  <1>14. CASE UseStored(c)
    BY <1>14 DEF UseStored
  <1>15. CASE StartRefresh(c)
    BY <1>15 DEF StartRefresh
  <1>16. CASE FinishRefresh(c)
    <2>1. UNCHANGED <<attempts, signingOut>>
          /\ \/ UNCHANGED <<refreshAttempt, completed>>
             \/ refreshAttempt = call[c].attempt /\ refreshAttempt' = 0
      BY <1>16 DEF FinishRefresh, Record
    <2>2. ~StartRefresh(c)
      BY <1>16 DEF FinishRefresh, StartRefresh, MayRecover
    <2> QED
      BY <1>16, <2>1, <2>2
  <1>17. CASE Retry(c)
    BY <1>17 DEF Retry
  <1>18. CASE BeginLogin(c)
    BY <1>18 DEF BeginLogin
  <1>19. CASE BeginValidate(c)
    BY <1>19 DEF BeginValidate
  <1>20. CASE EndLogin(c)
    BY <1>20 DEF EndLogin
  <1>21. CASE BeginLogout(c)
    BY <1>21 DEF BeginLogout
  <1>22. CASE SettleRefresh(c)
    <2>1. signingOut = TRUE
      BY <1>22 DEF SettleRefresh, SafeInv, TypeInv, TypeOK, FlagsOK, Stages, ExclusiveOperations
    <2> QED
      BY <1>22, <2>1 DEF SettleRefresh
  <1>23. CASE RemoteLogout(c)
    BY <1>23 DEF RemoteLogout
  <1>24. CASE Delete(c)
    BY <1>24 DEF Delete
  <1>25. CASE EndLogout(c)
    BY <1>25 DEF EndLogout
  <1>26. CASE BeginOpenID(c)
    BY <1>26 DEF BeginOpenID
  <1>27. CASE Exchange(c)
    BY <1>27 DEF Exchange
  <1>28. CASE EndOpenID(c)
    BY <1>28 DEF EndOpenID
  <1>29. CASE BeginAccessToken(c)
    BY <1>29 DEF BeginAccessToken
  <1> QED
    BY <1>1, <1>2, <1>3, <1>4, <1>5, <1>6, <1>7, <1>8, <1>9, <1>10, <1>11, <1>12, <1>13,
        <1>14, <1>15, <1>16, <1>17, <1>18, <1>19, <1>20, <1>21, <1>22, <1>23, <1>24, <1>25,
            <1>26, <1>27, <1>28, <1>29 DEF BeginCall, Continue, Recover

\* A step of a call that is not the start of a refresh leaves the attempts alone:
\* a logout that returns finds none registered.
LEMMA StepAttempts ==
    ASSUME SafeInv, NEW c \in Callers, BeginCall(c) \/ Continue(c)
    PROVE  UNCHANGED attempts \/ StartRefresh(c)
  <1>1. CASE EndLogout(c)
    <2>1. call[c].op \in LogoutOps /\ call[c].pc # "settle"
      BY <1>1 DEF EndLogout, SafeInv, Stages
    <2>2. refreshAttempt = 0
      BY <2>1 DEF SafeInv, Flight, LogoutSettlesRefresh
    <2> QED
      BY <1>1, <2>2 DEF EndLogout
  <1> QED
    BY <1>1, StepShape

\* What a started refresh is.
LEMMA StartContent ==
    ASSUME TypeInv, NEW c \in Callers, StartRefresh(c)
    PROVE  LET new == attempts'[Len(attempts) + 1]
           IN /\ new.rejected = call[c].rejected /\ new.token = call[c].rejected
              /\ new.phase = "refresh" /\ new.result = Pending
  <1> DEFINE new == [phase |-> "refresh", rejected |-> call[c].rejected,
                     token |-> call[c].held, cancelled |-> FALSE, result |-> Pending]
  <1>1. new \in Attempt
    BY DEF Attempt, Result, Pending, TypeInv, CallsIndexed, Call, NoToken
  <1>2. attempts' = Append(attempts, new) /\ call[c].held = call[c].rejected
    BY DEF StartRefresh
  <1>3. /\ new.rejected = call[c].rejected /\ new.token = call[c].held
        /\ new.phase = "refresh" /\ new.result = Pending
    OBVIOUS
  <1> HIDE DEF new
  <1>4. attempts'[Len(attempts) + 1] = new
    BY <1>1, <1>2, AppendProperties, LenProperties DEF TypeInv, TypeOK
  <1> QED
    BY <1>2, <1>3, <1>4

\* The attempts after a step of a call: as before, or one more, for a token its
\* caller was refused.
LEMMA StepGrows ==
    ASSUME SafeInv, NEW c \in Callers, BeginCall(c) \/ Continue(c)
    PROVE  /\ Len(attempts') \in {Len(attempts), Len(attempts) + 1}
           /\ \A i \in 1..Len(attempts) : attempts'[i] = attempts[i]
           /\ Len(attempts') = Len(attempts) + 1 => StartRefresh(c)
  <1>1. TypeInv /\ Len(attempts) \in Nat
    BY TokensAreNumbers DEF SafeInv
  <1>2. CASE UNCHANGED attempts
    BY <1>1, <1>2
  <1>3. CASE StartRefresh(c)
    BY <1>1, <1>3, StartAppends
  <1> QED
    BY <1>2, <1>3, StepAttempts

\* A step of a call keeps the order of the tokens.
LEMMA StepMinting ==
    ASSUME SafeInv, Minting, Memo, NEW c \in Callers, BeginCall(c) \/ Continue(c)
    PROVE  Minting'
  <1>1. TypeInv /\ Stages
    BY DEF SafeInv
  <1>2. Handled(c)
    BY <1>1, StepHandles
  <1>3. store'.tokens <= issued'
    BY <1>2 DEF Handled
  <1>4. ASSUME NEW d \in Callers PROVE call'[d].held <= issued' /\ call'[d].rejected <= issued'
    <2>1. CASE d = c
      BY <1>2, <2>1 DEF Handled
    <2>2. CASE d # c
      <3>1. call'[d] = call[d] /\ issued <= issued' /\ issued' \in Nat
        BY <1>2, <2>2 DEF Handled
      <3>2. call[d].held <= issued /\ call[d].rejected <= issued
        BY DEF Minting
      <3> QED
        BY <1>1, <3>1, <3>2, TokensAreNumbers
    <2> QED
      BY <2>1, <2>2
  <1>5. ASSUME NEW i \in 1..Len(attempts) PROVE TokenOf(i)'
    <2>1. attempts'[i] = attempts[i] /\ issued <= issued' /\ issued' \in Nat
      BY <1>2, StepGrows DEF Handled
    <2>2. TokenOf(i)
      BY DEF Minting
    <2> QED
      BY <1>1, <2>1, <2>2, TokensAreNumbers DEF TokenOf
  <1>6. ASSUME NEW k \in Nat, k = Len(attempts) + 1, Len(attempts') = k PROVE TokenOf(k)'
    <2>1. StartRefresh(c)
      BY <1>6, StepGrows
    <2>2. UNCHANGED issued /\ call[c].rejected <= issued
      BY <2>1 DEF StartRefresh, Minting
    <2>3. /\ attempts'[k].rejected = call[c].rejected /\ attempts'[k].token = call[c].rejected
          /\ attempts'[k].phase = "refresh" /\ attempts'[k].result = Pending
      BY <1>1, <1>6, <2>1, StartContent
    <2>4. issued \in Nat
      BY <1>1, TokensAreNumbers
    <2> QED
      BY <2>2, <2>3, <2>4 DEF TokenOf, Pending, NoToken
  <1>7. ASSUME NEW i \in 1..Len(attempts') PROVE TokenOf(i)'
    <2>1. Len(attempts) \in Nat
      BY <1>1, TokensAreNumbers
    <2>2. i \in 1..Len(attempts) \/ (i = Len(attempts) + 1 /\ Len(attempts') = Len(attempts) + 1)
      BY <2>1, StepGrows
    <2>3. CASE i \in 1..Len(attempts)
      BY <1>5, <2>3
    <2>4. CASE i = Len(attempts) + 1 /\ Len(attempts') = Len(attempts) + 1
      BY <1>6, <2>1, <2>4
    <2> QED
      BY <2>2, <2>3, <2>4
  <1> QED
    BY <1>3, <1>4, <1>7 DEF Minting

\* A step of a call records the newest attempt or nothing.
LEMMA StepMemo ==
    ASSUME SafeInv, Minting, Memo, NEW c \in Callers, BeginCall(c) \/ Continue(c)
    PROVE  Memo'
  <1>1. TypeInv /\ Stages /\ Len(attempts) \in Nat
    BY TokensAreNumbers DEF SafeInv
  <1>2. issued <= issued' /\ issued' \in Nat
    BY <1>1, StepHandles DEF Handled
  <1>3. refreshAttempt' \in {0, Len(attempts')}
    <2>1. CASE StartRefresh(c)
      BY <1>1, <2>1, StartAppends
    <2>2. CASE ~StartRefresh(c)
      BY <2>2, StepShape, StepAttempts DEF Memo
    <2> QED
      BY <2>1, <2>2
  <1>4. CASE completed' = NoMemo
    BY <1>2, <1>3, <1>4 DEF Memo, MemoIsNewest, NoMemo, NoToken
  <1>5. CASE FinishRefresh(c) /\ refreshAttempt = call[c].attempt /\ completed' # NoMemo
    <2> DEFINE i == call[c].attempt
    <2>1. i \in 1..Len(attempts) /\ attempts[i].phase = "done" /\ i = Len(attempts)
      BY <1>1, <1>5 DEF FinishRefresh, TypeInv, CallsIndexed, Waiting, Memo
    <2>2. /\ completed' = [rejected |-> attempts[i].rejected, result |-> attempts[i].result]
          /\ UNCHANGED <<attempts, issued>> /\ refreshAttempt' = 0
      BY <1>5 DEF FinishRefresh, Record
    <2>3. TokenOf(i)
      BY <2>1 DEF Minting
    <2>4. MemoIsNewest'
      BY <1>1, <2>1, <2>2 DEF MemoIsNewest
    <2> QED
      BY <1>3, <2>1, <2>2, <2>3, <2>4 DEF Memo, TokenOf
  <1>6. CASE UNCHANGED completed /\ completed' # NoMemo
    <2>1. PICK i \in 1..Len(attempts) :
             /\ attempts[i].result = completed.result
             /\ attempts[i].rejected = completed.rejected
             /\ \A j \in i + 1..Len(attempts) : refreshAttempt = j \/ signingOut
      BY <1>6 DEF Memo, MemoIsNewest
    <2>2. CASE StartRefresh(c)
      <3>1. refreshAttempt = 0 /\ ~signingOut
        BY <2>2 DEF StartRefresh, MayRecover, Current
      <3>2. i = Len(attempts)
        BY <1>1, <2>1, <3>1
      <3>3. /\ Len(attempts') = Len(attempts) + 1 /\ refreshAttempt' = Len(attempts) + 1
            /\ attempts'[i] = attempts[i]
        BY <1>1, <2>2, StartAppends
      <3>4. MemoIsNewest'
        BY <1>1, <1>6, <2>1, <3>2, <3>3 DEF MemoIsNewest
      <3> QED
        BY <1>1, <1>2, <1>3, <1>6, <3>4, TokensAreNumbers DEF Memo
    <2>3. CASE ~StartRefresh(c)
      <3>1. UNCHANGED attempts
        BY <2>3, StepAttempts
      <3>2. signingOut => signingOut'
        BY <1>6, StepShape
      <3>3. CASE UNCHANGED refreshAttempt \/ signingOut'
        <4>1. MemoIsNewest'
          BY <1>6, <2>1, <3>1, <3>2, <3>3 DEF MemoIsNewest
        <4> QED
          BY <1>1, <1>2, <1>3, <1>6, <4>1, TokensAreNumbers DEF Memo
      <3>4. CASE FinishRefresh(c) /\ refreshAttempt # call[c].attempt
        BY <3>3, <3>4 DEF FinishRefresh, Record
      <3>5. CASE FinishRefresh(c) /\ refreshAttempt = call[c].attempt
        <4> DEFINE k == call[c].attempt
        <4>1. k \in 1..Len(attempts) /\ k = Len(attempts)
          BY <1>1, <3>5 DEF FinishRefresh, TypeInv, CallsIndexed, Waiting, Memo
        <4>2. completed' = [rejected |-> attempts[k].rejected, result |-> attempts[k].result]
          BY <1>6, <3>5 DEF FinishRefresh, Record
        <4>3. MemoIsNewest'
          BY <1>1, <3>1, <4>1, <4>2 DEF MemoIsNewest
        <4> QED
          BY <1>1, <1>2, <1>3, <1>6, <4>3, TokensAreNumbers DEF Memo
      <3> QED
        BY <1>6, <2>3, <3>3, <3>4, <3>5, StepShape
    <2> QED
      BY <2>2, <2>3
  <1> QED
    BY <1>4, <1>5, <1>6, StepShape

\* A call comes to its retry by one of the three ways of a recovery.
LEMMA StepRetries ==
    ASSUME SafeInv, NEW c \in Callers, BeginCall(c) \/ Continue(c), call'[c].pc = "retry"
    PROVE  UseMemo(c) \/ UseStored(c) \/ FinishRefresh(c)
  <1>0. TypeInv /\ Stages
    BY DEF SafeInv
  <1> USE DEF Moved, LogoutOps
  <1>1. CASE BeginRequest(c)
    BY <1>0, <1>1, GotoMoves, GotoWithMoves, ReturnMoves, EntryMoves DEF BeginRequest, Begin
  <1>2. CASE ReadTokens(c)
    BY <1>0, <1>2, GotoMoves, GotoWithMoves, ReturnMoves, EntryMoves DEF ReadTokens
  <1>3. CASE UseTokens(c)
    BY <1>0, <1>3, GotoMoves, GotoWithMoves, ReturnMoves, EntryMoves DEF UseTokens
  <1>4. CASE ReadNative(c)
    BY <1>0, <1>4, GotoMoves, GotoWithMoves, ReturnMoves, EntryMoves DEF ReadNative
  <1>5. CASE SignIn(c)
    BY <1>0, <1>5, GotoMoves, GotoWithMoves, ReturnMoves, EntryMoves
       DEF SignIn, Accepted, Refused
  <1>6. CASE Save(c)
    BY <1>0, <1>6, GotoMoves, GotoWithMoves, ReturnMoves, EntryMoves DEF Save
  <1>7. CASE UseSignIn(c)
    BY <1>0, <1>7, GotoMoves, GotoWithMoves, ReturnMoves, EntryMoves DEF UseSignIn
  <1>8. CASE Send(c)
    BY <1>0, <1>8, SendMoves
  <1>9. CASE BeginRecover(c)
    BY <1>0, <1>9, RecoverMoves
  <1>10. CASE ReadCurrent(c)
    BY <1>0, <1>10, GotoMoves, GotoWithMoves, ReturnMoves, EntryMoves DEF ReadCurrent
  <1>11. CASE RecoveryRefused(c)
    BY <1>0, <1>11, GotoMoves, GotoWithMoves, ReturnMoves, EntryMoves DEF RecoveryRefused
  <1>12. CASE JoinRefresh(c)
    BY <1>0, <1>12, JoinMoves
  <1>13. CASE UseMemo(c)
    BY <1>13
  <1>14. CASE UseStored(c)
    BY <1>14
  <1>15. CASE StartRefresh(c)
    BY <1>0, <1>15, StartMoves
  <1>16. CASE FinishRefresh(c)
    BY <1>16
  <1>17. CASE Retry(c)
    BY <1>0, <1>17, GotoMoves, GotoWithMoves, ReturnMoves, EntryMoves DEF Retry
  <1>18. CASE BeginLogin(c)
    BY <1>0, <1>18, GotoMoves, GotoWithMoves, ReturnMoves, EntryMoves DEF BeginLogin, Begin
  <1>19. CASE BeginValidate(c)
    BY <1>0, <1>19, GotoMoves, GotoWithMoves, ReturnMoves, EntryMoves DEF BeginValidate, Begin
  <1>20. CASE EndLogin(c)
    BY <1>0, <1>20, GotoMoves, GotoWithMoves, ReturnMoves, EntryMoves DEF EndLogin
  <1>21. CASE BeginLogout(c)
    BY <1>0, <1>21, LogoutMoves
  <1>22. CASE SettleRefresh(c)
    BY <1>0, <1>22, GotoMoves, GotoWithMoves, ReturnMoves, EntryMoves DEF SettleRefresh
  <1>23. CASE RemoteLogout(c)
    BY <1>0, <1>23, GotoMoves, GotoWithMoves, ReturnMoves, EntryMoves DEF RemoteLogout
  <1>24. CASE Delete(c)
    BY <1>0, <1>24, GotoMoves, GotoWithMoves, ReturnMoves, EntryMoves DEF Delete
  <1>25. CASE EndLogout(c)
    BY <1>0, <1>25, GotoMoves, GotoWithMoves, ReturnMoves, EntryMoves DEF EndLogout
  <1>26. CASE BeginOpenID(c)
    BY <1>0, <1>26, GotoMoves, GotoWithMoves, ReturnMoves, EntryMoves DEF BeginOpenID, Begin
  <1>27. CASE Exchange(c)
    BY <1>0, <1>27, GotoMoves, GotoWithMoves, ReturnMoves, EntryMoves DEF Exchange
  <1>28. CASE EndOpenID(c)
    BY <1>0, <1>28, GotoMoves, GotoWithMoves, ReturnMoves, EntryMoves DEF EndOpenID
  <1>29. CASE BeginAccessToken(c)
    BY <1>0, <1>29, GotoMoves, GotoWithMoves, ReturnMoves, EntryMoves
       DEF BeginAccessToken, Begin
  <1> QED
    BY <1>1, <1>2, <1>3, <1>4, <1>5, <1>6, <1>7, <1>8, <1>9, <1>10, <1>11, <1>12, <1>13,
        <1>14, <1>15, <1>16, <1>17, <1>18, <1>19, <1>20, <1>21, <1>22, <1>23, <1>24, <1>25,
            <1>26, <1>27, <1>28, <1>29 DEF BeginCall, Continue, Recover

\* A retry never presents the token that was refused.
LEMMA StepFresh ==
    ASSUME SafeInv, Minting, Memo, RetryIsFresh, NEW c \in Callers,
           BeginCall(c) \/ Continue(c)
    PROVE  RetryIsFresh'
  <1>1. TypeInv /\ Stages /\ Len(attempts) \in Nat
    BY TokensAreNumbers DEF SafeInv
  <1>2. \A i \in 1..Len(attempts) : attempts'[i].rejected = attempts[i].rejected
    BY StepGrows
  <1>3. ASSUME NEW d \in Callers, d # c, call'[d].pc = "retry",
               \/ call'[d].attempt = 0
               \/ attempts'[call'[d].attempt].rejected = call'[d].rejected
        PROVE  call'[d].held # call'[d].rejected
    <2>1. call'[d] = call[d]
      BY <1>1, <1>3, StepHandles DEF Handled
    <2>2. call[d].attempt \in 0..Len(attempts)
      BY <1>1 DEF TypeInv, CallsIndexed
    <2> QED
      BY <1>2, <1>3, <2>1, <2>2 DEF RetryIsFresh
  <1>4. ASSUME call'[c].pc = "retry",
               \/ call'[c].attempt = 0
               \/ attempts'[call'[c].attempt].rejected = call'[c].rejected
        PROVE  call'[c].held # call'[c].rejected
    <2>1. CASE UseMemo(c)
      <3>1. completed.result.kind = "success" /\ GotoWith(c, "retry", completed.result.token)
            /\ completed.rejected = call[c].rejected
        BY <1>1, <1>4, <2>1, ReturnMoves DEF UseMemo, Memoized, Recovered, Moved
      <3>2. completed.result.token > completed.rejected
        BY <3>1 DEF Memo
      <3> QED
        BY <1>1, <3>1, <3>2, GotoWithHandles, TokensAreNumbers
    <2>2. CASE UseStored(c)
      <3>1. GotoWith(c, "retry", call[c].held) /\ call[c].held # call[c].rejected
        BY <1>1, <1>4, <2>2, ReturnMoves DEF UseStored, Recovered, Moved
      <3> QED
        BY <1>1, <3>1, GotoWithHandles
    <2>3. CASE FinishRefresh(c)
      <3> DEFINE a == call[c].attempt
      <3>1. a \in 1..Len(attempts)
        BY <1>1, <2>3 DEF FinishRefresh, TypeInv, CallsIndexed, Waiting
      <3>2. attempts[a].result.kind = "success" /\ GotoWith(c, "retry", attempts[a].result.token)
            /\ UNCHANGED attempts
        BY <1>1, <1>4, <2>3, ReturnMoves DEF FinishRefresh, Recovered, Moved
      <3>3. attempts[a].result.token > attempts[a].rejected
        BY <3>1, <3>2 DEF Minting, TokenOf
      <3>4. call'[c].attempt = a /\ call'[c].held = attempts[a].result.token
            /\ call'[c].rejected = call[c].rejected
        BY <1>1, <3>2, GotoWithMoves, GotoWithHandles DEF Moved
      <3> QED
        BY <1>1, <1>4, <3>1, <3>2, <3>3, <3>4, TokensAreNumbers
    <2> QED
      BY <1>4, <2>1, <2>2, <2>3, StepRetries
  <1> QED
    BY <1>3, <1>4 DEF RetryIsFresh

----
(* The steps of a refresh task. *)

\* A task that moves on: it mints the newest token, stores the one it minted,
\* or ends with a result.
LEMMA TaskTokens ==
    ASSUME TypeInv, Minting, NEW i \in 1..Len(attempts), RefreshTask(i)
    PROVE  /\ TokenOf(i)' /\ attempts'[i].rejected = attempts[i].rejected
           /\ issued' \in Nat /\ issued <= issued' /\ store'.tokens <= issued'
           /\ attempts[i].result.kind = "none"
           /\ UNCHANGED <<refreshAttempt, completed, signingOut, call>>
  <1>0. /\ attempts[i] \in Attempt /\ issued \in Nat /\ TokenOf(i) /\ store.tokens <= issued
        /\ store \in [tokens : Nat, native : BOOLEAN] /\ attempts \in Seq(Attempt)
        /\ attempts[i].rejected \in Nat /\ attempts[i].token \in Nat
        /\ attempts[i].result.token \in Nat
    BY TokensAreNumbers DEF Minting, TypeInv, TypeOK
  <1>1. ASSUME NEW new, TaskBecomes(i, new) PROVE attempts'[i] = new
    BY <1>0, <1>1 DEF TaskBecomes
  <1>2. UNCHANGED <<refreshAttempt, completed, signingOut, call>>
    BY DEF RefreshTask, Rotate, SaveRotated, TaskReadNative, TaskSignIn, TaskSaveSignIn,
           TaskUnchanged, lifecycle
  <1>3. attempts[i].phase # "done" /\ attempts[i].result.kind = "none"
    BY <1>0 DEF RefreshTask, Rotate, SaveRotated, TaskReadNative, TaskSignIn, TaskSaveSignIn,
                TokenOf
  <1>4. ASSUME NEW p \in {"readNative", "signIn"}, Advance(i, p), UNCHANGED issued
        PROVE  TokenOf(i)' /\ attempts'[i].rejected = attempts[i].rejected
    <2>1. attempts'[i] = [attempts[i] EXCEPT !.phase = p]
      BY <1>1, <1>4 DEF Advance
    <2> QED
      BY <1>0, <1>3, <1>4, <2>1 DEF TokenOf, Attempt
  <1>5. ASSUME NEW p \in {"saveRefresh", "saveSignIn"}, Minted(i, p)
        PROVE  TokenOf(i)' /\ attempts'[i].rejected = attempts[i].rejected
    <2>1. attempts'[i] = [attempts[i] EXCEPT !.phase = p, !.token = issued + 1]
          /\ issued' = issued + 1
      BY <1>1, <1>5 DEF Minted
    <2> QED
      BY <1>0, <1>3, <1>5, <2>1 DEF TokenOf, Attempt
  <1>6. ASSUME NEW r \in {Retryable, Conclusive}, Settle(i, r), UNCHANGED issued
        PROVE  TokenOf(i)' /\ attempts'[i].rejected = attempts[i].rejected
    <2>1. attempts'[i] = [attempts[i] EXCEPT !.phase = "done", !.result = r]
      BY <1>1, <1>6 DEF Settle
    <2> QED
      BY <1>0, <1>3, <1>6, <2>1 DEF TokenOf, Attempt, Retryable, Conclusive, NoToken
  <1>7. ASSUME Settle(i, Success(attempts[i].token)), UNCHANGED issued,
               attempts[i].phase \in {"saveRefresh", "saveSignIn"}
        PROVE  TokenOf(i)' /\ attempts'[i].rejected = attempts[i].rejected
    <2>1. attempts'[i] = [attempts[i] EXCEPT !.phase = "done",
                                             !.result = Success(attempts[i].token)]
      BY <1>1, <1>7 DEF Settle
    <2> QED
      BY <1>0, <1>3, <1>7, <2>1 DEF TokenOf, Attempt, Success
  <1>8. CASE Rotate(i)
    BY <1>0, <1>2, <1>3, <1>4, <1>5, <1>6, <1>8 DEF Rotate, Minted
  <1>9. CASE SaveRotated(i)
    <2>1. store'.tokens \in {store.tokens, attempts[i].token} /\ UNCHANGED issued
      BY <1>0, <1>9 DEF SaveRotated
    <2>2. TokenOf(i)' /\ attempts'[i].rejected = attempts[i].rejected
      BY <1>4, <1>6, <1>7, <1>9 DEF SaveRotated
    <2> QED
      BY <1>0, <1>2, <1>3, <2>1, <2>2 DEF TokenOf
  <1>10. CASE TaskReadNative(i)
    BY <1>0, <1>2, <1>3, <1>4, <1>6, <1>10 DEF TaskReadNative
  <1>11. CASE TaskSignIn(i)
    BY <1>0, <1>2, <1>3, <1>5, <1>6, <1>11 DEF TaskSignIn, Minted
  <1>12. CASE TaskSaveSignIn(i)
    <2>1. store'.tokens \in {store.tokens, 0, attempts[i].token} /\ UNCHANGED issued
      BY <1>0, <1>12 DEF TaskSaveSignIn, NoToken
    <2>2. TokenOf(i)' /\ attempts'[i].rejected = attempts[i].rejected
      BY <1>6, <1>7, <1>12 DEF TaskSaveSignIn
    <2> QED
      BY <1>0, <1>2, <1>3, <2>1, <2>2 DEF TokenOf
  <1> QED
    BY <1>8, <1>9, <1>10, <1>11, <1>12 DEF RefreshTask

\* A step of a task keeps the tokens, the memo and the retries in order.
LEMMA TaskKeeps ==
    ASSUME SafeInv, TokenInv, NEW i \in 1..Len(attempts), RefreshTask(i)
    PROVE  TokenInv'
  <1>1. TypeInv /\ Len(attempts) \in Nat /\ Minting /\ Memo /\ RetryIsFresh
    BY TokensAreNumbers DEF SafeInv, TokenInv
  <1>2. /\ TokenOf(i)' /\ attempts'[i].rejected = attempts[i].rejected
        /\ issued' \in Nat /\ issued <= issued' /\ store'.tokens <= issued'
        /\ attempts[i].result.kind = "none"
        /\ UNCHANGED <<refreshAttempt, completed, signingOut, call>>
    BY <1>1, TaskTokens
  <1>3. /\ Len(attempts') = Len(attempts)
        /\ \A j \in 1..Len(attempts) : j # i => attempts'[j] = attempts[j]
    BY <1>1, TaskEntries
  <1>4. ASSUME NEW j \in 1..Len(attempts) PROVE TokenOf(j)'
    <2>1. CASE j = i
      BY <1>2, <2>1
    <2>2. CASE j # i
      BY <1>1, <1>2, <1>3, <2>2, TokensAreNumbers DEF Minting, TokenOf
    <2> QED
      BY <2>1, <2>2
  <1>5. Minting'
    <2>1. ASSUME NEW c \in Callers PROVE call'[c].held <= issued' /\ call'[c].rejected <= issued'
      BY <1>1, <1>2, TokensAreNumbers DEF Minting
    <2>2. \A j \in 1..Len(attempts') : TokenOf(j)'
      BY <1>3, <1>4
    <2> QED
      BY <1>2, <2>1, <2>2 DEF Minting
  <1>6. MemoIsNewest'
    <2> SUFFICES ASSUME completed # NoMemo PROVE MemoIsNewest'
      BY <1>2 DEF MemoIsNewest
    <2>1. PICK k \in 1..Len(attempts) :
             /\ attempts[k].result = completed.result
             /\ attempts[k].rejected = completed.rejected
             /\ \A j \in k + 1..Len(attempts) : refreshAttempt = j \/ signingOut
      BY <1>1 DEF Memo, MemoIsNewest
    <2>2. k # i
      BY <1>1, <1>2, <2>1 DEF Memo
    <2> QED
      BY <1>2, <1>3, <2>1, <2>2 DEF MemoIsNewest
  <1>7. Memo'
    BY <1>1, <1>2, <1>3, <1>6, TokensAreNumbers DEF Memo
  <1>8. \A j \in 1..Len(attempts) : attempts'[j].rejected = attempts[j].rejected
    BY <1>2, <1>3
  <1>9. RetryIsFresh'
    <2>1. \A c \in Callers : call[c].attempt \in 0..Len(attempts)
      BY <1>1 DEF TypeInv, CallsIndexed
    <2> QED
      BY <1>1, <1>2, <1>8, <2>1 DEF RetryIsFresh
  <1> QED
    BY <1>5, <1>7, <1>9 DEF TokenInv

----
(* The theorems. *)

\* Nothing is minted, recorded or retried yet.
LEMMA TokenInit == Init => TokenInv
  <1> SUFFICES ASSUME Init PROVE TokenInv
    OBVIOUS
  <1>1. Len(attempts) = 0
    BY EmptySeq DEF Init
  <1>2. Minting
    BY <1>1 DEF Init, Minting, Ended, NoToken
  <1>3. Memo
    BY <1>1 DEF Init, Memo, MemoIsNewest, NoMemo, NoToken
  <1>4. RetryIsFresh
    BY DEF Init, RetryIsFresh, Ended
  <1> QED
    BY <1>2, <1>3, <1>4 DEF TokenInv

\* The order of the tokens is inductive on top of the safety invariant.
LEMMA TokenNext == SafeInv /\ TokenInv /\ [Next]_vars => TokenInv'
  <1> SUFFICES ASSUME SafeInv, TokenInv, [Next]_vars PROVE TokenInv'
    OBVIOUS
  <1>1. CASE UNCHANGED vars
    BY <1>1 DEF vars, TokenInv, Minting, TokenOf, Memo, MemoIsNewest, RetryIsFresh
  <1>2. ASSUME NEW c \in Callers, BeginCall(c) \/ Continue(c) PROVE TokenInv'
    BY <1>2, StepMinting, StepMemo, StepFresh DEF TokenInv
  <1> QED
    BY <1>1, <1>2, TaskKeeps DEF Next, Quiescent

\* The invariant of the tokens.
THEOREM Tokens == Spec => [](SafeInv /\ TokenInv)
  <1>1. Init => SafeInv /\ TokenInv
    BY SafeInit, TokenInit
  <1>2. SafeInv /\ TokenInv /\ [Next]_vars => SafeInv' /\ TokenInv'
    BY SafeNext, TokenNext
  <1> QED
    BY <1>1, <1>2, PTL DEF Spec

\* The memo of a refresh is the outcome of the newest attempt that was recorded,
\* however late the waiters of older ones resume.
THEOREM MemoHolds == Spec => []MemoIsNewest
  <1>1. SafeInv /\ TokenInv => MemoIsNewest
    BY DEF TokenInv, Memo
  <1> QED
    BY <1>1, Tokens, PTL

\* A retry presents another token than the one that was refused, unless the
\* attempt it joined replaced a third one.
THEOREM FreshHolds == Spec => []RetryIsFresh
  <1>1. SafeInv /\ TokenInv => RetryIsFresh
    BY DEF TokenInv
  <1> QED
    BY <1>1, Tokens, PTL

----
(* A signed-out account: no refresh stores anything into it. *)

\* What a step of call c leaves of the operation it is and of the generation it
\* captured.
Carried(c, op, gen) ==
    /\ call'[c].op = op /\ call'[c].gen = gen
    /\ \A d \in Callers \ {c} : call'[d] = call[d]

\* Each way a call moves on, as far as those are concerned.
LEMMA GotoCarries ==
    ASSUME TypeInv, NEW c \in Callers, NEW pc, Goto(c, pc)
    PROVE  Carried(c, call[c].op, call[c].gen)
  BY DEF TypeInv, CallsIndexed, Call, Goto, Become, Carried

\* A token that is held changes neither.
LEMMA GotoWithCarries ==
    ASSUME TypeInv, NEW c \in Callers, NEW pc, NEW t, GotoWith(c, pc, t)
    PROVE  Carried(c, call[c].op, call[c].gen)
  BY DEF TypeInv, CallsIndexed, Call, GotoWith, Become, Carried

\* A call that has returned carries nothing.
LEMMA ReturnCarries ==
    ASSUME TypeInv, NEW c \in Callers, NEW o, Return(c, o)
    PROVE  Carried(c, "none", 0)
  BY DEF TypeInv, CallsIndexed, Return, Become, Ended, Carried

\* A call that enters captures the generation it finds.
LEMMA EntryCarries ==
    ASSUME TypeInv, NEW c \in Callers, NEW op, NEW pc, Become(c, Entry(op, pc))
    PROVE  Carried(c, op, generation)
  BY DEF TypeInv, CallsIndexed, Become, Entry, Ended, Carried

\* A 401 takes the request into its recovery as it is.
LEMMA SendCarries ==
    ASSUME TypeInv, NEW c \in Callers, Send(c)
    PROVE  Carried(c, call[c].op, call[c].gen) \/ Carried(c, "none", 0)
  <1> DEFINE new == [call[c] EXCEPT !.pc = "readCurrent", !.rejected = call[c].held,
                                    !.held = NoToken]
  <1>1. new.op = call[c].op /\ new.gen = call[c].gen /\ call \in [Callers -> Call]
    BY DEF TypeInv, CallsIndexed, Call
  <1>2. Become(c, new) \/ Return(c, "failed") \/ Return(c, "responded")
    BY DEF Send
  <1>3. Become(c, new) => Carried(c, call[c].op, call[c].gen)
    <2> HIDE DEF new
    <2> QED
      BY <1>1 DEF Become, Carried
  <1> HIDE DEF new
  <1> QED
    BY <1>2, <1>3, ReturnCarries

\* What a step of a call does to the generations: a call carries the one it
\* captured, and only an account operation that enters retires them, by the next.
LEMMA StepCarries ==
    ASSUME SafeInv, NEW c \in Callers, BeginCall(c) \/ Continue(c)
    PROVE  /\ \/ Carried(c, call[c].op, call[c].gen) \/ Carried(c, "none", 0)
              \/ BeginRequest(c) /\ Carried(c, "request", generation)
              \/ \E op \in Operations \ {"request"} : Carried(c, op, generation)
           /\ generation' \in {generation, generation + 1}
           /\ UNCHANGED signingOut \/ ~signingOut' \/ generation' = generation + 1
  <1>0. TypeInv
    BY DEF SafeInv
  <1> USE <1>0, GotoCarries, GotoWithCarries, ReturnCarries, EntryCarries DEF lifecycle
  <1>1. CASE BeginRequest(c)
    BY <1>1 DEF BeginRequest, Begin
  <1>2. CASE ReadTokens(c)
    BY <1>2 DEF ReadTokens
  <1>3. CASE UseTokens(c)
    BY <1>3 DEF UseTokens
  <1>4. CASE ReadNative(c)
    BY <1>4 DEF ReadNative
  <1>5. CASE SignIn(c)
    BY <1>5 DEF SignIn, Accepted, Refused
  <1>6. CASE Save(c)
    BY <1>6 DEF Save
  <1>7. CASE UseSignIn(c)
    BY <1>7 DEF UseSignIn
  <1>8. CASE Send(c)
    BY <1>8, SendCarries DEF Send
  <1>9. CASE BeginRecover(c)
    <2>1. "recover" \in Operations \ {"request"} /\ UNCHANGED lifecycle
      BY <1>9 DEF BeginRecover, Begin
    <2>2. Carried(c, "recover", generation)
      BY <1>9 DEF BeginRecover, Begin, Become, Entry, Ended, Carried, TypeInv, CallsIndexed
    <2> QED
      BY <2>1, <2>2
  <1>10. CASE ReadCurrent(c)
    BY <1>10 DEF ReadCurrent
  <1>11. CASE RecoveryRefused(c)
    BY <1>11 DEF RecoveryRefused
  <1>12. CASE JoinRefresh(c)
    BY <1>12 DEF JoinRefresh, Become, Carried, TypeInv, CallsIndexed, Call
  <1>13. CASE UseMemo(c)
    BY <1>13 DEF UseMemo, Recovered
  <1>14. CASE UseStored(c)
    BY <1>14 DEF UseStored, Recovered
  <1>15. CASE StartRefresh(c)
    BY <1>15 DEF StartRefresh, Become, Carried, TypeInv, CallsIndexed, Call
  <1>16. CASE FinishRefresh(c)
    BY <1>16 DEF FinishRefresh, Recovered
  <1>17. CASE Retry(c)
    BY <1>17 DEF Retry
  <1>18. CASE BeginLogin(c)
    BY <1>18 DEF BeginLogin, Begin
  <1>19. CASE BeginValidate(c)
    BY <1>19 DEF BeginValidate, Begin
  <1>20. CASE EndLogin(c)
    BY <1>20 DEF EndLogin
  <1>21. CASE BeginLogout(c)
    <2>1. PICK op \in LogoutOps :
             Begin(c, op, [Entry(op, IF refreshAttempt = 0 THEN "remoteLogout" ELSE "settle")
                           EXCEPT !.attempt = refreshAttempt])
      BY <1>21 DEF BeginLogout
    <2>2. op \in Operations \ {"request"}
      BY <2>1 DEF Begin, LogoutOps
    <2>3. Carried(c, op, generation)
      BY <2>1 DEF Begin, Become, Entry, Ended, Carried, TypeInv, CallsIndexed
    <2>4. generation' = generation + 1
      BY <1>21 DEF BeginLogout
    <2> QED
      BY <2>2, <2>3, <2>4
  <1>22. CASE SettleRefresh(c)
    BY <1>22 DEF SettleRefresh
  <1>23. CASE RemoteLogout(c)
    BY <1>23 DEF RemoteLogout
  <1>24. CASE Delete(c)
    BY <1>24 DEF Delete
  <1>25. CASE EndLogout(c)
    BY <1>25 DEF EndLogout, TypeInv, TypeOK, FlagsOK
  <1>26. CASE BeginOpenID(c)
    BY <1>26 DEF BeginOpenID, Begin
  <1>27. CASE Exchange(c)
    BY <1>27 DEF Exchange
  <1>28. CASE EndOpenID(c)
    BY <1>28 DEF EndOpenID
  <1>29. CASE BeginAccessToken(c)
    BY <1>29 DEF BeginAccessToken, Begin
  <1> QED
    BY <1>1, <1>2, <1>3, <1>4, <1>5, <1>6, <1>7, <1>8, <1>9, <1>10, <1>11, <1>12, <1>13,
        <1>14, <1>15, <1>16, <1>17, <1>18, <1>19, <1>20, <1>21, <1>22, <1>23, <1>24, <1>25,
            <1>26, <1>27, <1>28, <1>29 DEF BeginCall, Continue, Recover

\* Which steps of a call store anything, and which of them follow a logout.
LEMMA StepStores ==
    ASSUME NEW c \in Callers, BeginCall(c) \/ Continue(c)
    PROVE  UNCHANGED <<store, signedOut>> \/ Save(c) \/ Delete(c)
  <1>1. CASE BeginRequest(c)
    BY <1>1 DEF BeginRequest
  <1>2. CASE ReadTokens(c)
    BY <1>2 DEF ReadTokens
  <1>3. CASE UseTokens(c)
    BY <1>3 DEF UseTokens
  <1>4. CASE ReadNative(c)
    BY <1>4 DEF ReadNative
  <1>5. CASE SignIn(c)
    BY <1>5 DEF SignIn
  <1>6. CASE Save(c)
    BY <1>6
  <1>7. CASE UseSignIn(c)
    BY <1>7 DEF UseSignIn
  <1>8. CASE Send(c)
    BY <1>8 DEF Send
  <1>9. CASE BeginRecover(c)
    BY <1>9 DEF BeginRecover
  <1>10. CASE ReadCurrent(c)
    BY <1>10 DEF ReadCurrent
  <1>11. CASE RecoveryRefused(c)
    BY <1>11 DEF RecoveryRefused
  <1>12. CASE JoinRefresh(c)
    BY <1>12 DEF JoinRefresh
  <1>13. CASE UseMemo(c)
    BY <1>13 DEF UseMemo
  <1>14. CASE UseStored(c)
    BY <1>14 DEF UseStored
  <1>15. CASE StartRefresh(c)
    BY <1>15 DEF StartRefresh
  <1>16. CASE FinishRefresh(c)
    BY <1>16 DEF FinishRefresh
  <1>17. CASE Retry(c)
    BY <1>17 DEF Retry
  <1>18. CASE BeginLogin(c)
    BY <1>18 DEF BeginLogin
  <1>19. CASE BeginValidate(c)
    BY <1>19 DEF BeginValidate
  <1>20. CASE EndLogin(c)
    BY <1>20 DEF EndLogin
  <1>21. CASE BeginLogout(c)
    BY <1>21 DEF BeginLogout
  <1>22. CASE SettleRefresh(c)
    BY <1>22 DEF SettleRefresh
  <1>23. CASE RemoteLogout(c)
    BY <1>23 DEF RemoteLogout
  <1>24. CASE Delete(c)
    BY <1>24
  <1>25. CASE EndLogout(c)
    BY <1>25 DEF EndLogout
  <1>26. CASE BeginOpenID(c)
    BY <1>26 DEF BeginOpenID
  <1>27. CASE Exchange(c)
    BY <1>27 DEF Exchange
  <1>28. CASE EndOpenID(c)
    BY <1>28 DEF EndOpenID
  <1>29. CASE BeginAccessToken(c)
    BY <1>29 DEF BeginAccessToken
  <1> QED
    BY <1>1, <1>2, <1>3, <1>4, <1>5, <1>6, <1>7, <1>8, <1>9, <1>10, <1>11, <1>12, <1>13,
        <1>14, <1>15, <1>16, <1>17, <1>18, <1>19, <1>20, <1>21, <1>22, <1>23, <1>24, <1>25,
            <1>26, <1>27, <1>28, <1>29 DEF BeginCall, Continue, Recover

\* A request that has not found its tokens yet only looks for them.
LEMMA UnstartedSteps ==
    ASSUME NEW c \in Callers, BeginCall(c) \/ Continue(c),
           call[c].op = "request", call[c].pc \in Unstarted
    PROVE  ReadTokens(c) \/ UseTokens(c) \/ ReadNative(c)
  <1>1. ~BeginCall(c)
    BY DEF BeginCall, BeginRequest, BeginAccessToken, BeginRecover, BeginLogin,
           BeginValidate, BeginLogout, BeginOpenID, Begin
  <1>2. ~Recover(c)
    BY DEF Unstarted, Recover, ReadCurrent, RecoveryRefused, JoinRefresh, UseMemo, UseStored,
           StartRefresh, FinishRefresh, Retry, MayRecover
  <1>3. /\ ~SignIn(c) /\ ~Save(c) /\ ~UseSignIn(c) /\ ~Send(c) /\ ~EndLogin(c)
        /\ ~SettleRefresh(c) /\ ~RemoteLogout(c) /\ ~Delete(c) /\ ~EndLogout(c)
        /\ ~Exchange(c) /\ ~EndOpenID(c)
    BY DEF Unstarted, SignIn, Save, UseSignIn, Send, EndLogin, SettleRefresh, RemoteLogout,
           Delete, EndLogout, Exchange, EndOpenID, At
  <1> QED
    BY <1>1, <1>2, <1>3 DEF Continue

\* The generations a step of a call leaves behind.
LEMMA StepRetired ==
    ASSUME "recover" \notin Operations, SafeInv, Retired,
           NEW c \in Callers, BeginCall(c) \/ Continue(c)
    PROVE  Retired'
  <1>1. generation \in Nat /\ \A d \in Callers : call[d].gen \in Nat
    BY DEF SafeInv, TypeInv, TypeOK, CallsIndexed, Call
  <1>2. generation' \in {generation, generation + 1}
        /\ (UNCHANGED signingOut \/ ~signingOut' \/ generation' = generation + 1)
    BY StepCarries
  <1>3. BeginRequest(c) => ~signingOut /\ UNCHANGED signingOut
    BY DEF BeginRequest, NoAccountOperation, lifecycle
  <1>4. \A d \in Callers \ {c} : call'[d] = call[d]
    BY StepCarries DEF Carried
  <1>5. /\ call'[c].gen \in {call[c].gen, 0, generation} /\ call'[c].op # "recover"
        /\ call'[c].op = "request" =>
              BeginRequest(c) \/ (call[c].op = "request" /\ call'[c].gen = call[c].gen)
    BY StepCarries DEF Carried, Retired
  <1>6. ASSUME NEW d \in Callers PROVE call'[d].gen <= generation' /\ call'[d].op # "recover"
    <2>1. call[d].gen <= generation /\ call[c].gen <= generation /\ call[d].op # "recover"
      BY DEF Retired
    <2>2. call'[d].gen \in {call[d].gen, 0, generation} /\ call'[d].op # "recover"
      BY <1>4, <1>5, <2>1
    <2> QED
      BY <1>1, <1>2, <2>1, <2>2
  <1>7. ASSUME signingOut', NEW d \in Callers, call'[d].op = "request"
        PROVE  call'[d].gen < generation'
    <2>1. CASE BeginRequest(c)
      <3>1. FALSE
        BY <1>3, <1>7, <2>1
      <3> QED
        BY <3>1
    <2>2. CASE ~BeginRequest(c)
      <3>1. call[d].op = "request" /\ call'[d].gen = call[d].gen
        BY <1>4, <1>5, <1>7, <2>2
      <3>2. call[d].gen <= generation /\ (signingOut => call[d].gen < generation)
        BY <3>1 DEF Retired
      <3>3. signingOut => call[d].gen < generation'
        BY <1>1, <1>2, <3>2
      <3>4. ~signingOut => generation' = generation + 1
        BY <1>2, <1>7
      <3>5. ~signingOut => call[d].gen < generation'
        BY <1>1, <3>2, <3>4
      <3> QED
        BY <3>1, <3>3, <3>5
    <2> QED
      BY <2>1, <2>2
  <1> QED
    BY <1>6, <1>7 DEF Retired

\* A call starts no refresh for an account that nothing was stored for.
LEMMA EmptyStartsNothing ==
    ASSUME SafeInv, Retired, EmptyIsQuiet, signedOut = "empty", NEW c \in Callers
    PROVE  ~StartRefresh(c)
  <1> SUFFICES ASSUME StartRefresh(c) PROVE FALSE
    OBVIOUS
  <1>1. call[c].pc = "currentRead" /\ generation = call[c].gen
    BY DEF StartRefresh, MayRecover, Current
  <1>2. call[c].op = "request"
    BY <1>1 DEF SafeInv, Stages, Retired
  <1> QED
    BY <1>1, <1>2 DEF EmptyIsQuiet, Unstarted

\* A step of a call that leaves the account empty found it so, or is the logout's.
LEMMA StepEmpties ==
    ASSUME SafeInv, Retired, EmptyIsQuiet, NEW c \in Callers,
           BeginCall(c) \/ Continue(c), signedOut' = "empty"
    PROVE  /\ store' = [tokens |-> NoToken, native |-> FALSE]
           /\ \/ signedOut = "empty"
              \/ /\ signingOut /\ refreshAttempt = 0
                 /\ \A i \in 1..Len(attempts) : ~Running(i)
                 /\ Delete(c)
  <1>1. CASE UNCHANGED <<store, signedOut>>
    BY <1>1 DEF EmptyIsQuiet
  <1>2. CASE Save(c)
    <2>1. signedOut = "empty" /\ UNCHANGED store
      BY <1>2 DEF Save
    <2> QED
      BY <2>1 DEF EmptyIsQuiet
  <1>3. CASE Delete(c)
    <2>1. call[c].pc = "delete"
      BY <1>3 DEF Delete
    <2>2. /\ signingOut /\ refreshAttempt = 0 /\ \A i \in 1..Len(attempts) : ~Running(i)
      BY <2>1 DEF SafeInv, Stages, ExclusiveOperations, Flight, LogoutSettlesRefresh
    <2>3. CASE call[c].op = "logout" /\ store' = [tokens |-> NoToken, native |-> FALSE]
      BY <1>3, <2>2, <2>3
    <2>4. CASE signedOut = "empty"
      <3>1. store = [tokens |-> NoToken, native |-> FALSE]
        BY <2>4 DEF EmptyIsQuiet
      <3>2. \/ UNCHANGED store
            \/ \E kept \in {store.native, FALSE} : store' = [tokens |-> NoToken, native |-> kept]
            \/ store' = [tokens |-> NoToken,
                         native |-> store.native /\ call[c].op = "logoutKeeping"]
        BY <1>3 DEF Delete
      <3> QED
        BY <2>4, <3>1, <3>2
    <2>5. \/ call[c].op = "logout" /\ store' = [tokens |-> NoToken, native |-> FALSE]
          \/ signedOut = "empty"
      <3>1. CASE UNCHANGED signedOut
        BY <3>1
      <3>2. CASE ~UNCHANGED signedOut
        BY <1>3, <3>2 DEF Delete
      <3> QED
        BY <3>1, <3>2
    <2> QED
      BY <2>3, <2>4, <2>5
  <1> QED
    BY <1>1, <1>2, <1>3, StepStores

\* A step of a call keeps the emptied account quiet.
LEMMA StepQuiet ==
    ASSUME SafeInv, Retired, EmptyIsQuiet, NEW c \in Callers, BeginCall(c) \/ Continue(c)
    PROVE  EmptyIsQuiet'
  <1> SUFFICES ASSUME signedOut' = "empty"
               PROVE  /\ store' = [tokens |-> NoToken, native |-> FALSE]
                      /\ \A i \in 1..Len(attempts') : ~(Running(i)')
                      /\ \A d \in Callers :
                            call'[d].op = "request" /\ call'[d].gen = generation' =>
                               call'[d].pc \in Unstarted /\ call'[d].held = NoToken
    BY DEF EmptyIsQuiet
  <1>1. store' = [tokens |-> NoToken, native |-> FALSE]
    BY StepEmpties
  <1>2. UNCHANGED attempts /\ \A i \in 1..Len(attempts) : ~Running(i)
    <2>1. CASE signedOut = "empty"
      BY <2>1, EmptyStartsNothing, StepAttempts DEF EmptyIsQuiet
    <2>2. CASE Delete(c) /\ \A i \in 1..Len(attempts) : ~Running(i)
      BY <2>2 DEF Delete
    <2> QED
      BY <2>1, <2>2, StepEmpties
  <1>3. generation \in Nat /\ \A d \in Callers : call[d].gen \in Nat /\ call[d].gen <= generation
    BY DEF SafeInv, TypeInv, TypeOK, CallsIndexed, Call, Retired
  <1>4. ASSUME NEW d \in Callers, call[d].op = "request", call[d].gen = generation'
        PROVE  /\ call[d].pc \in Unstarted /\ call[d].held = NoToken
               /\ store = [tokens |-> NoToken, native |-> FALSE]
    <2>1. generation' \in {generation, generation + 1}
      BY StepCarries
    <2>2. call[d].gen = generation
      BY <1>3, <1>4, <2>1
    <2>3. ~signingOut
      BY <1>3, <1>4, <2>2 DEF Retired
    <2>4. signedOut = "empty"
      BY <2>3, StepEmpties
    <2> QED
      BY <1>4, <2>2, <2>4 DEF EmptyIsQuiet
  <1>5. ASSUME NEW d \in Callers, call'[d].op = "request", call'[d].gen = generation'
        PROVE  call'[d].pc \in Unstarted /\ call'[d].held = NoToken
    <2>1. CASE d # c
      <3>1. call'[d] = call[d]
        BY <2>1, StepCarries DEF Carried
      <3> QED
        BY <1>4, <1>5, <3>1
    <2>2. CASE d = c /\ BeginRequest(c)
      <3>1. call'[c] = Entry("request", "readTokens")
        BY <2>2 DEF BeginRequest, Begin, Become, SafeInv, TypeInv, CallsIndexed
      <3> QED
        BY <2>2, <3>1 DEF Entry, Ended, Unstarted
    <2>3. CASE d = c /\ ~BeginRequest(c)
      <3>1. call[c].op = "request" /\ call'[c].gen = call[c].gen
        BY <1>5, <2>3, StepCarries DEF Carried
      <3>2. /\ call[c].pc \in Unstarted /\ call[c].held = NoToken
            /\ store.tokens = NoToken /\ ~store.native
        BY <1>4, <1>5, <2>3, <3>1
      <3>3. ~Return(c, "failed") /\ ~Return(c, "responded")
        BY <1>5, <2>3, ReturnMoves DEF SafeInv, Moved
      <3>4. CASE ReadTokens(c)
        BY <2>3, <3>2, <3>3, <3>4, GotoWithMoves, GotoWithHandles
           DEF ReadTokens, SafeInv, Moved, Unstarted
      <3>5. CASE UseTokens(c)
        BY <2>3, <3>1, <3>2, <3>5, GotoMoves, GotoHandles
           DEF UseTokens, SafeInv, Moved, Unstarted
      <3>6. CASE ReadNative(c)
        BY <3>2, <3>3, <3>6 DEF ReadNative
      <3> QED
        BY <3>1, <3>2, <3>4, <3>5, <3>6, UnstartedSteps
    <2> QED
      BY <2>1, <2>2, <2>3
  <1> QED
    BY <1>1, <1>2, <1>5 DEF Running

\* A task that takes a step leaves the calls and the flags alone, and none runs
\* in an emptied account.
LEMMA TaskQuiet ==
    ASSUME SafeInv, Retired, EmptyIsQuiet, NEW i \in 1..Len(attempts), RefreshTask(i)
    PROVE  Retired' /\ EmptyIsQuiet' /\ signedOut # "empty"
  <1>1. UNCHANGED <<lifecycle, call, signedOut>>
    BY DEF RefreshTask, Rotate, SaveRotated, TaskReadNative, TaskSignIn, TaskSaveSignIn,
           TaskUnchanged
  <1>2. signedOut # "empty"
    BY TaskSteps DEF SafeInv, EmptyIsQuiet
  <1> QED
    BY <1>1, <1>2 DEF Retired, EmptyIsQuiet, lifecycle

\* A new coordinator has retired nothing and signed nobody out.
LEMMA QuietInit == Init => Retired /\ EmptyIsQuiet
  BY DEF Init, Retired, EmptyIsQuiet, Ended

\* Both are inductive on top of the safety invariant.
LEMMA QuietNext ==
    ASSUME "recover" \notin Operations
    PROVE  SafeInv /\ Retired /\ EmptyIsQuiet /\ [Next]_vars => Retired' /\ EmptyIsQuiet'
  <1> SUFFICES ASSUME SafeInv, Retired, EmptyIsQuiet, [Next]_vars
               PROVE  Retired' /\ EmptyIsQuiet'
    OBVIOUS
  <1>1. CASE UNCHANGED vars
    BY <1>1 DEF vars, Retired, EmptyIsQuiet, Running
  <1>2. ASSUME NEW c \in Callers, BeginCall(c) \/ Continue(c) PROVE Retired' /\ EmptyIsQuiet'
    BY <1>2, StepRetired, StepQuiet
  <1> QED
    BY <1>1, <1>2, TaskQuiet DEF Next, Quiescent

\* From a full logout until something is stored again, no refresh stores
\* anything, whatever was in flight when the logout came, provided every refused
\* token reaches its recovery through the request that presented it
\* (sendAuthenticated) and not through recoverAccessToken.
THEOREM NoResurrection ==
    ASSUME "recover" \notin Operations
    PROVE  Spec => RefreshNeverResurrects
  <1>1. Init => SafeInv /\ Retired /\ EmptyIsQuiet
    BY SafeInit, QuietInit
  <1>2. SafeInv /\ Retired /\ EmptyIsQuiet /\ [Next]_vars => SafeInv' /\ Retired' /\ EmptyIsQuiet'
    BY SafeNext, QuietNext
  <1>3. SafeInv /\ Retired /\ EmptyIsQuiet /\ [Next]_vars =>
           [signedOut = "empty" /\ attempts' # attempts => UNCHANGED store]_vars
    <2> SUFFICES ASSUME SafeInv, Retired, EmptyIsQuiet, [Next]_vars, signedOut = "empty"
                 PROVE  UNCHANGED attempts
      BY DEF vars
    <2>1. ASSUME NEW c \in Callers, BeginCall(c) \/ Continue(c) PROVE UNCHANGED attempts
      BY <2>1, EmptyStartsNothing, StepAttempts
    <2>2. ASSUME NEW i \in 1..Len(attempts), RefreshTask(i) PROVE FALSE
      BY <2>2, TaskQuiet
    <2> QED
      BY <2>1, <2>2 DEF Next, Quiescent, vars
  <1> QED
    BY <1>1, <1>2, <1>3, PTL DEF Spec, RefreshNeverResurrects

\* In a signed-out account tokens come back through the silent sign-in of a
\* request only: what run AuthSignedOut shows is the one way there is.
THEOREM OnlySignInRefills ==
    ASSUME "recover" \notin Operations
    PROVE  Spec => [](signedOut # "refilled" => SignedOutHasNoTokens)
  <1>1. Init => SafeInv /\ Retired /\ EmptyIsQuiet
    BY SafeInit, QuietInit
  <1>2. SafeInv /\ Retired /\ EmptyIsQuiet /\ [Next]_vars => SafeInv' /\ Retired' /\ EmptyIsQuiet'
    BY SafeNext, QuietNext
  <1>3. SafeInv /\ EmptyIsQuiet => (signedOut # "refilled" => SignedOutHasNoTokens)
    <2>1. SafeInv => signedOut \in {"no", "empty", "refilled"}
      BY DEF SafeInv, TypeInv, TypeOK, FlagsOK
    <2>2. EmptyIsQuiet => (signedOut = "empty" => store.tokens = NoToken)
      BY DEF EmptyIsQuiet
    <2> QED
      BY <2>1, <2>2 DEF SignedOutHasNoTokens
  <1> QED
    BY <1>1, <1>2, <1>3, PTL DEF Spec

----
(* Retired requests. *)

\* A request goes on to its retry, or returns a response, only while its
\* generation is current, unless what returns is the retry itself.
OnlyRetriesOutlive ==
    [][\A c \in Callers :
          /\ call[c].op = "request" /\ call[c].pc # "retry"
          /\ call'[c].pc \in {"retry", "responded"}
          => Current(call[c].gen)]_vars

\* The steps of a request, and those it cannot take.
LEMMA StepResponds ==
    ASSUME SafeInv, NEW c \in Callers, BeginCall(c) \/ Continue(c),
           call[c].op = "request", call[c].pc # "retry",
           call'[c].pc \in {"retry", "responded"}
    PROVE  Current(call[c].gen)
  <1>0. TypeInv /\ Stages
    BY DEF SafeInv
  <1>1. CASE BeginCall(c)
    BY <1>1 DEF BeginCall, BeginRequest, BeginAccessToken, BeginRecover, BeginLogin,
       BeginValidate, BeginLogout, BeginOpenID, Begin
  <1> USE <1>0, GotoMoves, GotoWithMoves, ReturnMoves DEF Moved
  <1>2. CASE ReadTokens(c)
    BY <1>2 DEF ReadTokens
  <1>3. CASE UseTokens(c)
    BY <1>3 DEF UseTokens
  <1>4. CASE ReadNative(c)
    BY <1>4 DEF ReadNative
  <1>5. CASE SignIn(c)
    BY <1>5 DEF SignIn, Accepted, Refused
  <1>6. CASE Save(c)
    BY <1>6 DEF Save
  <1>7. CASE UseSignIn(c)
    BY <1>7 DEF UseSignIn
  <1>8. CASE Send(c)
    <2>1. CASE Current(call[c].gen)
      BY <2>1
    <2>2. CASE ~Current(call[c].gen)
      BY <1>8, <2>2 DEF Send
    <2> QED
      BY <2>1, <2>2
  <1>9. CASE ReadCurrent(c)
    BY <1>9 DEF ReadCurrent
  <1>10. CASE RecoveryRefused(c)
    BY <1>10 DEF RecoveryRefused
  <1>11. CASE JoinRefresh(c) \/ UseMemo(c) \/ UseStored(c) \/ StartRefresh(c)
    BY <1>11 DEF JoinRefresh, UseMemo, UseStored, StartRefresh, MayRecover
  <1>12. CASE FinishRefresh(c)
    BY <1>12 DEF FinishRefresh
  <1>13. CASE Retry(c)
    BY <1>13 DEF Retry
  <1>14. CASE EndLogin(c) \/ Exchange(c) \/ EndOpenID(c)
    BY <1>14 DEF EndLogin, Exchange, EndOpenID, At
  <1>15. CASE SettleRefresh(c) \/ RemoteLogout(c) \/ Delete(c) \/ EndLogout(c)
    BY <1>15 DEF SettleRefresh, RemoteLogout, Delete, EndLogout, Stages, LogoutOps
  <1> QED
    BY <1>1, <1>2, <1>3, <1>4, <1>5, <1>6, <1>7, <1>8, <1>9, <1>10, <1>11, <1>12,
       <1>13, <1>14, <1>15 DEF Continue, Recover

\* A request whose account signs out or in again returns no response, but for a
\* retry in flight, for any number of calls: what run AuthRetired shows is the
\* only way.
THEOREM RetiredRetriesOnly == Spec => OnlyRetriesOutlive
  <1>1. SafeInv /\ [Next]_vars =>
           [\A c \in Callers :
              /\ call[c].op = "request" /\ call[c].pc # "retry"
              /\ call'[c].pc \in {"retry", "responded"}
              => Current(call[c].gen)]_vars
    <2> SUFFICES ASSUME SafeInv, [Next]_vars, NEW c \in Callers,
                        call[c].op = "request", call[c].pc # "retry",
                        call'[c].pc \in {"retry", "responded"}
                 PROVE  Current(call[c].gen)
      OBVIOUS
    <2>0. call[c].pc # "responded"
      BY DEF SafeInv, Stages
    <2>1. CASE UNCHANGED call
      BY <2>0, <2>1
    <2>2. ASSUME NEW d \in Callers, BeginCall(d) \/ Continue(d) PROVE Current(call[c].gen)
      <3>1. d = c \/ call'[c] = call[c]
        BY <2>2, StepCarries DEF Carried
      <3> QED
        BY <2>0, <2>2, <3>1, StepResponds
    <2>3. ASSUME NEW i \in 1..Len(attempts), RefreshTask(i) PROVE UNCHANGED call
      BY <2>3 DEF RefreshTask, Rotate, SaveRotated, TaskReadNative, TaskSignIn,
         TaskSaveSignIn, TaskUnchanged
    <2> QED
      BY <2>1, <2>2, <2>3 DEF Next, Quiescent, vars
  <1> QED
    BY <1>1, SafeInit, SafeNext, PTL DEF Spec, OnlyRetriesOutlive
====
