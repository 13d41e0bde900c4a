---- MODULE AuthCoordinatorProofs ----
(* Proofs about AuthCoordinator, for any callers and any number of calls.    *)
EXTENDS AuthCoordinator, SequenceTheorems, TLAPS

Waiting == {"joined", "settle"}

\* Every identifier of an attempt in a call names a refresh task that exists.
CallsIndexed ==
    /\ call \in [Callers -> Call]
    /\ \A c \in Callers : /\ call[c].attempt \in 0..Len(attempts)
                          /\ call[c].pc \in Waiting => call[c].attempt # 0

TypeInv == TypeOK /\ CallsIndexed

\* The variables of TypeOK that hold neither a flag nor a call.
DataOK ==
    /\ store \in [tokens : Nat, native : BOOLEAN]
    /\ issued \in Nat /\ generation \in Nat /\ calls \in Nat
    /\ refreshAttempt \in 0..Len(attempts)
    /\ attempts \in Seq(Attempt)
    /\ completed \in [rejected : Nat, result : Result]

\* The inductive form of the type invariant, split into flags, data and calls.
LEMMA TypeParts == TypeInv <=> FlagsOK /\ DataOK /\ CallsIndexed
  BY DEF TypeInv, TypeOK, DataOK, CallsIndexed

\* The same of the next state, in the direction the step lemmas use.
LEMMA TypePartsNext == FlagsOK' /\ DataOK' /\ CallsIndexed' => TypeInv'
  BY DEF TypeInv, TypeOK, DataOK, CallsIndexed

\* A coordinator that was just created, with no attempt and every caller idle,
\* is well typed (AuthCoordinator.init).
LEMMA TypeInit == Init => TypeInv
  <1> SUFFICES ASSUME Init PROVE TypeInv
    OBVIOUS
  <1>1. attempts \in Seq(Attempt) /\ Len(attempts) = 0
    BY EmptySeq DEF Init
  <1>2. completed \in [rejected : Nat, result : Result]
    BY DEF Init, NoMemo, NoToken, Result
  <1>3. CallsIndexed
    BY <1>1 DEF Init, Ended, Call, NoToken, EntryPoints, CallsIndexed, Waits, Waiting
  <1>4. DataOK
    BY <1>1, <1>2 DEF Init, DataOK
  <1>5. FlagsOK
    BY DEF Init, FlagsOK
  <1> QED
    BY <1>3, <1>4, <1>5, TypeParts

----
(* The ways a call moves on. *)

\* Replacing the record of one call by another well-formed one, while refresh
\* tasks are only added, keeps every call well formed.
LEMMA BecomeType ==
    ASSUME CallsIndexed, Len(attempts) \in Nat, Len(attempts)' \in Nat,
           Len(attempts) <= Len(attempts)', NEW c \in Callers, NEW new \in Call,
           Become(c, new), new.attempt \in 0..Len(attempts)',
           new.pc \in Waiting => new.attempt # 0
    PROVE  CallsIndexed'
  BY DEF CallsIndexed, Become

\* A call that returns awaits no refresh task.
LEMMA ReturnType ==
    ASSUME CallsIndexed, UNCHANGED attempts, Len(attempts) \in Nat, NEW c \in Callers,
           NEW o \in {"idle", "responded", "failed"}, Return(c, o)
    PROVE  CallsIndexed'
  <1>1. Ended(o) \in Call /\ Ended(o).attempt = 0 /\ Ended(o).pc \notin Waiting
    BY DEF Call, Ended, Waits, Waiting, NoToken
  <1> QED
    BY <1>1, BecomeType DEF Return

\* A call that moves on to a point where it awaits no task stays well formed.
LEMMA GotoType ==
    ASSUME CallsIndexed, UNCHANGED attempts, Len(attempts) \in Nat, NEW c \in Callers,
           NEW pc \in Waits \ Waiting, Goto(c, pc)
    PROVE  CallsIndexed'
  <1> DEFINE new == [call[c] EXCEPT !.pc = pc]
  <1>1. new \in Call /\ new.attempt = call[c].attempt /\ new.pc = pc
    BY DEF Call, CallsIndexed
  <1>2. Become(c, new)
    BY DEF Goto
  <1> HIDE DEF new
  <1> QED
    BY <1>1, <1>2, BecomeType DEF CallsIndexed

\* The same of a call that moves on with a token it read or was given.
LEMMA GotoWithType ==
    ASSUME CallsIndexed, UNCHANGED attempts, Len(attempts) \in Nat, NEW c \in Callers,
           NEW pc \in Waits \ Waiting, NEW t \in Nat, GotoWith(c, pc, t)
    PROVE  CallsIndexed'
  <1> DEFINE new == [call[c] EXCEPT !.pc = pc, !.held = t]
  <1>1. new \in Call /\ new.attempt = call[c].attempt /\ new.pc = pc
    BY DEF Call, CallsIndexed
  <1>2. Become(c, new)
    BY DEF GotoWith
  <1> HIDE DEF new
  <1> QED
    BY <1>1, <1>2, BecomeType DEF CallsIndexed

\* The record every entry point starts a call with is a call.
LEMMA EntryCall ==
    ASSUME generation \in Nat, NEW op \in EntryPoints, NEW pc \in Waits
    PROVE  Entry(op, pc) \in Call /\ Entry(op, pc).attempt = 0 /\ Entry(op, pc).pc = pc
  BY DEF Call, Entry, Ended, NoToken

\* The record of a call that awaits refresh task a is a call.
LEMMA JoinCall ==
    ASSUME NEW r \in Call, NEW a \in Nat
    PROVE  /\ [r EXCEPT !.pc = "joined", !.held = NoToken, !.attempt = a] \in Call
           /\ [r EXCEPT !.pc = "joined", !.held = NoToken, !.attempt = a].attempt = a
  BY DEF Call, Waits, NoToken

\* Entering the coordinator keeps every call well formed.
LEMMA EntryType ==
    ASSUME TypeInv, UNCHANGED attempts, Len(attempts) \in Nat, NEW c \in Callers,
           NEW op \in EntryPoints, NEW pc \in Waits \ Waiting, Become(c, Entry(op, pc))
    PROVE  CallsIndexed'
  <1> QED
    BY EntryCall, BecomeType DEF TypeInv, TypeOK

----
(* Type correctness. *)

\* A step of a refresh task replaces its own entry and no other.
LEMMA TaskEntries ==
    ASSUME TypeInv, NEW i \in 1..Len(attempts), RefreshTask(i)
    PROVE  /\ attempts' \in Seq(Attempt) /\ Len(attempts') = Len(attempts)
           /\ \A j \in 1..Len(attempts) : j # i => attempts'[j] = attempts[j]
  <1> USE DEF RefreshTask, Rotate, SaveRotated, TaskReadNative, TaskSignIn,
     TaskSaveSignIn
  <1>1. attempts[i] \in Attempt
    BY ElementOfSeq DEF TypeInv, TypeOK
  <1>2. \E new \in Attempt : TaskBecomes(i, new)
    <2>1. \A p \in {"readNative", "signIn"} : Advance(i, p) => \E new \in Attempt : TaskBecomes(i, new)
      BY <1>1 DEF Advance, Attempt
    <2>2. \A p \in {"saveRefresh", "saveSignIn"} : Minted(i, p) => \E new \in Attempt : TaskBecomes(i, new)
      <3>1. issued + 1 \in Nat
        BY DEF TypeInv, TypeOK
      <3> DEFINE n == issued + 1
      <3> HIDE DEF n
      <3>2. \A p \in {"saveRefresh", "saveSignIn"} :
               [attempts[i] EXCEPT !.phase = p, !.token = n] \in Attempt
        BY <1>1, <3>1 DEF Attempt, n
      <3> QED
        BY <3>2 DEF Minted, n
    <2>3. \A r \in Result : Settle(i, r) => \E new \in Attempt : TaskBecomes(i, new)
      BY <1>1 DEF Settle, Attempt
    <2>4. /\ Retryable \in Result /\ Conclusive \in Result
          /\ Success(attempts[i].token) \in Result
      BY <1>1 DEF Retryable, Conclusive, Success, Result, Attempt, NoToken
    <2> QED
      BY <2>1, <2>2, <2>3, <2>4
  <1>3. PICK new \in Attempt : attempts' = [attempts EXCEPT ![i] = new]
    BY <1>2 DEF TaskBecomes
  <1> QED
    BY <1>3, ExceptSeq DEF TypeInv, TypeOK

\* No step of a refresh task breaks a type.
LEMMA TaskType ==
    ASSUME TypeInv, NEW i \in 1..Len(attempts), RefreshTask(i)
    PROVE  TypeInv'
  <1> USE DEF RefreshTask, Rotate, SaveRotated, TaskReadNative, TaskSignIn,
     TaskSaveSignIn
  <1>1. attempts[i] \in Attempt
    BY ElementOfSeq DEF TypeInv, TypeOK
  <1>3. attempts' \in Seq(Attempt) /\ Len(attempts') = Len(attempts)
    BY TaskEntries
  <1>4. issued' \in Nat
    BY DEF Minted, TypeInv, TypeOK
  <1>5. store' \in [tokens : Nat, native : BOOLEAN]
    <2>1. attempts[i].token \in Nat /\ store \in [tokens : Nat, native : BOOLEAN]
      BY <1>1 DEF TypeInv, TypeOK, Attempt
    <2>2. \A t \in Nat : /\ [store EXCEPT !.tokens = t] \in [tokens : Nat, native : BOOLEAN]
                        /\ [tokens |-> t, native |-> TRUE] \in [tokens : Nat, native : BOOLEAN]
      BY <2>1
    <2>3. store.tokens \in Nat
      BY <2>1
    <2> QED
      BY <2>1, <2>2, <2>3 DEF NoToken
  <1>6. UNCHANGED <<generation, loggingIn, signingOut, reauth, refreshAttempt, completed,
                    openIDAttempt, call, calls, signedOut>>
    BY DEF TaskUnchanged, lifecycle
  <1> QED
    BY <1>3, <1>4, <1>5, <1>6 DEF TypeInv, TypeOK, FlagsOK, CallsIndexed

\* clearAuthenticationState cancels a task and leaves it where it is.
LEMMA CancelType ==
    ASSUME attempts \in Seq(Attempt), NEW i \in 0..Len(attempts), Len(attempts) \in Nat
    PROVE  LET cancelled == IF i = 0 THEN attempts
                            ELSE [attempts EXCEPT ![i].cancelled = TRUE]
           IN cancelled \in Seq(Attempt) /\ Len(cancelled) = Len(attempts)
  <1>1. CASE i = 0
    BY <1>1
  <1>2. CASE i # 0
    <2>1. i \in 1..Len(attempts)
      BY <1>2
    <2>2. attempts[i] \in Attempt
      BY <2>1, ElementOfSeq
    <2>3. [attempts[i] EXCEPT !.cancelled = TRUE] \in Attempt
      BY <2>2 DEF Attempt
    <2> QED
      BY <1>2, <2>1, <2>3, ExceptSeq
  <1> QED
    BY <1>1, <1>2

\* No step of a call breaks a type, one case for each action of BeginCall,
\* Continue and Recover.
LEMMA CallType ==
    ASSUME TypeInv, NEW c \in Callers, BeginCall(c) \/ Continue(c)
    PROVE  TypeInv'
  <1>0. FlagsOK /\ DataOK /\ CallsIndexed /\ Len(attempts) \in Nat
    BY TypeParts, LenProperties DEF DataOK
  <1> USE DEF lifecycle, NoToken
  <1>1. CASE BeginRequest(c)
    <2>1. FlagsOK'
      BY <1>0, <1>1 DEF BeginRequest, Begin, Entry, FlagsOK
    <2>2. DataOK'
      BY <1>0, <1>1 DEF BeginRequest, Begin, Entry, DataOK, CallsIndexed, Call,
         NoMemo, Result
    <2>3. CallsIndexed'
      BY <1>0, <1>1, EntryType, GotoType, GotoWithType, ReturnType DEF BeginRequest,
         Begin, Entry, DataOK, CallsIndexed, Call, Waits, Waiting, EntryPoints
    <2> QED
      BY <2>1, <2>2, <2>3, TypePartsNext
  <1>2. CASE ReadTokens(c)
    <2>1. FlagsOK'
      BY <1>0, <1>2 DEF ReadTokens, FlagsOK
    <2>2. DataOK'
      BY <1>0, <1>2 DEF ReadTokens, DataOK, CallsIndexed, Call, NoMemo, Result
    <2>3. CallsIndexed'
      BY <1>0, <1>2, EntryType, GotoType, GotoWithType, ReturnType DEF ReadTokens,
         DataOK, CallsIndexed, Call, Waits, Waiting, EntryPoints
    <2> QED
      BY <2>1, <2>2, <2>3, TypePartsNext
  <1>3. CASE UseTokens(c)
    <2>1. FlagsOK'
      BY <1>0, <1>3 DEF UseTokens, FlagsOK
    <2>2. DataOK'
      BY <1>0, <1>3 DEF UseTokens, DataOK, CallsIndexed, Call, NoMemo, Result
    <2>3. CallsIndexed'
      BY <1>0, <1>3, EntryType, GotoType, GotoWithType, ReturnType DEF UseTokens,
         DataOK, CallsIndexed, Call, Waits, Waiting, EntryPoints
    <2> QED
      BY <2>1, <2>2, <2>3, TypePartsNext
  <1>4. CASE ReadNative(c)
    <2>1. FlagsOK'
      BY <1>0, <1>4 DEF ReadNative, FlagsOK
    <2>2. DataOK'
      BY <1>0, <1>4 DEF ReadNative, DataOK, CallsIndexed, Call, NoMemo, Result
    <2>3. CallsIndexed'
      BY <1>0, <1>4, EntryType, GotoType, GotoWithType, ReturnType DEF ReadNative,
         DataOK, CallsIndexed, Call, Waits, Waiting, EntryPoints
    <2> QED
      BY <2>1, <2>2, <2>3, TypePartsNext
  <1>5. CASE SignIn(c)
    <2>1. FlagsOK'
      BY <1>0, <1>5 DEF SignIn, Accepted, Refused, FlagsOK
    <2>2. DataOK'
      BY <1>0, <1>5 DEF SignIn, Accepted, Refused, DataOK, CallsIndexed, Call, NoMemo,
         Result
    <2>3. CallsIndexed'
      <3>1. issued + 1 \in Nat
        BY <1>0 DEF DataOK
      <3> QED
        BY <1>0, <1>5, <3>1, GotoWithType, ReturnType DEF SignIn, Accepted, Refused,
           Waits, Waiting
    <2> QED
      BY <2>1, <2>2, <2>3, TypePartsNext
  <1>6. CASE Save(c)
    <2>1. FlagsOK'
      BY <1>0, <1>6 DEF Save, FlagsOK
    <2>2. DataOK'
      <3>1. /\ call[c].held \in Nat /\ store.tokens \in Nat
            /\ (store.native \/ call[c].op # "openID") \in BOOLEAN
        BY <1>0 DEF DataOK, CallsIndexed, Call
      <3>2. store' \in [tokens : Nat, native : BOOLEAN]
        <4>1. \A t \in Nat : [store EXCEPT !.tokens = t] \in [tokens : Nat, native : BOOLEAN]
          BY <1>0 DEF DataOK
        <4>2. \A b \in BOOLEAN :
                 [tokens |-> call[c].held, native |-> b] \in [tokens : Nat, native : BOOLEAN]
          BY <3>1
        <4> QED
          BY <1>0, <1>6, <3>1, <4>1, <4>2 DEF Save
      <3> QED
        BY <1>0, <1>6, <3>2 DEF Save, DataOK
    <2>3. CallsIndexed'
      BY <1>0, <1>6, EntryType, GotoType, GotoWithType, ReturnType DEF Save, DataOK,
         CallsIndexed, Call, Waits, Waiting, EntryPoints
    <2> QED
      BY <2>1, <2>2, <2>3, TypePartsNext
  <1>7. CASE UseSignIn(c)
    <2>1. FlagsOK'
      BY <1>0, <1>7 DEF UseSignIn, FlagsOK
    <2>2. DataOK'
      BY <1>0, <1>7 DEF UseSignIn, DataOK, CallsIndexed, Call, NoMemo, Result
    <2>3. CallsIndexed'
      BY <1>0, <1>7, EntryType, GotoType, GotoWithType, ReturnType DEF UseSignIn,
         DataOK, CallsIndexed, Call, Waits, Waiting, EntryPoints
    <2> QED
      BY <2>1, <2>2, <2>3, TypePartsNext
  <1>8. CASE Send(c)
    <2>1. FlagsOK'
      BY <1>0, <1>8 DEF Send, FlagsOK
    <2>2. DataOK'
      BY <1>0, <1>8 DEF Send, DataOK, CallsIndexed, Call, NoMemo, Result
    <2>3. CallsIndexed'
      <3> DEFINE new == [call[c] EXCEPT !.pc = "readCurrent", !.rejected = call[c].held,
                                        !.held = NoToken]
      <3>1. new \in Call /\ new.attempt = call[c].attempt /\ new.pc = "readCurrent"
        BY <1>0 DEF CallsIndexed, Call, Waits
      <3>2. Become(c, new) \/ Return(c, "failed") \/ Return(c, "responded")
        BY <1>8 DEF Send
      <3> HIDE DEF new
      <3> QED
        BY <1>0, <1>8, <3>1, <3>2, BecomeType, ReturnType DEF Send, CallsIndexed,
           Waiting
    <2> QED
      BY <2>1, <2>2, <2>3, TypePartsNext
  <1>9. CASE BeginRecover(c)
    <2>1. FlagsOK'
      BY <1>0, <1>9 DEF BeginRecover, FlagsOK
    <2>2. DataOK'
      BY <1>0, <1>9 DEF BeginRecover, Begin, DataOK
    <2>3. CallsIndexed'
      <3>1. PICK t \in 1..issued :
               Become(c, [Entry("recover", "readCurrent") EXCEPT !.rejected = t])
        BY <1>9 DEF BeginRecover, Begin
      <3> DEFINE new == [Entry("recover", "readCurrent") EXCEPT !.rejected = t]
      <3> DEFINE e == Entry("recover", "readCurrent")
      <3>2. e \in Call /\ e.attempt = 0 /\ e.pc = "readCurrent"
        BY <1>0, EntryCall DEF Waits, EntryPoints, DataOK
      <3>3. t \in Nat
        BY <1>0 DEF DataOK
      <3> HIDE DEF e
      <3>4. new \in Call /\ new.attempt = 0 /\ new.pc = "readCurrent"
        BY <3>2, <3>3 DEF Call, e
      <3>5. Become(c, new)
        BY <3>1
      <3> HIDE DEF new
      <3> QED
        BY <1>0, <1>9, <3>4, <3>5, BecomeType DEF BeginRecover, Waiting
    <2> QED
      BY <2>1, <2>2, <2>3, TypePartsNext
  <1>10. CASE ReadCurrent(c)
    <2>1. FlagsOK'
      BY <1>0, <1>10 DEF ReadCurrent, FlagsOK
    <2>2. DataOK'
      BY <1>0, <1>10 DEF ReadCurrent, DataOK, CallsIndexed, Call, NoMemo, Result
    <2>3. CallsIndexed'
      BY <1>0, <1>10, EntryType, GotoType, GotoWithType, ReturnType DEF ReadCurrent,
         DataOK, CallsIndexed, Call, Waits, Waiting, EntryPoints
    <2> QED
      BY <2>1, <2>2, <2>3, TypePartsNext
  <1>11. CASE RecoveryRefused(c)
    <2>1. FlagsOK'
      BY <1>0, <1>11 DEF RecoveryRefused, FlagsOK
    <2>2. DataOK'
      BY <1>0, <1>11 DEF RecoveryRefused, DataOK, CallsIndexed, Call, NoMemo, Result
    <2>3. CallsIndexed'
      BY <1>0, <1>11, EntryType, GotoType, GotoWithType, ReturnType DEF
         RecoveryRefused, DataOK, CallsIndexed, Call, Waits, Waiting, EntryPoints
    <2> QED
      BY <2>1, <2>2, <2>3, TypePartsNext
  <1>12. CASE JoinRefresh(c)
    <2>1. FlagsOK'
      BY <1>0, <1>12 DEF JoinRefresh, FlagsOK
    <2>2. DataOK'
      BY <1>0, <1>12 DEF JoinRefresh, DataOK, CallsIndexed, Call, NoMemo, Result
    <2>3. CallsIndexed'
      <3> DEFINE new == [call[c] EXCEPT !.pc = "joined", !.held = NoToken,
                                        !.attempt = refreshAttempt]
      <3>0. call[c] \in Call /\ refreshAttempt \in Nat
        BY <1>0 DEF CallsIndexed, DataOK
      <3>1. new \in Call /\ new.attempt = refreshAttempt
        BY <3>0, JoinCall
      <3>2. Become(c, new)
        BY <1>12 DEF JoinRefresh
      <3> HIDE DEF new
      <3> QED
        BY <1>0, <1>12, <3>1, <3>2, BecomeType DEF JoinRefresh, DataOK
    <2> QED
      BY <2>1, <2>2, <2>3, TypePartsNext
  <1>13. CASE UseMemo(c)
    <2>1. FlagsOK'
      BY <1>0, <1>13 DEF UseMemo, MayRecover, Recovered, FlagsOK
    <2>2. DataOK'
      BY <1>0, <1>13 DEF UseMemo, MayRecover, Recovered, DataOK, CallsIndexed, Call,
         NoMemo, Result
    <2>3. CallsIndexed'
      <3>1. completed.result.token \in Nat
        BY <1>0 DEF DataOK, Result
      <3> QED
        BY <1>0, <1>13, <3>1, GotoWithType, ReturnType DEF UseMemo, Recovered, Waits,
           Waiting
    <2> QED
      BY <2>1, <2>2, <2>3, TypePartsNext
  <1>14. CASE UseStored(c)
    <2>1. FlagsOK'
      BY <1>0, <1>14 DEF UseStored, MayRecover, Recovered, FlagsOK
    <2>2. DataOK'
      BY <1>0, <1>14 DEF UseStored, MayRecover, Recovered, DataOK, CallsIndexed, Call,
         NoMemo, Result
    <2>3. CallsIndexed'
      BY <1>0, <1>14, EntryType, GotoType, GotoWithType, ReturnType DEF UseStored,
         MayRecover, Recovered, DataOK, CallsIndexed, Call, Waits, Waiting,
         EntryPoints
    <2> QED
      BY <2>1, <2>2, <2>3, TypePartsNext
  <1>15. CASE StartRefresh(c)
    <2>1. FlagsOK'
      BY <1>0, <1>15 DEF StartRefresh, FlagsOK
    <2>2. DataOK'
      <3> DEFINE new == [phase |-> "refresh", rejected |-> call[c].rejected,
                         token |-> call[c].held, cancelled |-> FALSE, result |-> Pending]
      <3>1. new \in Attempt
        BY <1>0 DEF Attempt, Result, Pending, CallsIndexed, Call
      <3>2. attempts' \in Seq(Attempt) /\ Len(attempts') = Len(attempts) + 1
        BY <1>0, <1>15, <3>1, AppendProperties DEF StartRefresh, DataOK
      <3> HIDE DEF new
      <3> QED
        BY <1>0, <1>15, <3>2 DEF StartRefresh, DataOK
    <2>3. CallsIndexed'
      <3>1. Len(attempts') = Len(attempts) + 1
        BY <1>0, <1>15, AppendProperties, LenProperties DEF StartRefresh, DataOK,
           Attempt, Result,
           Pending, CallsIndexed, Call
      <3> DEFINE new == [call[c] EXCEPT !.pc = "joined", !.held = NoToken,
                                        !.attempt = Len(attempts) + 1]
      <3>0. call[c] \in Call /\ Len(attempts) + 1 \in Nat
        BY <1>0 DEF CallsIndexed
      <3>2. new \in Call /\ new.attempt = Len(attempts) + 1
        BY <3>0, JoinCall
      <3>3. Become(c, new)
        BY <1>15 DEF StartRefresh
      <3> HIDE DEF new
      <3> QED
        BY <1>0, <3>1, <3>2, <3>3, BecomeType
    <2> QED
      BY <2>1, <2>2, <2>3, TypePartsNext
  <1>16. CASE FinishRefresh(c)
    <2>1. FlagsOK'
      BY <1>0, <1>16 DEF FinishRefresh, Record, FlagsOK
    <2>2. DataOK'
      <3>1. attempts[call[c].attempt] \in Attempt
        BY <1>0, <1>16, ElementOfSeq DEF FinishRefresh, DataOK, CallsIndexed, Waiting,
           Call
      <3>2. NoMemo \in [rejected : Nat, result : Result]
        BY DEF NoMemo, Result
      <3>3. [rejected |-> attempts[call[c].attempt].rejected,
             result |-> attempts[call[c].attempt].result] \in [rejected : Nat, result : Result]
        BY <3>1 DEF Attempt
      <3>4. completed' \in [rejected : Nat, result : Result]
        BY <1>0, <1>16, <3>2, <3>3 DEF FinishRefresh, Record, DataOK
      <3>5. refreshAttempt' \in {0, refreshAttempt}
        BY <1>16 DEF FinishRefresh, Record
      <3> QED
        BY <1>0, <1>16, <3>4, <3>5 DEF FinishRefresh, DataOK
    <2>3. CallsIndexed'
      <3>1. attempts[call[c].attempt] \in Attempt
        BY <1>0, <1>16, ElementOfSeq DEF FinishRefresh, DataOK, CallsIndexed, Waiting,
           Call
      <3>2. attempts[call[c].attempt].result.token \in Nat
        BY <3>1 DEF Attempt, Result
      <3> QED
        BY <1>0, <1>16, <3>2, GotoWithType, ReturnType DEF FinishRefresh, Recovered,
           Waits, Waiting
    <2> QED
      BY <2>1, <2>2, <2>3, TypePartsNext
  <1>17. CASE Retry(c)
    <2>1. FlagsOK'
      BY <1>0, <1>17 DEF Retry, FlagsOK
    <2>2. DataOK'
      BY <1>0, <1>17 DEF Retry, DataOK, CallsIndexed, Call, NoMemo, Result
    <2>3. CallsIndexed'
      BY <1>0, <1>17, EntryType, GotoType, GotoWithType, ReturnType DEF Retry, DataOK,
         CallsIndexed, Call, Waits, Waiting, EntryPoints
    <2> QED
      BY <2>1, <2>2, <2>3, TypePartsNext
  <1>18. CASE BeginLogin(c)
    <2>1. FlagsOK'
      BY <1>0, <1>18 DEF BeginLogin, Begin, FlagsOK
    <2>2. DataOK'
      BY <1>0, <1>18 DEF BeginLogin, Begin, DataOK, CallsIndexed, Call, NoMemo, Result
    <2>3. CallsIndexed'
      BY <1>0, <1>18, EntryType, GotoType, GotoWithType, ReturnType DEF BeginLogin,
         Begin, DataOK, CallsIndexed, Call, Waits, Waiting, EntryPoints
    <2> QED
      BY <2>1, <2>2, <2>3, TypePartsNext
  <1>19. CASE BeginValidate(c)
    <2>1. FlagsOK'
      BY <1>0, <1>19 DEF BeginValidate, Begin, FlagsOK
    <2>2. DataOK'
      BY <1>0, <1>19 DEF BeginValidate, Begin, DataOK, CallsIndexed, Call, NoMemo,
         Result
    <2>3. CallsIndexed'
      BY <1>0, <1>19, EntryType, GotoType, GotoWithType, ReturnType DEF BeginValidate,
         Begin, DataOK, CallsIndexed, Call, Waits, Waiting, EntryPoints
    <2> QED
      BY <2>1, <2>2, <2>3, TypePartsNext
  <1>20. CASE EndLogin(c)
    <2>1. FlagsOK'
      BY <1>0, <1>20 DEF EndLogin, FlagsOK
    <2>2. DataOK'
      BY <1>0, <1>20 DEF EndLogin, DataOK, CallsIndexed, Call, NoMemo, Result
    <2>3. CallsIndexed'
      BY <1>0, <1>20, EntryType, GotoType, GotoWithType, ReturnType DEF EndLogin,
         DataOK, CallsIndexed, Call, Waits, Waiting, EntryPoints
    <2> QED
      BY <2>1, <2>2, <2>3, TypePartsNext
  <1>21. CASE BeginLogout(c)
    <2>1. FlagsOK'
      BY <1>0, <1>21 DEF BeginLogout, FlagsOK
    <2>2. DataOK'
      BY <1>0, <1>21 DEF BeginLogout, Begin, DataOK
    <2>3. CallsIndexed'
      <3>1. PICK op \in LogoutOps :
               Become(c, [Entry(op, IF refreshAttempt = 0 THEN "remoteLogout" ELSE "settle")
                          EXCEPT !.attempt = refreshAttempt])
        BY <1>21 DEF BeginLogout, Begin
      <3> DEFINE new == [Entry(op, IF refreshAttempt = 0 THEN "remoteLogout" ELSE "settle")
                         EXCEPT !.attempt = refreshAttempt]
      <3> DEFINE pc == IF refreshAttempt = 0 THEN "remoteLogout" ELSE "settle"
                 e == Entry(op, pc)
      <3>2. e \in Call /\ e.pc = pc
        BY <1>0, EntryCall DEF Waits, EntryPoints, LogoutOps, DataOK
      <3>3. refreshAttempt \in Nat
        BY <1>0 DEF DataOK
      <3>4. Become(c, new)
        BY <3>1
      <3> HIDE DEF e
      <3>5. new \in Call /\ new.attempt = refreshAttempt /\ new.pc = pc
        BY <3>2, <3>3 DEF Call, e
      <3> HIDE DEF new
      <3>6. refreshAttempt \in 0..Len(attempts) /\ UNCHANGED attempts
        BY <1>0, <1>21 DEF BeginLogout, DataOK
      <3>7. new.pc \in Waiting => new.attempt # 0
        BY <3>5 DEF Waiting
      <3> HIDE DEF pc
      <3> QED
        BY <1>0, <3>4, <3>5, <3>6, <3>7, BecomeType
    <2> QED
      BY <2>1, <2>2, <2>3, TypePartsNext
  <1>22. CASE SettleRefresh(c)
    <2>1. FlagsOK'
      BY <1>0, <1>22 DEF SettleRefresh, FlagsOK
    <2>2. DataOK'
      BY <1>0, <1>22 DEF SettleRefresh, DataOK, CallsIndexed, Call, NoMemo, Result
    <2>3. CallsIndexed'
      BY <1>0, <1>22, EntryType, GotoType, GotoWithType, ReturnType DEF SettleRefresh,
         DataOK, CallsIndexed, Call, Waits, Waiting, EntryPoints
    <2> QED
      BY <2>1, <2>2, <2>3, TypePartsNext
  <1>23. CASE RemoteLogout(c)
    <2>1. FlagsOK'
      BY <1>0, <1>23 DEF RemoteLogout, FlagsOK
    <2>2. DataOK'
      BY <1>0, <1>23 DEF RemoteLogout, DataOK, CallsIndexed, Call, NoMemo, Result
    <2>3. CallsIndexed'
      BY <1>0, <1>23, EntryType, GotoType, GotoWithType, ReturnType DEF RemoteLogout,
         DataOK, CallsIndexed, Call, Waits, Waiting, EntryPoints
    <2> QED
      BY <2>1, <2>2, <2>3, TypePartsNext
  <1>24. CASE Delete(c)
    <2>1. FlagsOK'
      BY <1>0, <1>24 DEF Delete, FlagsOK
    <2>2. DataOK'
      <3>1. store' \in [tokens : Nat, native : BOOLEAN]
        <4>1. /\ (store.native /\ call[c].op = "logoutKeeping") \in BOOLEAN
              /\ store \in [tokens : Nat, native : BOOLEAN] /\ store.native \in BOOLEAN
          BY <1>0 DEF DataOK
        <4>2. \A b \in BOOLEAN : [tokens |-> 0, native |-> b] \in [tokens : Nat, native : BOOLEAN]
          OBVIOUS
        <4> QED
          BY <1>24, <4>1, <4>2 DEF Delete
      <3> QED
        BY <1>0, <1>24, <3>1 DEF Delete, DataOK
    <2>3. CallsIndexed'
      BY <1>0, <1>24, EntryType, GotoType, GotoWithType, ReturnType DEF Delete,
         DataOK, CallsIndexed, Call, Waits, Waiting, EntryPoints
    <2> QED
      BY <2>1, <2>2, <2>3, TypePartsNext
  <1>25. CASE EndLogout(c)
    <2>1. FlagsOK'
      BY <1>0, <1>25 DEF EndLogout, FlagsOK
    <2>2. DataOK'
      <3>0. attempts' \in Seq(Attempt) /\ Len(attempts') = Len(attempts)
        BY <1>0, <1>25, CancelType DEF EndLogout, DataOK
      <3> QED
        BY <1>0, <1>25, <3>0 DEF EndLogout, DataOK, NoMemo, Result
    <2>3. CallsIndexed'
      <3>1. attempts' \in Seq(Attempt) /\ Len(attempts') = Len(attempts)
        BY <1>0, <1>25, CancelType DEF EndLogout, DataOK
      <3>2. PICK o \in {"responded", "failed"} : Return(c, o)
        BY <1>25 DEF EndLogout
      <3>3. Ended(o) \in Call /\ Ended(o).attempt = 0 /\ Ended(o).pc \notin Waiting
        BY DEF Call, Ended, Waits, Waiting
      <3> QED
        BY <1>0, <3>1, <3>2, <3>3, BecomeType DEF Return
    <2> QED
      BY <2>1, <2>2, <2>3, TypePartsNext
  <1>26. CASE BeginOpenID(c)
    <2>1. FlagsOK'
      BY <1>0, <1>26 DEF BeginOpenID, Begin, FlagsOK
    <2>2. DataOK'
      BY <1>0, <1>26 DEF BeginOpenID, Begin, DataOK, CallsIndexed, Call, NoMemo, Result
    <2>3. CallsIndexed'
      BY <1>0, <1>26, EntryType, GotoType, GotoWithType, ReturnType DEF BeginOpenID,
         Begin, DataOK, CallsIndexed, Call, Waits, Waiting, EntryPoints
    <2> QED
      BY <2>1, <2>2, <2>3, TypePartsNext
  <1>27. CASE Exchange(c)
    <2>1. FlagsOK'
      BY <1>0, <1>27 DEF Exchange, FlagsOK
    <2>2. DataOK'
      BY <1>0, <1>27 DEF Exchange, DataOK, CallsIndexed, Call, NoMemo, Result
    <2>3. CallsIndexed'
      <3>1. issued + 1 \in Nat
        BY <1>0 DEF DataOK
      <3> QED
        BY <1>0, <1>27, <3>1, GotoWithType, ReturnType DEF Exchange, Waits, Waiting
    <2> QED
      BY <2>1, <2>2, <2>3, TypePartsNext
  <1>28. CASE EndOpenID(c)
    <2>1. FlagsOK'
      BY <1>0, <1>28 DEF EndOpenID, FlagsOK
    <2>2. DataOK'
      BY <1>0, <1>28 DEF EndOpenID, DataOK, CallsIndexed, Call, NoMemo, Result
    <2>3. CallsIndexed'
      BY <1>0, <1>28, EntryType, GotoType, GotoWithType, ReturnType DEF EndOpenID,
         DataOK, CallsIndexed, Call, Waits, Waiting, EntryPoints
    <2> QED
      BY <2>1, <2>2, <2>3, TypePartsNext
  <1>29. CASE BeginAccessToken(c)
    <2>1. FlagsOK'
      BY <1>0, <1>29 DEF BeginAccessToken, Begin, Entry, FlagsOK
    <2>2. DataOK'
      BY <1>0, <1>29 DEF BeginAccessToken, Begin, DataOK, CallsIndexed, Call, NoMemo, Result
    <2>3. CallsIndexed'
      BY <1>0, <1>29, EntryType DEF BeginAccessToken, Begin, Waits, Waiting, EntryPoints
    <2> QED
      BY <2>1, <2>2, <2>3, TypePartsNext
  <1> QED
    BY <1>1, <1>2, <1>3, <1>4, <1>5, <1>6, <1>7, <1>8, <1>9, <1>10, <1>11, <1>12,
       <1>13, <1>14, <1>15, <1>16, <1>17, <1>18, <1>19, <1>20, <1>21, <1>22, <1>23,
       <1>24, <1>25, <1>26, <1>27, <1>28, <1>29
       DEF BeginCall, Continue, Recover

\* The type invariant is inductive.
LEMMA TypeNext == TypeInv /\ [Next]_vars => TypeInv'
  <1> SUFFICES ASSUME TypeInv, [Next]_vars PROVE TypeInv'
    OBVIOUS
  <1>1. CASE UNCHANGED vars
    BY <1>1 DEF vars, TypeInv, TypeOK, FlagsOK, CallsIndexed
  <1> QED
    BY <1>1, TaskType, CallType DEF Next, Quiescent

\* Type correctness of the coordinator; in particular the account's table of
\* refresh attempts only ever names a task that exists.
THEOREM TypeCorrect == Spec => []TypeOK
  <1>1. TypeInv => TypeOK
    BY DEF TypeInv
  <1> QED
    BY <1>1, TypeInit, TypeNext, PTL DEF Spec

----
(* Account operations exclude each other, and one refresh flies at a time.  *)

\* Where a call may stand follows from its entry point.
Stages ==
    \A c \in Callers :
        /\ call[c].op = "none" <=> call[c].pc \in {"idle", "responded", "failed"}
        /\ call[c].op \in LogoutOps <=>
              call[c].pc \in {"settle", "remoteLogout", "delete", "deleted", "undeleted"}
        /\ call[c].pc \in {"readTokens", "tokensRead"} =>
              call[c].op \in {"request", "accessToken"}
        /\ call[c].pc \in {"readCurrent", "currentRead", "joined", "retry"} =>
              call[c].op \in {"request", "recover"}
        /\ call[c].pc = "signIn" => call[c].op \in {"request", "login", "validate"}
        /\ call[c].pc \in {"save", "saved", "unsaved"} =>
              call[c].op \in {"request", "login", "openID"}

\* A logout that settles awaits the only refresh there can be.
SettlesCurrent ==
    \A c \in Callers : call[c].pc = "settle" => refreshAttempt \in {0, call[c].attempt}

Flight == SingleFlight /\ NoOrphanRefresh /\ LogoutSettlesRefresh /\ SettlesCurrent

SafeInv == TypeInv /\ Stages /\ ExclusiveOperations /\ Flight

\* What a step of call c leaves it as, and that it leaves the others alone.
Moved(c, op, pc, attempt) ==
    /\ call'[c].op = op /\ call'[c].pc = pc /\ call'[c].attempt = attempt
    /\ \A d \in Callers \ {c} : call'[d] = call[d]

\* Goto keeps the call's entry point and the task it awaits.
LEMMA GotoMoves ==
    ASSUME TypeInv, NEW c \in Callers, NEW pc, Goto(c, pc)
    PROVE  Moved(c, call[c].op, pc, call[c].attempt)
  BY DEF TypeInv, CallsIndexed, Call, Goto, Become, Moved

\* So does GotoWith.
LEMMA GotoWithMoves ==
    ASSUME TypeInv, NEW c \in Callers, NEW pc, NEW t, GotoWith(c, pc, t)
    PROVE  Moved(c, call[c].op, pc, call[c].attempt)
  BY DEF TypeInv, CallsIndexed, Call, GotoWith, Become, Moved

\* A call that returns has no entry point and awaits nothing.
LEMMA ReturnMoves ==
    ASSUME TypeInv, NEW c \in Callers, NEW o, Return(c, o)
    PROVE  Moved(c, "none", o, 0)
  BY DEF TypeInv, CallsIndexed, Return, Become, Ended, Moved

\* A call that enters awaits nothing yet.
LEMMA EntryMoves ==
    ASSUME TypeInv, NEW c \in Callers, NEW op, NEW pc, Become(c, Entry(op, pc))
    PROVE  Moved(c, op, pc, 0)
  BY DEF TypeInv, CallsIndexed, Become, Entry, Ended, Moved

\* The first response ends the request or takes it to its recovery.
LEMMA SendMoves ==
    ASSUME TypeInv, NEW c \in Callers, Send(c)
    PROVE  \/ \E o \in {"responded", "failed"} : Moved(c, "none", o, 0)
           \/ Moved(c, call[c].op, "readCurrent", call[c].attempt)
  <1> DEFINE new == [call[c] EXCEPT !.pc = "readCurrent", !.rejected = call[c].held,
                                    !.held = NoToken]
  <1>1. /\ new.op = call[c].op /\ new.pc = "readCurrent" /\ new.attempt = call[c].attempt
        /\ call \in [Callers -> Call]
    BY DEF TypeInv, CallsIndexed, Call
  <1>2. Become(c, new) \/ Return(c, "failed") \/ Return(c, "responded")
    BY DEF Send
  <1>3. Become(c, new) => Moved(c, call[c].op, "readCurrent", call[c].attempt)
    <2> HIDE DEF new
    <2> QED
      BY <1>1 DEF Become, Moved
  <1> HIDE DEF new
  <1> QED
    BY <1>2, <1>3, ReturnMoves

\* recoverAccessToken starts at the read of the stored pair.
LEMMA RecoverMoves ==
    ASSUME TypeInv, NEW c \in Callers, BeginRecover(c)
    PROVE  Moved(c, "recover", "readCurrent", 0)
  BY DEF TypeInv, CallsIndexed, BeginRecover, Begin, Become, Entry, Ended, Moved

\* A 401 that finds an attempt awaits that one.
LEMMA JoinMoves ==
    ASSUME TypeInv, NEW c \in Callers, JoinRefresh(c)
    PROVE  Moved(c, call[c].op, "joined", refreshAttempt)
  BY DEF TypeInv, CallsIndexed, Call, JoinRefresh, Become, Moved

\* A 401 that starts a refresh awaits the one it started.
LEMMA StartMoves ==
    ASSUME TypeInv, NEW c \in Callers, StartRefresh(c)
    PROVE  Moved(c, call[c].op, "joined", refreshAttempt')
  BY DEF TypeInv, CallsIndexed, Call, StartRefresh, Become, Moved

\* A logout that finds a refresh settles that one, any other skips the settling.
LEMMA LogoutMoves ==
    ASSUME TypeInv, NEW c \in Callers, BeginLogout(c)
    PROVE  \E op \in LogoutOps :
              Moved(c, op, IF refreshAttempt = 0 THEN "remoteLogout" ELSE "settle", refreshAttempt)
  BY DEF TypeInv, CallsIndexed, BeginLogout, Begin, Become, Entry, Ended, Moved

\* The attempts there are after a new one is registered.
LEMMA StartAppends ==
    ASSUME TypeInv, NEW c \in Callers, StartRefresh(c)
    PROVE  /\ Len(attempts) \in Nat /\ Len(attempts') = Len(attempts) + 1
           /\ refreshAttempt' = Len(attempts) + 1
           /\ \A i \in 1..Len(attempts) : attempts'[i] = attempts[i]
  <1> DEFINE new == [phase |-> "refresh", rejected |-> call[c].rejected,
                     token |-> call[c].held, cancelled |-> FALSE, result |-> Pending]
  <1>1. new \in Attempt
    BY DEF Attempt, Result, Pending, TypeInv, CallsIndexed, Call, NoToken
  <1>2. attempts' = Append(attempts, new) /\ refreshAttempt' = Len(attempts) + 1
    BY DEF StartRefresh
  <1> HIDE DEF new
  <1> QED
    BY <1>1, <1>2, AppendProperties, LenProperties DEF TypeInv, TypeOK

\* Every step of a call leaves it at a point its entry point can stand at.
LEMMA CallStages ==
    ASSUME SafeInv, NEW c \in Callers, BeginCall(c) \/ Continue(c)
    PROVE  Stages'
  <1>0. TypeInv /\ Stages
    BY DEF SafeInv
  <1> USE DEF lifecycle, Stages, Moved, LogoutOps, At
  <1>1. CASE BeginRequest(c)
    BY <1>0, <1>1, GotoMoves, GotoWithMoves, ReturnMoves, EntryMoves DEF BeginRequest,
       Begin, NoAccountOperation
  <1>2. CASE ReadTokens(c)
    BY <1>0, <1>2, GotoMoves, GotoWithMoves, ReturnMoves, EntryMoves DEF ReadTokens, At
  <1>3. CASE UseTokens(c)
    BY <1>0, <1>3, GotoMoves, GotoWithMoves, ReturnMoves, EntryMoves DEF UseTokens, At
  <1>4. CASE ReadNative(c)
    BY <1>0, <1>4, GotoMoves, GotoWithMoves, ReturnMoves, EntryMoves DEF ReadNative, At
  <1>5. CASE SignIn(c)
    BY <1>0, <1>5, GotoMoves, GotoWithMoves, ReturnMoves, EntryMoves DEF SignIn,
       Accepted, Refused
  <1>6. CASE Save(c)
    BY <1>0, <1>6, GotoMoves, GotoWithMoves, ReturnMoves, EntryMoves DEF Save
  <1>7. CASE UseSignIn(c)
    BY <1>0, <1>7, GotoMoves, GotoWithMoves, ReturnMoves, EntryMoves DEF UseSignIn
  <1>8. CASE Send(c)
    <2>1. At(c, "request", "send") /\ UNCHANGED <<lifecycle, refreshAttempt, attempts>>
      BY <1>8 DEF Send
    <2> QED
      BY <1>0, <1>8, <2>1, SendMoves
  <1>9. CASE BeginRecover(c)
    BY <1>0, <1>9, RecoverMoves DEF BeginRecover, Begin
  <1>10. CASE ReadCurrent(c)
    BY <1>0, <1>10, GotoMoves, GotoWithMoves, ReturnMoves, EntryMoves DEF ReadCurrent
  <1>11. CASE RecoveryRefused(c)
    BY <1>0, <1>11, GotoMoves, GotoWithMoves, ReturnMoves, EntryMoves DEF
       RecoveryRefused
  <1>12. CASE JoinRefresh(c)
    <2>1. /\ call[c].pc = "currentRead" /\ refreshAttempt # 0 /\ Current(call[c].gen)
          /\ UNCHANGED <<lifecycle, refreshAttempt, attempts>>
      BY <1>12 DEF JoinRefresh, MayRecover
    <2> QED
      BY <1>0, <1>12, <2>1, JoinMoves
  <1>13. CASE UseMemo(c)
    BY <1>0, <1>13, GotoMoves, GotoWithMoves, ReturnMoves, EntryMoves DEF UseMemo,
       MayRecover, Recovered
  <1>14. CASE UseStored(c)
    BY <1>0, <1>14, GotoMoves, GotoWithMoves, ReturnMoves, EntryMoves DEF UseStored,
       MayRecover, Recovered
  <1>15. CASE StartRefresh(c)
    <2>1. call[c].pc = "currentRead" /\ UNCHANGED lifecycle
      BY <1>15 DEF StartRefresh, MayRecover
    <2> QED
      BY <1>0, <1>15, <2>1, StartMoves
  <1>16. CASE FinishRefresh(c)
    BY <1>0, <1>16, GotoWithMoves, ReturnMoves DEF FinishRefresh, Recovered
  <1>17. CASE Retry(c)
    BY <1>0, <1>17, GotoMoves, GotoWithMoves, ReturnMoves, EntryMoves DEF Retry
  <1>18. CASE BeginLogin(c)
    BY <1>0, <1>18, GotoMoves, GotoWithMoves, ReturnMoves, EntryMoves DEF BeginLogin,
       Begin, NoAccountOperation
  <1>19. CASE BeginValidate(c)
    BY <1>0, <1>19, GotoMoves, GotoWithMoves, ReturnMoves, EntryMoves DEF
       BeginValidate, Begin, NoAccountOperation
  <1>20. CASE EndLogin(c)
    BY <1>0, <1>20, GotoMoves, GotoWithMoves, ReturnMoves, EntryMoves DEF EndLogin
  <1>21. CASE BeginLogout(c)
    BY <1>0, <1>21, LogoutMoves DEF BeginLogout, Begin, NoAccountOperation
  <1>22. CASE SettleRefresh(c)
    BY <1>0, <1>22, GotoMoves, GotoWithMoves, ReturnMoves, EntryMoves DEF SettleRefresh
  <1>23. CASE RemoteLogout(c)
    BY <1>0, <1>23, GotoMoves, GotoWithMoves, ReturnMoves, EntryMoves DEF RemoteLogout
  <1>24. CASE Delete(c)
    BY <1>0, <1>24, GotoMoves, GotoWithMoves, ReturnMoves, EntryMoves DEF Delete
  <1>25. CASE EndLogout(c)
    BY <1>0, <1>25, ReturnMoves DEF EndLogout
  <1>26. CASE BeginOpenID(c)
    BY <1>0, <1>26, GotoMoves, GotoWithMoves, ReturnMoves, EntryMoves DEF BeginOpenID,
       Begin
  <1>27. CASE Exchange(c)
    BY <1>0, <1>27, GotoMoves, GotoWithMoves, ReturnMoves, EntryMoves DEF Exchange, At
  <1>28. CASE EndOpenID(c)
    BY <1>0, <1>28, GotoMoves, GotoWithMoves, ReturnMoves, EntryMoves DEF EndOpenID
  <1>29. CASE BeginAccessToken(c)
    BY <1>0, <1>29, EntryMoves DEF BeginAccessToken, Begin
  <1> QED
    BY <1>1, <1>2, <1>3, <1>4, <1>5, <1>6, <1>7, <1>8, <1>9, <1>10, <1>11, <1>12,
       <1>13, <1>14, <1>15, <1>16, <1>17, <1>18, <1>19, <1>20, <1>21, <1>22, <1>23,
       <1>24, <1>25, <1>26, <1>27, <1>28, <1>29 DEF BeginCall, Continue, Recover

\* Every step of a call keeps the account operations exclusive: one that enters
\* finds both flags down, one that ends lowers its own.
LEMMA CallExclusive ==
    ASSUME SafeInv, NEW c \in Callers, BeginCall(c) \/ Continue(c)
    PROVE  ExclusiveOperations'
  <1>0. TypeInv /\ Stages /\ ExclusiveOperations
    BY DEF SafeInv
  <1> USE DEF lifecycle, Stages, Moved, LogoutOps, At, ExclusiveOperations, Exclusive
  <1>1. CASE BeginRequest(c)
    BY <1>0, <1>1, GotoMoves, GotoWithMoves, ReturnMoves, EntryMoves DEF BeginRequest,
       Begin, NoAccountOperation
  <1>2. CASE ReadTokens(c)
    BY <1>0, <1>2, GotoMoves, GotoWithMoves, ReturnMoves, EntryMoves DEF ReadTokens, At
  <1>3. CASE UseTokens(c)
    BY <1>0, <1>3, GotoMoves, GotoWithMoves, ReturnMoves, EntryMoves DEF UseTokens, At
  <1>4. CASE ReadNative(c)
    BY <1>0, <1>4, GotoMoves, GotoWithMoves, ReturnMoves, EntryMoves DEF ReadNative, At
  <1>5. CASE SignIn(c)
    BY <1>0, <1>5, GotoMoves, GotoWithMoves, ReturnMoves, EntryMoves DEF SignIn,
       Accepted, Refused
  <1>6. CASE Save(c)
    BY <1>0, <1>6, GotoMoves, GotoWithMoves, ReturnMoves, EntryMoves DEF Save
  <1>7. CASE UseSignIn(c)
    BY <1>0, <1>7, GotoMoves, GotoWithMoves, ReturnMoves, EntryMoves DEF UseSignIn
  <1>8. CASE Send(c)
    <2>1. At(c, "request", "send") /\ UNCHANGED <<lifecycle, refreshAttempt, attempts>>
      BY <1>8 DEF Send
    <2> QED
      BY <1>0, <1>8, <2>1, SendMoves
  <1>9. CASE BeginRecover(c)
    BY <1>0, <1>9, RecoverMoves DEF BeginRecover, Begin
  <1>10. CASE ReadCurrent(c)
    BY <1>0, <1>10, GotoMoves, GotoWithMoves, ReturnMoves, EntryMoves DEF ReadCurrent
  <1>11. CASE RecoveryRefused(c)
    BY <1>0, <1>11, GotoMoves, GotoWithMoves, ReturnMoves, EntryMoves DEF
       RecoveryRefused
  <1>12. CASE JoinRefresh(c)
    <2>1. /\ call[c].pc = "currentRead" /\ refreshAttempt # 0 /\ Current(call[c].gen)
          /\ UNCHANGED <<lifecycle, refreshAttempt, attempts>>
      BY <1>12 DEF JoinRefresh, MayRecover
    <2> QED
      BY <1>0, <1>12, <2>1, JoinMoves
  <1>13. CASE UseMemo(c)
    BY <1>0, <1>13, GotoMoves, GotoWithMoves, ReturnMoves, EntryMoves DEF UseMemo,
       MayRecover, Recovered
  <1>14. CASE UseStored(c)
    BY <1>0, <1>14, GotoMoves, GotoWithMoves, ReturnMoves, EntryMoves DEF UseStored,
       MayRecover, Recovered
  <1>15. CASE StartRefresh(c)
    <2>1. call[c].pc = "currentRead" /\ UNCHANGED lifecycle
      BY <1>15 DEF StartRefresh, MayRecover
    <2> QED
      BY <1>0, <1>15, <2>1, StartMoves
  <1>16. CASE FinishRefresh(c)
    BY <1>0, <1>16, GotoWithMoves, ReturnMoves DEF FinishRefresh, Recovered
  <1>17. CASE Retry(c)
    BY <1>0, <1>17, GotoMoves, GotoWithMoves, ReturnMoves, EntryMoves DEF Retry
  <1>18. CASE BeginLogin(c)
    BY <1>0, <1>18, GotoMoves, GotoWithMoves, ReturnMoves, EntryMoves DEF BeginLogin,
       Begin, NoAccountOperation
  <1>19. CASE BeginValidate(c)
    BY <1>0, <1>19, GotoMoves, GotoWithMoves, ReturnMoves, EntryMoves DEF
       BeginValidate, Begin, NoAccountOperation
  <1>20. CASE EndLogin(c)
    BY <1>0, <1>20, GotoMoves, GotoWithMoves, ReturnMoves, EntryMoves DEF EndLogin
  <1>21. CASE BeginLogout(c)
    BY <1>0, <1>21, LogoutMoves DEF BeginLogout, Begin, NoAccountOperation
  <1>22. CASE SettleRefresh(c)
    BY <1>0, <1>22, GotoMoves, GotoWithMoves, ReturnMoves, EntryMoves DEF SettleRefresh
  <1>23. CASE RemoteLogout(c)
    BY <1>0, <1>23, GotoMoves, GotoWithMoves, ReturnMoves, EntryMoves DEF RemoteLogout
  <1>24. CASE Delete(c)
    BY <1>0, <1>24, GotoMoves, GotoWithMoves, ReturnMoves, EntryMoves DEF Delete
  <1>25. CASE EndLogout(c)
    BY <1>0, <1>25, ReturnMoves DEF EndLogout
  <1>26. CASE BeginOpenID(c)
    BY <1>0, <1>26, GotoMoves, GotoWithMoves, ReturnMoves, EntryMoves DEF BeginOpenID,
       Begin
  <1>27. CASE Exchange(c)
    BY <1>0, <1>27, GotoMoves, GotoWithMoves, ReturnMoves, EntryMoves DEF Exchange, At
  <1>28. CASE EndOpenID(c)
    BY <1>0, <1>28, GotoMoves, GotoWithMoves, ReturnMoves, EntryMoves DEF EndOpenID
  <1>29. CASE BeginAccessToken(c)
    BY <1>0, <1>29, EntryMoves DEF BeginAccessToken, Begin
  <1> QED
    BY <1>1, <1>2, <1>3, <1>4, <1>5, <1>6, <1>7, <1>8, <1>9, <1>10, <1>11, <1>12,
       <1>13, <1>14, <1>15, <1>16, <1>17, <1>18, <1>19, <1>20, <1>21, <1>22, <1>23,
       <1>24, <1>25, <1>26, <1>27, <1>28, <1>29 DEF BeginCall, Continue, Recover

\* Every step of a call keeps the refreshes single, awaited and settled by a
\* logout: StartRefresh needs an empty table, Record and SettleRefresh empty it
\* only when the task is done, EndLogout finds it empty.
LEMMA CallFlight ==
    ASSUME SafeInv, NEW c \in Callers, BeginCall(c) \/ Continue(c)
    PROVE  Flight'
  <1>0. TypeInv /\ Stages /\ ExclusiveOperations /\ Flight
    BY DEF SafeInv
  <1> USE DEF lifecycle, Stages, Moved, LogoutOps, At, ExclusiveOperations, Exclusive,
     Flight, SingleFlight, NoOrphanRefresh, LogoutSettlesRefresh, SettlesCurrent,
     Running
  <1>1. CASE BeginRequest(c)
    BY <1>0, <1>1, GotoMoves, GotoWithMoves, ReturnMoves, EntryMoves DEF BeginRequest,
       Begin, NoAccountOperation
  <1>2. CASE ReadTokens(c)
    BY <1>0, <1>2, GotoMoves, GotoWithMoves, ReturnMoves, EntryMoves DEF ReadTokens, At
  <1>3. CASE UseTokens(c)
    BY <1>0, <1>3, GotoMoves, GotoWithMoves, ReturnMoves, EntryMoves DEF UseTokens, At
  <1>4. CASE ReadNative(c)
    BY <1>0, <1>4, GotoMoves, GotoWithMoves, ReturnMoves, EntryMoves DEF ReadNative, At
  <1>5. CASE SignIn(c)
    BY <1>0, <1>5, GotoMoves, GotoWithMoves, ReturnMoves, EntryMoves DEF SignIn,
       Accepted, Refused
  <1>6. CASE Save(c)
    BY <1>0, <1>6, GotoMoves, GotoWithMoves, ReturnMoves, EntryMoves DEF Save
  <1>7. CASE UseSignIn(c)
    BY <1>0, <1>7, GotoMoves, GotoWithMoves, ReturnMoves, EntryMoves DEF UseSignIn
  <1>8. CASE Send(c)
    <2>1. At(c, "request", "send") /\ UNCHANGED <<lifecycle, refreshAttempt, attempts>>
      BY <1>8 DEF Send
    <2> QED
      BY <1>0, <1>8, <2>1, SendMoves
  <1>9. CASE BeginRecover(c)
    BY <1>0, <1>9, RecoverMoves DEF BeginRecover, Begin
  <1>10. CASE ReadCurrent(c)
    BY <1>0, <1>10, GotoMoves, GotoWithMoves, ReturnMoves, EntryMoves DEF ReadCurrent
  <1>11. CASE RecoveryRefused(c)
    BY <1>0, <1>11, GotoMoves, GotoWithMoves, ReturnMoves, EntryMoves DEF
       RecoveryRefused
  <1>12. CASE JoinRefresh(c)
    <2>1. /\ call[c].pc = "currentRead" /\ refreshAttempt # 0 /\ Current(call[c].gen)
          /\ UNCHANGED <<lifecycle, refreshAttempt, attempts>>
      BY <1>12 DEF JoinRefresh, MayRecover
    <2> QED
      BY <1>0, <1>12, <2>1, JoinMoves
  <1>13. CASE UseMemo(c)
    BY <1>0, <1>13, GotoMoves, GotoWithMoves, ReturnMoves, EntryMoves DEF UseMemo,
       MayRecover, Recovered
  <1>14. CASE UseStored(c)
    BY <1>0, <1>14, GotoMoves, GotoWithMoves, ReturnMoves, EntryMoves DEF UseStored,
       MayRecover, Recovered
  <1>15. CASE StartRefresh(c)
    <2>1. /\ call[c].pc = "currentRead" /\ refreshAttempt = 0 /\ Current(call[c].gen)
          /\ UNCHANGED lifecycle
      BY <1>15 DEF StartRefresh, MayRecover
    <2>2. /\ Len(attempts) \in Nat /\ Len(attempts') = Len(attempts) + 1
          /\ refreshAttempt' = Len(attempts) + 1
          /\ \A i \in 1..Len(attempts) : attempts'[i] = attempts[i]
      BY <1>0, <1>15, StartAppends
    <2>3. SingleFlight'
      BY <1>0, <2>1, <2>2
    <2>4. NoOrphanRefresh'
      BY <1>0, <1>15, StartMoves
    <2>5. \A d \in Callers : call[d].op \notin LogoutOps
      BY <1>0, <2>1 DEF Current
    <2>6. \A d \in Callers : call'[d].op \notin LogoutOps /\ call'[d].pc # "settle"
      BY <1>0, <1>15, <2>1, <2>5, StartMoves
    <2> QED
      BY <2>3, <2>4, <2>6
  <1>16. CASE FinishRefresh(c)
    <2>1. /\ call[c].pc = "joined" /\ attempts[call[c].attempt].phase = "done"
          /\ refreshAttempt' = IF refreshAttempt = call[c].attempt THEN 0 ELSE refreshAttempt
          /\ UNCHANGED <<lifecycle, attempts>>
      BY <1>16 DEF FinishRefresh, Record
    <2>2. \/ Moved(c, call[c].op, "retry", call[c].attempt)
          \/ \E o \in {"responded", "failed"} : Moved(c, "none", o, 0)
      BY <1>0, <1>16, GotoWithMoves, ReturnMoves DEF FinishRefresh, Recovered
    <2>3. SingleFlight'
      BY <1>0, <2>1
    <2>4. NoOrphanRefresh'
      BY <1>0, <2>1, <2>2
    <2>5. /\ \A d \in Callers \ {c} : call'[d] = call[d]
          /\ call'[c].op \notin LogoutOps /\ call'[c].pc # "settle"
      BY <1>0, <2>1, <2>2
    <2>6. refreshAttempt' \in {0, refreshAttempt} /\ attempts' = attempts
      BY <2>1
    <2>7. LogoutSettlesRefresh'
      <3> SUFFICES ASSUME NEW d \in Callers, call'[d].op \in LogoutOps, call'[d].pc # "settle"
                   PROVE  /\ refreshAttempt' = 0
                          /\ \A i \in 1..Len(attempts') : ~(Running(i)')
        OBVIOUS
      <3>1. d # c
        BY <2>5
      <3>2. call'[d] = call[d]
        BY <2>5, <3>1
      <3>3. refreshAttempt = 0 /\ \A i \in 1..Len(attempts) : ~Running(i)
        BY <1>0, <3>2
      <3> QED
        BY <2>6, <3>3
    <2>8. SettlesCurrent'
      <3> SUFFICES ASSUME NEW d \in Callers, call'[d].pc = "settle"
                   PROVE  refreshAttempt' \in {0, call'[d].attempt}
        OBVIOUS
      <3>1. d # c
        BY <2>5
      <3>2. call'[d] = call[d]
        BY <2>5, <3>1
      <3> QED
        BY <1>0, <2>6, <3>2
    <2> QED
      BY <2>3, <2>4, <2>7, <2>8
  <1>17. CASE Retry(c)
    BY <1>0, <1>17, GotoMoves, GotoWithMoves, ReturnMoves, EntryMoves DEF Retry
  <1>18. CASE BeginLogin(c)
    BY <1>0, <1>18, GotoMoves, GotoWithMoves, ReturnMoves, EntryMoves DEF BeginLogin,
       Begin, NoAccountOperation
  <1>19. CASE BeginValidate(c)
    BY <1>0, <1>19, GotoMoves, GotoWithMoves, ReturnMoves, EntryMoves DEF
       BeginValidate, Begin, NoAccountOperation
  <1>20. CASE EndLogin(c)
    BY <1>0, <1>20, GotoMoves, GotoWithMoves, ReturnMoves, EntryMoves DEF EndLogin
  <1>21. CASE BeginLogout(c)
    BY <1>0, <1>21, LogoutMoves DEF BeginLogout, Begin, NoAccountOperation
  <1>22. CASE SettleRefresh(c)
    BY <1>0, <1>22, GotoMoves, GotoWithMoves, ReturnMoves, EntryMoves DEF SettleRefresh
  <1>23. CASE RemoteLogout(c)
    BY <1>0, <1>23, GotoMoves, GotoWithMoves, ReturnMoves, EntryMoves DEF RemoteLogout
  <1>24. CASE Delete(c)
    BY <1>0, <1>24, GotoMoves, GotoWithMoves, ReturnMoves, EntryMoves DEF Delete
  <1>25. CASE EndLogout(c)
    BY <1>0, <1>25, ReturnMoves DEF EndLogout
  <1>26. CASE BeginOpenID(c)
    BY <1>0, <1>26, GotoMoves, GotoWithMoves, ReturnMoves, EntryMoves DEF BeginOpenID,
       Begin
  <1>27. CASE Exchange(c)
    BY <1>0, <1>27, GotoMoves, GotoWithMoves, ReturnMoves, EntryMoves DEF Exchange, At
  <1>28. CASE EndOpenID(c)
    BY <1>0, <1>28, GotoMoves, GotoWithMoves, ReturnMoves, EntryMoves DEF EndOpenID
  <1>29. CASE BeginAccessToken(c)
    BY <1>0, <1>29, EntryMoves DEF BeginAccessToken, Begin
  <1> QED
    BY <1>1, <1>2, <1>3, <1>4, <1>5, <1>6, <1>7, <1>8, <1>9, <1>10, <1>11, <1>12,
       <1>13, <1>14, <1>15, <1>16, <1>17, <1>18, <1>19, <1>20, <1>21, <1>22, <1>23,
       <1>24, <1>25, <1>26, <1>27, <1>28, <1>29 DEF BeginCall, Continue, Recover

\* A refresh task that takes a step was running; the others do not move.
LEMMA TaskSteps ==
    ASSUME TypeInv, NEW i \in 1..Len(attempts), RefreshTask(i)
    PROVE  /\ Running(i) /\ Len(attempts') = Len(attempts)
           /\ \A j \in 1..Len(attempts) : j # i => attempts'[j] = attempts[j]
           /\ UNCHANGED <<lifecycle, refreshAttempt, call>>
  <1> USE DEF RefreshTask, Rotate, SaveRotated, TaskReadNative, TaskSignIn,
     TaskSaveSignIn
  <1>1. Running(i) /\ UNCHANGED <<lifecycle, refreshAttempt, call>>
    BY DEF Running, TaskUnchanged
  <1> QED
    BY <1>1, TaskEntries

\* The safety invariant holds of a coordinator that was just created.
LEMMA SafeInit == Init => SafeInv
  <1> SUFFICES ASSUME Init PROVE SafeInv
    OBVIOUS
  <1>1. Len(attempts) = 0
    BY EmptySeq DEF Init
  <1> QED
    BY <1>1, TypeInit
       DEF Init, SafeInv, Stages, ExclusiveOperations, Exclusive, Flight, SingleFlight,
           NoOrphanRefresh, LogoutSettlesRefresh, SettlesCurrent, LogoutOps, Ended

\* The safety invariant is inductive.
LEMMA SafeNext == SafeInv /\ [Next]_vars => SafeInv'
  <1> SUFFICES ASSUME SafeInv, [Next]_vars PROVE SafeInv'
    OBVIOUS
  <1>1. CASE UNCHANGED vars
    BY <1>1 DEF vars, SafeInv, TypeInv, TypeOK, FlagsOK, CallsIndexed, Stages,
           ExclusiveOperations, Exclusive, Flight, SingleFlight, Running, NoOrphanRefresh,
           LogoutSettlesRefresh, SettlesCurrent
  <1>2. ASSUME NEW c \in Callers, BeginCall(c) \/ Continue(c) PROVE SafeInv'
    BY <1>2, CallType, CallStages, CallExclusive, CallFlight DEF SafeInv
  <1>3. ASSUME NEW i \in 1..Len(attempts), RefreshTask(i) PROVE SafeInv'
    <2>1. TypeInv'
      BY <1>3, TaskType DEF SafeInv
    <2>2. /\ Running(i) /\ Len(attempts') = Len(attempts)
          /\ \A j \in 1..Len(attempts) : j # i => attempts'[j] = attempts[j]
          /\ UNCHANGED <<lifecycle, refreshAttempt, call>>
      BY <1>3, TaskSteps DEF SafeInv
    <2>3. Stages' /\ ExclusiveOperations'
      BY <2>2 DEF SafeInv, Stages, ExclusiveOperations, Exclusive, lifecycle
    <2>4. SingleFlight' /\ NoOrphanRefresh' /\ SettlesCurrent'
      BY <2>2 DEF SafeInv, Flight, SingleFlight, Running, NoOrphanRefresh,
         SettlesCurrent
    \* No logout is past its settling while a task still runs.
    <2>5. LogoutSettlesRefresh'
      BY <2>2 DEF SafeInv, Flight, LogoutSettlesRefresh
    <2> QED
      BY <2>1, <2>3, <2>4, <2>5 DEF SafeInv, Flight
  <1> QED
    BY <1>1, <1>2, <1>3 DEF Next, Quiescent

\* login, validateLocalLogin and the logouts of an account exclude each other,
\* and accountsLoggingIn and accountsSigningOut say exactly when one runs.
THEOREM ExclusionHolds == Spec => []ExclusiveOperations
  <1>1. SafeInv => ExclusiveOperations
    BY DEF SafeInv
  <1> QED
    BY <1>1, SafeInit, SafeNext, PTL DEF Spec

\* However many requests are refused at once, one refresh task runs, and it is
\* the one every further 401 joins.
THEOREM SingleFlightHolds == Spec => []SingleFlight
  <1>1. SafeInv => SingleFlight
    BY DEF SafeInv, Flight
  <1> QED
    BY <1>1, SafeInit, SafeNext, PTL DEF Spec

\* A registered refresh attempt always has a waiter that will take it off.
THEOREM NoOrphanHolds == Spec => []NoOrphanRefresh
  <1>1. SafeInv => NoOrphanRefresh
    BY DEF SafeInv, Flight
  <1> QED
    BY <1>1, SafeInit, SafeNext, PTL DEF Spec

\* From the moment a logout has settled the refresh it found until it returns,
\* no refresh task runs: none can save after the credentials are deleted.
THEOREM LogoutSettlesHolds == Spec => []LogoutSettlesRefresh
  <1>1. SafeInv => LogoutSettlesRefresh
    BY DEF SafeInv, Flight
  <1> QED
    BY <1>1, SafeInit, SafeNext, PTL DEF Spec
====
