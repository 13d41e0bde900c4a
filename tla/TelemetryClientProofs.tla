----------------------- MODULE TelemetryClientProofs -----------------------
(***************************************************************************)
(* What is proved of TelemetryClient for every number of callers, of       *)
(* refreshes alive at once, of keys and of withdrawals of consent.         *)
(***************************************************************************)
EXTENDS TelemetryClient, TLAPS

----
(* The inductive invariant.                                                *)

\* The refresh the provider names was started since consent was last given, and
\* nobody cancelled it.
Named ==
    /\ WaitersServed /\ SingleFlight /\ NoTokenAcrossWithdrawal
    /\ current # NoSlot => /\ enabled
                           /\ refresh[current].era = era
                           /\ ~refresh[current].cancelled

\* A refresh between generating its key and the service's enrolment of it.
Unenrolled(r) == refresh[r].pc \in {"pend", "challenge", "enroll"}

\* Such a refresh has a key of its own, which the service has not seen; one that
\* was answered has a key the service knows.
Keyed ==
    /\ \A k \in 1 .. MaxKeys : k > keys => enrolled[k] = 0
    /\ \A r \in Slots : Unenrolled(r) => /\ refresh[r].key \in 1 .. keys
                                         /\ enrolled[refresh[r].key] = 0
    /\ \A r, s \in Slots : Unenrolled(r) /\ Unenrolled(s) /\ r # s
                              => refresh[r].key # refresh[s].key
    /\ \A r \in Slots : refresh[r].pc = "install" => /\ refresh[r].key \in 1 .. MaxKeys
                                                     /\ enrolled[refresh[r].key] > 0
    /\ store.installed => store.key \in 1 .. MaxKeys /\ enrolled[store.key] > 0
    /\ KeysEnrolOnce

IInv == TypeOK /\ Named /\ Keyed

----
(* Records of refreshes. *)

\* The bounds leave room for nothing.
LEMMA Zero == 0 \in 0 .. MaxKeys /\ 0 \in 0 .. MaxEras
  BY BoundsAssumption

\* A slot without a refresh.
LEMMA NoneIsRecord == NotRunning \in RefreshRecord
  BY Zero DEF NotRunning, RefreshRecord, NoKey

\* What the provers are to know of a state's records and numbers.
LEMMA Ranged ==
    ASSUME IInv
    PROVE  /\ era \in Nat /\ keys \in Nat /\ token \in Nat /\ 0 \in 0 .. era
           /\ \A s \in Slots : refresh[s] \in RefreshRecord /\ refresh[s].era \in Nat
<1>1. era \in Nat /\ keys \in Nat /\ 0 \in 0 .. era
  BY BoundsAssumption DEF IInv, TypeOK
<1>2. token \in Nat
  BY <1>1 DEF IInv, TypeOK
<1>3. \A s \in Slots : refresh[s] \in RefreshRecord
  BY DEF IInv, TypeOK
<1>4. QED
  BY <1>1, <1>2, <1>3, BoundsAssumption DEF RefreshRecord

\* A refresh that goes on in any way is one of the slots', as long as its era is.
LEMMA Retyped ==
    ASSUME IInv, NEW r \in Slots, NEW new \in RefreshRecord, Becomes(r, new),
           new.pc # "none", new.era = refresh[r].era, UNCHANGED Shared
    PROVE  /\ refresh' \in [Slots -> RefreshRecord]
           /\ current' # NoSlot => Running(current)'
           /\ \A s \in Slots : refresh'[s].era <= era'
<1>1. refresh' = [refresh EXCEPT ![r] = new] /\ refresh \in [Slots -> RefreshRecord]
  BY DEF Becomes, IInv, TypeOK
<1>2. refresh' \in [Slots -> RefreshRecord]
  BY <1>1
<1>3. current' # NoSlot => Running(current)'
  BY <1>1, SlotsAssumption DEF Running, Shared, IInv, TypeOK
<1>4. \A s \in Slots : refresh'[s].era <= era'
  BY <1>1 DEF Shared, IInv, TypeOK
<1>5. QED
  BY <1>2, <1>3, <1>4

\* cancel() only marks the current refresh; every other one was marked before.
LEMMA CancelledIs ==
    ASSUME IInv
    PROVE  /\ Cancelled \in [Slots -> RefreshRecord]
           /\ \A s \in Slots : /\ Cancelled[s].pc = refresh[s].pc
                               /\ Cancelled[s].key = refresh[s].key
                               /\ Cancelled[s].era = refresh[s].era
                               /\ Running(s) => Cancelled[s].cancelled
<1>1. CASE current = NoSlot
  BY <1>1, SlotsAssumption DEF IInv, TypeOK, Named, SingleFlight, Cancelled
<1>2. CASE current # NoSlot
  <2>1. current \in Slots /\ refresh[current] \in RefreshRecord
    BY <1>2 DEF IInv, TypeOK
  <2> DEFINE new == [refresh[current] EXCEPT !.cancelled = TRUE]
  <2>2. /\ new \in RefreshRecord /\ new.pc = refresh[current].pc
        /\ new.key = refresh[current].key /\ new.era = refresh[current].era /\ new.cancelled
    BY <2>1 DEF RefreshRecord
  <2>3. Cancelled = [refresh EXCEPT ![current] = new]
    BY <1>2 DEF Cancelled
  <2> HIDE DEF new
  <2>4. QED
    BY <2>1, <2>2, <2>3 DEF IInv, TypeOK, Named, SingleFlight
<1>3. QED
  BY <1>1, <1>2

\* Ends: a refresh that has its result is the refresh it was.
LEMMA EndsKeeps ==
    ASSUME IInv, NEW r \in Slots,
           NEW result \in {"token", "unavailable", "unsupported", "rejected", "cancelled"},
           Running(r), Ends(r, result), UNCHANGED <<Shared, store, keys, enrolled>>
    PROVE  IInv'
<1> DEFINE new == [refresh[r] EXCEPT !.pc = "done", !.result = result]
<1>1. /\ new \in RefreshRecord /\ new.pc = "done" /\ new.era = refresh[r].era
      /\ new.cancelled = refresh[r].cancelled
  <2>1. refresh[r] \in RefreshRecord
    BY Ranged
  <2>2. QED
    BY <2>1 DEF RefreshRecord
<1>2. Becomes(r, new) /\ UNCHANGED Shared
  BY DEF Ends
<1> HIDE DEF new
<1>3. TypeOK'
  <2>1. /\ refresh' \in [Slots -> RefreshRecord]
        /\ current' # NoSlot => Running(current)'
        /\ \A s \in Slots : refresh'[s].era <= era'
    BY <1>1, <1>2, Retyped
  <2>2. QED
    BY <2>1 DEF IInv, TypeOK, Shared, answered
<1>4. Named'
  <2>1. \A s \in Slots : /\ refresh'[s].era = refresh[s].era
                         /\ refresh'[s].cancelled = refresh[s].cancelled
    BY <1>1, <1>2 DEF IInv, TypeOK, Becomes
  <2>2. \A s \in Slots : Running(s)' => s = r \/ Running(s)
    BY <1>1, <1>2 DEF IInv, TypeOK, Becomes, Running
  <2>3. r = current \/ refresh[r].cancelled \/ ~Running(r)
    BY DEF IInv, Named, SingleFlight
  <2>4. QED
    BY <2>1, <2>2, <2>3
       DEF IInv, TypeOK, Named, WaitersServed, SingleFlight, NoTokenAcrossWithdrawal, Waiters,
           Shared, answered
<1>5. Keyed'
  <2>1. \A s \in Slots : s # r => refresh'[s] = refresh[s]
    BY <1>2 DEF IInv, TypeOK, Becomes
  <2>2. refresh'[r].pc = "done"
    BY <1>1, <1>2 DEF IInv, TypeOK, Becomes
  <2>3. QED
    BY <2>1, <2>2 DEF IInv, Keyed, KeysEnrolOnce, Unenrolled, Shared
<1>6. QED
  BY <1>3, <1>4, <1>5 DEF IInv

----
(* Initially. *)

\* Init: nothing runs, nobody waits and no key exists.
LEMMA InitHolds == Init => IInv
<1> SUFFICES ASSUME Init PROVE IInv
  OBVIOUS
<1>1. TypeOK
  <2>1. refresh \in [Slots -> RefreshRecord] /\ \A r \in Slots : refresh[r].era <= era
    BY NoneIsRecord DEF Init, NotRunning
  <2>2. store \in [key : 0 .. MaxKeys, installed : BOOLEAN]
    BY Zero DEF Init, NoEnrolment, NoKey
  <2>3. enrolled \in [1 .. MaxKeys -> Nat]
    BY DEF Init
  <2>4. caller \in [Callers -> {"idle", "waiting", "leaving"}]
    BY DEF Init
  <2>5. era \in 0 .. MaxEras /\ keys \in 0 .. MaxKeys /\ token \in 0 .. era
    BY Zero DEF Init
  <2>6. QED
    BY <2>1, <2>2, <2>3, <2>4, <2>5 DEF Init, TypeOK
<1>2. Named
  BY
     DEF Init, Named, WaitersServed, SingleFlight, NoTokenAcrossWithdrawal, Waiters, Running,
         NotRunning
<1>3. Keyed
  BY DEF Init, Keyed, KeysEnrolOnce, Unenrolled, NotRunning, NoEnrolment
<1>4. QED
  BY <1>1, <1>2, <1>3 DEF IInv

----
(* The provider. *)

\* Consent is given.
LEMMA EnableKeeps ==
    ASSUME IInv, Enable
    PROVE  IInv'
<1>1. TypeOK'
  <2>1. era' \in 0 .. MaxEras /\ token' \in 0 .. era'
    BY Ranged, BoundsAssumption DEF Enable, answered, IInv, TypeOK
  <2>2. \A s \in Slots : refresh'[s].era <= era'
    BY Ranged DEF Enable, IInv, TypeOK
  <2>3. QED
    BY <2>1, <2>2 DEF Enable, answered, Running, IInv, TypeOK
<1>2. Named'
  BY SlotsAssumption, BoundsAssumption
     DEF IInv, TypeOK, Enable, answered, Named, WaitersServed, SingleFlight,
         NoTokenAcrossWithdrawal, Waiters, Running
<1>3. Keyed'
  BY SlotsAssumption, BoundsAssumption
     DEF IInv, TypeOK, Enable, answered, Keyed, KeysEnrolOnce, Unenrolled
<1>4. QED
  BY <1>1, <1>2, <1>3 DEF IInv

\* Consent is withdrawn: the refresh is cancelled and every caller told.
LEMMA DisableKeeps ==
    ASSUME IInv, Disable
    PROVE  IInv'
<1>1. TypeOK'
  <2>1. refresh' \in [Slots -> RefreshRecord] /\ \A s \in Slots : refresh'[s].era <= era'
    BY CancelledIs DEF Disable, IInv, TypeOK
  <2>2. caller' \in [Callers -> {"idle", "waiting", "leaving"}] /\ token' \in 0 .. era'
    BY Ranged DEF Disable, Resumed
  <2>3. QED
    BY <2>1, <2>2 DEF Disable, IInv, TypeOK
<1>2. Named'
  BY SlotsAssumption, BoundsAssumption
     DEF IInv, TypeOK, Disable, Cancelled, Resumed, answered, Named, WaitersServed,
         SingleFlight, NoTokenAcrossWithdrawal, Waiters, Running
<1>3. Keyed'
  BY SlotsAssumption, BoundsAssumption
     DEF IInv, TypeOK, Disable, Cancelled, Resumed, answered, Keyed, KeysEnrolOnce, Unenrolled
<1>4. QED
  BY <1>1, <1>2, <1>3 DEF IInv

\* A caller joins the refresh, or starts one.
LEMMA CallKeeps ==
    ASSUME IInv, NEW c \in Callers, Call(c)
    PROVE  IInv'
<1>1. CASE current # NoSlot
  <2>1. UNCHANGED <<current, refresh>>
    BY <1>1 DEF Call
  <2>2. TypeOK'
    BY <2>1 DEF Call, IInv, TypeOK, answered, Running
  <2>3. Named'
    BY <1>1, <2>1
       DEF Call, IInv, answered, Named, WaitersServed, SingleFlight, NoTokenAcrossWithdrawal,
           Running
  <2>4. Keyed'
    BY <2>1 DEF Call, IInv, Keyed, KeysEnrolOnce, Unenrolled
  <2>5. QED
    BY <2>2, <2>3, <2>4 DEF IInv
<1>2. CASE current = NoSlot
  <2> DEFINE new == [NotRunning EXCEPT !.pc = "load", !.era = era]
  <2>1. PICK r \in Slots : /\ ~Running(r) /\ current' = r
                           /\ refresh' = [refresh EXCEPT ![r] = new]
    BY <1>2 DEF Call
  <2>2. /\ new \in RefreshRecord /\ new.pc = "load" /\ new.era = era /\ ~new.cancelled
    BY Zero DEF NotRunning, NoKey, RefreshRecord, IInv, TypeOK
  <2> HIDE DEF new
  <2>3. TypeOK'
    <3>1. refresh' \in [Slots -> RefreshRecord] /\ \A s \in Slots : refresh'[s].era <= era'
      BY <2>1, <2>2, BoundsAssumption DEF Call, IInv, TypeOK
    <3>2. current' \in Slots /\ Running(current)'
      BY <2>1, <2>2 DEF IInv, TypeOK, Running
    <3>3. QED
      BY <3>1, <3>2 DEF Call, IInv, TypeOK, answered
  <2>4. Named'
    BY <1>2, <2>1, <2>2, SlotsAssumption
       DEF Call, IInv, TypeOK, answered, Named, WaitersServed, SingleFlight,
           NoTokenAcrossWithdrawal, Running
  <2>5. Keyed'
    BY <2>1, <2>2 DEF Call, IInv, TypeOK, Keyed, KeysEnrolOnce, Unenrolled
  <2>6. QED
    BY <2>3, <2>4, <2>5 DEF IInv
<1>3. QED
  BY <1>1, <1>2

\* A caller is cancelled.
LEMMA LeaveKeeps ==
    ASSUME IInv, NEW c \in Callers, Leave(c)
    PROVE  IInv'
<1>1. TypeOK'
  BY SlotsAssumption, BoundsAssumption DEF IInv, TypeOK, Leave, answered, Running
<1>2. Named'
  BY SlotsAssumption, BoundsAssumption
     DEF IInv, TypeOK, Leave, answered, Named, WaitersServed, SingleFlight,
         NoTokenAcrossWithdrawal, Waiters, Running
<1>3. Keyed'
  BY SlotsAssumption, BoundsAssumption
     DEF IInv, TypeOK, Leave, answered, Keyed, KeysEnrolOnce, Unenrolled
<1>4. QED
  BY <1>1, <1>2, <1>3 DEF IInv

\* The cancellation arrives; the last caller takes the refresh along.
LEMMA LeaveArrivesKeeps ==
    ASSUME IInv, NEW c \in Callers, LeaveArrives(c)
    PROVE  IInv'
<1>1. CASE LastWaiter(c)
  <2>1. refresh' = Cancelled /\ current' = NoSlot
    BY <1>1 DEF LeaveArrives
  <2>2. TypeOK'
    BY <2>1, CancelledIs DEF LeaveArrives, IInv, TypeOK, answered
  <2>3. Waiters' = {}
    BY <1>1 DEF LeaveArrives, LastWaiter, Waiters, IInv, TypeOK
  <2>4. Named'
    BY <2>1, <2>3, CancelledIs
       DEF LeaveArrives, IInv, TypeOK, answered, Named, WaitersServed, SingleFlight,
           NoTokenAcrossWithdrawal, Running
  <2>5. Keyed'
    BY <2>1, CancelledIs DEF LeaveArrives, IInv, Keyed, KeysEnrolOnce, Unenrolled
  <2>6. QED
    BY <2>2, <2>4, <2>5 DEF IInv
<1>2. CASE ~LastWaiter(c)
  <2>1. UNCHANGED <<refresh, current>>
    BY <1>2 DEF LeaveArrives
  <2>2. TypeOK'
    BY <2>1 DEF LeaveArrives, IInv, TypeOK, answered, Running
  <2>3. Waiters' # {} => Waiters # {}
    BY DEF LeaveArrives, Waiters, IInv, TypeOK
  <2>4. Named'
    BY <2>1, <2>3
       DEF LeaveArrives, IInv, answered, Named, WaitersServed, SingleFlight,
           NoTokenAcrossWithdrawal, Running
  <2>5. Keyed'
    BY <2>1 DEF LeaveArrives, IInv, Keyed, KeysEnrolOnce, Unenrolled
  <2>6. QED
    BY <2>2, <2>4, <2>5 DEF IInv
<1>3. QED
  BY <1>1, <1>2

\* The token is rejected.
LEMMA InvalidateKeeps ==
    ASSUME IInv, Invalidate
    PROVE  IInv'
<1>1. TypeOK'
  <2>1. token' \in 0 .. era'
    BY Ranged DEF Invalidate
  <2>2. QED
    BY <2>1 DEF Invalidate, Running, IInv, TypeOK
<1>2. Named'
  BY SlotsAssumption, BoundsAssumption
     DEF IInv, TypeOK, Invalidate, answered, Named, WaitersServed, SingleFlight,
         NoTokenAcrossWithdrawal, Waiters, Running
<1>3. Keyed'
  BY SlotsAssumption, BoundsAssumption
     DEF IInv, TypeOK, Invalidate, answered, Keyed, KeysEnrolOnce, Unenrolled
<1>4. QED
  BY <1>1, <1>2, <1>3 DEF IInv

\* A refresh ends; only the current one counts.
LEMMA CompleteKeeps ==
    ASSUME IInv, NEW r \in Slots, Complete(r)
    PROVE  IInv'
<1>1. TypeOK'
  <2>1. refresh' = [refresh EXCEPT ![r] = NotRunning]
    BY DEF Complete
  <2>2. refresh' \in [Slots -> RefreshRecord] /\ \A s \in Slots : refresh'[s].era <= era'
    BY <2>1, NoneIsRecord DEF Complete, NotRunning, IInv, TypeOK
  <2>3. current' # NoSlot => current' \in Slots /\ Running(current)'
    BY <2>1 DEF Complete, Counts, Running, IInv, TypeOK
  <2>4. caller' \in [Callers -> {"idle", "waiting", "leaving"}]
    BY DEF Complete, Resumed, IInv, TypeOK
  <2>5. /\ token' \in 0 .. era /\ expiring' \in BOOLEAN /\ backoff' \in BOOLEAN /\ terminal' \in BOOLEAN
    <3>1. refresh[r].era \in 0 .. era
      BY BoundsAssumption DEF IInv, TypeOK, RefreshRecord
    <3>2. QED
      BY <3>1 DEF Complete, answered, IInv, TypeOK
  <2>6. QED
    BY <2>2, <2>3, <2>4, <2>5 DEF Complete, IInv, TypeOK
<1>2. Named'
  BY SlotsAssumption, BoundsAssumption
     DEF IInv, TypeOK, Complete, Counts, Resumed, NotRunning, In, answered, Named,
         WaitersServed, SingleFlight, NoTokenAcrossWithdrawal, Waiters, Running
<1>3. Keyed'
  BY SlotsAssumption, BoundsAssumption
     DEF IInv, TypeOK, Complete, Counts, Resumed, NotRunning, In, answered, Keyed,
         KeysEnrolOnce, Unenrolled
<1>4. QED
  BY <1>1, <1>2, <1>3 DEF IInv

\* The token gets old.
LEMMA ExpireKeeps ==
    ASSUME IInv, Expire
    PROVE  IInv'
<1>1. TypeOK'
  BY SlotsAssumption, BoundsAssumption DEF IInv, TypeOK, Expire, answered, Running
<1>2. Named'
  BY SlotsAssumption, BoundsAssumption
     DEF IInv, TypeOK, Expire, answered, Named, WaitersServed, SingleFlight,
         NoTokenAcrossWithdrawal, Waiters, Running
<1>3. Keyed'
  BY SlotsAssumption, BoundsAssumption
     DEF IInv, TypeOK, Expire, answered, Keyed, KeysEnrolOnce, Unenrolled
<1>4. QED
  BY <1>1, <1>2, <1>3 DEF IInv

\* A retry is due.
LEMMA RetryDueKeeps ==
    ASSUME IInv, RetryDue
    PROVE  IInv'
<1>1. TypeOK'
  BY SlotsAssumption, BoundsAssumption DEF IInv, TypeOK, RetryDue, answered, Running
<1>2. Named'
  BY SlotsAssumption, BoundsAssumption
     DEF IInv, TypeOK, RetryDue, answered, Named, WaitersServed, SingleFlight,
         NoTokenAcrossWithdrawal, Waiters, Running
<1>3. Keyed'
  BY SlotsAssumption, BoundsAssumption
     DEF IInv, TypeOK, RetryDue, answered, Keyed, KeysEnrolOnce, Unenrolled
<1>4. QED
  BY <1>1, <1>2, <1>3 DEF IInv

\* The process is started again.
LEMMA RestartKeeps ==
    ASSUME IInv, Restart
    PROVE  IInv'
<1>1. TypeOK'
  <2>1. refresh' \in [Slots -> RefreshRecord] /\ \A s \in Slots : refresh'[s].era <= era'
    BY NoneIsRecord, Ranged DEF Restart, NotRunning
  <2>2. caller' \in [Callers -> {"idle", "waiting", "leaving"}]
    BY DEF Restart, Resumed
  <2>3. era' \in 0 .. MaxEras /\ token' \in 0 .. era'
    BY Ranged, BoundsAssumption DEF Restart, IInv, TypeOK
  <2>4. QED
    BY <2>1, <2>2, <2>3 DEF Restart, IInv, TypeOK
<1>2. Named'
  BY SlotsAssumption, BoundsAssumption
     DEF IInv, TypeOK, Restart, Resumed, NotRunning, answered, Named, WaitersServed,
         SingleFlight, NoTokenAcrossWithdrawal, Waiters, Running
<1>3. Keyed'
  BY SlotsAssumption, BoundsAssumption
     DEF IInv, TypeOK, Restart, Resumed, NotRunning, answered, Keyed, KeysEnrolOnce, Unenrolled
<1>4. QED
  BY <1>1, <1>2, <1>3 DEF IInv

----
(* A refresh. *)

\* A refresh reads the keychain.
LEMMA LoadKeeps ==
    ASSUME IInv, NEW r \in Slots, Load(r)
    PROVE  IInv'
<1>1. TypeOK'
  <2> DEFINE new == AfterLoading(r)
  <2>1. new \in RefreshRecord /\ new.pc # "none" /\ new.era = refresh[r].era
    BY DEF Load, IInv, TypeOK, RefreshRecord, AfterLoading, In
  <2>2. Becomes(r, new) /\ UNCHANGED Shared
    BY DEF Load
  <2> HIDE DEF new
  <2>3. refresh' \in [Slots -> RefreshRecord] /\ (current' # NoSlot => Running(current)')
           /\ \A s \in Slots : refresh'[s].era <= era'
    BY <2>1, <2>2, Retyped
  <2>4. QED
    BY <2>3, Zero, BoundsAssumption DEF Load, IInv, TypeOK, Shared, answered
<1>2. Named'
  BY SlotsAssumption, BoundsAssumption
     DEF IInv, TypeOK, Load, AfterLoading, In, Becomes, NoKey, Shared, answered, Named,
         WaitersServed, SingleFlight, NoTokenAcrossWithdrawal, Waiters, Running
<1>3. Keyed'
  BY SlotsAssumption, BoundsAssumption
     DEF IInv, TypeOK, Load, AfterLoading, In, Becomes, NoKey, Shared, answered, Keyed,
         KeysEnrolOnce, Unenrolled
<1>4. QED
  BY <1>1, <1>2, <1>3 DEF IInv

\* A refresh deletes the enrolment.
LEMMA DeleteKeeps ==
    ASSUME IInv, NEW r \in Slots, Delete(r)
    PROVE  IInv'
<1>1. TypeOK'
  <2> DEFINE new == [refresh[r] EXCEPT !.pc = "generate"]
  <2>1. new \in RefreshRecord /\ new.pc # "none" /\ new.era = refresh[r].era
    BY DEF Delete, IInv, TypeOK, RefreshRecord
  <2>2. Becomes(r, new) /\ UNCHANGED Shared
    BY DEF Delete, Goes
  <2> HIDE DEF new
  <2>3. refresh' \in [Slots -> RefreshRecord] /\ (current' # NoSlot => Running(current)')
           /\ \A s \in Slots : refresh'[s].era <= era'
    BY <2>1, <2>2, Retyped
  <2>4. QED
    BY <2>3, Zero, BoundsAssumption
       DEF Delete, IInv, TypeOK, Shared, answered, NoEnrolment, NoKey
<1>2. Named'
  BY SlotsAssumption, BoundsAssumption
     DEF IInv, TypeOK, Delete, In, Goes, Becomes, Shared, NoEnrolment, NoKey, answered, Named,
         WaitersServed, SingleFlight, NoTokenAcrossWithdrawal, Waiters, Running
<1>3. Keyed'
  BY SlotsAssumption, BoundsAssumption
     DEF IInv, TypeOK, Delete, In, Goes, Becomes, Shared, NoEnrolment, NoKey, answered, Keyed,
         KeysEnrolOnce, Unenrolled
<1>4. QED
  BY <1>1, <1>2, <1>3 DEF IInv

\* A refresh generates a key no other refresh has.
LEMMA GenerateKeeps ==
    ASSUME IInv, NEW r \in Slots, Generate(r)
    PROVE  IInv'
<1>1. TypeOK'
  <2> DEFINE new == [refresh[r] EXCEPT !.pc = "pend", !.key = keys + 1]
  <2>0. refresh[r] \in RefreshRecord
    BY Ranged
  <2>1. new \in RefreshRecord /\ new.pc # "none" /\ new.era = refresh[r].era
    <3>1. keys + 1 \in 0 .. MaxKeys
      BY Ranged, BoundsAssumption DEF Generate
    <3>2. QED
      BY <2>0, <3>1 DEF RefreshRecord
  <2>2. Becomes(r, new) /\ UNCHANGED Shared
    BY DEF Generate
  <2> HIDE DEF new
  <2>3. /\ refresh' \in [Slots -> RefreshRecord]
        /\ current' # NoSlot => Running(current)'
        /\ \A s \in Slots : refresh'[s].era <= era'
    BY <2>1, <2>2, Retyped
  <2>4. keys' \in 0 .. MaxKeys
    BY Ranged, BoundsAssumption DEF Generate, IInv, TypeOK
  <2>5. QED
    BY <2>3, <2>4 DEF Generate, IInv, TypeOK, Shared, answered
<1>2. Named'
  BY SlotsAssumption, BoundsAssumption
     DEF IInv, TypeOK, Generate, In, Becomes, Shared, answered, Named, WaitersServed,
         SingleFlight, NoTokenAcrossWithdrawal, Waiters, Running
<1>3. Keyed'
  BY SlotsAssumption, BoundsAssumption
     DEF IInv, TypeOK, Generate, In, Becomes, Shared, answered, Keyed, KeysEnrolOnce, Unenrolled
<1>4. QED
  BY <1>1, <1>2, <1>3 DEF IInv

\* A refresh saves its key.
LEMMA SavePendingKeeps ==
    ASSUME IInv, NEW r \in Slots, SavePending(r)
    PROVE  IInv'
<1>1. TypeOK'
  <2> DEFINE new == [refresh[r] EXCEPT !.pc = "challenge"]
  <2>0. refresh[r] \in RefreshRecord
    BY Ranged
  <2>1. new \in RefreshRecord /\ new.pc # "none" /\ new.era = refresh[r].era
    BY <2>0 DEF SavePending, RefreshRecord
  <2>2. Becomes(r, new) /\ UNCHANGED Shared
    BY DEF SavePending, Goes
  <2> HIDE DEF new
  <2>3. /\ refresh' \in [Slots -> RefreshRecord]
        /\ current' # NoSlot => Running(current)'
        /\ \A s \in Slots : refresh'[s].era <= era'
    BY <2>1, <2>2, Retyped
  <2>4. store' \in [key : 0 .. MaxKeys, installed : BOOLEAN]
    BY <2>0 DEF SavePending, Pending, RefreshRecord
  <2>5. QED
    BY <2>3, <2>4 DEF SavePending, IInv, TypeOK, Shared, answered
<1>2. Named'
  BY SlotsAssumption, BoundsAssumption
     DEF IInv, TypeOK, SavePending, In, Goes, Becomes, Shared, Pending, answered, Named,
         WaitersServed, SingleFlight, NoTokenAcrossWithdrawal, Waiters, Running
<1>3. Keyed'
  BY SlotsAssumption, BoundsAssumption
     DEF IInv, TypeOK, SavePending, In, Goes, Becomes, Shared, Pending, answered, Keyed,
         KeysEnrolOnce, Unenrolled
<1>4. QED
  BY <1>1, <1>2, <1>3 DEF IInv

\* A refresh has its attestation.
LEMMA ChallengeKeeps ==
    ASSUME IInv, NEW r \in Slots, Challenge(r)
    PROVE  IInv'
<1>1. TypeOK'
  <2> DEFINE new == [refresh[r] EXCEPT !.pc = "enroll"]
  <2>0. refresh[r] \in RefreshRecord
    BY Ranged
  <2>1. new \in RefreshRecord /\ new.pc # "none" /\ new.era = refresh[r].era
    BY <2>0 DEF Challenge, RefreshRecord
  <2>2. Becomes(r, new) /\ UNCHANGED Shared
    BY DEF Challenge, Goes
  <2> HIDE DEF new
  <2>3. /\ refresh' \in [Slots -> RefreshRecord]
        /\ current' # NoSlot => Running(current)'
        /\ \A s \in Slots : refresh'[s].era <= era'
    BY <2>1, <2>2, Retyped
  <2>4. QED
    BY <2>3, Ranged, Zero DEF Challenge, IInv, TypeOK, Shared, answered
<1>2. Named'
  BY SlotsAssumption, BoundsAssumption
     DEF IInv, TypeOK, Challenge, In, Goes, Becomes, Shared, answered, Named, WaitersServed,
         SingleFlight, NoTokenAcrossWithdrawal, Waiters, Running
<1>3. Keyed'
  BY SlotsAssumption, BoundsAssumption
     DEF IInv, TypeOK, Challenge, In, Goes, Becomes, Shared, answered, Keyed, KeysEnrolOnce,
         Unenrolled
<1>4. QED
  BY <1>1, <1>2, <1>3 DEF IInv

\* The service enrols a key.
LEMMA EnrollReachesKeeps ==
    ASSUME IInv, NEW r \in Slots, EnrollReaches(r)
    PROVE  IInv'
<1>1. TypeOK'
  <2> DEFINE new == [refresh[r] EXCEPT !.pc = "install"]
  <2>0. refresh[r] \in RefreshRecord
    BY Ranged
  <2>1. new \in RefreshRecord /\ new.pc # "none" /\ new.era = refresh[r].era
    BY <2>0 DEF EnrollReaches, RefreshRecord
  <2>2. Becomes(r, new) /\ UNCHANGED Shared
    BY DEF EnrollReaches, Goes
  <2> HIDE DEF new
  <2>3. /\ refresh' \in [Slots -> RefreshRecord]
        /\ current' # NoSlot => Running(current)'
        /\ \A s \in Slots : refresh'[s].era <= era'
    BY <2>1, <2>2, Retyped
  <2>4. enrolled' \in [1 .. MaxKeys -> Nat]
    <3>1. refresh[r].key \in 1 .. MaxKeys
      BY Ranged, BoundsAssumption DEF EnrollReaches, In, IInv, TypeOK, Keyed, Unenrolled
    <3>2. enrolled \in [1 .. MaxKeys -> Nat]
      BY DEF IInv, TypeOK
    <3>3. enrolled[refresh[r].key] + 1 \in Nat
      BY <3>1, <3>2
    <3>4. QED
      BY <3>1, <3>2, <3>3 DEF EnrollReaches
  <2>5. QED
    BY <2>3, <2>4 DEF EnrollReaches, IInv, TypeOK, Shared, answered
<1>2. Named'
  BY SlotsAssumption, BoundsAssumption
     DEF IInv, TypeOK, EnrollReaches, In, Goes, Becomes, Shared, answered, Named,
         WaitersServed, SingleFlight, NoTokenAcrossWithdrawal, Waiters, Running
<1>3. Keyed'
  BY SlotsAssumption, BoundsAssumption
     DEF IInv, TypeOK, EnrollReaches, In, Goes, Becomes, Shared, answered, Keyed,
         KeysEnrolOnce, Unenrolled
<1>4. QED
  BY <1>1, <1>2, <1>3 DEF IInv

\* A refresh saves its installation.
LEMMA SaveInstalledKeeps ==
    ASSUME IInv, NEW r \in Slots, SaveInstalled(r)
    PROVE  IInv'
<1>1. TypeOK'
  <2> DEFINE new == [refresh[r] EXCEPT !.pc = "issue"]
  <2>0. refresh[r] \in RefreshRecord
    BY Ranged
  <2>1. new \in RefreshRecord /\ new.pc # "none" /\ new.era = refresh[r].era
    BY <2>0 DEF SaveInstalled, RefreshRecord
  <2>2. Becomes(r, new) /\ UNCHANGED Shared
    BY DEF SaveInstalled, Goes
  <2> HIDE DEF new
  <2>3. /\ refresh' \in [Slots -> RefreshRecord]
        /\ current' # NoSlot => Running(current)'
        /\ \A s \in Slots : refresh'[s].era <= era'
    BY <2>1, <2>2, Retyped
  <2>4. store' \in [key : 0 .. MaxKeys, installed : BOOLEAN]
    BY <2>0 DEF SaveInstalled, RefreshRecord
  <2>5. QED
    BY <2>3, <2>4 DEF SaveInstalled, IInv, TypeOK, Shared, answered
<1>2. Named'
  BY SlotsAssumption, BoundsAssumption
     DEF IInv, TypeOK, SaveInstalled, In, Goes, Becomes, Shared, answered, Named,
         WaitersServed, SingleFlight, NoTokenAcrossWithdrawal, Waiters, Running
<1>3. Keyed'
  BY SlotsAssumption, BoundsAssumption
     DEF IInv, TypeOK, SaveInstalled, In, Goes, Becomes, Shared, answered, Keyed,
         KeysEnrolOnce, Unenrolled
<1>4. QED
  BY <1>1, <1>2, <1>3 DEF IInv

\* A refresh gets its token.
LEMMA IssueKeeps ==
    ASSUME IInv, NEW r \in Slots, Issue(r)
    PROVE  IInv'
BY EndsKeeps DEF Issue, In, Running

\* A refresh learns that its key is gone.
LEMMA KeyInvalidatedKeeps ==
    ASSUME IInv, NEW r \in Slots, KeyInvalidated(r)
    PROVE  IInv'
<1>1. CASE refresh[r].replaced
  BY <1>1, EndsKeeps DEF KeyInvalidated, In, Running
<1>2. CASE ~refresh[r].replaced
  <2> DEFINE new == [refresh[r] EXCEPT !.pc = "delete", !.replaced = TRUE]
  <2>1. /\ new \in RefreshRecord /\ new.pc = "delete" /\ new.era = refresh[r].era
        /\ new.cancelled = refresh[r].cancelled
    <3>1. refresh[r] \in RefreshRecord
      BY Ranged
    <3>2. QED
      BY <3>1 DEF RefreshRecord
  <2>2. Becomes(r, new) /\ UNCHANGED Shared
    BY <1>2 DEF KeyInvalidated
  <2> HIDE DEF new
  <2>3. TypeOK'
    <3>1. /\ refresh' \in [Slots -> RefreshRecord]
          /\ current' # NoSlot => Running(current)'
          /\ \A s \in Slots : refresh'[s].era <= era'
      BY <2>1, <2>2, Retyped
    <3>2. QED
      BY <3>1 DEF KeyInvalidated, IInv, TypeOK, Shared, answered
  <2>4. Named'
    BY <2>1, <2>2
       DEF KeyInvalidated, In, Becomes, IInv, TypeOK, Shared, answered, Named, WaitersServed,
           SingleFlight, NoTokenAcrossWithdrawal, Waiters, Running
  <2>5. Keyed'
    BY <2>1, <2>2 DEF KeyInvalidated, Becomes, IInv, TypeOK, Keyed, KeysEnrolOnce, Unenrolled
  <2>6. QED
    BY <2>3, <2>4, <2>5 DEF IInv
<1>3. QED
  BY <1>1, <1>2

\* An await of a refresh fails.
LEMMA FailsKeeps ==
    ASSUME IInv, NEW r \in Slots, Fails(r)
    PROVE  IInv'
<1>1. PICK result \in {"token", "unavailable", "unsupported", "rejected", "cancelled"} : Ends(r, result)
  BY DEF Fails
<1>2. QED
  BY <1>1, EndsKeeps DEF Fails

\* Every step keeps the invariant.
LEMMA NextKeeps == IInv /\ [Next]_vars => IInv'
<1> SUFFICES ASSUME IInv, [Next]_vars PROVE IInv'
  OBVIOUS
<1>1. CASE Enable \/ Disable \/ Restart \/ Invalidate \/ Expire \/ RetryDue
  BY <1>1, EnableKeeps, DisableKeeps, RestartKeeps, InvalidateKeeps, ExpireKeeps, RetryDueKeeps
<1>2. CASE \E c \in Callers : Call(c) \/ Leave(c) \/ LeaveArrives(c)
  BY <1>2, CallKeeps, LeaveKeeps, LeaveArrivesKeeps
<1>3. CASE \E r \in Slots : Step(r)
  BY <1>3, LoadKeeps, DeleteKeeps, GenerateKeeps, SavePendingKeeps, ChallengeKeeps,
      EnrollReachesKeeps, SaveInstalledKeeps, IssueKeeps, KeyInvalidatedKeeps, FailsKeeps,
          CompleteKeeps DEF Step
<1>4. CASE UNCHANGED vars
  BY <1>4
     DEF vars, answered, IInv, TypeOK, Running, Named, WaitersServed, SingleFlight,
         NoTokenAcrossWithdrawal, Waiters, Keyed, KeysEnrolOnce, Unenrolled
<1>5. QED
  BY <1>1, <1>2, <1>3, <1>4 DEF Next

----
(* The theorems. *)

\* The invariant the others follow from.
THEOREM Invariant == Spec => []IInv
<1>1. Init => IInv
  BY InitHolds
<1>2. QED
  BY <1>1, NextKeeps, PTL DEF Spec

\* Every variable has its type, and a refresh that is named runs.
THEOREM TypeCorrect == Spec => []TypeOK
<1>1. IInv => TypeOK
  BY DEF IInv
<1>2. QED
  BY <1>1, Invariant, PTL

\* No token outlives the withdrawal of consent, however late a cancelled refresh succeeds.
THEOREM Withdrawn == Spec => []NoTokenAcrossWithdrawal
<1>1. IInv => NoTokenAcrossWithdrawal
  BY DEF IInv, Named
<1>2. QED
  BY <1>1, Invariant, PTL

\* Whoever waits, waits for a refresh that will tell him.
THEOREM Served == Spec => []WaitersServed
<1>1. IInv => WaitersServed
  BY DEF IInv, Named
<1>2. QED
  BY <1>1, Invariant, PTL

\* Every refresh but the current one was cancelled.
THEOREM OneRefresh == Spec => []SingleFlight
<1>1. IInv => SingleFlight
  BY DEF IInv, Named
<1>2. QED
  BY <1>1, Invariant, PTL

\* The keychain names only installations the service knows.
THEOREM Installed == Spec => []StoredIsEnrolled
<1>1. IInv => StoredIsEnrolled
  BY DEF IInv, Keyed, StoredIsEnrolled, NoKey
<1>2. QED
  BY <1>1, Invariant, PTL

\* No key is enrolled twice, whatever refreshes write the keychain in turns.
THEOREM OneEnrolment == Spec => []KeysEnrolOnce
<1>1. IInv => KeysEnrolOnce
  BY DEF IInv, Keyed
<1>2. QED
  BY <1>1, Invariant, PTL
=============================================================================
