------------------------ MODULE ListeningSyncProofs ------------------------
(***************************************************************************)
(* What is proved of ListeningSync for every set of sessions, every bound  *)
(* and every interleaving: the accounting and the outbox whatever fails,   *)
(* and the ledger of both paths when no request is superseded by a login.  *)
(***************************************************************************)
EXTENDS ListeningSync, TLAPS

----
(* The inductive invariant.                                                *)

\* What stops is a session; a sync has one exactly while it runs; a pass works on its batch.
Shape ==
    /\ stage = "stopping" => player # NoSession
    /\ sync.pc = "idle" <=> sync.session = NoSession
    /\ pass.todo \subseteq pass.batch
    /\ pass.acked \subseteq pass.batch

\* The numbers of every session agree; an upload never holds more than was measured.
Agreed ==
    /\ AccountedWithinMeasured
    /\ ConfirmedIsStored
    /\ \A s \in Local : remote[s] <= slices[s]

\* What a pass has measured for s may be uploaded.
Good(s) ==
    /\ Reported(s) + pass.delta[s] <= pass.total[s]
    /\ remote[s] <= pass.total[s] /\ pass.total[s] <= slices[s]

\* The delta of s may be confirmed: the server holds it.
Due(s, delta) ==
    /\ confirmed[s] + delta <= remote[s]
    /\ Reported(s) + delta <= slices[s]

\* What the pass and the sync in flight carry is true when it is used.
Measured ==
    /\ pass.pc = "measure" => \A s \in pass.batch \ pass.todo : Good(s)
    /\ pass.pc = "send" => \A s \in pass.batch : Good(s)
    /\ pass.pc = "answer" => \A s \in pass.acked : Due(s, pass.delta[s])
    /\ pass.pc = "confirm" => \A s \in pass.todo : Due(s, pass.delta[s])
    /\ sync.pc = "send" => Reported(sync.session) + sync.delta <= slices[sync.session]
    /\ sync.pc = "answer" => Due(sync.session, sync.delta)

\* A record the pass may drop is the one the server holds.
Outboxed ==
    /\ NothingLost
    /\ pass.pc \in {"answer", "confirm"} => unsent \cap (pass.acked \ pass.changed) = {}

IInv == TypeOK /\ Shape /\ Agreed /\ Measured /\ Outboxed

\* The streamed sessions, as long as the sync in flight is known to be ambiguous.
Streamed ==
    /\ UncertainBoundsRemote
    /\ \A s \in Online : remote[s] <= slices[s] /\ (s \notin used => remote[s] = 0)
    /\ player # NoSession => player \in used
    /\ sync.session # NoSession => sync.session \in used
    /\ sync.pc \in {"measure", "send"} => remote[sync.session] <= Reported(sync.session)
    /\ sync.pc = "answer" => remote[sync.session] <= Reported(sync.session) + sync.delta

----
(* Initially. *)

\* Init: nothing was heard, saved or sent.
LEMMA InitHolds == Init => IInv /\ Streamed
<1> SUFFICES ASSUME Init PROVE IInv /\ Streamed
  OBVIOUS
<1>1. TypeOK
  <2>1. Zero \in [Session -> Nat]
    BY DEF Zero
  <2>2. NoPass \in [pc : {"idle", "read", "measure", "send", "answer", "confirm"},
                 todo : SUBSET Local, batch : SUBSET Local, changed : SUBSET Local,
                 total : [Local -> Nat], delta : [Local -> Nat], acked : SUBSET Local]
    BY DEF NoPass
  <2>3. NoSync \in [pc : {"idle", "measure", "send", "answer"},
                   session : Online \cup {NoSession}, delta : Nat]
    BY DEF NoSync
  <2>4. 0 \in 0 .. MaxFaults
    BY BoundsNatural
  <2>5. used \subseteq Session /\ outbox \subseteq Local /\ unsent \subseteq Local
    BY DEF Init
  <2>6. pass = NoPass /\ sync = NoSync /\ faults = 0 /\ player = NoSession
    BY DEF Init
  <2>7. stage \in {"open", "stopping"} /\ wanted \in BOOLEAN
    BY DEF Init
  <2>8. fresh = Zero /\ slices = Zero /\ confirmed = Zero /\ uncertain = Zero /\ remote = Zero
    BY DEF Init
  <2>9. QED
    BY <2>1, <2>2, <2>3, <2>4, <2>5, <2>6, <2>7, <2>8 DEF TypeOK
<1>2. Shape /\ Outboxed
  BY DEF Init, Shape, Outboxed, NothingLost, NoPass, NoSync
<1>3. Agreed /\ Streamed
  BY SessionsDisjoint
     DEF Init, Agreed, AccountedWithinMeasured, ConfirmedIsStored, Streamed,
         UncertainBoundsRemote, Zero, NoSync, Session, Reported
<1>4. Measured
  BY DEF Init, Measured, NoPass, NoSync
<1>5. QED
  BY <1>1, <1>2, <1>3, <1>4 DEF IInv

\* Finishing a session keeps the types and only adds to its slices.
LEMMA FinishTypes ==
    ASSUME TypeOK, NEW s \in Session, Finish(s)
    PROVE  /\ slices' \in [Session -> Nat] /\ fresh' \in [Session -> Nat]
           /\ \A t \in Session : slices[t] <= slices'[t]
  BY DEF TypeOK, Finish

----
(* The steps of the player. *)

\* A local session begins or resumes, and its record is saved.
LEMMA BeginLocalKeeps ==
    ASSUME IInv, NEW s \in Local, BeginLocal(s)
    PROVE  IInv'
<1>1. TypeOK'
  BY SessionsDisjoint DEF IInv, TypeOK, Session, playing, books, BeginLocal, Saved
<1>2. Shape'
  BY <1>1, SessionsDisjoint DEF IInv, TypeOK, Session, playing, books, BeginLocal, Saved, Shape
<1>3. Agreed'
  BY <1>1, SessionsDisjoint
     DEF IInv, TypeOK, Session, playing, books, BeginLocal, Saved, Shape, Agreed,
         AccountedWithinMeasured, ConfirmedIsStored, Measured, Good, Due, Reported
<1>4. Measured'
  BY <1>1, SessionsDisjoint
     DEF IInv, TypeOK, Session, playing, books, BeginLocal, Saved, Shape, Agreed,
         AccountedWithinMeasured, ConfirmedIsStored, Measured, Good, Due, Reported
<1>5. Outboxed'
  BY <1>1, SessionsDisjoint
     DEF IInv, TypeOK, Session, playing, books, BeginLocal, Saved, Shape, Outboxed, NothingLost
<1>6. QED
  BY <1>1, <1>2, <1>3, <1>4, <1>5 DEF IInv

\* A streamed session opens: the server has nothing of it.
LEMMA BeginOnlineKeeps ==
    ASSUME IInv, NEW s \in Online, BeginOnline(s)
    PROVE  IInv'
<1>1. TypeOK'
  BY SessionsDisjoint DEF IInv, TypeOK, Session, playing, books, BeginOnline
<1>2. Shape'
  BY <1>1, SessionsDisjoint DEF IInv, TypeOK, Session, playing, books, BeginOnline, Shape
<1>3. Agreed'
  BY <1>1, SessionsDisjoint
     DEF IInv, TypeOK, Session, playing, books, BeginOnline, Shape, Agreed,
         AccountedWithinMeasured, ConfirmedIsStored, Measured, Good, Due, Reported
<1>4. Measured'
  BY <1>1, SessionsDisjoint
     DEF IInv, TypeOK, Session, playing, books, BeginOnline, Shape, Agreed,
         AccountedWithinMeasured, ConfirmedIsStored, Measured, Good, Due, Reported
<1>5. Outboxed'
  BY <1>1, SessionsDisjoint
     DEF IInv, TypeOK, Session, playing, books, BeginOnline, Shape, Outboxed, NothingLost
<1>6. QED
  BY <1>1, <1>2, <1>3, <1>4, <1>5 DEF IInv

\* A second is heard.
LEMMA HearKeeps ==
    ASSUME IInv, Hear
    PROVE  IInv'
<1>1. TypeOK'
  BY SessionsDisjoint DEF IInv, TypeOK, Session, playing, books, Hear
<1>2. Shape'
  BY <1>1, SessionsDisjoint DEF IInv, TypeOK, Session, playing, books, Hear, Shape
<1>3. Agreed'
  BY <1>1, SessionsDisjoint
     DEF IInv, TypeOK, Session, playing, books, Hear, Shape, Agreed, AccountedWithinMeasured,
         ConfirmedIsStored, Measured, Good, Due, Reported
<1>4. Measured'
  BY <1>1, SessionsDisjoint
     DEF IInv, TypeOK, Session, playing, books, Hear, Shape, Agreed, AccountedWithinMeasured,
         ConfirmedIsStored, Measured, Good, Due, Reported
<1>5. Outboxed'
  BY <1>1, SessionsDisjoint
     DEF IInv, TypeOK, Session, playing, books, Hear, Shape, Outboxed, NothingLost
<1>6. QED
  BY <1>1, <1>2, <1>3, <1>4, <1>5 DEF IInv

\* The running slice is saved.
LEMMA CheckpointKeeps ==
    ASSUME IInv, Checkpoint
    PROVE  IInv'
<1>1. TypeOK'
  BY SessionsDisjoint DEF IInv, TypeOK, Session, playing, books, Checkpoint, Finish
<1>2. Shape'
  BY <1>1, SessionsDisjoint DEF IInv, TypeOK, Session, playing, books, Checkpoint, Finish, Shape
<1>3. Agreed'
  BY <1>1, SessionsDisjoint
     DEF IInv, TypeOK, Session, playing, books, Checkpoint, Finish, Shape, Agreed,
         AccountedWithinMeasured, ConfirmedIsStored, Measured, Good, Due, Reported
<1>4. Measured'
  BY <1>1, SessionsDisjoint
     DEF IInv, TypeOK, Session, playing, books, Checkpoint, Finish, Shape, Agreed,
         AccountedWithinMeasured, ConfirmedIsStored, Measured, Good, Due, Reported
<1>5. Outboxed'
  BY <1>1, SessionsDisjoint
     DEF IInv, TypeOK, Session, playing, books, Checkpoint, Finish, Shape, Outboxed, NothingLost
<1>6. QED
  BY <1>1, <1>2, <1>3, <1>4, <1>5 DEF IInv

\* A position is saved, perhaps during a pass.
LEMMA PersistKeeps ==
    ASSUME IInv, Persist
    PROVE  IInv'
<1>1. TypeOK'
  BY SessionsDisjoint DEF IInv, TypeOK, Session, playing, books, Persist, Saved
<1>2. Shape'
  BY <1>1, SessionsDisjoint DEF IInv, TypeOK, Session, playing, books, Persist, Saved, Shape
<1>3. Agreed'
  BY <1>1, SessionsDisjoint
     DEF IInv, TypeOK, Session, playing, books, Persist, Saved, Shape, Agreed,
         AccountedWithinMeasured, ConfirmedIsStored, Measured, Good, Due, Reported
<1>4. Measured'
  BY <1>1, SessionsDisjoint
     DEF IInv, TypeOK, Session, playing, books, Persist, Saved, Shape, Agreed,
         AccountedWithinMeasured, ConfirmedIsStored, Measured, Good, Due, Reported
<1>5. Outboxed'
  BY <1>1, SessionsDisjoint
     DEF IInv, TypeOK, Session, playing, books, Persist, Saved, Shape, Outboxed, NothingLost
<1>6. QED
  BY <1>1, <1>2, <1>3, <1>4, <1>5 DEF IInv

\* The player stops, and saves.
LEMMA StopKeeps ==
    ASSUME IInv, Stop
    PROVE  IInv'
<1>1. TypeOK'
  BY SessionsDisjoint DEF IInv, TypeOK, Session, playing, books, Stop, Saved
<1>2. Shape'
  BY <1>1, SessionsDisjoint DEF IInv, TypeOK, Session, playing, books, Stop, Saved, Shape
<1>3. Agreed'
  BY <1>1, SessionsDisjoint
     DEF IInv, TypeOK, Session, playing, books, Stop, Saved, Shape, Agreed,
         AccountedWithinMeasured, ConfirmedIsStored, Measured, Good, Due, Reported
<1>4. Measured'
  BY <1>1, SessionsDisjoint
     DEF IInv, TypeOK, Session, playing, books, Stop, Saved, Shape, Agreed,
         AccountedWithinMeasured, ConfirmedIsStored, Measured, Good, Due, Reported
<1>5. Outboxed'
  BY <1>1, SessionsDisjoint
     DEF IInv, TypeOK, Session, playing, books, Stop, Saved, Shape, Outboxed, NothingLost
<1>6. QED
  BY <1>1, <1>2, <1>3, <1>4, <1>5 DEF IInv

\* The player finishes its session and lets it go.
LEMMA LeaveKeeps ==
    ASSUME IInv, Leave
    PROVE  IInv'
<1>1. TypeOK'
  <2>1. player \in Session
    BY DEF IInv, TypeOK, Shape, Leave
  <2>2. QED
    BY <2>1, FinishTypes DEF IInv, TypeOK, Leave, books
<1>2. Shape'
  BY <1>1, SessionsDisjoint DEF IInv, TypeOK, Session, playing, books, Leave, Finish, Shape
<1>3. Agreed'
  BY <1>1, SessionsDisjoint
     DEF IInv, TypeOK, Session, playing, books, Leave, Finish, Shape, Agreed,
         AccountedWithinMeasured, ConfirmedIsStored, Measured, Good, Due, Reported
<1>4. Measured'
  BY <1>1, SessionsDisjoint
     DEF IInv, TypeOK, Session, playing, books, Leave, Finish, Shape, Agreed,
         AccountedWithinMeasured, ConfirmedIsStored, Measured, Good, Due, Reported
<1>5. Outboxed'
  BY <1>1, SessionsDisjoint
     DEF IInv, TypeOK, Session, playing, books, Leave, Finish, Shape, Outboxed, NothingLost
<1>6. QED
  BY <1>1, <1>2, <1>3, <1>4, <1>5 DEF IInv

----
(* The steps of the upload. *)

\* A pass is asked for.
LEMMA ScheduleKeeps ==
    ASSUME IInv, Schedule
    PROVE  IInv'
<1>1. TypeOK'
  BY SessionsDisjoint DEF IInv, TypeOK, Session, playing, books, Schedule
<1>2. Shape'
  BY <1>1, SessionsDisjoint DEF IInv, TypeOK, Session, playing, books, Schedule, Shape
<1>3. Agreed'
  BY <1>1, SessionsDisjoint
     DEF IInv, TypeOK, Session, playing, books, Schedule, Shape, Agreed,
         AccountedWithinMeasured, ConfirmedIsStored, Measured, Good, Due, Reported
<1>4. Measured'
  BY <1>1, SessionsDisjoint
     DEF IInv, TypeOK, Session, playing, books, Schedule, Shape, Agreed,
         AccountedWithinMeasured, ConfirmedIsStored, Measured, Good, Due, Reported
<1>5. Outboxed'
  BY <1>1, SessionsDisjoint
     DEF IInv, TypeOK, Session, playing, books, Schedule, Shape, Outboxed, NothingLost
<1>6. QED
  BY <1>1, <1>2, <1>3, <1>4, <1>5 DEF IInv

\* A pass starts.
LEMMA PassStartsKeeps ==
    ASSUME IInv, PassStarts
    PROVE  IInv'
<1>1. TypeOK'
  <2>1. slices' \in [Session -> Nat] /\ fresh' \in [Session -> Nat]
    BY FinishTypes DEF IInv, TypeOK, PassStarts, Session
  <2>2. pass' \in [pc : {"idle", "read", "measure", "send", "answer", "confirm"},
                 todo : SUBSET Local, batch : SUBSET Local, changed : SUBSET Local,
                 total : [Local -> Nat], delta : [Local -> Nat], acked : SUBSET Local]
    BY DEF PassStarts, NoPass
  <2>3. QED
    BY <2>1, <2>2 DEF IInv, TypeOK, PassStarts, books
<1>2. Shape'
  BY <1>1, SessionsDisjoint
     DEF IInv, TypeOK, Session, playing, books, PassStarts, Finish, NoPass, Shape
<1>3. Agreed'
  <2>1. \A s \in Session : slices[s] <= slices'[s]
    BY FinishTypes DEF IInv, TypeOK, PassStarts, Session
  <2>2. QED
    BY <1>1, <2>1
       DEF IInv, TypeOK, Session, books, PassStarts, Agreed, AccountedWithinMeasured,
           ConfirmedIsStored, Reported
<1>4. Measured'
  <2>1. \A s \in Session : slices[s] <= slices'[s]
    BY FinishTypes DEF IInv, TypeOK, PassStarts, Session
  <2>2. pass'.pc = "read"
    BY DEF PassStarts, NoPass
  <2>3. sync.pc # "idle" => sync.session \in Session
    BY DEF IInv, TypeOK, Shape, Session
  <2>4. QED
    BY <1>1, <2>1, <2>2, <2>3 DEF IInv, TypeOK, books, PassStarts, Measured, Due, Reported
<1>5. Outboxed'
  BY <1>1, SessionsDisjoint
     DEF IInv, TypeOK, Session, playing, books, PassStarts, Finish, NoPass, Shape, Outboxed,
         NothingLost
<1>6. QED
  BY <1>1, <1>2, <1>3, <1>4, <1>5 DEF IInv

\* A pass reads the outbox.
LEMMA PassReadsKeeps ==
    ASSUME IInv, PassReads
    PROVE  IInv'
<1>1. TypeOK'
  BY SessionsDisjoint DEF IInv, TypeOK, Session, playing, books, PassReads, NoPass
<1>2. Shape'
  BY <1>1, SessionsDisjoint DEF IInv, TypeOK, Session, playing, books, PassReads, NoPass, Shape
<1>3. Agreed'
  BY <1>1, SessionsDisjoint
     DEF IInv, TypeOK, Session, playing, books, PassReads, NoPass, Shape, Agreed,
         AccountedWithinMeasured, ConfirmedIsStored, Measured, Good, Due, Reported
<1>4. Measured'
  BY <1>1, SessionsDisjoint
     DEF IInv, TypeOK, Session, playing, books, PassReads, NoPass, Shape, Agreed,
         AccountedWithinMeasured, ConfirmedIsStored, Measured, Good, Due, Reported
<1>5. Outboxed'
  BY <1>1, SessionsDisjoint
     DEF IInv, TypeOK, Session, playing, books, PassReads, NoPass, Shape, Outboxed, NothingLost
<1>6. QED
  BY <1>1, <1>2, <1>3, <1>4, <1>5 DEF IInv

\* A pass measures one session: the numbers are taken together.
LEMMA PassMeasuresKeeps ==
    ASSUME IInv, NEW s \in Local, PassMeasures(s)
    PROVE  IInv'
<1>1. TypeOK'
  <2>1. Total(s) \in Nat /\ Pending(s) \in Nat
    BY DEF IInv, TypeOK, Total, Pending, Reported, Session
  <2>2. pass'.total \in [Local -> Nat] /\ pass'.delta \in [Local -> Nat]
    BY <2>1 DEF IInv, TypeOK, PassMeasures
  <2>3. QED
    BY <2>2 DEF IInv, TypeOK, PassMeasures, playing, books
<1>2. Shape'
  BY <1>1, SessionsDisjoint
     DEF IInv, TypeOK, Session, playing, books, PassMeasures, Total, Pending, Shape
<1>3. Agreed'
  BY <1>1, SessionsDisjoint
     DEF IInv, TypeOK, Session, playing, books, PassMeasures, Total, Pending, Shape, Agreed,
         AccountedWithinMeasured, ConfirmedIsStored, Measured, Good, Due, Reported
<1>4. Measured'
  <2>1. /\ Reported(s) + Pending(s) <= Total(s)
        /\ remote[s] <= Total(s) /\ Total(s) <= slices[s]
    BY DEF IInv, TypeOK, Session, Agreed, AccountedWithinMeasured, Total, Pending, Reported
  <2>2. pass'.total[s] = Total(s) /\ pass'.delta[s] = Pending(s)
    BY DEF IInv, TypeOK, PassMeasures
  <2>3. Good(s)'
    BY <2>1, <2>2 DEF PassMeasures, Good, Reported, books
  <2>4. \A t \in pass.batch \ pass.todo : t # s => Good(t)'
    BY DEF IInv, TypeOK, Measured, PassMeasures, Good, Reported, books
  <2>5. pass'.batch \ pass'.todo \subseteq (pass.batch \ pass.todo) \cup {s}
    BY DEF IInv, TypeOK, PassMeasures
  <2>6. pass'.pc = "send" => pass.todo = {s}
    BY DEF IInv, TypeOK, PassMeasures
  <2>7. pass'.pc \in {"measure", "send"} /\ pass'.batch = pass.batch
    BY DEF IInv, TypeOK, PassMeasures
  <2>8. QED
    BY <2>3, <2>4, <2>5, <2>6, <2>7 DEF IInv, Measured, PassMeasures, Due, Reported, books
<1>5. Outboxed'
  BY <1>1, SessionsDisjoint
     DEF IInv, TypeOK, Session, playing, books, PassMeasures, Total, Pending, Shape, Outboxed,
         NothingLost
<1>6. QED
  BY <1>1, <1>2, <1>3, <1>4, <1>5 DEF IInv

\* The server stores what it accepts of the batch.
LEMMA PassUploadsKeeps ==
    ASSUME IInv, NEW stored \in SUBSET Local, PassUploads(stored)
    PROVE  IInv'
<1>1. TypeOK'
  BY SessionsDisjoint DEF IInv, TypeOK, Session, playing, books, PassUploads, Replaced, NoPass
<1>2. Shape'
  BY <1>1, SessionsDisjoint
     DEF IInv, TypeOK, Session, playing, books, PassUploads, Replaced, NoPass, Shape
<1>3. Agreed'
  BY <1>1, SessionsDisjoint
     DEF IInv, TypeOK, Session, playing, books, PassUploads, Replaced, NoPass, Shape, Agreed,
         AccountedWithinMeasured, ConfirmedIsStored, Measured, Good, Due, Reported
<1>4. Measured'
  BY <1>1, SessionsDisjoint
     DEF IInv, TypeOK, Session, playing, books, PassUploads, Replaced, NoPass, Shape, Agreed,
         AccountedWithinMeasured, ConfirmedIsStored, Measured, Good, Due, Reported
<1>5. Outboxed'
  BY <1>1, SessionsDisjoint
     DEF IInv, TypeOK, Session, playing, books, PassUploads, Replaced, NoPass, Shape,
         Outboxed, NothingLost
<1>6. QED
  BY <1>1, <1>2, <1>3, <1>4, <1>5 DEF IInv

\* The answer arrives.
LEMMA PassAnsweredKeeps ==
    ASSUME IInv, PassAnswered
    PROVE  IInv'
<1>1. TypeOK'
  BY SessionsDisjoint DEF IInv, TypeOK, Session, playing, books, PassAnswered
<1>2. Shape'
  BY <1>1, SessionsDisjoint DEF IInv, TypeOK, Session, playing, books, PassAnswered, Shape
<1>3. Agreed'
  BY <1>1, SessionsDisjoint
     DEF IInv, TypeOK, Session, playing, books, PassAnswered, Shape, Agreed,
         AccountedWithinMeasured, ConfirmedIsStored, Measured, Good, Due, Reported
<1>4. Measured'
  BY <1>1, SessionsDisjoint
     DEF IInv, TypeOK, Session, playing, books, PassAnswered, Shape, Agreed,
         AccountedWithinMeasured, ConfirmedIsStored, Measured, Good, Due, Reported
<1>5. Outboxed'
  BY <1>1, SessionsDisjoint
     DEF IInv, TypeOK, Session, playing, books, PassAnswered, Shape, Outboxed, NothingLost
<1>6. QED
  BY <1>1, <1>2, <1>3, <1>4, <1>5 DEF IInv

\* One delta is confirmed.
LEMMA PassConfirmsKeeps ==
    ASSUME IInv, NEW s \in Local, PassConfirms(s)
    PROVE  IInv'
<1>1. TypeOK'
  BY SessionsDisjoint DEF IInv, TypeOK, Session, playing, books, PassConfirms, Confirm
<1>2. Shape'
  BY <1>1, SessionsDisjoint
     DEF IInv, TypeOK, Session, playing, books, PassConfirms, Confirm, Shape
<1>3. Agreed'
  BY <1>1, SessionsDisjoint
     DEF IInv, TypeOK, Session, playing, books, PassConfirms, Confirm, Shape, Agreed,
         AccountedWithinMeasured, ConfirmedIsStored, Measured, Good, Due, Reported
<1>4. Measured'
  BY <1>1, SessionsDisjoint
     DEF IInv, TypeOK, Session, playing, books, PassConfirms, Confirm, Shape, Agreed,
         AccountedWithinMeasured, ConfirmedIsStored, Measured, Good, Due, Reported
<1>5. Outboxed'
  BY <1>1, SessionsDisjoint
     DEF IInv, TypeOK, Session, playing, books, PassConfirms, Confirm, Shape, Outboxed,
         NothingLost
<1>6. QED
  BY <1>1, <1>2, <1>3, <1>4, <1>5 DEF IInv

\* The acknowledged records are dropped.
LEMMA PassRemovesKeeps ==
    ASSUME IInv, PassRemoves
    PROVE  IInv'
<1>1. TypeOK'
  BY SessionsDisjoint
     DEF IInv, TypeOK, Session, playing, books, PassRemoves, Acknowledged, NoPass
<1>2. Shape'
  BY <1>1, SessionsDisjoint
     DEF IInv, TypeOK, Session, playing, books, PassRemoves, Acknowledged, NoPass, Shape
<1>3. Agreed'
  BY <1>1, SessionsDisjoint
     DEF IInv, TypeOK, Session, playing, books, PassRemoves, Acknowledged, NoPass, Shape,
         Agreed, AccountedWithinMeasured, ConfirmedIsStored, Measured, Good, Due, Reported
<1>4. Measured'
  BY <1>1, SessionsDisjoint
     DEF IInv, TypeOK, Session, playing, books, PassRemoves, Acknowledged, NoPass, Shape,
         Agreed, AccountedWithinMeasured, ConfirmedIsStored, Measured, Good, Due, Reported
<1>5. Outboxed'
  BY <1>1, SessionsDisjoint
     DEF IInv, TypeOK, Session, playing, books, PassRemoves, Acknowledged, NoPass, Shape,
         Outboxed, NothingLost
<1>6. QED
  BY <1>1, <1>2, <1>3, <1>4, <1>5 DEF IInv

\* A request of a pass fails.
LEMMA PassFailsKeeps ==
    ASSUME IInv, PassFails
    PROVE  IInv'
<1>1. TypeOK'
  BY SessionsDisjoint DEF IInv, TypeOK, Session, playing, books, PassFails, NoPass
<1>2. Shape'
  BY <1>1, SessionsDisjoint DEF IInv, TypeOK, Session, playing, books, PassFails, NoPass, Shape
<1>3. Agreed'
  BY <1>1, SessionsDisjoint
     DEF IInv, TypeOK, Session, playing, books, PassFails, NoPass, Shape, Agreed,
         AccountedWithinMeasured, ConfirmedIsStored, Measured, Good, Due, Reported
<1>4. Measured'
  BY <1>1, SessionsDisjoint
     DEF IInv, TypeOK, Session, playing, books, PassFails, NoPass, Shape, Agreed,
         AccountedWithinMeasured, ConfirmedIsStored, Measured, Good, Due, Reported
<1>5. Outboxed'
  BY <1>1, SessionsDisjoint
     DEF IInv, TypeOK, Session, playing, books, PassFails, NoPass, Shape, Outboxed, NothingLost
<1>6. QED
  BY <1>1, <1>2, <1>3, <1>4, <1>5 DEF IInv

\* The repository fails during a pass.
LEMMA StoreFailsKeeps ==
    ASSUME IInv, StoreFails
    PROVE  IInv'
<1>1. TypeOK'
  BY SessionsDisjoint, BoundsNatural
     DEF IInv, TypeOK, Session, playing, books, StoreFails, NoPass
<1>2. Shape'
  BY <1>1, SessionsDisjoint DEF IInv, TypeOK, Session, playing, books, StoreFails, NoPass, Shape
<1>3. Agreed'
  BY <1>1, SessionsDisjoint
     DEF IInv, TypeOK, Session, playing, books, StoreFails, NoPass, Shape, Agreed,
         AccountedWithinMeasured, ConfirmedIsStored, Measured, Good, Due, Reported
<1>4. Measured'
  BY <1>1, SessionsDisjoint
     DEF IInv, TypeOK, Session, playing, books, StoreFails, NoPass, Shape, Agreed,
         AccountedWithinMeasured, ConfirmedIsStored, Measured, Good, Due, Reported
<1>5. Outboxed'
  BY <1>1, SessionsDisjoint
     DEF IInv, TypeOK, Session, playing, books, StoreFails, NoPass, Shape, Outboxed, NothingLost
<1>6. QED
  BY <1>1, <1>2, <1>3, <1>4, <1>5 DEF IInv

----
(* The steps of the sync. *)

\* A sync starts.
LEMMA SyncStartsKeeps ==
    ASSUME IInv, SyncStarts
    PROVE  IInv'
<1>1. TypeOK'
  <2>1. slices' \in [Session -> Nat] /\ fresh' \in [Session -> Nat]
    BY FinishTypes DEF IInv, TypeOK, SyncStarts, Session
  <2>2. sync' \in [pc : {"idle", "measure", "send", "answer"},
                 session : Online \cup {NoSession}, delta : Nat]
    BY DEF SyncStarts, NoSync
  <2>3. QED
    BY <2>1, <2>2 DEF IInv, TypeOK, SyncStarts, books
<1>2. Shape'
  BY <1>1, SessionsDisjoint
     DEF IInv, TypeOK, Session, playing, books, SyncStarts, Finish, NoSync, Shape
<1>3. Agreed'
  BY <1>1, SessionsDisjoint
     DEF IInv, TypeOK, Session, playing, books, SyncStarts, Finish, NoSync, Shape, Agreed,
         AccountedWithinMeasured, ConfirmedIsStored, Measured, Good, Due, Reported
<1>4. Measured'
  BY <1>1, SessionsDisjoint
     DEF IInv, TypeOK, Session, playing, books, SyncStarts, Finish, NoSync, Shape, Agreed,
         AccountedWithinMeasured, ConfirmedIsStored, Measured, Good, Due, Reported
<1>5. Outboxed'
  BY <1>1, SessionsDisjoint
     DEF IInv, TypeOK, Session, playing, books, SyncStarts, Finish, NoSync, Shape, Outboxed,
         NothingLost
<1>6. QED
  BY <1>1, <1>2, <1>3, <1>4, <1>5 DEF IInv

\* A sync measures its delta.
LEMMA SyncMeasuresKeeps ==
    ASSUME IInv, SyncMeasures
    PROVE  IInv'
<1>1. TypeOK'
  <2>1. sync.session \in Session /\ sync.session \in Online
    BY DEF IInv, TypeOK, Shape, SyncMeasures, Session
  <2>2. Pending(sync.session) \in Nat
    BY <2>1 DEF IInv, TypeOK, Pending, Reported
  <2>3. QED
    BY <2>1, <2>2 DEF IInv, TypeOK, SyncMeasures, playing, books
<1>2. Shape'
  BY <1>1, SessionsDisjoint
     DEF IInv, TypeOK, Session, playing, books, SyncMeasures, Pending, Shape
<1>3. Agreed'
  BY <1>1, SessionsDisjoint
     DEF IInv, TypeOK, Session, playing, books, SyncMeasures, Pending, Shape, Agreed,
         AccountedWithinMeasured, ConfirmedIsStored, Measured, Good, Due, Reported
<1>4. Measured'
  BY <1>1, SessionsDisjoint
     DEF IInv, TypeOK, Session, playing, books, SyncMeasures, Pending, Shape, Agreed,
         AccountedWithinMeasured, ConfirmedIsStored, Measured, Good, Due, Reported
<1>5. Outboxed'
  BY <1>1, SessionsDisjoint
     DEF IInv, TypeOK, Session, playing, books, SyncMeasures, Pending, Shape, Outboxed,
         NothingLost
<1>6. QED
  BY <1>1, <1>2, <1>3, <1>4, <1>5 DEF IInv

\* A sync reaches the server.
LEMMA SyncReachesKeeps ==
    ASSUME IInv, SyncReaches
    PROVE  IInv'
<1>1. TypeOK'
  <2>1. sync.session \in Session
    BY DEF IInv, TypeOK, Shape, SyncReaches, Session
  <2>2. remote' \in [Session -> Nat]
    BY <2>1 DEF IInv, TypeOK, SyncReaches
  <2>3. QED
    BY <2>2 DEF IInv, TypeOK, SyncReaches, playing, books
<1>2. Shape'
  BY <1>1, SessionsDisjoint DEF IInv, TypeOK, Session, playing, books, SyncReaches, Shape
<1>3. Agreed'
  BY <1>1, SessionsDisjoint
     DEF IInv, TypeOK, Session, playing, books, SyncReaches, Shape, Agreed,
         AccountedWithinMeasured, ConfirmedIsStored, Measured, Good, Due, Reported
<1>4. Measured'
  BY <1>1, SessionsDisjoint
     DEF IInv, TypeOK, Session, playing, books, SyncReaches, Shape, Agreed,
         AccountedWithinMeasured, ConfirmedIsStored, Measured, Good, Due, Reported
<1>5. Outboxed'
  BY <1>1, SessionsDisjoint
     DEF IInv, TypeOK, Session, playing, books, SyncReaches, Shape, Outboxed, NothingLost
<1>6. QED
  BY <1>1, <1>2, <1>3, <1>4, <1>5 DEF IInv

\* A sync is answered.
LEMMA SyncAnsweredKeeps ==
    ASSUME IInv, SyncAnswered
    PROVE  IInv'
<1>1. TypeOK'
  BY SessionsDisjoint DEF IInv, TypeOK, Session, playing, books, SyncAnswered, Confirm, NoSync
<1>2. Shape'
  BY <1>1, SessionsDisjoint
     DEF IInv, TypeOK, Session, playing, books, SyncAnswered, Confirm, NoSync, Shape
<1>3. Agreed'
  BY <1>1, SessionsDisjoint
     DEF IInv, TypeOK, Session, playing, books, SyncAnswered, Confirm, NoSync, Shape, Agreed,
         AccountedWithinMeasured, ConfirmedIsStored, Measured, Good, Due, Reported
<1>4. Measured'
  BY <1>1, SessionsDisjoint
     DEF IInv, TypeOK, Session, playing, books, SyncAnswered, Confirm, NoSync, Shape, Agreed,
         AccountedWithinMeasured, ConfirmedIsStored, Measured, Good, Due, Reported
<1>5. Outboxed'
  BY <1>1, SessionsDisjoint
     DEF IInv, TypeOK, Session, playing, books, SyncAnswered, Confirm, NoSync, Shape,
         Outboxed, NothingLost
<1>6. QED
  BY <1>1, <1>2, <1>3, <1>4, <1>5 DEF IInv

\* A sync fails; its delta may be marked uncertain.
LEMMA SyncFailsKeeps ==
    ASSUME IInv, NEW error \in Failures, SyncFails(error)
    PROVE  IInv'
<1>1. TypeOK'
  BY SessionsDisjoint
     DEF IInv, TypeOK, Session, playing, books, SyncFails, MarkUncertain, Ambiguous, NoSync
<1>2. Shape'
  BY <1>1, SessionsDisjoint
     DEF IInv, TypeOK, Session, playing, books, SyncFails, MarkUncertain, Ambiguous, NoSync,
         Shape
<1>3. Agreed'
  BY <1>1, SessionsDisjoint
     DEF IInv, TypeOK, Session, playing, books, SyncFails, MarkUncertain, Ambiguous, NoSync,
         Shape, Agreed, AccountedWithinMeasured, ConfirmedIsStored, Measured, Good, Due,
             Reported
<1>4. Measured'
  BY <1>1, SessionsDisjoint
     DEF IInv, TypeOK, Session, playing, books, SyncFails, MarkUncertain, Ambiguous, NoSync,
         Shape, Agreed, AccountedWithinMeasured, ConfirmedIsStored, Measured, Good, Due,
             Reported
<1>5. Outboxed'
  BY <1>1, SessionsDisjoint
     DEF IInv, TypeOK, Session, playing, books, SyncFails, MarkUncertain, Ambiguous, NoSync,
         Shape, Outboxed, NothingLost
<1>6. QED
  BY <1>1, <1>2, <1>3, <1>4, <1>5 DEF IInv

----
(* The process. *)

\* The process dies.
LEMMA KillKeeps ==
    ASSUME IInv, Kill
    PROVE  IInv'
<1>1. TypeOK'
  BY SessionsDisjoint, BoundsNatural
     DEF IInv, TypeOK, Session, playing, books, Kill, NoPass, NoSync, Zero
<1>2. Shape'
  BY <1>1, SessionsDisjoint
     DEF IInv, TypeOK, Session, playing, books, Kill, NoPass, NoSync, Zero, Shape
<1>3. Agreed'
  BY <1>1, SessionsDisjoint
     DEF IInv, TypeOK, Session, playing, books, Kill, NoPass, NoSync, Zero, Shape, Agreed,
         AccountedWithinMeasured, ConfirmedIsStored, Measured, Good, Due, Reported
<1>4. Measured'
  BY <1>1, SessionsDisjoint
     DEF IInv, TypeOK, Session, playing, books, Kill, NoPass, NoSync, Zero, Shape, Agreed,
         AccountedWithinMeasured, ConfirmedIsStored, Measured, Good, Due, Reported
<1>5. Outboxed'
  BY <1>1, SessionsDisjoint
     DEF IInv, TypeOK, Session, playing, books, Kill, NoPass, NoSync, Zero, Shape, Outboxed,
         NothingLost
<1>6. QED
  BY <1>1, <1>2, <1>3, <1>4, <1>5 DEF IInv

----
(* The theorems of the accounting. *)

\* Every step keeps the invariant.
LEMMA NextKeeps == IInv /\ [Next]_vars => IInv'
<1> SUFFICES ASSUME IInv, [Next]_vars PROVE IInv'
  OBVIOUS
<1>1. CASE Playing
  BY <1>1, BeginLocalKeeps, BeginOnlineKeeps, HearKeeps, CheckpointKeeps, PersistKeeps,
      StopKeeps, LeaveKeeps DEF Playing
<1>2. CASE Uploading
  BY <1>2, ScheduleKeeps, PassStartsKeeps, PassReadsKeeps, PassMeasuresKeeps,
      PassUploadsKeeps, PassAnsweredKeeps, PassConfirmsKeeps, PassRemovesKeeps,
          PassFailsKeeps, StoreFailsKeeps DEF Uploading
<1>3. CASE Syncing
  BY <1>3, SyncStartsKeeps, SyncMeasuresKeeps, SyncReachesKeeps, SyncAnsweredKeeps,
      SyncFailsKeeps DEF Syncing
<1>4. CASE Kill
  BY <1>4, KillKeeps
<1>5. CASE UNCHANGED vars
  BY <1>5
     DEF vars, playing, books, IInv, TypeOK, Shape, Agreed, AccountedWithinMeasured,
         ConfirmedIsStored, Measured, Good, Due, Reported, Outboxed, NothingLost
<1>6. QED
  BY <1>1, <1>2, <1>3, <1>4, <1>5 DEF Next

----
(* The streamed sessions. *)

\* Every step keeps what holds of the streamed sessions, as long as no answer is
\* discarded because of a login.
LEMMA NextStreams ==
    ASSUME "superseded" \notin Failures, IInv, Streamed, [Next]_vars
    PROVE  Streamed'
<1>1. ASSUME NEW s \in Local, BeginLocal(s) PROVE Streamed'
  BY <1>1, SessionsDisjoint
     DEF IInv, TypeOK, Session, playing, books, BeginLocal, Saved, Shape, Agreed,
         AccountedWithinMeasured, ConfirmedIsStored, Measured, Good, Due, Reported, Streamed,
             UncertainBoundsRemote
<1>2. ASSUME NEW s \in Online, BeginOnline(s) PROVE Streamed'
  BY <1>2, SessionsDisjoint
     DEF IInv, TypeOK, Session, playing, books, BeginOnline, Shape, Agreed,
         AccountedWithinMeasured, ConfirmedIsStored, Measured, Good, Due, Reported, Streamed,
             UncertainBoundsRemote
<1>3. CASE Hear
  BY <1>3, SessionsDisjoint
     DEF IInv, TypeOK, Session, playing, books, Hear, Shape, Agreed, AccountedWithinMeasured,
         ConfirmedIsStored, Measured, Good, Due, Reported, Streamed, UncertainBoundsRemote
<1>4. CASE Checkpoint
  BY <1>4, SessionsDisjoint
     DEF IInv, TypeOK, Session, playing, books, Checkpoint, Finish, Shape, Agreed,
         AccountedWithinMeasured, ConfirmedIsStored, Measured, Good, Due, Reported, Streamed,
             UncertainBoundsRemote
<1>5. CASE Persist
  BY <1>5, SessionsDisjoint
     DEF IInv, TypeOK, Session, playing, books, Persist, Saved, Shape, Agreed,
         AccountedWithinMeasured, ConfirmedIsStored, Measured, Good, Due, Reported, Streamed,
             UncertainBoundsRemote
<1>6. CASE Stop
  BY <1>6, SessionsDisjoint
     DEF IInv, TypeOK, Session, playing, books, Stop, Saved, Shape, Agreed,
         AccountedWithinMeasured, ConfirmedIsStored, Measured, Good, Due, Reported, Streamed,
             UncertainBoundsRemote
<1>7. CASE Leave
  BY <1>7, SessionsDisjoint
     DEF IInv, TypeOK, Session, playing, books, Leave, Finish, Shape, Agreed,
         AccountedWithinMeasured, ConfirmedIsStored, Measured, Good, Due, Reported, Streamed,
             UncertainBoundsRemote
<1>8. CASE Schedule
  BY <1>8, SessionsDisjoint
     DEF IInv, TypeOK, Session, playing, books, Schedule, Shape, Agreed,
         AccountedWithinMeasured, ConfirmedIsStored, Measured, Good, Due, Reported, Streamed,
             UncertainBoundsRemote
<1>9. CASE PassStarts
  BY <1>9, SessionsDisjoint
     DEF IInv, TypeOK, Session, playing, books, PassStarts, Finish, NoPass, Shape, Agreed,
         AccountedWithinMeasured, ConfirmedIsStored, Measured, Good, Due, Reported, Streamed,
             UncertainBoundsRemote
<1>10. CASE PassReads
  BY <1>10, SessionsDisjoint
     DEF IInv, TypeOK, Session, playing, books, PassReads, NoPass, Shape, Agreed,
         AccountedWithinMeasured, ConfirmedIsStored, Measured, Good, Due, Reported, Streamed,
             UncertainBoundsRemote
<1>11. ASSUME NEW s \in Local, PassMeasures(s) PROVE Streamed'
  BY <1>11, SessionsDisjoint
     DEF IInv, TypeOK, Session, playing, books, PassMeasures, Total, Pending, Shape, Agreed,
         AccountedWithinMeasured, ConfirmedIsStored, Measured, Good, Due, Reported, Streamed,
             UncertainBoundsRemote
<1>12. ASSUME NEW stored \in SUBSET Local, PassUploads(stored) PROVE Streamed'
  BY <1>12, SessionsDisjoint
     DEF IInv, TypeOK, Session, playing, books, PassUploads, Replaced, NoPass, Shape, Agreed,
         AccountedWithinMeasured, ConfirmedIsStored, Measured, Good, Due, Reported, Streamed,
             UncertainBoundsRemote
<1>13. CASE PassAnswered
  BY <1>13, SessionsDisjoint
     DEF IInv, TypeOK, Session, playing, books, PassAnswered, Shape, Agreed,
         AccountedWithinMeasured, ConfirmedIsStored, Measured, Good, Due, Reported, Streamed,
             UncertainBoundsRemote
<1>14. ASSUME NEW s \in Local, PassConfirms(s) PROVE Streamed'
  BY <1>14, SessionsDisjoint
     DEF IInv, TypeOK, Session, playing, books, PassConfirms, Confirm, Shape, Agreed,
         AccountedWithinMeasured, ConfirmedIsStored, Measured, Good, Due, Reported, Streamed,
             UncertainBoundsRemote
<1>15. CASE PassRemoves
  BY <1>15, SessionsDisjoint
     DEF IInv, TypeOK, Session, playing, books, PassRemoves, Acknowledged, NoPass, Shape,
         Agreed, AccountedWithinMeasured, ConfirmedIsStored, Measured, Good, Due, Reported,
             Streamed, UncertainBoundsRemote
<1>16. CASE PassFails
  BY <1>16, SessionsDisjoint
     DEF IInv, TypeOK, Session, playing, books, PassFails, NoPass, Shape, Agreed,
         AccountedWithinMeasured, ConfirmedIsStored, Measured, Good, Due, Reported, Streamed,
             UncertainBoundsRemote
<1>17. CASE StoreFails
  BY <1>17, SessionsDisjoint
     DEF IInv, TypeOK, Session, playing, books, StoreFails, NoPass, Shape, Agreed,
         AccountedWithinMeasured, ConfirmedIsStored, Measured, Good, Due, Reported, Streamed,
             UncertainBoundsRemote
<1>18. CASE SyncStarts
  BY <1>18, SessionsDisjoint
     DEF IInv, TypeOK, Session, playing, books, SyncStarts, Finish, NoSync, Shape, Agreed,
         AccountedWithinMeasured, ConfirmedIsStored, Measured, Good, Due, Reported, Streamed,
             UncertainBoundsRemote
<1>19. CASE SyncMeasures
  BY <1>19, SessionsDisjoint
     DEF IInv, TypeOK, Session, playing, books, SyncMeasures, Pending, Shape, Agreed,
         AccountedWithinMeasured, ConfirmedIsStored, Measured, Good, Due, Reported, Streamed,
             UncertainBoundsRemote
<1>20. CASE SyncReaches
  BY <1>20, SessionsDisjoint
     DEF IInv, TypeOK, Session, playing, books, SyncReaches, Shape, Agreed,
         AccountedWithinMeasured, ConfirmedIsStored, Measured, Good, Due, Reported, Streamed,
             UncertainBoundsRemote
<1>21. CASE SyncAnswered
  BY <1>21, SessionsDisjoint
     DEF IInv, TypeOK, Session, playing, books, SyncAnswered, Confirm, NoSync, Shape, Agreed,
         AccountedWithinMeasured, ConfirmedIsStored, Measured, Good, Due, Reported, Streamed,
             UncertainBoundsRemote
<1>22. ASSUME NEW error \in Failures, SyncFails(error) PROVE Streamed'
  <2> DEFINE o == sync.session
  <2>1. CASE player = o /\ Ambiguous(error)
    BY <1>22, <2>1, SessionsDisjoint
       DEF IInv, TypeOK, Session, playing, SyncFails, MarkUncertain, NoSync, Shape, Reported,
           Streamed, UncertainBoundsRemote
  <2>2. CASE ~(player = o /\ Ambiguous(error))
    <3>1. /\ UNCHANGED <<player, used, slices, confirmed, uncertain, remote>>
          /\ sync' = NoSync
      BY <1>22, <2>2 DEF SyncFails, playing, books
    <3>2. o \in Online
      BY <1>22 DEF IInv, TypeOK, Shape, SyncFails
    <3>3. player = o => sync.pc = "send"
      BY <1>22, <2>2, FailuresKnown DEF SyncFails, Ambiguous
    <3>4. player = o => remote[o] <= Reported(o)
      BY <3>3 DEF Streamed
    <3>5. UncertainBoundsRemote'
      BY <3>1, <3>4 DEF Streamed, UncertainBoundsRemote, Reported
    <3>6. sync'.pc = "idle" /\ sync'.session = NoSession
      BY <3>1 DEF NoSync
    <3>7. QED
      BY <3>1, <3>5, <3>6 DEF Streamed, Reported
  <2>3. QED
    BY <2>1, <2>2
<1>23. CASE Kill
  BY <1>23, SessionsDisjoint
     DEF IInv, TypeOK, Session, playing, books, Kill, NoPass, NoSync, Zero, Shape, Agreed,
         AccountedWithinMeasured, ConfirmedIsStored, Measured, Good, Due, Reported, Streamed,
             UncertainBoundsRemote
<1>24. CASE UNCHANGED vars
  BY <1>24 DEF vars, playing, books, Streamed, UncertainBoundsRemote, Reported
<1>25. QED
  BY <1>1, <1>2, <1>3, <1>4, <1>5, <1>6, <1>7, <1>8, <1>9, <1>10, <1>11, <1>12, <1>13, <1>14,
      <1>15, <1>16, <1>17, <1>18, <1>19, <1>20, <1>21, <1>22, <1>23, <1>24
         DEF Next, Playing, Uploading, Syncing

----
(* The ledger. *)

\* Committing what an accumulator holds is a step of the ledger, or none.
LEMMA FinishMeasures ==
    ASSUME TypeOK, NEW s \in Session, Finish(s), UNCHANGED remote
    PROVE  [Ledger!Next]_<<slices, remote>>
<1>1. CASE fresh[s] = 0
  <2>1. slices' = slices
    BY <1>1 DEF Finish, TypeOK
  <2>2. QED
    BY <2>1
<1>2. CASE fresh[s] # 0
  <2>1. slices'[s] \in Nat /\ slices'[s] > slices[s]
    BY <1>2 DEF Finish, TypeOK
  <2>2. slices' = [slices EXCEPT ![s] = slices'[s]]
    BY DEF Finish, TypeOK
  <2>3. QED
    BY <2>1, <2>2 DEF Ledger!Next, Ledger!Measure
<1>3. QED
  BY <1>1, <1>2

\* No session has more on the server than was measured.
LEMMA Bounded == ASSUME IInv, Streamed PROVE \A s \in Session : remote[s] <= slices[s]
  BY DEF IInv, Agreed, Streamed, Session

\* An upload credits what was measured, and takes nothing back.
LEMMA UploadCredits ==
    ASSUME IInv, Streamed, NEW stored \in SUBSET Local, PassUploads(stored)
    PROVE  Ledger!Credit
<1>1. \A s \in stored : /\ pass.total[s] \in Nat
                        /\ remote[s] <= pass.total[s] /\ pass.total[s] <= slices[s]
  BY DEF IInv, TypeOK, Measured, Good, PassUploads
<1>2. \A s \in Session : remote[s] \in Nat /\ remote[s] <= slices[s]
  BY Bounded DEF IInv, TypeOK
<1>3. remote' = [s \in Session |-> IF s \in stored THEN pass.total[s] ELSE remote[s]]
  BY DEF PassUploads, Replaced
<1>4. remote' \in [Session -> Nat]
  BY <1>1, <1>2, <1>3
<1>5. \A s \in Session : remote[s] <= remote'[s] /\ remote'[s] <= slices[s]
  BY <1>1, <1>2, <1>3
<1>6. QED
  BY <1>4, <1>5 DEF Ledger!Credit, PassUploads

\* A sync credits the delta it measured.
LEMMA SyncCredits == ASSUME IInv, Streamed, SyncReaches PROVE Ledger!Credit
<1> DEFINE o == sync.session
<1>1. /\ o \in Session /\ sync.delta \in Nat
      /\ remote[o] + sync.delta <= slices[o]
  BY DEF IInv, TypeOK, Shape, Measured, Streamed, Reported, SyncReaches, Session
<1>2. \A s \in Session : remote[s] \in Nat /\ remote[s] <= slices[s]
  BY Bounded DEF IInv, TypeOK
<1>3. remote' = [remote EXCEPT ![o] = @ + sync.delta]
  BY DEF SyncReaches
<1>4. remote' \in [Session -> Nat]
  BY <1>1, <1>2, <1>3 DEF IInv, TypeOK
<1>5. \A s \in Session : remote[s] <= remote'[s] /\ remote'[s] <= slices[s]
  BY <1>1, <1>2, <1>3 DEF IInv, TypeOK
<1>6. QED
  BY <1>4, <1>5 DEF Ledger!Credit, SyncReaches

\* Every step is a step of the ledger, or none of it.
LEMMA NextCredits ==
    ASSUME IInv, Streamed, [Next]_vars
    PROVE  [Ledger!Next]_<<slices, remote>>
<1>1. CASE \E s \in Session : Finish(s) /\ UNCHANGED remote
  BY <1>1, FinishMeasures DEF IInv
<1>2. CASE \E stored \in SUBSET Local : PassUploads(stored)
  BY <1>2, UploadCredits DEF Ledger!Next
<1>3. CASE SyncReaches
  BY <1>3, SyncCredits DEF Ledger!Next
<1>4. CASE UNCHANGED <<slices, remote>>
  BY <1>4
<1>5. Checkpoint \/ Leave \/ PassStarts \/ SyncStarts
      => \/ UNCHANGED <<slices, remote>>
         \/ \E s \in Session : Finish(s) /\ UNCHANGED remote
  BY DEF IInv, TypeOK, Shape, Session, Checkpoint, Leave, PassStarts, SyncStarts
<1>6. Playing => \/ Checkpoint \/ Leave \/ UNCHANGED <<slices, remote>>
  BY DEF Playing, BeginLocal, BeginOnline, Hear, Persist, Stop, playing
<1>7. Uploading => \/ PassStarts \/ UNCHANGED <<slices, remote>>
                   \/ \E stored \in SUBSET Local : PassUploads(stored)
  BY
     DEF Uploading, Schedule, PassReads, PassMeasures, PassAnswered, PassConfirms,
         PassRemoves, PassFails, StoreFails, playing
<1>8. Syncing => SyncStarts \/ SyncReaches \/ UNCHANGED <<slices, remote>>
  BY DEF Syncing, SyncMeasures, SyncAnswered, SyncFails, playing
<1>9. Kill \/ UNCHANGED vars => UNCHANGED <<slices, remote>>
  BY DEF Kill, vars, playing, books
<1>10. QED
  BY <1>1, <1>2, <1>3, <1>4, <1>5, <1>6, <1>7, <1>8, <1>9 DEF Next

----
(* The theorems. *)

\* The invariant the others follow from.
THEOREM Invariant == Spec => []IInv
<1>1. Init => IInv
  BY InitHolds
<1>2. QED
  BY <1>1, NextKeeps, PTL DEF Spec

\* Every variable has its type.
THEOREM TypeCorrect == Spec => []TypeOK
<1>1. IInv => TypeOK
  BY DEF IInv
<1>2. QED
  BY <1>1, Invariant, PTL

\* No interleaving of uploads, syncs, failures and kills makes the accounting of a
\* session claim more than was measured.
THEOREM Accounted == Spec => []AccountedWithinMeasured
<1>1. IInv => AccountedWithinMeasured
  BY DEF IInv, Agreed
<1>2. QED
  BY <1>1, Invariant, PTL

\* The confirmed seconds are a sound lower bound of what the server holds.
THEOREM Stored == Spec => []ConfirmedIsStored
<1>1. IInv => ConfirmedIsStored
  BY DEF IInv, Agreed
<1>2. QED
  BY <1>1, Invariant, PTL

\* The newest saved position of a downloaded book is never lost.
THEOREM Kept == Spec => []NothingLost
<1>1. IInv => NothingLost
  BY DEF IInv, Outboxed
<1>2. QED
  BY <1>1, Invariant, PTL

\* With no login that supersedes a request, the streamed sessions are accounted too.
THEOREM StreamedInvariant ==
    ASSUME "superseded" \notin Failures
    PROVE  Spec => [](IInv /\ Streamed)
<1>1. Init => IInv /\ Streamed
  BY InitHolds
<1>2. IInv /\ Streamed /\ [Next]_vars => (IInv /\ Streamed)'
  BY NextKeeps, NextStreams
<1>3. QED
  BY <1>1, <1>2, PTL DEF Spec

\* Then the confirmed and the uncertain seconds are a sound upper bound.
THEOREM UpperBound ==
    ASSUME "superseded" \notin Failures
    PROVE  Spec => []UncertainBoundsRemote
<1>1. IInv /\ Streamed => UncertainBoundsRemote
  BY DEF Streamed
<1>2. QED
  BY <1>1, StreamedInvariant, PTL

\* Then uploads and syncs together implement the ledger: the server's record of a
\* session only grows and never exceeds what was measured.
THEOREM Refines ==
    ASSUME "superseded" \notin Failures
    PROVE  Spec => KeepsLedger
<1>1. Init => Ledger!Init
  BY DEF Init, Ledger!Init, Zero
<1>2. IInv /\ Streamed /\ [Next]_vars => [Ledger!Next]_<<slices, remote>>
  BY NextCredits
<1>3. QED
  BY <1>1, <1>2, StreamedInvariant, PTL DEF Spec, KeepsLedger, Ledger!Spec
=============================================================================
