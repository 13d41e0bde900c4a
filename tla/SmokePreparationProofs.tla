---- MODULE SmokePreparationProofs ----
(***************************************************************************)
(* Proofs about SmokePreparation, for any three commands: type correctness *)
(* and the safety of the supervision, along one inductive invariant.       *)
(***************************************************************************)
EXTENDS SmokePreparation, TLAPS

\* What holds of a command and of the cleanup in progress.
Commanded ==
    /\ RetiredIsGone
    /\ SuccessIsHonest
    /\ NoStrayKill
    /\ \A c \in Commands :
        /\ reused[c] => leader[c] = "reaped"
        /\ leader[c] \in {"exited", "reaped"} => code[c] # "none"
        /\ finished[c] => outcome[c] # "none"
        /\ leader[c] # "unborn" /\ outcome[c] # "none" => signalled[c]
    /\ step # "idle" =>
        /\ ~report.gone /\ ~finished[subject] /\ leader[subject] # "unborn"
        /\ step = "probe" => (report.reaped <=> leader[subject] = "reaped")
        /\ report.reaped => leader[subject] = "reaped"
        /\ step # "confirm" => signalled[subject]
        /\ step = "kill" => leader[subject] # "reaped"
        /\ (cause = "drop") <=> (outcome[subject] # "none")

Settled(c) == leader[c] # "unborn" => outcome[c] # "none"
Hearing(c) == subject = c /\ cause # "drop"

\* Which commands have a result at each place of the thread.
Placed ==
    /\ pending => slot = Boot
    /\ pc \in {"start", "startBoot", "abandon", "build", "cancel"} => step = "idle"
    /\ pc = "start" => readied = "none"
    /\ pc = "start" =>
        \A c \in Commands : leader[c] = "unborn" /\ outcome[c] = "none"
    /\ pc = "startBoot" =>
        /\ Built = "none" /\ readied = "none"
        /\ \A c \in {Boot, Ready} : leader[c] = "unborn" /\ outcome[c] = "none"
    /\ pc = "abandon" => Built = "none" /\ Settled(Boot) /\ Settled(Ready)
    /\ pc \in {"build", "boot", "booted", "cancel", "cancelled"} =>
        \A c \in Commands \ {Build, slot} : Settled(c)
    /\ pc = "build" => Built = "none"
    /\ pc \in {"build", "boot", "cancel"} =>
        ((readied = "none") <=> (outcome[slot] = "none"))
    /\ pc = "boot" => step = "idle" \/ Hearing(Build)
    /\ pc \in {"booted", "cancelled"} => Hearing(slot) \/ (step = "idle" /\ outcome[slot] # "none")
    /\ pc = "startBoot" => leader[Build] # "unborn"
    /\ pc \notin {"start", "startBoot", "done"} =>
        \A c \in {Build, slot} : leader[c] = "unborn" => outcome[c] # "none"
    /\ pc = "cancel" => ((Built # "none") <=> (readied = "none"))
    /\ pc = "cancelled" => Built # "none"
    /\ pc = "booted" => readied = "none"
    /\ pc = "drop" => \A c \in Commands : Settled(c) \/ Hearing(c)
    /\ pc \in {"dropBuild", "done"} =>
        /\ \A c \in Commands : Settled(c)
        /\ step # "idle" => cause = "drop"

IInv == PrepareTypeOK /\ Commanded /\ Placed

----
(* Initially. *)

\* Init: nothing is spawned, nothing has a result.
LEMMA InitHolds == Init => IInv
<1> SUFFICES ASSUME Init PROVE IInv
  OBVIOUS
<1>2. PrepareTypeOK
  BY PrepareAssumption, CommandAssumption
  DEF Init, First, CommandInit, PrepareTypeOK, CommandTypeOK, Outcomes, Causes, Report, EmptyReport
<1>3. Commanded
  BY DEF Init, CommandInit, Commanded, RetiredIsGone, SuccessIsHonest, NoStrayKill
<1>4. Placed
  BY PrepareAssumption DEF Init, First, CommandInit, Placed, Built, Settled
<1>5. QED
  BY <1>2, <1>3, <1>4 DEF IInv

----
(* The steps. *)

loop == <<needed, pc, pending, slot, readied>>

----
(* The operations that start and continue a cleanup. *)

\* An empty report is a report.
LEMMA EmptyReportTyped == EmptyReport \in Report
  BY DEF EmptyReport, Report

\* Entering a cleanup keeps the types.
LEMMA BeginTypes ==
    ASSUME CommandTypeOK, NEW c \in Commands,
           NEW why \in {"none", "drop"} \cup Causes, Begin(c, why)
    PROVE  CommandTypeOK'
<1>1. report' \in Report
  BY EmptyReportTyped DEF Begin
<1>2. (step' = "idle") <=> (subject' = NoCommand)
  BY CommandAssumption DEF Begin
<1>3. QED
  BY <1>1, <1>2 DEF Begin, CommandTypeOK, kernel, owner

\* Entering the cleanup of a command keeps what holds of the commands: somebody
\* hears the result unless there is one already.
LEMMA BeginCommanded ==
    ASSUME CommandTypeOK, Commanded, NEW c \in Commands, NEW why, Begin(c, why),
           ~finished[c], leader[c] # "unborn", (why = "drop") <=> (outcome[c] # "none")
    PROVE  Commanded'
<1>1. /\ ~report'.gone /\ ~report'.reaped
      /\ step' # "confirm" => signalled[c]
      /\ step' # "kill" /\ subject' = c /\ cause' = why
  BY DEF Begin, EmptyReport
<1>2. RetiredIsGone' /\ SuccessIsHonest' /\ NoStrayKill'
  BY DEF Begin, Commanded, RetiredIsGone, SuccessIsHonest, NoStrayKill, kernel, owner
<1>3. QED
  BY <1>1, <1>2 DEF Begin, Commanded, kernel, owner

CleanupTypes ==
    /\ finished \in [Commands -> BOOLEAN]
    /\ outcome \in [Commands -> Outcomes]
    /\ subject \in Commands \cup {NoCommand}
    /\ step \in {"idle", "confirm", "kill", "wait", "probe"}
    /\ (step = "idle") <=> (subject = NoCommand)
    /\ cause \in {"none", "drop"} \cup Causes
    /\ report \in Report
    /\ late \in BOOLEAN

\* Leaving a cleanup keeps the types.
LEMMA ReturnTypes ==
    ASSUME CommandTypeOK, step # "idle", NEW r \in Report, Return(r)
    PROVE  CleanupTypes'
<1>1. Succeeded(r) \in BOOLEAN
  BY DEF Succeeded, Retired, Report
<1>2. report' \in Report /\ late' \in BOOLEAN
  BY EmptyReportTyped DEF Return, Leave
<1>3. cause # "drop" => Verdict(r) \in Outcomes
  BY DEF CommandTypeOK, Verdict, Outcomes, Causes
<1>4. subject \in Commands
  BY DEF CommandTypeOK
<1>5. finished' \in [Commands -> BOOLEAN]
  BY <1>1, <1>4 DEF CommandTypeOK, Return
<1>6. outcome' \in [Commands -> Outcomes]
  BY <1>3, <1>4 DEF CommandTypeOK, Return
<1>7. QED
  BY <1>2, <1>5, <1>6 DEF CleanupTypes, Return, Leave

\* Staying in it does.
LEMMA ContinueTypes ==
    ASSUME CommandTypeOK, step # "idle", NEW r \in Report,
           NEW next \in {"kill", "wait", "probe"}, Continue(next, r)
    PROVE  CleanupTypes'
  BY DEF CommandTypeOK, CleanupTypes, Continue

\* The leader of a group that is still owned forks.
LEMMA ForkKeeps ==
    ASSUME IInv, NEW c \in Commands, Fork(c), UNCHANGED loop
    PROVE  IInv'
<1>0. USE PrepareAssumption, CommandAssumption DEF IInv, kernel, owner, cleanup, commandVars, loop, Fork
<1>1. PrepareTypeOK'
  BY DEF PrepareTypeOK, CommandTypeOK, Outcomes, Causes, Report, EmptyReport
<1>2. Commanded'
  BY
     DEF PrepareTypeOK, CommandTypeOK, Outcomes, Causes, Report, EmptyReport, Commanded,
         RetiredIsGone, SuccessIsHonest, NoStrayKill
<1>3. Placed'
  BY
     DEF PrepareTypeOK, CommandTypeOK, Outcomes, Causes, Report, EmptyReport, Commanded,
         RetiredIsGone, SuccessIsHonest, NoStrayKill, Placed, Built, Settled, Hearing
<1>4. QED
  BY <1>1, <1>2, <1>3

\* A leader exits.
LEMMA LeaderExitsKeeps ==
    ASSUME IInv, NEW c \in Commands, LeaderExits(c), UNCHANGED loop
    PROVE  IInv'
<1>0. USE PrepareAssumption, CommandAssumption DEF IInv, kernel, owner, cleanup, commandVars, loop, LeaderExits
<1>1. PrepareTypeOK'
  BY DEF PrepareTypeOK, CommandTypeOK, Outcomes, Causes, Report, EmptyReport
<1>2. Commanded'
  BY
     DEF PrepareTypeOK, CommandTypeOK, Outcomes, Causes, Report, EmptyReport, Commanded,
         RetiredIsGone, SuccessIsHonest, NoStrayKill
<1>3. Placed'
  BY
     DEF PrepareTypeOK, CommandTypeOK, Outcomes, Causes, Report, EmptyReport, Commanded,
         RetiredIsGone, SuccessIsHonest, NoStrayKill, Placed, Built, Settled, Hearing
<1>4. QED
  BY <1>1, <1>2, <1>3

\* Others of a group exit.
LEMMA OthersExitKeeps ==
    ASSUME IInv, NEW c \in Commands, OthersExit(c), UNCHANGED loop
    PROVE  IInv'
<1>0. USE PrepareAssumption, CommandAssumption DEF IInv, kernel, owner, cleanup, commandVars, loop, OthersExit
<1>1. PrepareTypeOK'
  BY DEF PrepareTypeOK, CommandTypeOK, Outcomes, Causes, Report, EmptyReport
<1>2. Commanded'
  BY
     DEF PrepareTypeOK, CommandTypeOK, Outcomes, Causes, Report, EmptyReport, Commanded,
         RetiredIsGone, SuccessIsHonest, NoStrayKill
<1>3. Placed'
  BY
     DEF PrepareTypeOK, CommandTypeOK, Outcomes, Causes, Report, EmptyReport, Commanded,
         RetiredIsGone, SuccessIsHonest, NoStrayKill, Placed, Built, Settled, Hearing
<1>4. QED
  BY <1>1, <1>2, <1>3

\* An identifier is given away.
LEMMA ReuseKeeps ==
    ASSUME IInv, NEW c \in Commands, Reuse(c), UNCHANGED loop
    PROVE  IInv'
<1>0. USE PrepareAssumption, CommandAssumption DEF IInv, kernel, owner, cleanup, commandVars, loop, Reuse
<1>1. PrepareTypeOK'
  BY DEF PrepareTypeOK, CommandTypeOK, Outcomes, Causes, Report, EmptyReport
<1>2. Commanded'
  BY
     DEF PrepareTypeOK, CommandTypeOK, Outcomes, Causes, Report, EmptyReport, Commanded,
         RetiredIsGone, SuccessIsHonest, NoStrayKill
<1>3. Placed'
  BY
     DEF PrepareTypeOK, CommandTypeOK, Outcomes, Causes, Report, EmptyReport, Commanded,
         RetiredIsGone, SuccessIsHonest, NoStrayKill, Placed, Built, Settled, Hearing
<1>4. QED
  BY <1>1, <1>2, <1>3

\* A cleanup runs late.
LEMMA CleanupLateKeeps ==
    ASSUME IInv, CleanupLate, UNCHANGED loop
    PROVE  IInv'
<1>0. USE PrepareAssumption, CommandAssumption DEF IInv, kernel, owner, cleanup, commandVars, loop, CleanupLate
<1>1. PrepareTypeOK'
  BY DEF PrepareTypeOK, CommandTypeOK, Outcomes, Causes, Report, EmptyReport
<1>2. Commanded'
  BY
     DEF PrepareTypeOK, CommandTypeOK, Outcomes, Causes, Report, EmptyReport, Commanded,
         RetiredIsGone, SuccessIsHonest, NoStrayKill
<1>3. Placed'
  BY
     DEF PrepareTypeOK, CommandTypeOK, Outcomes, Causes, Report, EmptyReport, Commanded,
         RetiredIsGone, SuccessIsHonest, NoStrayKill, Placed, Built, Settled, Hearing
<1>4. QED
  BY <1>1, <1>2, <1>3

\* A budget elapses.
LEMMA ElapseKeeps ==
    ASSUME IInv, NEW t \in Timers, Elapse(t)
    PROVE  IInv'
<1>0. USE PrepareAssumption, CommandAssumption DEF IInv, kernel, owner, cleanup, commandVars, loop, Elapse, Timers
<1>1. PrepareTypeOK'
  BY DEF PrepareTypeOK, CommandTypeOK, Outcomes, Causes, Report, EmptyReport
<1>2. Commanded'
  BY
     DEF PrepareTypeOK, CommandTypeOK, Outcomes, Causes, Report, EmptyReport, Commanded,
         RetiredIsGone, SuccessIsHonest, NoStrayKill
<1>3. Placed'
  BY
     DEF PrepareTypeOK, CommandTypeOK, Outcomes, Causes, Report, EmptyReport, Commanded,
         RetiredIsGone, SuccessIsHonest, NoStrayKill, Placed, Built, Settled, Hearing
<1>4. QED
  BY <1>1, <1>2, <1>3

\* The build starts, or not.
LEMMA StartBuildKeeps ==
    ASSUME IInv, StartBuild
    PROVE  IInv'
<1>0. USE PrepareAssumption, CommandAssumption DEF IInv, kernel, owner, cleanup, commandVars, loop, StartBuild, Idle, Goto, Spawn, FailBeforeSpawn
<1>1. PrepareTypeOK'
  BY DEF PrepareTypeOK, CommandTypeOK, Outcomes, Causes, Report, EmptyReport
<1>2. Commanded'
  BY
     DEF PrepareTypeOK, CommandTypeOK, Outcomes, Causes, Report, EmptyReport, Commanded,
         RetiredIsGone, SuccessIsHonest, NoStrayKill
<1>3. Placed'
  <2>1. \A c \in Commands : leader[c] = "unborn" /\ outcome[c] = "none"
    BY DEF Placed
  <2>2. readied = "none" /\ (pending => slot = Boot) /\ slot \in {Boot, Ready}
    BY DEF Placed, PrepareTypeOK
  <2>3. CASE pc' = "startBoot"
    BY <2>1, <2>2, <2>3
       DEF PrepareTypeOK, CommandTypeOK, Outcomes, Causes, Placed, Built, Settled, Hearing
  <2>4. CASE pc' = "done"
    BY <2>1, <2>2, <2>4
       DEF PrepareTypeOK, CommandTypeOK, Outcomes, Causes, Placed, Built, Settled, Hearing
  <2>5. QED
    BY <2>3, <2>4
<1>4. QED
  BY <1>1, <1>2, <1>3

\* The boot starts, or not.
LEMMA StartBootKeeps ==
    ASSUME IInv, StartBoot
    PROVE  IInv'
<1>0. USE PrepareAssumption, CommandAssumption DEF IInv, kernel, owner, cleanup, commandVars, loop, StartBoot, StartFails, Idle, Goto, Spawn, FailBeforeSpawn
<1>1. PrepareTypeOK'
  BY DEF PrepareTypeOK, CommandTypeOK, Outcomes, Causes, Report, EmptyReport
<1>2. Commanded'
  BY
     DEF PrepareTypeOK, CommandTypeOK, Outcomes, Causes, Report, EmptyReport, Commanded,
         RetiredIsGone, SuccessIsHonest, NoStrayKill
<1>3. Placed'
  <2>1. slot \in Commands /\ slot # Build /\ slot' = slot
    BY DEF PrepareTypeOK
  <2>2. \A c \in {Boot, Ready} : leader[c] = "unborn" /\ outcome[c] = "none"
    BY DEF Placed
  <2>3. Built = "none" /\ readied = "none"
    BY DEF Placed
  <2>4. CASE pc' = "build"
    BY <2>1, <2>2, <2>3, <2>4
       DEF PrepareTypeOK, CommandTypeOK, Outcomes, Causes, Placed, Built, Settled, Hearing
  <2>5. CASE pc' = "abandon"
    BY <2>1, <2>2, <2>3, <2>5
       DEF PrepareTypeOK, CommandTypeOK, Outcomes, Causes, Placed, Built, Settled, Hearing
  <2>6. QED
    BY <2>4, <2>5
<1>4. QED
  BY <1>1, <1>2, <1>3

\* The build is cancelled.
LEMMA AbandonKeeps ==
    ASSUME IInv, Abandon
    PROVE  IInv'
<1>0. USE PrepareAssumption DEF IInv, Abandon, Idle, Goto
<1>1. CASE UNCHANGED commandVars
  <2>1. PrepareTypeOK' /\ Commanded'
    BY <1>1
       DEF PrepareTypeOK, CommandTypeOK, Outcomes, Causes, Commanded, RetiredIsGone,
           SuccessIsHonest, NoStrayKill, AfterPolls, kernel, owner, cleanup, commandVars, loop
  <2>2. Placed'
    BY <1>1, CommandAssumption
       DEF PrepareTypeOK, CommandTypeOK, Outcomes, Causes, Commanded, RetiredIsGone,
           SuccessIsHonest, NoStrayKill, Placed, Built, Settled, Hearing, AfterPolls, Failed,
               Begin, kernel, owner, cleanup, commandVars, loop
  <2>3. QED
    BY <2>1, <2>2
<1>2. ASSUME ~UNCHANGED commandVars
      PROVE  IInv'
  <2>1. PICK why \in Causes \cup {"none"} : Begin(Build, why)
    BY <1>2 DEF CancelFinds
  <2>2. /\ Build \in Commands /\ ~finished[Build] /\ leader[Build] # "unborn"
        /\ (why = "drop") <=> (outcome[Build] # "none")
    BY <1>2, CommandAssumption
       DEF PrepareTypeOK, CommandTypeOK, Outcomes, Causes, Commanded, RetiredIsGone,
           SuccessIsHonest, NoStrayKill, Placed, Built, Settled, Hearing, CancelFinds
  <2>3. CommandTypeOK'
    BY <2>1, <2>2, BeginTypes DEF PrepareTypeOK
  <2>4. Commanded'
    BY <2>1, <2>2, BeginCommanded DEF PrepareTypeOK
  <2>5. PrepareTypeOK'
    BY <1>2, <2>3 DEF PrepareTypeOK
  <2>6. Placed'
    BY <1>2, <2>1, <2>2, CommandAssumption
       DEF PrepareTypeOK, CommandTypeOK, Outcomes, Causes, Placed, Built, Settled, Hearing,
           Begin, kernel, owner, cleanup, commandVars, loop, CancelFinds
  <2>7. QED
    BY <2>4, <2>5, <2>6
<1>3. QED
  BY <1>1, <1>2

\* The build is polled.
LEMMA PollBuildKeeps ==
    ASSUME IInv, PollBuild
    PROVE  IInv'
<1>0. USE PrepareAssumption DEF IInv, PollBuild, Idle, Goto
<1>1. CASE UNCHANGED commandVars
  <2>1. PrepareTypeOK' /\ Commanded'
    BY <1>1
       DEF PrepareTypeOK, CommandTypeOK, Outcomes, Causes, Commanded, RetiredIsGone,
           SuccessIsHonest, NoStrayKill, AfterPolls, kernel, owner, cleanup, commandVars, loop
  <2>2. Placed'
    BY <1>1, CommandAssumption
       DEF PrepareTypeOK, CommandTypeOK, Outcomes, Causes, Commanded, RetiredIsGone,
           SuccessIsHonest, NoStrayKill, Placed, Built, Settled, Hearing, AfterPolls, Failed,
               Begin, kernel, owner, cleanup, commandVars, loop
  <2>3. QED
    BY <2>1, <2>2
<1>2. ASSUME ~UNCHANGED commandVars
      PROVE  IInv'
  <2>1. PICK why \in Causes \cup {"none"} : Begin(Build, why)
    BY <1>2 DEF PollFinds
  <2>2. /\ Build \in Commands /\ ~finished[Build] /\ leader[Build] # "unborn"
        /\ (why = "drop") <=> (outcome[Build] # "none")
    BY <1>2, CommandAssumption
       DEF PrepareTypeOK, CommandTypeOK, Outcomes, Causes, Commanded, RetiredIsGone,
           SuccessIsHonest, NoStrayKill, Placed, Built, Settled, Hearing, PollFinds
  <2>3. CommandTypeOK'
    BY <2>1, <2>2, BeginTypes DEF PrepareTypeOK
  <2>4. Commanded'
    BY <2>1, <2>2, BeginCommanded DEF PrepareTypeOK
  <2>5. PrepareTypeOK'
    BY <1>2, <2>3 DEF PrepareTypeOK
  <2>6. Placed'
    BY <1>2, <2>1, <2>2, CommandAssumption
       DEF PrepareTypeOK, CommandTypeOK, Outcomes, Causes, Placed, Built, Settled, Hearing,
           Begin, kernel, owner, cleanup, commandVars, loop, PollFinds
  <2>7. QED
    BY <2>4, <2>5, <2>6
<1>3. QED
  BY <1>1, <1>2

\* The command in the boot's variable is polled.
LEMMA PollBootKeeps ==
    ASSUME IInv, PollBoot
    PROVE  IInv'
<1>0. USE PrepareAssumption DEF IInv, PollBoot, Idle, Goto
<1>1. CASE UNCHANGED commandVars
  <2>1. PrepareTypeOK' /\ Commanded'
    BY <1>1
       DEF PrepareTypeOK, CommandTypeOK, Outcomes, Causes, Commanded, RetiredIsGone,
           SuccessIsHonest, NoStrayKill, AfterPolls, kernel, owner, cleanup, commandVars, loop
  <2>2. Placed'
    BY <1>1, CommandAssumption
       DEF PrepareTypeOK, CommandTypeOK, Outcomes, Causes, Commanded, RetiredIsGone,
           SuccessIsHonest, NoStrayKill, Placed, Built, Settled, Hearing, AfterPolls, Failed,
               Begin, kernel, owner, cleanup, commandVars, loop
  <2>3. QED
    BY <2>1, <2>2
<1>2. ASSUME ~UNCHANGED commandVars
      PROVE  IInv'
  <2>1. PICK why \in Causes \cup {"none"} : Begin(slot, why)
    BY <1>2 DEF PollFinds, Failed
  <2>2. /\ slot \in Commands /\ ~finished[slot] /\ leader[slot] # "unborn"
        /\ (why = "drop") <=> (outcome[slot] # "none")
    BY <1>2, CommandAssumption
       DEF PrepareTypeOK, CommandTypeOK, Outcomes, Causes, Commanded, RetiredIsGone,
           SuccessIsHonest, NoStrayKill, Placed, Built, Settled, Hearing, PollFinds, Failed
  <2>3. CommandTypeOK'
    BY <2>1, <2>2, BeginTypes DEF PrepareTypeOK
  <2>4. Commanded'
    BY <2>1, <2>2, BeginCommanded DEF PrepareTypeOK
  <2>5. PrepareTypeOK'
    BY <1>2, <2>3 DEF PrepareTypeOK
  <2>6. Placed'
    BY <1>2, <2>1, <2>2, CommandAssumption
       DEF PrepareTypeOK, CommandTypeOK, Outcomes, Causes, Placed, Built, Settled, Hearing,
           Begin, kernel, owner, cleanup, commandVars, loop, PollFinds, Failed
  <2>7. QED
    BY <2>4, <2>5, <2>6
<1>3. QED
  BY <1>1, <1>2

\* The answer of the boot's command is used.
LEMMA BootEndedKeeps ==
    ASSUME IInv, BootEnded
    PROVE  IInv'
<1>0. USE PrepareAssumption, CommandAssumption DEF IInv, BootEnded, Idle, Goto
<1>1. pc' \in {"drop", "cancel", "build", "boot"} /\ pending' = FALSE
  BY DEF AfterPolls
<1>2. step = "idle" /\ outcome[slot] # "none" /\ slot \in {Boot, Ready} /\ subject = NoCommand
  BY DEF Placed, Hearing, PrepareTypeOK, CommandTypeOK, Outcomes, Causes
<1>3. CASE ~Follows
  <2>1. UNCHANGED commandVars /\ slot' = slot /\ readied' = outcome[slot]
    BY <1>3
  <2>2. readied' \in Outcomes
    BY <1>2, <2>1 DEF PrepareTypeOK, CommandTypeOK, Outcomes, Causes
  <2>3. PrepareTypeOK'
    BY <1>1, <2>1, <2>2
       DEF PrepareTypeOK, CommandTypeOK, kernel, owner, cleanup, commandVars, loop
  <2>4. Commanded'
    BY <2>1
       DEF Commanded, RetiredIsGone, SuccessIsHonest, NoStrayKill, kernel, owner, cleanup,
           commandVars, loop
  <2>5. Placed'
    BY <1>1, <1>2, <2>1
       DEF PrepareTypeOK, CommandTypeOK, Outcomes, Causes, Placed, Built, Settled, Hearing,
           kernel, owner, cleanup, commandVars, loop, AfterPolls, Failed
  <2>6. QED
    BY <2>3, <2>4, <2>5
<1>4. CASE Follows
  <2>1. slot = Boot /\ outcome[Boot] = "ok" /\ outcome[Ready] = "none" /\ leader[Ready] = "unborn"
    BY <1>4 DEF Follows, Placed, Spawn, FailBeforeSpawn, StartFails
  <2>2. \/ Spawn(Ready) /\ slot' = Ready /\ readied' = readied
        \/ \E why \in Causes : FailBeforeSpawn(Ready, why) /\ readied' = why /\ slot' = slot
    BY <1>4 DEF StartFails, Causes
  <2>3. CASE Spawn(Ready) /\ slot' = Ready /\ readied' = readied
    <3>1. PrepareTypeOK'
      BY <1>1, <2>3
         DEF PrepareTypeOK, CommandTypeOK, Outcomes, Causes, kernel, owner, cleanup,
             commandVars, loop, Spawn
    <3>2. Commanded'
      BY <2>1, <2>3
         DEF PrepareTypeOK, CommandTypeOK, Outcomes, Causes, Commanded, RetiredIsGone,
             SuccessIsHonest, NoStrayKill, kernel, owner, cleanup, commandVars, loop, Spawn
    <3>3. Placed'
      BY <1>1, <1>2, <2>1, <2>3
         DEF PrepareTypeOK, CommandTypeOK, Outcomes, Causes, Placed, Built, Settled, Hearing,
             kernel, owner, cleanup, commandVars, loop, Spawn, AfterPolls, Failed
    <3>4. QED
      BY <3>1, <3>2, <3>3
  <2>4. ASSUME NEW why \in Causes, FailBeforeSpawn(Ready, why), readied' = why, slot' = slot
        PROVE  IInv'
    <3>1. PrepareTypeOK'
      BY <1>1, <2>4
         DEF PrepareTypeOK, CommandTypeOK, Outcomes, Causes, kernel, owner, cleanup,
             commandVars, loop, FailBeforeSpawn
    <3>2. Commanded'
      BY <2>1, <2>4
         DEF PrepareTypeOK, CommandTypeOK, Outcomes, Causes, Commanded, RetiredIsGone,
             SuccessIsHonest, NoStrayKill, kernel, owner, cleanup, commandVars, loop,
                 FailBeforeSpawn
    <3>3. Placed'
      BY <1>1, <1>2, <2>1, <2>4
         DEF PrepareTypeOK, CommandTypeOK, Outcomes, Causes, Placed, Built, Settled, Hearing,
             kernel, owner, cleanup, commandVars, loop, FailBeforeSpawn, AfterPolls, Failed
    <3>4. QED
      BY <3>1, <3>2, <3>3
  <2>5. QED
    BY <2>2, <2>3, <2>4
<1>5. QED
  BY <1>3, <1>4

\* The missing command is cancelled.
LEMMA CancelKeeps ==
    ASSUME IInv, Cancel
    PROVE  IInv'
<1>0. USE PrepareAssumption DEF IInv, Cancel, Idle, Goto
<1> DEFINE peer == IF Built = "none" THEN Build ELSE slot
<1>1. PICK why \in Causes \cup {"none"} : CancelFinds(peer, why) /\ Begin(peer, why)
  OBVIOUS
<1>2. /\ peer \in Commands /\ ~finished[peer] /\ leader[peer] # "unborn"
      /\ outcome[peer] = "none" /\ why # "drop"
  BY CommandAssumption
     DEF PrepareTypeOK, CommandTypeOK, Outcomes, Causes, Commanded, RetiredIsGone,
         SuccessIsHonest, NoStrayKill, Placed, Built, Settled, Hearing
<1>3. CommandTypeOK'
  BY <1>1, <1>2, BeginTypes DEF PrepareTypeOK
<1>4. Commanded'
  BY <1>1, <1>2, BeginCommanded DEF PrepareTypeOK
<1>5. PrepareTypeOK'
  BY <1>3 DEF PrepareTypeOK
<1>6. Placed'
  <2>1. CASE Built = "none"
    BY <1>1, <1>2, <2>1, CommandAssumption
       DEF PrepareTypeOK, CommandTypeOK, Outcomes, Causes, Placed, Built, Settled, Hearing,
           Begin, kernel, owner, cleanup, commandVars, loop
  <2>2. CASE Built # "none"
    BY <1>1, <1>2, <2>2, CommandAssumption
       DEF PrepareTypeOK, CommandTypeOK, Outcomes, Causes, Placed, Built, Settled, Hearing,
           Begin, kernel, owner, cleanup, commandVars, loop
  <2>3. QED
    BY <2>1, <2>2
<1>7. QED
  BY <1>4, <1>5, <1>6

\* Its result is used.
LEMMA BootCancelledKeeps ==
    ASSUME IInv, BootCancelled
    PROVE  IInv'
<1>0. USE PrepareAssumption, CommandAssumption DEF IInv, kernel, owner, cleanup, commandVars, loop, BootCancelled, Idle, Goto
<1>1. PrepareTypeOK'
  BY DEF PrepareTypeOK, CommandTypeOK, Outcomes, Causes, Report, EmptyReport
<1>2. Commanded'
  BY
     DEF PrepareTypeOK, CommandTypeOK, Outcomes, Causes, Report, EmptyReport, Commanded,
         RetiredIsGone, SuccessIsHonest, NoStrayKill
<1>3. Placed'
  BY
     DEF PrepareTypeOK, CommandTypeOK, Outcomes, Causes, Report, EmptyReport, Commanded,
         RetiredIsGone, SuccessIsHonest, NoStrayKill, Placed, Built, Settled, Hearing
<1>4. QED
  BY <1>1, <1>2, <1>3

\* The boot's owner is dropped.
LEMMA DropKeeps ==
    ASSUME IInv, Drop
    PROVE  IInv'
<1>0. USE PrepareAssumption DEF IInv, Drop, Idle, Goto
<1>1. CASE UNCHANGED commandVars
  <2>1. PrepareTypeOK' /\ Commanded'
    BY <1>1
       DEF PrepareTypeOK, CommandTypeOK, Outcomes, Causes, Commanded, RetiredIsGone,
           SuccessIsHonest, NoStrayKill, AfterPolls, kernel, owner, cleanup, commandVars, loop
  <2>2. Placed'
    BY <1>1, CommandAssumption
       DEF PrepareTypeOK, CommandTypeOK, Outcomes, Causes, Commanded, RetiredIsGone,
           SuccessIsHonest, NoStrayKill, Placed, Built, Settled, Hearing, AfterPolls, Failed,
               Begin, kernel, owner, cleanup, commandVars, loop
  <2>3. QED
    BY <2>1, <2>2
<1>2. ASSUME ~UNCHANGED commandVars
      PROVE  IInv'
  <2>1. PICK why \in {"drop"} : Begin(slot, why)
    BY <1>2 DEF Droppable
  <2>2. /\ slot \in Commands /\ ~finished[slot] /\ leader[slot] # "unborn"
        /\ (why = "drop") <=> (outcome[slot] # "none")
    BY <1>2, CommandAssumption
       DEF PrepareTypeOK, CommandTypeOK, Outcomes, Causes, Commanded, RetiredIsGone,
           SuccessIsHonest, NoStrayKill, Placed, Built, Settled, Hearing, Droppable
  <2>3. CommandTypeOK'
    BY <2>1, <2>2, BeginTypes DEF PrepareTypeOK
  <2>4. Commanded'
    BY <2>1, <2>2, BeginCommanded DEF PrepareTypeOK
  <2>5. PrepareTypeOK'
    BY <1>2, <2>3 DEF PrepareTypeOK
  <2>6. Placed'
    BY <1>2, <2>1, <2>2, CommandAssumption
       DEF PrepareTypeOK, CommandTypeOK, Outcomes, Causes, Placed, Built, Settled, Hearing,
           Begin, kernel, owner, cleanup, commandVars, loop, Droppable
  <2>7. QED
    BY <2>4, <2>5, <2>6
<1>3. QED
  BY <1>1, <1>2

\* The build's owner is dropped.
LEMMA DropBuildKeeps ==
    ASSUME IInv, DropBuild
    PROVE  IInv'
<1>0. USE PrepareAssumption DEF IInv, DropBuild, Idle, Goto
<1>1. CASE UNCHANGED commandVars
  <2>1. PrepareTypeOK' /\ Commanded'
    BY <1>1
       DEF PrepareTypeOK, CommandTypeOK, Outcomes, Causes, Commanded, RetiredIsGone,
           SuccessIsHonest, NoStrayKill, AfterPolls, kernel, owner, cleanup, commandVars, loop
  <2>2. Placed'
    BY <1>1, CommandAssumption
       DEF PrepareTypeOK, CommandTypeOK, Outcomes, Causes, Commanded, RetiredIsGone,
           SuccessIsHonest, NoStrayKill, Placed, Built, Settled, Hearing, AfterPolls, Failed,
               Begin, kernel, owner, cleanup, commandVars, loop
  <2>3. QED
    BY <2>1, <2>2
<1>2. ASSUME ~UNCHANGED commandVars
      PROVE  IInv'
  <2>1. PICK why \in {"drop"} : Begin(Build, why)
    BY <1>2 DEF Droppable
  <2>2. /\ Build \in Commands /\ ~finished[Build] /\ leader[Build] # "unborn"
        /\ (why = "drop") <=> (outcome[Build] # "none")
    BY <1>2, CommandAssumption
       DEF PrepareTypeOK, CommandTypeOK, Outcomes, Causes, Commanded, RetiredIsGone,
           SuccessIsHonest, NoStrayKill, Placed, Built, Settled, Hearing, Droppable
  <2>3. CommandTypeOK'
    BY <2>1, <2>2, BeginTypes DEF PrepareTypeOK
  <2>4. Commanded'
    BY <2>1, <2>2, BeginCommanded DEF PrepareTypeOK
  <2>5. PrepareTypeOK'
    BY <1>2, <2>3 DEF PrepareTypeOK
  <2>6. Placed'
    BY <1>2, <2>1, <2>2, CommandAssumption
       DEF PrepareTypeOK, CommandTypeOK, Outcomes, Causes, Placed, Built, Settled, Hearing,
           Begin, kernel, owner, cleanup, commandVars, loop, Droppable
  <2>7. QED
    BY <2>4, <2>5, <2>6
<1>3. QED
  BY <1>1, <1>2

\* Ownership is confirmed.
LEMMA ConfirmKeeps ==
    ASSUME IInv, Confirm, UNCHANGED loop
    PROVE  IInv'
<1>0. USE PrepareAssumption, CommandAssumption DEF IInv, kernel, owner, cleanup, commandVars, loop, Confirm
<1>1. PrepareTypeOK'
  <2>1. report \in Report /\ [report EXCEPT !.error = TRUE] \in Report
    BY DEF PrepareTypeOK, CommandTypeOK, Report
  <2>2. CleanupTypes'
    BY <2>1, ContinueTypes, ReturnTypes DEF PrepareTypeOK
  <2>3. QED
    BY <2>2 DEF PrepareTypeOK, CommandTypeOK, CleanupTypes, Outcomes
<1>2. Commanded'
  BY <1>1
     DEF PrepareTypeOK, CommandTypeOK, Outcomes, Causes, Report, EmptyReport, Commanded,
         RetiredIsGone, SuccessIsHonest, NoStrayKill, Continue, Return, Leave, Verdict,
             Succeeded, Retired
<1>3. Placed'
  BY <1>1
     DEF PrepareTypeOK, CommandTypeOK, Outcomes, Causes, Report, EmptyReport, Commanded,
         RetiredIsGone, SuccessIsHonest, NoStrayKill, Placed, Built, Settled, Hearing,
             Continue, Return, Leave, Verdict, Succeeded, Retired
<1>4. QED
  BY <1>1, <1>2, <1>3

\* The group is killed.
LEMMA KillKeeps ==
    ASSUME IInv, Kill, UNCHANGED loop
    PROVE  IInv'
<1>0. USE PrepareAssumption, CommandAssumption DEF IInv, kernel, owner, cleanup, commandVars, loop, Kill, Continue, Live, Exists
<1>1. PrepareTypeOK'
  <2>1. [report EXCEPT !.attempted = TRUE] \in Report
    BY DEF PrepareTypeOK, CommandTypeOK, Report
  <2>2. doomed' \in [Commands -> BOOLEAN] /\ strays' \in BOOLEAN
    BY DEF PrepareTypeOK, CommandTypeOK
  <2>3. CleanupTypes'
    BY <2>1, ContinueTypes DEF PrepareTypeOK
  <2>4. signalled' = signalled /\ overdue' = overdue
    OBVIOUS
  <2>5. QED
    BY <2>2, <2>3, <2>4 DEF PrepareTypeOK, CommandTypeOK, CleanupTypes
<1>2. Commanded'
  BY
     DEF PrepareTypeOK, CommandTypeOK, Outcomes, Causes, Report, EmptyReport, Commanded,
         RetiredIsGone, SuccessIsHonest, NoStrayKill
<1>3. Placed'
  BY
     DEF PrepareTypeOK, CommandTypeOK, Outcomes, Causes, Report, EmptyReport, Commanded,
         RetiredIsGone, SuccessIsHonest, NoStrayKill, Placed, Built, Settled, Hearing
<1>4. QED
  BY <1>1, <1>2, <1>3

\* The leader is waited for.
LEMMA WaitKeeps ==
    ASSUME IInv, Wait, UNCHANGED loop
    PROVE  IInv'
<1>0. USE PrepareAssumption, CommandAssumption DEF IInv, kernel, owner, cleanup, commandVars, loop, Wait
<1>1. PrepareTypeOK'
  <2>1. /\ [report EXCEPT !.error = TRUE] \in Report
        /\ [report EXCEPT !.reaped = leader[subject] \in {"exited", "reaped"}] \in Report
    <3>1. (leader[subject] \in {"exited", "reaped"}) \in BOOLEAN
      OBVIOUS
    <3>2. QED
      BY <3>1 DEF PrepareTypeOK, CommandTypeOK, Report
  <2>2. CleanupTypes'
    BY <2>1, ContinueTypes, ReturnTypes DEF PrepareTypeOK
  <2>3. QED
    BY <2>2 DEF PrepareTypeOK, CommandTypeOK, CleanupTypes, Outcomes
<1>2. Commanded'
  BY <1>1
     DEF PrepareTypeOK, CommandTypeOK, Outcomes, Causes, Report, EmptyReport, Commanded,
         RetiredIsGone, SuccessIsHonest, NoStrayKill, Continue, Return, Leave, Verdict,
             Succeeded, Retired
<1>3. Placed'
  BY <1>1
     DEF PrepareTypeOK, CommandTypeOK, Outcomes, Causes, Report, EmptyReport, Commanded,
         RetiredIsGone, SuccessIsHonest, NoStrayKill, Placed, Built, Settled, Hearing,
             Continue, Return, Leave, Verdict, Succeeded, Retired
<1>4. QED
  BY <1>1, <1>2, <1>3

\* The group is probed.
LEMMA ProbeKeeps ==
    ASSUME IInv, Probe, UNCHANGED loop
    PROVE  IInv'
<1>0. USE PrepareAssumption, CommandAssumption DEF IInv, kernel, owner, cleanup, commandVars, loop
<1>1. PICK answer \in Answers(subject) :
        LET seen == IF answer = "denied" THEN report
                    ELSE [report EXCEPT !.gone = (answer = "gone")]
        IN IF Enough(seen) THEN Return(seen) ELSE Continue("wait", seen)
  BY DEF Probe
<1> DEFINE seen == IF answer = "denied" THEN report
                   ELSE [report EXCEPT !.gone = (answer = "gone")]
<1>2. /\ step = "probe" /\ subject \in Commands
      /\ UNCHANGED <<kernel, overdue, signalled>>
  BY DEF Probe, PrepareTypeOK, CommandTypeOK
<1>3. /\ seen \in Report /\ seen.reaped = report.reaped
      /\ seen.gone = (answer = "gone")
  BY <1>2 DEF PrepareTypeOK, CommandTypeOK, Report, Commanded
<1>4. answer = "gone" => others[subject] = "none" /\ leader[subject] = "reaped" /\ report.reaped
  BY <1>2 DEF Answers, Live, Exists, PrepareTypeOK, CommandTypeOK, Commanded
<1>5. CASE Enough(seen)
  <2>1. Return(seen)
    BY <1>1, <1>5
  <2>2. PrepareTypeOK'
    BY <1>2, <1>3, <2>1, ReturnTypes DEF PrepareTypeOK, CommandTypeOK, CleanupTypes
  <2>3. Succeeded(seen) => leader[subject] = "reaped" /\ others[subject] = "none" /\ code[subject] # "none"
    BY <1>2, <1>3, <1>4 DEF Succeeded, Retired, Commanded
  <2>4. /\ outcome'[subject] # "none"
        /\ outcome'[subject] = "ok" /\ outcome[subject] # "ok" => Succeeded(seen) /\ code[subject] # "failure"
        /\ \A c \in Commands \ {subject} : outcome'[c] = outcome[c] /\ finished'[c] = finished[c]
        /\ finished'[subject] = Succeeded(seen)
        /\ step' = "idle"
    BY <1>2, <1>3, <2>1
       DEF Return, Leave, Verdict, Commanded, PrepareTypeOK, CommandTypeOK, Causes
  <2>5. outcome[subject] # "ok"
    BY <1>2 DEF Commanded, SuccessIsHonest
  <2>6. Commanded'
    BY <1>2, <2>3, <2>4, <2>5
       DEF PrepareTypeOK, CommandTypeOK, Outcomes, Causes, Commanded, RetiredIsGone,
           SuccessIsHonest, NoStrayKill
  <2>7. cause = "drop" => outcome' = outcome
    BY <2>1 DEF Return
  <2>8. Placed'
    BY <1>2, <2>2, <2>4, <2>7
       DEF PrepareTypeOK, CommandTypeOK, Outcomes, Causes, Commanded, RetiredIsGone,
           SuccessIsHonest, NoStrayKill, Placed, Built, Settled, Hearing
  <2>9. QED
    BY <2>2, <2>6, <2>8
<1>6. CASE ~Enough(seen)
  <2>1. Continue("wait", seen)
    BY <1>1, <1>6
  <2>2. PrepareTypeOK'
    BY <1>2, <1>3, <2>1, ContinueTypes DEF PrepareTypeOK, CommandTypeOK, CleanupTypes
  <2>3. Commanded'
    <3>1. ~report'.gone /\ report'.reaped = report.reaped /\ step' = "wait"
      BY <1>3, <1>4, <1>6, <2>1 DEF Continue, Enough, Retired
    <3>2. QED
      BY <1>2, <2>1, <3>1
         DEF PrepareTypeOK, CommandTypeOK, Outcomes, Causes, Commanded, RetiredIsGone,
             SuccessIsHonest, NoStrayKill, Continue
  <2>4. Placed'
    BY <1>2, <2>1
       DEF PrepareTypeOK, CommandTypeOK, Outcomes, Causes, Placed, Built, Settled, Hearing,
           Continue
  <2>5. QED
    BY <2>2, <2>3, <2>4
<1>7. QED
  BY <1>5, <1>6

\* A step of anybody.
LEMMA NextKeeps ==
    ASSUME IInv, [Next]_vars
    PROVE  IInv'
<1>1. CASE StartBuild
  BY <1>1, StartBuildKeeps
<1>2. CASE StartBoot
  BY <1>2, StartBootKeeps
<1>3. CASE Abandon
  BY <1>3, AbandonKeeps
<1>4. CASE PollBuild
  BY <1>4, PollBuildKeeps
<1>5. CASE PollBoot
  BY <1>5, PollBootKeeps
<1>6. CASE BootEnded
  BY <1>6, BootEndedKeeps
<1>7. CASE Cancel
  BY <1>7, CancelKeeps
<1>8. CASE BootCancelled
  BY <1>8, BootCancelledKeeps
<1>9. CASE Drop
  BY <1>9, DropKeeps
<1>10. CASE DropBuild
  BY <1>10, DropBuildKeeps
<1>11. CASE CleanupStep /\ UNCHANGED loop
  BY <1>11, ConfirmKeeps, KillKeeps, WaitKeeps, ProbeKeeps DEF CleanupStep
<1>12. CASE (Kernel \/ CleanupLate) /\ UNCHANGED loop
  BY <1>12, ForkKeeps, LeaderExitsKeeps, OthersExitKeeps, ReuseKeeps, CleanupLateKeeps
     DEF Kernel
<1>13. CASE \E t \in Timers : Elapse(t)
  BY <1>13, ElapseKeeps
<1>14. CASE UNCHANGED vars
  BY <1>14
     DEF vars, loop, kernel, owner, cleanup, commandVars, IInv, PrepareTypeOK, CommandTypeOK,
         Outcomes, Causes, Commanded, RetiredIsGone, SuccessIsHonest, NoStrayKill, Placed,
             Built, Settled, Hearing
<1>15. QED
  BY <1>1, <1>2, <1>3, <1>4, <1>5, <1>6, <1>7, <1>8, <1>9, <1>10, <1>11, <1>12, <1>13,
      <1>14 DEF Next, Thread, Environment, Quiet, loop

----
(* The theorems. *)

\* The invariant the others follow from.
THEOREM Invariant == Spec => []IInv
<1>1. Init => IInv
  BY InitHolds
<1>2. IInv /\ [Next]_vars => IInv'
  BY NextKeeps
<1>3. QED
  BY <1>1, <1>2, PTL DEF Spec

\* Every variable has its type.
THEOREM TypeCorrect == Spec => []PrepareTypeOK
<1>1. IInv => PrepareTypeOK
  BY DEF IInv, Commanded
<1>2. QED
  BY <1>1, Invariant, PTL

\* A group whose cleanup succeeded is gone, whatever fails and however slowly
\* processes die.
THEOREM Gone == Spec => []RetiredIsGone
<1>1. IInv => RetiredIsGone
  BY DEF IInv, Commanded
<1>2. QED
  BY <1>1, Invariant, PTL

\* A success means that the command exited with status zero and left nothing behind.
THEOREM Honest == Spec => []SuccessIsHonest
<1>1. IInv => SuccessIsHonest
  BY DEF IInv, Commanded
<1>2. QED
  BY <1>1, Invariant, PTL

\* SIGKILL reaches no unrelated group, however identifiers are reused.
THEOREM Unharmed == Spec => []NoStrayKill
<1>1. IInv => NoStrayKill
  BY DEF IInv, Commanded
<1>2. QED
  BY <1>1, Invariant, PTL

\* prepare returns only when every command it spawned was signalled and has a result.
THEOREM Supervised == Spec => []NoneUnsupervised
<1>1. IInv => NoneUnsupervised
  BY DEF IInv, NoneUnsupervised, Placed, Commanded, Returned, Idle, Settled, Hearing
<1>2. QED
  BY <1>1, Invariant, PTL

----
(* Who is to blame, and what was ready, on top of the invariant. *)

Blamed == \E d \in Commands : outcome[d] = "own"

\* An interruption of a peer is blamed on a command that failed by itself; only
\* the build and the command in the boot's variable are ever heard.
Blame ==
    /\ cause = "peerFailed" => Blamed
    /\ (\E c \in Commands : outcome[c] = "peerFailed") => Blamed
    /\ Failed(readied) => Blamed
    /\ step # "idle" /\ cause # "drop" => subject \in {Build, slot}
    /\ pc = "abandon" => Failed(readied)
    /\ pc = "cancel" => Failed(Built) \/ Failed(readied)
    /\ pc = "cancelled" => Failed(Built)

\* The readiness takes the place of a boot that succeeded, or of one that was not
\* needed; a success that is not its own counts only beside a failed build.
Successive ==
    /\ ~pending /\ readied = "none" => slot = Ready
    /\ needed /\ slot = Ready => outcome[Boot] = "ok"
    /\ readied = "ok" => Failed(Built) \/ (slot = Ready /\ outcome[Ready] = "ok")

Told == Blame /\ Successive

\* What the cases use of the types: the three commands differ, and the boot's
\* variable never holds the build.
LEMMA Distinct ==
    ASSUME IInv
    PROVE  /\ Build \in Commands /\ Boot \in Commands /\ Ready \in Commands
           /\ Build # Boot /\ Build # Ready /\ Boot # Ready
           /\ slot \in {Boot, Ready}
           /\ outcome \in [Commands -> Outcomes]
           /\ \A c \in Commands : outcome[c] \in {"none", "ok", "own", "peerFailed"}
<1>1. outcome \in [Commands -> Outcomes] /\ slot \in {Boot, Ready}
  BY DEF IInv, PrepareTypeOK, CommandTypeOK
<1>2. \A c \in Commands : outcome[c] \in Outcomes
  BY <1>1
<1>3. QED
  BY <1>1, <1>2, PrepareAssumption DEF Outcomes, Causes

\* A step of a process, of the clock, or of a cleanup that goes on.
LEMMA QuietTold ==
    ASSUME Told, UNCHANGED <<outcome, cause, needed, pc, pending, slot, readied>>,
           step' # "idle" => step # "idle" /\ subject' = subject
    PROVE  Told'
  BY DEF Told, Blame, Successive, Blamed, Failed, Built

\* Init: nothing is told.
LEMMA InitTold == Init => Told
  BY PrepareAssumption DEF Init, First, CommandInit, Told, Blame, Successive, Failed, Built

\* A command that has no result yet gets one: a failure is told as an
\* interruption only when there is somebody to blame.
LEMMA VerdictTold ==
    ASSUME IInv, Told, NEW c \in {Build, slot}, NEW v \in {"ok", "own", "peerFailed"},
           outcome[c] = "none", outcome' = [outcome EXCEPT ![c] = v],
           v = "peerFailed" => Blamed,
           cause' = "none", step' = "idle",
           UNCHANGED <<needed, pc, pending, slot, readied>>
    PROVE  Told'
<1>1. \A d \in Commands : outcome'[d] = IF d = c THEN v ELSE outcome[d]
  BY Distinct
<1>2. Blamed => Blamed'
  BY <1>1, Distinct DEF Blamed
<1>3. v = "own" => Blamed'
  BY <1>1, Distinct DEF Blamed
<1>4. Failed(Built) => Failed(Built')
  BY <1>1, Distinct DEF Failed, Built
<1>5. (\E d \in Commands : outcome'[d] = "peerFailed") => Blamed'
  BY <1>1, <1>2 DEF Told, Blame
<1>6. Blame'
  BY <1>2, <1>4, <1>5 DEF Told, Blame, Failed
<1>7. slot = Ready => outcome'[Boot] = outcome[Boot]
  BY <1>1, Distinct
<1>8. outcome[Ready] = "ok" => outcome'[Ready] = "ok"
  BY <1>1, Distinct
<1>9. Successive'
  BY <1>4, <1>7, <1>8 DEF Told, Successive
<1>10. QED
  BY <1>6, <1>9 DEF Told

\* The end of a cleanup gives its command a result, the first it has, unless
\* the owner is being dropped.
LEMMA ReturnTold ==
    ASSUME IInv, Told, step # "idle", NEW r, Return(r), UNCHANGED loop
    PROVE  Told'
<1>1. cause' = "none" /\ step' = "idle" /\ UNCHANGED <<needed, pc, pending, slot, readied>>
  BY DEF Return, Leave, loop
<1>2. CASE cause = "drop"
  <2>1. outcome' = outcome
    BY <1>2 DEF Return
  <2>2. QED
    BY <1>1, <2>1 DEF Told, Blame, Successive, Blamed, Failed, Built
<1>3. CASE cause # "drop"
  <2>1. outcome' = [outcome EXCEPT ![subject] = Verdict(r)] /\ outcome[subject] = "none"
    BY <1>3 DEF Return, IInv, Commanded
  <2>2. subject \in {Build, slot}
    BY <1>3 DEF Told, Blame
  <2>3. cause \in {"none", "own", "peerFailed"}
    BY <1>3 DEF IInv, PrepareTypeOK, CommandTypeOK, Causes
  <2>4. Verdict(r) \in {"ok", "own", "peerFailed"}
        /\ (Verdict(r) = "peerFailed" => cause = "peerFailed")
    BY <2>3 DEF Verdict
  <2>5. QED
    BY <1>1, <2>1, <2>2, <2>4, VerdictTold DEF Told, Blame
<1>4. QED
  BY <1>2, <1>3

\* The system calls of a cleanup.
LEMMA CleanupTold ==
    ASSUME IInv, Told, CleanupStep, UNCHANGED loop
    PROVE  Told'
<1>1. step # "idle"
  BY DEF CleanupStep, Confirm, Kill, Wait, Probe
<1>2. CASE \E next, r : next # "idle" /\ Continue(next, r)
  BY <1>1, <1>2, QuietTold DEF Continue, loop
<1>3. CASE \E r : Return(r)
  BY <1>1, <1>3, ReturnTold
<1>4. (\E next, r : next # "idle" /\ Continue(next, r)) \/ (\E r : Return(r))
  <2>1. CASE Confirm
    BY <2>1 DEF Confirm
  <2>2. CASE Kill
    <3>1. Continue("wait", [report EXCEPT !.attempted = TRUE])
      BY <2>2 DEF Kill
    <3>2. QED
      BY <3>1
  <2>3. CASE Wait
    <3>1. \/ Continue("probe",
               [report EXCEPT !.reaped = leader[subject] \in {"exited", "reaped"}])
          \/ Return([report EXCEPT !.error = TRUE])
      BY <2>3 DEF Wait
    <3>2. QED
      BY <3>1
  <2>4. CASE Probe
    <3>1. \E seen : Return(seen) \/ Continue("wait", seen)
      BY <2>4 DEF Probe
    <3>2. QED
      BY <3>1
  <2>5. QED
    BY <2>1, <2>2, <2>3, <2>4 DEF CleanupStep
<1>5. QED
  BY <1>2, <1>3, <1>4

\* The thread goes on after it entered the cleanup of the build or of the boot,
\* or of nothing.
LEMMA EnterTold ==
    ASSUME Told, UNCHANGED <<outcome, needed, pending, slot, readied>>,
           cause' = "peerFailed" => Blamed,
           step' # "idle" /\ cause' # "drop" => subject' \in {Build, slot},
           pc' = "abandon" => Failed(readied),
           pc' = "cancel" => Failed(Built) \/ Failed(readied),
           pc' = "cancelled" => Failed(Built)
    PROVE  Told'
  BY DEF Told, Blame, Successive, Blamed, Failed, Built


\* The build is spawned, or nothing is.
LEMMA StartBuildTold == ASSUME IInv, Told, StartBuild PROVE Told'
<1>1. step = "idle" /\ pc = "start" /\ UNCHANGED <<needed, pending, slot, readied>>
      /\ pc' \in {"startBoot", "done"}
  BY DEF StartBuild, Idle, Goto
<1>2. CASE Spawn(Build)
  BY <1>1, <1>2, EnterTold DEF Spawn, owner, cleanup, Told, Blame
<1>3. CASE FailBeforeSpawn(Build, "own")
  <2>1. outcome' = [outcome EXCEPT ![Build] = "own"] /\ cause' = cause /\ step' = step
        /\ outcome[Build] = "none"
    BY <1>3 DEF FailBeforeSpawn, cleanup
  <2>2. \A d \in Commands : outcome'[d] = IF d = Build THEN "own" ELSE outcome[d]
    BY <2>1, Distinct
  <2>3. Blamed'
    BY <2>2, Distinct DEF Blamed
  <2>4. Failed(Built')
    BY <2>2, Distinct DEF Failed, Built
  <2>5. QED
    BY <1>1, <2>1, <2>2, <2>3, <2>4, Distinct DEF Told, Blame, Successive
<1>4. QED
  BY <1>2, <1>3 DEF StartBuild

\* The boot is spawned, or fails by itself.
LEMMA StartBootTold == ASSUME IInv, Told, StartBoot PROVE Told'
<1>1. step = "idle" /\ pc = "startBoot" /\ UNCHANGED <<needed, pending, slot>>
  BY DEF StartBoot, Idle
<1>2. CASE Spawn(slot) /\ Goto("build") /\ UNCHANGED readied
  BY <1>1, <1>2, EnterTold DEF Spawn, owner, cleanup, Told, Blame, Goto
<1>3. CASE StartFails(slot) /\ Goto("abandon")
  <2>1. outcome' = [outcome EXCEPT ![slot] = "own"] /\ cause' = cause /\ step' = step
        /\ outcome[slot] = "none" /\ readied' = "own" /\ pc' = "abandon"
    BY <1>3 DEF FailBeforeSpawn, StartFails, cleanup, Goto
  <2>2. \A d \in Commands : outcome'[d] = IF d = slot THEN "own" ELSE outcome[d]
    BY <2>1, Distinct
  <2>3. Blamed'
    BY <2>2, Distinct DEF Blamed
  <2>4. Failed(readied')
    BY <2>1 DEF Failed
  <2>5. slot = Ready => outcome'[Boot] = outcome[Boot]
    BY <2>2, Distinct
  <2>6. QED
    BY <1>1, <2>1, <2>3, <2>4, <2>5 DEF Told, Blame, Successive
<1>4. QED
  BY <1>2, <1>3 DEF StartBoot

\* The build of a boot that did not start is interrupted.
LEMMA AbandonTold == ASSUME IInv, Told, Abandon PROVE Told'
<1>1. pc = "abandon" /\ pc' = "drop" /\ UNCHANGED <<needed, pending, slot, readied>>
  BY DEF Abandon, Idle, Goto
<1>2. Blamed
  BY <1>1 DEF Told, Blame
<1>3. subject' = Build /\ UNCHANGED outcome
  BY DEF Abandon, Begin, owner
<1>4. QED
  BY <1>1, <1>2, <1>3, EnterTold

\* A poll that finds a command ended interrupts nobody.
LEMMA PollBuildTold == ASSUME IInv, Told, PollBuild PROVE Told'
<1>1. step = "idle" /\ pc' = "boot" /\ UNCHANGED <<needed, pending, slot, readied>>
  BY DEF PollBuild, Idle, Goto
<1>2. CASE \E why \in Causes \cup {"none"} : PollFinds(Build, why) /\ Begin(Build, why)
  <2>1. subject' = Build /\ UNCHANGED outcome /\ cause' \in {"none", "own"}
    BY <1>2 DEF Begin, PollFinds, owner
  <2>2. QED
    BY <1>1, <2>1, EnterTold
<1>3. CASE UNCHANGED commandVars
  BY <1>1, <1>3, EnterTold DEF commandVars, owner, cleanup, Told, Blame
<1>4. QED
  BY <1>2, <1>3 DEF PollBuild

\* Where the loop goes next.
LEMMA AfterPollsFacts ==
    ASSUME NEW result
    PROVE  /\ AfterPolls(result) \in {"drop", "cancel", "build", "boot"}
           /\ AfterPolls(result) = "cancel" => Failed(Built) \/ Failed(result)
  BY DEF AfterPolls

\* The boot, or the readiness after it, is polled.
LEMMA PollBootTold == ASSUME IInv, Told, PollBoot PROVE Told'
<1>1. step = "idle" /\ UNCHANGED <<needed, pending, slot, readied>>
  BY DEF PollBoot, Idle
<1>2. CASE /\ \E why \in Causes \cup {"none"} : PollFinds(slot, why) /\ Begin(slot, why)
           /\ Goto("booted")
  <2>1. subject' = slot /\ UNCHANGED outcome /\ cause' \in {"none", "own"}
        /\ pc' = "booted"
    BY <1>2 DEF Begin, PollFinds, owner, Goto
  <2>2. QED
    BY <1>1, <2>1, EnterTold
<1>3. CASE Goto(AfterPolls(readied)) /\ UNCHANGED commandVars
  <2>1. /\ pc' \in {"drop", "cancel", "build", "boot"}
        /\ pc' = "cancel" => Failed(Built) \/ Failed(readied)
    BY <1>3, AfterPollsFacts DEF Goto
  <2>2. QED
    BY <1>1, <1>3, <2>1, EnterTold DEF commandVars, owner, cleanup, Told, Blame
<1>4. QED
  BY <1>2, <1>3 DEF PollBoot

\* The answer of the boot or of the readiness is used: the readiness follows a
\* boot only.
LEMMA BootEndedTold == ASSUME IInv, Told, BootEnded PROVE Told'
<1>1. /\ step = "idle" /\ pc = "booted" /\ pending' = FALSE
      /\ readied = "none" /\ outcome[slot] # "none" /\ UNCHANGED needed
  BY Distinct, CommandAssumption
     DEF BootEnded, Idle, IInv, Placed, Hearing, PrepareTypeOK, CommandTypeOK
<1>2. /\ pc' \in {"drop", "cancel", "build", "boot"}
      /\ pc' = "cancel" => Failed(Built) \/ Failed(readied')
  <2>1. pc' = AfterPolls(readied')
    BY DEF BootEnded, Goto
  <2>2. QED
    BY <2>1, AfterPollsFacts
<1>3. CASE Follows
  <2>1. slot = Boot /\ outcome[Boot] = "ok"
    BY <1>3, Distinct DEF Follows, IInv, Placed
  <2>2. CASE Spawn(Ready) /\ slot' = Ready /\ UNCHANGED readied
    <3>1. UNCHANGED outcome /\ UNCHANGED <<cause, step, subject>>
      BY <2>2 DEF Spawn, owner, cleanup
    <3>2. Blame'
      BY <1>1, <1>2, <2>2, <3>1 DEF Told, Blame, Blamed, Failed, Built
    <3>3. Successive'
      BY <1>1, <2>1, <2>2, <3>1 DEF Successive
    <3>4. QED
      BY <3>2, <3>3 DEF Told
  <2>3. ASSUME NEW why \in {"own", "peerFailed"}, FailBeforeSpawn(Ready, why),
               readied' = why, UNCHANGED slot, why = "peerFailed" => Failed(Built)
        PROVE  Told'
    <3>1. outcome' = [outcome EXCEPT ![Ready] = why] /\ UNCHANGED <<cause, step, subject>>
          /\ outcome[Ready] = "none"
      BY <2>3 DEF FailBeforeSpawn, cleanup
    <3>2. \A d \in Commands : outcome'[d] = IF d = Ready THEN why ELSE outcome[d]
      BY <3>1, Distinct
    <3>3. why = "peerFailed" => Blamed
      <4>1. Failed(Built) => outcome[Build] \in {"own", "peerFailed"}
        BY Distinct DEF Failed, Built
      <4>2. QED
        BY <2>3, <4>1, Distinct DEF Told, Blame, Blamed
    <3>4. Blamed'
      <4>1. CASE why = "own"
        BY <3>2, <4>1, Distinct DEF Blamed
      <4>2. CASE why = "peerFailed"
        BY <3>1, <3>2, <3>3, <4>2, Distinct DEF Blamed
      <4>3. QED
        BY <4>1, <4>2
    <3>5. Blame'
      <4>1. Failed(Built) => Failed(Built')
        BY <3>2, Distinct DEF Failed, Built
      <4>2. QED
        BY <1>1, <1>2, <3>1, <3>4, <4>1 DEF Blame
    <3>6. Successive'
      BY <2>1, <2>3, Distinct DEF Successive
    <3>7. QED
      BY <3>5, <3>6 DEF Told
  <2>4. CASE StartFails(Ready) /\ UNCHANGED slot
    BY <2>3, <2>4 DEF StartFails
  <2>5. CASE ~MayReady /\ FailBeforeSpawn(Ready, "peerFailed")
             /\ readied' = "peerFailed" /\ UNCHANGED slot
    BY <2>3, <2>5 DEF MayReady
  <2>6. QED
    BY <1>3, <2>2, <2>4, <2>5 DEF BootEnded
<1>4. CASE ~Follows
  <2>1. readied' = outcome[slot] /\ UNCHANGED slot /\ UNCHANGED outcome
        /\ UNCHANGED <<cause, step, subject>>
    BY <1>4 DEF BootEnded, commandVars, owner, cleanup
  <2>2. Failed(readied') => Blamed
    <3>1. slot \in Commands
      BY Distinct
    <3>2. outcome[slot] \in {"own", "peerFailed", "ok", "none"}
      BY <3>1, Distinct
    <3>3. QED
      BY <2>1, <3>1, <3>2 DEF Told, Blame, Blamed, Failed
  <2>3. Blame'
    BY <1>1, <1>2, <2>1, <2>2 DEF Told, Blame, Blamed, Failed, Built
  <2>4. outcome[slot] = "ok" => slot = Ready
    BY <1>1, <1>4 DEF Follows, Told, Successive
  <2>5. Successive'
    BY <1>1, <2>1, <2>4 DEF Told, Successive
  <2>6. QED
    BY <2>3, <2>5 DEF Told
<1>5. QED
  BY <1>3, <1>4

\* A failure interrupts the command that has no result yet.
LEMMA CancelTold == ASSUME IInv, Told, Cancel PROVE Told'
<1> DEFINE peer == IF Built = "none" THEN Build ELSE slot
<1>1. pc = "cancel" /\ UNCHANGED <<needed, pending, slot, readied>>
  BY DEF Cancel, Idle
<1>2. subject' = peer /\ UNCHANGED outcome
  BY DEF Cancel, Begin, owner
<1>3. pc' = IF peer = Build THEN "drop" ELSE "cancelled"
  BY DEF Cancel, Goto
<1>4. Blamed
  <2>1. Failed(Built) => outcome[Build] \in {"own", "peerFailed"}
    BY Distinct DEF Failed, Built
  <2>2. QED
    BY <1>1, <2>1, Distinct DEF Told, Blame, Blamed
<1>5. pc' = "cancelled" => Failed(Built)
  <2>1. CASE Built = "none"
    BY <1>3, <2>1
  <2>2. CASE Built # "none"
    <3>1. readied = "none"
      BY <1>1, <2>2 DEF IInv, Placed
    <3>2. QED
      BY <1>1, <3>1 DEF Told, Blame, Failed
  <2>3. QED
    BY <2>1, <2>2
<1>6. QED
  BY <1>1, <1>2, <1>3, <1>4, <1>5, EnterTold

\* The result of the interrupted boot is read.
LEMMA BootCancelledTold == ASSUME IInv, Told, BootCancelled PROVE Told'
<1>1. step = "idle" /\ pc = "cancelled" /\ pc' = "drop" /\ UNCHANGED <<needed, pending, slot>>
      /\ readied' = outcome[slot] /\ UNCHANGED <<outcome, cause, step, subject>>
  BY DEF BootCancelled, Idle, Goto, commandVars, owner, cleanup
<1>2. Failed(Built) /\ outcome[slot] # "none"
  BY <1>1, Distinct, CommandAssumption
     DEF Told, Blame, IInv, Placed, Hearing, PrepareTypeOK, CommandTypeOK
<1>3. Blamed
  <2>1. outcome[Build] \in {"own", "peerFailed"}
    BY <1>2, Distinct DEF Failed, Built
  <2>2. QED
    BY <2>1, Distinct DEF Told, Blame, Blamed
<1>4. QED
  BY <1>1, <1>2, <1>3 DEF Told, Blame, Successive, Blamed, Failed, Built

\* Nobody hears what becomes of an owner that is dropped.
LEMMA DropTold == ASSUME IInv, Told, Drop \/ DropBuild PROVE Told'
<1>1. pc' \in {"dropBuild", "done"} /\ step = "idle"
      /\ UNCHANGED <<needed, pending, slot, readied>>
  BY DEF Drop, DropBuild, Idle, Goto
<1>2. \/ cause' = "drop" /\ UNCHANGED outcome
      \/ UNCHANGED <<outcome, cause, step>>
  BY DEF Drop, DropBuild, Begin, commandVars, owner, cleanup
<1>3. QED
  BY <1>1, <1>2, EnterTold DEF Told, Blame

\* Every step of the specification.
LEMMA NextTold == ASSUME IInv, Told, [Next]_vars PROVE Told'
<1>1. CASE CleanupStep /\ UNCHANGED <<needed, pc, pending, slot, readied>>
  BY <1>1, CleanupTold DEF loop
<1>2. CASE Environment
  <2>1. UNCHANGED <<outcome, cause, needed, pc, pending, slot, readied, step, subject>>
    BY <1>2
       DEF Environment, Kernel, Fork, LeaderExits, OthersExit, Reuse, CleanupLate, owner,
           cleanup
  <2>2. QED
    BY <2>1, QuietTold
<1>3. CASE \E t \in Timers : Elapse(t)
  BY <1>3, QuietTold DEF Elapse, cleanup
<1>4. CASE UNCHANGED vars
  BY <1>4, QuietTold DEF vars, commandVars, owner, cleanup
<1>5. QED
  BY <1>1, <1>2, <1>3, <1>4, StartBuildTold, StartBootTold, AbandonTold, PollBuildTold,
     PollBootTold, BootEndedTold, CancelTold, BootCancelledTold, DropTold
     DEF Next, Thread, Quiet

\* Both invariants.
THEOREM Telling == Spec => [](IInv /\ Told)
<1>1. Init => IInv /\ Told
  BY InitHolds, InitTold
<1>2. IInv /\ Told /\ [Next]_vars => IInv' /\ Told'
  BY NextKeeps, NextTold
<1>3. QED
  BY <1>1, <1>2, PTL DEF Spec

\* "Interrupted after peer failure" is reported only beside another command
\* that failed by itself.
THEOREM Caused == Spec => []CancellationHasCause
<1>1. IInv /\ Told => CancellationHasCause
  BY DEF Told, Blame, Blamed, CancellationHasCause, Failed
<1>2. QED
  BY <1>1, Telling, PTL

\* The readiness is not spawned while the boot holds the variable.
Waiting == slot = Boot => leader[Ready] = "unborn"

\* A leader that is not spawned neither exits nor is reaped.
LEMMA CleanupWaits ==
    ASSUME IInv, Waiting, CleanupStep, UNCHANGED loop
    PROVE  Waiting'
<1>1. leader \in [Commands -> {"unborn", "running", "exited", "reaped"}]
  BY DEF IInv, PrepareTypeOK, CommandTypeOK
<1>2. leader[Ready] = "unborn" => leader'[Ready] = "unborn"
  <2>1. CASE Confirm \/ Kill \/ Probe
    BY <2>1 DEF Confirm, Kill, Probe, kernel
  <2>2. CASE Wait
    BY <1>1, <2>2, Distinct DEF Wait
  <2>3. QED
    BY <2>1, <2>2 DEF CleanupStep
<1>3. QED
  BY <1>2 DEF Waiting, loop

\* The kernel spawns nothing of the owner's.
LEMMA EnvironmentWaits ==
    ASSUME IInv, Waiting, Environment
    PROVE  Waiting'
<1>1. leader \in [Commands -> {"unborn", "running", "exited", "reaped"}]
  BY DEF IInv, PrepareTypeOK, CommandTypeOK
<1>2. UNCHANGED leader \/ \E c \in Commands : LeaderExits(c)
  BY DEF Environment, Kernel, Fork, OthersExit, Reuse, CleanupLate, kernel
<1>3. leader[Ready] = "unborn" => leader'[Ready] = "unborn"
  BY <1>1, <1>2, Distinct DEF LeaderExits
<1>4. QED
  BY <1>3 DEF Waiting, Environment

\* The thread spawns the build, the command of the boot's variable, or the
\* readiness that takes the boot's place.
LEMMA StartWaits ==
    ASSUME IInv, Waiting, StartBuild \/ StartBoot \/ BootEnded
    PROVE  Waiting'
<1>1. leader \in [Commands -> {"unborn", "running", "exited", "reaped"}]
  BY DEF IInv, PrepareTypeOK, CommandTypeOK
<1>2. CASE StartBuild
  <2>1. leader'[Ready] = leader[Ready] /\ UNCHANGED slot
    BY <1>1, <1>2, Distinct DEF StartBuild, Spawn, FailBeforeSpawn, kernel
  <2>2. QED
    BY <2>1 DEF Waiting
<1>3. CASE StartBoot
  <2>1. slot = Boot => leader'[Ready] = leader[Ready]
    BY <1>1, <1>3, Distinct DEF StartBoot, StartFails, Spawn, FailBeforeSpawn, kernel
  <2>2. UNCHANGED slot
    BY <1>3 DEF StartBoot
  <2>3. QED
    BY <2>1, <2>2 DEF Waiting
<1>4. CASE BootEnded
  <2>1. slot' = Ready \/ (UNCHANGED leader /\ UNCHANGED slot)
    BY <1>4 DEF BootEnded, StartFails, FailBeforeSpawn, commandVars, kernel
  <2>2. QED
    BY <2>1, Distinct DEF Waiting
<1>5. QED
  BY <1>2, <1>3, <1>4

\* Every step of the specification.
LEMMA NextWaits == ASSUME IInv, Waiting, [Next]_vars PROVE Waiting'
<1>1. CASE CleanupStep /\ UNCHANGED loop
  BY <1>1, CleanupWaits
<1>2. CASE \/ Abandon \/ PollBuild \/ PollBoot \/ Cancel \/ BootCancelled
           \/ Drop \/ DropBuild \/ (\E t \in Timers : Elapse(t)) \/ UNCHANGED vars
  <2>1. UNCHANGED leader /\ UNCHANGED slot
    BY <1>2
       DEF Abandon, PollBuild, PollBoot, Cancel, BootCancelled, Drop, DropBuild, Elapse,
           Begin, vars, commandVars, kernel
  <2>2. QED
    BY <2>1 DEF Waiting
<1>3. QED
  BY <1>1, <1>2, EnvironmentWaits, StartWaits DEF Next, Thread, Quiet, loop

\* prepare succeeds only when the build and the readiness did and, on a device
\* that was not booted, the boot as well; there the readiness is not spawned
\* before the boot has succeeded.
THEOREM Succeeds == Spec => []SuccessMeansReady
<1>1. Init => Waiting
  BY PrepareAssumption DEF Init, CommandInit, Waiting
<1>2. IInv /\ Waiting /\ [Next]_vars => Waiting'
  BY NextWaits
<1>3. Spec => []Waiting
  BY <1>1, <1>2, Invariant, PTL DEF Spec
<1>4. IInv /\ Told /\ Waiting => SuccessMeansReady
  <2> SUFFICES ASSUME IInv, Told, Waiting
               PROVE  SuccessMeansReady
    OBVIOUS
  <2>1. needed /\ leader[Ready] # "unborn" => outcome[Boot] = "ok"
    BY Distinct DEF Waiting, Told, Successive
  <2>2. Prepared => /\ outcome[Build] = "ok" /\ outcome[Ready] = "ok"
                    /\ needed => outcome[Boot] = "ok"
    BY DEF Told, Successive, Prepared, Built, Failed
  <2>3. QED
    BY <2>1, <2>2 DEF SuccessMeansReady
<1>5. QED
  BY <1>3, <1>4, Telling, PTL
====
