---- MODULE SmokePreparation ----
(***************************************************************************)
(* prepare of the iOS smoke test (scripts/src/ci_smoke.rs): the build runs *)
(* beside the boot of the Simulator and, after it, the wait for its        *)
(* readiness.  One thread polls both; the first failure cancels the other. *)
(* The boot and the readiness share one deadline.                          *)
(***************************************************************************)
EXTENDS OwnedCommand

CONSTANTS Build, Boot, Ready

ASSUME PrepareAssumption ==
    /\ Commands = {Build, Boot, Ready}
    /\ Build # Boot /\ Build # Ready /\ Boot # Ready

VARIABLES
    needed,   \* the argument `boot` is Some: the device is not booted yet
    pc,       \* where prepare stands
    pending,  \* pending_ready is Some
    slot,     \* the command in the variable `boot`
    readied   \* boot_result: "none", or the outcome it holds

vars == <<commandVars, needed, pc, pending, slot, readied>>

\* build_result: the build is the only command of its variable.
Built == outcome[Build]

Failed(result) == result \notin {"none", "ok"}

PrepareTypeOK ==
    /\ CommandTypeOK
    /\ needed \in BOOLEAN
    /\ pc \in {"start", "startBoot", "abandon", "build", "boot", "booted", "cancel",
               "cancelled", "drop", "dropBuild", "done"}
    /\ pending \in BOOLEAN
    /\ slot \in {Boot, Ready}
    /\ readied \in Outcomes

\* Mutant of First: the readiness is awaited whether the device booted or not.
FirstReady == Ready

\* The first command of the variable `boot`: a device that is booted already
\* needs no boot.
First == IF needed THEN Boot ELSE Ready

Init ==
    /\ CommandInit
    /\ needed \in BOOLEAN
    /\ pc = "start"
    /\ pending = needed
    /\ slot = First
    /\ readied = "none"

----
(* The thread, between its system calls. *)

Idle(at) == step = "idle" /\ pc = at

Goto(next) == pc' = next

\* The build is spawned, or nothing is.
StartBuild ==
    /\ Idle("start")
    /\ \/ Spawn(Build) /\ Goto("startBoot") /\ UNCHANGED <<needed, pending, slot, readied>>
       \/ FailBeforeSpawn(Build, "own") /\ Goto("done")
          /\ UNCHANGED <<needed, pending, slot, readied>>

\* Running::start with what is left of the boot's budget.
StartFails(c) ==
    /\ FailBeforeSpawn(c, "own")
    /\ readied' = "own"

StartBoot ==
    /\ Idle("startBoot")
    /\ \/ slot \notin overdue /\ Spawn(slot) /\ Goto("build") /\ UNCHANGED readied
       \/ StartFails(slot) /\ Goto("abandon")
    /\ UNCHANGED <<needed, pending, slot>>

\* The boot was not spawned: the build is cancelled, then dropped.
Abandon ==
    /\ Idle("abandon")
    /\ \E why \in Causes \cup {"none"} : CancelFinds(Build, why) /\ Begin(Build, why)
    /\ Goto("drop")
    /\ UNCHANGED <<needed, pending, slot, readied>>

PollBuild ==
    /\ Idle("build")
    /\ \/ \E why \in Causes \cup {"none"} : PollFinds(Build, why) /\ Begin(Build, why)
       \/ PollNothing(Build) /\ UNCHANGED commandVars
    /\ Goto("boot")
    /\ UNCHANGED <<needed, pending, slot, readied>>

\* Mutant of AfterPolls: one result is enough.
AfterPollsOfOne(result) ==
    IF Built # "none" \/ result # "none" THEN "drop" ELSE "build"

\* Mutant of AfterPolls: any result cancels the other command.
AfterPollsEager(result) ==
    IF Built # "none" /\ result # "none" THEN "drop"
    ELSE IF Built # "none" \/ result # "none" THEN "cancel"
    ELSE "build"

\* Both results end the loop, a failure cancels the one that is missing, and
\* otherwise the commands without a result are polled again.
AfterPolls(result) ==
    IF Built # "none" /\ result # "none" THEN "drop"
    ELSE IF Failed(Built) \/ Failed(result) THEN "cancel"
    ELSE IF Built = "none" THEN "build"
    ELSE "boot"

PollBoot ==
    /\ Idle("boot")
    /\ \/ /\ readied = "none"
          /\ \E why \in Causes \cup {"none"} : PollFinds(slot, why) /\ Begin(slot, why)
          /\ Goto("booted")
       \/ /\ readied = "none" => PollNothing(slot)
          /\ Goto(AfterPolls(readied))
          /\ UNCHANGED commandVars
    /\ UNCHANGED <<needed, pending, slot, readied>>

\* The boot is done: readiness may follow unless the build has failed.
MayReady == ~Failed(Built)

\* It was the boot, and the readiness is still to come.
Follows == outcome[slot] = "ok" /\ pending

\* The answer of PollBoot is used.
BootEnded ==
    /\ Idle("booted")
    /\ pending' = FALSE
    /\ UNCHANGED needed
    /\ IF Follows
       THEN IF MayReady
            THEN \/ Ready \notin overdue /\ Spawn(Ready) /\ slot' = Ready /\ UNCHANGED readied
                 \/ StartFails(Ready) /\ UNCHANGED slot
            ELSE FailBeforeSpawn(Ready, "peerFailed") /\ readied' = "peerFailed"
                 /\ UNCHANGED slot
       ELSE readied' = outcome[slot] /\ UNCHANGED <<commandVars, slot>>
    /\ Goto(AfterPolls(readied'))

\* A failure cancels the command that has no result yet.
Cancel ==
    /\ Idle("cancel")
    /\ LET peer == IF Built = "none" THEN Build ELSE slot
       IN /\ \E why \in Causes \cup {"none"} : CancelFinds(peer, why) /\ Begin(peer, why)
          /\ Goto(IF peer = Build THEN "drop" ELSE "cancelled")
    /\ UNCHANGED <<needed, pending, slot, readied>>

BootCancelled ==
    /\ Idle("cancelled")
    /\ readied' = outcome[slot]
    /\ Goto("drop")
    /\ UNCHANGED <<commandVars, needed, pending, slot>>

\* prepare returns: the owners are dropped, the boot's first.  An owner whose
\* cleanup failed makes a last attempt.
Droppable(c) == leader[c] # "unborn" /\ ~finished[c]

Drop ==
    /\ Idle("drop")
    /\ IF Droppable(slot) THEN Begin(slot, "drop") /\ Goto("dropBuild")
       ELSE Goto("dropBuild") /\ UNCHANGED commandVars
    /\ UNCHANGED <<needed, pending, slot, readied>>

DropBuild ==
    /\ Idle("dropBuild")
    /\ IF Droppable(Build) THEN Begin(Build, "drop") ELSE UNCHANGED commandVars
    /\ Goto("done")
    /\ UNCHANGED <<needed, pending, slot, readied>>

Returned == Idle("done")

\* preparation_results of a prepare that has returned.
Prepared == Returned /\ Built = "ok" /\ readied = "ok"

Thread ==
    \/ StartBuild \/ StartBoot \/ Abandon
    \/ PollBuild \/ PollBoot \/ BootEnded
    \/ Cancel \/ BootCancelled
    \/ Drop \/ DropBuild
    \/ CleanupStep /\ UNCHANGED <<needed, pc, pending, slot, readied>>

\* A budget elapses, while somebody may look: the build's counts from its start.
Elapse(timer) ==
    /\ ~(timer \subseteq overdue)
    /\ \E c \in timer : outcome[c] = "none"
    /\ Build \in timer => leader[Build] # "unborn"
    /\ overdue' = overdue \cup timer
    /\ UNCHANGED <<kernel, signalled, finished, outcome, cleanup>>
    /\ UNCHANGED <<needed, pc, pending, slot, readied>>

Timers == {{Build}, {Boot, Ready}}

\* What happens to the processes after prepare has returned is not followed.
Environment ==
    /\ ~Returned
    /\ Kernel \/ CleanupLate
    /\ UNCHANGED <<needed, pc, pending, slot, readied>>

\* prepare has returned and nothing else can happen.
Quiet == Returned /\ UNCHANGED vars

Next == Thread \/ Environment \/ (\E t \in Timers : Elapse(t)) \/ Quiet

Spec == Init /\ [][Next]_vars

\* The thread is scheduled and clocks advance.  Processes need never exit, nor
\* die of a signal in time.
FairSpec ==
    /\ Spec
    /\ WF_vars(Thread)
    /\ \A t \in Timers : WF_vars(Elapse(t))
    /\ WF_vars(CleanupLate /\ UNCHANGED <<needed, pc, pending, slot, readied>>)

----
(* Properties. *)

\* A group whose cleanup succeeded is gone: the leader reaped, nothing left
\* behind (Cleanup::succeeded).
RetiredIsGone ==
    \A c \in Commands : finished[c] => leader[c] = "reaped" /\ others[c] = "none"

\* A success is the command's own: it exited by itself with status zero, and
\* left no process behind that could still write its products (finish).
SuccessIsHonest ==
    \A c \in Commands : outcome[c] = "ok" => finished[c] /\ code[c] = "success"

\* SIGKILL never reaches a group the tooling did not start, however identifiers
\* are reused (exited_without_reaping pins the leader until the signal).
NoStrayKill == ~strays

\* Whatever fails, prepare returns only when each command it spawned went
\* through cleanup and has a verdict.  A process that does not die may still
\* run: the verdict is a failure then (the error paths of prepare).
NoneUnsupervised ==
    Returned => \A c \in Commands : leader[c] # "unborn" => signalled[c] /\ outcome[c] # "none"

\* "Interrupted after peer failure" is reported only beside a failure of another
\* command that is not itself an interruption (cancel, prepare).
CancellationHasCause ==
    Returned =>
        \A c \in Commands : outcome[c] = "peerFailed" =>
            \E d \in Commands : Failed(outcome[d]) /\ outcome[d] # "peerFailed"

\* prepare succeeds only when the build and the readiness did and, on a device
\* that was not booted, the boot as well.  On such a device nobody waits for the
\* readiness before the boot has succeeded; the build runs beside both (prepare,
\* preparation_results).
SuccessMeansReady ==
    /\ Prepared =>
        /\ outcome[Build] = "ok" /\ outcome[Ready] = "ok"
        /\ needed => outcome[Boot] = "ok"
    /\ needed /\ leader[Ready] # "unborn" => outcome[Boot] = "ok"

\* prepare returns, even when a command neither exits nor dies.
PrepareReturns == <>Returned
====
