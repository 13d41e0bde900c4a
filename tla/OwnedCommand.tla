---- MODULE OwnedCommand ----
(***************************************************************************)
(* Commands owned by the test tooling                                      *)
(* (scripts/src/ci_smoke/owned_command.rs): every command leads a process  *)
(* group of its own, is observed without being reaped, and ends with one   *)
(* SIGKILL to its group followed by a bounded wait until the leader is     *)
(* reaped and the group is gone.                                           *)
(*                                                                         *)
(* The kernel is part of the model: processes exit, leave others behind,   *)
(* may take any time to die of a signal, and the identifier of a group     *)
(* that is gone may be given to somebody else.  Every system call of the   *)
(* owner is an action.  One thread owns all commands; it is in at most one *)
(* operation at a time.                                                    *)
(***************************************************************************)
EXTENDS Naturals

CONSTANTS
    Commands,
    NoCommand \* the operand of the thread while it is in no operation

ASSUME CommandAssumption == NoCommand \notin Commands

VARIABLES
    \* the kernel
    leader,  \* the spawned process: "unborn", "running", "exited", "reaped"
    code,    \* its exit: "none", "success", "failure"
    others,  \* the rest of its group: "none", "alive", "exited" (uncollected)
    doomed,  \* SIGKILL was delivered to the live processes of the group
    reused,  \* the group's identifier belongs to an unrelated group
    strays,  \* history: SIGKILL was delivered to an unrelated group
    \* the owner
    overdue,   \* deadline: the commands whose budget has elapsed
    signalled, \* OwnedGroup.signalled
    finished,  \* OwnedGroup.finished
    outcome,   \* what finish returned: "none", "ok", or a failure
    subject,   \* the command whose cleanup runs
    step,      \* "idle", "confirm", "kill", "wait", "probe"
    cause,     \* the cause handed to finish, or "drop": nobody hears the result
    report,    \* the Cleanup under construction
    late       \* the deadline of the cleanup has passed

kernel == <<leader, code, others, doomed, reused, strays>>
cleanup == <<subject, step, cause, report, late>>
owner == <<overdue, signalled, finished, outcome>>
commandVars == <<kernel, owner, cleanup>>

\* The causes of a failure: the command's own (spawn, deadline, observation,
\* exit status, cleanup) or PeerFailed.
Causes == {"own", "peerFailed"}
Outcomes == {"none", "ok"} \cup Causes

Report == [attempted : BOOLEAN, reaped : BOOLEAN, gone : BOOLEAN, error : BOOLEAN]
EmptyReport == [attempted |-> FALSE, reaped |-> FALSE, gone |-> FALSE, error |-> FALSE]

CommandTypeOK ==
    /\ leader \in [Commands -> {"unborn", "running", "exited", "reaped"}]
    /\ code \in [Commands -> {"none", "success", "failure"}]
    /\ others \in [Commands -> {"none", "alive", "exited"}]
    /\ doomed \in [Commands -> BOOLEAN]
    /\ reused \in [Commands -> BOOLEAN]
    /\ strays \in BOOLEAN
    /\ overdue \subseteq Commands
    /\ signalled \in [Commands -> BOOLEAN]
    /\ finished \in [Commands -> BOOLEAN]
    /\ outcome \in [Commands -> Outcomes]
    /\ subject \in Commands \cup {NoCommand}
    /\ step \in {"idle", "confirm", "kill", "wait", "probe"}
    /\ (step = "idle") <=> (subject = NoCommand)
    /\ cause \in {"none", "drop"} \cup Causes
    /\ report \in Report
    /\ late \in BOOLEAN

CommandInit ==
    /\ leader = [c \in Commands |-> "unborn"]
    /\ code = [c \in Commands |-> "none"]
    /\ others = [c \in Commands |-> "none"]
    /\ doomed = [c \in Commands |-> FALSE]
    /\ reused = [c \in Commands |-> FALSE]
    /\ strays = FALSE
    /\ overdue = {}
    /\ signalled = [c \in Commands |-> FALSE]
    /\ finished = [c \in Commands |-> FALSE]
    /\ outcome = [c \in Commands |-> "none"]
    /\ subject = NoCommand
    /\ step = "idle"
    /\ cause = "none"
    /\ report = EmptyReport
    /\ late = FALSE

----
(* The kernel. *)

\* Some process of the group can still run.
Live(c) == leader[c] = "running" \/ others[c] = "alive"

\* The group has a process, if only one that exited and was not collected.
Exists(c) == leader[c] \in {"running", "exited"} \/ others[c] # "none"

\* What kill(-group, _) may answer.  Darwin denies signals to a group whose
\* processes have all exited; a group of somebody else may deny them, too.
Answers(c) ==
    IF Live(c) THEN {"sent"}
    ELSE IF Exists(c) \/ reused[c] THEN {"sent", "denied"}
    ELSE {"gone"}

\* The leader starts another process in its group.
Fork(c) ==
    /\ leader[c] = "running" /\ ~doomed[c]
    /\ others' = [others EXCEPT ![c] = "alive"]
    /\ UNCHANGED <<leader, code, doomed, reused, strays, owner, cleanup>>

\* The leader exits: by itself with any code, or of the signal.
LeaderExits(c) ==
    /\ leader[c] = "running"
    /\ leader' = [leader EXCEPT ![c] = "exited"]
    /\ \E result \in IF doomed[c] THEN {"failure"} ELSE {"success", "failure"} :
           code' = [code EXCEPT ![c] = result]
    /\ doomed' = [doomed EXCEPT ![c] = @ /\ others[c] = "alive"]
    /\ UNCHANGED <<others, reused, strays, owner, cleanup>>

\* The other processes exit, or leave the group, and are collected.
OthersExit(c) ==
    /\ \/ others[c] = "alive" /\ \E o \in {"exited", "none"} :
              others' = [others EXCEPT ![c] = o]
       \/ others[c] = "exited" /\ others' = [others EXCEPT ![c] = "none"]
    /\ doomed' = [doomed EXCEPT ![c] = @ /\ leader[c] = "running"]
    /\ UNCHANGED <<leader, code, reused, strays, owner, cleanup>>

\* The identifier of a group that is gone is given to an unrelated group.  Once
\* the owner has finished nobody looks at it.
Reuse(c) ==
    /\ leader[c] = "reaped" /\ others[c] = "none"
    /\ ~reused[c] /\ ~finished[c]
    /\ reused' = [reused EXCEPT ![c] = TRUE]
    /\ UNCHANGED <<leader, code, others, doomed, strays, owner, cleanup>>

Kernel == \E c \in Commands :
    Fork(c) \/ LeaderExits(c) \/ OthersExit(c) \/ Reuse(c)

\* Time passes the deadline of a cleanup.
CleanupLate ==
    /\ step # "idle" /\ ~late
    /\ late' = TRUE
    /\ UNCHANGED <<kernel, owner, subject, step, cause, report>>

----
(* The operations of Running, up to their cleanup. *)

\* start_with_capture_limit of a command with budget left: it is spawned.
Spawn(c) ==
    /\ leader[c] = "unborn" /\ outcome[c] = "none"
    /\ leader' = [leader EXCEPT ![c] = "running"]
    /\ UNCHANGED <<code, others, doomed, reused, strays, owner, cleanup>>

\* Failure::before_spawn.
FailBeforeSpawn(c, why) ==
    /\ leader[c] = "unborn" /\ outcome[c] = "none"
    /\ outcome' = [outcome EXCEPT ![c] = why]
    /\ UNCHANGED <<kernel, overdue, signalled, finished, cleanup>>

\* cleanup is entered; signalled is read before anything else.
Begin(c, why) ==
    /\ subject' = c
    /\ step' = IF signalled[c] THEN "wait" ELSE "confirm"
    /\ cause' = why
    /\ report' = EmptyReport
    /\ late' = FALSE
    /\ UNCHANGED <<kernel, owner>>

\* poll: finished, failed to observe, overdue, or none of them.  Observing an
\* exit (exited_without_reaping) does not consume it.
PollFinds(c, why) ==
    \/ leader[c] = "exited" /\ why = "none"
    \/ why = "own" \* the observation failed, or the budget has elapsed
PollNothing(c) == leader[c] # "exited" /\ c \notin overdue

\* cancel: a peer that has completed keeps its own result.
CancelFinds(c, why) ==
    \/ leader[c] = "exited" /\ why = "none"
    \/ why = "own"
    \/ leader[c] # "exited" /\ why = "peerFailed"

----
(* OwnedGroup::cleanup, one system call at a time. *)

\* Mutant of Retired: the leader alone decides.
LeaderRetired(r) == r.reaped

\* The loop's exit: status known and group observed to be gone.
Retired(r) == r.reaped /\ r.gone

\* Cleanup::succeeded
Succeeded(r) == r.attempted /\ Retired(r) /\ ~r.error

\* Mutant of Verdict: the exit status alone decides.
VerdictOfExit(r) ==
    IF cause # "none" THEN cause
    ELSE IF code[subject] = "failure" THEN "own"
    ELSE "ok"

\* finish: the first cause that applies.
Verdict(r) ==
    IF cause # "none" THEN cause
    ELSE IF ~Succeeded(r) \/ code[subject] = "failure" THEN "own"
    ELSE "ok"

\* Mutant of Leave: the command stays the subject.
LeaveSubject ==
    /\ step' = "idle" /\ UNCHANGED subject
    /\ cause' = "none" /\ report' = EmptyReport /\ late' = FALSE

\* The thread is out of the operation.
Leave ==
    /\ step' = "idle" /\ subject' = NoCommand
    /\ cause' = "none" /\ report' = EmptyReport /\ late' = FALSE

\* The cleanup returns its report: to finish, or to the drop of the owner,
\* which discards it.
Return(r) ==
    /\ finished' = [finished EXCEPT ![subject] = Succeeded(r)]
    /\ outcome' = IF cause = "drop" THEN outcome
                  ELSE [outcome EXCEPT ![subject] = Verdict(r)]
    /\ Leave

Continue(next, r) ==
    /\ step' = next /\ report' = r
    /\ UNCHANGED <<finished, outcome, subject, cause, late>>

\* Mutant of Confirm: the exit is observed by reaping the leader.
ConfirmByReaping ==
    /\ step = "confirm"
    /\ signalled' = [signalled EXCEPT ![subject] = TRUE]
    /\ leader' = IF leader[subject] = "exited"
                 THEN [leader EXCEPT ![subject] = "reaped"] ELSE leader
    /\ Continue("kill", report)
    /\ UNCHANGED <<code, others, doomed, reused, strays, overdue>>

\* Ownership is reconfirmed, immediately before signalling, once: there is a
\* leader to observe, running or not, and it is not reaped by that.
Confirm ==
    /\ step = "confirm"
    /\ signalled' = [signalled EXCEPT ![subject] = TRUE]
    /\ \/ leader[subject] # "reaped" /\ Continue("kill", report)
       \/ Return([report EXCEPT !.error = TRUE])
    /\ UNCHANGED <<kernel, overdue>>

\* kill(-group, SIGKILL)
Kill ==
    /\ step = "kill"
    /\ doomed' = [doomed EXCEPT ![subject] = @ \/ Live(subject)]
    /\ strays' = (strays \/ (reused[subject] /\ ~Exists(subject)))
    /\ Continue("wait", [report EXCEPT !.attempted = TRUE])
    /\ UNCHANGED <<leader, code, others, reused, overdue, signalled>>

\* try_wait: reaps an exited leader and remembers its status.
Wait ==
    /\ step = "wait"
    /\ \/ /\ leader' = IF leader[subject] = "exited"
                       THEN [leader EXCEPT ![subject] = "reaped"] ELSE leader
          /\ Continue("probe", [report EXCEPT !.reaped = leader[subject] \in {"exited", "reaped"}])
       \/ /\ leader[subject] # "reaped"
          /\ Return([report EXCEPT !.error = TRUE])
          /\ UNCHANGED leader
    /\ UNCHANGED <<code, others, doomed, reused, strays, overdue, signalled>>

\* Mutant of Enough: the budget of the cleanup is forgotten.
EnoughWhenRetired(r) == Retired(r)

\* The loop ends.
Enough(r) == Retired(r) \/ late

\* kill(-group, 0), and the end of an iteration of the loop.
Probe ==
    /\ step = "probe"
    /\ \E answer \in Answers(subject) :
        LET seen == IF answer = "denied" THEN report
                    ELSE [report EXCEPT !.gone = (answer = "gone")]
        IN IF Enough(seen) THEN Return(seen) ELSE Continue("wait", seen)
    /\ UNCHANGED <<kernel, overdue, signalled>>

CleanupStep == Confirm \/ Kill \/ Wait \/ Probe
====
