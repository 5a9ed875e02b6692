----------------------------- MODULE GuestProcess -----------------------------
(***************************************************************************)
(* One execution of a child process in the guest (hand-guest/src/          *)
(* process.rs): the supervisor that spawns it, races its exit against      *)
(* cancellation and a wall-clock deadline, kills its process group,        *)
(* settles the pipe readers and projects one terminal result; and the      *)
(* processes of the execution, which fork, leave the group if they can,    *)
(* write, close their pipes, exit at any time or never.  kind is "shell"   *)
(* (execute_shell) or "bundle" (execute_bundle, whose result is one length *)
(* prefixed frame on fd 3).  A process exits, or ignores SIGTERM, as it    *)
(* likes, so SIGTERM itself changes nothing; SIGKILL dooms.  The           *)
(* diagnostic streams of a bundle only decorate a failure's message.       *)
(***************************************************************************)
EXTENDS Integers

CONSTANTS
    Procs,         \* processes the execution may create
    Leader,        \* the spawned child, leader of its process group
    Kinds,         \* executions explored: subset of {"shell", "bundle"}
    Fences,        \* {TRUE}: a tool identity installs the seccomp fence; {FALSE}: it has none
    OutputLimit,   \* max_output_bytes, in units
    ResultHeadroom, \* RESULT_ENVELOPE_HEADROOM_BYTES
    InlineOverhead, \* what the terminal JSON adds to the output
    Frames,        \* lengths a bundle's result frame may declare
    MaxWrite,      \* bound: units written to one stream
    Deadline,      \* sealed wall-clock deadline
    PollTicks,     \* longest sleep between two looks at the wall clock (1 s)
    Pause,         \* wall-clock length of a snapshot
    MaxPauses,     \* bound: snapshots
    Horizon,       \* bound: the modelled wall clock
    None

\* What any sealed execution has: natural limits, and a leader among the processes.
Parameters ==
    /\ Leader \in Procs /\ Kinds \subseteq {"shell", "bundle"} /\ Fences \subseteq BOOLEAN
    /\ {OutputLimit, ResultHeadroom, InlineOverhead} \subseteq Nat
    /\ {Deadline, PollTicks, Pause, Horizon} \subseteq Nat
    /\ Frames \subseteq Nat
    /\ None \notin {"ok", "bad", "cancelled", "deadline", "completed", "failed"}

ASSUME ProcessAssumption == Parameters

VARIABLES
    kind, fenced, frame, frameOk,  \* what is executed, and what its runner reports
    sup,       \* the supervisor's await
    reason,    \* "cancelled" or "deadline" during teardown
    st,        \* [Procs -> "unborn", "live", "doomed" or "dead"]
    inGroup,   \* [Procs -> BOOLEAN]: member of the leader's process group
    holds,     \* [Procs -> SUBSET of the streams]: open write ends
    status,    \* exit status of the leader: None, "ok" or "bad"
    written, taken, reader,   \* per stream: units written, units read, the reader task
    cancel,    \* the cancellation token
    wall, timer,  \* UTC, and the monotonic ticks left of the deadline sleep
    late,      \* ghost: ticks spent past the deadline before teardown
    pauses,
    outcome,   \* terminal outcome, or None
    output     \* the units returned per stream, or None

procVars == <<st, inGroup, holds, status>>
clockVars == <<wall, timer, late, pauses>>
vars == <<kind, fenced, frame, frameOk, sup, reason, procVars, written, taken, reader,
          cancel, clockVars, outcome, output>>

AllStreams == {"stdout", "stderr", "result"}
Streams == IF kind = "shell" THEN {"stdout", "stderr"} ELSE {"result"}
Least(a, b) == IF a < b THEN a ELSE b

Init ==
    /\ kind \in Kinds /\ fenced \in Fences
    /\ IF kind = "bundle" THEN frame \in Frames /\ frameOk \in BOOLEAN
                         ELSE frame = 0 /\ frameOk = FALSE
    /\ sup = "start" /\ reason = None
    /\ st = [p \in Procs |-> "unborn"] /\ inGroup = [p \in Procs |-> FALSE]
    /\ holds = [p \in Procs |-> {}] /\ status = None
    /\ written = [s \in AllStreams |-> 0] /\ taken = [s \in AllStreams |-> 0]
    /\ reader = [s \in AllStreams |-> "reading"]
    /\ cancel = FALSE /\ wall = 0 /\ timer = 0 /\ late = 0 /\ pauses = 0
    /\ outcome = None /\ output = None

-----------------------------------------------------------------------------
(* The processes of the execution *)

Runs(p) == st[p] = "live"
Last(p) == st' = [st EXCEPT ![p] = "dead"] /\ holds' = [holds EXCEPT ![p] = {}]

Fork(p, q) ==
    /\ Runs(p) /\ st[q] = "unborn"
    /\ st' = [st EXCEPT ![q] = "live"]
    /\ inGroup' = [inGroup EXCEPT ![q] = inGroup[p]]
    /\ holds' = [holds EXCEPT ![q] = holds[p]]
    /\ UNCHANGED <<kind, fenced, frame, frameOk, sup, reason, status, written, taken, reader,
                   cancel, clockVars, outcome, output>>

\* setsid or setpgid by a descendant: the fence answers EPERM.
Leave(p) ==
    /\ Runs(p) /\ p # Leader /\ inGroup[p] /\ ~fenced
    /\ inGroup' = [inGroup EXCEPT ![p] = FALSE]
    /\ UNCHANGED <<kind, fenced, frame, frameOk, sup, reason, st, holds, status, written, taken,
                   reader, cancel, clockVars, outcome, output>>

\* A doomed process may still finish the write it is in; a write after the reader has gone
\* away fails.
WriteUnit(p, s) ==
    /\ st[p] \in {"live", "doomed"} /\ s \in holds[p] /\ reader[s] = "reading"
    /\ written[s] < MaxWrite
    /\ written' = [written EXCEPT ![s] = @ + 1]
    /\ UNCHANGED <<kind, fenced, frame, frameOk, sup, reason, procVars, taken, reader,
                   cancel, clockVars, outcome, output>>

CloseEnd(p, s) ==
    /\ Runs(p) /\ s \in holds[p]
    /\ holds' = [holds EXCEPT ![p] = @ \ {s}]
    /\ UNCHANGED <<kind, fenced, frame, frameOk, sup, reason, st, inGroup, status, written, taken,
                   reader, cancel, clockVars, outcome, output>>

\* A voluntary exit with any status, also in answer to SIGTERM, and a death by SIGKILL.
Exit(p) ==
    /\ Runs(p) /\ Last(p)
    /\ IF p = Leader THEN status' \in {"ok", "bad"} ELSE UNCHANGED status
    /\ UNCHANGED <<kind, fenced, frame, frameOk, sup, reason, inGroup, written, taken, reader,
                   cancel, clockVars, outcome, output>>

DieKilled(p) ==
    /\ st[p] = "doomed" /\ Last(p)
    /\ IF p = Leader THEN status' = "bad" ELSE UNCHANGED status
    /\ UNCHANGED <<kind, fenced, frame, frameOk, sup, reason, inGroup, written, taken, reader,
                   cancel, clockVars, outcome, output>>

-----------------------------------------------------------------------------
(* The pipe readers *)

\* read_bounded takes one unit more than may be returned; read_framed_result takes the
\* declared length.
TakeLimit == IF kind = "shell" THEN OutputLimit + 1 ELSE frame
Eof(s) == taken[s] = written[s] /\ \A p \in Procs : s \notin holds[p]
Spawned == sup \notin {"start", "done"}

Read(s) ==
    /\ Spawned /\ reader[s] = "reading" /\ s \in Streams
    /\ taken[s] < written[s] /\ taken[s] < TakeLimit
    /\ taken' = [taken EXCEPT ![s] = @ + 1]
    /\ UNCHANGED <<kind, fenced, frame, frameOk, sup, reason, procVars, written, reader,
                   cancel, clockVars, outcome, output>>

FrameTooLong == kind = "bundle" /\ taken["result"] > 0 /\ frame > OutputLimit + ResultHeadroom
ReadEnd(s) ==
    /\ Spawned /\ reader[s] = "reading" /\ s \in Streams
    /\ taken[s] = TakeLimit \/ Eof(s) \/ FrameTooLong
    /\ reader' = [reader EXCEPT ![s] =
          IF kind = "bundle" /\ (taken[s] < frame \/ FrameTooLong) THEN "error" ELSE "done"]
    /\ UNCHANGED <<kind, fenced, frame, frameOk, sup, reason, procVars, written, taken,
                   cancel, clockVars, outcome, output>>

\* A read fails, or the task panics (Settled::Stopped).
ReadError(s) ==
    /\ Spawned /\ reader[s] = "reading" /\ s \in Streams
    /\ reader' = [reader EXCEPT ![s] = "error"]
    /\ UNCHANGED <<kind, fenced, frame, frameOk, sup, reason, procVars, written, taken,
                   cancel, clockVars, outcome, output>>

-----------------------------------------------------------------------------
(* The clocks: wall stops at Horizon, past the deadline, where nothing depends on it. *)

Tick ==
    /\ timer > 0 \/ (sup # "running" /\ wall < Horizon)
    /\ wall' = Least(wall + 1, Horizon)
    /\ timer' = IF timer > 0 THEN timer - 1 ELSE 0
    /\ late' = IF sup = "running" /\ wall >= Deadline THEN Least(late + 1, PollTicks + 1) ELSE late
    /\ UNCHANGED <<kind, fenced, frame, frameOk, sup, reason, procVars, written, taken, reader,
                   cancel, pauses, outcome, output>>

\* A snapshot: UTC goes on, the monotonic timers do not.
Suspend ==
    /\ pauses < MaxPauses /\ wall + Pause <= Horizon
    /\ wall' = wall + Pause /\ pauses' = pauses + 1
    /\ UNCHANGED <<kind, fenced, frame, frameOk, sup, reason, procVars, written, taken, reader,
                   cancel, timer, late, outcome, output>>

-----------------------------------------------------------------------------
(* The supervisor *)

Cancel ==
    /\ ~cancel /\ outcome = None
    /\ cancel' = TRUE
    /\ UNCHANGED <<kind, fenced, frame, frameOk, sup, reason, procVars, written, taken, reader,
                   clockVars, outcome, output>>

\* run_execution and failure: one terminal projection; without output unless the child's
\* own result is returned.
End(out, result) == sup' = "done" /\ outcome' = out /\ output' = result

\* Mutant: the supervisor sleeps for all the time that is left.
NextSleep_WholeRest == Deadline - wall
\* wait_for_wall_deadline sleeps for the rest of the time, but never longer than PollTicks.
NextSleep == Least(Deadline - wall, PollTicks)

\* execution_deadline_at, then spawn with the child boundary installed.
Spawn ==
    /\ sup = "start" /\ wall < Deadline
    /\ sup' = "running"
    /\ st' = [st EXCEPT ![Leader] = "live"]
    /\ inGroup' = [inGroup EXCEPT ![Leader] = TRUE]
    /\ holds' = [holds EXCEPT ![Leader] = Streams]
    /\ timer' = NextSleep
    /\ UNCHANGED <<kind, fenced, frame, frameOk, reason, status, written, taken, reader, cancel,
                   wall, late, pauses, outcome, output>>

SpawnRefused ==
    /\ sup = "start"
    /\ End(IF wall >= Deadline THEN "deadline" ELSE "failed", None)
    /\ UNCHANGED <<kind, fenced, frame, frameOk, reason, procVars, written, taken, reader, cancel,
                   clockVars>>

\* The three branches of select!; SIGTERM is sent on entering teardown.
LeaderExited ==
    /\ sup = "running" /\ st[Leader] = "dead"
    /\ sup' = "sweep"
    /\ UNCHANGED <<kind, fenced, frame, frameOk, reason, procVars, written, taken, reader, cancel,
                   clockVars, outcome, output>>

TearDown(why) ==
    /\ sup = "running"
    /\ sup' = "term" /\ reason' = why
    /\ UNCHANGED <<kind, fenced, frame, frameOk, procVars, written, taken, reader, cancel,
                   clockVars, outcome, output>>

CancelObserved == cancel /\ TearDown("cancelled")
DeadlineObserved == timer = 0 /\ wall >= Deadline /\ TearDown("deadline")

PollAgain ==
    /\ sup = "running" /\ timer = 0 /\ wall < Deadline
    /\ timer' = NextSleep
    /\ UNCHANGED <<kind, fenced, frame, frameOk, sup, reason, procVars, written, taken, reader,
                   cancel, wall, late, pauses, outcome, output>>

\* kill(-pgid, SIGKILL) reaches every member of the group, and no fork escapes it.
Doomed == [p \in Procs |-> IF st[p] = "live" /\ inGroup[p] THEN "doomed" ELSE st[p]]

\* Mutant: no kill once the leader has exited.
KillGroup_UnlessReaped ==
    /\ sup = "term"
    /\ sup' = "killed"
    /\ st' = IF st[Leader] = "dead" THEN st ELSE Doomed
    /\ UNCHANGED <<kind, fenced, frame, frameOk, reason, inGroup, holds, status, written, taken,
                   reader, cancel, clockVars, outcome, output>>
\* terminate_process_group: the leader had two seconds to leave; SIGKILL in any case.
KillGroup ==
    /\ sup = "term"
    /\ sup' = "killed"
    /\ st' = Doomed
    /\ UNCHANGED <<kind, fenced, frame, frameOk, reason, inGroup, holds, status, written, taken,
                   reader, cancel, clockVars, outcome, output>>

\* The leader is waited for without a bound, the others for a second at most; then the
\* readers are aborted.
TornDown ==
    /\ sup = "killed" /\ st[Leader] = "dead"
    /\ End(reason, None)
    /\ reader' = [s \in AllStreams |-> "aborted"]
    /\ UNCHANGED <<kind, fenced, frame, frameOk, reason, procVars, written, taken, cancel, clockVars>>

\* sweep_process_group after the leader's own exit.
Sweep ==
    /\ sup = "sweep"
    /\ sup' = "settle"
    /\ st' = Doomed
    /\ UNCHANGED <<kind, fenced, frame, frameOk, reason, inGroup, holds, status, written, taken,
                   reader, cancel, clockVars, outcome, output>>

\* Mutant: the readers are waited for without a limit.
SettleTimeout_Never(s) == FALSE /\ UNCHANGED vars
\* settle: the window closes before the reader is done.
SettleTimeout(s) ==
    /\ sup = "settle" /\ reader[s] = "reading" /\ s \in Streams
    /\ reader' = [reader EXCEPT ![s] = "unsettled"]
    /\ UNCHANGED <<kind, fenced, frame, frameOk, sup, reason, procVars, written, taken, cancel,
                   clockVars, outcome, output>>

Total == taken["stdout"] + taken["stderr"]
InlineFits == Total + InlineOverhead <= OutputLimit
AllDone == \A s \in Streams : reader[s] = "done"

\* The tail of execute_shell_inner: every error is a failure without output.
ShellResult ==
    IF AllDone /\ Total <= OutputLimit /\ InlineFits
    THEN [out |-> IF status = "ok" THEN "completed" ELSE "failed", units |-> taken]
    ELSE [out |-> "failed", units |-> None]

\* The tail of execute_bundle_inner: the frame is authoritative only with a successful exit.
BundleResult ==
    IF AllDone /\ frameOk /\ status = "ok" /\ frame <= OutputLimit
    THEN [out |-> "completed", units |-> taken]
    ELSE [out |-> "failed", units |-> None]

Finish ==
    /\ sup = "settle" /\ \A s \in Streams : reader[s] # "reading"
    /\ LET r == IF kind = "shell" THEN ShellResult ELSE BundleResult IN End(r.out, r.units)
    /\ UNCHANGED <<kind, fenced, frame, frameOk, reason, procVars, written, taken, reader, cancel,
                   clockVars>>

-----------------------------------------------------------------------------
Supervise ==
    \/ Spawn \/ SpawnRefused \/ LeaderExited \/ CancelObserved \/ DeadlineObserved \/ PollAgain
    \/ KillGroup \/ TornDown \/ Sweep \/ Finish
Readers == \E s \in AllStreams : Read(s) \/ ReadEnd(s)

Next ==
    \/ Supervise \/ Cancel \/ Tick \/ Suspend \/ Readers
    \/ \E s \in AllStreams : ReadError(s) \/ SettleTimeout(s)
    \/ \E p \in Procs : \/ Leave(p) \/ Exit(p) \/ DieKilled(p)
                        \/ \E q \in Procs : Fork(p, q)
                        \/ \E s \in AllStreams : WriteUnit(p, s) \/ CloseEnd(p, s)

Spec == Init /\ [][Next]_vars

\* The executor's tasks are polled, time passes, a killed process dies and the settle window
\* closes; the processes of the execution owe nothing.
Fairness ==
    /\ WF_vars(Supervise) /\ WF_vars(Readers) /\ WF_vars(Tick)
    /\ \A p \in Procs : WF_vars(DieKilled(p))
    /\ \A s \in AllStreams : WF_vars(SettleTimeout(s))

FairSpec == Spec /\ Fairness

-----------------------------------------------------------------------------
(* Properties *)

\* Every variable has its type.
TypeOK ==
    /\ sup \in {"start", "running", "term", "killed", "sweep", "settle", "done"}
    /\ reason \in {None, "cancelled", "deadline"}
    /\ st \in [Procs -> {"unborn", "live", "doomed", "dead"}] /\ inGroup \in [Procs -> BOOLEAN]
    /\ \A p \in Procs : holds[p] \subseteq Streams /\ (st[p] \in {"unborn", "dead"} => holds[p] = {})
    /\ status \in {None, "ok", "bad"} /\ (status = None <=> st[Leader] # "dead")
    /\ \A s \in AllStreams : taken[s] \in 0..written[s]
    /\ wall \in 0..Horizon /\ timer \in 0..PollTicks
    /\ outcome \in {None, "completed", "failed", "cancelled", "deadline"}
    /\ (outcome # None) = (sup = "done")

\* "the supervisor can sweep them before returning a terminal receipt": once an execution
\* behind the fence has its terminal result, none of its processes runs on: each is dead or
\* has a SIGKILL it cannot escape, also when the leader left first, forked on SIGTERM or
\* exited while a descendant ignored it.
NoSurvivors == outcome # None /\ fenced => \A p \in Procs : ~Runs(p)

\* "never a Completed receipt carrying silently truncated output": output that is returned
\* is everything any process of the execution wrote to that stream, and within the limit.
OutputIsWhole ==
    output # None =>
        /\ \A s \in Streams : output[s] = IF kind = "shell" THEN written[s] ELSE frame
        /\ kind = "shell" => Total <= OutputLimit

\* "the first poll after auto-resume immediately observes an elapsed sealed wall deadline":
\* however long a snapshot paused the timer, the supervisor lets an execution run at most
\* one poll interval of unpaused time past its deadline before it starts to kill it.
DeadlineBites == late <= PollTicks

\* Every execution ends, whatever its processes do: they may never exit, ignore SIGTERM,
\* leave the group and hold the pipes open.
ExecutionEnds == <>(outcome # None)

\* The terminal result of run_execution is final: no process behind the fence outlives it, and the
\* output it carries is complete; every variable has its type.
ResultIsFinal == TypeOK /\ NoSurvivors /\ OutputIsWhole
=============================================================================
