------------------------------ MODULE ShellRun ------------------------------
(***************************************************************************)
(* framework/shell.py run(): a child process whose output is streamed, and *)
(* a watchdog thread that kills the child when the time budget ends.  The  *)
(* child may start a process of its own that inherits its standard output  *)
(* (claim.py runs clone.py so); the reader sees the end of the stream only *)
(* when every process that holds the pipe is gone.                         *)
(*                                                                         *)
(* Reading, and a watchdog that is due, take no time: the clock moves only *)
(* when neither can act.  It counts from the start of the watchdog, which  *)
(* is behind the writing of the child's input.                             *)
(***************************************************************************)
EXTENDS Naturals

CONSTANTS
  Timeout,        \* the budget, in ticks
  Grandchildren,  \* may the child start a process that inherits its stdout?
  Check,          \* the check= argument
  MaxLines,       \* bound: lines written to the pipe
  MaxNow          \* bound: the clock

ASSUME BudgetAssumption ==
  /\ Timeout \in Nat /\ MaxNow \in Nat /\ MaxNow > Timeout
  /\ MaxLines \in Nat

VARIABLES
  child,     \* the child: running, then exited (by itself) or killed
  code,      \* its exit status, 0 or 1; a killed child has 9
  grand,     \* the process that inherited stdout
  closed,    \* the child closed its own stdout early
  printed,   \* lines written to the pipe
  pipe,      \* lines not read yet
  reader,    \* run() itself
  broke,     \* what ended its loop early: no, error or interrupt
  timer,     \* the watchdog's thread: off, armed, then cancelled, or through _expire
  timedOut,  \* the flag _expire sets
  outcome,   \* what run() gave its caller
  now

shellVars == <<child, code, grand, closed, printed, pipe, reader, broke, timer, timedOut, outcome, now>>

ShellTypeOK ==
  /\ child \in {"running", "exited", "killed"} /\ code \in {0, 1, 9}
  /\ grand \in {"none", "running", "gone"} /\ closed \in BOOLEAN
  /\ printed \in 0..MaxLines /\ pipe \in 0..printed
  /\ reader \in {"feeding", "reading", "waiting", "closing", "leaving", "done"}
  /\ broke \in {"no", "error", "interrupt"}
  /\ timer \in {"off", "armed", "firing", "flagged", "fired", "cancelled"}
  /\ timedOut \in BOOLEAN
  /\ outcome \in {"none", "result", "error", "timeout", "raised"}
  /\ now \in 0..MaxNow

ShellInit ==
  /\ child = "running" /\ code = 0 /\ grand = "none" /\ closed = FALSE
  /\ printed = 0 /\ pipe = 0
  /\ \/ reader = "feeding" /\ timer = "off"      \* with stdin=
     \/ reader = "reading" /\ timer = "armed"
  /\ broke = "no" /\ timedOut = FALSE
  /\ outcome = "none" /\ now = 0

\* Somebody still holds the writing end of the pipe.
PipeHeld == (child = "running" /\ ~closed) \/ grand = "running"

-----------------------------------------------------------------------------
(* The processes being run.                                                 *)

Prints ==
  /\ PipeHeld /\ printed < MaxLines
  /\ printed' = printed + 1 /\ pipe' = pipe + 1
  /\ UNCHANGED <<child, code, grand, closed, reader, broke, timer, timedOut, outcome, now>>

ClosesStdout ==
  /\ child = "running" /\ ~closed
  /\ closed' = TRUE
  /\ UNCHANGED <<child, code, grand, printed, pipe, reader, broke, timer, timedOut, outcome, now>>

Forks ==
  /\ Grandchildren /\ child = "running" /\ ~closed /\ grand = "none"
  /\ grand' = "running"
  /\ UNCHANGED <<child, code, closed, printed, pipe, reader, broke, timer, timedOut, outcome, now>>

GrandchildEnds ==
  /\ grand = "running"
  /\ grand' = "gone"
  /\ UNCHANGED <<child, code, closed, printed, pipe, reader, broke, timer, timedOut, outcome, now>>

ChildExits ==
  /\ child = "running"
  /\ child' = "exited"
  /\ code' \in {0, 1}
  /\ UNCHANGED <<grand, closed, printed, pipe, reader, broke, timer, timedOut, outcome, now>>

-----------------------------------------------------------------------------
(* run() and its watchdog.                                                  *)

\* The child, or the pipe to it, takes the input; the watchdog starts behind it.
TakesInput ==
  /\ reader = "feeding"
  /\ reader' = "reading" /\ timer' = "armed"
  /\ UNCHANGED <<child, code, grand, closed, printed, pipe, broke, timedOut, outcome, now>>

\* The child does not want it: write raises, with no watchdog.
InputFails ==
  /\ reader = "feeding"
  /\ reader' = "leaving" /\ broke' = "error"
  /\ UNCHANGED <<child, code, grand, closed, printed, pipe, timer, timedOut, outcome, now>>

\* Mutant of EndOfStream: a loop that ends with the child.
EndOfStream_Poll ==
  /\ reader = "reading" /\ child # "running"
  /\ reader' = "waiting"
  /\ UNCHANGED <<child, code, grand, closed, printed, pipe, broke, timer, timedOut, outcome, now>>
\* for raw in proc.stdout
ReadLine ==
  /\ reader = "reading" /\ pipe > 0
  /\ pipe' = pipe - 1
  /\ UNCHANGED <<child, code, grand, closed, printed, reader, broke, timer, timedOut, outcome, now>>

EndOfStream ==
  /\ reader = "reading" /\ pipe = 0 /\ ~PipeHeld
  /\ reader' = "waiting"
  /\ UNCHANGED <<child, code, grand, closed, printed, pipe, broke, timer, timedOut, outcome, now>>

\* Timer.cancel stops a timer that has not gone off; one that has is on its own.
Cancelled == IF timer = "armed" THEN "cancelled" ELSE timer

\* A line that is not text, a log that cannot be written, or Ctrl-C: the finally block
\* cancels, and the exception leaves through Popen.__exit__.
Breaks ==
  /\ \/ reader \in {"reading", "waiting"} /\ broke' = "interrupt"
     \/ reader = "reading" /\ pipe > 0 /\ broke' = "error"
  /\ timer' = Cancelled
  /\ reader' = "leaving"
  /\ UNCHANGED <<child, code, grand, closed, printed, pipe, timedOut, outcome, now>>

\* __exit__ waits for the child with no limit, but for a moment only on Ctrl-C.
Leaves ==
  /\ reader = "leaving"
  /\ child # "running" \/ broke = "interrupt"
  /\ outcome' = "raised"
  /\ reader' = "done"
  /\ UNCHANGED <<child, code, grand, closed, printed, pipe, broke, timer, timedOut, now>>

\* proc.wait, then the finally block.
WaitReturns ==
  /\ reader = "waiting" /\ child # "running"
  /\ timer' = Cancelled
  /\ reader' = "closing"
  /\ UNCHANGED <<child, code, grand, closed, printed, pipe, broke, timedOut, outcome, now>>

\* Mutant of Conclude: the exit status decides.
Conclude_ByCode ==
  /\ reader = "closing"
  /\ outcome' = IF Check /\ code # 0 THEN "error" ELSE "result"
  /\ reader' = "done"
  /\ UNCHANGED <<child, code, grand, closed, printed, pipe, broke, timer, timedOut, now>>
\* The flag decides before the exit status does.
Conclude ==
  /\ reader = "closing"
  /\ outcome' = IF timedOut THEN "timeout"
                ELSE IF Check /\ code # 0 THEN "error" ELSE "result"
  /\ reader' = "done"
  /\ UNCHANGED <<child, code, grand, closed, printed, pipe, broke, timer, timedOut, now>>

\* The timer's thread finds that it is not cancelled, and goes to call _expire.
Due == timer = "armed" /\ now >= Timeout
GoesOff ==
  /\ Due
  /\ timer' = "firing"
  /\ UNCHANGED <<child, code, grand, closed, printed, pipe, reader, broke, timedOut, outcome, now>>

\* _expire: the flag, then the kill.
Flags ==
  /\ timer = "firing"
  /\ timer' = "flagged" /\ timedOut' = TRUE
  /\ UNCHANGED <<child, code, grand, closed, printed, pipe, reader, broke, outcome, now>>

\* Mutant of Kills: the flag alone.
Kills_Nothing ==
  /\ timer = "flagged"
  /\ timer' = "fired"
  /\ UNCHANGED <<child, code, grand, closed, printed, pipe, reader, broke, timedOut, outcome, now>>
\* Popen.kill sends nothing to a child that is gone.
Kills ==
  /\ timer = "flagged"
  /\ timer' = "fired"
  /\ child' = IF child = "running" THEN "killed" ELSE child
  /\ code' = IF child = "running" THEN 9 ELSE code
  /\ UNCHANGED <<grand, closed, printed, pipe, reader, broke, timedOut, outcome, now>>

WatchdogCanAct == Due \/ timer \in {"firing", "flagged"}

ReaderCanAct ==
  \/ reader = "reading" /\ (pipe > 0 \/ ~PipeHeld)
  \/ reader = "waiting" /\ child # "running"
  \/ reader = "leaving" /\ (child # "running" \/ broke = "interrupt")
  \/ reader = "closing"

Tick ==
  /\ now < MaxNow /\ reader \notin {"feeding", "done"} /\ ~WatchdogCanAct /\ ~ReaderCanAct
  /\ now' = now + 1
  /\ UNCHANGED <<child, code, grand, closed, printed, pipe, reader, broke, timer, timedOut, outcome>>

Run == ReadLine \/ EndOfStream \/ WaitReturns \/ Conclude \/ Leaves
Watchdog == GoesOff \/ Flags \/ Kills
Processes == Prints \/ ClosesStdout \/ Forks \/ GrandchildEnds \/ ChildExits

Surprises == TakesInput \/ InputFails \/ Breaks

ShellNext == Processes \/ Surprises \/ Run \/ Watchdog \/ Tick

ShellSpec == ShellInit /\ [][ShellNext]_shellVars

\* Threads and the clock go on; the processes being run owe nothing.
ShellFairSpec == ShellSpec /\ WF_shellVars(Run) /\ WF_shellVars(Watchdog) /\ WF_shellVars(Tick)

-----------------------------------------------------------------------------
(* Properties.                                                              *)

\* "A watchdog that kills the child is what actually bounds it; killing closes
\* stdout, which ends the loop": run() is never still at work past its budget.
ReadIsBounded == now > Timeout => reader = "done"

\* The same of a child that kept its standard output to itself, unless the loop was
\* broken off: the watchdog is cancelled then, and the child waited for without a limit.
OwnChildIsBounded == grand = "none" /\ broke # "error" => ReadIsBounded

\* run() always comes back, even when the child never ends by itself, once the input is
\* taken and no other process is left that inherited the child's standard output; when
\* its loop was broken off, once the child has ended.
RunEnds ==
  /\ <>[](grand # "running") /\ <>(reader # "feeding")
  /\ [](broke = "error" => <>(child # "running"))
  => <>(reader = "done")

\* A result or a CommandError speaks of a child that ended by itself, whose last
\* line was read; a time-out is raised only when the budget was really used up; and
\* a child the watchdog killed is never reported by its exit status, even when the
\* timer's thread goes off while the reader cancels it: the flag comes before the kill.
HonestOutcome ==
  /\ outcome \in {"result", "error"} => child = "exited" /\ pipe = 0 /\ ~PipeHeld
  /\ outcome = "timeout" => timedOut /\ now >= Timeout
  /\ reader = "done" /\ child = "killed" => outcome \in {"timeout", "raised"}
=============================================================================
