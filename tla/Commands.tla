------------------------------- MODULE Commands --------------------------------
(***************************************************************************)
(* The tools that wait for a process of their own: a shell command         *)
(* (terminal/tool.py), on the host or through a Docker workspace, a        *)
(* command in a pod and a git command (both subprocess.run), and the       *)
(* content search, with ripgrep or with a worker process                   *)
(* (files/search.py).  One call is followed from execute to its result.    *)
(*                                                                         *)
(* Processes are external.  "main" is the one the tool starts; a shell or  *)
(* a git hook may start "child", in main's process group or in a session   *)
(* of its own, with or without main's standard output.  A read of the pipe *)
(* ends when every process that holds its other end is gone.               *)
(***************************************************************************)
EXTENDS Naturals, FiniteSets

CONSTANTS
  ToolCalls,      \* calls: [via, blank, asked], asked = {} or {seconds}
  ToolTimeout,    \* TerminalTool.timeout, in ticks
  ToolMaxTimeout, \* TerminalTool.max_timeout
  RunTimeout,     \* the timeout of a GitTool
  SearchTimeout,  \* GrepTool.SEARCH_TIMEOUT_SECONDS
  MaxResults,     \* max_results of a search
  MaxRgLines,     \* MAX_RG_OUTPUT_BYTES, in lines
  RgLines         \* bound: lines ripgrep writes

ASSUME CommandsAssumption ==
  /\ ToolTimeout \in 1..ToolMaxTimeout /\ {RunTimeout, SearchTimeout} \subseteq Nat \ {0}
  /\ MaxResults \in Nat \ {0} /\ {MaxRgLines, RgLines} \subseteq Nat
  /\ \A c \in ToolCalls : c.asked \subseteq Nat /\ Cardinality(c.asked) <= 1

VARIABLES
  command,   \* the call; via = "none": no tool is called
  point,     \* "call", "wait", "read", "join", what follows them, or "ended"
  left,      \* ticks until the deadline of the wait
  started,   \* processes that have been started
  alive,     \* those that run
  group,     \* those in main's process group
  writers,   \* those that were given the pipe
  doomed,    \* those that were sent a signal that ends them
  code,      \* main's exit status: "zero", "one", "other", "signal" or "none"
  queued,    \* lines ripgrep wrote and the tool has not taken
  taken,     \* lines taken
  matches,   \* those among them that are matches
  answer,    \* what the worker put in the result queue
  result     \* "none", then how the call ended

processVars == <<started, alive, group, writers, doomed, code>>
searchVars == <<queued, taken, matches, answer>>
commandVars == <<command, point, left, processVars, searchVars, result>>

NoCommand == [via |-> "none", blank |-> FALSE, asked |-> {}]

CommandsInit(offered) ==
  /\ command \in offered
  /\ point = IF command = NoCommand THEN "off" ELSE "call"
  /\ left = 0 /\ code = "none" /\ answer = "none" /\ result = "none"
  /\ started = {} /\ alive = {} /\ group = {} /\ writers = {} /\ doomed = {}
  /\ queued = 0 /\ taken = 0 /\ matches = 0

Ended(how) == point' = "ended" /\ result' = how

\* A process of its own group, with the pipe.  Nothing signals the group of git,
\* kubectl and the search worker, which is the tool's own.
Started(seconds, next) ==
  /\ started' = {"main"} /\ alive' = {"main"} /\ group' = {"main"} /\ writers' = {"main"}
  /\ left' = seconds /\ point' = next
  /\ UNCHANGED <<doomed, code, result>>

NotStarted(how) == Ended(how) /\ UNCHANGED <<left, processVars>>

---------------------------------------------------------------------------
(* Shell commands *)

EffectiveTimeout ==
  IF command.asked = {} THEN ToolTimeout
  ELSE CHOOSE t \in 0..ToolMaxTimeout :
         \E a \in command.asked : t = IF a < ToolMaxTimeout THEN a ELSE ToolMaxTimeout

\* DockerWorkspace.run_command and KubernetesWorkspace._run_kubectl start the
\* command line of docker or kubectl; either may be missing.
RunCommand == Started(EffectiveTimeout, "wait") \/ NotStarted("failed")

\* TerminalTool.execute up to the wait.
Execute ==
  /\ point = "call" /\ command.via \in {"shell", "docker", "pod"}
  /\ IF command.blank \/ EffectiveTimeout = 0 THEN NotStarted("refused") ELSE RunCommand
  /\ UNCHANGED <<command, searchVars>>

\* GitTool._run_git.
RunGit ==
  /\ point = "call" /\ command.via = "git"
  /\ Started(RunTimeout, "wait") \/ NotStarted("failed")
  /\ UNCHANGED <<command, searchVars>>

PipeClosed == writers \cap alive = {}

Exited == "main" \notin alive

\* communicate returns once the pipe is closed and main has exited.
Communicated ==
  /\ point = "wait" /\ PipeClosed /\ Exited
  /\ Ended(IF code = "zero" THEN "ok" ELSE "failed")
  /\ UNCHANGED <<command, left, processVars, searchVars>>

\* Mutant: the process is killed, not its group.
KillGroup_LeaderOnly == {"main"} \cap alive

\* os.killpg(proc.pid, SIGKILL).
KillGroup == group \cap alive

\* The deadline may pass when everything has just finished.  subprocess.run
\* kills the one process.
TimesOut ==
  /\ point = "wait" /\ left = 0
  /\ IF command.via \in {"shell", "docker"}
     THEN doomed' = doomed \cup KillGroup /\ point' = "drain"
     ELSE doomed' = doomed \cup ({"main"} \cap alive) /\ point' = "rejoin"
  /\ UNCHANGED <<command, left, started, alive, group, writers, code, searchVars, result>>

\* The second communicate, without a timeout.
Drained ==
  /\ point = "drain" /\ PipeClosed /\ Exited
  /\ Ended("timeout")
  /\ UNCHANGED <<command, left, processVars, searchVars>>

---------------------------------------------------------------------------
(* Searches *)

\* GrepTool.execute refuses a pattern or a path, or starts one of the engines.
Grep ==
  /\ point = "call" /\ command.via \in {"rg", "python"}
  /\ \/ NotStarted("refused")
     \/ ~command.blank /\ Started(SearchTimeout, IF command.via = "rg" THEN "read" ELSE "join")
  /\ UNCHANGED <<command, searchVars>>

\* The finally clause of _grep_rg: a ripgrep that still runs is terminated.
LeaveRead(how) ==
  /\ doomed' = doomed \cup ({"main"} \cap alive)
  /\ point' = "reap" /\ result' = how

\* A line was read in time; it need not be a match inside the workspace.
TakeLine ==
  /\ point = "read" /\ left > 0 /\ queued > 0
  /\ queued' = queued - 1 /\ taken' = taken + 1
  /\ \E match \in {0, 1} :
       IF taken' > MaxRgLines THEN matches' = matches /\ LeaveRead("failed")
       ELSE /\ matches' = matches + match
            /\ IF matches' >= MaxResults THEN LeaveRead("none")
               ELSE UNCHANGED <<doomed, point, result>>
  /\ UNCHANGED <<command, left, started, alive, group, writers, code, answer>>

\* The reader thread put None at the end of the output.
EndOfLines ==
  /\ point = "read" /\ left > 0 /\ queued = 0 /\ PipeClosed
  /\ LeaveRead("none")
  /\ UNCHANGED <<command, left, started, alive, group, writers, code, searchVars>>

ReadTimesOut ==
  /\ point = "read" /\ left = 0
  /\ LeaveRead("timeout")
  /\ UNCHANGED <<command, left, started, alive, group, writers, code, searchVars>>

\* process.wait(), then the exception under way or the status.
Reaped ==
  /\ point = "reap" /\ Exited
  /\ Ended(IF result # "none" THEN result
           ELSE IF code \in {"zero", "one", "signal"} THEN "ok" ELSE "failed")
  /\ UNCHANGED <<command, left, processVars, searchVars>>

\* _grep_python: the worker has ended within its time.
Joined ==
  /\ point = "join" /\ Exited
  /\ Ended(IF answer \in {"none", "error"} THEN "failed" ELSE "ok")
  /\ UNCHANGED <<command, left, processVars, searchVars>>

JoinTimesOut ==
  /\ point = "join" /\ left = 0 /\ ~Exited
  /\ doomed' = doomed \cup {"main"} /\ point' = "rejoin"
  /\ UNCHANGED <<command, left, started, alive, group, writers, code, searchVars, result>>

\* worker.join() after terminate(), and the wait of subprocess.run after kill();
\* a workspace raises, and the terminal reports a failure.
Rejoined ==
  /\ point = "rejoin" /\ Exited
  /\ Ended(IF command.via = "pod" THEN "failed" ELSE "timeout")
  /\ UNCHANGED <<command, left, processVars, searchVars>>

---------------------------------------------------------------------------
(* The clock and the processes *)

PassTime ==
  /\ point \in {"wait", "read", "join"} /\ left > 0
  /\ left' = left - 1
  /\ UNCHANGED <<command, point, processVars, searchVars, result>>

\* External.  What docker and kubectl run is elsewhere, without the pipe.
Fork(detached, pipe) ==
  /\ command.via \in {"shell", "docker", "pod", "git"}
  /\ "main" \in alive \ doomed /\ "child" \notin started
  /\ command.via \in {"docker", "pod"} => detached /\ ~pipe
  /\ started' = started \cup {"child"} /\ alive' = alive \cup {"child"}
  /\ group' = IF detached THEN group ELSE group \cup {"child"}
  /\ writers' = IF pipe THEN writers \cup {"child"} ELSE writers
  /\ UNCHANGED <<command, point, left, doomed, code, searchVars, result>>

\* External.
WriteLine ==
  /\ command.via = "rg" /\ "main" \in alive /\ taken + queued < RgLines
  /\ queued' = queued + 1
  /\ UNCHANGED <<command, point, left, processVars, taken, matches, answer, result>>

\* _python_grep_worker: one answer, the matches, or an exception as text.
PutAnswer ==
  /\ command.via = "python" /\ "main" \in alive /\ answer = "none"
  /\ answer' \in {"short", "long", "error"}
  /\ UNCHANGED <<command, point, left, processVars, queued, taken, matches, result>>

\* External.  A worker does not exit before its answer is in the pipe, and a
\* long one does not fit while nobody reads.
MayExit == command.via = "python" => answer # "long"

Exit(p) ==
  /\ p \in alive \ doomed /\ MayExit
  /\ alive' = alive \ {p}
  /\ IF p = "main" THEN code' \in {"zero", "one", "other"} ELSE UNCHANGED code
  /\ UNCHANGED <<command, point, left, started, group, writers, doomed, searchVars, result>>

\* External: a signal takes effect.
Killed(p) ==
  /\ p \in alive \cap doomed
  /\ alive' = alive \ {p}
  /\ code' = IF p = "main" THEN "signal" ELSE code
  /\ UNCHANGED <<command, point, left, started, group, writers, doomed, searchVars, result>>

---------------------------------------------------------------------------
\* What a wait without a deadline waits for.
WaitsFor ==
  IF point = "drain" THEN (writers \cup {"main"}) \cap alive
  ELSE IF point \in {"reap", "rejoin"} THEN {"main"} \cap alive
  ELSE {}

\* The processes a call must not leave running: those of the group after a
\* shell command timed out, and the one the tool started in every other case.
MustBeGone ==
  IF command.via \in {"shell", "docker"} /\ result = "timeout" THEN group ELSE {"main"}

(***************************************************************************)
(* No call waits for ever, whatever its processes do, and none leaves them *)
(* running: what it waits for without a deadline, and what is left of its  *)
(* processes when it has ended, was sent a signal that ends it.  So it is  *)
(* for a command that never exits, a background process that keeps the     *)
(* pipe after its shell has gone, a ripgrep stopped at max_results and a   *)
(* worker that cannot deliver its answer (terminal/tool.py:177-188,        *)
(* search.py:193-219, 226-232).  The exception is a process of a shell     *)
(* command that left the process group and kept the pipe: the communicate  *)
(* after the kill has no timeout.                                          *)
(***************************************************************************)
NoEndlessWait ==
  /\ WaitsFor \ doomed \subseteq IF command.via = "shell" THEN {"child"} \ group ELSE {}
  /\ point = "ended" => MustBeGone \cap alive \subseteq doomed
=============================================================================
