------------------------------ MODULE Extensions -------------------------------
(***************************************************************************)
(* The ways tools and instructions reach an agent from outside, MCP        *)
(* servers, plugins (in process or in a container) and skills, and the     *)
(* breaker that guards a tool once it is there, with the tools that run a   *)
(* process outside.  The code runs them independently of each other; they  *)
(* meet only in the names of tools: those of MCP adapters are reserved     *)
(* when plugins are loaded.  A behaviour therefore exercises one of them,  *)
(* the others being unused.                                                *)
(***************************************************************************)
EXTENDS Mcp, Plugins, DockerPlugins, ToolBreaker, Skills, Commands

VARIABLE used       \* "mcp", "plugins", "docker", "breaker", "skills" or "commands"

extVars == <<vars, pluginVars, dockerVars, breakerVars, skillVars, commandVars, used>>

ExtInit ==
  /\ used \in {"mcp", "plugins", "docker", "breaker", "skills", "commands"}
  /\ Init
  /\ used # "mcp" => setup = CHOOSE s \in Setups : TRUE
  /\ PluginsInit(IF used = "plugins" THEN Libraries ELSE {NoLibrary})
  /\ DockerInit(IF used = "docker" THEN Isolations ELSE {"unused"})
  /\ BreakerInit(IF used = "breaker" THEN BreakerSettings ELSE {NoPolicy})
  /\ SkillsInit(IF used = "skills" THEN Installations ELSE {NoInstallation})
  /\ CommandsInit(IF used = "commands" THEN ToolCalls ELSE {NoCommand})

OnlyMcp ==
  used = "mcp" /\ UNCHANGED <<pluginVars, dockerVars, breakerVars, skillVars, commandVars, used>>
OnlyPlugins ==
  used = "plugins" /\ UNCHANGED <<vars, dockerVars, breakerVars, skillVars, commandVars, used>>
OnlyDocker ==
  used = "docker" /\ UNCHANGED <<vars, pluginVars, breakerVars, skillVars, commandVars, used>>
OnlyBreaker ==
  used = "breaker" /\ UNCHANGED <<vars, pluginVars, dockerVars, skillVars, commandVars, used>>
OnlySkills ==
  used = "skills" /\ UNCHANGED <<vars, pluginVars, dockerVars, breakerVars, commandVars, used>>
OnlyCommands ==
  used = "commands" /\ UNCHANGED <<vars, pluginVars, dockerVars, breakerVars, skillVars, used>>

Verdicts == IF installation.reviewer THEN {"none", "warning", "critical", "failed"} ELSE {"none"}

ExtNext ==
  \/ \E t \in Workers : CallTool(t) /\ OnlyMcp
  \/ \E t \in Workers : CancelAwait(t) /\ OnlyMcp
  \/ \E t \in Threads : TakeLock(t) /\ OnlyMcp
  \/ \E t \in Threads : TakeId(t) /\ OnlyMcp
  \/ \E t \in Threads : SendStdio(t) /\ OnlyMcp
  \/ \E t \in Threads : SendSse(t) /\ OnlyMcp
  \/ \E t \in Threads : ReceiveStdio(t) /\ OnlyMcp
  \/ \E t \in Threads : ReceiveSse(t) /\ OnlyMcp
  \/ \E t \in Threads : Timeout(t) /\ OnlyMcp
  \/ SseOpenFails /\ OnlyMcp
  \/ Connect /\ OnlyMcp
  \/ FinishHandshake /\ OnlyMcp
  \/ Close /\ OnlyMcp
  \/ MarkClosed /\ OnlyMcp
  \/ FinishClose /\ OnlyMcp
  \/ \E g \in Gens : Serve(g) /\ OnlyMcp
  \/ \E g \in Gens : MakeNoise(g) /\ OnlyMcp
  \/ \E g \in Gens : Die(g) /\ OnlyMcp
  \/ Discover /\ OnlyPlugins
  \/ Unsupported /\ OnlyPlugins
  \/ NotLocated /\ OnlyPlugins
  \/ Rejected /\ OnlyPlugins
  \/ Scanned /\ OnlyPlugins
  \/ Import /\ OnlyPlugins
  \/ FactoryFails /\ OnlyPlugins
  \/ Follow /\ OnlyPlugins
  \/ Built /\ OnlyPlugins
  \/ NotTools /\ OnlyPlugins
  \/ Loaded /\ OnlyPlugins
  \/ Merge /\ OnlyPlugins
  \/ ReturnTools /\ OnlyPlugins
  \/ BuildAgent /\ OnlyPlugins
  \/ LoadDocker /\ OnlyDocker
  \/ BuildImage /\ OnlyDocker
  \/ StartClient /\ OnlyDocker
  \/ CreateContainer /\ OnlyDocker
  \/ WriteId /\ OnlyDocker
  \/ Handshake /\ OnlyDocker
  \/ CloseLoader /\ OnlyDocker
  \/ CloseClient /\ OnlyDocker
  \/ RemoveContainer /\ OnlyDocker
  \/ \E n \in 0..policy.batch : PrepareRound(n) /\ OnlyBreaker
  \/ RunApproved /\ OnlyBreaker
  \/ AbandonRound /\ OnlyBreaker
  \/ RecordSuccess /\ OnlyBreaker
  \/ RecordFailure /\ OnlyBreaker
  \/ Tick /\ OnlyBreaker
  \/ \E p \in Installers : Extract(p) /\ OnlySkills
  \/ \E p \in Installers : \E v \in Verdicts : Vet(p, v) /\ OnlySkills
  \/ \E p \in Installers : Check(p) /\ OnlySkills
  \/ \E p \in Installers : StartCopy(p) /\ OnlySkills
  \/ \E p \in Installers : CopyFile(p) /\ OnlySkills
  \/ \E p \in Installers : CopyFails(p) /\ OnlySkills
  \/ \E p \in Installers : Register(p) /\ OnlySkills
  \/ \E p \in Installers : Finish(p) /\ OnlySkills
  \/ \E p \in Installers : Crash(p) /\ OnlySkills
  \/ \E p \in Installers : Restart(p) /\ OnlySkills
  \/ Execute /\ OnlyCommands
  \/ RunGit /\ OnlyCommands
  \/ Communicated /\ OnlyCommands
  \/ TimesOut /\ OnlyCommands
  \/ Drained /\ OnlyCommands
  \/ Grep /\ OnlyCommands
  \/ TakeLine /\ OnlyCommands
  \/ EndOfLines /\ OnlyCommands
  \/ ReadTimesOut /\ OnlyCommands
  \/ Reaped /\ OnlyCommands
  \/ Joined /\ OnlyCommands
  \/ JoinTimesOut /\ OnlyCommands
  \/ Rejoined /\ OnlyCommands
  \/ PassTime /\ OnlyCommands
  \/ WriteLine /\ OnlyCommands
  \/ PutAnswer /\ OnlyCommands
  \/ \E detached, pipe \in BOOLEAN : Fork(detached, pipe) /\ OnlyCommands
  \/ \E p \in {"main", "child"} : Exit(p) /\ OnlyCommands
  \/ \E p \in {"main", "child"} : Killed(p) /\ OnlyCommands

\* The fairness of Mcp; of the other parts only safety is checked.
ExtSpec == ExtInit /\ [][ExtNext]_extVars /\ Fairness

(***************************************************************************)
(* What is started outside is taken down again: the files, client and      *)
(* container of a plugin loader, as far as the system lets it              *)
(* (docker_loader.py:61-111), and the processes of a tool call, none of    *)
(* which is waited for without end (terminal/tool.py:177-188,              *)
(* search.py:193-232).                                                     *)
(***************************************************************************)
NothingLeftBehind == DockerLeavesNothing /\ NoEndlessWait
=============================================================================
