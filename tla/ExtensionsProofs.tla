--------------------------- MODULE ExtensionsProofs ----------------------------
(***************************************************************************)
(* Theorems about Extensions: what McpProofs shows of the MCP client holds *)
(* of the composed system too, and each of the other parts keeps what it   *)
(* promises, for any number of callers, plugins, installers and any        *)
(* settings.                                                               *)
(***************************************************************************)
EXTENDS Extensions, McpProofs, WellFoundedInduction

-----------------------------------------------------------------------------
(* The parts *)

PluginsStep ==
  \/ Discover \/ Unsupported \/ NotLocated \/ Rejected \/ Scanned \/ Import
  \/ FactoryFails \/ Follow \/ Built \/ NotTools \/ Loaded \/ Merge
  \/ ReturnTools \/ BuildAgent

DockerStep ==
  \/ LoadDocker \/ BuildImage \/ StartClient \/ CreateContainer \/ WriteId
  \/ Handshake \/ CloseLoader \/ CloseClient \/ RemoveContainer

BreakerStep ==
  \/ \E n \in 0..policy.batch : PrepareRound(n)
  \/ RunApproved \/ AbandonRound \/ RecordSuccess \/ RecordFailure \/ Tick

SkillsStep ==
  \E p \in Installers :
    \/ Extract(p) \/ (\E v \in Verdicts : Vet(p, v)) \/ Check(p) \/ StartCopy(p)
    \/ CopyFile(p) \/ CopyFails(p) \/ Register(p) \/ Finish(p) \/ Crash(p) \/ Restart(p)

CommandsStep ==
  \/ Execute \/ RunGit \/ Communicated \/ TimesOut \/ Drained \/ Grep \/ TakeLine
  \/ EndOfLines \/ ReadTimesOut \/ Reaped \/ Joined \/ JoinTimesOut \/ Rejoined
  \/ PassTime \/ WriteLine \/ PutAnswer
  \/ (\E detached, pipe \in BOOLEAN : Fork(detached, pipe))
  \/ (\E p \in {"main", "child"} : Exit(p) \/ Killed(p))

-----------------------------------------------------------------------------
(* The inductive invariants *)

\* The breaker: it is open from the failure that reaches the threshold on, for
\* the cooldown that follows the last failure; what runs was prepared while it
\* was closed, or approved.
BreakerInv ==
  /\ policy.threshold \in Nat \ {0} /\ policy.batch \in Nat
  /\ {failures, openUntil, clock, running, lastFailure, approved} \subseteq Nat
  /\ streak = failures
  /\ openUntil = IF failures >= policy.threshold THEN lastFailure + Cooldown ELSE 0
  /\ failures + running < policy.threshold + policy.batch + approved

\* A container's loader: what it owns at each stage, and that an id that was
\* written is there until Docker was asked to remove the container.
DockerInv ==
  /\ stage \in {"off", "load"} => owned = {}
  /\ stage = "build" => owned = {"dockerfile"}
  /\ stage = "start" => owned \subseteq {"cidfile"} \cup refused
  /\ stage \in {"handshake", "loaded", "close", "remove"} =>
       owned \subseteq {"cidfile", "client"} \cup refused
  /\ stage \in {"failed", "closed"} => owned \subseteq refused
  /\ stage = "remove" => "client" \notin owned
  /\ stage \in {"off", "load", "build", "start", "handshake", "loaded", "close", "remove",
               "failed", "closed"}
  /\ "client" \notin refused
  /\ known => \/ /\ stage \in {"handshake", "loaded", "close", "remove"}
                 /\ cid /\ container = "created"
              \/ /\ stage \in {"failed", "closed"}
                 /\ container = "removed" \/ "container" \in refused
  /\ cid => known

\* A process call: which tools wait where, that the process that is waited for
\* is in the group and, once a wait has no deadline, was sent its signal.
TimedOutShell == point = "ended" /\ command.via \in {"shell", "docker"} /\ result = "timeout"

CommandsInv ==
  /\ point \in {"off", "call", "wait", "drain", "read", "reap", "join", "rejoin", "ended"}
  /\ point \in {"off", "call"} => alive = {}
  /\ point = "wait" => command.via \in {"shell", "docker", "pod", "git"}
  /\ point = "drain" => command.via \in {"shell", "docker"}
  /\ point \in {"read", "join", "reap", "rejoin"} => command.via \notin {"shell", "docker"}
  /\ result # "none" => point \in {"reap", "ended"}
  /\ writers \subseteq {"main", "child"}
  /\ "main" \in alive => "main" \in group
  /\ command.via = "docker" => "child" \notin writers
  /\ point \in {"drain", "reap", "rejoin", "ended"} /\ "main" \in alive => "main" \in doomed
  /\ point = "drain" \/ TimedOutShell => group \cap alive \subseteq doomed

\* Plugins: the names are distinct once something is loaded; an entry of the
\* trail is about a plugin that is over, or the one that was just told; a plugin
\* whose code was executed is the one being loaded, or its entry is there.
Found == EntryPoints.found \cup Folders.found

Before == {"off", "discover", "no_discovery"}
Loading == {"import", "build", "hop", "not_tools", "valid", "merge"}
After == {"load", "returned", "agent", "duplicate_tool", "raised"}

Told(p) == Audited(p, "loaded") \/ Audited(p, "failed") \/ "not_tools" \in {p.factory, p.inner}

Untold == IF phase \in {"merge", "raised"} THEN manifests \ {Min(manifests)} ELSE manifests

PhaseSound ==
  /\ library \in Libraries \cup {NoLibrary}
  /\ phase \in Before \cup Loading \cup After
  /\ manifests \subseteq Found
  /\ phase \in Before => trail = <<>> /\ tools = <<>> /\ ran = {}
  /\ phase \notin Before =>
       \A j, k \in Found : Installed[j].name = Installed[k].name => j = k
  /\ phase \in Loading \cup {"raised"} => manifests # {}
  /\ phase = "import" => Clean(Current)
  /\ phase = "not_tools" => "not_tools" \in {Current.factory, Current.inner}

TrailSound ==
  /\ \E S : trail \in Seq(S)
  /\ \A j, k \in DOMAIN trail : trail[j].plugin = trail[k].plugin => j = k
  /\ \A j \in DOMAIN trail : \E k \in Found \ Untold : trail[j].plugin = Installed[k].name
  /\ phase = "merge" => Audited(Current, "loaded")

RanSound ==
  \A k \in Found :
    Installed[k] \in ran =>
      /\ ~Condemned(Installed[k])
      /\ k \in manifests => k = Min(manifests) /\ phase \in (Loading \ {"import"}) \cup {"raised"}
      /\ k \notin manifests \/ phase \in {"merge", "raised"} => Told(Installed[k])

ToolsSound ==
  \E S : /\ tools \in Seq(S)
         /\ \A t \in S : [plugin |-> t.owner, outcome |-> "loaded"] \in Range(trail)

ModulesSound ==
  \A p \in Range(library.folders) :
    Stops(p.parts) # 0 => \A k \in DOMAIN p.parts : <<p.name, "entry", k>> \notin modules

PluginsInv == PhaseSound /\ TrailSound /\ RanSound /\ ToolsSound /\ ModulesSound

\* Skills: what is being handled was extracted and parses, what is copied was
\* vetted, and a directory in persist_dir has one writer at a time and none once
\* its skill is registered.
SkillTypes ==
  /\ installation \in Installations \cup {NoInstallation}
  /\ DOMAIN at = Installers /\ DOMAIN temp = Installers /\ DOMAIN todo = Installers
  /\ DOMAIN registry = Installers /\ DOMAIN vetted = Installers

Unpacked(p) ==
  /\ at[p] \in {"next", "check", "copy", "copying"} =>
       temp[p].files = Extracted(p) /\ todo[p] \subseteq DiscoverSkills(Extracted(p))
  /\ at[p] \in {"check", "copy", "copying"} => todo[p] # {} /\ Harmless(p, First(p))

Copies(p, n) == at[p] = "copying" /\ First(p) = n

CopiesSound ==
  /\ \A p \in Installers : \A n :
       Copies(p, n) => n \in DOMAIN disk /\ disk[n] \subseteq FilesOf(Extracted(p), n)
  /\ \A p, q \in Installers : \A n : Copies(p, n) /\ Copies(q, n) => p = q
  /\ \A p, q \in Installers : \A n \in DOMAIN registry[p] :
       registry[p][n].source = "zip" => ~Copies(q, n)

ZipSound ==
  \A p \in Installers : \A n \in DOMAIN registry[p] :
    registry[p][n].source = "zip" =>
      Harmless(p, n) /\ n \in DOMAIN disk /\ disk[n] = FilesOf(Extracted(p), n)

DiskSound ==
  \A n \in DOMAIN disk : \A e \in disk[n] :
    \E p \in Installers : Harmless(p, n) /\ disk[n] \subseteq Extracted(p)

RootsSound ==
  \A p \in Installers : \A n \in DOMAIN registry[p] :
    /\ registry[p][n].root # "temp"
    /\ registry[p][n].root = "persist" => n \in DOMAIN disk /\ ReadMain(disk[n], n)

SkillsInv ==
  /\ SkillTypes /\ (\A p \in Installers : Unpacked(p))
  /\ CopiesSound /\ ZipSound /\ DiskSound /\ RootsSound

-----------------------------------------------------------------------------
(* One part at a time *)

\* A step of the composition is a step of one part and leaves the others alone.
LEMMA PartsStep ==
  ASSUME [ExtNext]_extVars
  PROVE  /\ [Next]_vars /\ [PluginsStep]_pluginVars /\ [DockerStep]_dockerVars
         /\ [BreakerStep]_breakerVars /\ [SkillsStep]_skillVars
         /\ [CommandsStep]_commandVars
<1> DEFINE Goal ==
      /\ [Next]_vars /\ [PluginsStep]_pluginVars /\ [DockerStep]_dockerVars
      /\ [BreakerStep]_breakerVars /\ [SkillsStep]_skillVars
      /\ [CommandsStep]_commandVars
<1>1. ASSUME UNCHANGED extVars PROVE Goal
  BY <1>1, SMTT(30), ZenonT(30) DEF extVars
<1>2. ASSUME OnlyMcp, Next PROVE Goal
  BY <1>2, ZenonT(30) DEF OnlyMcp
<1>3. ASSUME OnlyPlugins, PluginsStep PROVE Goal
  BY <1>3, ZenonT(30) DEF OnlyPlugins
<1>4. ASSUME OnlyDocker, DockerStep PROVE Goal
  BY <1>4, ZenonT(30) DEF OnlyDocker
<1>5. ASSUME OnlyBreaker, BreakerStep PROVE Goal
  BY <1>5, ZenonT(30) DEF OnlyBreaker
<1>6. ASSUME OnlySkills, SkillsStep PROVE Goal
  BY <1>6, ZenonT(30) DEF OnlySkills
<1>7. ASSUME OnlyCommands, CommandsStep PROVE Goal
  BY <1>7, ZenonT(30) DEF OnlyCommands
<1>8. ASSUME ExtNext
      PROVE  \/ OnlyMcp /\ Next
             \/ OnlyPlugins /\ PluginsStep
             \/ OnlyDocker /\ DockerStep
             \/ OnlyBreaker /\ BreakerStep
             \/ OnlySkills /\ SkillsStep
             \/ OnlyCommands /\ CommandsStep
  BY ONLY <1>8, ZenonT(30)
     DEF ExtNext, Next, PluginsStep, DockerStep, BreakerStep, SkillsStep, CommandsStep
<1> HIDE DEF Goal
<1>9. Goal
  BY <1>1, <1>2, <1>3, <1>4, <1>5, <1>6, <1>7, <1>8, ZenonT(30)
<1>10. QED
  BY <1>9, SMTT(30), ZenonT(30) DEF Goal

(***************************************************************************)
(* The composed system implements the MCP client with its fairness: what   *)
(* uses plugins, containers, skills and processes besides it takes no step *)
(* that a client, its transport or its server could notice (registry.py    *)
(* and client.py share no state with them).                                *)
(***************************************************************************)
THEOREM ExtensionsImplementMcp == ExtSpec => FairSpec
<1>1. ExtInit => Init
  BY DEF ExtInit
<1>2. [ExtNext]_extVars => [Next]_vars
  BY PartsStep, SMTT(30), ZenonT(30)
<1>3. QED
  BY <1>1, <1>2, PTL DEF ExtSpec, FairSpec, Spec

(***************************************************************************)
(* In the composed system too, a caller that is told its tool ran has had  *)
(* it run exactly once, and a mismatched answer has a cause on its         *)
(* connection (client.py _request).                                        *)
(***************************************************************************)
THEOREM CallersGetTheirAnswers == ExtSpec => [](AnswerIsOwn /\ MismatchHasCause)
BY ExtensionsImplementMcp, AnswersAreOwn, MismatchAlwaysHasCause, PTL DEF FairSpec

-----------------------------------------------------------------------------
(* The breaker *)

LEMMA BreakerInitially ==
  ASSUME NEW settings, BreakerInit(settings), settings \in {BreakerSettings, {NoPolicy}}
  PROVE  BreakerInv
<1>1. policy.threshold \in Nat \ {0} /\ policy.batch \in Nat
  BY ToolBreakerAssumption, SMTT(30), ZenonT(30) DEF BreakerInit, NoPolicy
<1>2. QED
  BY <1>1, ToolBreakerAssumption, SMTT(30), ZenonT(30) DEF BreakerInit, BreakerInv

LEMMA BreakerKeeps ==
  ASSUME BreakerInv, [BreakerStep]_breakerVars
  PROVE  BreakerInv'
<1> USE ToolBreakerAssumption DEF BreakerInv
<1>1. ASSUME NEW n \in 0..policy.batch, PrepareRound(n) PROVE BreakerInv'
  <2>1. policy' = policy /\ clock' = clock /\ lastFailure' = lastFailure
        /\ approved' = approved /\ running' = n /\ n \in Nat /\ n <= policy.batch
    BY <1>1, SMTT(30), ZenonT(30) DEF PrepareRound
  <2>2. CASE openUntil # 0
    <3>1. failures' = 0 /\ openUntil' = 0 /\ streak' = 0
      BY <1>1, <2>2, SMTT(30), ZenonT(30) DEF PrepareRound, Reset
    <3>2. QED
      BY <2>1, <3>1, SMTT(30), ZenonT(30)
  <2>3. CASE openUntil = 0
    <3>1. failures' = failures /\ openUntil' = openUntil /\ streak' = streak
      BY <1>1, <2>3, SMTT(30), ZenonT(30) DEF PrepareRound, Reset
    <3>2. failures < policy.threshold
      BY <2>3, SMTT(30), ZenonT(30)
    <3>3. QED
      BY <2>1, <3>1, <3>2, SMTT(30), ZenonT(30)
  <2>4. QED
    BY <2>2, <2>3, SMTT(30), ZenonT(30)
<1>2. ASSUME RunApproved PROVE BreakerInv'
  BY <1>2, SMTT(30), ZenonT(30) DEF RunApproved
<1>3. ASSUME AbandonRound PROVE BreakerInv'
  BY <1>3, SMTT(30), ZenonT(30) DEF AbandonRound
<1>4. ASSUME RecordSuccess PROVE BreakerInv'
  BY <1>4, SMTT(30), ZenonT(30) DEF RecordSuccess
<1>5. ASSUME RecordFailure PROVE BreakerInv'
  BY <1>5, SMTT(30), ZenonT(30) DEF RecordFailure, OpenUntil
<1>6. ASSUME Tick PROVE BreakerInv'
  BY <1>6, SMTT(30), ZenonT(30) DEF Tick
<1>7. ASSUME UNCHANGED breakerVars PROVE BreakerInv'
  BY <1>7 DEF breakerVars
<1>8. QED
  BY <1>1, <1>2, <1>3, <1>4, <1>5, <1>6, <1>7, SMTT(30), ZenonT(30) DEF BreakerStep

(***************************************************************************)
(* After as many failures in a row as the threshold a tool is refused for  *)
(* the whole cooldown, and a row goes on only with what its round had      *)
(* prepared and what a human approved, whatever the threshold, the         *)
(* cooldown and the size of the rounds (agent.py _circuit_is_open,         *)
(* _record_circuit_result).                                                *)
(***************************************************************************)
THEOREM BreakerAlwaysHolds == ExtSpec => []BreakerHolds
<1>1. ExtInit => BreakerInv
  BY BreakerInitially, SMTT(30), ZenonT(30) DEF ExtInit
<1>2. BreakerInv /\ [ExtNext]_extVars => BreakerInv'
  BY PartsStep, BreakerKeeps, SMTT(30), ZenonT(30)
<1>3. BreakerInv => BreakerHolds
  BY ToolBreakerAssumption, SMTT(30), ZenonT(30) DEF BreakerInv, BreakerHolds, CircuitIsOpen
<1>4. QED
  BY <1>1, <1>2, <1>3, PTL DEF ExtSpec

-----------------------------------------------------------------------------
(* Containers and processes *)

LEMMA DockerKeeps ==
  ASSUME DockerInv, [DockerStep]_dockerVars
  PROVE  DockerInv'
<1> USE DEF DockerInv
<1>1. ASSUME LoadDocker PROVE DockerInv'
  BY <1>1, SMTT(30), ZenonT(30) DEF LoadDocker
<1>2. ASSUME BuildImage PROVE DockerInv'
  <2>1. PICK ok \in BOOLEAN, done \in BOOLEAN :
          /\ stage' = IF ok THEN "start" ELSE "failed"
          /\ owned' = Unlinked("dockerfile", done) \cup (IF ok THEN {"cidfile"} ELSE {})
          /\ refused' = refused \cup PassedOver("dockerfile", done)
    BY <1>2 DEF BuildImage
  <2>2. stage = "build" /\ UNCHANGED <<cid, container, known>>
    BY <1>2 DEF BuildImage
  <2>3. Unlinked("dockerfile", done) \subseteq refused'
    BY <2>1, <2>2, ZenonT(30) DEF Unlinked, PassedOver
  <2>4. "client" \notin refused'
    BY <2>1, ZenonT(30) DEF PassedOver
  <2>5. QED
    BY <2>1, <2>2, <2>3, <2>4, SMTT(30), ZenonT(30)
<1>3. ASSUME StartClient PROVE DockerInv'
  BY <1>3, SMTT(30), ZenonT(30) DEF StartClient
<1>4. ASSUME CreateContainer PROVE DockerInv'
  BY <1>4, SMTT(30), ZenonT(30) DEF CreateContainer
<1>5. ASSUME WriteId PROVE DockerInv'
  BY <1>5, SMTT(30), ZenonT(30) DEF WriteId
<1>6. ASSUME Handshake PROVE DockerInv'
  BY <1>6, SMTT(30), ZenonT(30) DEF Handshake
<1>7. ASSUME CloseLoader PROVE DockerInv'
  BY <1>7, SMTT(30), ZenonT(30) DEF CloseLoader
<1>8. ASSUME CloseClient PROVE DockerInv'
  BY <1>8, SMTT(30), ZenonT(30) DEF CloseClient
<1>9. ASSUME RemoveContainer PROVE DockerInv'
  <2>1. PICK ok \in BOOLEAN, done \in BOOLEAN :
          /\ container' = Removed(ok)
          /\ owned' = Unlinked("cidfile", done)
          /\ refused' = refused \cup PassedOver("cidfile", done) \cup
                         (IF cid THEN PassedOver("container", ok) ELSE {})
    BY <1>9 DEF RemoveContainer
  <2>2. stage = "remove" /\ stage' \in {"failed", "closed"} /\ cid' = FALSE /\ known' = known
    BY <1>9, ZenonT(30) DEF RemoveContainer
  <2>3. owned' \subseteq refused'
    BY <2>1, <2>2, ZenonT(30) DEF Unlinked, PassedOver
  <2>4. "client" \notin refused'
    BY <2>1, ZenonT(30) DEF PassedOver
  <2>5. known => container' = "removed" \/ "container" \in refused'
    BY <2>1, <2>2, ZenonT(30) DEF Removed, PassedOver
  <2>6. QED
    BY <2>2, <2>3, <2>4, <2>5, SMTT(30), ZenonT(30)
<1>10. ASSUME UNCHANGED dockerVars PROVE DockerInv'
  BY <1>10, SMTT(30), ZenonT(30) DEF dockerVars
<1>11. QED
  BY <1>1, <1>2, <1>3, <1>4, <1>5, <1>6, <1>7, <1>8, <1>9, <1>10, SMTT(30), ZenonT(30) DEF DockerStep

LEMMA CommandsKeeps ==
  ASSUME CommandsInv, [CommandsStep]_commandVars
  PROVE  CommandsInv'
<1> USE DEF CommandsInv, TimedOutShell, processVars, searchVars
<1>1. ASSUME Execute PROVE CommandsInv'
  BY <1>1, ZenonT(30) DEF Execute, RunCommand, Started, NotStarted, Ended
<1>2. ASSUME RunGit PROVE CommandsInv'
  BY <1>2, ZenonT(30) DEF RunGit, Started, NotStarted, Ended
<1>3. ASSUME Communicated PROVE CommandsInv'
  BY <1>3, SMTT(30), ZenonT(30) DEF Communicated, Ended, Exited
<1>4. ASSUME TimesOut PROVE CommandsInv'
  BY <1>4, SMTT(30), ZenonT(30) DEF TimesOut, KillGroup
<1>5. ASSUME Drained PROVE CommandsInv'
  BY <1>5, SMTT(30), ZenonT(30) DEF Drained, Ended, Exited, PipeClosed
<1>6. ASSUME Grep PROVE CommandsInv'
  BY <1>6, ZenonT(30) DEF Grep, Started, NotStarted, Ended
<1>7. ASSUME TakeLine PROVE CommandsInv'
  BY <1>7, SMTT(30), ZenonT(30) DEF TakeLine, LeaveRead
<1>8. ASSUME EndOfLines PROVE CommandsInv'
  BY <1>8, SMTT(30), ZenonT(30) DEF EndOfLines, LeaveRead
<1>9. ASSUME ReadTimesOut PROVE CommandsInv'
  BY <1>9, SMTT(30), ZenonT(30) DEF ReadTimesOut, LeaveRead
<1>10. ASSUME Reaped PROVE CommandsInv'
  BY <1>10, SMTT(30), ZenonT(30) DEF Reaped, Ended, Exited
<1>11. ASSUME Joined PROVE CommandsInv'
  BY <1>11, SMTT(30), ZenonT(30) DEF Joined, Ended, Exited
<1>12. ASSUME JoinTimesOut PROVE CommandsInv'
  BY <1>12, SMTT(30), ZenonT(30) DEF JoinTimesOut
<1>13. ASSUME Rejoined PROVE CommandsInv'
  BY <1>13, SMTT(30), ZenonT(30) DEF Rejoined, Ended, Exited
<1>14. ASSUME PassTime PROVE CommandsInv'
  BY <1>14, SMTT(30), ZenonT(30) DEF PassTime
<1>15. ASSUME WriteLine PROVE CommandsInv'
  BY <1>15, SMTT(30), ZenonT(30) DEF WriteLine
<1>16. ASSUME PutAnswer PROVE CommandsInv'
  BY <1>16, SMTT(30), ZenonT(30) DEF PutAnswer
<1>17. ASSUME NEW detached \in BOOLEAN, NEW pipe \in BOOLEAN, Fork(detached, pipe)
       PROVE  CommandsInv'
  BY <1>17, SMTT(30), ZenonT(30) DEF Fork
<1>18. ASSUME NEW p \in {"main", "child"}, Exit(p) PROVE CommandsInv'
  BY <1>18, SMTT(30), ZenonT(30) DEF Exit
<1>19. ASSUME NEW p \in {"main", "child"}, Killed(p) PROVE CommandsInv'
  BY <1>19, SMTT(30), ZenonT(30) DEF Killed
<1>20. ASSUME UNCHANGED commandVars PROVE CommandsInv'
  BY <1>20, SMTT(30), ZenonT(30) DEF commandVars
<1> HIDE DEF CommandsInv, TimedOutShell, processVars, searchVars
<1>21. QED
  BY <1>1, <1>2, <1>3, <1>4, <1>5, <1>6, <1>7, <1>8, <1>9, <1>10, <1>11, <1>12, <1>13,
     <1>14, <1>15, <1>16, <1>17, <1>18, <1>19, <1>20, ZenonT(30) DEF CommandsStep

LEMMA CommandsWaitsEnd == ASSUME CommandsInv PROVE NoEndlessWait
<1>1. WaitsFor \ doomed \subseteq IF command.via = "shell" THEN {"child"} \ group ELSE {}
  <2>1. CASE point = "drain"
    BY <2>1, ZenonT(30) DEF CommandsInv, WaitsFor
  <2>2. CASE point # "drain"
    BY <2>2, SMTT(30), ZenonT(30) DEF CommandsInv, WaitsFor
  <2>3. QED
    BY <2>1, <2>2, SMTT(30), ZenonT(30)
<1>2. point = "ended" => MustBeGone \cap alive \subseteq doomed
  BY DEF CommandsInv, MustBeGone, TimedOutShell
<1>3. QED
  BY <1>1, <1>2, SMTT(30), ZenonT(30) DEF NoEndlessWait

(***************************************************************************)
(* What is started outside is taken down: a loader that failed or was      *)
(* closed leaves no client, and no file and no known container but those   *)
(* whose removal was tried and refused, and no call of a tool waits        *)
(* without a deadline for a process that was not sent its signal, whatever *)
(* the timeouts (docker_loader.py close, terminal/tool.py execute,         *)
(* search.py).                                                             *)
(***************************************************************************)
THEOREM NothingIsLeftBehind == ExtSpec => []NothingLeftBehind
<1>1. ExtInit => DockerInv /\ CommandsInv
  <2>1. ExtInit => DockerInv
    BY SMTT(30), ZenonT(30) DEF ExtInit, DockerInit, DockerInv
  <2>2. ExtInit => CommandsInv
    BY DEF ExtInit, CommandsInit, CommandsInv, TimedOutShell
  <2>3. QED
    BY <2>1, <2>2, SMTT(30), ZenonT(30)
<1>2. DockerInv /\ CommandsInv /\ [ExtNext]_extVars => DockerInv' /\ CommandsInv'
  BY PartsStep, DockerKeeps, CommandsKeeps, SMTT(30), ZenonT(30)
<1>3. DockerInv /\ CommandsInv => NothingLeftBehind
  <2>1. DockerInv => DockerLeavesNothing
    BY DEF DockerInv, DockerLeavesNothing
  <2>2. QED
    BY <2>1, CommandsWaitsEnd, SMTT(30), ZenonT(30) DEF NothingLeftBehind
<1>4. QED
  BY <1>1, <1>2, <1>3, PTL DEF ExtSpec

-----------------------------------------------------------------------------
(* Plugins *)

\* A set of naturals has a least element, and Min returns it.
LEMMA MinOfNaturals ==
  ASSUME NEW S \in SUBSET Nat, S # {}
  PROVE  Min(S) \in S
<1>1. PICK x \in S : \A y \in S : ~(<<y, x>> \in OpToRel(<, Nat))
  BY NatLessThanWellFounded, WFMin, ZenonT(30)
<1>2. \A y \in S : <<y, x>> \in OpToRel(<, Nat) <=> y < x
  BY DEF OpToRel
<1>3. \A y \in S : ~(y < x)
  BY <1>1, <1>2, ZenonT(30)
<1>4. \A y \in S : x <= y
  BY <1>3, SMTT(30), ZenonT(30)
<1>5. QED
  BY <1>4, ZenonT(30) DEF Min

\* The places of a concatenation.
LEMMA ConcatPlaces ==
  ASSUME NEW S, NEW T, NEW e \in Seq(S), NEW f \in Seq(T)
  PROVE  /\ DOMAIN (e \o f) \subseteq Nat
         /\ DOMAIN e \subseteq DOMAIN (e \o f)
         /\ \A k \in DOMAIN (e \o f) : (e \o f)[k] \in S \/ (e \o f)[k] \in T
<1>1. e \in Seq(S \cup T) /\ f \in Seq(S \cup T)
  OBVIOUS
<1>2. QED
  BY <1>1, SMTT(30), ZenonT(30)

\* What may be installed, place by place.
LEMMA InstalledPlaces ==
  ASSUME library \in Libraries \cup {NoLibrary}
  PROVE  /\ DOMAIN Installed \subseteq Nat
         /\ DOMAIN library.entries \subseteq DOMAIN Installed
         /\ \A k \in DOMAIN Installed :
              \/ Installed[k] \in Range(library.entries)
              \/ Installed[k] \in Range(library.folders)
         /\ \A p \in Range(library.entries) : p.source = "entry_point"
         /\ \A p, q \in Range(library.folders) : p.name = q.name => p = q
<1>1. /\ library.entries \in Seq(Range(library.entries))
      /\ library.folders \in Seq(Range(library.folders))
  <2>1. CASE library \in Libraries
    BY <2>1, PluginsAssumption, SMTT(30), ZenonT(30)
  <2>2. CASE library = NoLibrary
    BY <2>2, SMTT(30), ZenonT(30) DEF NoLibrary
  <2>3. QED
    BY <2>1, <2>2, SMTT(30), ZenonT(30)
<1>2. /\ \A p \in Range(library.entries) : p.source = "entry_point"
      /\ \A j, k \in DOMAIN library.folders :
           library.folders[j].name = library.folders[k].name => j = k
  <2>1. CASE library \in Libraries
    BY <2>1, PluginsAssumption, SMTT(30), ZenonT(30)
  <2>2. CASE library = NoLibrary
    BY <2>2, SMTT(30), ZenonT(30) DEF NoLibrary, Range
  <2>3. QED
    BY <2>1, <2>2, SMTT(30), ZenonT(30)
<1>3. \A p, q \in Range(library.folders) : p.name = q.name => p = q
  BY <1>2, SMTT(30), ZenonT(30) DEF Range
<1>4. /\ DOMAIN Installed \subseteq Nat
      /\ DOMAIN library.entries \subseteq DOMAIN Installed
      /\ \A k \in DOMAIN Installed :
           \/ Installed[k] \in Range(library.entries)
           \/ Installed[k] \in Range(library.folders)
  BY <1>1, ConcatPlaces, ZenonT(30) DEF Installed
<1>5. QED
  BY <1>2, <1>3, <1>4, ZenonT(30)

\* What Condemned says in the property is what the scanner finds.
LEMMA CleanIsNotCondemned == ASSUME NEW p, Clean(p) PROVE ~Condemned(p)
BY SMTT(30), ZenonT(30) DEF Clean, Condemned, Flags, ScanSource, Range

\* The library stays, and with it what was found.
LEMMA SameLibrary ==
  ASSUME library' = library
  PROVE  Found' = Found /\ Installed' = Installed
BY ZenonT(30) DEF Found, EntryPoints, Folders, Installed

\* The places found are places, and the first of those to be loaded is one.
LEMMA FoundPlaces ==
  ASSUME library \in Libraries \cup {NoLibrary}
  PROVE  Found \subseteq DOMAIN Installed /\ Found \subseteq Nat
<1>1. EntryPoints.found = DOMAIN library.entries /\ Folders.found \subseteq DOMAIN Installed
  BY DEF EntryPoints, Folders
<1>2. QED
  BY <1>1, InstalledPlaces, ZenonT(30) DEF Found

LEMMA CurrentPlace ==
  ASSUME PhaseSound, manifests # {}
  PROVE  /\ Min(manifests) \in manifests /\ Min(manifests) \in Found
         /\ Current = Installed[Min(manifests)]
         /\ Current \in Range(library.entries) \/ Current \in Range(library.folders)
<1>1. manifests \in SUBSET Nat
  BY FoundPlaces, ZenonT(30) DEF PhaseSound
<1>2. Min(manifests) \in manifests
  BY <1>1, MinOfNaturals, ZenonT(30)
<1>3. QED
  BY <1>2, FoundPlaces, InstalledPlaces, ZenonT(30) DEF PhaseSound, Current

\* The trail of a plugin that was not in it, then is, or stays out of it.
LEMMA TrailGrows ==
  ASSUME TrailSound, PhaseSound, phase \in {"load", "import", "build", "hop", "not_tools", "valid"},
         manifests # {}, library' = library,
         Untold' = manifests \ {Min(manifests)}, phase' # "merge" \/ Audited(Current, "loaded")',
         trail' = trail \/ \E o : Audit(o)
  PROVE  TrailSound' /\ Range(trail) \subseteq Range(trail')
<1> DEFINE m == Min(manifests)
<1>1. m \in manifests /\ m \in Found /\ Current = Installed[m] /\ Untold = manifests
  BY CurrentPlace, ZenonT(30) DEF Untold
<1>2. Found' = Found /\ Installed' = Installed
  BY SameLibrary
<1>3. CASE trail' = trail
  BY <1>1, <1>2, <1>3, ZenonT(30) DEF TrailSound
<1>4. ASSUME NEW o, Audit(o) PROVE TrailSound' /\ Range(trail) \subseteq Range(trail')
  <2> DEFINE e == [plugin |-> Current.name, outcome |-> o]
  <2>1. PICK S : trail \in Seq(S)
    BY DEF TrailSound
  <2>2. trail' = Append(trail, e) /\ e.plugin = Current.name
    BY <1>4 DEF Audit
  <2> HIDE DEF e, m
  <2>3. /\ trail' \in Seq(S \cup {e})
        /\ DOMAIN trail' = DOMAIN trail \cup {Len(trail) + 1} /\ Len(trail) + 1 \notin DOMAIN trail
        /\ \A k \in DOMAIN trail : trail'[k] = trail[k]
        /\ trail'[Len(trail) + 1] = e
        /\ Range(trail') = Range(trail) \cup {e}
    <3>1. trail \in Seq(S \cup {e}) /\ e \in S \cup {e}
      BY <2>1
    <3>2. /\ trail' \in Seq(S \cup {e})
          /\ DOMAIN trail' = DOMAIN trail \cup {Len(trail) + 1} /\ Len(trail) + 1 \notin DOMAIN trail
          /\ \A k \in DOMAIN trail : trail'[k] = trail[k]
          /\ trail'[Len(trail) + 1] = e
      BY <2>2, <3>1, SMTT(30)
    <3>3. Range(trail') = Range(trail) \cup {e}
      BY <3>2, ZenonT(30) DEF Range
    <3>4. QED
      BY <3>2, <3>3
  <2>4. \A j \in DOMAIN trail : trail[j].plugin # Current.name
    <3> SUFFICES ASSUME NEW j \in DOMAIN trail, trail[j].plugin = Current.name PROVE FALSE
      OBVIOUS
    <3>1. PICK k \in Found \ manifests : trail[j].plugin = Installed[k].name
      BY <1>1, ZenonT(30) DEF TrailSound
    <3>2. k = m
      BY <1>1, <3>1, ZenonT(30) DEF PhaseSound, Before
    <3>3. QED
      BY <1>1, <3>1, <3>2
  <2>5. \A j, k \in DOMAIN trail' : trail'[j].plugin = trail'[k].plugin => j = k
    <3> DEFINE n == Len(trail) + 1
    <3> HIDE DEF n
    <3>1. /\ DOMAIN trail' = DOMAIN trail \cup {n} /\ trail'[n].plugin = Current.name
          /\ \A k \in DOMAIN trail : trail'[k] = trail[k]
      BY <2>2, <2>3, ZenonT(30) DEF n
    <3> SUFFICES ASSUME NEW j \in DOMAIN trail', NEW k \in DOMAIN trail',
                        trail'[j].plugin = trail'[k].plugin
                 PROVE  j = k
      OBVIOUS
    <3>2. CASE j \in DOMAIN trail /\ k \in DOMAIN trail
      BY <3>1, <3>2, ZenonT(30) DEF TrailSound
    <3>3. CASE j \in DOMAIN trail /\ k = n
      BY <2>4, <3>1, <3>3, ZenonT(30)
    <3>4. CASE j = n /\ k \in DOMAIN trail
      BY <2>4, <3>1, <3>4, ZenonT(30)
    <3>5. QED
      BY <3>1, <3>2, <3>3, <3>4, ZenonT(30)
  <2>6. \A j \in DOMAIN trail' : \E k \in Found \ (manifests \ {m}) : trail'[j].plugin = Installed[k].name
    <3> SUFFICES ASSUME NEW j \in DOMAIN trail'
                 PROVE  \E k \in Found \ (manifests \ {m}) : trail'[j].plugin = Installed[k].name
      OBVIOUS
    <3>1. CASE j \in DOMAIN trail
      BY <1>1, <2>3, <3>1, ZenonT(30) DEF TrailSound
    <3>2. CASE j = Len(trail) + 1
      BY <1>1, <2>2, <2>3, <3>2, ZenonT(30)
    <3>3. QED
      BY <2>3, <3>1, <3>2, ZenonT(30)
  <2>7. QED
    BY <1>2, <2>3, <2>5, <2>6, ZenonT(30) DEF TrailSound, m
<1>5. QED
  BY <1>3, <1>4

\* What was told stays told.
LEMMA ToldStays ==
  ASSUME Range(trail) \subseteq Range(trail')
  PROVE  /\ \A p : Told(p) => Told(p)'
         /\ ToolsSound /\ tools' = tools => ToolsSound'
BY ZenonT(30) DEF Told, Audited, ToolsSound

\* What is loaded next is none of the others.
LEMMA OneIsLoaded ==
  ASSUME PluginsInv, phase \notin Before, manifests # {},
         NEW k \in Found, k # Min(manifests),
         ran' \subseteq ran \cup {Current}, Installed[k] \in ran'
  PROVE  Installed[k] \in ran /\ k \notin manifests /\ Told(Installed[k]) /\ ~Condemned(Installed[k])
<1>1. /\ Min(manifests) \in Found /\ Current = Installed[Min(manifests)]
  BY CurrentPlace, ZenonT(30) DEF PluginsInv
<1>2. Installed[k] # Current
  BY <1>1, ZenonT(30) DEF PluginsInv, PhaseSound
<1>3. Installed[k] \in ran
  BY <1>2
<1>4. QED
  BY <1>3, ZenonT(30) DEF PluginsInv, RanSound

\* load() ends with an exception: the plugin is skipped, or it propagates.
LEMMA LoadEnds ==
  ASSUME PluginsInv, phase \in {"load", "import", "build", "hop", "not_tools"}, manifests # {},
         library' = library, tools' = tools, Failed, ModulesSound',
         trail' = trail \/ \E o : Audit(o),
         ran' \subseteq ran \cup {Current},
         NEW c, c = Current, c \in ran' => ~Condemned(c) /\ Told(c)'
  PROVE  PluginsInv'
<1> DEFINE m == Min(manifests)
<1>1. m \in manifests /\ m \in Found /\ Current = Installed[m]
  BY CurrentPlace, ZenonT(30) DEF PluginsInv
<1>2. Found' = Found /\ Installed' = Installed
  BY SameLibrary
<1>3. \/ phase' = "raised" /\ manifests' = manifests
      \/ phase' = "load" /\ manifests' = manifests \ {m}
  BY DEF Failed
<1>4. Untold' = manifests \ {m} /\ phase' # "merge"
  BY <1>3, ZenonT(30) DEF Untold
<1> HIDE DEF m
<1>5. TrailSound' /\ Range(trail) \subseteq Range(trail')
  <2> DEFINE Same == trail' = trail \/ \E o : Audit(o)
  <2>1. Same
    OBVIOUS
  <2> HIDE DEF Same
  <2>2. PluginsInv => PhaseSound /\ TrailSound
    BY DEF PluginsInv
  <2>3. phase \in {"load", "import", "build", "hop", "not_tools", "valid"}
    BY ZenonT(30)
  <2>4. QED
    BY <1>4, <2>1, <2>2, <2>3, TrailGrows, ZenonT(30) DEF m, Same
<1>6. PhaseSound'
  BY <1>1, <1>2, <1>3, ZenonT(30) DEF PluginsInv, PhaseSound, Before, Loading, After
<1>7. RanSound'
  <2> SUFFICES ASSUME NEW k \in Found, NEW p, p = Installed[k], p \in ran'
               PROVE  /\ ~Condemned(p)
                      /\ k \in manifests' => k = Min(manifests') /\ phase' = "raised"
                      /\ Told(p)'
    BY <1>2, ZenonT(30) DEF RanSound, Told, Audited
  <2>1. CASE k = m
    <3>1. p = c /\ (k \in manifests' => k = Min(manifests') /\ phase' = "raised")
      BY <1>1, <1>3, <2>1, ZenonT(30) DEF m
    <3>2. QED
      BY <3>1
  <2>2. CASE k # m
    <3>1. k \notin manifests /\ Told(p) /\ ~Condemned(p)
      BY <2>2, OneIsLoaded, ZenonT(30) DEF m, Before
    <3>2. QED
      BY <1>3, <1>5, <3>1, ToldStays, ZenonT(30)
  <2>3. QED
    BY <2>1, <2>2
<1>8. ToolsSound'
  BY <1>5, ToldStays, ZenonT(30) DEF PluginsInv
<1>9. QED
  BY <1>5, <1>6, <1>7, <1>8 DEF PluginsInv

\* load() goes on: nothing is told yet.
LEMMA LoadGoesOn ==
  ASSUME PluginsInv, phase \in {"load", "import", "build", "hop"}, manifests # {},
         library' = library, tools' = tools, manifests' = manifests, trail' = trail, ModulesSound',
         phase' \in {"import", "build", "hop", "not_tools", "valid"},
         ran' \subseteq ran \cup {Current},
         Current \in ran' => ~Condemned(Current) /\ phase' # "import",
         phase' = "import" => Clean(Current),
         phase' = "not_tools" => "not_tools" \in {Current.factory, Current.inner}
  PROVE  PluginsInv'
<1> DEFINE m == Min(manifests)
<1>1. m \in manifests /\ m \in Found /\ Current = Installed[m]
  BY CurrentPlace, ZenonT(30) DEF PluginsInv
<1>2. Found' = Found /\ Installed' = Installed /\ Current' = Current
  BY SameLibrary, ZenonT(30) DEF Current
<1>3. Untold' = manifests /\ Untold = manifests
  BY ZenonT(30) DEF Untold
<1>4. TrailSound'
  BY <1>2, <1>3, ZenonT(30) DEF PluginsInv, TrailSound
<1>5. PhaseSound'
  BY <1>1, <1>2, ZenonT(30) DEF PluginsInv, PhaseSound, Before, Loading, After
<1> HIDE DEF m
<1>6. RanSound'
  <2> SUFFICES ASSUME NEW k \in Found, Installed[k] \in ran'
               PROVE  /\ ~Condemned(Installed[k])
                      /\ k \in manifests => k = m /\ phase' # "import"
                      /\ k \notin manifests => Told(Installed[k])
    BY <1>2, ZenonT(30) DEF RanSound, m, Told, Audited, Loading
  <2>1. CASE k = m
    BY <1>1, <2>1, ZenonT(30)
  <2>2. CASE k # m
    BY <2>2, OneIsLoaded, ZenonT(30) DEF m, Before
  <2>3. QED
    BY <2>1, <2>2
<1>7. ToolsSound'
  BY ToldStays, ZenonT(30) DEF PluginsInv
<1>8. QED
  BY <1>4, <1>5, <1>6, <1>7 DEF PluginsInv

\* Importing the entry module: a failure takes out what it has inserted.
LEMMA ImportLeavesSound ==
  ASSUME PluginsInv, manifests # {}, library' = library,
         ImportModule(Current, "entry", Current.parts)
  PROVE  ModulesSound'
<1> DEFINE p == Current
<1>1. p \in Range(library.entries) \/ p \in Range(library.folders)
  BY CurrentPlace, ZenonT(30) DEF PluginsInv
<1> SUFFICES ASSUME NEW q \in Range(library.folders), Stops(q.parts) # 0, NEW k \in DOMAIN q.parts
             PROVE  <<q.name, "entry", k>> \notin modules'
  BY ZenonT(30) DEF ModulesSound
<1>2. <<q.name, "entry", k>> \notin modules
  BY ZenonT(30) DEF PluginsInv, ModulesSound
<1>3. <<q.name, "entry", k>> \notin Pulled(p, "entry", p.parts)
  BY SMTT(30) DEF Pulled
<1>4. CASE p.source = "directory" /\ Stops(p.parts) = 0
  <2>1. p.name # q.name
    BY <1>1, <1>4, InstalledPlaces, SMTT(30), ZenonT(30) DEF PluginsInv, PhaseSound
  <2>2. modules' = Pulled(p, "entry", p.parts) \cup (modules \cup Inserted(p.name, "entry", p.parts))
    BY <1>4, SMTT(30), ZenonT(30) DEF ImportModule, ImportDirectory
  <2>3. QED
    BY <1>2, <1>3, <2>1, <2>2, SMTT(30), ZenonT(30) DEF Inserted
<1>5. CASE ~(p.source = "directory" /\ Stops(p.parts) = 0)
  <2>1. modules' \subseteq modules \cup Pulled(p, "entry", p.parts)
    BY <1>5, SMTT(30), ZenonT(30) DEF ImportModule, ImportDirectory
  <2>2. QED
    BY <1>2, <1>3, <2>1, ZenonT(30)
<1>6. QED
  BY <1>4, <1>5

LEMMA DiscoverKeeps == ASSUME PluginsInv, Discover PROVE PluginsInv'
<1>1. library' = library /\ Found' = Found /\ Installed' = Installed
  BY SameLibrary DEF Discover
<1>2. /\ trail' = <<>> /\ tools' = <<>> /\ ran' = {} /\ modules' = modules
  BY ZenonT(30) DEF Discover, PluginsInv, PhaseSound, Before
<1>3. \/ phase' = "no_discovery" /\ manifests' = manifests
      \/ phase' = "load" /\ manifests' = Found /\ ~Ambiguous(Found)
  BY ZenonT(30) DEF Discover, Found
<1>4. Found \subseteq Nat
  BY FoundPlaces, ZenonT(30) DEF PluginsInv, PhaseSound
<1>5. ~Ambiguous(Found) => \A j, k \in Found : Installed[j].name = Installed[k].name => j = k
  BY <1>4, SMTT(30) DEF Ambiguous
<1>6. PhaseSound'
  BY <1>1, <1>2, <1>3, <1>5, ZenonT(30) DEF PluginsInv, PhaseSound, Before, Loading, After
<1>7. DOMAIN trail' = {} /\ DOMAIN tools' = {} /\ trail' \in Seq({}) /\ tools' \in Seq({})
  BY <1>2, SMTT(30)
<1>8. TrailSound' /\ ToolsSound' /\ RanSound'
  BY <1>2, <1>3, <1>7, ZenonT(30) DEF TrailSound, ToolsSound, RanSound
<1>9. ModulesSound'
  BY <1>1, <1>2, ZenonT(30) DEF PluginsInv, ModulesSound
<1>10. QED
  BY <1>6, <1>8, <1>9 DEF PluginsInv

LEMMA LoadedKeeps == ASSUME PluginsInv, Loaded PROVE PluginsInv'
<1> DEFINE m == Min(manifests)
<1>1. /\ phase = "valid" /\ phase' = "merge" /\ Audit("loaded") /\ library' = library
      /\ manifests' = manifests /\ tools' = tools /\ modules' = modules /\ ran' = ran
  BY DEF Loaded
<1>2. manifests # {} /\ Found' = Found /\ Installed' = Installed /\ Current' = Current
  BY <1>1, SameLibrary, ZenonT(30) DEF PluginsInv, PhaseSound, Loading, Current
<1>3. m \in manifests /\ m \in Found /\ Current = Installed[m]
  BY <1>2, CurrentPlace, ZenonT(30) DEF PluginsInv
<1>4. Untold' = manifests \ {m}
  BY <1>1, ZenonT(30) DEF Untold
<1>5. Audited(Current, "loaded")'
  <2> DEFINE e == [plugin |-> Current.name, outcome |-> "loaded"]
  <2>1. PICK S : trail \in Seq(S)
    BY DEF PluginsInv, TrailSound
  <2>2. trail' = Append(trail, e)
    BY <1>1 DEF Audit
  <2> HIDE DEF e
  <2>3. Len(trail) + 1 \in DOMAIN trail' /\ trail'[Len(trail) + 1] = e
    BY <2>1, <2>2, SMTT(30)
  <2>4. e \in Range(trail')
    BY <2>3, ZenonT(30) DEF Range
  <2>5. QED
    BY <1>2, <2>4, ZenonT(30) DEF Audited, e
<1>6. TrailSound' /\ Range(trail) \subseteq Range(trail')
  BY <1>1, <1>2, <1>4, <1>5, TrailGrows, ZenonT(30) DEF PluginsInv
<1>7. PhaseSound'
  BY <1>1, <1>2, ZenonT(30) DEF PluginsInv, PhaseSound, Before, Loading, After
<1> HIDE DEF m
<1>8. RanSound'
  <2> SUFFICES ASSUME NEW k \in Found, NEW p, p = Installed[k], p \in ran
               PROVE  ~Condemned(p) /\ (k \in manifests => k = m) /\ Told(p)'
    BY <1>1, <1>2, ZenonT(30) DEF RanSound, Told, Audited, Loading, m
  <2>1. ~Condemned(p) /\ (k \in manifests => k = m) /\ (k \notin manifests => Told(p))
    BY ZenonT(30) DEF PluginsInv, RanSound, m
  <2>2. CASE k = m
    BY <1>2, <1>3, <1>5, <2>1, <2>2, ZenonT(30) DEF Told, Audited
  <2>3. CASE k # m
    BY <1>6, <2>1, <2>3, ToldStays, ZenonT(30)
  <2>4. QED
    BY <2>1, <2>2, <2>3
<1>9. ToolsSound' /\ ModulesSound'
  BY <1>1, <1>6, ToldStays, ZenonT(30) DEF PluginsInv, ModulesSound
<1>10. QED
  BY <1>6, <1>7, <1>8, <1>9 DEF PluginsInv

\* The tools a plugin adds are a sequence of its own.
LEMMA OwnedTools ==
  ASSUME PluginsInv, manifests # {}
  PROVE  \E T : Owned(Current) \in Seq(T) /\ \A t \in T : t.owner = Current.name
<1> DEFINE p == Current
           T == {[name |-> n, owner |-> p.name] : n \in Range(p.tools)}
<1>1. p.tools \in Seq(Range(p.tools))
  <2>1. p \in Range(library.entries) \/ p \in Range(library.folders)
    BY CurrentPlace, ZenonT(30) DEF PluginsInv
  <2>2. library \in Libraries
    <3>1. NoLibrary.entries = <<>> /\ NoLibrary.folders = <<>>
      BY DEF NoLibrary
    <3>2. Range(<<>>) = {}
      BY SMTT(30) DEF Range
    <3>3. library # NoLibrary
      BY <2>1, <3>1, <3>2, ZenonT(30)
    <3>4. QED
      BY <3>3, ZenonT(30) DEF PluginsInv, PhaseSound
  <2>3. Min(manifests) \in DOMAIN Installed /\ p = Installed[Min(manifests)]
    BY CurrentPlace, FoundPlaces, ZenonT(30) DEF PluginsInv, PhaseSound
  <2>4. p \in Range(library.entries \o library.folders)
    BY <2>3, ZenonT(30) DEF Installed, Range
  <2> HIDE DEF p
  <2>5. QED
    BY <2>2, <2>4, PluginsAssumption, ZenonT(30)
<1> HIDE DEF p
<1>2. \A k \in DOMAIN p.tools : Owned(p)[k] \in T
  BY ZenonT(30) DEF Owned, Range
<1>3. \A t \in T : t.owner = p.name
  OBVIOUS
<1> HIDE DEF T
<1>4. DOMAIN Owned(p) = DOMAIN p.tools /\ Owned(p) = [k \in DOMAIN p.tools |-> Owned(p)[k]]
  BY ZenonT(30) DEF Owned
<1>5. DOMAIN p.tools = 1..Len(p.tools) /\ Len(p.tools) \in Nat
  BY <1>1, SMTT(30)
<1>6. Owned(p) \in Seq(T)
  <2> DEFINE o == Owned(p)
             n == Len(p.tools)
  <2>1. o = [k \in 1..n |-> o[k]] /\ n \in Nat /\ \A k \in 1..n : o[k] \in T
    BY <1>2, <1>4, <1>5, ZenonT(30)
  <2> HIDE DEF o, n
  <2>2. o \in Seq(T)
    BY <2>1, SMTT(30)
  <2>3. QED
    BY <2>2 DEF o
<1>7. QED
  BY <1>3, <1>6 DEF p

LEMMA MergeKeeps == ASSUME PluginsInv, Merge PROVE PluginsInv'
<1> DEFINE m == Min(manifests)
<1>1. /\ phase = "merge" /\ library' = library /\ modules' = modules /\ trail' = trail /\ ran' = ran
      /\ \/ phase' = "raised" /\ manifests' = manifests /\ tools' = tools
         \/ /\ tools' = tools \o Owned(Current)
            /\ phase' = "load" /\ manifests' = manifests \ {m}
  BY DEF Merge
<1>2. manifests # {} /\ Found' = Found /\ Installed' = Installed
  BY <1>1, SameLibrary, ZenonT(30) DEF PluginsInv, PhaseSound, Loading
<1>3. m \in manifests /\ m \in Found /\ Current = Installed[m]
  BY <1>2, CurrentPlace, ZenonT(30) DEF PluginsInv
<1>4. Untold' = Untold
  BY <1>1, ZenonT(30) DEF Untold
<1>5. TrailSound'
  BY <1>1, <1>2, <1>4, ZenonT(30) DEF PluginsInv, TrailSound
<1>6. PhaseSound'
  BY <1>1, <1>2, ZenonT(30) DEF PluginsInv, PhaseSound, Before, Loading, After
<1> HIDE DEF m
<1>7. RanSound'
  <2> SUFFICES ASSUME NEW k \in Found, NEW p, p = Installed[k], p \in ran
               PROVE  /\ ~Condemned(p) /\ Told(p)
                      /\ k \in manifests' => k = Min(manifests') /\ phase' = "raised"
    BY <1>1, <1>2, ZenonT(30) DEF RanSound, Told, Audited
  <2>1. ~Condemned(p) /\ (k \in manifests => k = m) /\ Told(p)
    BY <1>1, ZenonT(30) DEF PluginsInv, RanSound, m
  <2>2. QED
    BY <1>1, <2>1, ZenonT(30) DEF m
<1>8. ToolsSound'
  <2>1. CASE tools' = tools
    BY <1>1, <2>1, ZenonT(30) DEF PluginsInv, ToolsSound
  <2>2. CASE tools' = tools \o Owned(Current)
    <3>1. PICK S : /\ tools \in Seq(S)
                   /\ \A t \in S : [plugin |-> t.owner, outcome |-> "loaded"] \in Range(trail)
      BY DEF PluginsInv, ToolsSound
    <3>2. PICK T : Owned(Current) \in Seq(T) /\ \A t \in T : t.owner = Current.name
      BY <1>2, OwnedTools
    <3>3. [plugin |-> Current.name, outcome |-> "loaded"] \in Range(trail)
      BY <1>1, ZenonT(30) DEF PluginsInv, TrailSound, Audited
    <3> DEFINE o == Owned(Current)
    <3>4. o \in Seq(T) /\ tools' = tools \o o
      BY <2>2, <3>2
    <3> HIDE DEF o
    <3>5. tools \in Seq(S \cup T) /\ o \in Seq(S \cup T)
      BY <3>1, <3>4, SMTT(30)
    <3>6. tools' \in Seq(S \cup T)
      BY <3>4, <3>5, SMTT(30)
    <3>7. \A t \in S \cup T : [plugin |-> t.owner, outcome |-> "loaded"] \in Range(trail')
      BY <1>1, <3>1, <3>2, <3>3, ZenonT(30)
    <3>8. QED
      BY <3>6, <3>7, ZenonT(30) DEF ToolsSound
  <2>3. QED
    BY <1>1, <2>1, <2>2
<1>9. ModulesSound'
  BY <1>1, ZenonT(30) DEF PluginsInv, ModulesSound
<1>10. QED
  BY <1>5, <1>6, <1>7, <1>8, <1>9 DEF PluginsInv

LEMMA FailedIsTold ==
  ASSUME TrailSound, Audit("failed"), NEW c, c = Current
  PROVE  Told(c)'
<1> DEFINE e == [plugin |-> c.name, outcome |-> "failed"]
<1>1. PICK S : trail \in Seq(S)
  BY DEF TrailSound
<1>2. trail' = Append(trail, e)
  BY DEF Audit
<1> HIDE DEF e
<1>3. Len(trail) + 1 \in DOMAIN trail' /\ trail'[Len(trail) + 1] = e
  BY <1>1, <1>2, SMTT(30)
<1>4. e \in Range(trail')
  BY <1>3, ZenonT(30) DEF Range
<1>5. QED
  BY <1>4, ZenonT(30) DEF Told, Audited, e

LEMMA PluginsKeeps ==
  ASSUME PluginsInv, [PluginsStep]_pluginVars
  PROVE  PluginsInv'
<1>0. PICK c : c = Current
  OBVIOUS
<1>1. library' = library /\ modules' = modules => ModulesSound'
  BY ZenonT(30) DEF PluginsInv, ModulesSound
<1>2. phase \in Loading => manifests # {}
  BY ZenonT(30) DEF PluginsInv, PhaseSound
<1>3. manifests # {} => Min(manifests) \in manifests /\ Min(manifests) \in Found /\ c = Installed[Min(manifests)]
  BY <1>0, CurrentPlace, ZenonT(30) DEF PluginsInv
<1>4. manifests # {} /\ c \in ran =>
        ~Condemned(c) /\ phase \in (Loading \ {"import"}) \cup {"raised"}
  BY <1>3, ZenonT(30) DEF PluginsInv, RanSound
<1>5. PluginsInv => TrailSound
  BY DEF PluginsInv
<1>6. ASSUME Unsupported \/ Rejected \/ NotLocated PROVE PluginsInv'
  <2>1. /\ phase = "load" /\ manifests # {} /\ Failed /\ library' = library /\ tools' = tools
        /\ modules' = modules /\ ran' = ran
        /\ trail' = trail \/ \E o : Audit(o)
    BY <1>6, ZenonT(30) DEF Unsupported, Rejected, NotLocated, Supported
  <2>2. c \notin ran'
    BY <1>4, <2>1, ZenonT(30) DEF Loading
  <2>3. c = Current
    BY <1>0
  <2>4. QED
    BY <1>1, <2>1, <2>2, <2>3, LoadEnds, ZenonT(30)
<1>7. ASSUME FactoryFails PROVE PluginsInv'
  <2>1. /\ phase \in {"build", "hop"} /\ Failed /\ library' = library /\ tools' = tools
        /\ modules' = modules /\ ran' = ran /\ Audit("failed")
    BY <1>7, ZenonT(30) DEF FactoryFails
  <2>2. manifests # {} /\ phase \in {"load", "import", "build", "hop", "not_tools"}
    BY <1>2, <2>1, ZenonT(30) DEF Loading
  <2>3. c = Current
    BY <1>0
  <2>4. c \in ran' => ~Condemned(c) /\ Told(c)'
    BY <1>4, <1>5, <2>1, <2>2, <2>3, FailedIsTold, ZenonT(30)
  <2>5. QED
    BY <1>1, <2>1, <2>2, <2>3, <2>4, LoadEnds, ZenonT(30)
<1>8. ASSUME NotTools PROVE PluginsInv'
  <2>1. /\ phase = "not_tools" /\ Failed /\ library' = library /\ tools' = tools
        /\ modules' = modules /\ ran' = ran /\ trail' = trail
    BY <1>8, ZenonT(30) DEF NotTools
  <2>2. manifests # {} /\ c = Current
    BY <1>0, <1>2, <2>1, ZenonT(30) DEF Loading
  <2>3. "not_tools" \in {c.factory, c.inner}
    BY <1>0, <2>1, ZenonT(30) DEF PluginsInv, PhaseSound
  <2>4. c \in ran' => ~Condemned(c) /\ Told(c)'
    BY <1>4, <2>1, <2>2, <2>3, ZenonT(30) DEF Told
  <2>5. QED
    BY <1>1, <2>1, <2>2, <2>4, LoadEnds, ZenonT(30)
<1>9. ASSUME Import PROVE PluginsInv'
  <2>1. /\ phase = "import" /\ library' = library /\ tools' = tools
        /\ ImportModule(Current, "entry", Current.parts) /\ ran' \subseteq ran \cup {Current}
    BY <1>9, ZenonT(30) DEF Import, Ran
  <2>2. manifests # {} /\ c = Current
    BY <1>0, <1>2, <2>1, ZenonT(30) DEF Loading
  <2>3. ModulesSound'
    BY <2>1, <2>2, ImportLeavesSound
  <2>4. ~Condemned(c)
    BY <1>0, <2>1, CleanIsNotCondemned, ZenonT(30) DEF PluginsInv, PhaseSound
  <2>5. CASE Audit("failed") /\ Failed
    <3>1. Told(c)'
      BY <1>5, <2>2, <2>5, FailedIsTold, ZenonT(30)
    <3>2. QED
      BY <2>1, <2>2, <2>3, <2>4, <2>5, <3>1, LoadEnds, ZenonT(30)
  <2>6. CASE phase' = "build" /\ trail' = trail /\ manifests' = manifests
    BY <2>1, <2>2, <2>3, <2>4, <2>6, LoadGoesOn, ZenonT(30)
  <2>7. QED
    BY <1>9, <2>5, <2>6, ZenonT(30) DEF Import
<1>10. ASSUME Follow PROVE PluginsInv'
  <2>1. /\ phase = "build" /\ library' = library /\ tools' = tools /\ ran' = ran
    BY <1>10, ZenonT(30) DEF Follow
  <2>2. manifests # {} /\ c = Current
    BY <1>0, <1>2, <2>1, ZenonT(30) DEF Loading
  <2>3. ModulesSound'
    <3>1. ASSUME NEW n, NEW k, <<n, "entry", k>> \notin modules
          PROVE  <<n, "entry", k>> \notin modules'
      BY <1>10, <3>1, SMTT(30), ZenonT(30) DEF Follow, ImportModule, ImportDirectory, Inserted, Pulled
    <3>2. QED
      BY <2>1, <3>1, ZenonT(30) DEF PluginsInv, ModulesSound
  <2>4. CASE Audit("failed") /\ Failed
    <3>1. Told(c)'
      BY <1>5, <2>2, <2>4, FailedIsTold, ZenonT(30)
    <3>2. QED
      BY <1>4, <2>1, <2>2, <2>3, <2>4, <3>1, LoadEnds, ZenonT(30)
  <2>5. CASE phase' = "hop" /\ trail' = trail /\ manifests' = manifests
    BY <1>4, <2>1, <2>2, <2>3, <2>5, LoadGoesOn, ZenonT(30)
  <2>6. QED
    BY <1>10, <2>4, <2>5, ZenonT(30) DEF Follow
<1>11. ASSUME Scanned PROVE PluginsInv'
  <2>1. /\ phase = "load" /\ manifests # {} /\ phase' = "import" /\ Clean(Current)
        /\ UNCHANGED <<library, manifests, tools, modules, trail, ran>>
    BY <1>11 DEF Scanned, Supported
  <2>2. Current \notin ran'
    BY <1>0, <1>4, <2>1, ZenonT(30) DEF Loading
  <2>3. QED
    BY <1>1, <2>1, <2>2, LoadGoesOn, ZenonT(30)
<1>12. ASSUME Built PROVE PluginsInv'
  <2>1. /\ phase \in {"build", "hop"} /\ phase' \in {"valid", "not_tools"}
        /\ phase' = "not_tools" => "not_tools" \in {Current.factory, Current.inner}
        /\ UNCHANGED <<library, manifests, tools, modules, trail, ran>>
    BY <1>12, ZenonT(30) DEF Built, Factory
  <2>2. manifests # {}
    BY <1>2, <2>1, ZenonT(30) DEF Loading
  <2>3. Current \in ran' => ~Condemned(Current)
    BY <1>0, <1>4, <2>1, <2>2, ZenonT(30)
  <2>4. QED
    BY <1>1, <2>1, <2>2, <2>3, LoadGoesOn, ZenonT(30)
<1>13. ASSUME ReturnTools \/ BuildAgent \/ UNCHANGED pluginVars PROVE PluginsInv'
  <2>1. /\ UNCHANGED <<library, manifests, tools, modules, trail, ran>>
        /\ \/ phase' = phase
           \/ /\ phase \in {"load", "returned"}
              /\ phase' \in {"returned", "agent", "duplicate_tool"}
    BY <1>13, ZenonT(30) DEF ReturnTools, BuildAgent, pluginVars
  <2>2. Found' = Found /\ Installed' = Installed /\ Current' = Current
    BY <2>1, SameLibrary, ZenonT(30) DEF Current
  <2>3. Untold' = Untold /\ (phase' = phase \/ phase' \notin {"merge", "raised"})
    BY <2>1, ZenonT(30) DEF Untold
  <2>4. PhaseSound' /\ ToolsSound'
    BY <2>1, <2>2, ZenonT(30) DEF PluginsInv, PhaseSound, ToolsSound, Before, Loading, After
  <2>5. TrailSound'
    BY <2>1, <2>2, <2>3, ZenonT(30) DEF PluginsInv, TrailSound, Audited
  <2>6. RanSound'
    BY <2>1, <2>2, ZenonT(30) DEF PluginsInv, RanSound, Told, Audited, Loading
  <2>7. QED
    BY <1>1, <2>1, <2>4, <2>5, <2>6, ZenonT(30) DEF PluginsInv
<1>14. QED
  BY <1>6, <1>7, <1>8, <1>9, <1>10, <1>11, <1>12, <1>13, DiscoverKeeps, LoadedKeeps, MergeKeeps,
     ZenonT(30) DEF PluginsStep

(***************************************************************************)
(* For every library of plugins the audit trail is a true account: one     *)
(* entry at most per plugin, none missing of a plugin whose code was       *)
(* executed but where what it returned were no tools, no code executed of  *)
(* a plugin the scanner condemns, tools merged only of plugins entered as  *)
(* loaded, and no module of the dotted name left by an import that failed  *)
(* (loader.py load, _import_directory_module; registry.py load_all).       *)
(***************************************************************************)
THEOREM TrailIsTrue == ExtSpec => []TrailTellsWhatRan
<1>1. ExtInit => PluginsInv
  <2> SUFFICES ASSUME ExtInit PROVE PluginsInv
    OBVIOUS
  <2>1. /\ library \in Libraries \cup {NoLibrary} /\ phase \in {"off", "discover"}
        /\ manifests = {} /\ tools = <<>> /\ modules = {} /\ trail = <<>> /\ ran = {}
    BY ZenonT(30) DEF ExtInit, PluginsInit
  <2>2. DOMAIN trail = {} /\ trail \in Seq({}) /\ tools \in Seq({})
    BY <2>1, SMTT(30)
  <2>3. QED
    BY <2>1, <2>2, ZenonT(30) DEF PluginsInv, PhaseSound, TrailSound, RanSound, ToolsSound,
       ModulesSound, Before, Loading
<1>2. PluginsInv /\ [ExtNext]_extVars => PluginsInv'
  BY PartsStep, PluginsKeeps, SMTT(30), ZenonT(30)
<1>3. PluginsInv => TrailTellsWhatRan
  <2> SUFFICES ASSUME PluginsInv PROVE TrailTellsWhatRan
    OBVIOUS
  <2>1. ASSUME NEW k \in DOMAIN Installed, Over(k), Installed[k] \in ran
        PROVE  ~Condemned(Installed[k]) /\ Told(Installed[k])
    BY <2>1, ZenonT(30) DEF PluginsInv, RanSound, Over, Found
  <2>2. \A k \in DOMAIN tools : [plugin |-> tools[k].owner, outcome |-> "loaded"] \in Range(trail)
    <3>1. PICK S : /\ tools \in Seq(S)
                   /\ \A t \in S : [plugin |-> t.owner, outcome |-> "loaded"] \in Range(trail)
      BY DEF PluginsInv, ToolsSound
    <3>2. \A k \in DOMAIN tools : tools[k] \in S
      BY <3>1, SMTT(30)
    <3>3. QED
      BY <3>1, <3>2, ZenonT(30)
  <2>3. QED
    BY <2>1, <2>2, ZenonT(30) DEF PluginsInv, TrailSound, ModulesSound, TrailTellsWhatRan, Told
<1>4. QED
  BY <1>1, <1>2, <1>3, PTL DEF ExtSpec

-----------------------------------------------------------------------------
(* Skills *)

\* An installer's step is its own: the archives stay as they are, the other
\* installers too, and what was vetted stays vetted.
Alone(p) ==
  /\ SkillTypes'
  /\ installation' = installation
  /\ \A q \in Installers \ {p} :
       /\ at'[q] = at[q] /\ temp'[q] = temp[q] /\ todo'[q] = todo[q]
       /\ registry'[q] = registry[q] /\ vetted'[q] = vetted[q]
  /\ vetted[p] \subseteq vetted'[p]

LEMMA StepsAlone ==
  ASSUME SkillTypes, NEW p \in Installers, NEW v,
         \/ Extract(p) \/ Vet(p, v) \/ Check(p) \/ StartCopy(p) \/ CopyFile(p)
         \/ CopyFails(p) \/ Register(p) \/ Finish(p) \/ Crash(p) \/ Restart(p)
  PROVE  Alone(p)
<1> USE DEF SkillTypes, Alone
<1>1. CASE Extract(p)
  BY <1>1, ZenonT(30) DEF Extract, Leave
<1>2. CASE Vet(p, v)
  BY <1>2, ZenonT(30) DEF Vet, Leave
<1>3. CASE Check(p)
  BY <1>3, ZenonT(30) DEF Check, Leave
<1>4. CASE StartCopy(p)
  BY <1>4, SMTT(30), ZenonT(30) DEF StartCopy, MakeDir, Leave
<1>5. CASE CopyFile(p)
  BY <1>5, ZenonT(30) DEF CopyFile
<1>6. CASE CopyFails(p)
  BY <1>6, ZenonT(30) DEF CopyFails, Leave
<1>7. CASE Register(p)
  BY <1>7, SMTT(30), ZenonT(30) DEF Register, Add
<1>8. CASE Finish(p)
  BY <1>8, ZenonT(30) DEF Finish, Leave
<1>9. CASE Crash(p)
  BY <1>9, ZenonT(30) DEF Crash
<1>10. CASE Restart(p)
  BY <1>10, ZenonT(30) DEF Restart
<1>11. QED
  BY <1>1, <1>2, <1>3, <1>4, <1>5, <1>6, <1>7, <1>8, <1>9, <1>10, ZenonT(30)

\* What stays, then: the files of an archive, what is harmless, and what the
\* other installers hold.
LEMMA AloneKeeps ==
  ASSUME SkillsInv, NEW p \in Installers, Alone(p)
  PROVE  /\ \A q : Extracted(q)' = Extracted(q)
         /\ \A q \in Installers : \A n : Harmless(q, n) => Harmless(q, n)'
         /\ \A q \in Installers \ {p} : Unpacked(q)'
         /\ \A q \in Installers \ {p} : \A n : Copies(q, n)' <=> Copies(q, n)
<1>1. \A q : Extracted(q)' = Extracted(q)
  BY ZenonT(30) DEF Alone, Extracted
<1>2. \A q \in Installers : vetted[q] \subseteq vetted'[q]
  BY ZenonT(30) DEF Alone
<1>3. \A q \in Installers : \A n : Harmless(q, n) => Harmless(q, n)'
  BY <1>1, <1>2, ZenonT(30) DEF Harmless
<1>4. \A q \in Installers \ {p} : First(q)' = First(q)
  BY ZenonT(30) DEF Alone, First
<1>5. \A q \in Installers \ {p} : Unpacked(q)'
  <2> TAKE q \in Installers \ {p}
  <2>1. at'[q] = at[q] /\ temp'[q] = temp[q] /\ todo'[q] = todo[q] /\ First(q)' = First(q)
    BY <1>4, SMTT(30), ZenonT(30) DEF Alone
  <2>2. Unpacked(q)
    BY DEF SkillsInv
  <2>3. QED
    BY <1>1, <1>3, <2>1, <2>2, ZenonT(30) DEF Unpacked
<1>6. \A q \in Installers \ {p} : \A n : Copies(q, n)' <=> Copies(q, n)
  BY <1>4, ZenonT(30) DEF Copies, Alone
<1>7. QED
  BY <1>1, <1>3, <1>5, <1>6, ZenonT(30)

\* Steps that neither write to persist_dir nor register anything.
LEMMA DiskUntouched ==
  ASSUME SkillsInv, NEW p \in Installers, Alone(p), disk' = disk, Unpacked(p)',
         at'[p] # "copying",
         \A n \in DOMAIN registry'[p] :
           n \in DOMAIN registry[p] /\ registry'[p][n] = registry[p][n]
  PROVE  SkillsInv'
<1>1. \A q \in Installers : Unpacked(q)'
  BY AloneKeeps, SMTT(30), ZenonT(30)
<1>2. \A q \in Installers : \A n \in DOMAIN registry'[q] :
        n \in DOMAIN registry[q] /\ registry'[q][n] = registry[q][n]
  BY SMTT(30), ZenonT(30) DEF Alone
<1>3. \A q \in Installers : \A n : Copies(q, n)' => Copies(q, n)
  BY AloneKeeps, ZenonT(30) DEF Copies
<1>4. /\ \A q : Extracted(q)' = Extracted(q)
      /\ \A q \in Installers : \A n : Harmless(q, n) => Harmless(q, n)'
  BY AloneKeeps, SMTT(30), ZenonT(30)
<1>5. CopiesSound /\ ZipSound /\ DiskSound /\ RootsSound /\ disk' = disk
  BY DEF SkillsInv
<1>6. CopiesSound'
  BY ONLY <1>2, <1>3, <1>4, <1>5, ZenonT(30) DEF CopiesSound, FilesOf
<1>7. ZipSound'
  BY ONLY <1>2, <1>4, <1>5, ZenonT(30) DEF ZipSound, FilesOf
<1>8. DiskSound'
  BY ONLY <1>4, <1>5, Zenon DEF DiskSound
<1>9. RootsSound'
  BY ONLY <1>2, <1>5, ZenonT(30) DEF RootsSound
<1>10. SkillTypes'
  BY SMTT(30), ZenonT(30) DEF Alone
<1>11. QED
  BY <1>1, <1>6, <1>7, <1>8, <1>9, <1>10, ZenonT(30) DEF SkillsInv

\* Names are ordered and sizes are numbers.
LEMMA EntriesCounted ==
  ASSUME SkillTypes, NEW p \in Installers
  PROVE  \A e \in Extracted(p) : e.folder \in Nat /\ e.bytes \in Nat
<1>1. CASE installation \in Installations
  BY <1>1, SkillsAssumption, SMTT(30), ZenonT(30) DEF Extracted
<1>2. CASE installation = NoInstallation
  BY <1>2, SMTT(30), ZenonT(30) DEF Extracted, NoInstallation, Range
<1>3. QED
  BY <1>1, <1>2, SMTT(30), ZenonT(30) DEF SkillTypes

\* The skill an installer has before it is one of those it found.
LEMMA FirstIsFound ==
  ASSUME SkillsInv, NEW p \in Installers, todo[p] # {},
         at[p] \in {"next", "check", "copy", "copying"}
  PROVE  First(p) \in todo[p] /\ Parses(Extracted(p), First(p))
<1>1. todo[p] \subseteq DiscoverSkills(Extracted(p))
  BY SMTT(30), ZenonT(30) DEF SkillsInv, Unpacked
<1>2. \A e \in Extracted(p) : e.folder \in Nat
  BY EntriesCounted, SMTT(30), ZenonT(30) DEF SkillsInv
<1>3. todo[p] \subseteq Nat
  BY <1>1, <1>2, SMTT(30), ZenonT(30) DEF DiscoverSkills
<1>4. First(p) \in todo[p]
  BY <1>3, MinOfNaturals, SMTT(30), ZenonT(30) DEF First
<1>5. QED
  BY <1>1, <1>4, SMTT(30), ZenonT(30) DEF DiscoverSkills

\* A skill without a critical flag has nothing critical the scan reads, and the
\* judge, if there is one, did not call it critical.
LEMMA VettedIsClean ==
  ASSUME SkillsInv, NEW p \in Installers, NEW v \in Verdicts, NEW n,
         "critical" \notin VetFlags(FilesOf(Extracted(p), n), v)
  PROVE  /\ v # "critical"
         /\ \A e \in FilesOf(Extracted(p), n) :
              e.what = "main" \/ (e.what = "resource" /\ e.bytes <= MaxScan) =>
                e.marks \cap {"critical", "hidden"} = {}
<1> DEFINE files == FilesOf(Extracted(p), n)
<1>1. "critical" \notin ScanFlags(files)
  BY SMTT(30), ZenonT(30) DEF VetFlags
<1>2. v # "critical"
  BY <1>1, SMTT(30), ZenonT(30) DEF VetFlags, Verdicts, ReviewFlags, VerdictFlags
<1>3. ASSUME NEW e \in files, e.what = "main"
      PROVE  e.marks \cap {"critical", "hidden"} = {}
  <2>1. "critical" \notin ScanText(e)
    BY <1>1, <1>3, ZenonT(30) DEF ScanFlags
  <2>2. QED
    BY <2>1, SMTT(30), ZenonT(30) DEF ScanText
<1>4. ASSUME NEW e \in files, e.what = "resource", e.bytes <= MaxScan
      PROVE  e.marks \cap {"critical", "hidden"} = {}
  <2>1. "critical" \notin ResourceFlags(e)
    BY <1>1, <1>4, ZenonT(30) DEF ScanFlags, ListResources
  <2>2. ~(e.bytes > MaxScan)
    <3>1. e.bytes \in Nat /\ MaxScan \in Nat
      BY EntriesCounted, SkillsAssumption, SMTT(30), ZenonT(30) DEF FilesOf, SkillsInv
    <3>2. QED
      BY <1>4, <3>1, SMTT(30), ZenonT(30)
  <2>3. QED
    BY <2>1, <2>2, SMTT(30), ZenonT(30) DEF ResourceFlags, ScanText
<1>5. QED
  BY <1>2, <1>3, <1>4, SMTT(30), ZenonT(30)

LEMMA ExtractKeeps == ASSUME SkillsInv, NEW p \in Installers, Extract(p) PROVE SkillsInv'
<1>1. Alone(p)
  BY StepsAlone, SMTT(30), ZenonT(30) DEF SkillsInv
<1>2. disk' = disk /\ registry' = registry /\ at'[p] \in {"raised", "next"}
  BY SMTT(30), ZenonT(30) DEF Extract, Leave, SkillsInv, SkillTypes
<1>3. Extracted(p)' = Extracted(p)
  BY <1>1, AloneKeeps, SMTT(30), ZenonT(30)
<1>4. at'[p] = "next" => temp'[p].files = Extracted(p) /\ todo'[p] = DiscoverSkills(Extracted(p))
  <2>1. CASE RefusesArchive(installation.archive[p])
    BY <2>1, ZenonT(30) DEF Extract, Leave, SkillsInv, SkillTypes
  <2>2. CASE ~RefusesArchive(installation.archive[p])
    <3>1. /\ temp' = [temp EXCEPT ![p] = [exists |-> TRUE, files |-> Extracted(p)]]
          /\ todo' = [todo EXCEPT ![p] = DiscoverSkills(Extracted(p))]
      BY <2>2, ZenonT(30) DEF Extract
    <3>2. temp'[p] = [exists |-> TRUE, files |-> Extracted(p)]
      BY <3>1, ZenonT(30) DEF SkillsInv, SkillTypes
    <3>3. todo'[p] = DiscoverSkills(Extracted(p))
      BY <3>1, ZenonT(30) DEF SkillsInv, SkillTypes
    <3>4. QED
      BY <3>2, <3>3, SMTT(30), ZenonT(30)
  <2>3. QED
    BY <2>1, <2>2, SMTT(30), ZenonT(30)
<1>5. Unpacked(p)'
  BY <1>2, <1>3, <1>4, ZenonT(30) DEF Unpacked
<1>6. QED
  BY <1>1, <1>2, <1>5, DiskUntouched, SMTT(30), ZenonT(30)

LEMMA VetKeeps ==
  ASSUME SkillsInv, NEW p \in Installers, NEW v \in Verdicts, Vet(p, v)
  PROVE  SkillsInv'
<1> DEFINE clean == "critical" \notin VetFlags(FilesOf(temp[p].files, First(p)), v)
<1>1. Alone(p)
  BY StepsAlone, SMTT(30), ZenonT(30) DEF SkillsInv
<1>2. /\ disk' = disk /\ registry' = registry /\ at[p] = "next" /\ todo[p] # {}
      /\ temp[p].files = Extracted(p) /\ todo[p] \subseteq DiscoverSkills(Extracted(p))
  BY ZenonT(30) DEF Vet, SkillsInv, Unpacked
<1>3. Extracted(p)' = Extracted(p)
  BY <1>1, AloneKeeps, SMTT(30), ZenonT(30)
<1>4. CASE clean
  <2>1. /\ vetted' = [vetted EXCEPT ![p] = @ \cup {<<First(p), v = "critical">>}]
        /\ at' = [at EXCEPT ![p] = "check"] /\ todo' = todo /\ temp' = temp
    BY <1>4, SMTT(30), ZenonT(30) DEF Vet
  <2>2. at'[p] = "check" /\ <<First(p), v = "critical">> \in vetted'[p] /\ First(p)' = First(p)
    BY <2>1, ZenonT(30) DEF SkillsInv, SkillTypes, First
  <2>3. /\ v # "critical"
        /\ \A e \in FilesOf(Extracted(p), First(p)) :
             e.what = "main" \/ (e.what = "resource" /\ e.bytes <= MaxScan) =>
               e.marks \cap {"critical", "hidden"} = {}
    BY <1>2, <1>4, VettedIsClean, ZenonT(30)
  <2>4. <<First(p), FALSE>> \in vetted'[p]
    BY <2>2, <2>3, ZenonT(30)
  <2>5. Harmless(p, First(p))'
    BY <1>3, <2>2, <2>3, <2>4, ZenonT(30) DEF Harmless, FilesOf
  <2>6. Unpacked(p)'
    BY <1>2, <1>3, <2>1, <2>2, <2>5, ZenonT(30) DEF Unpacked
  <2>7. QED
    BY <1>1, <1>2, <2>2, <2>6, DiskUntouched, ZenonT(30)
<1>5. CASE ~clean
  <2>1. \/ at'[p] = "raised"
        \/ at' = at /\ temp' = temp /\ todo'[p] \subseteq todo[p]
    BY <1>5, SMTT(30), ZenonT(30) DEF Vet, Leave, SkillsInv, SkillTypes
  <2>2. Unpacked(p)'
    BY <1>2, <1>3, <2>1, ZenonT(30) DEF Unpacked
  <2>3. QED
    BY <1>1, <1>2, <2>1, <2>2, DiskUntouched, ZenonT(30)
<1>6. QED
  BY <1>4, <1>5, SMTT(30), ZenonT(30)

\* The steps before a copy, and those that end an installation.
LEMMA LeavingKeeps ==
  ASSUME SkillsInv, NEW p \in Installers,
         Check(p) \/ CopyFails(p) \/ Finish(p) \/ Crash(p)
  PROVE  SkillsInv'
<1>1. Alone(p)
  BY StepsAlone, SMTT(30), ZenonT(30) DEF SkillsInv
<1>2. disk' = disk /\ (registry' = registry \/ registry'[p] = NoSkills)
  BY ZenonT(30) DEF Check, CopyFails, Finish, Crash, SkillsInv, SkillTypes
<1>3. \A n \in DOMAIN registry'[p] :
        n \in DOMAIN registry[p] /\ registry'[p][n] = registry[p][n]
  BY <1>2, ZenonT(30) DEF NoSkills
<1>4. \/ at'[p] \in {"raised", "returned", "crashed"}
      \/ at[p] = "check" /\ at'[p] = "copy" /\ temp' = temp /\ todo' = todo
  BY DEF Check, CopyFails, Finish, Crash, Leave, SkillsInv, SkillTypes
<1>5. Unpacked(p)'
  <2>1. CASE at'[p] \in {"raised", "returned", "crashed"}
    BY <2>1, ZenonT(30) DEF Unpacked
  <2>2. CASE at[p] = "check" /\ at'[p] = "copy" /\ temp' = temp /\ todo' = todo
    <3>1. First(p)' = First(p)
      BY <2>2, ZenonT(30) DEF First
    <3>2. Unpacked(p) /\ Extracted(p)' = Extracted(p)
          /\ (Harmless(p, First(p)) => Harmless(p, First(p))')
      BY <1>1, <3>1, AloneKeeps, SMTT(30), ZenonT(30) DEF SkillsInv
    <3>3. QED
      BY <2>2, <3>1, <3>2, ZenonT(30) DEF Unpacked
  <2>3. QED
    BY <1>4, <2>1, <2>2, ZenonT(30)
<1>6. at'[p] # "copying"
  BY <1>4, ZenonT(30)
<1>7. QED
  BY <1>1, <1>2, <1>3, <1>5, <1>6, DiskUntouched, ZenonT(30)

\* mkdir: the directory is new, so nobody copies to it or has registered it.
LEMMA StartCopyKeeps == ASSUME SkillsInv, NEW p \in Installers, StartCopy(p) PROVE SkillsInv'
<1> DEFINE n == First(p)
<1>1. Alone(p)
  BY StepsAlone, SMTT(30), ZenonT(30) DEF SkillsInv
<1>2. registry' = registry /\ todo' = todo /\ at[p] = "copy"
  BY DEF StartCopy
<1>3. CASE n \in DOMAIN disk
  <2>1. disk' = disk /\ at'[p] = "raised"
    BY <1>3, SMTT(30), ZenonT(30) DEF StartCopy, MakeDir, Leave, SkillsInv, SkillTypes
  <2>2. Unpacked(p)'
    BY <2>1, ZenonT(30) DEF Unpacked
  <2>3. QED
    BY <1>1, <1>2, <2>1, <2>2, DiskUntouched, ZenonT(30)
<1>4. CASE n \notin DOMAIN disk
  <2>1. /\ disk' = [m \in DOMAIN disk \cup {n} |-> IF m = n THEN {} ELSE disk[m]]
        /\ at'[p] = "copying" /\ temp' = temp
    BY <1>4, SMTT(30), ZenonT(30) DEF StartCopy, MakeDir, SkillsInv, SkillTypes
  <2>2. First(p)' = n
    BY <1>2, ZenonT(30) DEF First
  <2>3. /\ \A m \in DOMAIN disk : m # n /\ m \in DOMAIN disk' /\ disk'[m] = disk[m]
        /\ n \in DOMAIN disk' /\ disk'[n] = {}
        /\ \A m \in DOMAIN disk' : m = n \/ m \in DOMAIN disk
    BY <1>4, <2>1, ZenonT(30)
  <2>4. /\ \A q : Extracted(q)' = Extracted(q)
        /\ \A q \in Installers : \A m : Harmless(q, m) => Harmless(q, m)'
        /\ \A q \in Installers \ {p} : Unpacked(q)'
        /\ \A q \in Installers \ {p} : \A m : Copies(q, m)' <=> Copies(q, m)
    BY <1>1, AloneKeeps, SMTT(30), ZenonT(30)
  <2>5. Unpacked(p)'
    <3>1. Unpacked(p)
      BY SMTT(30), ZenonT(30) DEF SkillsInv
    <3>2. QED
      BY <1>2, <2>1, <2>2, <2>4, <3>1, ZenonT(30) DEF Unpacked
  <2>6. \A q \in Installers : \A m : Copies(q, m)' => (q = p /\ m = n) \/ (q # p /\ Copies(q, m))
    BY <2>2, <2>4, SMTT(30), ZenonT(30) DEF Copies
  <2>7. /\ CopiesSound /\ ZipSound /\ DiskSound /\ RootsSound
        /\ registry' = registry
    BY <1>2, SMTT(30), ZenonT(30) DEF SkillsInv
  <2>8. \A q \in Installers : \A m : Copies(q, m) => m # n
    BY <2>3, <2>7, ZenonT(30) DEF CopiesSound
  <2>9. CopiesSound'
    <3>1. \A q \in Installers : \A m : Copies(q, m)' =>
             m \in DOMAIN disk' /\ disk'[m] \subseteq FilesOf(Extracted(q), m)'
      BY ONLY <2>3, <2>4, <2>6, <2>7, ZenonT(30) DEF CopiesSound, FilesOf
    <3>2. \A q, r \in Installers : \A m : Copies(q, m)' /\ Copies(r, m)' => q = r
      BY ONLY <2>6, <2>7, <2>8, ZenonT(30) DEF CopiesSound
    <3>3. \A q, r \in Installers : \A m \in DOMAIN registry'[q] :
             registry'[q][m].source = "zip" => ~Copies(r, m)'
      BY ONLY <2>3, <2>6, <2>7, ZenonT(30) DEF CopiesSound, ZipSound
    <3>4. QED
      BY <3>1, <3>2, <3>3, ZenonT(30) DEF CopiesSound
  <2>10. ZipSound'
    BY ONLY <2>3, <2>4, <2>7, ZenonT(30) DEF ZipSound, FilesOf
  <2>11. DiskSound'
    BY ONLY <2>3, <2>4, <2>7, ZenonT(30) DEF DiskSound
  <2>12. RootsSound'
    BY ONLY <2>3, <2>7, ZenonT(30) DEF RootsSound
  <2>13. QED
    BY <1>1, <2>4, <2>5, <2>9, <2>10, <2>11, <2>12, ZenonT(30) DEF SkillsInv, Alone
<1>5. QED
  BY <1>3, <1>4, SMTT(30), ZenonT(30)

\* A file is copied: the directory's one writer is the installer that found it
\* harmless.
LEMMA CopyFileKeeps == ASSUME SkillsInv, NEW p \in Installers, CopyFile(p) PROVE SkillsInv'
<1>0. PICK n : n = First(p)
  BY SMTT(30), ZenonT(30)
<1>1. Alone(p)
  BY StepsAlone, SMTT(30), ZenonT(30) DEF SkillsInv
<1>2. /\ registry' = registry /\ todo' = todo /\ at' = at /\ temp' = temp
      /\ at[p] = "copying" /\ Copies(p, n) /\ First(p)' = n
  BY <1>0, SMTT(30), ZenonT(30) DEF CopyFile, Copies, First
<1>3. /\ temp[p].files = Extracted(p) /\ Harmless(p, n)
      /\ CopiesSound /\ ZipSound /\ DiskSound /\ RootsSound
  BY <1>0, <1>2, ZenonT(30) DEF SkillsInv, Unpacked
<1>4. n \in DOMAIN disk /\ disk[n] \subseteq FilesOf(Extracted(p), n)
  BY <1>2, <1>3, ZenonT(30) DEF CopiesSound
<1>5. PICK e \in FilesOf(Extracted(p), n) : disk' = [disk EXCEPT ![n] = @ \cup {e}]
  BY <1>0, <1>3, ZenonT(30) DEF CopyFile, Missing
<1>6. /\ DOMAIN disk' = DOMAIN disk /\ disk[n] \subseteq disk'[n]
      /\ disk'[n] \subseteq FilesOf(Extracted(p), n)
      /\ \A m \in DOMAIN disk : m # n => disk'[m] = disk[m]
      /\ FilesOf(Extracted(p), n) \subseteq Extracted(p)
  BY <1>4, <1>5, SMTT(30), ZenonT(30) DEF FilesOf
<1>7. /\ \A q : Extracted(q)' = Extracted(q)
      /\ \A q \in Installers : \A m : Harmless(q, m) => Harmless(q, m)'
      /\ \A q \in Installers \ {p} : Unpacked(q)'
      /\ \A q \in Installers : \A m : Copies(q, m)' <=> Copies(q, m)
  BY <1>1, <1>2, AloneKeeps, SMTT(30), ZenonT(30) DEF Copies
<1>8. Unpacked(p)'
  <2>1. Unpacked(p)
    BY DEF SkillsInv
  <2>2. QED
    BY <1>0, <1>2, <1>7, <2>1, ZenonT(30) DEF Unpacked
<1>9. CopiesSound'
  <2>1. \A q \in Installers : \A m : Copies(q, m) => m # n \/ q = p
    BY <1>2, <1>3, ZenonT(30) DEF CopiesSound
  <2>2. \A q \in Installers : \A m : Copies(q, m)' =>
           m \in DOMAIN disk' /\ disk'[m] \subseteq FilesOf(Extracted(q), m)'
    BY ONLY <1>3, <1>6, <1>7, <2>1, ZenonT(30) DEF CopiesSound, FilesOf
  <2>3. QED
    BY ONLY <1>2, <1>3, <1>7, <2>2, ZenonT(30) DEF CopiesSound
<1>10. ZipSound'
  <2>1. \A q \in Installers : \A m \in DOMAIN registry[q] :
          registry[q][m].source = "zip" => m # n
    BY <1>2, <1>3, Zenon DEF CopiesSound
  <2>2. QED
    BY ONLY <1>2, <1>3, <1>6, <1>7, <2>1, ZenonT(30) DEF ZipSound, FilesOf
<1>11. DiskSound'
  <2>1. Harmless(p, n)' /\ disk'[n] \subseteq Extracted(p)' /\ p \in Installers
    <3>1. Harmless(p, n)'
      BY <1>3, <1>7, ZenonT(30)
    <3>2. disk'[n] \subseteq Extracted(p)
      BY ONLY <1>6, ZenonT(30)
    <3>3. Extracted(p)' = Extracted(p)
      BY <1>7, ZenonT(30)
    <3>4. QED
      BY <3>1, <3>2, <3>3, ZenonT(30)
  <2>2. QED
    BY ONLY <1>3, <1>6, <1>7, <2>1, Zenon DEF DiskSound
<1>12. RootsSound'
  <2>1. \A m \in DOMAIN disk : ReadMain(disk[m], m) => ReadMain(disk'[m], m)
    BY <1>6, ZenonT(30) DEF ReadMain
  <2>2. QED
    BY ONLY <1>2, <1>3, <1>6, <2>1, ZenonT(30) DEF RootsSound
<1>13. QED
  BY <1>1, <1>7, <1>8, <1>9, <1>10, <1>11, <1>12, ZenonT(30) DEF SkillsInv, Alone

\* What is registered has all its files, and its writer is done.
LEMMA RegisterKeeps == ASSUME SkillsInv, NEW p \in Installers, Register(p) PROVE SkillsInv'
<1>0. PICK n : n = First(p)
  OBVIOUS
<1>1. Alone(p)
  BY StepsAlone, SMTT(30), ZenonT(30) DEF SkillsInv
<1>2. /\ disk' = disk /\ temp' = temp /\ at[p] = "copying" /\ at'[p] = "next"
      /\ todo'[p] \subseteq todo[p] /\ Copies(p, n)
  BY <1>0, SMTT(30), ZenonT(30) DEF Register, Copies, SkillsInv, SkillTypes
<1>3. /\ temp[p].files = Extracted(p) /\ Harmless(p, n)
      /\ todo[p] \subseteq DiscoverSkills(Extracted(p)) /\ todo[p] # {}
      /\ CopiesSound /\ ZipSound /\ DiskSound /\ RootsSound
  BY <1>0, <1>2, ZenonT(30) DEF SkillsInv, Unpacked
<1>4. n \in DOMAIN disk /\ disk[n] = FilesOf(Extracted(p), n)
  <2>1. n \in DOMAIN disk /\ disk[n] \subseteq FilesOf(Extracted(p), n)
    BY <1>2, <1>3, ZenonT(30) DEF CopiesSound
  <2>2. FilesOf(Extracted(p), n) \subseteq disk[n]
    BY <1>0, <1>3, ZenonT(30) DEF Register, Missing
  <2>3. QED
    BY <2>1, <2>2, SMTT(30), ZenonT(30)
<1>5. ReadMain(disk[n], n)
  <2>1. Parses(Extracted(p), n)
    BY <1>0, <1>2, <1>3, FirstIsFound, ZenonT(30)
  <2>2. QED
    BY <1>4, <2>1, ZenonT(30) DEF Parses, ReadMain, FilesOf
<1>6. /\ \A q : Extracted(q)' = Extracted(q)
      /\ \A q \in Installers : \A m : Harmless(q, m) => Harmless(q, m)'
      /\ \A q \in Installers \ {p} : Unpacked(q)'
      /\ \A q \in Installers : \A m : Copies(q, m)' => q # p /\ Copies(q, m)
  BY <1>1, <1>2, AloneKeeps, ZenonT(30) DEF Copies
<1>7. \A q \in Installers : \A m \in DOMAIN registry'[q] :
        \/ m \in DOMAIN registry[q] /\ registry'[q][m] = registry[q][m]
        \/ q = p /\ m = n /\ registry'[q][m] = Persistent
  BY <1>0, SMTT(30), ZenonT(30) DEF Register, Add, SkillsInv, SkillTypes
<1>8. Unpacked(p)'
  BY <1>2, <1>3, <1>6, ZenonT(30) DEF Unpacked
<1>9. CopiesSound'
  <2>1. \A q \in Installers : \A m : Copies(q, m)' => m # n
    BY <1>2, <1>3, <1>6, ZenonT(30) DEF CopiesSound
  <2>2. QED
    <3>1. \A q \in Installers : \A m : Copies(q, m)' =>
             m \in DOMAIN disk' /\ disk'[m] \subseteq FilesOf(Extracted(q), m)'
      BY ONLY <1>2, <1>3, <1>6, ZenonT(30) DEF CopiesSound, FilesOf
    <3>2. \A q, r \in Installers : \A m : Copies(q, m)' /\ Copies(r, m)' => q = r
      BY ONLY <1>3, <1>6, ZenonT(30) DEF CopiesSound
    <3>3. \A q, r \in Installers : \A m \in DOMAIN registry'[q] :
             registry'[q][m].source = "zip" => ~Copies(r, m)'
      BY ONLY <1>3, <1>6, <1>7, <2>1, ZenonT(30) DEF CopiesSound
    <3>4. QED
      BY <3>1, <3>2, <3>3, Zenon DEF CopiesSound
<1>10. ZipSound'
  <2>1. \A q : \A m : FilesOf(Extracted(q), m)' = FilesOf(Extracted(q), m)
    BY <1>6, SMTT(30), ZenonT(30) DEF FilesOf
  <2>2. Harmless(p, n)' /\ n \in DOMAIN disk' /\ disk'[n] = FilesOf(Extracted(p), n)'
    BY <1>2, <1>3, <1>4, <1>6, <2>1, ZenonT(30)
  <2>3. QED
    BY ONLY <1>2, <1>3, <1>6, <1>7, <2>1, <2>2, ZenonT(30) DEF ZipSound
<1>11. DiskSound'
  BY ONLY <1>2, <1>3, <1>6, ZenonT(30) DEF DiskSound
<1>12. RootsSound'
  <2>1. Persistent.root = "persist"
    BY DEF Persistent
  <2>2. QED
    BY ONLY <1>2, <1>3, <1>4, <1>5, <1>7, <2>1, ZenonT(30) DEF RootsSound
<1>13. QED
  BY <1>1, <1>6, <1>8, <1>9, <1>10, <1>11, <1>12, ZenonT(30) DEF SkillsInv, Alone

\* What a process that comes back loads was there to be read.
LEMMA RestartKeeps == ASSUME SkillsInv, NEW p \in Installers, Restart(p) PROVE SkillsInv'
<1>1. Alone(p)
  BY StepsAlone, SMTT(30), ZenonT(30) DEF SkillsInv
<1>2. disk' = disk /\ at'[p] = "idle"
  BY SMTT(30), ZenonT(30) DEF Restart, SkillsInv, SkillTypes
<1>3. /\ \A q : Extracted(q)' = Extracted(q)
      /\ \A q \in Installers : \A m : Harmless(q, m) => Harmless(q, m)'
      /\ \A q \in Installers \ {p} : Unpacked(q)'
      /\ \A q \in Installers : \A m : Copies(q, m)' => Copies(q, m)
  BY <1>1, <1>2, AloneKeeps, ZenonT(30) DEF Copies
<1>4. \A q \in Installers : \A m \in DOMAIN registry'[q] :
        \/ m \in DOMAIN registry[q] /\ registry'[q][m] = registry[q][m]
        \/ /\ registry'[q][m].source # "zip" /\ registry'[q][m].root # "temp"
           /\ m \in DOMAIN disk /\ Parses(disk[m], m)
  BY DEF Restart, SkillsInv, SkillTypes
<1>5. \A m : Parses(disk[m], m) => ReadMain(disk[m], m)
  BY ZenonT(30) DEF Parses, ReadMain
<1>6. CopiesSound /\ ZipSound /\ DiskSound /\ RootsSound
  BY SMTT(30), ZenonT(30) DEF SkillsInv
<1>7. Unpacked(p)'
  BY <1>2, SMTT(30), ZenonT(30) DEF Unpacked
<1>8. CopiesSound'
  BY ONLY <1>2, <1>3, <1>4, <1>6, ZenonT(30) DEF CopiesSound, FilesOf
<1>9. ZipSound'
  BY ONLY <1>2, <1>3, <1>4, <1>6, ZenonT(30) DEF ZipSound, FilesOf
<1>10. DiskSound'
  BY ONLY <1>2, <1>3, <1>6, ZenonT(30) DEF DiskSound
<1>11. RootsSound'
  BY ONLY <1>2, <1>4, <1>5, <1>6, ZenonT(30) DEF RootsSound
<1>12. QED
  BY <1>1, <1>3, <1>7, <1>8, <1>9, <1>10, <1>11, ZenonT(30) DEF SkillsInv, Alone

LEMMA SkillsKeeps ==
  ASSUME SkillsInv, [SkillsStep]_skillVars
  PROVE  SkillsInv'
<1>1. CASE UNCHANGED skillVars
  BY <1>1, ZenonT(30) DEF skillVars, SkillsInv, SkillTypes, Unpacked, Copies, CopiesSound, ZipSound,
     DiskSound, RootsSound, Harmless, Extracted, First
<1>2. CASE SkillsStep
  BY <1>2, ExtractKeeps, VetKeeps, LeavingKeeps, StartCopyKeeps, CopyFileKeeps,
     RegisterKeeps, RestartKeeps, ZenonT(30) DEF SkillsStep
<1>3. QED
  BY <1>1, <1>2, SMTT(30), ZenonT(30)

(***************************************************************************)
(* However many processes install skills into one directory, and whichever *)
(* of them die on the way: a skill registered from an archive has exactly  *)
(* that archive's files on disk, found clean, and whatever is registered   *)
(* can be read (skills/__init__.py add_skill_from_zip, registry.py         *)
(* load_from).                                                             *)
(***************************************************************************)
THEOREM InstalledAlwaysVetted == ExtSpec => []InstalledIsVetted
<1>1. ExtInit => SkillsInv
  <2> SUFFICES ASSUME ExtInit PROVE SkillsInv
    BY SMTT(30), ZenonT(30)
  <2>1. /\ installation \in Installations \cup {NoInstallation}
        /\ DOMAIN at = Installers /\ \A p \in Installers : at[p] \in {"off", "idle"}
        /\ DOMAIN disk = {}
    BY SMTT(30), ZenonT(30) DEF ExtInit, SkillsInit, NoSkills
  <2>2. \A p \in Installers : \A n \in DOMAIN registry[p] :
          registry[p][n].source = "local" /\ registry[p][n].root = "elsewhere"
    BY SMTT(30), ZenonT(30) DEF ExtInit, SkillsInit, Elsewhere
  <2>3. SkillTypes
    BY <2>1, SMTT(30), ZenonT(30) DEF SkillTypes, ExtInit, SkillsInit
  <2>4. QED
    BY <2>1, <2>2, <2>3, ZenonT(30) DEF SkillsInv, Unpacked, CopiesSound, Copies, ZipSound, DiskSound,
       RootsSound
<1>2. SkillsInv /\ [ExtNext]_extVars => SkillsInv'
  BY PartsStep, SkillsKeeps, SMTT(30), ZenonT(30)
<1>3. SkillsInv => InstalledIsVetted
  BY Zenon DEF SkillsInv, ZipSound, DiskSound, RootsSound, InstalledIsVetted
<1>4. QED
  BY <1>1, <1>2, <1>3, PTL DEF ExtSpec
=============================================================================
