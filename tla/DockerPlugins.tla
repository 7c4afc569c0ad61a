----------------------------- MODULE DockerPlugins -----------------------------
(***************************************************************************)
(* DockerPluginLoader (plugin/docker_loader.py): build an image, start a   *)
(* container behind an MCP client, list its tools, and take it all down.   *)
(* One loader loads one plugin.                                            *)
(*                                                                         *)
(* Docker is external.  `docker run` creates the container and then writes *)
(* its id to the cidfile; the loader sees neither happen.                  *)
(***************************************************************************)
EXTENDS Naturals

CONSTANT Isolations      \* what manifests ask for

VARIABLES
  isolation,   \* of the manifest; "unused" when there is no loader
  stage,       \* of load() and close()
  owned,       \* of "dockerfile", "cidfile", "client": what the loader has made
               \* and not yet removed
  cid,         \* the cidfile holds an id
  container,   \* "none", "created" or "removed"
  raising,     \* load() is closing because of an exception
  known,       \* history variable: an id was in the cidfile at some time
  refused      \* history variable: of "dockerfile", "cidfile", "container": those
               \* whose removal failed, which the loader passes over

dockerVars == <<isolation, stage, owned, cid, container, raising, known, refused>>

DockerInit(asked) ==
  /\ isolation \in asked /\ stage = IF isolation = "unused" THEN "off" ELSE "load"
  /\ owned = {} /\ cid = FALSE /\ container = "none" /\ raising = FALSE /\ known = FALSE
  /\ refused = {}

\* load: another isolation is refused; then a Dockerfile is written.
LoadDocker ==
  /\ stage = "load"
  /\ IF isolation = "docker" THEN stage' = "build" /\ owned' = owned \cup {"dockerfile"}
     ELSE stage' = "failed" /\ UNCHANGED owned
  /\ UNCHANGED <<isolation, cid, container, raising, known, refused>>

\* What is on disk after os.unlink, whose OSError is passed over.
Unlinked(what, done) == IF done THEN owned \ {what} ELSE owned

PassedOver(what, done) == IF done THEN {} ELSE {what}

\* _run: docker build may fail or time out; the finally clause around it.
BuildImage ==
  /\ stage = "build"
  /\ \E ok, done \in BOOLEAN :
       /\ stage' = IF ok THEN "start" ELSE "failed"
       /\ owned' = Unlinked("dockerfile", done) \cup (IF ok THEN {"cidfile"} ELSE {})
       /\ refused' = refused \cup PassedOver("dockerfile", done)
  /\ UNCHANGED <<isolation, cid, container, raising, known>>

\* The client exists once the transport has started `docker run`.
StartClient ==
  /\ stage = "start"
  /\ \/ stage' = "handshake" /\ owned' = owned \cup {"client"} /\ UNCHANGED raising
     \/ stage' = "close" /\ raising' = TRUE /\ UNCHANGED owned
  /\ UNCHANGED <<isolation, cid, container, known, refused>>

\* External: docker run, while its process lives.
CreateContainer ==
  /\ "client" \in owned /\ container = "none"
  /\ container' = "created"
  /\ UNCHANGED <<isolation, stage, owned, cid, raising, known, refused>>

WriteId ==
  /\ {"client", "cidfile"} \subseteq owned /\ container = "created" /\ ~cid
  /\ cid' = TRUE /\ known' = TRUE
  /\ UNCHANGED <<isolation, stage, owned, container, raising, refused>>

\* initialize and list_tools need the container; either may fail at any time.
Handshake ==
  /\ stage = "handshake"
  /\ \/ container = "created" /\ stage' = "loaded" /\ UNCHANGED raising
     \/ stage' = "close" /\ raising' = TRUE
  /\ UNCHANGED <<isolation, owned, cid, container, known, refused>>

\* The owner of the loader closes it.
CloseLoader ==
  /\ stage = "loaded"
  /\ stage' = "close"
  /\ UNCHANGED <<isolation, owned, cid, container, raising, known, refused>>

\* close: the client first, which ends the docker process.
CloseClient ==
  /\ stage = "close"
  /\ owned' = owned \ {"client"} /\ stage' = "remove"
  /\ UNCHANGED <<isolation, cid, container, raising, known, refused>>

\* docker rm -f of the id in the cidfile, if there is one; its result is not
\* looked at.
Removed(ok) == IF cid /\ ok THEN "removed" ELSE container

\* Whatever came of it the cidfile goes too.
RemoveContainer ==
  /\ stage = "remove"
  /\ \E ok, done \in BOOLEAN :
       /\ container' = Removed(ok)
       /\ owned' = Unlinked("cidfile", done)
       /\ refused' = refused \cup PassedOver("cidfile", done) \cup
                      (IF cid THEN PassedOver("container", ok) ELSE {})
  /\ cid' = FALSE
  /\ stage' = IF raising THEN "failed" ELSE "closed"
  /\ UNCHANGED <<isolation, raising, known>>

-----------------------------------------------------------------------------
(***************************************************************************)
(* "Docker cleanup is still best effort" (docker_loader.py:15-18): a load  *)
(* that failed and a loader that was closed have left no client, and only  *)
(* such files and containers as the system or Docker refused to remove     *)
(* when asked to; and until the loader has asked, it keeps the id of a     *)
(* container whose id was written (61-67, 81-82, 98-111).  A container     *)
(* whose id is not yet written when close() reads the file is outside what *)
(* the code can remove.                                                    *)
(***************************************************************************)
DockerLeavesNothing ==
  /\ stage \in {"failed", "closed"} => owned \subseteq refused \ {"client"}
  /\ known /\ container = "created" => cid \/ "container" \in refused
=============================================================================
