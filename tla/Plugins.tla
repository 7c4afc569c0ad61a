-------------------------------- MODULE Plugins --------------------------------
(***************************************************************************)
(* PluginRegistry.load_all: plugins are discovered from installed entry    *)
(* points and from a directory, and one after the other scanned, imported, *)
(* asked for their tools and merged (plugin/registry.py, discovery.py,     *)
(* manifest.py, scanner.py, loader.py).                                    *)
(*                                                                         *)
(* A plugin is described by what each of these steps makes of it.  Its     *)
(* source text, its manifest's text and its tools' code are not modelled.  *)
(***************************************************************************)
EXTENDS Naturals, Sequences, FiniteSetsExt, Functions

CONSTANTS
  Libraries      \* what may be installed, and how load_all is called

(***************************************************************************)
(* name, source ("entry_point" or "directory");                            *)
(* text: PLUGIN.md's frontmatter: "ok", "malformed" (also: another name, no *)
(*   entry point), or with a number that float() or int() refuses;         *)
(* fields: "ok", or "invalid" for PluginManifest;                          *)
(* capabilities: as declared;                                              *)
(* files: the findings in each file the scanner reads, by severity, or     *)
(*   "unparsable" among them;                                              *)
(* parts: what stands for each part of the dotted module name;             *)
(* pulls: their code imports a module of the plugin that they do not name; *)
(* factory: what calling it does; tools: the names of the tools it yields; *)
(* via, inner: the parts of the module a yielded manifest names (not those *)
(*   of the plugin's own entry module), and what calling its factory does. *)
(***************************************************************************)
Findings   == {"warning", "critical", "unparsable"}
Parts      == {"package", "module", "missing", "raises"}
Factories  == {"tools", "not_callable", "raises", "not_a_list", "not_tools", "manifest"}

ASSUME PluginsAssumption ==
  \A l \in Libraries :
    /\ l.onError \in {"raise", "skip"}
    /\ l.entries \in Seq(Range(l.entries)) /\ l.folders \in Seq(Range(l.folders))
    /\ \A p \in Range(l.entries \o l.folders) :
         /\ p.text \in {"ok", "malformed", "not_a_number"}
         /\ p.fields \in {"ok", "invalid"}
         /\ {p.factory, p.inner} \subseteq Factories /\ p.pulls \in BOOLEAN
         /\ p.parts # <<>> /\ p.via # <<>> /\ p.tools \in Seq(Range(p.tools))
         /\ Range(p.parts \o p.via) \subseteq Parts
         /\ \A k \in DOMAIN p.files : p.files[k] \subseteq Findings
    /\ \A p \in Range(l.entries) :      \* from_entry_point
         /\ p.source = "entry_point" /\ p.capabilities = {"tool"}
         /\ p.text = "ok"
    /\ \A j, k \in DOMAIN l.folders :    \* a folder has its plugin's name
         /\ l.folders[j].source = "directory"
         /\ l.folders[j].name = l.folders[k].name => j = k

VARIABLES
  library,     \* entries, folders: the plugins of each source, in the order
               \* they are found; onError; reserved: names of other tools
  phase,       \* the step of load_all
  manifests,   \* discovered, still to be loaded: places in Installed; the first
               \* is being loaded
  tools,       \* merged so far: a name and the plugin that owns it
  modules,     \* sys.modules: the modules of directory plugins
  trail,       \* the audit trail: a plugin and an outcome
  ran          \* history variable: plugins whose own code was executed

pluginVars == <<library, phase, manifests, tools, modules, trail, ran>>

NoLibrary == [entries |-> <<>>, folders |-> <<>>, onError |-> "skip", reserved |-> {}]

PluginsInit(installed) ==
  /\ library \in installed
  /\ phase = IF library = NoLibrary THEN "off" ELSE "discover"
  /\ manifests = {} /\ tools = <<>> /\ modules = {} /\ trail = <<>> /\ ran = {}

\* All there is, in the order of discovery.
Installed == library.entries \o library.folders

Current == Installed[Min(manifests)]

-----------------------------------------------------------------------------
(***************************************************************************)
(* Discovery, by metadata alone.                                           *)
(***************************************************************************)
\* __post_init__
Valid(p) == p.fields = "ok"

\* from_entry_point: nothing is read but the entry point's name and value.
FromEntryPoint(p) == IF Valid(p) THEN "ok" ELSE "manifest_error"

\* from_directory: what is wrong with the frontmatter is a manifest error; the
\* numbers are converted before the fields are validated.
FromDirectory(p) ==
  CASE p.text = "malformed" -> "manifest_error"
    [] p.text = "not_a_number" -> "value_error"
    [] OTHER -> IF Valid(p) THEN "ok" ELSE "manifest_error"

\* discover_entry_point_plugins: one manifest that is refused ends discovery.
EntryPoints ==
  [raised |-> \E p \in Range(library.entries) : FromEntryPoint(p) # "ok",
   found |-> DOMAIN library.entries]

\* discover_directory_plugins: a manifest that is refused is skipped.  A number
\* that is none raises ValueError, which is not caught.
Folders ==
  [raised |-> \E p \in Range(library.folders) : FromDirectory(p) = "value_error",
   found  |-> {k \in DOMAIN Installed \ DOMAIN library.entries :
                 FromDirectory(Installed[k]) = "ok"}]

\* discover_plugins: a name claimed twice is refused before anything is imported.
Ambiguous(found) ==
  \E j, k \in found : j < k /\ Installed[j].name = Installed[k].name

Discover ==
  /\ phase = "discover"
  /\ LET found == EntryPoints.found \cup Folders.found
     IN IF EntryPoints.raised \/ Folders.raised \/ Ambiguous(found)
        THEN phase' = "no_discovery" /\ UNCHANGED manifests
        ELSE phase' = "load" /\ manifests' = found
  /\ UNCHANGED <<library, tools, modules, trail, ran>>

-----------------------------------------------------------------------------
(***************************************************************************)
(* PluginLoader.load                                                       *)
(***************************************************************************)
Audit(outcome) == trail' = Append(trail, [plugin |-> Current.name, outcome |-> outcome])

\* Mutant: a failure always propagates.
Failed_AlwaysRaises == phase' = "raised" /\ UNCHANGED manifests

\* load_all on an exception of load: the plugin is skipped, or it propagates.
Failed ==
  IF library.onError = "raise" THEN phase' = "raised" /\ UNCHANGED manifests
  ELSE phase' = "load" /\ manifests' = manifests \ {Min(manifests)}

\* A capability other than "tool" is refused.
Unsupported ==
  /\ phase = "load" /\ manifests # {}
  /\ Current.capabilities \ {"tool"} # {}
  /\ Audit("failed") /\ Failed
  /\ UNCHANGED <<library, tools, modules, ran>>

\* The first part that stops an import, or 0.  A module in the middle has no
\* submodules.
Stops(parts) ==
  LET bad == {k \in DOMAIN parts :
                \/ parts[k] \in {"missing", "raises"}
                \/ parts[k] = "module" /\ k < Len(parts)}
  IN IF bad = {} THEN 0 ELSE Min(bad)

\* _find_spec_no_import: packages are walked without executing them.
SpecFound(parts) ==
  \A k \in DOMAIN parts :
    parts[k] # "missing" /\ (parts[k] = "module" => k = Len(parts))

\* _locate_source_files
Locatable(p) == IF p.source = "directory" THEN p.files # <<>> ELSE SpecFound(p.parts)

\* scan_source: a file that does not parse has one finding, and it is critical.
ScanSource(file) == IF "unparsable" \in file THEN {"critical"} ELSE file

Flags(p) == UNION {ScanSource(f) : f \in Range(p.files)}

\* Mutant: a finding does not block.
Clean_Always(p) == TRUE

\* scan_plugin: warnings do not block.
Clean(p) == "critical" \notin Flags(p)

Supported == phase = "load" /\ manifests # {} /\ Current.capabilities \subseteq {"tool"}

\* Nothing to scan: the exception leaves load() without an audit entry.
NotLocated ==
  /\ Supported /\ ~Locatable(Current)
  /\ Failed
  /\ UNCHANGED <<library, tools, modules, trail, ran>>

Rejected ==
  /\ Supported /\ Locatable(Current) /\ ~Clean(Current)
  /\ Audit("rejected") /\ Failed
  /\ UNCHANGED <<library, tools, modules, ran>>

Scanned ==
  /\ Supported /\ Locatable(Current) /\ Clean(Current)
  /\ phase' = "import"
  /\ UNCHANGED <<library, manifests, tools, modules, trail, ran>>

-----------------------------------------------------------------------------
\* The names an import puts into sys.modules until it is over.
Inserted(name, module, parts) ==
  LET last == IF Stops(parts) = 0 THEN Len(parts)
              ELSE IF parts[Stops(parts)] = "raises" THEN Stops(parts) ELSE Stops(parts) - 1
  IN {<<name, module, k>> : k \in 1..last}

\* What Python itself inserts for `from .helpers import x` in the plugin's code.
Pulled(p, module, parts) ==
  IF p.pulls /\ Inserted(p.name, module, parts) # {} THEN {<<p.name, "helper", 1>>} ELSE {}

\* _import_directory_module: a failure takes out what it has inserted, and not
\* what the plugin's code has pulled in.
ImportDirectory(p, module, parts) ==
  modules' = Pulled(p, module, parts) \cup
               IF Stops(parts) = 0 THEN modules \cup Inserted(p.name, module, parts)
               ELSE modules \ Inserted(p.name, module, parts)

\* _import_module: installed packages are left to importlib.
ImportModule(p, module, parts) ==
  IF p.source = "directory" THEN ImportDirectory(p, module, parts) ELSE UNCHANGED modules

\* A module is executed once it is inserted.
Ran(p) ==
  ran' = IF Inserted(p.name, "entry", p.parts) = {} THEN ran ELSE ran \cup {p}

Import ==
  /\ phase = "import"
  /\ ImportModule(Current, "entry", Current.parts) /\ Ran(Current)
  /\ IF Stops(Current.parts) # 0 THEN Audit("failed") /\ Failed
     ELSE phase' = "build" /\ UNCHANGED <<trail, manifests>>
  /\ UNCHANGED <<library, tools>>

\* The factory called last: of the plugin, or of the manifest it yielded.
Factory == IF phase = "hop" THEN Current.inner ELSE Current.factory

\* _call_factory, and the check of what it returned: failures are audited.  A
\* second manifest is not followed: it is no list.
FactoryFails ==
  /\ phase \in {"build", "hop"}
  /\ \/ Factory \in {"not_callable", "raises", "not_a_list"}
     \/ phase = "hop" /\ Factory = "manifest"
  /\ Audit("failed") /\ Failed
  /\ UNCHANGED <<library, tools, modules, ran>>

\* The factory yields a manifest: the module it names is imported in turn.
Follow ==
  /\ phase = "build" /\ Factory = "manifest"
  /\ ImportModule(Current, "via", Current.via)
  /\ IF Stops(Current.via) # 0 THEN Audit("failed") /\ Failed
     ELSE phase' = "hop" /\ UNCHANGED <<trail, manifests>>
  /\ UNCHANGED <<library, tools, ran>>

Built ==
  /\ phase \in {"build", "hop"} /\ Factory \in {"tools", "not_tools"}
  /\ phase' = IF Factory = "tools" THEN "valid" ELSE "not_tools"
  /\ UNCHANGED <<library, manifests, tools, modules, trail, ran>>

\* _validate_tools: its exception leaves load() without an audit entry.
NotTools ==
  /\ phase = "not_tools"
  /\ Failed
  /\ UNCHANGED <<library, tools, modules, trail, ran>>

Loaded ==
  /\ phase = "valid"
  /\ Audit("loaded") /\ phase' = "merge"
  /\ UNCHANGED <<library, manifests, tools, modules, ran>>

-----------------------------------------------------------------------------
\* The tools a plugin adds to those merged.
Owned(p) == [k \in DOMAIN p.tools |-> [name |-> p.tools[k], owner |-> p.name]]

\* A name has an owner already, of the same plugin too, or is reserved.
Collides(merged) ==
  \/ \E j, k \in DOMAIN merged : j < k /\ merged[j].name = merged[k].name
  \/ \E k \in DOMAIN merged : merged[k].name \in library.reserved

\* load_all: a collision is raised whatever on_error says.
Merge ==
  /\ phase = "merge"
  /\ IF Collides(tools \o Owned(Current))
     THEN phase' = "raised" /\ UNCHANGED <<tools, manifests>>
     ELSE /\ tools' = tools \o Owned(Current)
          /\ phase' = "load" /\ manifests' = manifests \ {Min(manifests)}
  /\ UNCHANGED <<library, modules, trail, ran>>

ReturnTools ==
  /\ phase = "load" /\ manifests = {}
  /\ phase' = "returned"
  /\ UNCHANGED <<library, manifests, tools, modules, trail, ran>>

\* Agent.__init__ refuses two tools of one name.
Constructible == Cardinality({t.name : t \in Range(tools)} \cup library.reserved)
                 = Len(tools) + Cardinality(library.reserved)

BuildAgent ==
  /\ phase = "returned"
  /\ phase' = IF Constructible THEN "agent" ELSE "duplicate_tool"
  /\ UNCHANGED <<library, manifests, tools, modules, trail, ran>>

-----------------------------------------------------------------------------
(* Properties *)

\* A file of the plugin has a critical finding or does not parse.
Condemned(p) == \E k \in DOMAIN p.files : p.files[k] \cap {"critical", "unparsable"} # {}

\* A plugin that would load on its own.
Loads(p) ==
  /\ p.text = "ok" /\ Valid(p) /\ p.capabilities = {"tool"} /\ Locatable(p) /\ ~Condemned(p)
  /\ Stops(p.parts) = 0
  /\ \/ p.factory = "tools"
     \/ p.factory = "manifest" /\ Stops(p.via) = 0 /\ p.inner = "tools"

(***************************************************************************)
(* "one bad plugin never blocks agent startup" (registry.py:83-84): where  *)
(* failures are skipped, load_all fails for a discovery that failed or for *)
(* a name claimed twice, and what it returns are the tools of each plugin  *)
(* that loads on its own, in the order of discovery.                       *)
(***************************************************************************)
BadPluginsContained ==
  library.onError = "skip" =>
    LET good == SelectSeq(Installed, Loads)
        of[k \in 0..Len(good)] == IF k = 0 THEN <<>> ELSE of[k - 1] \o Owned(good[k])
        all  == of[Len(good)]
    IN /\ phase = "raised" => Collides(all)
       /\ phase \in {"returned", "agent"} => tools = all

\* load() is over for the plugin at place k.
Over(k) ==
  /\ phase \notin {"off", "discover", "no_discovery"}
  /\ k \in EntryPoints.found \cup Folders.found
  /\ k \notin manifests \/ (phase = "raised" /\ k = Min(manifests))

Audited(p, outcome) == [plugin |-> p.name, outcome |-> outcome] \in Range(trail)

(***************************************************************************)
(* The audit trail is a true account ("so loading is never unaudited",     *)
(* loader.py:61): a plugin has one entry at most; one whose code was       *)
(* executed is neither rejected nor condemned and has the entry "loaded"   *)
(* or "failed", unless what it returned were no tools (loader.py:122, after *)
(* the audited part); and the tools merged are of plugins said to be       *)
(* loaded.  Of an import that failed no module of the dotted name stays    *)
(* (loader.py:228); what the plugin's own code had imported does.          *)
(***************************************************************************)
TrailTellsWhatRan ==
  /\ \A j, k \in DOMAIN trail : trail[j].plugin = trail[k].plugin => j = k
  /\ \A k \in DOMAIN Installed :
       LET p == Installed[k]
       IN  Over(k) /\ p \in ran =>
             /\ ~Condemned(p)
             /\ \/ Audited(p, "loaded") \/ Audited(p, "failed")
                \/ "not_tools" \in {p.factory, p.inner}
  /\ \A k \in DOMAIN tools : [plugin |-> tools[k].owner, outcome |-> "loaded"] \in Range(trail)
  /\ \A p \in Range(library.folders) :
       Stops(p.parts) # 0 => \A k \in DOMAIN p.parts : <<p.name, "entry", k>> \notin modules
=============================================================================
