-------------------------------- MODULE Skills ---------------------------------
(***************************************************************************)
(* add_skill_from_zip (skills/__init__.py), run by several processes on    *)
(* one persist_dir: an archive is extracted to a temporary directory, each *)
(* skill in it is vetted, copied and registered (zip_loader.py, loader.py, *)
(* vet.py, registry.py, skill.py).  A process may die at any step and come *)
(* back, and it may load the directory's skills as local ones.             *)
(*                                                                         *)
(* A file is a record: its archive, the folder (the skill) it is in, what  *)
(* it is there ("main" for SKILL.md, "resource" under one of the resource  *)
(* directories, "other"), and what extraction and vetting make of it.      *)
(***************************************************************************)
EXTENDS Naturals, Sequences, FiniteSetsExt, Functions

CONSTANTS
  Installers,      \* processes; each installs its own archive
  Installations,   \* what they install, and how
  MaxEntries,      \* ZipSkillLoader's max_entries
  MaxTotal,        \* its max_total_size_bytes
  MaxScan,         \* MAX_RESOURCE_SCAN_BYTES
  MaxCrashes       \* bound: processes that die

ASSUME SkillsAssumption ==
  /\ {MaxEntries, MaxTotal, MaxScan, MaxCrashes} \subseteq Nat
  /\ \A i \in Installations : \A p \in Installers : \A e \in Range(i.archive[p]) :
       {e.folder, e.size, e.bytes} \subseteq Nat      \* names are ordered

VARIABLES
  installation, \* archive: the entries of each installer's archive;
                \* raises: raise_on_critical; reviewer: there is a judge;
                \* local: skills each registered from elsewhere before
  at,           \* the step of each installer
  temp,         \* its temporary directory: the files in it, if it exists
  todo,         \* skills discovered and not yet handled
  registry,     \* skills registered: name -> source and root
  accepted,     \* what add_skill_from_zip will return
  disk,         \* persist_dir: skill name -> the files in its directory
  crashes,
  vetted        \* history variable: the skills passed on to be copied, each with
                \* whether the judge had called it critical

skillVars == <<installation, at, temp, todo, registry, accepted, disk, crashes, vetted>>

Gone == [exists |-> FALSE, files |-> {}]
NoSkills == [n \in {} |-> {}]

Elsewhere(p) == [n \in installation.local[p] |-> [source |-> "local", root |-> "elsewhere"]]

NoInstallation ==
  [archive |-> [p \in Installers |-> <<>>], raises |-> TRUE, reviewer |-> FALSE,
   local |-> [p \in Installers |-> {}]]

SkillsInit(offered) ==
  /\ installation \in offered
  /\ at = [p \in Installers |-> IF installation = NoInstallation THEN "off" ELSE "idle"]
  /\ temp = [p \in Installers |-> Gone] /\ todo = [p \in Installers |-> {}]
  /\ registry = [p \in Installers |-> Elsewhere(p)]
  /\ accepted = [p \in Installers |-> <<>>] /\ vetted = [p \in Installers |-> {}]
  /\ disk = NoSkills /\ crashes = 0

-----------------------------------------------------------------------------
(***************************************************************************)
(* Extraction.  An entry's kind is "file", "dir", "symlink", "escaping" or *)
(* "corrupt" (zipfile raises); size is what its header declares, bytes     *)
(* what it holds.                                                          *)
(***************************************************************************)
DeclaredTotal(entries) == FoldFunction(LAMBDA e, sum : sum + e.size, 0, entries)

\* _extract_entry: what is written for an entry that is not refused.
IsWritten(e) == e.kind = "file" /\ e.allowed
Bytes(e)   == IF IsWritten(e) THEN e.bytes ELSE 0

WrittenTotal(entries) == FoldFunction(LAMBDA e, sum : sum + Bytes(e), 0, entries)

\* _extract_safely
RefusesArchive(entries) ==
  \/ Len(entries) > MaxEntries
  \/ DeclaredTotal(entries) > MaxTotal
  \/ WrittenTotal(entries) > MaxTotal
  \/ \E k \in DOMAIN entries : entries[k].kind \in {"escaping", "corrupt"}

Extracted(p) == {e \in Range(installation.archive[p]) : IsWritten(e)}

\* _split_frontmatter: there is a block of plain keys, and it is closed.
SplitFrontmatter(e) == e.matter # "none"

\* __post_init__: the name, the description and the type are as they must be.
ValidSkill(e) == e.matter # "invalid"

\* Skill.from_directory: SKILL.md is there and names the folder it is in.
Parses(files, name) ==
  \E e \in files : /\ e.folder = name /\ e.what = "main"
                    /\ SplitFrontmatter(e) /\ e.matter # "other_name" /\ ValidSkill(e)

\* FileSystemSkillLoader.discover: what does not parse is skipped.
DiscoverSkills(files) == {n \in {e.folder : e \in files} : Parses(files, n)}

\* They are handled in their order.
First(p) == Min(todo[p])

FilesOf(files, name) == {e \in files : e.folder = name}

-----------------------------------------------------------------------------
\* The loader is a context manager: leaving it, also by an exception, closes it.
Leave(p, how) ==
  /\ at' = [at EXCEPT ![p] = how]
  /\ temp' = [temp EXCEPT ![p] = Gone]

\* The directory exists before the archive is opened.
Extract(p) ==
  /\ at[p] = "idle"
  /\ IF RefusesArchive(installation.archive[p])
     THEN Leave(p, "raised") /\ UNCHANGED todo
     ELSE /\ temp' = [temp EXCEPT ![p] = [exists |-> TRUE, files |-> Extracted(p)]]
          /\ todo' = [todo EXCEPT ![p] = DiscoverSkills(Extracted(p))]
          /\ at' = [at EXCEPT ![p] = "next"]
  /\ UNCHANGED <<installation, registry, accepted, disk, crashes, vetted>>

Finish(p) ==
  /\ at[p] = "next" /\ todo[p] = {}
  /\ Leave(p, "returned")
  /\ UNCHANGED <<installation, todo, registry, accepted, disk, crashes, vetted>>

-----------------------------------------------------------------------------
(* vet_skill *)

\* _scan_text: the patterns' severities; a hidden character is critical.
ScanText(e) ==
  (e.marks \ {"hidden"}) \cup (IF "hidden" \in e.marks THEN {"critical"} ELSE {})

\* list_resources: only what is under a resource directory.
ListResources(files) == {e \in files : e.what = "resource"}

\* _read_resource_capped: a resource too large is not read.
ResourceFlags(e) == IF e.bytes > MaxScan THEN {"warning"} ELSE ScanText(e)

\* scan: SKILL.md and the resources.
ScanFlags(files) ==
  UNION ({ScanText(e) : e \in {f \in files : f.what = "main"}}
         \cup {ResourceFlags(e) : e \in ListResources(files)})

\* _verdict_to_result: the severity decides, never the verdict's own "clean".
VerdictFlags(verdict) == {verdict} \ {"none"}

\* review: a call that fails, or an answer that is no verdict, is a warning.
ReviewFlags(verdict) == IF verdict = "failed" THEN {"warning"} ELSE VerdictFlags(verdict)

\* Mutant: the judge's answer is not merged.
VetFlags_StaticOnly(files, verdict) == ScanFlags(files)

\* The judge is asked only when the scan found nothing critical.
VetFlags(files, verdict) ==
  ScanFlags(files) \cup
    (IF installation.reviewer /\ "critical" \notin ScanFlags(files)
     THEN ReviewFlags(verdict) ELSE {})

Vet(p, verdict) ==
  /\ at[p] = "next" /\ todo[p] # {}
  /\ LET name == First(p)
         clean == "critical" \notin VetFlags(FilesOf(temp[p].files, name), verdict)
     IN IF clean
        THEN /\ vetted' = [vetted EXCEPT ![p] = @ \cup {<<name, verdict = "critical">>}]
             /\ at' = [at EXCEPT ![p] = "check"] /\ UNCHANGED <<todo, temp>>
        ELSE /\ IF installation.raises THEN Leave(p, "raised") /\ UNCHANGED todo
                ELSE todo' = [todo EXCEPT ![p] = @ \ {First(p)}] /\ UNCHANGED <<at, temp>>
             /\ UNCHANGED vetted
  /\ UNCHANGED <<installation, registry, accepted, disk, crashes>>

-----------------------------------------------------------------------------
(* The copy to persist_dir *)

Check(p) ==
  /\ at[p] = "check"
  /\ IF First(p) \in DOMAIN disk THEN Leave(p, "raised")
     ELSE at' = [at EXCEPT ![p] = "copy"] /\ UNCHANGED temp
  /\ UNCHANGED <<installation, todo, registry, accepted, disk, crashes, vetted>>

\* copytree makes the directory: it raises when another process just has.
MakeDir(p, name) ==
  IF name \in DOMAIN disk THEN Leave(p, "raised") /\ UNCHANGED disk
  ELSE /\ disk' = [n \in DOMAIN disk \cup {name} |-> IF n = name THEN {} ELSE disk[n]]
       /\ at' = [at EXCEPT ![p] = "copying"] /\ UNCHANGED temp

StartCopy(p) ==
  /\ at[p] = "copy"
  /\ MakeDir(p, First(p))
  /\ UNCHANGED <<installation, todo, registry, accepted, crashes, vetted>>

Missing(p) == FilesOf(temp[p].files, First(p)) \ disk[First(p)]

CopyFile(p) ==
  /\ at[p] = "copying"
  /\ \E e \in Missing(p) : disk' = [disk EXCEPT ![First(p)] = @ \cup {e}]
  /\ UNCHANGED <<installation, at, temp, todo, registry, accepted, crashes, vetted>>

\* copytree goes on after a file it cannot copy, and raises when it is through.
CopyFails(p) ==
  /\ at[p] = "copying" /\ Missing(p) # {}
  /\ Leave(p, "raised")
  /\ UNCHANGED <<installation, todo, registry, accepted, disk, crashes, vetted>>

\* SkillRegistry.add: the first registration of a name stands.
Add(p, name, skill) ==
  registry' = IF name \in DOMAIN registry[p] THEN registry
              ELSE [registry EXCEPT ![p] =
                      [n \in DOMAIN @ \cup {name} |-> IF n = name THEN skill ELSE @[n]]]

Persistent == [source |-> "zip", root |-> "persist"]

Register(p) ==
  /\ at[p] = "copying" /\ Missing(p) = {}
  /\ Add(p, First(p), Persistent)
  /\ accepted' = [accepted EXCEPT ![p] = Append(@, First(p))]
  /\ todo' = [todo EXCEPT ![p] = @ \ {First(p)}]
  /\ at' = [at EXCEPT ![p] = "next"]
  /\ UNCHANGED <<installation, temp, disk, crashes, vetted>>

-----------------------------------------------------------------------------
\* The process dies: its temporary directory stays, what it knew is lost.
Crash(p) ==
  /\ at[p] \notin {"off", "crashed"} /\ crashes < MaxCrashes
  /\ at' = [at EXCEPT ![p] = "crashed"] /\ crashes' = crashes + 1
  /\ registry' = [registry EXCEPT ![p] = NoSkills]
  /\ accepted' = [accepted EXCEPT ![p] = <<>>] /\ todo' = [todo EXCEPT ![p] = {}]
  /\ UNCHANGED <<installation, temp, disk, vetted>>

\* It comes back and loads persist_dir with SkillRegistry.load_from, as local
\* skills, before it installs its archive again.
Restart(p) ==
  /\ at[p] = "crashed"
  /\ registry' = [registry EXCEPT ![p] =
                    [n \in {m \in DOMAIN disk : Parses(disk[m], m)} |->
                       [source |-> "local", root |-> "persist"]]]
  /\ at' = [at EXCEPT ![p] = "idle"]
  /\ UNCHANGED <<installation, temp, todo, accepted, disk, crashes, vetted>>

\* read_main, on each call: SKILL.md is there and its frontmatter can be split.
ReadMain(files, name) ==
  \E e \in files : e.folder = name /\ e.what = "main" /\ SplitFrontmatter(e)

-----------------------------------------------------------------------------
(* Properties *)

\* Nothing the scan reads of a skill has a critical finding, and the judge has
\* not called it critical.
Harmless(p, name) ==
  /\ \A e \in FilesOf(Extracted(p), name) :
       e.what = "main" \/ (e.what = "resource" /\ e.bytes <= MaxScan) =>
         e.marks \cap {"critical", "hidden"} = {}
  /\ \E v \in vetted[p] : v = <<name, FALSE>>

(***************************************************************************)
(* Whoever else installs at the same time and whatever fails: a skill      *)
(* registered from an archive has in persist_dir exactly the files of that *)
(* archive, found clean (skills/__init__.py:83-92), and no directory there *)
(* holds a file of a skill that was not ("silently overwriting a trusted   *)
(* skill", skills/__init__.py:118).  And whatever is registered, also      *)
(* after a restart, can be read: "The registry therefore never holds a     *)
(* skill pointing into a temp dir" (skills/__init__.py:89).                *)
(***************************************************************************)
InstalledIsVetted ==
  /\ \A p \in Installers : \A n \in DOMAIN registry[p] :
       registry[p][n].source = "zip" =>
         Harmless(p, n) /\ n \in DOMAIN disk /\ disk[n] = FilesOf(Extracted(p), n)
  /\ \A n \in DOMAIN disk : \A e \in disk[n] :
       \E p \in Installers : Harmless(p, n) /\ disk[n] \subseteq Extracted(p)
  /\ \A p \in Installers : \A n \in DOMAIN registry[p] :
       /\ registry[p][n].root = "temp" => temp[p].exists
       /\ registry[p][n].root = "persist" => n \in DOMAIN disk /\ ReadMain(disk[n], n)
=============================================================================
