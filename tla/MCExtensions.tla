----------------------------- MODULE MCExtensions ------------------------------
(***************************************************************************)
(* Model-checking instance of Extensions.                                  *)
(***************************************************************************)
EXTENDS Extensions

CONSTANTS w1, w2

McpSetup(kind, locked, bound, callers, chatter, stalls) ==
  [kind |-> kind, locked |-> locked, calls |-> bound, callers |-> callers, noise |-> chatter,
   stalls |-> stalls]

\* The synchronous client shared by two threads, the asyncio facade shared by
\* two coroutines, a chatty server behind each transport with one caller, and a
\* server that stalls.
MCSetups ==
  {McpSetup("stdio", FALSE, 4, {w1, w2}, 0, FALSE), McpSetup("stdio", TRUE, 3, {w1, w2}, 0, FALSE),
   McpSetup("stdio", FALSE, 4, {w1}, 1, FALSE), McpSetup("sse", FALSE, 4, {w1}, 1, FALSE),
   McpSetup("sse", FALSE, 2, {w1}, 0, TRUE)}

Plugin(name, source) ==
  [name |-> name, source |-> source, text |-> "ok", fields |-> "ok", capabilities |-> {"tool"},
   files |-> <<{}, {"warning"}>>, parts |-> <<"package", "module">>, pulls |-> FALSE,
   factory |-> "tools",
   via |-> <<"module">>, inner |-> "tools", tools |-> <<name>>]

\* What may be wrong with a plugin of either source, one thing at a time.
Variants(p) ==
  {p, [p EXCEPT !.fields = "invalid"], [p EXCEPT !.files[1] = {"critical"}],
   [p EXCEPT !.files[2] = {"unparsable"}],
   [p EXCEPT !.tools = <<"shared">>], [p EXCEPT !.tools = <<"read_file">>],
   [p EXCEPT !.tools = <<"twin", "twin">>]}
  \cup {[p EXCEPT !.parts = q] :
          q \in {<<"missing">>, <<"raises">>, <<"module", "module">>, <<"package", "raises">>}}
  \cup {[p EXCEPT !.pulls = TRUE, !.parts[2] = q] : q \in {"module", "raises"}}
  \cup {[p EXCEPT !.factory = f] : f \in Factories}
  \cup {[p EXCEPT !.factory = "manifest", !.via = <<"missing">>]}
  \cup {[p EXCEPT !.factory = "manifest", !.inner = f] : f \in Factories}

FolderVariants(p) ==
  Variants(p) \cup {[p EXCEPT !.text = t] : t \in {"malformed", "not_a_number"}}
              \cup {[p EXCEPT !.files = <<>>],
                    [p EXCEPT !.capabilities = {"tool", "hook"}]}

\* An installed plugin and one in the directory, of any variants, then one that
\* is right; and a name claimed by both sources, once by a folder that is refused.
MCLibraries ==
  {[entries |-> <<e>>, folders |-> <<f, Plugin("c", "directory")>>,
    onError |-> mode, reserved |-> {"read_file"}] :
      e \in Variants(Plugin("a", "entry_point")),
      f \in FolderVariants(Plugin("b", "directory")), mode \in {"skip", "raise"}}
  \cup {[entries |-> <<Plugin("c", "entry_point")>>, folders |-> <<Plugin("c", "directory")>>,
         onError |-> "skip", reserved |-> {}],
        [entries |-> <<Plugin("c", "entry_point")>>,
         folders |-> <<[Plugin("c", "directory") EXCEPT !.text = "malformed",
                                                        !.files[1] = {"critical"}]>>,
         onError |-> "skip", reserved |-> {}]}

\* Rounds of one call and of up to three.
MCBreakerSettings == {[threshold |-> t, batch |-> b] : t \in 1..2, b \in {1, 3}}

File(p, folder, what) ==
  [of |-> p, folder |-> folder, what |-> what, kind |-> "file", allowed |-> TRUE,
   size |-> 1, bytes |-> 1, matter |-> "ok", marks |-> {}]

\* Two skills: the second holds a resource, in one archive also a file that is
\* neither.
Small(p) == <<File(p, 1, "main"), File(p, 2, "main"), File(p, 2, "resource")>>
Usual(p) == Append(Small(p), File(p, 2, "other"))

\* The second installer's archive: the usual one, or one that departs from it.
MCArchives(p) ==
  {Usual(p), Usual(p) \o Usual(p), [Usual(p) EXCEPT ![2].kind = "corrupt"],
   [Usual(p) EXCEPT ![2].kind = "dir"],
   [Usual(p) EXCEPT ![1].marks = {"hidden"}], [Usual(p) EXCEPT ![2].marks = {"warning"}],
   [Usual(p) EXCEPT ![1].matter = "none"], [Usual(p) EXCEPT ![1].matter = "other_name"],
   [Usual(p) EXCEPT ![2].matter = "invalid"],
   [Usual(p) EXCEPT ![3].kind = "escaping"], [Usual(p) EXCEPT ![3].kind = "symlink"],
   [Usual(p) EXCEPT ![4].allowed = FALSE], [Usual(p) EXCEPT ![3].size = 9],
   [Usual(p) EXCEPT ![3].bytes = 9], [Usual(p) EXCEPT ![3].bytes = 3, ![3].marks = {"critical"}],
   [Usual(p) EXCEPT ![3].marks = {"critical"}], [Usual(p) EXCEPT ![4].marks = {"critical"}]}

\* With a judge critical skills are skipped, without one they raise; and once
\* the first installer has a local skill of a name in its archive.
Installation(a, judged, names) ==
  [archive |-> [p \in Installers |-> IF p = 1 THEN Small(1) ELSE a], raises |-> ~judged,
   reviewer |-> judged, local |-> [p \in Installers |-> IF p = 1 THEN names ELSE {}]]

MCInstallations ==
  {Installation(a, judged, {}) : a \in MCArchives(2), judged \in BOOLEAN}
  \cup {Installation(Usual(2), FALSE, {2})}

\* Every tool that runs a process; the terminal with no timeout of the call and
\* with one at each side of the bounds; and a command that is blank.
ToolCall(v, b, a) == [via |-> v, blank |-> b, asked |-> a]

MCToolCalls ==
  {ToolCall("shell", FALSE, a) : a \in {{}, {0}, {9}}} \cup {ToolCall("shell", TRUE, {})}
  \cup {ToolCall(v, FALSE, {}) : v \in {"docker", "pod", "git", "rg", "python"}}
=============================================================================
