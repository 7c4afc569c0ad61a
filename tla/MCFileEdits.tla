----------------------------- MODULE MCFileEdits -----------------------------
(***************************************************************************)
(* Instances of FileEdits: agents that share a registry, and what they and *)
(* the patch tool are asked to do.                                         *)
(***************************************************************************)
EXTENDS FileEdits

SharedRegistry == [p \in Procs |-> CHOOSE q \in Procs : TRUE]

Hunk(start, old, new) == [start |-> start, old |-> old, new |-> new]

Patch(path, hunks) == [path |-> path, hunks |-> hunks]

\* Growing and shrinking hunks, positions that are off by one, an insertion at
\* the head, a context that is not there, one file patched twice.
Hunks ==
  {<<Hunk(1, <<1>>, <<5, 6>>), Hunk(2, <<2>>, <<7>>)>>,
   <<Hunk(1, <<1>>, <<>>), Hunk(2, <<2>>, <<7>>)>>,
   <<Hunk(2, <<1>>, <<5>>)>>,
   <<Hunk(0, <<>>, <<5>>), Hunk(1, <<1, 2>>, <<8>>)>>,
   <<Hunk(1, <<9>>, <<5>>)>>}

SomePatches ==
  {<<Patch("f", h), Patch("g", h)>> : h \in Hunks}
    \cup {<<Patch("g", <<Hunk(1, <<1>>, <<5>>)>>), Patch("f", h),
           Patch("g", <<Hunk(1, <<5>>, <<>>)>>)>> : h \in {x \in Hunks : Len(x) = 1}}

Workload(start, ops, calls, agents) ==
  [start |-> start, ops |-> ops, calls |-> calls, agents |-> agents]

AllWorkloads ==
  {Workload(<<1>>, {"edit", "undo"}, 2, Procs), Workload(<<1>>, {"edit", "restore"}, 3, {1}),
   Workload(NoFile, {"create", "undo"}, 3, Procs), Workload(<<1>>, {"hold"}, 3, Procs),
   Workload(<<1, 2>>, {"edit", "patch"}, 2, {1})}
=============================================================================
