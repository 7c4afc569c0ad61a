----------------------------- MODULE ReplayTools -----------------------------
(***************************************************************************)
(* The deterministic tools rebuilt from the replay file that the recorder  *)
(* of EventStream leaves (replay/deterministic.py).                        *)
(***************************************************************************)
EXTENDS EventStream, SequencesExt

\* Mutant: a later snapshot's text replaces it.
Absorb_Latest(recorded, r) == SelectSeq(recorded, LAMBDA x : x.id # r.id) \o <<r>>

\* A call's result is the one of the first snapshot that has it.
Absorb(recorded, r) == IF \E x \in ToSet(recorded) : x.id = r.id THEN recorded ELSE Append(recorded, r)

FromReplay(timeline) ==
  FoldLeft(LAMBDA recorded, state : FoldLeft(Absorb, recorded, state), <<>>, timeline)

(***************************************************************************)
(* The tools rebuilt from a replay repeat what the calls really returned:  *)
(* in call order, every call of the latest snapshot among them, and whole, *)
(* although later snapshots of the same run hold compacted histories and   *)
(* single saves failed (replay/deterministic.py:57-59, 68-106).            *)
(***************************************************************************)
ReplayRepeats ==
  LET calls == FromReplay(replay)
  IN  /\ \A i \in DOMAIN calls : calls[i].whole
      /\ \A i, j \in DOMAIN calls : i < j => calls[i].id < calls[j].id
      /\ \A i \in DOMAIN replay : \A r \in ToSet(replay[i]) :
           \E c \in ToSet(calls) : c.id = r.id
=============================================================================
