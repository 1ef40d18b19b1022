-------------------------- MODULE MCReconnectGrace --------------------------
(***************************************************************************)
(* Instances of ReconnectGrace for TLC: the .cfg files give the constants. *)
(***************************************************************************)
EXTENDS ReconnectGrace

\* The calls of one handler meet one kind of fault; a write of the cutoff that
\* fails does so as often as the handler tries.
OneFault ==
  {Good} \cup
  {[Good EXCEPT !.evidence = e] : e \in {"unknown", "lost"}} \cup
  {[Good EXCEPT !.launch = l] : l \in {"unreadable", "failed", "unstarted"}} \cup
  {[Good EXCEPT !.mark = FALSE, !.cut = FALSE], [Good EXCEPT !.stop = FALSE]}

\* The first write of a cutoff may fail, and the second of the same handler not.
MarkFails == {Good, [Good EXCEPT !.mark = FALSE]}

StopFailsToo == {Good, [Good EXCEPT !.stop = FALSE]}

=============================================================================
