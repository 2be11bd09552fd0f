--------------------------- MODULE MCPlanLifecycle ---------------------------
(* Model-checking instance of PlanLifecycle. *)
EXTENDS PlanLifecycle, TLC

ProcSymmetry == Permutations(Procs)

\* Which ids the CLI's answer to an accepted submission carries.
AllReplies   == {{}, {"draft"}, {"draft", "output"}, {"output"}}
NamedReplies == {{"draft"}, {"draft", "output"}}
FullReply    == {{"draft", "output"}}
=============================================================================
