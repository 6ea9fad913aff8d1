--------------------------- MODULE MCWorkflowForm ---------------------------
(* Small instances of WorkflowForm for TLC: labels whose slugs meet.         *)
EXTENDS WorkflowForm, TLC

CONSTANTS load, step, Load, Load2, Stars

\* "Load", "Load 2" and "***".
LabelSlugs ==
    (Load :> <<load>>) @@ (Load2 :> <<load, 2>>) @@ (Stars :> <<>>)
=============================================================================
