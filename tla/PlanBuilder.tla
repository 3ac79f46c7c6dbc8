----------------------------- MODULE PlanBuilder -----------------------------
(***************************************************************************)
(* build_execution_plan of app/parser.py.  A plan is the set of positions  *)
(* of the runbook's source list that hold an action to run: the executor   *)
(* takes them in ascending order, so the set stands for the ordered list.  *)
(***************************************************************************)
EXTENDS Actions

\* A non-empty execution_plan wins; its entries never fall back on commands.
PlanSource(rb) == IF rb.plan # <<>> THEN rb.plan ELSE rb.commands

\* int() of an overlong replica count raises outside _try_build, and the
\* exception leaves build_execution_plan.
PlanRaises(rb) ==
    rb.plan = <<>> /\ \E i \in DOMAIN rb.commands : rb.commands[i] = Overlong

\* The entries that parse, each distinct action at its first position only.
BuildExecutionPlan(rb) ==
    LET source == PlanSource(rb) IN
    {i \in DOMAIN source :
        /\ source[i] # Unsupported
        /\ \A j \in 1..(i - 1) : source[j] # source[i]}
=============================================================================
