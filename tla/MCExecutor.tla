----------------------------- MODULE MCExecutor -----------------------------
(* Executor for TLC: every script of up to three steps over six steps.     *)
EXTENDS Executor, TLC

\* A step that writes what step 1 produced, one that refers ahead, ...
MCSteps == {[tool |-> "read_file", path |-> "f", ref |-> 0],
            [tool |-> "read_file", path |-> "g", ref |-> 0],
            [tool |-> "write_file", path |-> "g", ref |-> 0],
            [tool |-> "write_file", path |-> "g", ref |-> 1],
            [tool |-> "apply_patch", path |-> "f", ref |-> 0],
            [tool |-> "shell", path |-> "f", ref |-> 2]}

MCScripts == UNION {[1..n -> MCSteps] : n \in 1..3}

WithUnknownTool == MCScripts \cup {<<s, [tool |-> "sudo", path |-> "f", ref |-> 0]>> : s \in MCSteps}

Rule(tools, unless, action) == [tools |-> tools, unless |-> unless, action |-> action]

MCPolicies ==
  {[rules |-> << >>, default |-> "allow"],
   [rules |-> <<Rule({"write_file"}, {"text"}, "deny"), Rule({"write_file"}, {}, "needs_review")>>,
    default |-> "allow"],
   [rules |-> <<Rule({"read_file"}, {}, "deny"), Rule({"apply_patch"}, {}, "allow"),
                Rule({"apply_patch", "shell", "sudo"}, {}, "needs_review")>>, default |-> "allow"],
   [rules |-> <<Rule({"read_file"}, {}, "allow")>>, default |-> "deny"]}

MCWorkspaces == {("f" :> "bug") @@ ("g" :> NoContent)}
=============================================================================
