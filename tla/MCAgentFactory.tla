--------------------------- MODULE MCAgentFactory ---------------------------
(***************************************************************************)
(* An instance of AgentFactory for TLC.                                    *)
(***************************************************************************)
EXTENDS AgentFactory, TLC

CONSTANTS r1, r2, r3, plain, elevated

Tool(type, enabled, allowed_roles, tools) ==
    [type |-> type, enabled |-> enabled, allowed_roles |-> allowed_roles, tools |-> tools]

\* A tool of each kind, a subagent of more callers than its tools, and two
\* servers, one of whose tools has a role of its own.
SmallCatalog ==
    "calculator"  :> Tool("function", TRUE, {plain}, {}) @@
    "approval"    :> Tool("function", TRUE, {elevated}, {}) @@
    "retired"     :> Tool("function", FALSE, {plain, elevated}, {}) @@
    "subagent"    :> Tool("subagent", TRUE, {plain},
                          {"calculator", "approval", "retired"}) @@
    "notes"       :> Tool("mcp", TRUE, {plain, elevated},
                          "list_notes" :> {} @@ "delete_note" :> {elevated}) @@
    "archive"     :> Tool("mcp", TRUE, {elevated}, << >>)

SmallMcpTools ==
    "notes" :> {"list_notes", "delete_note"} @@ "archive" :> {"find"}
=============================================================================
