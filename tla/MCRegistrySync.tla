--------------------------- MODULE MCRegistrySync ----------------------------
(***************************************************************************)
(* Small instances of RegistrySync: a tool without a native name, and one  *)
(* without a registry id, stand between the others.                        *)
(***************************************************************************)
EXTENDS RegistrySync

Tool(id, mcp) == [id |-> id, mcp |-> mcp]

FiveTools ==
    <<Tool("r1", "t1"), Tool("r2", ""), Tool("r3", "t3"), Tool("", "t4"),
      Tool("r5", "t5")>>
=============================================================================
