------------------------- MODULE MCCommandPipeline -------------------------
(***************************************************************************)
(* A small instance of CommandPipeline for TLC: one task context, one kind *)
(* of foreign message, and every kind of command the agent distinguishes.  *)
(***************************************************************************)
EXTENDS CommandPipeline

CONSTANTS load, ctx

MCPushes   == {load}
MCContexts == {ctx}

\* Handlers that return one result, two results, block, and do not exist, and a
\* line that ends Run.
MCAllNames == {"accept", "connect", "csr_sign", "augment", "log", "garbled_log",
               "bogus", "unparsable"}
=============================================================================
