------------------------ MODULE MCPipelineLifecycle ------------------------
(***************************************************************************)
(* Two sinks, one of them an SSE sink, and four sources, any subset of     *)
(* which is enabled, for `connect` and for `send`.                         *)
(***************************************************************************)
EXTENDS PipelineLifecycle

CONSTANTS db, sse, cli, wrapped, hook, poll

MCKind == [x \in Source |->
             CASE x = cli -> "cli" [] x = wrapped -> "subprocess"
               [] x = hook -> "webhook" [] x = poll -> "poll"]

=============================================================================
