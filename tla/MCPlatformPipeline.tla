------------------------ MODULE MCPlatformPipeline ------------------------
(* One pipeline, two requests in service at once, one repair round.         *)
EXTENDS PlatformPipeline
=============================================================================
