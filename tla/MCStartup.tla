----------------------------- MODULE MCStartup ------------------------------
(* Values for the constants of Startup. *)
EXTENDS Startup
MCPid == {StartWm, Wm, Bg}
MCType == {"nop", "create", "close", "create_reply"}
=============================================================================
