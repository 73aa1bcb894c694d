-------------------------- MODULE MCPluginLifecycle --------------------------
(* A store the kernel needs and two ordinary plugins that claim one command. *)
EXTENDS PluginLifecycle

MCBootstrap == <<"store">>

MCOrdinary == <<"chat", "graphs">>

MCStoredAtStart == {{}, {"chat"}}

MCHandles == [p \in Plugin |-> CASE p = "store" -> {}
                                 [] p = "chat" -> {"send"}
                                 [] OTHER -> {"send", "run"}]
=============================================================================
