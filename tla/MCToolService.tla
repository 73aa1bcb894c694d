---------------------------- MODULE MCToolService ----------------------------
(* A small instance of ToolService: a plugin with a static tool and one with    *)
(* two tool providers, whose catalogs offer the same id and another one.        *)
EXTENDS ToolService, TLC

CONSTANTS echo, search, files, t1, t2

MCToolOf == echo :> t1 @@ search :> t1 @@ files :> t2
MCProviderId == search :> "search" @@ files :> "files"
MCOwner == echo :> "static" @@ search :> "dynamic" @@ files :> "dynamic"
MCOutput == echo :> 2 @@ search :> 1 @@ files :> 2
=============================================================================
