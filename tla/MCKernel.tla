------------------------------ MODULE MCKernel ------------------------------
(* Two modules with a resource, so that one can fail while the other is    *)
(* open and the order of the hooks shows, around one without; one request  *)
(* of each kind and a scheduled run.                                       *)
EXTENDS Kernel

CONSTANTS pooled, router, store, chat, run, fired

MCModules       == <<pooled, router, store>>
MCCleanerUppers == {pooled, store}
MCHandlers      == {chat, run}
MCRuns          == {run}
MCFires         == {fired}
=============================================================================
