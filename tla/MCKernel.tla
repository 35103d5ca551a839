------------------------------ MODULE MCKernel ------------------------------
(* The main loop and the shell have one priority, the server a lower one.  *)
(* All of them print, which takes the mutex; the shell reads the console.  *)
(* The main loop, a command of the shell, shares its priority in slices.   *)
EXTENDS Kernel, TLC

CONSTANTS main, shell, server, mutex, event

MCPriority == (main :> 2) @@ (shell :> 2) @@ (server :> 1) @@ (Idle :> 0)
MCDelays == (main :> {1}) @@ (shell :> {1}) @@ (server :> {2})
MCUsers == (mutex :> Tasks) @@ (event :> {shell})
=============================================================================
