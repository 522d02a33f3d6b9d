------------------------------ MODULE MCPushCli ----------------------------
(***************************************************************************)
(* Model-checking instance of PushCli: tickslock and one other lock, and   *)
(* sections nested two deep, which is enough for an inner pushcli to run   *)
(* with interrupts already masked.                                         *)
(***************************************************************************)
EXTENDS PushCli

CONSTANTS tickslock, kmemlock

MC_Locks == {tickslock, kmemlock}
=============================================================================
