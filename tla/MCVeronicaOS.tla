---------------------------- MODULE MCVeronicaOS ----------------------------
(* VeronicaOS as one process with three chains and a local arbiter, or as   *)
(* two processes with a step each that share a budget in Redis.             *)
EXTENDS VeronicaOS

MCOneProc == [s \in Steps |-> 1]
MCTwoProcs == [s \in Steps |-> IF s = 2 THEN 2 ELSE 1]
MCOneChain == [s \in Steps |-> 1]
MCThreeChains == [s \in Steps |-> IF s < 4 THEN s ELSE 1]
MCOwnKeys == [s \in Steps |-> s]

=============================================================================
