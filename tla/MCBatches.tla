------------------------------ MODULE MCBatches ------------------------------
(* Instances of Batches for TLC. *)
EXTENDS Batches

MCTargets == <<"rich">>
MCServers == <<"home", "small", "big">>
MCRam == [s \in Server |-> IF s = "home" THEN 20000 ELSE IF s = "big" THEN 70000 ELSE 2000]
MCStolen == [k \in 0 .. HackThreads |-> (k * 503) \div 100]
==============================================================================
