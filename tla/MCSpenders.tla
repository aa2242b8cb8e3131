----------------------------- MODULE MCSpenders -----------------------------
(* An instance of Spenders for TLC: the dearest item costs half of MaxCash. *)
EXTENDS Spenders, TLC

CONSTANTS server1, level

mcBucket == {servers, home, programs, hacknet}
mcWeight == (servers :> 40) @@ (home :> 15) @@ (programs :> 5) @@ (hacknet :> 40)
mcServerSizes == <<8, 16>>
mcServerCost == <<1, 2>>
mcLimits == {1, 2}
mcHomeRamCost == <<2>>
mcHomeCoreCost == <<>>
mcProgramCost == <<1>>
mcUpgrade == {server1, level}
mcSwitched == {servers, home}
mcHacknetCost == (server1 :> 1) @@ (level :> 1)
============================================================================
