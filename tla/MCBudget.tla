------------------------------ MODULE MCBudget ------------------------------
(* Small instances of Budget for TLC. *)
EXTENDS Budget, TLC

CONSTANT home

\* The default weights of src/src/controllers/budget.ts:22.
mcWeight == [b \in Bucket |-> CASE b = stocks -> 30 [] b = home -> 15 [] OTHER -> 5]

Msg(a, b, n) == [action |-> a, bucket |-> b, amount |-> n]
NoMarket == {[portfolio |-> 0, funds |-> 0, wseCost |-> 0, has4S |-> FALSE]}
\* The stocks daemon wants its next API, or has both and holds a portfolio.
Markets == {[portfolio |-> 0, funds |-> 0, wseCost |-> 6, has4S |-> FALSE],
            [portfolio |-> 9, funds |-> 0, wseCost |-> 0, has4S |-> TRUE]}
NoCommand == {}
AllowCommands == {Msg("report-next", home, 4), Msg("report-next", home, 9),
                  Msg("rush", home, 0), Msg("cancel-rush", home, 0),
                  Msg("rush", stocks, 0), Msg("update-weight", home, 100)}
AccessCommands == {Msg("report-cap", wseAccess, 3)}
    \cup {Msg(c, wseAccess, 0) : c \in {"freeze", "unfreeze", "reset-weights", "rush"}}
FreezeCommands == {Msg("freeze", home, 0), Msg("update-weight", home, 40)}
LiveCommands == {Msg("report-next", home, 4)}
Two == {stocks, wseAccess}
Three == {stocks, wseAccess, home}
Holders == {stocks}
OneDisabled == {wseAccess}
NoBuckets == {}
Prices == {1, 10}
OnePrice == {1}
NoPrice == {}
BigPrice == {10}
Start11 == {11}
Starts == {7, 19}
AfterInstall == {1}
NoInstall == {}
============================================================================
