------------------------------ MODULE MCFocus ------------------------------
(* An instance of Focus for TLC. *)
EXTENDS Focus

MCDefaultHolder == "work"
\* None yet, or one that is not the default.
twoHolders == {Empty, "blade"}
============================================================================
