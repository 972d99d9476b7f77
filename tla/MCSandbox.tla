----------------------------- MODULE MCSandbox -----------------------------
(* Small instances of Sandbox for TLC.  A tick is 2.5 seconds: the child's  *)
(* five are two, the tool's ten are four.                                   *)
EXTENDS Sandbox, TLC

\* Every kind of report; codes that end at once, early, at the last moment and
\* too late.
MCPrograms ==
    [runs : {2, 3}, report : {"small"}]
        \cup {[runs |-> 0, report |-> "big"], [runs |-> 1, report |-> "none"],
              [runs |-> 0, report |-> "oversize"]}
=============================================================================
