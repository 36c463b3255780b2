----------------------------- MODULE MCEventLog -----------------------------
(***************************************************************************)
(* Two threads of the web server and one of a command line.                *)
(***************************************************************************)
EXTENDS EventLogRequirements

CONSTANTS w1, w2, w3, t1, t2

LOCAL INSTANCE TLC

MCWriters == {w1, w2, w3}
MCThreads == {t1, t2}
MCProcessOf == [w \in MCWriters |-> IF w = w3 THEN "command" ELSE "server"]
MCSymmetry == Permutations({w1, w2}) \cup Permutations(MCThreads)
=============================================================================
