---------------------------- MODULE MCContextGraph ----------------------------
(***************************************************************************)
(* ContextGraph with the threads and the runs interchangeable: nothing in  *)
(* the specification or in its safety properties tells two of them apart.  *)
(* And a state it reaches with one read and one run of the command line,   *)
(* to look from there for what takes many steps: the API has opened the    *)
(* graph of the first artifacts, a phase was run again on the same         *)
(* version, run_report.py has built its copy from the new ones, and what   *)
(* the API had kept expired.                                               *)
(***************************************************************************)
EXTENDS ContextGraph, TLC

Interchangeable == Permutations(Threads) \cup Permutations(CliProcs)

Of(n) == [version |-> 1, digest |-> n, read |-> {n}]

PrebuiltInit ==
    /\ inputs = [version |-> 1, digest |-> 2]
    /\ file = [api |-> Of(1), cli |-> Of(2)]
    /\ open = {Job} /\ readers = [j \in {Job} |-> {}] /\ owner = [j \in {Job} |-> Nobody]
    /\ known = Unknown /\ backoff = FALSE /\ refreshing = Nobody
    /\ shared = {} /\ exclusive = Nobody
    /\ proc = [p \in Procs |-> Idle]
    /\ count = [failures |-> 0, requests |-> 1, cliRuns |-> 1, stops |-> 0]

PrebuiltSpec == PrebuiltInit /\ [][Next]_graphVars
=============================================================================
