-------------------------- MODULE GraphFileAccess --------------------------
(***************************************************************************)
(* What the cache of graph handles promises of the file of each job        *)
(* (src/graph/__init__.py, GraphStoreCache): the engine allows one handle  *)
(* per file and process, so a file is either read by any number of threads *)
(* through one open handle, or in the hands of one thread that may replace *)
(* it.  Which handles stay open is the cache's choice.                     *)
(***************************************************************************)
CONSTANTS Jobs, Threads, Nobody

VARIABLES
    open,     \* jobs whose file has an open handle
    readers,  \* of each job, the threads that lease the handle
    owner     \* of each job, the thread that has the file to itself

accessVars == <<open, readers, owner>>

Init ==
    /\ open = {}
    /\ readers = [j \in Jobs |-> {}]
    /\ owner = [j \in Jobs |-> Nobody]

(* The handle is open already.                                             *)
Lease(t, j) ==
    /\ j \in open /\ owner[j] = Nobody
    /\ readers' = [readers EXCEPT ![j] = @ \cup {t}]
    /\ UNCHANGED <<open, owner>>

Release(t, j) ==
    /\ t \in readers[j]
    /\ readers' = [readers EXCEPT ![j] = @ \ {t}]
    /\ UNCHANGED <<open, owner>>

(* To replace the file, or to write it before its first handle is opened.  *)
Seize(t, j) ==
    /\ owner[j] = Nobody /\ readers[j] = {}
    /\ owner' = [owner EXCEPT ![j] = t]
    /\ open' = open \ {j}
    /\ UNCHANGED readers

(* The file is given back, or opened and leased at once.                   *)
Yield(t, j) ==
    /\ owner[j] = t
    /\ owner' = [owner EXCEPT ![j] = Nobody]
    /\ UNCHANGED <<open, readers>>

OpenAndLease(t, j) ==
    /\ owner[j] = t
    /\ owner' = [owner EXCEPT ![j] = Nobody]
    /\ open' = open \cup {j}
    /\ readers' = [readers EXCEPT ![j] = @ \cup {t}]

(* Handles that nobody uses may be closed.                                 *)
Close ==
    /\ \E idle \in SUBSET {j \in open : readers[j] = {} /\ owner[j] = Nobody} :
          open' = open \ idle
    /\ UNCHANGED <<readers, owner>>

Next ==
    \/ \E t \in Threads, j \in Jobs :
          Lease(t, j) \/ Release(t, j) \/ Seize(t, j) \/ Yield(t, j) \/ OpenAndLease(t, j)
    \/ Close

Spec == Init /\ [][Next]_accessVars
=============================================================================
