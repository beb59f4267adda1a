----------------------------- MODULE GraphCache -----------------------------
(***************************************************************************)
(* GraphStoreCache (src/graph/__init__.py): the LRU cache of open graph    *)
(* handles that the API's request threads share.  The cache-wide lock      *)
(* guards the map of entries and their pins; the condition of an entry     *)
(* guards its handle, its readers and its exclusive flag, and is held      *)
(* while a file is prepared.  What a thread does under a lock is one step, *)
(* but for preparing the file, and a wait is a guard.                      *)
(*                                                                         *)
(* An entry is an object: a thread goes on using the one it pinned,        *)
(* whatever the map says of the job meanwhile.                             *)
(***************************************************************************)
EXTENDS Naturals, FiniteSets

CONSTANTS
    Jobs,         \* keys of the cache
    Threads,      \* request threads of the API
    Entries,      \* identities of entry objects
    NoEntry, Nobody,
    MaxSize,      \* the cache's max_size
    MaxRequests   \* bound: leases and exclusive accesses asked for

ASSUME CacheAssumption ==
    /\ Jobs # {} /\ NoEntry \notin Entries /\ Nobody \notin Threads
    /\ MaxSize \in Nat /\ MaxRequests \in Nat

VARIABLES
    entryOf,   \* _entries: the entry of each job, or NoEntry
    used,      \* the order of _entries: the request that last asked for each job
    entry,     \* the entry objects
    thread,    \* where each request thread is, and the entry it pinned
    requests   \* requests so far

cacheVars == <<entryOf, used, entry, thread, requests>>

EntryState == [job : Jobs, open : BOOLEAN, readers : SUBSET Threads, exclusive : BOOLEAN,
               preparing : Threads \cup {Nobody}, pins : SUBSET Threads]

NewEntry(j, pins) == [job |-> j, open |-> FALSE, readers |-> {}, exclusive |-> FALSE,
                      preparing |-> Nobody, pins |-> pins]

ThreadState == [pc : {"idle", "wait", "prepare", "leased", "waitSole", "drain", "sole", "unpin"},
                entry : Entries \cup {NoEntry}]

At(t, pc) == thread[t].pc = pc
Mine(t) == entry[thread[t].entry]
Goto(t, pc) == thread' = [thread EXCEPT ![t].pc = pc]

-----------------------------------------------------------------------------
(* _pin: the job's entry, made when there is none, is the one used last.   *)
Unused == {e \in Entries : entry[e].pins = {} /\ \A j \in Jobs : entryOf[j] # e}

PinExisting(t, j) ==
    /\ entryOf[j] # NoEntry
    /\ entry' = [entry EXCEPT ![entryOf[j]].pins = @ \cup {t}]
    /\ UNCHANGED entryOf

PinNewAnyway(t, j) ==    \* a mutant of the next: the job has an entry, all the same
    /\ Unused # {}
    /\ LET e == CHOOSE e \in Unused : TRUE IN
          /\ entryOf' = [entryOf EXCEPT ![j] = e]
          /\ entry' = [entry EXCEPT ![e] = NewEntry(j, {t})]

PinNew(t, j) ==
    /\ entryOf[j] = NoEntry /\ Unused # {}
    /\ LET e == CHOOSE e \in Unused : TRUE IN
          /\ entryOf' = [entryOf EXCEPT ![j] = e]
          /\ entry' = [entry EXCEPT ![e] = NewEntry(j, {t})]

MoveToEnd(j) == used' = [used EXCEPT ![j] = requests + 1]

Pin(t, j, pc) ==
    /\ At(t, "idle") /\ requests < MaxRequests
    /\ PinExisting(t, j) \/ PinNew(t, j)
    /\ MoveToEnd(j)
    /\ thread' = [thread EXCEPT ![t] = [pc |-> pc, entry |-> entryOf'[j]]]
    /\ requests' = requests + 1

(* reader() and exclusive() begin.                                         *)
Reader(t, j) == Pin(t, j, "wait")
Exclusive(t, j) == Pin(t, j, "waitSole")

-----------------------------------------------------------------------------
(* The lease of an open handle; without one, the file is prepared under    *)
(* the condition, which nobody else gets meanwhile.                        *)
Unlocked(t) == Mine(t).preparing = Nobody

Lease(t) ==
    /\ At(t, "wait") /\ Unlocked(t) /\ ~Mine(t).exclusive
    /\ Mine(t).open
    /\ entry' = [entry EXCEPT ![thread[t].entry].readers = @ \cup {t}]
    /\ Goto(t, "leased")
    /\ UNCHANGED <<entryOf, used, requests>>

Prepare(t) ==
    /\ At(t, "wait") /\ Unlocked(t) /\ ~Mine(t).exclusive
    /\ ~Mine(t).open
    /\ entry' = [entry EXCEPT ![thread[t].entry].preparing = t]
    /\ Goto(t, "prepare")
    /\ UNCHANGED <<entryOf, used, requests>>

OpenPrepared(t) ==
    /\ At(t, "prepare")
    /\ entry' = [entry EXCEPT ![thread[t].entry].preparing = Nobody,
                              ![thread[t].entry].open = TRUE,
                              ![thread[t].entry].readers = @ \cup {t}]
    /\ Goto(t, "leased")
    /\ UNCHANGED <<entryOf, used, requests>>

PrepareRaises(t) ==
    /\ At(t, "prepare")
    /\ entry' = [entry EXCEPT ![thread[t].entry].preparing = Nobody]
    /\ Goto(t, "unpin")
    /\ UNCHANGED <<entryOf, used, requests>>

EndLease(t) ==
    /\ At(t, "leased") /\ Unlocked(t)
    /\ entry' = [entry EXCEPT ![thread[t].entry].readers = @ \ {t}]
    /\ Goto(t, "unpin")
    /\ UNCHANGED <<entryOf, used, requests>>

-----------------------------------------------------------------------------
(* exclusive(): the flag keeps new leases out while the old ones end.      *)
Claim(t) ==
    /\ At(t, "waitSole") /\ Unlocked(t) /\ ~Mine(t).exclusive
    /\ entry' = [entry EXCEPT ![thread[t].entry].exclusive = TRUE]
    /\ Goto(t, "drain")
    /\ UNCHANGED <<entryOf, used, requests>>

DrainedAtOnce(t) ==    \* a mutant of the next: the leases are not waited for
    /\ At(t, "drain") /\ Unlocked(t)
    /\ entry' = [entry EXCEPT ![thread[t].entry].open = FALSE]
    /\ Goto(t, "sole")
    /\ UNCHANGED <<entryOf, used, requests>>

Drained(t) ==
    /\ At(t, "drain") /\ Unlocked(t) /\ Mine(t).readers = {}
    /\ entry' = [entry EXCEPT ![thread[t].entry].open = FALSE]
    /\ Goto(t, "sole")
    /\ UNCHANGED <<entryOf, used, requests>>

EndExclusiveFlagged(t) ==    \* a mutant of the next: the flag stays
    /\ At(t, "sole") /\ Unlocked(t)
    /\ Goto(t, "unpin")
    /\ UNCHANGED <<entryOf, used, entry, requests>>

EndExclusive(t) ==
    /\ At(t, "sole") /\ Unlocked(t)
    /\ entry' = [entry EXCEPT ![thread[t].entry].exclusive = FALSE]
    /\ Goto(t, "unpin")
    /\ UNCHANGED <<entryOf, used, requests>>

-----------------------------------------------------------------------------
(* _unpin and _evict_idle_locked: with too many entries, those nobody has  *)
(* pinned go, the least recently used first.                               *)
Kept == {j \in Jobs : entryOf[j] # NoEntry}
OlderIn(S, j) == Cardinality({k \in S : used[k] < used[j]})

EvictedPinned(pinned) ==    \* a mutant of the next: pins are ignored
    {j \in Kept : OlderIn(Kept, j) + MaxSize < Cardinality(Kept)}
EvictedTooFew(pinned) ==    \* a mutant of the next: one too many stays
    LET idle == {j \in Kept : ~pinned[j]} IN
    {j \in idle : OlderIn(idle, j) + MaxSize + 1 < Cardinality(Kept)}
Evicted(pinned) ==
    LET idle == {j \in Kept : ~pinned[j]} IN
    {j \in idle : OlderIn(idle, j) + MaxSize < Cardinality(Kept)}

Unpin(t) ==
    /\ At(t, "unpin")
    /\ LET mine == thread[t].entry
           pinned == [j \in Jobs |-> entryOf[j] # NoEntry /\ entry[entryOf[j]].pins \ {t} # {}]
           gone == Evicted(pinned) IN
       /\ entry' = [e \in Entries |->
             [entry[e] EXCEPT !.pins = IF e = mine THEN @ \ {t} ELSE @,
                              !.open = @ /\ \A j \in gone : entryOf[j] # e]]
       /\ entryOf' = [j \in Jobs |-> IF j \in gone THEN NoEntry ELSE entryOf[j]]
       /\ used' = [j \in Jobs |-> IF j \in gone THEN 0 ELSE used[j]]
    /\ thread' = [thread EXCEPT ![t] = [pc |-> "idle", entry |-> NoEntry]]
    /\ UNCHANGED requests

-----------------------------------------------------------------------------
Init ==
    /\ entryOf = [j \in Jobs |-> NoEntry]
    /\ used = [j \in Jobs |-> 0]
    /\ entry = [e \in Entries |-> NewEntry(CHOOSE j \in Jobs : TRUE, {})]
    /\ thread = [t \in Threads |-> [pc |-> "idle", entry |-> NoEntry]]
    /\ requests = 0

GoOn(t) ==
    \/ Lease(t) \/ Prepare(t) \/ OpenPrepared(t) \/ PrepareRaises(t) \/ EndLease(t)
    \/ Claim(t) \/ Drained(t) \/ EndExclusive(t) \/ Unpin(t)

Next == \E t \in Threads : GoOn(t) \/ \E j \in Jobs : Reader(t, j) \/ Exclusive(t, j)

Spec == Init /\ [][Next]_cacheVars

(* Threads run, and what they do with a file ends: reads carry a timeout,  *)
(* a preparation returns or raises.                                        *)
FairSpec == Spec /\ \A t \in Threads : WF_cacheVars(GoOn(t))

-----------------------------------------------------------------------------
(* Types; a thread that is under way has pinned the entry it uses.         *)
CacheTypeOK ==
    /\ entryOf \in [Jobs -> Entries \cup {NoEntry}]
    /\ used \in [Jobs -> 0 .. MaxRequests]
    /\ entry \in [Entries -> EntryState]
    /\ thread \in [Threads -> ThreadState]
    /\ requests \in 0 .. MaxRequests
    /\ \A t \in Threads :
          IF At(t, "idle") THEN thread[t].entry = NoEntry ELSE t \in Mine(t).pins

JobOf(t) == Mine(t).job
Busy(t) == ~At(t, "idle")
HasFile(t) == At(t, "prepare") \/ At(t, "sole")

(* "A leased handle is never closed or switched while in use"              *)
(* (graph/__init__.py:48): whatever is evicted or asked for exclusively    *)
(* meanwhile, the handle a thread leases is open, and is the one the map   *)
(* gives out for its job.                                                  *)
LeasedHandleStands ==
    \A t \in Threads : At(t, "leased") => Mine(t).open /\ entryOf[JobOf(t)] = thread[t].entry

(* "sole access to the file" (graph/__init__.py:46): while a thread        *)
(* prepares or rebuilds a job's file nobody else does, nobody leases a     *)
(* handle on it, and no handle on it is open, in whatever entry.           *)
SoleAccess ==
    \A t \in Threads : HasFile(t) =>
       /\ \A u \in Threads \ {t} : HasFile(u) \/ At(u, "leased") => JobOf(u) # JobOf(t)
       /\ \A e \in Entries : entry[e].open => entry[e].job # JobOf(t)

(* "LadybugDB allows only one handle per database file per process": no    *)
(* two entries of one job are open, an evicted one included.               *)
OneHandlePerFile ==
    \A e, f \in Entries : entry[e].open /\ entry[f].open /\ e # f => entry[e].job # entry[f].job

(* The cache outgrows max_size only by entries in use.                     *)
CacheBounded == Cardinality(Kept) <= MaxSize + Cardinality({t \in Threads : Busy(t)})

(* Every lease and every exclusive access is granted and ends.             *)
RequestReturns == \A t \in Threads : Busy(t) ~> At(t, "idle")

(* The promise, for the refinement: the open handles, who leases them and  *)
(* who has a file to itself.                                               *)
OpenFiles == {j \in Jobs : \E e \in Entries : entry[e].job = j /\ entry[e].open}
Leased == [j \in Jobs |-> {t \in Threads : At(t, "leased") /\ JobOf(t) = j}]
Owns(t, j) == HasFile(t) /\ JobOf(t) = j
Owner == [j \in Jobs |-> IF \E t \in Threads : Owns(t, j)
                         THEN CHOOSE t \in Threads : Owns(t, j) ELSE Nobody]

Promise == INSTANCE GraphFileAccess WITH open <- OpenFiles, readers <- Leased, owner <- Owner

PromiseSpec == Promise!Spec
=============================================================================
