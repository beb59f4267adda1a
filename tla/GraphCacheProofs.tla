-------------------------- MODULE GraphCacheProofs --------------------------
(***************************************************************************)
(* Theorems about the cache of graph handles, for any jobs, threads,       *)
(* entries and size of the cache.  The invariant follows the entry objects *)
(* through the map: an entry that somebody has pinned, or whose handle is  *)
(* open, is the one the map gives out for its job, so that who excludes    *)
(* whom on an entry excludes them on the file.                             *)
(***************************************************************************)
EXTENDS GraphCache, FiniteSetTheorems, TLAPS

(* The identities the model is run with.                                   *)
Types ==
    /\ entryOf \in [Jobs -> Entries \cup {NoEntry}]
    /\ entry \in [Entries -> EntryState]
    /\ thread \in [Threads -> ThreadState]

(* A thread under way uses an entry, the one it has pinned.                *)
PinsHeld ==
    /\ \A t \in Threads : IF At(t, "idle") THEN thread[t].entry = NoEntry
                                           ELSE thread[t].entry \in Entries
    /\ \A e \in Entries, t \in Threads : t \in entry[e].pins <=> thread[t].entry = e

(* The map gives out entries of the job, all that are pinned and all that  *)
(* are open.                                                               *)
Mapped ==
    /\ \A j \in Jobs : entryOf[j] # NoEntry => entry[entryOf[j]].job = j
    /\ \A e \in Entries : entry[e].pins # {} => entryOf[entry[e].job] = e
    /\ \A e \in Entries : entry[e].open => entryOf[entry[e].job] = e

(* The readers of an entry are the threads that lease its handle, which is *)
(* open.                                                                   *)
Leases ==
    /\ \A e \in Entries, t \in Threads :
          t \in entry[e].readers <=> At(t, "leased") /\ thread[t].entry = e
    /\ \A t \in Threads : At(t, "leased") => Mine(t).open

(* One thread at a time has the exclusive flag, and has the file to itself *)
(* once the leases have ended.                                             *)
Claims(t) == At(t, "drain") \/ At(t, "sole")
Exclusives ==
    /\ \A t \in Threads : Claims(t) => Mine(t).exclusive
    /\ \A t, u \in Threads : Claims(t) /\ Claims(u) /\ thread[t].entry = thread[u].entry => t = u
    /\ \A t \in Threads : At(t, "sole") => ~Mine(t).open

(* A file is prepared under the condition of its entry, when no handle is  *)
(* open and nobody has the flag.                                           *)
Prepares ==
    \A t \in Threads : At(t, "prepare") =>
       Mine(t).preparing = t /\ ~Mine(t).open /\ ~Mine(t).exclusive

Inv == Types /\ PinsHeld /\ Mapped /\ Leases /\ Exclusives /\ Prepares

USE DEF At, Mine, Goto, Claims, Unlocked

LEMMA InitInv == Init => Inv
<1> SUFFICES ASSUME Init PROVE Inv
  OBVIOUS
<1> DEFINE k == CHOOSE j \in Jobs : TRUE
<1>1. k \in Jobs
  BY CacheAssumption
<1> HIDE DEF k
<1>2. /\ entryOf = [j \in Jobs |-> NoEntry]
      /\ entry = [e \in Entries |-> [job |-> k, open |-> FALSE, readers |-> {}, exclusive |-> FALSE,
                                      preparing |-> Nobody, pins |-> {}]]
      /\ thread = [t \in Threads |-> [pc |-> "idle", entry |-> NoEntry]]
  BY DEF Init, NewEntry, k
<1>3. Types
  BY <1>1, <1>2 DEF Types, EntryState, ThreadState
<1> QED BY <1>2, <1>3, CacheAssumption DEF Inv, PinsHeld, Mapped, Leases, Exclusives, Prepares

(* A thread that is not idle goes on with its entry.                       *)
LEMMA UsesEntry ==
  ASSUME Inv, NEW t \in Threads, ~At(t, "idle")
  PROVE  /\ thread[t].entry \in Entries /\ t \in Mine(t).pins
         /\ entryOf[Mine(t).job] = thread[t].entry /\ Mine(t).job \in Jobs
  BY DEF Inv, Types, PinsHeld, Mapped, EntryState

-----------------------------------------------------------------------------
LEMMA PinExistingInv ==
  ASSUME Inv, NEW t \in Threads, NEW j \in Jobs, NEW pc \in {"wait", "waitSole"},
         At(t, "idle"), PinExisting(t, j),
         thread' = [thread EXCEPT ![t] = [pc |-> pc, entry |-> entryOf'[j]]]
  PROVE  Inv'
<1> USE DEF Inv
<1> DEFINE e == entryOf[j]
<1>1. e \in Entries /\ entryOf' = entryOf /\ entry' = [entry EXCEPT ![e].pins = @ \cup {t}]
      /\ thread' = [thread EXCEPT ![t] = [pc |-> pc, entry |-> e]]
  BY DEF PinExisting, Types
<1>2. Types'
  BY <1>1 DEF Types, EntryState, ThreadState
<1>3. PinsHeld'
  BY <1>1, CacheAssumption DEF Types, EntryState, PinsHeld
<1>4. Mapped'
  <2>1. entry[e].job = j
    BY <1>1, CacheAssumption DEF Mapped, Types
  <2>2. \A f \in Entries : /\ entry'[f].job = entry[f].job /\ entry'[f].open = entry[f].open
                            /\ f # e => entry'[f] = entry[f]
    BY <1>1 DEF Types, EntryState
  <2> QED BY <1>1, <2>1, <2>2 DEF Mapped, Types
<1>5. Leases'
  BY <1>1 DEF Types, EntryState, Leases, PinsHeld
<1>6. Exclusives'
  BY <1>1 DEF Types, EntryState, Exclusives, PinsHeld
<1>7. Prepares'
  BY <1>1 DEF Types, EntryState, Prepares, PinsHeld
<1> QED BY <1>2, <1>3, <1>4, <1>5, <1>6, <1>7

LEMMA PinNewInv ==
  ASSUME Inv, NEW t \in Threads, NEW j \in Jobs, NEW pc \in {"wait", "waitSole"},
         At(t, "idle"), PinNew(t, j),
         thread' = [thread EXCEPT ![t] = [pc |-> pc, entry |-> entryOf'[j]]]
  PROVE  Inv'
<1> USE DEF Inv
<1> DEFINE e == CHOOSE e \in Unused : TRUE
<1>1. /\ e \in Entries /\ entry[e].pins = {} /\ \A k \in Jobs : entryOf[k] # e
      /\ entryOf[j] = NoEntry
      /\ entryOf' = [entryOf EXCEPT ![j] = e]
      /\ entry' = [entry EXCEPT ![e] = NewEntry(j, {t})]
      /\ thread' = [thread EXCEPT ![t] = [pc |-> pc, entry |-> e]]
  BY DEF PinNew, Unused, Types
<1> HIDE DEF e
<1> DEFINE n == [job |-> j, open |-> FALSE, readers |-> {}, exclusive |-> FALSE,
                preparing |-> Nobody, pins |-> {t}]
<1>2. /\ n \in EntryState /\ n.job = j /\ ~n.open /\ n.readers = {} /\ ~n.exclusive
      /\ n.preparing = Nobody /\ n.pins = {t}
      /\ entry' = [entry EXCEPT ![e] = n]
  BY <1>1 DEF EntryState, NewEntry
<1> HIDE DEF n
<1>3. Types'
  <2>1. entryOf' \in [Jobs -> Entries \cup {NoEntry}] /\ entry' \in [Entries -> EntryState]
    BY <1>1, <1>2 DEF Types
  <2>2. [pc |-> pc, entry |-> e] \in ThreadState
    BY <1>1 DEF ThreadState
  <2>3. thread' \in [Threads -> ThreadState]
    BY <1>1, <2>2 DEF Types
  <2> QED BY <2>1, <2>3 DEF Types
<1>4. \A u \in Threads : u # t => thread'[u] = thread[u] /\ thread[u].entry # e
  BY <1>1, CacheAssumption DEF Types, PinsHeld, ThreadState
<1>5. PinsHeld'
  BY <1>1, <1>2, <1>4, CacheAssumption DEF Types, EntryState, PinsHeld
<1>6. Mapped'
  <2>1. /\ entry'[e] = n /\ \A f \in Entries \ {e} : entry'[f] = entry[f]
        /\ entryOf'[j] = e /\ \A k \in Jobs \ {j} : entryOf'[k] = entryOf[k]
    BY <1>1, <1>2 DEF Types
  <2>2. \A f \in Entries \ {e} : entryOf[entry[f].job] = f => entryOf'[entry[f].job] = f
    BY <1>1, <2>1, CacheAssumption DEF Types, EntryState
  <2>3. ASSUME NEW k \in Jobs, entryOf'[k] # NoEntry PROVE entry'[entryOf'[k]].job = k
    BY <1>1, <1>2, <2>1, <2>3 DEF Mapped, Types
  <2>4. ASSUME NEW f \in Entries PROVE /\ entry'[f].pins # {} => entryOf'[entry'[f].job] = f
                                       /\ entry'[f].open => entryOf'[entry'[f].job] = f
    BY <1>2, <2>1, <2>2, <2>4 DEF Mapped
  <2> QED BY <2>3, <2>4 DEF Mapped
<1>7. Leases'
  BY <1>1, <1>2, <1>4 DEF Types, EntryState, Leases, PinsHeld
<1>8. Exclusives'
  BY <1>1, <1>2, <1>4 DEF Types, EntryState, Exclusives, PinsHeld
<1>9. Prepares'
  BY <1>1, <1>2, <1>4 DEF Types, EntryState, Prepares, PinsHeld
<1> QED BY <1>3, <1>5, <1>6, <1>7, <1>8, <1>9

LEMMA PinInv ==
  ASSUME Inv, NEW t \in Threads, NEW j \in Jobs, Reader(t, j) \/ Exclusive(t, j)
  PROVE  Inv'
<1>1. PICK pc \in {"wait", "waitSole"} : Pin(t, j, pc)
  BY DEF Reader, Exclusive
<1> QED BY <1>1, PinExistingInv, PinNewInv DEF Pin

-----------------------------------------------------------------------------
(* A step of a thread on its entry that leaves job and pins alone.         *)
LEMMA OnEntry ==
  ASSUME Inv, NEW t \in Threads, ~At(t, "idle"), NEW x \in EntryState, NEW pc,
         pc \in {"wait", "prepare", "leased", "waitSole", "drain", "sole", "unpin"},
         x.job = Mine(t).job, x.pins = Mine(t).pins,
         entryOf' = entryOf,
         entry' = [entry EXCEPT ![thread[t].entry] = x],
         thread' = [thread EXCEPT ![t].pc = pc]
  PROVE  /\ Types' /\ PinsHeld' /\ Mapped'
         /\ thread[t].entry \in Entries /\ entry'[thread[t].entry] = x
         /\ \A e \in Entries : e # thread[t].entry => entry'[e] = entry[e]
         /\ thread'[t].pc = pc
         /\ \A u \in Threads : thread'[u].entry = thread[u].entry
         /\ \A u \in Threads : u # t => thread'[u].pc = thread[u].pc
<1> USE DEF Inv
<1>1. thread[t].entry \in Entries /\ entryOf[Mine(t).job] = thread[t].entry
  BY UsesEntry
<1>2. Types'
  BY <1>1 DEF Types, ThreadState
<1>3. /\ entry'[thread[t].entry] = x
      /\ \A e \in Entries : e # thread[t].entry => entry'[e] = entry[e]
      /\ thread'[t].pc = pc
      /\ \A u \in Threads : thread'[u].entry = thread[u].entry
      /\ \A u \in Threads : u # t => thread'[u].pc = thread[u].pc
  BY <1>1 DEF Types, ThreadState
<1>4. PinsHeld'
  BY <1>1, <1>3 DEF PinsHeld
<1>5. Mapped'
  BY <1>1, <1>3 DEF Mapped, Types
<1> QED BY <1>1, <1>2, <1>3, <1>4, <1>5

LEMMA GoOnInv ==
  ASSUME Inv, NEW t \in Threads,
         Lease(t) \/ Prepare(t) \/ OpenPrepared(t) \/ PrepareRaises(t) \/ EndLease(t)
            \/ Claim(t) \/ Drained(t) \/ EndExclusive(t)
  PROVE  Inv'
<1> USE DEF Inv
<1> DEFINE m == entry[thread[t].entry]
<1>0. thread[t].entry \in Entries /\ m \in EntryState
  BY UsesEntry DEF Types, Lease, Prepare, OpenPrepared, PrepareRaises, EndLease, Claim, Drained, EndExclusive
<1>1. CASE Lease(t)
  <2> DEFINE x == [m EXCEPT !.readers = @ \cup {t}]
  <2>1. x \in EntryState /\ x.job = m.job /\ x.pins = m.pins
        /\ x.open = m.open /\ x.readers = m.readers \cup {t}
        /\ x.exclusive = m.exclusive /\ x.preparing = m.preparing
    BY <1>0 DEF EntryState
  <2>2. /\ entry' = [entry EXCEPT ![thread[t].entry] = x] /\ entryOf' = entryOf
        /\ thread' = [thread EXCEPT ![t].pc = "leased"]
        /\ thread[t].pc = "wait" /\ m.open /\ ~m.exclusive
    BY <1>1, <1>0 DEF Lease, Prepares
  <2> HIDE DEF x
  <2>3. /\ Types' /\ PinsHeld' /\ Mapped'
        /\ thread[t].entry \in Entries /\ entry'[thread[t].entry] = x
        /\ \A e \in Entries : e # thread[t].entry => entry'[e] = entry[e]
        /\ thread'[t].pc = "leased"
        /\ \A u \in Threads : thread'[u].entry = thread[u].entry
        /\ \A u \in Threads : u # t => thread'[u].pc = thread[u].pc
    BY <2>1, <2>2, OnEntry
  <2>4. Leases'
    <3>1. ASSUME NEW e \in Entries, NEW u \in Threads
          PROVE  u \in entry'[e].readers <=> thread'[u].pc = "leased" /\ thread'[u].entry = e
      BY <2>1, <2>2, <2>3 DEF Leases
    <3>2. ASSUME NEW u \in Threads, thread'[u].pc = "leased"
          PROVE  entry'[thread'[u].entry].open
      <4>1. CASE thread[u].entry = thread[t].entry
        BY <2>1, <2>2, <2>3, <3>2, <4>1
      <4>2. CASE thread[u].entry # thread[t].entry
        BY <2>1, <2>2, <2>3, <3>2, <4>2 DEF Leases, PinsHeld
      <4> QED BY <4>1, <4>2
    <3> QED BY <3>1, <3>2 DEF Leases
  <2>5. Exclusives'
    BY <2>1, <2>2, <2>3 DEF Exclusives, PinsHeld
  <2>6. Prepares'
    BY <2>1, <2>2, <2>3 DEF Prepares, PinsHeld
  <2> QED BY <2>3, <2>4, <2>5, <2>6
<1>2. CASE Prepare(t)
  <2> DEFINE x == [m EXCEPT !.preparing = t]
  <2>1. x \in EntryState /\ x.job = m.job /\ x.pins = m.pins
        /\ x.open = m.open /\ x.readers = m.readers
        /\ x.exclusive = m.exclusive /\ x.preparing = t
    BY <1>0 DEF EntryState
  <2>2. /\ entry' = [entry EXCEPT ![thread[t].entry] = x] /\ entryOf' = entryOf
        /\ thread' = [thread EXCEPT ![t].pc = "prepare"]
        /\ thread[t].pc = "wait" /\ m.preparing = Nobody /\ ~m.open /\ ~m.exclusive
    BY <1>2, <1>0 DEF Prepare, Prepares
  <2> HIDE DEF x
  <2>3. /\ Types' /\ PinsHeld' /\ Mapped'
        /\ thread[t].entry \in Entries /\ entry'[thread[t].entry] = x
        /\ \A e \in Entries : e # thread[t].entry => entry'[e] = entry[e]
        /\ thread'[t].pc = "prepare"
        /\ \A u \in Threads : thread'[u].entry = thread[u].entry
        /\ \A u \in Threads : u # t => thread'[u].pc = thread[u].pc
    BY <2>1, <2>2, OnEntry
  <2>4. Leases'
    <3>1. ASSUME NEW e \in Entries, NEW u \in Threads
          PROVE  u \in entry'[e].readers <=> thread'[u].pc = "leased" /\ thread'[u].entry = e
      BY <2>1, <2>2, <2>3 DEF Leases
    <3>2. ASSUME NEW u \in Threads, thread'[u].pc = "leased"
          PROVE  entry'[thread'[u].entry].open
      <4>1. CASE thread[u].entry = thread[t].entry
        BY <2>1, <2>2, <2>3, <3>2, <4>1 DEF Leases
      <4>2. CASE thread[u].entry # thread[t].entry
        BY <2>1, <2>2, <2>3, <3>2, <4>2 DEF Leases, PinsHeld
      <4> QED BY <4>1, <4>2
    <3> QED BY <3>1, <3>2 DEF Leases
  <2>5. Exclusives'
    BY <2>1, <2>2, <2>3 DEF Exclusives, PinsHeld
  <2>6. Prepares'
    BY <2>1, <2>2, <2>3, CacheAssumption DEF Prepares, PinsHeld
  <2> QED BY <2>3, <2>4, <2>5, <2>6
<1>3. CASE OpenPrepared(t)
  <2> DEFINE x == [m EXCEPT !.preparing = Nobody, !.open = TRUE, !.readers = @ \cup {t}]
  <2>1. x \in EntryState /\ x.job = m.job /\ x.pins = m.pins
        /\ x.open /\ x.readers = m.readers \cup {t}
        /\ x.exclusive = m.exclusive /\ x.preparing = Nobody
    BY <1>0 DEF EntryState
  <2>2. /\ entry' = [entry EXCEPT ![thread[t].entry] = x] /\ entryOf' = entryOf
        /\ thread' = [thread EXCEPT ![t].pc = "leased"]
        /\ thread[t].pc = "prepare" /\ ~m.open /\ ~m.exclusive
    BY <1>3, <1>0 DEF OpenPrepared, Prepares
  <2> HIDE DEF x
  <2>3. /\ Types' /\ PinsHeld' /\ Mapped'
        /\ thread[t].entry \in Entries /\ entry'[thread[t].entry] = x
        /\ \A e \in Entries : e # thread[t].entry => entry'[e] = entry[e]
        /\ thread'[t].pc = "leased"
        /\ \A u \in Threads : thread'[u].entry = thread[u].entry
        /\ \A u \in Threads : u # t => thread'[u].pc = thread[u].pc
    BY <2>1, <2>2, OnEntry
  <2>4. Leases'
    <3>1. ASSUME NEW e \in Entries, NEW u \in Threads
          PROVE  u \in entry'[e].readers <=> thread'[u].pc = "leased" /\ thread'[u].entry = e
      BY <2>1, <2>2, <2>3 DEF Leases
    <3>2. ASSUME NEW u \in Threads, thread'[u].pc = "leased"
          PROVE  entry'[thread'[u].entry].open
      <4>1. CASE thread[u].entry = thread[t].entry
        BY <2>1, <2>2, <2>3, <3>2, <4>1 DEF Leases
      <4>2. CASE thread[u].entry # thread[t].entry
        BY <2>1, <2>2, <2>3, <3>2, <4>2 DEF Leases, PinsHeld
      <4> QED BY <4>1, <4>2
    <3> QED BY <3>1, <3>2 DEF Leases
  <2>5. Exclusives'
    BY <2>1, <2>2, <2>3 DEF Exclusives, PinsHeld
  <2>6. Prepares'
    BY <2>1, <2>2, <2>3 DEF Prepares, PinsHeld
  <2> QED BY <2>3, <2>4, <2>5, <2>6
<1>4. CASE PrepareRaises(t)
  <2> DEFINE x == [m EXCEPT !.preparing = Nobody]
  <2>1. x \in EntryState /\ x.job = m.job /\ x.pins = m.pins
        /\ x.open = m.open /\ x.readers = m.readers
        /\ x.exclusive = m.exclusive /\ x.preparing = Nobody
    BY <1>0 DEF EntryState
  <2>2. /\ entry' = [entry EXCEPT ![thread[t].entry] = x] /\ entryOf' = entryOf
        /\ thread' = [thread EXCEPT ![t].pc = "unpin"]
        /\ thread[t].pc = "prepare" /\ ~m.open /\ ~m.exclusive
    BY <1>4, <1>0 DEF PrepareRaises, Prepares
  <2> HIDE DEF x
  <2>3. /\ Types' /\ PinsHeld' /\ Mapped'
        /\ thread[t].entry \in Entries /\ entry'[thread[t].entry] = x
        /\ \A e \in Entries : e # thread[t].entry => entry'[e] = entry[e]
        /\ thread'[t].pc = "unpin"
        /\ \A u \in Threads : thread'[u].entry = thread[u].entry
        /\ \A u \in Threads : u # t => thread'[u].pc = thread[u].pc
    BY <2>1, <2>2, OnEntry
  <2>4. Leases'
    <3>1. ASSUME NEW e \in Entries, NEW u \in Threads
          PROVE  u \in entry'[e].readers <=> thread'[u].pc = "leased" /\ thread'[u].entry = e
      BY <2>1, <2>2, <2>3 DEF Leases
    <3>2. ASSUME NEW u \in Threads, thread'[u].pc = "leased"
          PROVE  entry'[thread'[u].entry].open
      <4>1. CASE thread[u].entry = thread[t].entry
        BY <2>1, <2>2, <2>3, <3>2, <4>1 DEF Leases
      <4>2. CASE thread[u].entry # thread[t].entry
        BY <2>1, <2>2, <2>3, <3>2, <4>2 DEF Leases, PinsHeld
      <4> QED BY <4>1, <4>2
    <3> QED BY <3>1, <3>2 DEF Leases
  <2>5. Exclusives'
    BY <2>1, <2>2, <2>3 DEF Exclusives, PinsHeld
  <2>6. Prepares'
    BY <2>1, <2>2, <2>3 DEF Prepares, PinsHeld
  <2> QED BY <2>3, <2>4, <2>5, <2>6
<1>5. CASE EndLease(t)
  <2> DEFINE x == [m EXCEPT !.readers = @ \ {t}]
  <2>1. x \in EntryState /\ x.job = m.job /\ x.pins = m.pins
        /\ x.open = m.open /\ x.readers = m.readers \ {t}
        /\ x.exclusive = m.exclusive /\ x.preparing = m.preparing
    BY <1>0 DEF EntryState
  <2>2. /\ entry' = [entry EXCEPT ![thread[t].entry] = x] /\ entryOf' = entryOf
        /\ thread' = [thread EXCEPT ![t].pc = "unpin"]
        /\ thread[t].pc = "leased"
    BY <1>5, <1>0 DEF EndLease, Prepares
  <2> HIDE DEF x
  <2>3. /\ Types' /\ PinsHeld' /\ Mapped'
        /\ thread[t].entry \in Entries /\ entry'[thread[t].entry] = x
        /\ \A e \in Entries : e # thread[t].entry => entry'[e] = entry[e]
        /\ thread'[t].pc = "unpin"
        /\ \A u \in Threads : thread'[u].entry = thread[u].entry
        /\ \A u \in Threads : u # t => thread'[u].pc = thread[u].pc
    BY <2>1, <2>2, OnEntry
  <2>4. Leases'
    <3>1. ASSUME NEW e \in Entries, NEW u \in Threads
          PROVE  u \in entry'[e].readers <=> thread'[u].pc = "leased" /\ thread'[u].entry = e
      BY <2>1, <2>2, <2>3 DEF Leases
    <3>2. ASSUME NEW u \in Threads, thread'[u].pc = "leased"
          PROVE  entry'[thread'[u].entry].open
      <4>1. CASE thread[u].entry = thread[t].entry
        BY <2>1, <2>2, <2>3, <3>2, <4>1 DEF Leases
      <4>2. CASE thread[u].entry # thread[t].entry
        BY <2>1, <2>2, <2>3, <3>2, <4>2 DEF Leases, PinsHeld
      <4> QED BY <4>1, <4>2
    <3> QED BY <3>1, <3>2 DEF Leases
  <2>5. Exclusives'
    BY <2>1, <2>2, <2>3 DEF Exclusives, PinsHeld
  <2>6. Prepares'
    BY <2>1, <2>2, <2>3 DEF Prepares, PinsHeld
  <2> QED BY <2>3, <2>4, <2>5, <2>6
<1>6. CASE Claim(t)
  <2> DEFINE x == [m EXCEPT !.exclusive = TRUE]
  <2>1. x \in EntryState /\ x.job = m.job /\ x.pins = m.pins
        /\ x.open = m.open /\ x.readers = m.readers
        /\ x.exclusive /\ x.preparing = m.preparing
    BY <1>0 DEF EntryState
  <2>2. /\ entry' = [entry EXCEPT ![thread[t].entry] = x] /\ entryOf' = entryOf
        /\ thread' = [thread EXCEPT ![t].pc = "drain"]
        /\ thread[t].pc = "waitSole" /\ m.preparing = Nobody /\ ~m.exclusive
    BY <1>6, <1>0 DEF Claim, Prepares
  <2> HIDE DEF x
  <2>3. /\ Types' /\ PinsHeld' /\ Mapped'
        /\ thread[t].entry \in Entries /\ entry'[thread[t].entry] = x
        /\ \A e \in Entries : e # thread[t].entry => entry'[e] = entry[e]
        /\ thread'[t].pc = "drain"
        /\ \A u \in Threads : thread'[u].entry = thread[u].entry
        /\ \A u \in Threads : u # t => thread'[u].pc = thread[u].pc
    BY <2>1, <2>2, OnEntry
  <2>4. Leases'
    <3>1. ASSUME NEW e \in Entries, NEW u \in Threads
          PROVE  u \in entry'[e].readers <=> thread'[u].pc = "leased" /\ thread'[u].entry = e
      BY <2>1, <2>2, <2>3 DEF Leases
    <3>2. ASSUME NEW u \in Threads, thread'[u].pc = "leased"
          PROVE  entry'[thread'[u].entry].open
      <4>1. CASE thread[u].entry = thread[t].entry
        BY <2>1, <2>2, <2>3, <3>2, <4>1 DEF Leases
      <4>2. CASE thread[u].entry # thread[t].entry
        BY <2>1, <2>2, <2>3, <3>2, <4>2 DEF Leases, PinsHeld
      <4> QED BY <4>1, <4>2
    <3> QED BY <3>1, <3>2 DEF Leases
  <2>5. Exclusives'
    BY <2>1, <2>2, <2>3 DEF Exclusives, PinsHeld
  <2>6. Prepares'
    BY <2>1, <2>2, <2>3, CacheAssumption DEF Prepares, PinsHeld
  <2> QED BY <2>3, <2>4, <2>5, <2>6
<1>7. CASE Drained(t)
  <2> DEFINE x == [m EXCEPT !.open = FALSE]
  <2>1. x \in EntryState /\ x.job = m.job /\ x.pins = m.pins
        /\ ~x.open /\ x.readers = m.readers
        /\ x.exclusive = m.exclusive /\ x.preparing = m.preparing
    BY <1>0 DEF EntryState
  <2>2. /\ entry' = [entry EXCEPT ![thread[t].entry] = x] /\ entryOf' = entryOf
        /\ thread' = [thread EXCEPT ![t].pc = "sole"]
        /\ thread[t].pc = "drain" /\ m.readers = {}
    BY <1>7, <1>0 DEF Drained, Prepares
  <2> HIDE DEF x
  <2>3. /\ Types' /\ PinsHeld' /\ Mapped'
        /\ thread[t].entry \in Entries /\ entry'[thread[t].entry] = x
        /\ \A e \in Entries : e # thread[t].entry => entry'[e] = entry[e]
        /\ thread'[t].pc = "sole"
        /\ \A u \in Threads : thread'[u].entry = thread[u].entry
        /\ \A u \in Threads : u # t => thread'[u].pc = thread[u].pc
    BY <2>1, <2>2, OnEntry
  <2>4. Leases'
    <3>1. ASSUME NEW e \in Entries, NEW u \in Threads
          PROVE  u \in entry'[e].readers <=> thread'[u].pc = "leased" /\ thread'[u].entry = e
      BY <2>1, <2>2, <2>3 DEF Leases
    <3>2. ASSUME NEW u \in Threads, thread'[u].pc = "leased"
          PROVE  entry'[thread'[u].entry].open
      <4>1. CASE thread[u].entry = thread[t].entry
        BY <2>1, <2>2, <2>3, <3>2, <4>1 DEF Leases
      <4>2. CASE thread[u].entry # thread[t].entry
        BY <2>1, <2>2, <2>3, <3>2, <4>2 DEF Leases, PinsHeld
      <4> QED BY <4>1, <4>2
    <3> QED BY <3>1, <3>2 DEF Leases
  <2>5. Exclusives'
    BY <2>1, <2>2, <2>3 DEF Exclusives, PinsHeld
  <2>6. Prepares'
    BY <2>1, <2>2, <2>3 DEF Prepares, PinsHeld
  <2> QED BY <2>3, <2>4, <2>5, <2>6
<1>8. CASE EndExclusive(t)
  <2> DEFINE x == [m EXCEPT !.exclusive = FALSE]
  <2>1. x \in EntryState /\ x.job = m.job /\ x.pins = m.pins
        /\ x.open = m.open /\ x.readers = m.readers
        /\ ~x.exclusive /\ x.preparing = m.preparing
    BY <1>0 DEF EntryState
  <2>2. /\ entry' = [entry EXCEPT ![thread[t].entry] = x] /\ entryOf' = entryOf
        /\ thread' = [thread EXCEPT ![t].pc = "unpin"]
        /\ thread[t].pc = "sole"
    BY <1>8, <1>0 DEF EndExclusive, Prepares
  <2> HIDE DEF x
  <2>3. /\ Types' /\ PinsHeld' /\ Mapped'
        /\ thread[t].entry \in Entries /\ entry'[thread[t].entry] = x
        /\ \A e \in Entries : e # thread[t].entry => entry'[e] = entry[e]
        /\ thread'[t].pc = "unpin"
        /\ \A u \in Threads : thread'[u].entry = thread[u].entry
        /\ \A u \in Threads : u # t => thread'[u].pc = thread[u].pc
    BY <2>1, <2>2, OnEntry
  <2>4. Leases'
    <3>1. ASSUME NEW e \in Entries, NEW u \in Threads
          PROVE  u \in entry'[e].readers <=> thread'[u].pc = "leased" /\ thread'[u].entry = e
      BY <2>1, <2>2, <2>3 DEF Leases
    <3>2. ASSUME NEW u \in Threads, thread'[u].pc = "leased"
          PROVE  entry'[thread'[u].entry].open
      <4>1. CASE thread[u].entry = thread[t].entry
        BY <2>1, <2>2, <2>3, <3>2, <4>1 DEF Leases
      <4>2. CASE thread[u].entry # thread[t].entry
        BY <2>1, <2>2, <2>3, <3>2, <4>2 DEF Leases, PinsHeld
      <4> QED BY <4>1, <4>2
    <3> QED BY <3>1, <3>2 DEF Leases
  <2>5. Exclusives'
    BY <2>1, <2>2, <2>3 DEF Exclusives, PinsHeld
  <2>6. Prepares'
    BY <2>1, <2>2, <2>3 DEF Prepares, PinsHeld
  <2> QED BY <2>3, <2>4, <2>5, <2>6
<1> QED BY <1>1, <1>2, <1>3, <1>4, <1>5, <1>6, <1>7, <1>8

-----------------------------------------------------------------------------
(* What is evicted nobody has pinned.                                      *)
LEMMA UnpinInv ==
  ASSUME Inv, NEW t \in Threads, Unpin(t)
  PROVE  Inv'
<1> DEFINE mine == thread[t].entry
           pinned == [j \in Jobs |-> entryOf[j] # NoEntry /\ entry[entryOf[j]].pins \ {t} # {}]
           gone == Evicted(pinned)
           kept(e) == \A j \in gone : entryOf[j] # e
<1>1. /\ mine \in Entries /\ thread[t].pc = "unpin"
      /\ thread' = [thread EXCEPT ![t] = [pc |-> "idle", entry |-> NoEntry]]
      /\ entryOf' = [j \in Jobs |-> IF j \in gone THEN NoEntry ELSE entryOf[j]]
      /\ entry' = [e \in Entries |->
             [entry[e] EXCEPT !.pins = IF e = mine THEN @ \ {t} ELSE @,
                              !.open = @ /\ kept(e)]]
  BY UsesEntry DEF Unpin
<1>2. \A j \in gone : j \in Jobs /\ entryOf[j] # NoEntry /\ entry[entryOf[j]].pins \ {t} = {}
  BY DEF Evicted, Kept
<1> HIDE DEF gone
<1>3. \A e \in Entries : entry[e].pins \ {t} # {} => kept(e)
  BY <1>2
<1>4. \A e \in Entries : kept(e) \in BOOLEAN
  OBVIOUS
<1>5. \A e \in Entries : kept(e) /\ entryOf[entry[e].job] = e => entry[e].job \notin gone
  OBVIOUS
<1> HIDE DEF kept
<1>6. \A e \in Entries :
         /\ entry'[e] \in EntryState
         /\ entry'[e].job = entry[e].job /\ entry'[e].readers = entry[e].readers
         /\ entry'[e].exclusive = entry[e].exclusive /\ entry'[e].preparing = entry[e].preparing
  BY <1>1, <1>4 DEF Inv, Types, EntryState
<1>6o. \A e \in Entries : entry'[e].open <=> entry[e].open /\ kept(e)
  BY <1>1, <1>4 DEF Inv, Types, EntryState
<1>6p. \A e \in Entries : entry'[e].pins = entry[e].pins \ {t}
  <2> TAKE e \in Entries
  <2>1. e # mine => t \notin entry[e].pins
    BY DEF Inv, PinsHeld
  <2>2. e = mine => entry'[e].pins = entry[e].pins \ {t}
    BY <1>1 DEF Inv, Types, EntryState
  <2>3. e # mine => entry'[e].pins = entry[e].pins
    BY <1>1 DEF Inv, Types, EntryState
  <2> QED BY <2>1, <2>2, <2>3
<1>7. /\ \A u \in Threads : u # t => thread'[u] = thread[u]
      /\ thread'[t].pc = "idle" /\ thread'[t].entry = NoEntry /\ thread' \in [Threads -> ThreadState]
  BY <1>1 DEF Inv, Types, ThreadState
<1>7a. \A e \in Entries : entry'[e].pins # {} \/ entry'[e].open => kept(e)
  BY <1>3, <1>6o, <1>6p
<1> HIDE DEF mine
<1>8. Types'
  BY <1>1, <1>6, <1>7 DEF Inv, Types
<1>9. \A u \in Threads : u # t /\ ~At(u, "idle") =>
         thread[u].entry \in Entries /\ kept(thread[u].entry)
  BY <1>3 DEF Inv, PinsHeld
<1>10. PinsHeld'
  BY <1>6p, <1>7, <1>9, CacheAssumption DEF Inv, PinsHeld
<1>11. Mapped'
  <2>1. ASSUME NEW j \in Jobs, entryOf'[j] # NoEntry PROVE entry'[entryOf'[j]].job = j
    <3>1. entryOf'[j] = entryOf[j] /\ entryOf[j] \in Entries
      BY <1>1, <2>1 DEF Inv, Types
    <3> QED BY <1>6, <2>1, <3>1 DEF Inv, Mapped
  <2>2. ASSUME NEW e \in Entries, entry'[e].pins # {} \/ entry'[e].open
        PROVE  entryOf'[entry'[e].job] = e
    <3>1. entryOf[entry[e].job] = e /\ entry[e].job \in Jobs
      BY <1>6, <1>6o, <1>6p, <2>2 DEF Inv, Mapped, Types, EntryState
    <3>2. kept(e)
      BY <1>7a, <2>2
    <3> QED BY <1>1, <1>5, <1>6, <3>1, <3>2
  <2> QED BY <2>1, <2>2 DEF Mapped
<1>12. Leases'
  <2>1. ASSUME NEW e \in Entries, NEW u \in Threads
        PROVE  u \in entry'[e].readers <=> thread'[u].pc = "leased" /\ thread'[u].entry = e
    <3>1. CASE u = t
      BY <1>1, <1>6, <1>7, <3>1 DEF Inv, Leases
    <3>2. CASE u # t
      BY <1>6, <1>7, <3>2 DEF Inv, Leases
    <3> QED BY <3>1, <3>2
  <2>2. ASSUME NEW u \in Threads, thread'[u].pc = "leased" PROVE entry'[thread'[u].entry].open
    BY <1>6o, <1>7, <1>9, <2>2 DEF Inv, Leases
  <2> QED BY <2>1, <2>2 DEF Leases
<1>13. Exclusives'
  BY <1>6, <1>6o, <1>7, <1>9 DEF Inv, Exclusives
<1>14. Prepares'
  BY <1>6, <1>6o, <1>7, <1>9 DEF Inv, Prepares
<1> QED BY <1>8, <1>10, <1>11, <1>12, <1>13, <1>14 DEF Inv

LEMMA NextInv == Inv /\ [Next]_cacheVars => Inv'
<1> SUFFICES ASSUME Inv, [Next]_cacheVars PROVE Inv'
  OBVIOUS
<1>1. CASE UNCHANGED cacheVars
  BY <1>1 DEF cacheVars, Inv, Types, PinsHeld, Mapped, Leases, Exclusives, Prepares
<1>2. ASSUME NEW t \in Threads, NEW j \in Jobs, Reader(t, j) \/ Exclusive(t, j) PROVE Inv'
  BY <1>2, PinInv
<1>3. ASSUME NEW t \in Threads, GoOn(t) PROVE Inv'
  BY <1>3, GoOnInv, UnpinInv DEF GoOn
<1> QED BY <1>1, <1>2, <1>3 DEF Next

(* Whatever is pinned, evicted, prepared or claimed, and in which order,   *)
(* the invariant holds, and with it the three properties of the cache that *)
(* keep the engine's rule of one handle per file.                          *)
THEOREM CacheInvariant == Spec => []Inv
  BY InitInv, NextInv, PTL DEF Spec

(* "A leased handle is never closed or switched while in use".             *)
THEOREM LeasesStand == Spec => []LeasedHandleStands
<1>1. Inv => LeasedHandleStands
  BY UsesEntry DEF LeasedHandleStands, JobOf, Inv, Leases
<1> QED BY <1>1, CacheInvariant, PTL

LEMMA Sole == Inv => SoleAccess
<1> SUFFICES ASSUME Inv, NEW t \in Threads, HasFile(t)
             PROVE  /\ \A u \in Threads \ {t} : HasFile(u) \/ At(u, "leased") => JobOf(u) # JobOf(t)
                    /\ \A e \in Entries : entry[e].open => entry[e].job # JobOf(t)
  BY DEF SoleAccess
<1>1. thread[t].entry \in Entries /\ entryOf[JobOf(t)] = thread[t].entry /\ ~Mine(t).open
  BY UsesEntry DEF HasFile, JobOf, Inv, Exclusives, Prepares
<1>2. ASSUME NEW u \in Threads \ {t}, HasFile(u) \/ At(u, "leased"), JobOf(u) = JobOf(t) PROVE FALSE
  <2>1. thread[u].entry = thread[t].entry
    BY <1>1, <1>2, UsesEntry DEF HasFile, JobOf
  <2>2. CASE At(u, "leased")
    BY <1>1, <2>1, <2>2 DEF Inv, Leases
  <2>3. CASE HasFile(u)
    BY <2>1, <2>3, CacheAssumption DEF HasFile, Inv, Exclusives, Prepares
  <2> QED BY <1>2, <2>2, <2>3
<1>3. ASSUME NEW e \in Entries, entry[e].open, entry[e].job = JobOf(t) PROVE FALSE
  BY <1>1, <1>3 DEF Inv, Mapped
<1> QED BY <1>2, <1>3

(* While a thread prepares or rebuilds a file nobody else has it or leases *)
(* it, and no handle on it is open.                                        *)
THEOREM FileToOneself == Spec => []SoleAccess
  BY Sole, CacheInvariant, PTL

(* Two entries of one job are never open at once.                          *)
THEOREM OneHandle == Spec => []OneHandlePerFile
<1>1. Inv => OneHandlePerFile
  BY DEF Inv, Mapped, OneHandlePerFile
<1> QED BY <1>1, CacheInvariant, PTL

-----------------------------------------------------------------------------
(* The size of the cache.  The types it takes, the kept jobs and the busy  *)
(* threads being finitely many, and the bound itself, which is inductive.  *)
Occupied == {t \in Threads : Busy(t)}
Sized ==
    /\ used \in [Jobs -> 0 .. MaxRequests] /\ requests \in 0 .. MaxRequests
    /\ IsFiniteSet(Kept) /\ IsFiniteSet(Occupied)
    /\ CacheBounded

LEMMA Least ==
  ASSUME NEW S \in SUBSET Nat, S # {}
  PROVE  \E m \in S : \A k \in S : m <= k
<1> DEFINE R == {ss \in Nat \X Nat : ss[1] < ss[2]}
<1>1. IsWellFoundedOn(R, Nat)
  BY NatLessThanWellFounded DEF OpToRel
<1>2. \A k, m \in Nat : k < m => <<k, m>> \in R
  OBVIOUS
<1> HIDE DEF R
<1>3. \E m \in S : \A k \in S : ~(<<k, m>> \in R)
  BY <1>1, WFMin, Zenon
<1>4. PICK m \in S : \A k \in S : ~(<<k, m>> \in R)
  BY <1>3
<1>5. ASSUME NEW k \in S PROVE m <= k
  <2>1. ~(k < m)
    BY <1>2, <1>4
  <2> QED BY <2>1
<1> QED BY <1>5

LEMMA InitSized == Init => Sized
<1> SUFFICES ASSUME Init PROVE Sized
  OBVIOUS
<1>1. Kept = {} /\ Occupied = {}
  BY DEF Init, Kept, Occupied, Busy
<1>2. Cardinality(Kept) = 0 /\ Cardinality(Occupied) = 0 /\ IsFiniteSet(Kept) /\ IsFiniteSet(Occupied)
  BY <1>1, FS_EmptySet
<1>3. CacheBounded
  BY <1>2, CacheAssumption DEF CacheBounded, Occupied
<1> QED BY <1>2, <1>3, CacheAssumption DEF Init, Sized

(* A request adds at most an entry, and its thread is one more at work.    *)
LEMMA PinSized ==
  ASSUME Inv, Sized, NEW t \in Threads, NEW j \in Jobs, Reader(t, j) \/ Exclusive(t, j)
  PROVE  Sized'
<1>1. PICK pc \in {"wait", "waitSole"} : Pin(t, j, pc)
  BY DEF Reader, Exclusive
<1>2. /\ thread[t].pc = "idle" /\ requests < MaxRequests
      /\ used' = [used EXCEPT ![j] = requests + 1] /\ requests' = requests + 1
      /\ thread' = [thread EXCEPT ![t] = [pc |-> pc, entry |-> entryOf'[j]]]
      /\ \A k \in Jobs : k # j => entryOf'[k] = entryOf[k]
  BY <1>1 DEF Pin, MoveToEnd, PinExisting, PinNew, Inv, Types
<1>3. Kept' \in SUBSET (Kept \cup {j})
  BY <1>2 DEF Kept
<1>4. t \notin Occupied /\ Occupied' = Occupied \cup {t}
  BY <1>2 DEF Occupied, Busy, Inv, Types
<1>5. /\ IsFiniteSet(Kept') /\ Cardinality(Kept') \in Nat /\ Cardinality(Kept) \in Nat
      /\ Cardinality(Kept') <= Cardinality(Kept) + 1
  <2>0. IsFiniteSet(Kept) /\ Cardinality(Kept) \in Nat
    BY FS_CardinalityType DEF Sized
  <2>1. /\ IsFiniteSet(Kept \cup {j})
        /\ Cardinality(Kept \cup {j}) <= Cardinality(Kept) + 1
    BY <2>0, FS_AddElement
  <2>2. IsFiniteSet(Kept') /\ Cardinality(Kept') <= Cardinality(Kept \cup {j})
    BY <2>1, <1>3, FS_Subset
  <2>3. Cardinality(Kept') \in Nat /\ Cardinality(Kept \cup {j}) \in Nat
    BY <2>1, <2>2, FS_CardinalityType
  <2> QED BY <2>0, <2>1, <2>2, <2>3
<1>6. /\ IsFiniteSet(Occupied') /\ Cardinality(Occupied) \in Nat
      /\ Cardinality(Occupied') = Cardinality(Occupied) + 1
  BY <1>4, FS_AddElement, FS_CardinalityType DEF Sized
<1>7. CacheBounded'
  BY <1>5, <1>6, CacheAssumption DEF Sized, CacheBounded, Occupied
<1>8. used' \in [Jobs -> 0 .. MaxRequests] /\ requests' \in 0 .. MaxRequests
  BY <1>2, CacheAssumption DEF Sized
<1> QED BY <1>5, <1>6, <1>7, <1>8 DEF Sized

LEMMA StaySized ==
  ASSUME Inv, Sized, NEW t \in Threads,
         Lease(t) \/ Prepare(t) \/ OpenPrepared(t) \/ PrepareRaises(t) \/ EndLease(t)
            \/ Claim(t) \/ Drained(t) \/ EndExclusive(t)
  PROVE  Sized'
<1>1. UNCHANGED <<entryOf, used, requests>>
  BY DEF Lease, Prepare, OpenPrepared, PrepareRaises, EndLease, Claim, Drained, EndExclusive
<1>2. PICK pc \in {"prepare", "leased", "drain", "sole", "unpin"} :
         thread' = [thread EXCEPT ![t].pc = pc] /\ thread[t].pc # "idle"
  BY DEF Lease, Prepare, OpenPrepared, PrepareRaises, EndLease, Claim, Drained, EndExclusive
<1>3. Occupied' = Occupied
  BY <1>2 DEF Occupied, Busy, Inv, Types, ThreadState
<1>4. Kept' = Kept
  BY <1>1 DEF Kept
<1> QED BY <1>1, <1>3, <1>4 DEF Sized, CacheBounded, Occupied

(* Entries that others have pinned are no more than those others.          *)
LEMMA PinnedFew ==
  ASSUME Inv, NEW t \in Threads, NEW P \in SUBSET Kept, NEW B,
         IsFiniteSet(B), B = Occupied \ {t},
         \A j \in P : entry[entryOf[j]].pins \ {t} # {}
  PROVE  IsFiniteSet(P) /\ Cardinality(P) <= Cardinality(B)
<1> DEFINE f == [j \in P |-> CHOOSE u \in entry[entryOf[j]].pins : u # t]
<1>1. \A j \in P : j \in Jobs /\ entryOf[j] \in Entries /\ entry[entryOf[j]].job = j
  BY DEF Kept, Inv, Types, Mapped
<1>2. ASSUME NEW j \in P PROVE f[j] \in entry[entryOf[j]].pins /\ f[j] # t
  OBVIOUS
<1>3. ASSUME NEW j \in P PROVE f[j] \in B /\ thread[f[j]].entry = entryOf[j]
  <2>1. f[j] \in Threads
    BY <1>1, <1>2 DEF Inv, Types, EntryState
  <2>2. thread[f[j]].entry = entryOf[j] /\ thread[f[j]].entry # NoEntry
    BY <2>1, <1>1, <1>2, CacheAssumption DEF Inv, PinsHeld
  <2> QED BY <2>1, <2>2, <1>2 DEF Occupied, Busy, Inv, PinsHeld
<1>4. ASSUME NEW j \in P, NEW k \in P, f[j] = f[k] PROVE j = k
  BY <1>1, <1>3, <1>4
<1>5. f \in Injection(P, B)
  BY <1>3, <1>4 DEF Injection, IsInjective
<1> QED BY <1>5, FS_Injection, Zenon

(* The jobs that an eviction lets go.  If it leaves one that nobody has    *)
(* pinned, those before it, which are gone, were all that were too many.   *)
LEMMA EvictedEnough ==
  ASSUME Inv, Sized, NEW pinned \in [Jobs -> BOOLEAN]
  PROVE  LET gone == Evicted(pinned) IN
            \/ \A j \in Kept \ gone : pinned[j]
            \/ Cardinality(Kept \ gone) <= MaxSize
<1> DEFINE gone == Evicted(pinned)
           idle == {j \in Kept : ~pinned[j]}
           n == Cardinality(Kept)
<1>1. /\ gone \in SUBSET idle /\ idle \in SUBSET Kept
      /\ \A j \in idle : j \notin gone => ~(OlderIn(idle, j) + MaxSize < n)
  BY DEF Evicted
<1> HIDE DEF gone
<1>2. /\ IsFiniteSet(gone) /\ n \in Nat
      /\ Cardinality(gone) \in Nat /\ Cardinality(Kept \ gone) = n - Cardinality(gone)
  <2>1. gone \in SUBSET Kept /\ Kept \cap gone = gone
    BY <1>1
  <2>2. IsFiniteSet(gone)
    BY <2>1, FS_Subset DEF Sized
  <2>3. Cardinality(Kept \ gone) = n - Cardinality(Kept \cap gone)
    BY FS_Difference DEF Sized
  <2> QED BY <2>1, <2>2, <2>3, FS_CardinalityType DEF Sized
<1>3. ASSUME NEW k \in Kept \ gone, ~pinned[k] PROVE Cardinality(Kept \ gone) <= MaxSize
  <2> DEFINE times == {used[i] : i \in idle \ gone}
  <2>1. \A i \in Jobs : used[i] \in Nat
    BY CacheAssumption DEF Sized
  <2>2. times \in SUBSET Nat /\ times # {}
    BY <2>1, <1>3, <1>1 DEF Kept
  <2>3. PICK m \in times : \A i \in times : m <= i
    BY <2>2, Least
  <2>4. PICK j \in idle \ gone : \A i \in idle \ gone : used[j] <= used[i]
    BY <2>3
  <2> DEFINE older == {i \in idle : used[i] < used[j]}
  <2>5. older \in SUBSET gone
    BY <2>1, <2>4 DEF Kept
  <2>6. Cardinality(older) <= Cardinality(gone) /\ Cardinality(older) \in Nat
    BY <2>5, <1>2, FS_Subset, FS_CardinalityType
  <2>7. ~(Cardinality(older) + MaxSize < n)
    BY <1>1, <2>4 DEF OlderIn
  <2> QED BY <2>6, <2>7, <1>2, CacheAssumption
<1> QED BY <1>3 DEF gone

(* A thread that is done leaves one less at work; if the entries were too  *)
(* many, those that stay are pinned by the others, or few enough.          *)
LEMMA UnpinSized ==
  ASSUME Inv, Sized, NEW t \in Threads, Unpin(t)
  PROVE  Sized'
<1> DEFINE pinned == [j \in Jobs |-> entryOf[j] # NoEntry /\ entry[entryOf[j]].pins \ {t} # {}]
           gone == Evicted(pinned)
<1>1. /\ thread[t].pc = "unpin" /\ requests' = requests
      /\ thread' = [thread EXCEPT ![t] = [pc |-> "idle", entry |-> NoEntry]]
      /\ entryOf' = [j \in Jobs |-> IF j \in gone THEN NoEntry ELSE entryOf[j]]
      /\ used' = [j \in Jobs |-> IF j \in gone THEN 0 ELSE used[j]]
  BY DEF Unpin
<1>2. pinned \in [Jobs -> BOOLEAN] /\ \A j \in Jobs : pinned[j] => entry[entryOf[j]].pins \ {t} # {}
  OBVIOUS
<1>3. \/ \A j \in Kept \ gone : pinned[j]
      \/ Cardinality(Kept \ gone) <= MaxSize
  BY <1>2, EvictedEnough
<1> HIDE DEF pinned, gone
<1>4. Kept' = Kept \ gone
  BY <1>1 DEF Kept
<1>5. Occupied' = Occupied \ {t}
  BY <1>1 DEF Occupied, Busy, Inv, Types
<1>6. /\ IsFiniteSet(Occupied') /\ Cardinality(Occupied') \in Nat
  BY <1>5, FS_Difference, FS_CardinalityType DEF Sized
<1>7. /\ IsFiniteSet(Kept') /\ Cardinality(Kept') \in Nat
  BY <1>4, FS_Difference, FS_CardinalityType DEF Sized
<1>8. CacheBounded'
  <2>1. CASE \A j \in Kept \ gone : pinned[j]
    <3>1. Cardinality(Kept \ gone) <= Cardinality(Occupied \ {t})
      BY <2>1, <1>2, <1>5, <1>6, PinnedFew DEF Kept
    <3>2. Cardinality(Kept') <= Cardinality(Occupied')
      BY <3>1, <1>4, <1>5
    <3> QED BY <3>2, <1>6, <1>7, CacheAssumption DEF CacheBounded, Occupied
  <2>2. CASE Cardinality(Kept \ gone) <= MaxSize
    BY <2>2, <1>4, <1>6, <1>7, CacheAssumption DEF CacheBounded, Occupied
  <2> QED BY <1>3, <2>1, <2>2
<1>9. used' \in [Jobs -> 0 .. MaxRequests] /\ requests' \in 0 .. MaxRequests
  BY <1>1, CacheAssumption DEF Sized
<1> QED BY <1>6, <1>7, <1>8, <1>9 DEF Sized

LEMMA NextSized == Inv /\ Sized /\ [Next]_cacheVars => Sized'
<1> SUFFICES ASSUME Inv, Sized, [Next]_cacheVars PROVE Sized'
  OBVIOUS
<1>1. CASE UNCHANGED cacheVars
  BY <1>1 DEF cacheVars, Sized, Kept, Occupied, Busy, CacheBounded
<1>2. ASSUME NEW t \in Threads, NEW j \in Jobs, Reader(t, j) \/ Exclusive(t, j) PROVE Sized'
  BY <1>2, PinSized
<1>3. ASSUME NEW t \in Threads, GoOn(t) PROVE Sized'
  BY <1>3, StaySized, UnpinSized DEF GoOn
<1> QED BY <1>1, <1>2, <1>3 DEF Next

LEMMA SizedInvariant == Spec => []Sized
  BY InitSized, NextSized, CacheInvariant, PTL DEF Spec

(* The types of the cache, a thread under way having pinned its entry.     *)
THEOREM CacheTypes == Spec => []CacheTypeOK
<1>1. Inv /\ Sized => CacheTypeOK
  BY UsesEntry DEF Inv, Types, PinsHeld, Sized, CacheTypeOK
<1> QED BY <1>1, CacheInvariant, SizedInvariant, PTL

(* However requests and evictions interleave, the cache holds no more than *)
(* max_size entries besides those that threads at work may have pinned.    *)
THEOREM CacheStaysBounded == Spec => []CacheBounded
<1>1. Sized => CacheBounded
  BY DEF Sized
<1> QED BY <1>1, SizedInvariant, PTL

-----------------------------------------------------------------------------
(* The cache keeps the promise of GraphFileAccess.  What a step does to    *)
(* the handles, the leases and the owners of files, as the promise sees    *)
(* them, job by job.                                                       *)
Viewed ==
    /\ \A j \in Jobs : j \in OpenFiles <=> \E e \in Entries : entry[e].job = j /\ entry[e].open
    /\ \A j \in Jobs, t \in Threads : t \in Leased[j] <=> At(t, "leased") /\ JobOf(t) = j
    /\ \A j \in Jobs, t \in Threads : Owner[j] = t <=> Owns(t, j)
    /\ \A j \in Jobs : Owner[j] = Nobody <=> \A t \in Threads : ~Owns(t, j)
    /\ OpenFiles \subseteq Jobs /\ Leased \in [Jobs -> SUBSET Threads]
    /\ Owner \in [Jobs -> Threads \cup {Nobody}]

LEMMA Views == Inv => Viewed
<1> SUFFICES ASSUME Inv PROVE Viewed
  OBVIOUS
<1>1. \A t, u \in Threads, j \in Jobs : Owns(t, j) /\ Owns(u, j) => t = u
  BY Sole DEF SoleAccess, Owns
<1>2. ASSUME NEW j \in Jobs
      PROVE  \/ Owner[j] = Nobody /\ \A t \in Threads : ~Owns(t, j)
             \/ Owner[j] \in Threads /\ Owns(Owner[j], j)
  BY DEF Owner
<1>3. \A j \in Jobs, t \in Threads : Owner[j] = t <=> Owns(t, j)
  BY <1>1, <1>2, CacheAssumption
<1>4. \A j \in Jobs : Owner[j] = Nobody <=> \A t \in Threads : ~Owns(t, j)
  BY <1>2, CacheAssumption
<1>5. Owner \in [Jobs -> Threads \cup {Nobody}]
  BY <1>2 DEF Owner
<1> QED BY <1>3, <1>4, <1>5 DEF OpenFiles, Leased, Viewed

LEMMA InitPromise == Init => Promise!Init
<1> SUFFICES ASSUME Init PROVE Promise!Init
  OBVIOUS
<1>1. Inv /\ (\A t \in Threads : thread[t].pc = "idle") /\ (\A e \in Entries : ~entry[e].open)
  BY InitInv DEF Init, NewEntry
<1>2. OpenFiles = {}
  BY <1>1, Views DEF Viewed
<1>3. Leased = [j \in Jobs |-> {}]
  BY <1>1 DEF Leased
<1>4. Owner = [j \in Jobs |-> Nobody]
  BY <1>1 DEF Owner, Owns, HasFile
<1> QED BY <1>2, <1>3, <1>4 DEF Promise!Init

LEMMA ViewsAfter == Inv' => Viewed'
  BY Views, PTL

(* How a step of a thread on its entry looks from outside.                 *)
LEMMA OnEntryViews ==
  ASSUME Inv, Inv', NEW t \in Threads, ~At(t, "idle"), NEW x \in EntryState, NEW pc,
         pc \in {"wait", "prepare", "leased", "waitSole", "drain", "sole", "unpin"},
         x.job = Mine(t).job, x.pins = Mine(t).pins,
         entryOf' = entryOf,
         entry' = [entry EXCEPT ![thread[t].entry] = x],
         thread' = [thread EXCEPT ![t].pc = pc]
  PROVE  /\ JobOf(t) \in Jobs
         /\ OpenFiles' = IF x.open THEN OpenFiles \cup {JobOf(t)} ELSE OpenFiles \ {JobOf(t)}
         /\ Leased' = [Leased EXCEPT ![JobOf(t)] = IF pc = "leased" THEN @ \cup {t} ELSE @ \ {t}]
         /\ pc \in {"prepare", "sole"} => Owner' = [Owner EXCEPT ![JobOf(t)] = t]
         /\ pc \notin {"prepare", "sole"} /\ HasFile(t) => Owner' = [Owner EXCEPT ![JobOf(t)] = Nobody]
         /\ pc \notin {"prepare", "sole"} /\ ~HasFile(t) => Owner' = Owner
<1> DEFINE j == JobOf(t)
<1>1. Viewed /\ Viewed'
  BY Views, ViewsAfter
<1>2. /\ j \in Jobs /\ entryOf[j] = thread[t].entry /\ thread[t].entry \in Entries
      /\ entry'[thread[t].entry] = x
      /\ \A e \in Entries : e # thread[t].entry => entry'[e] = entry[e]
      /\ thread'[t].pc = pc /\ thread'[t].entry = thread[t].entry
      /\ \A u \in Threads : u # t => thread'[u] = thread[u]
  BY UsesEntry DEF JobOf, Inv, Types, ThreadState
<1>3. \A u \in Threads : thread[u].pc # "idle" => JobOf(u)' = JobOf(u) /\ thread[u].entry \in Entries
  BY <1>2, UsesEntry DEF JobOf
<1>4. JobOf(t)' = j
  BY <1>3
<1>5. \A k \in Jobs : k \in OpenFiles' <=> IF k = j THEN x.open ELSE k \in OpenFiles
  <2> TAKE k \in Jobs
  <2>1. CASE k = j
    <3>1. \A e \in Entries : entry'[e].job = j /\ entry'[e].open => e = thread[t].entry
      BY <1>2 DEF Inv, Mapped
    <3> QED BY <1>1, <1>2, <2>1, <3>1 DEF Viewed, JobOf
  <2>2. CASE k # j
    BY <1>1, <1>2, <2>2 DEF Viewed, JobOf
  <2> QED BY <2>1, <2>2
<1>6. OpenFiles' = IF x.open THEN OpenFiles \cup {j} ELSE OpenFiles \ {j}
  BY <1>1, <1>2, <1>5 DEF Viewed
<1>7. \A k \in Jobs, u \in Threads : u \in Leased'[k] <=>
         IF k = j /\ u = t THEN pc = "leased" ELSE u \in Leased[k] /\ ~(u = t /\ k = j)
  BY <1>1, <1>2, <1>3, <1>4 DEF Viewed
<1>8. Leased' = [Leased EXCEPT ![j] = IF pc = "leased" THEN @ \cup {t} ELSE @ \ {t}]
  <2> DEFINE mine == IF pc = "leased" THEN Leased[j] \cup {t} ELSE Leased[j] \ {t}
  <2>1. Leased \in [Jobs -> SUBSET Threads] /\ Leased' \in [Jobs -> SUBSET Threads]
    BY <1>1 DEF Viewed
  <2>2. \A k \in Jobs : k # j => Leased'[k] = Leased[k]
    BY <1>7, <2>1
  <2>3. Leased'[j] = mine
    BY <1>2, <1>7, <2>1
  <2> HIDE DEF mine
  <2>4. Leased' = [Leased EXCEPT ![j] = mine]
    BY <1>2, <2>1, <2>2, <2>3
  <2> QED BY <2>4 DEF mine
<1>9. \A k \in Jobs, u \in Threads : u # t => (Owns(u, k)' <=> Owns(u, k))
  BY <1>2, <1>3 DEF Owns, HasFile
<1>10. \A k \in Jobs : /\ Owns(t, k)' <=> k = j /\ pc \in {"prepare", "sole"}
                       /\ Owns(t, k) <=> k = j /\ HasFile(t)
  BY <1>2, <1>4 DEF Owns, HasFile
<1> HIDE DEF j
<1>11. \A k \in Jobs : k # j => Owner'[k] = Owner[k]
  BY <1>1, <1>9, <1>10, CacheAssumption DEF Viewed
<1>12. CASE pc \in {"prepare", "sole"}
  <2>1. Owner'[j] = t
    BY <1>1, <1>2, <1>10, <1>12 DEF Viewed
  <2>2. Owner' = [Owner EXCEPT ![j] = t]
    BY <1>1, <1>2, <1>11, <2>1 DEF Viewed
  <2> QED BY <1>2, <1>6, <1>8, <1>12, <2>2 DEF j
<1>13. CASE pc \notin {"prepare", "sole"} /\ HasFile(t)
  <2>1. \A k \in Jobs, u \in Threads : k = j => ~Owns(u, k)'
    <3>1. ASSUME NEW u \in Threads, u # t PROVE ~Owns(u, j)
      BY <1>1, <1>2, <1>10, <1>13, <3>1 DEF Viewed
    <3> QED BY <1>2, <1>9, <1>10, <1>13, <3>1
  <2>2. Owner'[j] = Nobody
    BY <1>1, <1>2, <2>1 DEF Viewed
  <2>3. Owner' = [Owner EXCEPT ![j] = Nobody]
    BY <1>1, <1>2, <1>11, <2>2 DEF Viewed
  <2> QED BY <1>2, <1>6, <1>8, <1>13, <2>3 DEF j
<1>14. CASE pc \notin {"prepare", "sole"} /\ ~HasFile(t)
  <2>1. Owner'[j] = Owner[j]
    BY <1>1, <1>2, <1>9, <1>10, <1>14, CacheAssumption DEF Viewed
  <2>2. Owner' = Owner
    BY <1>1, <1>2, <1>11, <2>1 DEF Viewed
  <2> QED BY <1>2, <1>6, <1>8, <1>14, <2>2 DEF j
<1> QED BY <1>12, <1>13, <1>14

(* A step that pins or unpins an entry changes no lease and no owner.      *)
LEMMA SameHolders ==
  ASSUME Inv, Inv', NEW t \in Threads,
         At(t, "idle") \/ At(t, "unpin"), thread'[t].pc \in {"idle", "wait", "waitSole"},
         \A u \in Threads : u # t => thread'[u] = thread[u],
         \A u \in Threads : u # t /\ ~At(u, "idle") =>
            entry'[thread[u].entry].job = entry[thread[u].entry].job
  PROVE  Leased' = Leased /\ Owner' = Owner
<1>1. Viewed /\ Viewed'
  BY Views, ViewsAfter
<1>2. \A u \in Threads : u # t /\ thread[u].pc # "idle" => JobOf(u)' = JobOf(u)
  BY DEF JobOf
<1>3. \A j \in Jobs, u \in Threads : u \in Leased'[j] <=> u \in Leased[j]
  BY <1>1, <1>2 DEF Viewed
<1>4. \A j \in Jobs, u \in Threads : Owns(u, j)' <=> Owns(u, j)
  BY <1>2 DEF Owns, HasFile
<1>5. \A j \in Jobs : Owner'[j] = Owner[j]
  BY <1>1, <1>4, CacheAssumption DEF Viewed
<1>6. Leased \in [Jobs -> SUBSET Threads] /\ Leased' \in [Jobs -> SUBSET Threads]
  BY <1>1 DEF Viewed
<1>7. ASSUME NEW j \in Jobs PROVE Leased'[j] = Leased[j]
  <2>1. Leased[j] \subseteq Threads /\ Leased'[j] \subseteq Threads
    BY <1>6
  <2> QED BY <1>3, <2>1
<1>8. Leased' = Leased
  BY <1>6, <1>7
<1> QED BY <1>1, <1>5, <1>8 DEF Viewed

LEMMA PinPromise ==
  ASSUME Inv, Inv', NEW t \in Threads, NEW j \in Jobs, Reader(t, j) \/ Exclusive(t, j)
  PROVE  UNCHANGED Promise!accessVars
<1>1. PICK pc \in {"wait", "waitSole"} : Pin(t, j, pc)
  BY DEF Reader, Exclusive
<1>2. /\ thread'[t].pc = pc /\ thread[t].pc = "idle"
      /\ \A u \in Threads : u # t => thread'[u] = thread[u]
  BY <1>1 DEF Pin, Inv, Types
<1>3. /\ \A e \in Entries : entry'[e].open = entry[e].open
      /\ \A e \in Entries : entry[e].open \/ entry[e].pins # {} => entry'[e].job = entry[e].job
  <2>1. CASE PinExisting(t, j)
    BY <2>1 DEF PinExisting, Inv, Types, EntryState
  <2>2. CASE PinNew(t, j)
    <3> DEFINE e == CHOOSE e \in Unused : TRUE
    <3>1. e \in Entries /\ entry[e].pins = {} /\ \A k \in Jobs : entryOf[k] # e
      BY <2>2 DEF PinNew, Unused
    <3>2. entry' = [entry EXCEPT ![e] = NewEntry(j, {t})]
      BY <2>2 DEF PinNew
    <3> HIDE DEF e
    <3>3. entry[e].open = FALSE
      BY <3>1 DEF Inv, Mapped, Types, EntryState
    <3> QED BY <3>1, <3>2, <3>3 DEF NewEntry, Inv, Types
  <2> QED BY <1>1, <2>1, <2>2 DEF Pin
<1>4. \A u \in Threads : u # t /\ thread[u].pc # "idle" =>
         entry'[thread[u].entry].job = entry[thread[u].entry].job
  BY <1>3, UsesEntry
<1>5. Leased' = Leased /\ Owner' = Owner
  BY <1>2, <1>4, SameHolders
<1>6. OpenFiles' = OpenFiles
  <2>1. Viewed /\ Viewed'
    BY Views, ViewsAfter
  <2>2. \A k \in Jobs : k \in OpenFiles' <=> k \in OpenFiles
    BY <1>3, <2>1 DEF Viewed
  <2> QED BY <2>1, <2>2 DEF Viewed
<1> QED BY <1>5, <1>6 DEF Promise!accessVars

(* The handles that an eviction closes are leased by nobody: a lease pins  *)
(* its entry.                                                              *)
LEMMA UnpinPromise ==
  ASSUME Inv, Inv', NEW t \in Threads, Unpin(t)
  PROVE  Promise!Close
<1> DEFINE pinned == [j \in Jobs |-> entryOf[j] # NoEntry /\ entry[entryOf[j]].pins \ {t} # {}]
           gone == Evicted(pinned)
           kept(e) == \A j \in gone : entryOf[j] # e
           mine == thread[t].entry
           idle == OpenFiles \ OpenFiles'
<1>1. /\ thread[t].pc = "unpin"
      /\ thread' = [thread EXCEPT ![t] = [pc |-> "idle", entry |-> NoEntry]]
      /\ entry' = [e \in Entries |->
             [entry[e] EXCEPT !.pins = IF e = mine THEN @ \ {t} ELSE @,
                              !.open = @ /\ kept(e)]]
  BY DEF Unpin
<1>2. \A j \in gone : j \in Jobs /\ entryOf[j] # NoEntry /\ entry[entryOf[j]].pins \ {t} = {}
  BY DEF Evicted, Kept
<1> HIDE DEF gone
<1>3. \A e \in Entries : entry[e].pins \ {t} # {} => kept(e)
  BY <1>2
<1>4. \A e \in Entries : kept(e) \in BOOLEAN
  OBVIOUS
<1> HIDE DEF kept
<1>5. \A e \in Entries : entry'[e].job = entry[e].job /\ (entry'[e].open <=> entry[e].open /\ kept(e))
  BY <1>1, <1>4 DEF Inv, Types, EntryState
<1>6. thread'[t].pc = "idle" /\ \A u \in Threads : u # t => thread'[u] = thread[u]
  BY <1>1 DEF Inv, Types
<1>7. Leased' = Leased /\ Owner' = Owner
  <2>1. \A u \in Threads : u # t /\ thread[u].pc # "idle" =>
           entry'[thread[u].entry].job = entry[thread[u].entry].job
    BY <1>5, UsesEntry
  <2> QED BY <1>1, <1>6, <2>1, SameHolders
<1>8. Viewed /\ Viewed'
  BY Views, ViewsAfter
<1>9. OpenFiles' \subseteq OpenFiles
  BY <1>5, <1>8 DEF Viewed
<1>10. ASSUME NEW j \in idle PROVE Leased[j] = {} /\ Owner[j] = Nobody
  <2>1. PICK e \in Entries : entry[e].job = j /\ entry[e].open
    BY <1>8 DEF Viewed
  <2>2. j \in Jobs /\ entryOf[j] = e /\ ~kept(e)
    BY <1>5, <1>8, <2>1 DEF Viewed, Inv, Mapped
  <2>3. entry[e].pins \subseteq {t}
    BY <1>3, <2>2
  <2>4. ASSUME NEW u \in Threads, thread[u].pc = "leased" PROVE JobOf(u) # j
    <3>1. u # t /\ u \in Mine(u).pins
      BY <1>1, <2>4, UsesEntry
    <3>2. thread[u].entry # e
      BY <2>3, <3>1
    <3> QED BY <2>2, <2>4, <3>2, UsesEntry DEF JobOf
  <2>5. \A u \in Threads : ~Owns(u, j)
    BY <2>1, Sole DEF SoleAccess, Owns
  <2> QED BY <1>8, <2>2, <2>4, <2>5 DEF Viewed
<1>11. idle \in SUBSET {j \in OpenFiles : Leased[j] = {} /\ Owner[j] = Nobody}
  BY <1>10
<1>12. OpenFiles' = OpenFiles \ idle
  BY <1>9
<1> QED BY <1>7, <1>11, <1>12 DEF Promise!Close

(* A thread that takes the file to itself finds nobody on it.              *)
LEMMA NobodyElse ==
  ASSUME Inv, NEW t \in Threads, ~At(t, "idle"), Unlocked(t), ~HasFile(t), Mine(t).readers = {},
         ~Mine(t).exclusive \/ At(t, "drain")
  PROVE  Leased[JobOf(t)] = {} /\ Owner[JobOf(t)] = Nobody
<1>1. JobOf(t) \in Jobs /\ entryOf[JobOf(t)] = thread[t].entry
  BY UsesEntry DEF JobOf
<1>2. \A u \in Threads : ~At(u, "idle") /\ JobOf(u) = JobOf(t) => thread[u].entry = thread[t].entry
  BY <1>1, UsesEntry DEF JobOf
<1>3. \A u \in Threads : At(u, "leased") => JobOf(u) # JobOf(t)
  BY <1>2, UsesEntry DEF Inv, Leases
<1>4. ASSUME NEW u \in Threads PROVE ~Owns(u, JobOf(t))
  <2> SUFFICES ASSUME HasFile(u), thread[u].entry = thread[t].entry PROVE FALSE
    BY <1>2 DEF Owns, HasFile
  <2>1. CASE At(u, "prepare")
    BY <2>1, CacheAssumption DEF Inv, Prepares
  <2>2. CASE At(u, "sole")
    BY <2>2 DEF HasFile, Inv, Exclusives
  <2> QED BY <2>1, <2>2 DEF HasFile
<1> QED BY <1>1, <1>3, <1>4, Views DEF Viewed

LEMMA GoOnPromise ==
  ASSUME Inv, Inv', NEW t \in Threads, GoOn(t)
  PROVE  [Promise!Next]_(Promise!accessVars)
<1> DEFINE m == entry[thread[t].entry]
           j == JobOf(t)
<1>0. /\ thread[t].entry \in Entries /\ m \in EntryState /\ thread[t].pc # "idle"
      /\ j \in Jobs
  BY UsesEntry DEF Inv, Types, JobOf, GoOn, Lease, Prepare, OpenPrepared, PrepareRaises, EndLease,
                   Claim, Drained, EndExclusive, Unpin
<1>a. Viewed
  BY Views
<1>b. m.open => j \in OpenFiles
  BY <1>0 DEF OpenFiles, JobOf
<1>c. ~m.open => j \notin OpenFiles
  <2>1. entryOf[j] = thread[t].entry
    BY <1>0, UsesEntry DEF JobOf
  <2> QED BY <2>1 DEF OpenFiles, Inv, Mapped
<1>1. CASE Lease(t)
  <2> DEFINE x == [m EXCEPT !.readers = @ \cup {t}]
  <2>1. x \in EntryState /\ x.job = m.job /\ x.pins = m.pins /\ x.open = m.open
    BY <1>0 DEF EntryState
  <2>2. /\ entry' = [entry EXCEPT ![thread[t].entry] = x] /\ entryOf' = entryOf
        /\ thread' = [thread EXCEPT ![t].pc = "leased"]
        /\ thread[t].pc = "wait" /\ m.open
    BY <1>1, <1>0 DEF Lease
  <2> HIDE DEF x
  <2>3. /\ OpenFiles' = OpenFiles \cup {j} /\ Owner' = Owner
        /\ Leased' = [Leased EXCEPT ![j] = @ \cup {t}]
    BY <2>1, <2>2, OnEntryViews DEF HasFile
  <2>4. Owner[j] = Nobody
    <3>1. \A u \in Threads : ~Owns(u, j)
      BY <1>0, <2>2, Sole DEF SoleAccess, Owns, JobOf
    <3> QED BY <1>0, <1>a, <3>1 DEF Viewed
  <2>5. Promise!Lease(t, j)
    BY <1>b, <2>2, <2>3, <2>4 DEF Promise!Lease
  <2> QED BY <1>0, <2>5 DEF Promise!Next
<1>2. CASE Prepare(t)
  <2> DEFINE x == [m EXCEPT !.preparing = t]
  <2>1. x \in EntryState /\ x.job = m.job /\ x.pins = m.pins /\ x.open = m.open
    BY <1>0 DEF EntryState
  <2>2. /\ entry' = [entry EXCEPT ![thread[t].entry] = x] /\ entryOf' = entryOf
        /\ thread' = [thread EXCEPT ![t].pc = "prepare"]
        /\ thread[t].pc = "wait" /\ ~m.open /\ m.preparing = Nobody /\ ~m.exclusive
    BY <1>2, <1>0 DEF Prepare
  <2> HIDE DEF x
  <2>3. /\ OpenFiles' = OpenFiles \ {j} /\ Owner' = [Owner EXCEPT ![j] = t]
        /\ Leased' = [Leased EXCEPT ![j] = @ \ {t}]
    BY <2>1, <2>2, OnEntryViews DEF HasFile
  <2>4. m.readers = {}
    BY <1>0, <2>2 DEF Inv, Leases, Types, EntryState
  <2>5. Leased[j] = {} /\ Owner[j] = Nobody
    BY <2>2, <2>4, NobodyElse DEF HasFile
  <2>6. Leased' = Leased
    BY <1>0, <1>a, <2>3, <2>5 DEF Viewed
  <2>7. Promise!Seize(t, j)
    BY <2>3, <2>5, <2>6 DEF Promise!Seize
  <2> QED BY <1>0, <2>7 DEF Promise!Next
<1>3. CASE OpenPrepared(t)
  <2> DEFINE x == [m EXCEPT !.preparing = Nobody, !.open = TRUE, !.readers = @ \cup {t}]
  <2>1. x \in EntryState /\ x.job = m.job /\ x.pins = m.pins /\ x.open
    BY <1>0 DEF EntryState
  <2>2. /\ entry' = [entry EXCEPT ![thread[t].entry] = x] /\ entryOf' = entryOf
        /\ thread' = [thread EXCEPT ![t].pc = "leased"]
        /\ thread[t].pc = "prepare"
    BY <1>3, <1>0 DEF OpenPrepared
  <2> HIDE DEF x
  <2>3. /\ OpenFiles' = OpenFiles \cup {j} /\ Owner' = [Owner EXCEPT ![j] = Nobody]
        /\ Leased' = [Leased EXCEPT ![j] = @ \cup {t}]
    BY <2>1, <2>2, OnEntryViews DEF HasFile
  <2>4. Owner[j] = t
    BY <1>0, <1>a, <2>2 DEF Viewed, Owns, HasFile
  <2>5. Promise!OpenAndLease(t, j)
    BY <2>3, <2>4 DEF Promise!OpenAndLease
  <2> QED BY <1>0, <2>5 DEF Promise!Next
<1>4. CASE PrepareRaises(t) \/ EndExclusive(t)
  <2> DEFINE x == IF PrepareRaises(t) THEN [m EXCEPT !.preparing = Nobody]
                                      ELSE [m EXCEPT !.exclusive = FALSE]
  <2>1. x \in EntryState /\ x.job = m.job /\ x.pins = m.pins /\ x.open = m.open
    BY <1>0 DEF EntryState
  <2>2. /\ entry' = [entry EXCEPT ![thread[t].entry] = x] /\ entryOf' = entryOf
        /\ thread' = [thread EXCEPT ![t].pc = "unpin"]
        /\ thread[t].pc \in {"prepare", "sole"} /\ ~m.open
    BY <1>4, <1>0 DEF PrepareRaises, EndExclusive, Inv, Prepares, Exclusives
  <2> HIDE DEF x
  <2>3. /\ OpenFiles' = OpenFiles \ {j} /\ Owner' = [Owner EXCEPT ![j] = Nobody]
        /\ Leased' = [Leased EXCEPT ![j] = @ \ {t}]
    BY <2>1, <2>2, OnEntryViews DEF HasFile
  <2>4. Owner[j] = t /\ t \notin Leased[j]
    BY <1>0, <1>a, <2>2 DEF Viewed, Owns, HasFile
  <2>5. Leased' = Leased /\ OpenFiles' = OpenFiles
    BY <1>0, <1>a, <1>c, <2>2, <2>3, <2>4 DEF Viewed
  <2>6. Promise!Yield(t, j)
    BY <2>3, <2>4, <2>5 DEF Promise!Yield
  <2> QED BY <1>0, <2>6 DEF Promise!Next
<1>5. CASE EndLease(t)
  <2> DEFINE x == [m EXCEPT !.readers = @ \ {t}]
  <2>1. x \in EntryState /\ x.job = m.job /\ x.pins = m.pins /\ x.open = m.open
    BY <1>0 DEF EntryState
  <2>2. /\ entry' = [entry EXCEPT ![thread[t].entry] = x] /\ entryOf' = entryOf
        /\ thread' = [thread EXCEPT ![t].pc = "unpin"]
        /\ thread[t].pc = "leased" /\ m.open
    BY <1>5, <1>0 DEF EndLease, Inv, Leases
  <2> HIDE DEF x
  <2>3. /\ OpenFiles' = OpenFiles \cup {j} /\ Owner' = Owner
        /\ Leased' = [Leased EXCEPT ![j] = @ \ {t}]
    BY <2>1, <2>2, OnEntryViews DEF HasFile
  <2>4. t \in Leased[j]
    BY <1>0, <1>a, <2>2 DEF Viewed
  <2>5. Promise!Release(t, j)
    BY <1>b, <2>2, <2>3, <2>4 DEF Promise!Release
  <2> QED BY <1>0, <2>5 DEF Promise!Next
<1>6. CASE Claim(t)
  <2> DEFINE x == [m EXCEPT !.exclusive = TRUE]
  <2>1. x \in EntryState /\ x.job = m.job /\ x.pins = m.pins /\ x.open = m.open
    BY <1>0 DEF EntryState
  <2>2. /\ entry' = [entry EXCEPT ![thread[t].entry] = x] /\ entryOf' = entryOf
        /\ thread' = [thread EXCEPT ![t].pc = "drain"]
        /\ thread[t].pc = "waitSole"
    BY <1>6, <1>0 DEF Claim
  <2> HIDE DEF x
  <2>3. /\ m.open => OpenFiles' = OpenFiles \cup {j}
        /\ ~m.open => OpenFiles' = OpenFiles \ {j}
        /\ Owner' = Owner
        /\ Leased' = [Leased EXCEPT ![j] = @ \ {t}]
    BY <2>1, <2>2, OnEntryViews DEF HasFile
  <2>4. t \notin Leased[j]
    BY <1>0, <1>a, <2>2 DEF Viewed
  <2>5. Leased' = Leased
    BY <1>0, <1>a, <2>3, <2>4 DEF Viewed
  <2>6. OpenFiles' = OpenFiles
    BY <1>b, <1>c, <2>3
  <2> QED BY <2>3, <2>5, <2>6 DEF Promise!accessVars
<1>7. CASE Drained(t)
  <2> DEFINE x == [m EXCEPT !.open = FALSE]
  <2>1. x \in EntryState /\ x.job = m.job /\ x.pins = m.pins /\ ~x.open
    BY <1>0 DEF EntryState
  <2>2. /\ entry' = [entry EXCEPT ![thread[t].entry] = x] /\ entryOf' = entryOf
        /\ thread' = [thread EXCEPT ![t].pc = "sole"]
        /\ thread[t].pc = "drain" /\ m.readers = {} /\ m.preparing = Nobody
    BY <1>7, <1>0 DEF Drained
  <2> HIDE DEF x
  <2>3. /\ OpenFiles' = OpenFiles \ {j} /\ Owner' = [Owner EXCEPT ![j] = t]
        /\ Leased' = [Leased EXCEPT ![j] = @ \ {t}]
    BY <2>1, <2>2, OnEntryViews DEF HasFile
  <2>4. Leased[j] = {} /\ Owner[j] = Nobody
    BY <2>2, NobodyElse DEF HasFile
  <2>5. Leased' = Leased
    BY <1>0, <1>a, <2>3, <2>4 DEF Viewed
  <2>6. Promise!Seize(t, j)
    BY <2>3, <2>4, <2>5 DEF Promise!Seize
  <2> QED BY <1>0, <2>6 DEF Promise!Next
<1>8. CASE Unpin(t)
  BY <1>8, UnpinPromise DEF Promise!Next
<1> QED BY <1>1, <1>2, <1>3, <1>4, <1>5, <1>6, <1>7, <1>8 DEF GoOn

LEMMA NextPromise == Inv /\ Inv' /\ [Next]_cacheVars => [Promise!Next]_(Promise!accessVars)
<1> SUFFICES ASSUME Inv, Inv', [Next]_cacheVars PROVE [Promise!Next]_(Promise!accessVars)
  OBVIOUS
<1>1. CASE UNCHANGED cacheVars
  BY <1>1 DEF cacheVars, Promise!accessVars, OpenFiles, Leased, Owner, Owns, HasFile, JobOf
<1>2. ASSUME NEW t \in Threads, NEW j \in Jobs, Reader(t, j) \/ Exclusive(t, j)
      PROVE  UNCHANGED Promise!accessVars
  BY <1>2, PinPromise
<1>3. ASSUME NEW t \in Threads, GoOn(t) PROVE [Promise!Next]_(Promise!accessVars)
  BY <1>3, GoOnPromise
<1> QED BY <1>1, <1>2, <1>3 DEF Next

(* Seen from outside, the cache is GraphFileAccess: every step of a thread *)
(* is one of the promise's, or changes nothing that the promise speaks of. *)
THEOREM CacheKeepsPromise == Spec => PromiseSpec
  BY InitPromise, NextPromise, CacheInvariant, PTL DEF Spec, PromiseSpec, Promise!Spec
=============================================================================
