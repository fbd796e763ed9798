------------------------- MODULE SnapshotSyncProofs -------------------------
(***************************************************************************)
(* What a load of LoadSnapshot may install, for any number of writes of the  *)
(* API and of outages of the database.                                       *)
(***************************************************************************)
EXTENDS SnapshotSync, TLAPS

-----------------------------------------------------------------------------
(* The queries of LoadSnapshot *)

LEMMA OrderFacts ==
  /\ Len(Order) = 9
  /\ \A k \in 1 .. 9 : Order[k] \in Table
  /\ \A t \in Table : \E k \in 1 .. 9 : Order[k] = t
BY DEF Order, Table

\* The query that loadTeams skips along with "teams" is a soft one.
LEMMA TeamsAreFollowedBySoft ==
  ASSUME NEW k \in 1 .. 9, Order[k] = "teams"
  PROVE  k + 1 \in 1 .. 9 /\ Order[k + 1] \in Soft
BY DEF Order, Soft

-----------------------------------------------------------------------------
(* The inductive invariant.  A table's version only grows, so a version read  *)
(* during a load is no older than the one the load began with, and that one   *)
(* no older than the snapshot in force: snap <= begun <= draft <= db.         *)

Bounded == \A t \in Table : snap[t] <= db[t] /\ draft[t] <= db[t] /\ begun[t] <= db[t]
Loading == pos # 0 => \A t \in Table : /\ snap[t] <= begun[t]
                                       /\ draft[t] = Missing \/ draft[t] >= begun[t]

\* What a load has passed without an error it has read.
HardRead == \A k \in 1 .. 9 : k < pos /\ Order[k] \notin Soft => draft[Order[k]] # Missing

SyncInv == TypeOK /\ Bounded /\ Loading /\ HardRead

LEMMA InitSyncInv == Init => SyncInv
<1> SUFFICES ASSUME Init PROVE SyncInv
  OBVIOUS
<1>1. TypeOK
  <2>1. up \in BOOLEAN /\ serving \in BOOLEAN
    BY Zenon DEF Init
  <2>2. /\ db \in [Table -> Nat] /\ begun \in [Table -> Nat]
        /\ snap \in [Table -> Int] /\ draft \in [Table -> Int]
    BY DEF Init, Empty, Missing
  <2>3. writes \in 0 .. MaxWrites /\ outages \in 0 .. MaxOutages /\ pos \in 0 .. Len(Order) + 1
    BY SyncAssumption, OrderFacts DEF Init
  <2> QED BY <2>1, <2>2, <2>3 DEF TypeOK
<1>2. Bounded /\ Loading /\ HardRead
  BY DEF Init, Bounded, Loading, HardRead, Empty, Missing
<1> QED BY <1>1, <1>2 DEF SyncInv

\* The load is where it was, and the database has moved on or not.
LEMMA LoadUntouched ==
  ASSUME SyncInv, UNCHANGED load, TypeOK', \A t \in Table : db[t] <= db'[t]
  PROVE  SyncInv'
<1>1. /\ snap' = snap /\ draft' = draft /\ begun' = begun /\ pos' = pos
      /\ db \in [Table -> Nat] /\ db' \in [Table -> Nat]
      /\ snap \in [Table -> Int] /\ draft \in [Table -> Int] /\ begun \in [Table -> Nat]
  BY DEF SyncInv, TypeOK, load
<1>2. Bounded'
  BY <1>1 DEF SyncInv, Bounded
<1> QED BY <1>1, <1>2 DEF SyncInv, Loading, HardRead

LEMMA NextSyncInv == SyncInv /\ [Next]_vars => SyncInv'
<1> SUFFICES ASSUME SyncInv, [Next]_vars PROVE SyncInv'
  OBVIOUS
<1>0. TypeOK /\ Bounded /\ Loading /\ HardRead
  BY DEF SyncInv
<1>t. /\ db \in [Table -> Nat] /\ begun \in [Table -> Nat] /\ pos \in 0 .. 10
      /\ snap \in [Table -> Int] /\ draft \in [Table -> Int]
  BY <1>0, OrderFacts DEF TypeOK
<1>1. ASSUME NEW ts \in Writes, Commit(ts) PROVE SyncInv'
  <2>1. db' \in [Table -> Nat] /\ \A t \in Table : db[t] <= db'[t]
    BY <1>1, <1>t DEF Commit
  <2>2. TypeOK'
    BY <1>0, <1>1, <2>1, SyncAssumption DEF TypeOK, Commit, load
  <2> QED BY <1>1, <2>1, <2>2, LoadUntouched DEF Commit
<1>2. CASE GoDown \/ ComeUp
  <2>1. db' = db /\ writes' = writes /\ UNCHANGED load
    BY <1>2 DEF GoDown, ComeUp
  <2>2. up' \in BOOLEAN
    BY <1>2, Zenon DEF GoDown, ComeUp
  <2>3. outages' \in 0 .. MaxOutages
    BY <1>0, <1>2, SyncAssumption DEF TypeOK, GoDown, ComeUp
  <2>4. TypeOK'
    BY <1>0, <2>1, <2>2, <2>3 DEF TypeOK, load
  <2> QED BY <1>t, <2>1, <2>4, LoadUntouched
<1>3. CASE StartLoad
  <2>1. TypeOK'
    BY <1>0, <1>3, OrderFacts DEF TypeOK, StartLoad, Empty, Missing
  <2>2. Bounded'
    BY <1>0, <1>3, <1>t DEF Bounded, StartLoad, Empty, Missing
  <2>3. Loading'
    BY <1>0, <1>3, <1>t DEF Bounded, Loading, StartLoad, Empty, Missing
  <2>4. HardRead'
    BY <1>3 DEF HardRead, StartLoad
  <2> QED BY <2>1, <2>2, <2>3, <2>4 DEF SyncInv
<1>4. CASE Read
  <2>1. pos \in 1 .. 9 /\ Order[pos] \in Table /\ pos' = pos + 1
        /\ draft' = [draft EXCEPT ![Order[pos]] = db[Order[pos]]]
        /\ UNCHANGED <<db, writes, up, outages, snap, begun, serving>>
    BY <1>4, OrderFacts DEF Read
  <2>2. draft' \in [Table -> Int]
    BY <1>t, <2>1
  <2>3. TypeOK'
    BY <1>0, <2>1, <2>2, OrderFacts DEF TypeOK
  <2>4. Bounded'
    BY <1>0, <1>t, <2>1 DEF Bounded
  <2>5. Loading'
    BY <1>0, <1>t, <2>1 DEF Bounded, Loading
  <2>6. HardRead'
    <3> SUFFICES ASSUME NEW k \in 1 .. 9, k < pos', Order[k] \notin Soft
                 PROVE  draft'[Order[k]] # Missing
      BY DEF HardRead
    <3>1. Order[k] \in Table
      BY OrderFacts
    <3>2. CASE Order[k] = Order[pos]
      BY <1>t, <2>1, <3>2 DEF Missing
    <3>3. CASE Order[k] # Order[pos]
      BY <1>0, <1>t, <2>1, <3>1, <3>3 DEF HardRead
    <3> QED BY <3>2, <3>3
  <2> QED BY <2>3, <2>4, <2>5, <2>6 DEF SyncInv
<1>5. CASE ReadSoftFails
  <2>1. pos \in 1 .. 9 /\ Order[pos] \in Soft
        /\ (pos' = pos + 1 \/ (Order[pos] = "teams" /\ pos' = pos + 2))
        /\ UNCHANGED <<db, writes, up, outages, snap, draft, begun, serving>>
    BY <1>5, OrderFacts DEF ReadSoftFails
  <2>2. pos' \in 1 .. 10 /\ \A k \in 1 .. 9 : k < pos' => k < pos \/ Order[k] \in Soft
    BY <2>1, TeamsAreFollowedBySoft
  <2>3. TypeOK'
    BY <1>0, <2>1, <2>2, OrderFacts DEF TypeOK
  <2>4. Bounded' /\ Loading'
    BY <1>0, <2>1 DEF Bounded, Loading
  <2>5. HardRead'
    BY <1>0, <2>1, <2>2 DEF HardRead
  <2> QED BY <2>3, <2>4, <2>5 DEF SyncInv
<1>6. CASE ReadHardFails
  <2>1. TypeOK' /\ Bounded' /\ Loading'
    BY <1>0, <1>6, OrderFacts DEF TypeOK, Bounded, Loading, ReadHardFails
  <2>2. HardRead'
    BY <1>6 DEF HardRead, ReadHardFails
  <2> QED BY <2>1, <2>2 DEF SyncInv
<1>7. CASE Replace
  <2>1. TypeOK' /\ Bounded' /\ Loading'
    BY <1>0, <1>7, OrderFacts DEF TypeOK, Bounded, Loading, Replace
  <2>2. HardRead'
    BY <1>7 DEF HardRead, Replace
  <2> QED BY <2>1, <2>2 DEF SyncInv
<1>8. CASE UNCHANGED vars
  <2>1. TypeOK'
    BY <1>0, <1>8 DEF TypeOK, vars
  <2> QED BY <1>8, <1>t, <2>1, LoadUntouched DEF vars, load
<1> QED BY <1>1, <1>2, <1>3, <1>4, <1>5, <1>6, <1>7, <1>8 DEF Next, Loader

LEMMA SyncInvariant == Spec => []SyncInv
BY InitSyncInv, NextSyncInv, PTL DEF Spec

-----------------------------------------------------------------------------
\* A finished load holds versions the tables really had, none of them older than
\* the database was when LoadSnapshot began, however writes and outages fall
\* between its queries.
THEOREM LoadRegularHolds == Spec => []LoadRegular
<1>1. SyncInv => LoadRegular
  BY OrderFacts DEF SyncInv, Bounded, Loading, LoadRegular
<1> QED BY <1>1, SyncInvariant, PTL

\* Replacing the snapshot never takes a strictly checked table back to an earlier
\* version: hard errors leave the load before Replace, so every such table was
\* read after the load began, which was after the snapshot in force was loaded.
THEOREM NeverRegressesHolds == Spec => NeverRegresses
<1>1. SyncInv /\ [Next]_vars => [\A t \in Table \ Soft : snap'[t] >= snap[t]]_snap
  <2> SUFFICES ASSUME SyncInv, [Next]_vars, snap' # snap, NEW t \in Table \ Soft
               PROVE  snap'[t] >= snap[t]
    OBVIOUS
  <2>1. pos = 10 /\ snap' = draft
    BY OrderFacts DEF Next, vars, Loader, Commit, GoDown, ComeUp, StartLoad, Read, ReadSoftFails,
       ReadHardFails, Replace, load
  <2>2. draft[t] # Missing
    BY <2>1, OrderFacts DEF SyncInv, HardRead
  <2>3. snap[t] <= begun[t] /\ draft[t] >= begun[t]
    BY <2>1, <2>2 DEF SyncInv, Loading
  <2> QED BY <2>1, <2>3 DEF SyncInv, TypeOK
<1> QED BY <1>1, SyncInvariant, PTL DEF Spec, NeverRegresses
=============================================================================
