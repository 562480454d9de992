--------------------------- MODULE QuotaStoreProofs ---------------------------
(***************************************************************************)
(* Theorems of QuotaStore, for any number of goroutines, changes, faults   *)
(* and restarts: the balance is what its changes come to, and statistics   *)
(* are counted at most once.                                               *)
(***************************************************************************)
EXTENDS QuotaStore, TLAPS

Places == {"idle", "ttl", "write", "fill", "row", "columns", "reread", "drop", "count"}
Rows == [quota : Int, status : Status]
Jobs == [at : Places, d : Int, set : BOOLEAN, copy : Rows, next : Places]

\* The row, and the jobs that change it.
RowInv ==
    /\ row \in Rows /\ net \in Int
    /\ job \in [Procs -> Jobs]
    /\ EveryChangeKept

\* The counters, their stores, and what is being written.
CountersTyped ==
    /\ store \in [Types -> Nat] /\ total \in [Types -> Nat] /\ counted \in [Types -> Nat]
    /\ batch \in [at : {"asleep", "take", "write"}, type : Types, taken : Nat]
    /\ faults \in Nat /\ crashes \in Nat

LEMMA IdleTyped == Idle \in Jobs
  BY DEF Idle, Jobs, Places, Rows, Status

\* The job after a call of Redis is well formed.
LEMMA AfterTyped ==
  ASSUME RowInv, NEW p \in Procs
  PROVE  After(p) \in Jobs
  BY IdleTyped DEF RowInv, After, Jobs, Places

LEMMA PlacesNamed == "idle" \in Places /\ "row" \in Places
  BY DEF Places

LEMMA Negative == -1 \in Int /\ \A x \in Int : -x \in Int
  BY SMT

\* A job that starts with a call of Redis is well formed.
LEMMA IncrementTyped ==
  ASSUME NEW x \in Int, NEW place \in Places
  PROVE  Increment(x, place) \in Jobs
  BY DEF Increment, Idle, Jobs, Places, Rows, Status

-----------------------------------------------------------------------------
(* The balance. *)

LEMMA RowInit == Init => RowInv
  BY StoreAssumption, IdleTyped DEF Init, RowInv, EveryChangeKept, Rows, Status

LEMMA RowStep == RowInv /\ [Next]_vars => RowInv'
<1> SUFFICES ASSUME RowInv, [Next]_vars PROVE RowInv'
  OBVIOUS
<1>1. ASSUME NEW p \in Procs, CacheTtl(p) PROVE RowInv'
  BY <1>1, AfterTyped DEF CacheTtl, RowInv, EveryChangeKept, Jobs, Places
<1>2. ASSUME NEW p \in Procs, CacheWrite(p) PROVE RowInv'
  BY <1>2, AfterTyped DEF CacheWrite, RowInv, EveryChangeKept
<1>3. ASSUME NEW p \in Procs, Read(p) PROVE RowInv'
  BY <1>3, IdleTyped DEF Read, RowInv, EveryChangeKept, Jobs, Places, Idle
<1>4. ASSUME NEW p \in Procs, Fill(p) PROVE RowInv'
  <2>1. job' \in [Procs -> Jobs]
    BY <1>4, AfterTyped, IdleTyped DEF Fill, RowInv
  <2>2. QED
    BY <1>4, <2>1 DEF Fill, RowInv, EveryChangeKept
<1>5. ASSUME NEW p \in Procs, ReadQuota(p) PROVE RowInv'
  BY <1>5, IdleTyped DEF ReadQuota, RowInv, EveryChangeKept, Jobs, Places, Idle, Rows
<1>6. ASSUME NEW p \in Procs, Hold(p) PROVE RowInv'
  <2>1. job' \in [Procs -> Jobs]
    BY <1>6, IncrementTyped, Negative, PlacesNamed DEF Hold, RowInv
  <2>2. row' \in Rows /\ net' \in Int /\ EveryChangeKept'
    BY <1>6, StoreAssumption DEF Hold, RowInv, EveryChangeKept, Rows
  <2>3. QED
    BY <2>1, <2>2 DEF RowInv
<1>7. ASSUME NEW p \in Procs, NEW d \in {1, -1}, Change(p, d) PROVE RowInv'
  <2>0. d \in Int
    BY Negative
  <2>1. job' \in [Procs -> Jobs]
    BY <1>7, IncrementTyped, <2>0, PlacesNamed DEF Change, RowInv
  <2>2. QED
    BY <1>7, <2>1 DEF Change, RowInv, EveryChangeKept
<1>8. ASSUME NEW p \in Procs, ChangeRow(p) PROVE RowInv'
  <2>1. job[p].d \in Int /\ -job[p].d \in Int
    BY Negative DEF RowInv, Jobs
  <2>2. job' \in [Procs -> Jobs]
    BY <1>8, <2>1, IdleTyped, IncrementTyped, PlacesNamed DEF ChangeRow, RowInv
  <2>3. row' \in Rows /\ net' \in Int /\ EveryChangeKept'
    BY <1>8, <2>1, StoreAssumption DEF ChangeRow, RowInv, EveryChangeKept, Rows
  <2>4. QED
    BY <2>2, <2>3 DEF RowInv
<1>9. ASSUME NEW p \in Procs, Override(p) PROVE RowInv'
  BY <1>9, StoreAssumption DEF Override, RowInv, EveryChangeKept, Rows
<1>10. ASSUME NEW p \in Procs, NEW what \in Status \cup {"setting"}, Edit(p, what) PROVE RowInv'
  BY <1>10, IdleTyped DEF Edit, RowInv, EveryChangeKept, Jobs, Places, Idle, Rows, Status
<1>11. ASSUME NEW p \in Procs, Columns(p) PROVE RowInv'
  BY <1>11, IdleTyped DEF Columns, RowInv, EveryChangeKept, Jobs, Places, Rows, Status
<1>12. ASSUME NEW p \in Procs, Reread(p) PROVE RowInv'
  BY <1>12, IdleTyped DEF Reread, RowInv, EveryChangeKept, Jobs, Places
<1>13. ASSUME NEW p \in Procs, Drop(p) PROVE RowInv'
  BY <1>13, IdleTyped DEF Drop, RowInv, EveryChangeKept
<1>14. ASSUME NEW p \in Procs, NEW t \in Types, AddNewRecord(p, t) PROVE RowInv'
  BY <1>14 DEF AddNewRecord, RowInv, EveryChangeKept, Jobs, Places
<1>15. CASE Batch
  BY <1>15 DEF Batch, BatchWakes, BatchTake, BatchWrite, RowInv, EveryChangeKept
<1>16. CASE Expire
  BY <1>16 DEF Expire, RowInv, EveryChangeKept
<1>17. CASE Crash
  BY <1>17, IdleTyped DEF Crash, RowInv, EveryChangeKept
<1>18. CASE UNCHANGED vars
  BY <1>18 DEF vars, RowInv, EveryChangeKept
<1>19. QED
  BY <1>1, <1>2, <1>3, <1>4, <1>5, <1>6, <1>7, <1>8, <1>9, <1>10, <1>11, <1>12, <1>13, <1>14,
     <1>15, <1>16, <1>17, <1>18 DEF Next, Goes, Types

\* The balance of a user is the first one and every change made to it, whatever edits,
\* faults and restarts come between (IncreaseUserQuota, DecreaseUserQuotaGuarded,
\* updateColumns).
THEOREM BalanceCorrect == Spec => []EveryChangeKept
<1>1. RowInv => EveryChangeKept
  BY DEF RowInv
<1>2. QED
  BY RowInit, RowStep, <1>1, PTL DEF Spec

-----------------------------------------------------------------------------
(* The statistics. *)

CountersInv == CountersTyped /\ CountedOnce

LEMMA CountersInit == Init => CountersInv
  BY DEF Init, CountersInv, CountersTyped, CountedOnce, Types

\* Nothing but records, the loop, a fault and a restart touches the counters.
LEMMA CountersApart ==
  ASSUME CountersInv, UNCHANGED <<counters, crashes>>, faults' = faults \/ Fault
  PROVE  CountersInv'
<1>1. faults' \in Nat /\ (faults' + crashes' = 0 => faults + crashes = 0)
  BY DEF CountersInv, CountersTyped, Fault
<1>2. QED
  BY <1>1 DEF CountersInv, CountersTyped, CountedOnce, counters

LEMMA CountersStep == CountersInv /\ [Next]_vars => CountersInv'
<1> SUFFICES ASSUME CountersInv, [Next]_vars PROVE CountersInv'
  OBVIOUS
<1>1. ASSUME NEW p \in Procs, NEW t \in Types, AddNewRecord(p, t) PROVE CountersInv'
  BY <1>1 DEF AddNewRecord, CountersInv, CountersTyped, CountedOnce, Types
<1>2. CASE BatchWakes
  BY <1>2 DEF BatchWakes, CountersInv, CountersTyped, CountedOnce, Types
<1>3. CASE BatchTake
  <2>1. CountersTyped'
    BY <1>3 DEF BatchTake, CountersInv, CountersTyped
  <2>2. CountedOnce'
    <3>1. PICK y : y = batch /\ y.at = "take" /\ y.type \in Types /\ y.taken \in Nat
      BY <1>3 DEF BatchTake, CountersInv, CountersTyped
    <3>2. batch'.at = "write" /\ batch'.type = y.type /\ batch'.taken = store[y.type]
      BY <1>3, <3>1 DEF BatchTake, CountersInv, CountersTyped
    <3>3. SUFFICES ASSUME NEW t \in Types
                   PROVE  LET sum == total'[t] + store'[t]
                                     + IF batch'.at = "write" /\ batch'.type = t
                                       THEN batch'.taken ELSE 0
                          IN  sum <= counted'[t] /\ (faults' + crashes' = 0 => sum = counted'[t])
      BY DEF CountedOnce
    <3>4. total[t] + store[t] + 0 <= counted[t]
          /\ (faults + crashes = 0 => total[t] + store[t] + 0 = counted[t])
      BY <3>1 DEF CountersInv, CountedOnce
    <3>5. CASE t = y.type
      BY <1>3, <3>1, <3>2, <3>4, <3>5 DEF BatchTake, CountersInv, CountersTyped
    <3>6. CASE t # y.type
      BY <1>3, <3>1, <3>2, <3>4, <3>6 DEF BatchTake, CountersInv, CountersTyped
    <3>7. QED
      BY <3>5, <3>6
  <2>3. QED
    BY <2>1, <2>2 DEF CountersInv
<1>4. CASE BatchWrite
  <2>1. CASE total' = [total EXCEPT ![batch.type] = @ + batch.taken] /\ UNCHANGED faults
    BY <1>4, <2>1 DEF BatchWrite, CountersInv, CountersTyped, CountedOnce, Types
  <2>2. CASE Fault /\ UNCHANGED total
    BY <1>4, <2>2 DEF BatchWrite, Fault, CountersInv, CountersTyped, CountedOnce, Types
  <2>3. QED
    BY <1>4, <2>1, <2>2 DEF BatchWrite
<1>5. CASE Crash
  <2>1. CountersTyped' /\ crashes' > 0
    BY <1>5 DEF Crash, CountersInv, CountersTyped, Types
  <2>2. CountedOnce'
    <3>1. SUFFICES ASSUME NEW t \in Types PROVE total[t] <= counted[t] /\ faults + crashes' > 0
      BY <1>5 DEF Crash, CountedOnce, CountersInv, CountersTyped
    <3>2. total[t] <= counted[t]
      BY DEF CountersInv, CountersTyped, CountedOnce
    <3>3. QED
      BY <1>5, <2>1, <3>2 DEF Crash, CountersInv, CountersTyped
  <2>3. QED
    BY <2>1, <2>2 DEF CountersInv
<1>6. ASSUME NEW p \in Procs,
             \/ CacheTtl(p) \/ CacheWrite(p) \/ Read(p) \/ Fill(p) \/ ReadQuota(p) \/ Hold(p)
             \/ ChangeRow(p) \/ Override(p) \/ Columns(p) \/ Reread(p) \/ Drop(p)
      PROVE  CountersInv'
  BY <1>6, CountersApart
     DEF CacheTtl, CacheWrite, Read, Fill, ReadQuota, Hold, ChangeRow, Override, Columns, Reread, Drop
<1>7. ASSUME NEW p \in Procs, NEW d \in {1, -1}, Change(p, d) PROVE CountersInv'
  BY <1>7, CountersApart DEF Change
<1>8. ASSUME NEW p \in Procs, NEW what \in Status \cup {"setting"}, Edit(p, what) PROVE CountersInv'
  BY <1>8, CountersApart DEF Edit
<1>9. CASE Expire
  BY <1>9, CountersApart DEF Expire
<1>10. CASE UNCHANGED vars
  BY <1>10 DEF vars, counters, CountersInv, CountersTyped, CountedOnce
<1>11. ASSUME NEW p \in Procs, Goes(p) PROVE CountersInv'
  <2>1. CASE AddNewRecord(p, "count")
    BY <1>1, <2>1 DEF Types
  <2>2. QED
    BY <1>6, <1>11, <2>1 DEF Goes
<1>12. CASE Batch
  BY <1>2, <1>3, <1>4, <1>12 DEF Batch
<1>13. ASSUME NEW p \in Procs, AddNewRecord(p, "used") PROVE CountersInv'
  BY <1>1, <1>13 DEF Types
<1>14. QED
  BY <1>5, <1>6, <1>7, <1>8, <1>9, <1>10, <1>11, <1>12, <1>13 DEF Next

\* Statistics are counted at most once, and exactly once while nothing fails, however
\* addNewRecord and batchUpdate interleave.
THEOREM CountsCorrect == Spec => []CountedOnce
<1>1. CountersInv => CountedOnce
  BY DEF CountersInv
<1>2. QED
  BY CountersInit, CountersStep, <1>1, PTL DEF Spec
=============================================================================
