------------------------------ MODULE QuotaStore ------------------------------
(***************************************************************************)
(* The row of a user, the hash of it in Redis, and the counters that are   *)
(* collected in memory (model/user.go, user_cache.go, utils.go).  The      *)
(* balance is changed by atomic updates of the row and, in another call,   *)
(* of the hash; columns are edited by administrators and users; a miss of  *)
(* the cache reads the row and writes the hash later, in a goroutine; the  *)
(* hash expires.  The statistics go through batchUpdate.                   *)
(***************************************************************************)
EXTENDS Integers, FiniteSets

CONSTANTS
    Procs,      \* goroutines: a handler, or the filling of the cache after it
    Start,      \* the balance at the start
    MaxOps,     \* bound: changes asked for
    MaxFaults,  \* bound: calls of the database or of Redis that fail
    MaxCrashes  \* bound: restarts of the server

ASSUME StoreAssumption ==
    /\ Start \in Nat /\ MaxOps \in Nat /\ MaxFaults \in Nat /\ MaxCrashes \in Nat

VARIABLES
    row,      \* [quota, status]: the columns followed here
    hash,     \* what Redis has: NoHash, or [quota, status, ttl]
    job,      \* what each goroutine is about
    store,    \* batchUpdateStores of the user, by type
    batch,    \* [at, type, taken]: the loop of batchUpdate
    total,    \* used_quota and request_count of the row
    net,      \* history: what the balance changes that were done come to
    counted,  \* history: what was asked to be counted, by type
    ops, faults, crashes  \* history: for the bounds

vars == <<row, hash, job, store, batch, total, net, counted, ops, faults, crashes>>
counters == <<store, batch, total, counted>>

Status == {"enabled", "disabled"}
Types == {"used", "count"}
NoHash == [quota |-> 0, status |-> "none", ttl |-> FALSE]

\* at: where the goroutine is; d: a delta, or the value to set; set: which of them;
\* copy: a row that was read; next: where to go when Redis has answered.
Idle == [at |-> "idle", d |-> 0, set |-> FALSE, copy |-> [quota |-> 0, status |-> "enabled"], next |-> "idle"]

Init ==
    /\ row = [quota |-> Start, status |-> "enabled"]
    /\ hash = NoHash
    /\ job = [p \in Procs |-> Idle]
    /\ store = [t \in Types |-> 0] /\ total = [t \in Types |-> 0] /\ counted = [t \in Types |-> 0]
    /\ batch = [at |-> "asleep", type |-> "used", taken |-> 0]
    /\ net = 0 /\ ops = 0 /\ faults = 0 /\ crashes = 0

Asked(p) == job[p].at = "idle" /\ ops < MaxOps /\ ops' = ops + 1

Fault == faults < MaxFaults /\ faults' = faults + 1

After(p) == IF job[p].next = "idle" THEN Idle ELSE [job[p] EXCEPT !.at = job[p].next]

-----------------------------------------------------------------------------
(* The hash. *)

\* RedisHIncrBy and RedisHSetField: first the time the key has to live ...
CacheTtl(p) ==
    /\ job[p].at = "ttl"
    /\ \/ /\ job' = [job EXCEPT ![p] = IF hash.ttl THEN [@ EXCEPT !.at = "write"] ELSE After(p)]
          /\ UNCHANGED faults
       \/ Fault /\ job' = [job EXCEPT ![p] = After(p)]
    /\ UNCHANGED <<row, hash, counters, net, ops, crashes>>

\* Mutant: the time to live is not set with the field.
WrittenForever(p) ==
    [hash EXCEPT !.quota = IF job[p].set THEN job[p].d ELSE @ + job[p].d,
                 !.status = IF hash = NoHash THEN "missing" ELSE @,
                 !.ttl = hash # NoHash]

\* ... then the field and the time again.  A key that went meanwhile comes back with
\* this field alone.
Written(p) ==
    [hash EXCEPT !.quota = IF job[p].set THEN job[p].d ELSE @ + job[p].d,
                 !.status = IF hash = NoHash THEN "missing" ELSE @,
                 !.ttl = TRUE]

CacheWrite(p) ==
    /\ job[p].at = "write"
    /\ \/ hash' = Written(p) /\ UNCHANGED faults
       \/ Fault /\ UNCHANGED hash
    /\ job' = [job EXCEPT ![p] = After(p)]
    /\ UNCHANGED <<row, counters, net, ops, crashes>>

\* GetUserCache that finds no hash, or one without a role, which it does not serve, or
\* that cannot read it: the row is read, and the whole hash filled from it.
Read(p) ==
    /\ job[p].at = "idle"
    /\ \/ hash.status \notin Status /\ UNCHANGED faults
       \/ Fault
    /\ job' = [job EXCEPT ![p] = [Idle EXCEPT !.at = "fill", !.copy = row]]
    /\ UNCHANGED <<row, hash, counters, net, ops, crashes>>

\* updateUserCache: the whole hash, from the row that was read.
Fill(p) ==
    /\ job[p].at = "fill"
    /\ \/ /\ hash' = [quota |-> job[p].copy.quota, status |-> job[p].copy.status, ttl |-> TRUE]
          /\ job' = [job EXCEPT ![p] = After(p)] /\ UNCHANGED faults
       \/ Fault /\ job' = [job EXCEPT ![p] = Idle] /\ UNCHANGED hash
    /\ UNCHANGED <<row, counters, net, ops, crashes>>

\* GetUserQuota from the database; the balance goes to the hash.
ReadQuota(p) ==
    /\ Asked(p)
    /\ job' = [job EXCEPT ![p] = [Idle EXCEPT !.at = "ttl", !.d = row.quota, !.set = TRUE]]
    /\ UNCHANGED <<row, hash, counters, net, faults, crashes>>

Expire ==
    /\ hash.ttl /\ hash' = NoHash
    /\ UNCHANGED <<row, job, counters, net, ops, faults, crashes>>

-----------------------------------------------------------------------------
(* The balance. *)

\* cacheIncrUserQuota, and what follows.
Increment(d, next) == [at |-> "ttl", d |-> d, set |-> FALSE, copy |-> Idle.copy, next |-> next]

\* DecreaseUserQuotaGuarded: the row if it has enough, then the hash.
Hold(p) ==
    /\ Asked(p) /\ row.quota >= 1
    /\ row' = [row EXCEPT !.quota = @ - 1] /\ net' = net - 1
    /\ job' = [job EXCEPT ![p] = Increment(-1, "idle")]
    /\ UNCHANGED <<hash, counters, faults, crashes>>

\* IncreaseUserQuota and DecreaseUserQuota: the hash first, ...
Change(p, d) ==
    /\ Asked(p)
    /\ job' = [job EXCEPT ![p] = Increment(d, "row")]
    /\ UNCHANGED <<row, hash, counters, net, faults, crashes>>

\* ... then the row; the hash is changed back when that fails.
ChangeRow(p) ==
    /\ job[p].at = "row"
    /\ \/ /\ row' = [row EXCEPT !.quota = @ + job[p].d] /\ net' = net + job[p].d
          /\ job' = [job EXCEPT ![p] = Idle] /\ UNCHANGED faults
       \/ /\ Fault /\ UNCHANGED <<row, net>>
          /\ job' = [job EXCEPT ![p] = Increment(-job[p].d, "idle")]
    /\ UNCHANGED <<hash, counters, ops, crashes>>

\* ManageUser "override" writes the row alone.
Override(p) ==
    /\ Asked(p)
    /\ row' = [row EXCEPT !.quota = Start] /\ net' = 0
    /\ UNCHANGED <<hash, job, counters, faults, crashes>>

-----------------------------------------------------------------------------
(* The other columns. *)

\* ManageUser, for a status, and UpdateSetting read the row ...
Edit(p, what) ==
    /\ Asked(p)
    /\ job' = [job EXCEPT ![p] = [Idle EXCEPT
                  !.at = "columns",
                  !.copy = IF what = "setting" THEN row ELSE [row EXCEPT !.status = what],
                  !.next = IF what = "setting" THEN "idle" ELSE "drop"]]
    /\ UNCHANGED <<row, hash, counters, net, faults, crashes>>

\* Mutant: the row is written back as it was read.
ColumnsAll(p) ==
    /\ job[p].at = "columns"
    /\ \/ row' = job[p].copy /\ job' = [job EXCEPT ![p].at = "reread"] /\ UNCHANGED faults
       \/ Fault /\ job' = [job EXCEPT ![p] = Idle] /\ UNCHANGED row
    /\ UNCHANGED <<hash, counters, net, ops, crashes>>

\* ... updateColumns writes the columns that were changed and no other, ...
Columns(p) ==
    /\ job[p].at = "columns"
    /\ \/ /\ row' = IF job[p].next = "drop" THEN [row EXCEPT !.status = job[p].copy.status] ELSE row
          /\ job' = [job EXCEPT ![p].at = "reread"] /\ UNCHANGED faults
       \/ Fault /\ job' = [job EXCEPT ![p] = Idle] /\ UNCHANGED row
    /\ UNCHANGED <<hash, counters, net, ops, crashes>>

\* ... reads the row again and fills the cache (Fill); ...
Reread(p) ==
    /\ job[p].at = "reread"
    /\ \/ job' = [job EXCEPT ![p].at = "fill", ![p].copy = row] /\ UNCHANGED faults
       \/ Fault /\ job' = [job EXCEPT ![p] = Idle]
    /\ UNCHANGED <<row, hash, counters, net, ops, crashes>>

\* ... and a change of the status drops the hash again (InvalidateUserCache).
Drop(p) ==
    /\ job[p].at = "drop" /\ job' = [job EXCEPT ![p] = Idle]
    /\ \/ hash' = NoHash /\ UNCHANGED faults
       \/ Fault /\ UNCHANGED hash
    /\ UNCHANGED <<row, counters, net, ops, crashes>>

-----------------------------------------------------------------------------
(* The statistics. *)

\* UpdateUserUsedQuotaAndRequestCount: addNewRecord of each type.
AddNewRecord(p, t) ==
    /\ IF t = "used" THEN Asked(p) ELSE job[p].at = "count" /\ UNCHANGED ops
    /\ job' = [job EXCEPT ![p].at = IF t = "used" THEN "count" ELSE "idle"]
    /\ store' = [store EXCEPT ![t] = @ + 1] /\ counted' = [counted EXCEPT ![t] = @ + 1]
    /\ UNCHANGED <<row, hash, batch, total, net, faults, crashes>>

BatchWakes ==
    /\ batch.at = "asleep" /\ \E t \in Types : store[t] > 0
    /\ batch' = [at |-> "take", type |-> "used", taken |-> 0]
    /\ UNCHANGED <<row, hash, job, store, total, net, counted, ops, faults, crashes>>

\* Mutant: the store is emptied when it has been written.
BatchTakeLate ==
    /\ batch.at = "take"
    /\ batch' = [batch EXCEPT !.at = "write", !.taken = store[batch.type]]
    /\ UNCHANGED <<row, hash, job, store, total, net, counted, ops, faults, crashes>>

\* Under the lock the store is replaced by an empty one, ...
BatchTake ==
    /\ batch.at = "take"
    /\ batch' = [batch EXCEPT !.at = "write", !.taken = store[batch.type]]
    /\ store' = [store EXCEPT ![batch.type] = 0]
    /\ UNCHANGED <<row, hash, job, total, net, counted, ops, faults, crashes>>

\* ... and written when the lock is gone; what cannot be written is only logged.
BatchWrite ==
    /\ batch.at = "write"
    /\ \/ total' = [total EXCEPT ![batch.type] = @ + batch.taken] /\ UNCHANGED faults
       \/ Fault /\ batch.taken > 0 /\ UNCHANGED total
    /\ batch' = [at |-> IF batch.type = "used" THEN "take" ELSE "asleep",
                 type |-> IF batch.type = "used" THEN "count" ELSE "used", taken |-> 0]
    /\ UNCHANGED <<row, hash, job, store, net, counted, ops, crashes>>

-----------------------------------------------------------------------------

\* The server starts again; the row and Redis stay.
Crash ==
    /\ crashes < MaxCrashes /\ crashes' = crashes + 1
    /\ job' = [p \in Procs |-> Idle]
    /\ store' = [t \in Types |-> 0] /\ batch' = [at |-> "asleep", type |-> "used", taken |-> 0]
    /\ UNCHANGED <<row, hash, total, net, counted, ops, faults>>

Goes(p) ==
    \/ CacheTtl(p) \/ CacheWrite(p) \/ Fill(p) \/ ChangeRow(p)
    \/ Columns(p) \/ Reread(p) \/ Drop(p) \/ AddNewRecord(p, "count")

Batch == BatchWakes \/ BatchTake \/ BatchWrite

Next ==
    \/ \E p \in Procs :
         \/ Read(p) \/ ReadQuota(p) \/ Hold(p) \/ Override(p) \/ AddNewRecord(p, "used")
         \/ \E d \in {1, -1} : Change(p, d)
         \/ \E what \in Status \cup {"setting"} : Edit(p, what)
         \/ Goes(p)
    \/ Batch \/ Expire \/ Crash

Spec == Init /\ [][Next]_vars

\* Goroutines go on, the loop wakes, and a key with a time to live expires.
LiveSpec == Spec /\ (\A p \in Procs : WF_vars(Goes(p))) /\ WF_vars(Batch) /\ WF_vars(Expire)

-----------------------------------------------------------------------------
(* Properties. *)

\* The balance is what the changes come to: none is undone by an edit of other columns
\* that read the row before it (the comment at updateColumns), by a failed cache or by a
\* restart.
EveryChangeKept == row.quota = Start + net

\* Whatever readers put back, calls of Redis that fail and partial hashes leave behind,
\* the cache in the end shows the row, or nothing.
CacheConverges == <>[](hash = NoHash \/ (hash.quota = row.quota /\ hash.status = row.status))

\* Statistics are counted once, though records come in while batchUpdate writes; only a
\* write that fails or a restart loses any.
CountedOnce ==
    \A t \in Types :
        LET sum == total[t] + store[t] + IF batch.at = "write" /\ batch.type = t THEN batch.taken ELSE 0
        IN  sum <= counted[t] /\ (faults + crashes = 0 => sum = counted[t])

\* When a user has been disabled, and ManageUser is through, the cache does not serve
\* the old status ("a ban takes effect at once for a session that is logged in").
DisabledAtOnce ==
    (row.status = "disabled" /\ \A p \in Procs : job[p].next # "drop") => hash.status # "enabled"
=============================================================================
