--------------------------- MODULE ChannelStatus ---------------------------
(***************************************************************************)
(* The status of one upstream channel, kept three times: in its row and in *)
(* the ability rows of the database, and in the memory cache of every      *)
(* server process, which is rebuilt from the rows at intervals and after   *)
(* each administrative change.  Failing requests and the periodic channel  *)
(* test write it (UpdateChannelStatus), and so do administrators.          *)
(*                                                                         *)
(* A channel has one key, or several with a status of their own, kept by   *)
(* the position of the key.  Each step below is one critical section or    *)
(* one statement of the database; the lock channelStatusLock makes the     *)
(* updates of one process wait for each other when the cache is on.        *)
(***************************************************************************)
EXTENDS Integers, Sequences, FiniteSets

CONSTANTS
    Nodes,       \* the server processes
    Keys,        \* the texts of the keys
    InitialKeys, \* the keys of the channel at the start, when it has several
    Admin,       \* the administrator, who rebuilds a cache too
    NoKey,       \* the empty key of a request that found no enabled key
    Cached,      \* MEMORY_CACHE_ENABLED
    Multi,       \* the channel may have several keys
    MaxEvents,   \* bounds: failing requests, changes by administrators and runs of the
    MaxFaults    \* channel test together; database errors

ASSUME ChannelAssumption ==
    /\ Nodes # {} /\ Admin \notin Nodes
    /\ Cached \subseteq BOOLEAN /\ Multi \subseteq BOOLEAN
    /\ InitialKeys \in Seq(Keys) /\ InitialKeys # <<>> /\ NoKey \notin Keys
    /\ MaxEvents \in Nat /\ MaxFaults \in Nat

VARIABLES
    mode,     \* [cached, multi], fixed at the start
    row,      \* the row in the table channels
    ability,  \* abilities.enabled of the channel
    cache,    \* channelsIDM of each process
    listed,   \* group2model2channels of each process has the channel
    pending,  \* updates asked for in each process that have not started
    upd,      \* the update each process is executing
    reb,      \* rebuilds of a cache: the loop of each process, and the administrator's;
              \* without a cache, the choice of a key in turn that a process is making
    adm,      \* the request of an administrator in progress, and its process
    test,     \* the periodic test
    inflight, \* keys of requests in progress in each process
    failed,   \* history: the keys a request has failed with
    blind,    \* history: a key position may stand for another key
    behind,   \* history: the row was changed after the snapshot of the cache
    tangled,  \* history: two writers have overlapped, or one has undone another
    left      \* what is left of the bounds

vars == <<mode, row, ability, cache, listed, pending, upd, reb, adm, test, inflight,
          failed, blind, behind, tangled, left>>

Rebuilders == Nodes \cup {Admin}
Statuses == {"on", "manual", "auto"}

\* The part of a row these steps use: off is MultiKeyStatusList, which has the
\* positions of the disabled keys only; size is MultiKeySize.
Row(status, off, keys) == [status |-> status, off |-> off, keys |-> keys, size |-> Len(keys)]

NoOff == [i \in {} |-> "auto"]
Blank == Row("on", NoOff, <<NoKey>>)
NoUpdate == [at |-> "idle", st |-> "on", key |-> NoKey, x |-> Blank, ab |-> FALSE]
NoRebuild == [at |-> "idle", x |-> Blank, old |-> FALSE]

Init ==
    /\ mode \in [cached : Cached, multi : Multi]
    /\ row = Row("on", NoOff, IF mode.multi THEN InitialKeys ELSE <<InitialKeys[1]>>)
    /\ ability = TRUE
    /\ cache = [n \in Nodes |-> row]
    /\ listed = [n \in Nodes |-> TRUE]
    /\ pending = [n \in Nodes |-> {}]
    /\ upd = [n \in Nodes |-> NoUpdate]
    /\ reb = [r \in Rebuilders |-> NoRebuild]
    /\ adm \in [at : {"idle"}, x : {Blank}, node : Nodes]
    /\ test = [at |-> "idle", x |-> Blank]
    /\ inflight = [n \in Nodes |-> {}]
    /\ failed = {} /\ blind = FALSE
    /\ behind = [n \in Nodes |-> FALSE] /\ tangled = FALSE
    /\ left = [events |-> MaxEvents, faults |-> MaxFaults]

Event == left.events > 0 /\ left' = [left EXCEPT !.events = @ - 1]
Fault == left.faults > 0 /\ left' = [left EXCEPT !.faults = @ - 1]

-----------------------------------------------------------------------------
(* Requests. *)

\* getStatus and enabledIdx of GetNextEnabledKey.
EnabledKeys(x) == {x.keys[i] : i \in DOMAIN x.keys \ DOMAIN x.off}

\* The keys a request may go out with; when all are disabled the distributor
\* drops the error and the request goes out with an empty key.
Usable(x) == IF ~mode.multi THEN {x.keys[1]}
             ELSE IF EnabledKeys(x) = {} THEN {NoKey} ELSE EnabledKeys(x)

\* GetRandomSatisfiedChannel reads the memory cache, GetChannel the abilities.  Only
\* requests that will fail are followed.
Select(n) ==
    /\ Event
    /\ IF mode.cached THEN listed[n] ELSE ability
    /\ \E k \in Usable(IF mode.cached THEN cache[n] ELSE row) :
         inflight' = [inflight EXCEPT ![n] = @ \cup {k}]
    /\ UNCHANGED <<mode, row, ability, cache, listed, pending, upd, reb, adm, test,
                   failed, blind, behind, tangled>>

\* processChannelError: an error that disables starts DisableChannel in a
\* goroutine, with the key the request has used.
RequestFails(n, k) ==
    /\ k \in inflight[n]
    /\ inflight' = [inflight EXCEPT ![n] = @ \ {k}]
    /\ pending' = [pending EXCEPT ![n] = @ \cup {[st |-> "auto", key |-> k]}]
    /\ failed' = failed \cup {k}
    /\ blind' = (blind \/ k = NoKey)
    /\ UNCHANGED <<mode, row, ability, cache, listed, upd, reb, adm, test, behind, tangled, left>>

\* Without a cache, a channel whose keys are used in turn: the distributor reads the
\* row and GetNextEnabledKey, with the next position, saves all of channel_info ...
PollRead(n) ==
    /\ ~mode.cached /\ mode.multi /\ reb[n].at = "idle" /\ Event
    /\ ability /\ EnabledKeys(row) # {}
    /\ reb' = [reb EXCEPT ![n] = [at |-> "poll", x |-> row, old |-> FALSE]]
    /\ UNCHANGED <<mode, row, ability, cache, listed, pending, upd, adm, test, inflight,
                   failed, blind, behind, tangled>>

\* ... with the statuses as they were read (SaveChannelInfo, whose error is dropped).
InfoSaved(x) ==
    \/ /\ row' = [row EXCEPT !.off = x.off, !.size = x.size]
       /\ tangled' = (tangled \/ x.off # row.off \/ x.size # row.size)
       /\ UNCHANGED left
    \/ Fault /\ UNCHANGED <<row, tangled>>

PollSave(n) ==
    /\ reb[n].at = "poll"
    /\ InfoSaved(reb[n].x)
    /\ \E k \in EnabledKeys(reb[n].x) : inflight' = [inflight EXCEPT ![n] = @ \cup {k}]
    /\ reb' = [reb EXCEPT ![n] = NoRebuild]
    /\ UNCHANGED <<mode, ability, cache, listed, pending, upd, adm, test, failed, blind,
                   behind>>

-----------------------------------------------------------------------------
(* UpdateChannelStatus. *)

\* The position of a key; an unknown key counts as the first one.
Position(x, k) ==
    LET P == {i \in DOMAIN x.keys : x.keys[i] = k}
    IN  IF P = {} THEN 1 ELSE CHOOSE i \in P : \A j \in P : i <= j

Off(f, i, st) == [j \in DOMAIN f \cup {i} |-> IF j = i THEN st ELSE f[j]]
Without(f, i) == [j \in DOMAIN f \ {i} |-> f[j]]

\* Mutant: the status goes to every key.
KeyUpdatedForAll(x, k, st) ==
    LET off == [i \in DOMAIN x.keys |-> st]
    IN  IF st = "on" THEN x ELSE [x EXCEPT !.off = off, !.status = "auto"]

\* handlerMultiKeyUpdate.
KeyUpdated(x, k, st) ==
    LET i == Position(x, k)
        off == IF st = "on" THEN Without(x.off, i) ELSE Off(x.off, i, st)
    IN  [x EXCEPT !.off = off,
                  !.status = IF Cardinality(DOMAIN off) >= x.size THEN "auto" ELSE @]

\* Mutant: a disabled channel stays in the lists.
DelistedNever(n, st) == listed

\* CacheUpdateChannelStatus: a disabled channel, which is in a list once, leaves the
\* lists; an enabled one does not come back to them.
Delisted(n, st) == IF st = "on" THEN listed ELSE [listed EXCEPT ![n] = FALSE]

Begun(p) == [NoUpdate EXCEPT !.at = "read", !.st = p.st, !.key = p.key]

\* The part under the locks of the cache; an update of a channel with one key
\* ends here when the cache has the status already.
CacheTakes(n, p) ==
    \/ /\ ~mode.cached
       /\ upd' = [upd EXCEPT ![n] = Begun(p)]
       /\ UNCHANGED <<cache, listed>>
    \/ /\ mode.cached /\ mode.multi
       /\ cache' = [cache EXCEPT ![n] = KeyUpdated(@, p.key, p.st)]
       /\ upd' = [upd EXCEPT ![n] = Begun(p)]
       /\ UNCHANGED listed
    \/ /\ mode.cached /\ ~mode.multi /\ cache[n].status # p.st
       /\ cache' = [cache EXCEPT ![n].status = p.st]
       /\ listed' = Delisted(n, p.st)
       /\ upd' = [upd EXCEPT ![n] = Begun(p)]
    \/ /\ mode.cached /\ ~mode.multi /\ cache[n].status = p.st
       /\ UNCHANGED <<cache, listed, upd>>

UpdateCache(n) ==
    /\ upd[n].at = "idle"
    /\ \E p \in pending[n] :
         /\ pending' = [pending EXCEPT ![n] = @ \ {p}]
         /\ CacheTakes(n, p)
    /\ UNCHANGED <<mode, row, ability, reb, adm, test, inflight, failed, blind, behind,
                   tangled, left>>

\* GetChannelById and the change of the copy; nothing is written when the row
\* has the status already.  A change of a key alone leaves the abilities.
Changed(u) ==
    IF mode.multi THEN KeyUpdated(row, u.key, u.st) ELSE [row EXCEPT !.status = u.st]

UpdateRead(n) ==
    /\ upd[n].at = "read"
    /\ LET u == upd[n] IN
         upd' = [upd EXCEPT ![n] =
            IF row.status = u.st THEN NoUpdate
            ELSE [u EXCEPT !.at = "save", !.x = Changed(u),
                           !.ab = (Changed(u).status # row.status)]]
    /\ UNCHANGED <<mode, row, ability, cache, listed, pending, reb, adm, test, inflight,
                   failed, blind, behind, tangled, left>>

\* Another writer has read or written the row and has not finished.
Others(n) == \/ \E m \in Nodes \ {n} : upd[m].at \in {"save", "ability"}
             \/ n # Admin /\ adm.at \in {"write", "reload", "abilities"}

\* What a new row makes of the copies: a snapshot taken before is old, and a
\* cache is behind unless its own process has taken the channel off its list.
Written(n, x) ==
    /\ row' = x
    /\ reb' = [r \in Rebuilders |-> [reb[r] EXCEPT !.old = @ \/ reb[r].at = "read"]]
    /\ behind' = [m \in Nodes |-> behind[m] \/ m # n \/ mode.multi]
    /\ tangled' = (tangled \/ Others(n))

\* SaveWithoutKey writes the whole copy but the keys.
UpdateSave(n) ==
    /\ upd[n].at = "save"
    /\ \/ Written(n, [upd[n].x EXCEPT !.keys = row.keys]) /\ UNCHANGED left
       \/ Fault /\ UNCHANGED <<row, reb, behind, tangled>>
    /\ upd' = [upd EXCEPT ![n] = IF @.ab THEN [@ EXCEPT !.at = "ability"] ELSE NoUpdate]
    /\ UNCHANGED <<mode, ability, cache, listed, pending, adm, test, inflight, failed, blind>>

\* Mutant: the deferred update of the abilities is dropped for several keys.
UpdateAbilityOneKey(n) ==
    /\ upd[n].at = "ability"
    /\ ability' = IF mode.multi THEN ability ELSE upd[n].st = "on"
    /\ upd' = [upd EXCEPT ![n] = NoUpdate]
    /\ UNCHANGED <<mode, row, cache, listed, pending, reb, adm, test, inflight, failed,
                   blind, behind, tangled, left>>

\* The deferred UpdateAbilityStatus; its failure is only logged.
UpdateAbility(n) ==
    /\ upd[n].at = "ability"
    /\ \/ ability' = (upd[n].st = "on") /\ UNCHANGED left
       \/ Fault /\ UNCHANGED ability
    /\ upd' = [upd EXCEPT ![n] = NoUpdate]
    /\ UNCHANGED <<mode, row, cache, listed, pending, reb, adm, test, inflight, failed,
                   blind, behind, tangled>>

-----------------------------------------------------------------------------
(* InitChannelCache. *)

\* DB.Find, before the lock is taken; the administrator's requests end with it.
RebuildRead(r) ==
    /\ reb[r].at = "idle" /\ mode.cached
    /\ r = Admin => adm.at = "rebuild"
    /\ reb' = [reb EXCEPT ![r] = [at |-> "read", x |-> row, old |-> FALSE]]
    /\ UNCHANGED <<mode, row, ability, cache, listed, pending, upd, adm, test, inflight,
                   failed, blind, behind, tangled, left>>

Home(r) == IF r = Admin THEN adm.node ELSE r

\* The snapshot is from before a change, or before one this process is making.
Overtaken(r) == reb[r].old \/ upd[Home(r)].at \in {"read", "save"}

\* Mutant: disabled channels are listed too.
RebuildPublishAll(r) ==
    /\ reb[r].at = "read"
    /\ cache' = [cache EXCEPT ![Home(r)] = reb[r].x]
    /\ listed' = [listed EXCEPT ![Home(r)] = TRUE]
    /\ behind' = [behind EXCEPT ![Home(r)] = Overtaken(r)]
    /\ reb' = [reb EXCEPT ![r] = NoRebuild]
    /\ adm' = IF r = Admin THEN [adm EXCEPT !.at = "idle", !.x = Blank] ELSE adm
    /\ UNCHANGED <<mode, row, ability, pending, upd, test, inflight, failed, blind, tangled, left>>

\* The cache is replaced under the lock.
RebuildPublish(r) ==
    /\ reb[r].at = "read"
    /\ cache' = [cache EXCEPT ![Home(r)] = reb[r].x]
    /\ listed' = [listed EXCEPT ![Home(r)] = (reb[r].x.status = "on")]
    /\ behind' = [behind EXCEPT ![Home(r)] = Overtaken(r)]
    /\ reb' = [reb EXCEPT ![r] = NoRebuild]
    /\ adm' = IF r = Admin THEN [adm EXCEPT !.at = "idle", !.x = Blank] ELSE adm
    /\ UNCHANGED <<mode, row, ability, pending, upd, test, inflight, failed, blind, tangled,
                   left>>

-----------------------------------------------------------------------------
(* Administrators. *)

\* GetChannelById at the start of ManageMultiKeys and UpdateChannel.
AdminRead ==
    /\ adm.at = "idle" /\ Event
    /\ adm' = [adm EXCEPT !.at = "write", !.x = row]
    /\ UNCHANGED <<mode, row, ability, cache, listed, pending, upd, reb, test, inflight,
                   failed, blind, behind, tangled>>

\* Channel.Update: the size follows the keys, positions past the end are dropped.
Trimmed(status, off, keys) ==
    Row(status, [i \in DOMAIN off \cap DOMAIN keys |-> off[i]], keys)

\* The positions kept, in their order, and the row with these keys only.
Orders(keep) ==
    {e \in UNION {[1 .. m -> keep] : m \in 0 .. Cardinality(keep)} :
        /\ \A i \in keep : \E k \in DOMAIN e : e[k] = i
        /\ \A j, k \in DOMAIN e : j < k => e[j] < e[k]}

Kept(x, e) ==
    Row(x.status, [k \in {j \in DOMAIN e : e[j] \in DOMAIN x.off} |-> x.off[e[k]]],
        [k \in DOMAIN e |-> x.keys[e[k]]])

AdminWrites(x) == Written(Admin, x)
KeepOnly(keep) == \E e \in Orders(keep) : AdminWrites(Kept(adm.x, e))

\* disable_key, enable_key, enable_all_keys, disable_all_keys of ManageMultiKeys:
\* the row is written as it was read, with the statuses of the keys changed.
AdminKeys ==
    /\ adm.at = "write" /\ mode.multi
    /\ LET x == adm.x
       IN  \E off \in {Off(x.off, i, "manual") : i \in DOMAIN x.keys}
                      \cup {Without(x.off, i) : i \in DOMAIN x.keys} \cup {NoOff}
                      \cup {[i \in DOMAIN x.keys |-> IF i \in DOMAIN x.off THEN x.off[i] ELSE "manual"]} :
             AdminWrites(Trimmed(x.status, off, x.keys))
    /\ adm' = [adm EXCEPT !.at = "reload", !.x = Blank]
    /\ UNCHANGED <<mode, ability, cache, listed, pending, upd, test, inflight, failed,
                   blind, left>>

\* delete_key, which keeps the last one, and delete_disabled_keys, which deletes
\* those disabled automatically; when these are all of them the empty text of the
\* keys is not written, and they stay without their statuses.
AdminDeleteKeys ==
    /\ adm.at = "write" /\ mode.multi
    /\ LET x == adm.x
           auto == {i \in DOMAIN x.off : x.off[i] = "auto"}
           all == DOMAIN x.keys
       IN  \/ \E i \in all : Len(x.keys) > 1 /\ KeepOnly(all \ {i})
           \/ auto # {} /\ ~(all \subseteq auto) /\ KeepOnly(all \ auto)
           \/ all \subseteq auto /\ AdminWrites(Row(x.status, NoOff, row.keys))
    /\ blind' = TRUE
    /\ adm' = [adm EXCEPT !.at = "reload", !.x = Blank]
    /\ UNCHANGED <<mode, ability, cache, listed, pending, upd, test, inflight, failed, left>>

\* A key is appended unless the channel has it.
Appended(keys, k) == IF \E i \in DOMAIN keys : keys[i] = k THEN keys ELSE Append(keys, k)

\* UpdateChannel: the form sets the status or leaves it, and may replace the keys or
\* append to those read before; the statuses of the keys are those read before.
AdminForm ==
    /\ adm.at = "write"
    /\ \E status \in {row.status, "on", "manual"} :
         \/ AdminWrites(Trimmed(status, adm.x.off, row.keys)) /\ UNCHANGED blind
         \/ /\ mode.multi /\ blind' = TRUE
            /\ \E k \in Keys : \E keys \in {<<k>>, Appended(adm.x.keys, k)} :
                 AdminWrites(Trimmed(status, adm.x.off, keys))
    /\ adm' = [adm EXCEPT !.at = "reload", !.x = Blank]
    /\ UNCHANGED <<mode, ability, cache, listed, pending, upd, test, inflight, failed, left>>

\* DB.First after the update.
AdminReload ==
    /\ adm.at = "reload"
    /\ adm' = [adm EXCEPT !.at = "abilities", !.x = row]
    /\ UNCHANGED <<mode, row, ability, cache, listed, pending, upd, reb, test, inflight,
                   failed, blind, behind, tangled, left>>

\* EnableChannelByTag, DisableChannelByTag.
AdminTag ==
    /\ adm.at = "idle" /\ Event
    /\ \E status \in {"on", "manual"} :
         /\ AdminWrites([row EXCEPT !.status = status])
         /\ adm' = [adm EXCEPT !.at = "abilities", !.x = [row EXCEPT !.status = status]]
    /\ UNCHANGED <<mode, ability, cache, listed, pending, upd, test, inflight, failed, blind>>

\* Channel.UpdateAbilities, UpdateAbilityStatusByTag; after an error the request
\* ends without rebuilding the cache.
AdminAbilities ==
    /\ adm.at = "abilities"
    /\ \/ /\ ability' = (adm.x.status = "on") /\ UNCHANGED left
          /\ adm' = [adm EXCEPT !.at = IF mode.cached THEN "rebuild" ELSE "idle", !.x = Blank]
       \/ /\ Fault /\ UNCHANGED ability
          /\ adm' = [adm EXCEPT !.at = "idle", !.x = Blank]
    /\ UNCHANGED <<mode, row, cache, listed, pending, upd, reb, test, inflight, failed,
                   blind, behind, tangled>>

AdminStep == AdminKeys \/ AdminDeleteKeys \/ AdminForm \/ AdminReload \/ AdminAbilities

-----------------------------------------------------------------------------
(* testAllChannels. *)

\* The flag of a running test is set before the channels are read, and left set
\* when that fails.
TestStart ==
    /\ test.at = "idle"
    /\ \/ test' = [at |-> "running", x |-> row] /\ Event
       \/ test' = [test EXCEPT !.at = "stuck"] /\ Fault
    /\ UNCHANGED <<mode, row, ability, cache, listed, pending, upd, reb, adm, inflight,
                   failed, blind, behind, tangled>>

\* A key used in turn is saved as by a request, with the statuses read at the start.
TestPolls ==
    /\ test.at = "running" /\ ~mode.cached /\ mode.multi
    /\ test.x.status # "manual" /\ EnabledKeys(test.x) # {}
    /\ InfoSaved(test.x)
    /\ test' = [test EXCEPT !.at = "polled"]
    /\ UNCHANGED <<mode, ability, cache, listed, pending, upd, reb, adm, inflight, failed,
                   blind, behind>>

\* One test, with a key of the row as read: a failure may disable the channel, a
\* success enables one that was disabled automatically then.
TestEnds(n) ==
    /\ test.at \in {"running", "polled"}
    /\ \E k \in Usable(test.x) :
         \/ /\ test.x.status = "on"
            /\ pending' = [pending EXCEPT ![n] = @ \cup {[st |-> "auto", key |-> k]}]
            /\ failed' = failed \cup {k} /\ blind' = (blind \/ k = NoKey)
         \/ /\ test.x.status = "auto" /\ k # NoKey
            /\ pending' = [pending EXCEPT ![n] = @ \cup {[st |-> "on", key |-> k]}]
            /\ UNCHANGED <<failed, blind>>
         \/ UNCHANGED <<pending, failed, blind>>
    /\ test' = [at |-> "idle", x |-> Blank]
    /\ UNCHANGED <<mode, row, ability, cache, listed, upd, reb, adm, inflight, behind, tangled, left>>

-----------------------------------------------------------------------------

Poll(n) == PollRead(n) \/ PollSave(n)
Update(n) == UpdateCache(n) \/ UpdateRead(n) \/ UpdateSave(n) \/ UpdateAbility(n)
Rebuild(r) == RebuildRead(r) \/ RebuildPublish(r)

Next ==
    \/ \E n \in Nodes : Select(n) \/ Poll(n) \/ Update(n) \/ TestEnds(n)
    \/ \E n \in Nodes, k \in Keys \cup {NoKey} : RequestFails(n, k)
    \/ \E r \in Rebuilders : Rebuild(r)
    \/ AdminRead \/ AdminTag \/ AdminStep
    \/ TestStart \/ TestPolls

Spec == Init /\ [][Next]_vars

\* Goroutines and handlers that have started go on, and SyncChannelCache repeats.
LiveSpec ==
    /\ Spec
    /\ \A n \in Nodes : WF_vars(Update(n)) /\ WF_vars(Rebuild(n))
    /\ WF_vars(AdminStep \/ Rebuild(Admin)) /\ WF_vars(\E n \in Nodes : TestEnds(n))

-----------------------------------------------------------------------------
(* Properties. *)

IsRow(x) ==
    /\ x = [status |-> x.status, off |-> x.off, keys |-> x.keys, size |-> x.size]
    /\ x.status \in Statuses /\ x.size \in Nat
    /\ x.keys \in Seq(Keys \cup {NoKey}) /\ x.keys # <<>>
    /\ x.off = [i \in DOMAIN x.off |-> x.off[i]]
    /\ \A i \in DOMAIN x.off : i \in Nat /\ x.off[i] \in {"manual", "auto"}

IsUpdate(u) ==
    /\ u = [at |-> u.at, st |-> u.st, key |-> u.key, x |-> u.x, ab |-> u.ab]
    /\ u.at \in {"idle", "read", "save", "ability"} /\ u.st \in {"on", "auto"}
    /\ u.key \in Keys \cup {NoKey} /\ IsRow(u.x) /\ u.ab \in BOOLEAN

IsRebuild(b) ==
    /\ b = [at |-> b.at, x |-> b.x, old |-> b.old]
    /\ b.at \in {"idle", "read", "poll"} /\ IsRow(b.x) /\ b.old \in BOOLEAN

IsAdmin(a) ==
    /\ a = [at |-> a.at, x |-> a.x, node |-> a.node]
    /\ a.at \in {"idle", "write", "reload", "abilities", "rebuild"}
    /\ IsRow(a.x) /\ a.node \in Nodes

\* The variables have their types.
TypeOK ==
    /\ mode \in [cached : BOOLEAN, multi : BOOLEAN]
    /\ IsRow(row) /\ ability \in BOOLEAN
    /\ cache = [n \in Nodes |-> cache[n]] /\ \A n \in Nodes : IsRow(cache[n])
    /\ listed \in [Nodes -> BOOLEAN]
    /\ pending \in [Nodes -> SUBSET [st : {"on", "auto"}, key : Keys \cup {NoKey}]]
    /\ upd = [n \in Nodes |-> upd[n]] /\ \A n \in Nodes : IsUpdate(upd[n])
    /\ reb = [r \in Rebuilders |-> reb[r]] /\ \A r \in Rebuilders : IsRebuild(reb[r])
    /\ IsAdmin(adm)
    /\ test = [at |-> test.at, x |-> test.x] /\ IsRow(test.x)
    /\ inflight \in [Nodes -> SUBSET (Keys \cup {NoKey})]
    /\ failed \subseteq Keys \cup {NoKey} /\ blind \in BOOLEAN
    /\ behind \in [Nodes -> BOOLEAN] /\ tangled \in BOOLEAN
    /\ left \in [events : Nat, faults : Nat]

\* While every update of a key has named a key and no key has been taken away, a key
\* is disabled automatically only after a request has failed with that very key,
\* in the row and in every copy of it, whatever updates, rebuilds and changes by
\* administrators overlap (handlerMultiKeyUpdate finds the position by the text).
OnlyFailedKeysDisabled ==
    ~blind =>
        \A x \in {row} \cup {cache[n] : n \in Nodes} :
            \A i \in DOMAIN x.off : x.off[i] = "auto" => x.keys[i] \in failed

\* A process that has disabled a channel of one key itself never chooses it again
\* while the row is disabled, unless it has published a snapshot from before, or
\* another writer has changed the row since (CacheUpdateChannelStatus and
\* InitChannelCache, which reads before it locks).
DisabledLeavesLists ==
    mode.cached => \A n \in Nodes : listed[n] /\ row.status # "on" => behind[n]

\* What the two properties above rest on, in the copies that steps carry: a key
\* that is to be disabled has failed and is one of the channel's, a snapshot that is
\* not old has the status of the row, and a process about to write "disabled" has
\* taken the channel off its list.
Original == IF mode.multi THEN InitialKeys ELSE <<InitialKeys[1]>>
Texts(keys) == {keys[i] : i \in DOMAIN keys}
Earned(x) ==
    x.keys = Original /\ \A i \in DOMAIN x.off : x.off[i] = "auto" => x.keys[i] \in failed

KeysKept ==
    ~blind =>
        /\ Earned(row) /\ \A n \in Nodes : Earned(cache[n])
        /\ \A n \in Nodes :
             /\ upd[n].at = "save" => Earned(upd[n].x)
             /\ upd[n].at = "read" /\ upd[n].st = "auto" => upd[n].key \in failed \cap Texts(Original)
             /\ \A p \in pending[n] : p.st = "auto" => p.key \in failed \cap Texts(Original)
             /\ inflight[n] \subseteq Texts(Original) \cup {NoKey}
        /\ \A r \in Rebuilders : reb[r].at # "idle" => Earned(reb[r].x)
        /\ adm.at = "write" => Earned(adm.x)
        /\ test.at \in {"running", "polled"} => Earned(test.x)

ListsKept ==
    mode.cached =>
        /\ \A r \in Rebuilders : reb[r].at = "read" /\ ~reb[r].old => reb[r].x.status = row.status
        /\ ~mode.multi => \A n \in Nodes :
             /\ upd[n].at \in {"read", "save"} /\ upd[n].st # "on" /\ listed[n] => behind[n]
             /\ upd[n].at = "save" => upd[n].x.status = upd[n].st

IInv == OnlyFailedKeysDisabled /\ DisabledLeavesLists /\ KeysKept /\ ListsKept

\* Nobody is between reading the row and the last write that follows from it.
Quiet ==
    /\ \A n \in Nodes : upd[n].at = "idle"
    /\ adm.at \in {"idle", "rebuild"}

\* When no write is in progress, the abilities are enabled exactly when the channel
\* is, whoever has written last, unless two writers have overlapped, one has written
\* back what another had changed, or an error has kept one of them from its second
\* write (UpdateChannelStatus, Channel.Update and the tags write the row and the
\* abilities in statements of their own).
AbilitiesFollow ==
    Quiet /\ ~tangled /\ left.faults = MaxFaults => ability = (row.status = "on")

\* When the writes end, every process comes to choose the channel exactly when
\* the row says so, and knows the statuses of its keys (SyncChannelCache).
CachesConverge ==
    mode.cached => <>[](\A n \in Nodes : listed[n] = (row.status = "on") /\ cache[n] = row)

\* Deleting keys enables none (delete_disabled_keys: "keep the enabled keys and those
\* disabled by hand", "deleted N keys").
DeletingEnablesNone ==
    [][AdminDeleteKeys => EnabledKeys(row') \subseteq EnabledKeys(adm.x)]_vars

\* Choosing the next key leaves the statuses of the keys as they are ("use
\* channel-specific lock to ensure thread-safe polling", GetNextEnabledKey).
PollingKeepsStatuses ==
    [][TestPolls \/ (\E n \in Nodes : PollSave(n)) => row' = row]_vars

\* A test that has begun leaves the flag so that another can begin ("ensure that the
\* running state is reset whatever happens", testAllChannels).
TestsGoOn == []<>(test.at = "idle")
=============================================================================
